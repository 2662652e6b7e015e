-------------------------- MODULE ComplianceProofs --------------------------
(***************************************************************************)
(* The two records kept for an auditor.                                    *)
(*                                                                         *)
(* Delivery of the audit chain: with any number of workers on one cursor,  *)
(* any page size and any failures, the sink holds a beginning of the chain *)
(* that reaches at least as far as the cursor.                             *)
(*                                                                         *)
(* The deletion ledger, for any documents, targets and bounds, any order   *)
(* of mutations, restores, passes and failures: a receipt is one of the    *)
(* deletion in force; and no deleted document comes back into traffic, as  *)
(* long as one page of the reconciler holds the ledger and every mutation  *)
(* goes to all targets.                                                    *)
(***************************************************************************)
EXTENDS AuditDelivery, DeletionLedger, FiniteSetTheorems, SequenceTheorems, TLAPS

-----------------------------------------------------------------------------
(* AuditDelivery *)

\* The k first entries of the chain are at the sink.
Covered(k) == k \in 0 .. Len(audit) /\ \A n \in 1 .. k : audit[n] \in sink

\* The entries are numbered by their place in the chain.
ChainInv ==
    /\ audit \in Seq(Range(audit))
    /\ \A n \in 1 .. Len(audit) : audit[n].sequence = n

SinkInv == sink \subseteq Range(audit) /\ SinkGapFree

\* A batch is a piece of the chain that begins right after what is covered.
BatchOK(batch) ==
    /\ Len(batch) \in Nat \ {0} /\ DOMAIN batch = 1 .. Len(batch)
    /\ \E c \in Nat :
          /\ Covered(c) /\ c + Len(batch) <= Len(audit)
          /\ \A n \in 1 .. Len(batch) : batch[n] = audit[c + n]

\* What a worker has read, however long ago, is still true: the chain and the
\* sink only grow.
AttemptOK(a) ==
    /\ a.step \in {"head", "rows"} => Covered(a.cursor.sequence)
    /\ a.step = "send" => BatchOK(a.batch)
    /\ a.step = "advance" => Covered(a.ack.sequence)

WorkersInv ==
    /\ at \in [Workers -> {at[w] : w \in Workers}]
    /\ \A w \in Workers : at[w] # NoAttempt => AttemptOK(at[w])

DeliveryInv ==
    /\ ChainInv /\ SinkInv /\ WorkersInv
    /\ Covered(cursor.sequence) /\ Boundary(cursor)

-----------------------------------------------------------------------------

(* DeliveryInvInit: an empty chain, an empty sink.                         *)
LEMMA DeliveryInvInit == DeliveryInit => DeliveryInv
  <1> SUFFICES ASSUME DeliveryInit PROVE DeliveryInv
    OBVIOUS
  <1>1. audit = <<>> /\ Len(audit) = 0 /\ cursor.sequence = 0 /\ cursor.hash = ZeroHash
    BY DEF DeliveryInit, CPLogInit, At, Tip
  <1>2. ChainInv
    BY <1>1, EmptySeq DEF ChainInv
  <1>3. SinkInv /\ WorkersInv
    BY DEF DeliveryInit, SinkInv, SinkGapFree, WorkersInv
  <1>4. Covered(cursor.sequence) /\ Boundary(cursor)
    BY <1>1 DEF Covered, Boundary
  <1> QED
    BY <1>2, <1>3, <1>4 DEF DeliveryInv

(* GrowthKeeps: a longer chain and a fuller sink keep what was true.       *)
LEMMA GrowthKeeps ==
    ASSUME Len(audit) \in Nat, Len(audit') \in Nat, Len(audit) <= Len(audit'),
           \A n \in 1 .. Len(audit) : audit'[n] = audit[n],
           sink \subseteq sink'
    PROVE  /\ \A k : Covered(k) => Covered(k)'
           /\ \A b : BatchOK(b) => BatchOK(b)'
           /\ \A a : AttemptOK(a) => AttemptOK(a)'
           /\ \A c : Covered(c.sequence) /\ Boundary(c) => Boundary(c)'
  <1>1. ASSUME NEW k, Covered(k) PROVE Covered(k)'
    BY <1>1 DEF Covered
  <1>2. ASSUME NEW b, BatchOK(b) PROVE BatchOK(b)'
    <2>1. PICK c \in Nat :
             /\ Covered(c) /\ c + Len(b) <= Len(audit)
             /\ \A n \in 1 .. Len(b) : b[n] = audit[c + n]
      BY <1>2 DEF BatchOK
    <2>2. /\ Len(b) \in Nat \ {0} /\ DOMAIN b = 1 .. Len(b)
      BY <1>2 DEF BatchOK
    <2>3. c + Len(b) <= Len(audit') /\ \A n \in 1 .. Len(b) : b[n] = audit'[c + n]
      <3>1. \A n \in 1 .. Len(b) : c + n \in 1 .. Len(audit)
        BY <2>1, <2>2
      <3>2. \A n \in 1 .. Len(b) : audit'[c + n] = audit[c + n]
        BY <3>1
      <3> QED
        BY <2>1, <2>2, <3>2
    <2>4. /\ Covered(c)' /\ c + Len(b) <= Len(audit')
          /\ \A n \in 1 .. Len(b) : b[n] = audit'[c + n]
      BY <1>1, <2>1, <2>3
    <2> QED
      BY <2>1, <2>2, <2>4 DEF BatchOK
  <1>3. ASSUME NEW a, AttemptOK(a) PROVE AttemptOK(a)'
    BY <1>1, <1>2, <1>3 DEF AttemptOK
  <1>4. ASSUME NEW c, Covered(c.sequence), Boundary(c) PROVE Boundary(c)'
    BY <1>4 DEF Covered, Boundary, Hash
  <1> QED
    BY <1>1, <1>2, <1>3, <1>4

(* WriteKeeps: the writers append to the chain.                            *)
LEMMA WriteKeeps ==
    ASSUME DeliveryInv, Write
    PROVE  DeliveryInv'
  <1>1. PICK r : audit' = Extended(audit, r)
    BY DEF Write, Commit, AppendAudit
  <1> DEFINE e == Material(Len(audit) + 1, r, Tip(audit))
             S == Range(audit) \cup {e}
  <1>2. audit' = Append(audit, e) /\ e.sequence = Len(audit) + 1
    BY <1>1 DEF Extended, Material
  <1>3. UNCHANGED <<cursor, deferred, at, sink>>
    BY DEF Write, deliveryVars
  <1> HIDE DEF e
  <1>4. audit \in Seq(S) /\ Len(audit) \in Nat
    BY SeqMonotonic, LenProperties DEF DeliveryInv, ChainInv
  <1>5. /\ audit' \in Seq(S)
        /\ Len(audit') = Len(audit) + 1 /\ audit'[Len(audit) + 1] = e
        /\ \A n \in 1 .. Len(audit) : audit'[n] = audit[n]
    BY <1>2, <1>4, AppendProperties
  <1>6. ChainInv'
    <2>1. audit' \in Seq(Range(audit'))
      BY <1>5, SeqOfRange
    <2>2. \A n \in 1 .. Len(audit) + 1 : n \in 1 .. Len(audit) \/ n = Len(audit) + 1
      BY <1>4
    <2> QED
      BY <1>2, <1>5, <2>1, <2>2 DEF DeliveryInv, ChainInv
  <1>7. SinkInv'
    <2>1. /\ Range(audit) = {audit[n] : n \in 1 .. Len(audit)}
          /\ Range(audit') = {audit'[n] : n \in 1 .. Len(audit')}
      BY <1>4, <1>5, LenProperties DEF Range
    <2>2. sink' \subseteq Range(audit')
      BY <1>3, <1>4, <1>5, <2>1 DEF DeliveryInv, SinkInv
    <2>3. \A f \in sink : f.sequence \in 1 .. Len(audit)
      BY <2>1 DEF DeliveryInv, ChainInv, SinkInv
    <2> QED
      BY <1>3, <1>4, <1>5, <2>2, <2>3 DEF DeliveryInv, SinkInv, SinkGapFree
  <1>8. Len(audit') \in Nat /\ Len(audit) <= Len(audit')
    BY <1>4, <1>5
  <1>9. WorkersInv' /\ (Covered(cursor.sequence) /\ Boundary(cursor))'
    BY <1>3, <1>4, <1>5, <1>8, GrowthKeeps DEF DeliveryInv, WorkersInv
  <1> QED
    BY <1>6, <1>7, <1>9 DEF DeliveryInv

(* AttemptKeeps: a worker moves on over the same chain; the sink holds no  *)
(* less, and what the worker now relies on is true.                        *)
LEMMA AttemptKeeps ==
    ASSUME DeliveryInv, NEW w \in Workers, NEW a, Goto(w, a),
           audit' = audit, sink \subseteq sink', SinkInv',
           a = NoAttempt \/ AttemptOK(a)',
           UNCHANGED cursor \/ (Covered(cursor.sequence) /\ Boundary(cursor))'
    PROVE  DeliveryInv'
  <1>1. /\ Len(audit) \in Nat /\ Len(audit') \in Nat
        /\ Len(audit) <= Len(audit')
        /\ \A n \in 1 .. Len(audit) : audit'[n] = audit[n]
    BY LenProperties DEF DeliveryInv, ChainInv
  <1>2. ChainInv'
    BY DEF DeliveryInv, ChainInv
  <1>3. WorkersInv'
    <2>1. /\ at' \in [Workers -> {at'[v] : v \in Workers}]
          /\ at'[w] = a
          /\ \A v \in Workers \ {w} : at'[v] = at[v]
      BY DEF Goto, DeliveryInv, WorkersInv
    <2>2. ASSUME NEW v \in Workers \ {w}, at'[v] # NoAttempt
          PROVE  AttemptOK(at[v])'
      <3>1. AttemptOK(at[v])
        BY <2>1, <2>2 DEF DeliveryInv, WorkersInv
      <3>2. \A b : AttemptOK(b) => AttemptOK(b)'
        BY <1>1, GrowthKeeps
      <3> QED
        BY <2>1, <3>1, <3>2 DEF AttemptOK
    <2> QED
      BY <2>1, <2>2 DEF WorkersInv
  <1>4. (Covered(cursor.sequence) /\ Boundary(cursor))'
    BY <1>1, GrowthKeeps DEF DeliveryInv
  <1> QED
    BY <1>2, <1>3, <1>4 DEF DeliveryInv

(* ReadRowsKeeps: the page a worker reads begins right after its cursor.   *)
LEMMA ReadRowsKeeps ==
    ASSUME DeliveryInv, NEW w \in Workers, ReadRows(w)
    PROVE  DeliveryInv'
  <1> DEFINE c == at[w].cursor.sequence
             m == Min({Len(audit), c + PageLimit})
             page == Page(at[w])
  <1>1. Covered(c) /\ c \in Nat /\ Len(audit) \in Nat /\ c <= Len(audit)
    BY LenProperties DEF DeliveryInv, ChainInv, WorkersInv, AttemptOK, ReadRows, Covered
  <1>2. m \in Nat /\ m <= Len(audit)
    <2>1. PageLimit \in Nat /\ c + PageLimit \in Nat
      BY <1>1, DeliveryAssumption
    <2>2. \E x \in {Len(audit), c + PageLimit} :
             \A y \in {Len(audit), c + PageLimit} : x <= y
      BY <1>1, <2>1
    <2> QED
      BY <1>1, <2>1, <2>2 DEF Min
  <1>3. page = SubSeq(audit, c + 1, m)
    BY DEF Page
  <1> HIDE DEF c, m, page
  <1>4. /\ page \in Seq(Range(audit))
        /\ Len(page) = IF c + 1 <= m THEN m - c ELSE 0
        /\ \A n \in 1 .. m - c : page[n] = audit[c + n]
    <2>1. \A i \in c + 1 .. m : audit[i] \in Range(audit)
      BY <1>1, <1>2, ElementOfSeq DEF DeliveryInv, ChainInv
    <2>2. /\ SubSeq(audit, c + 1, m) \in Seq(Range(audit))
          /\ Len(SubSeq(audit, c + 1, m)) = IF c + 1 <= m THEN m - (c + 1) + 1 ELSE 0
          /\ \A i \in 1 .. m - (c + 1) + 1 : SubSeq(audit, c + 1, m)[i] = audit[(c + 1) + i - 1]
      BY <1>1, <1>2, <2>1, SubSeqProperties
    <2>3. \A i \in 1 .. m - c : (c + 1) + i - 1 = c + i
      BY <1>1, <1>2
    <2>4. m - (c + 1) + 1 = m - c
      BY <1>1, <1>2
    <2> QED
      BY <1>3, <2>2, <2>3, <2>4
  <1>5. UNCHANGED <<cpLogVars, cursor, sink>>
    BY DEF ReadRows
  <1>6. audit' = audit /\ sink' = sink /\ SinkInv' /\ UNCHANGED cursor
    BY <1>5 DEF cpLogVars, DeliveryInv, SinkInv, SinkGapFree
  <1>7. CASE Deliverable(at[w], page)
    <2>1. PICK p : p = page
      OBVIOUS
    <2>2. p # <<>> /\ Len(p) \in Nat /\ DOMAIN p = 1 .. Len(p)
      BY <1>4, <1>7, <2>1, LenProperties DEF Deliverable
    <2>3. Len(p) > 0 /\ c + Len(p) <= Len(audit) /\ Len(p) = m - c
      BY <1>1, <1>2, <1>4, <2>1, <2>2, EmptySeq
    <2>4. BatchOK(p)
      BY <1>1, <1>4, <2>1, <2>2, <2>3 DEF BatchOK
    <2>5. BatchOK(p)'
      BY <1>6, <2>4 DEF BatchOK, Covered
    <2>6. PICK a : a = [step |-> "send", batch |-> p]
      OBVIOUS
    <2>7. Goto(w, a)
      BY <1>7, <2>1, <2>6 DEF ReadRows, page, Goto
    <2>8. AttemptOK(a)'
      BY <2>5, <2>6 DEF AttemptOK
    <2> QED
      BY <1>6, <2>7, <2>8, AttemptKeeps
  <1>8. CASE ~ Deliverable(at[w], page)
    <2>1. Goto(w, NoAttempt)
      BY <1>8 DEF ReadRows, page
    <2> QED
      BY <1>6, <2>1, AttemptKeeps
  <1> QED
    BY <1>7, <1>8

(* ReachesSink: a batch at the sink carries the coverage on to its end,    *)
(* and the sink still holds a beginning of the chain.                      *)
LEMMA ReachesSink ==
    ASSUME DeliveryInv, NEW batch, BatchOK(batch), audit' = audit,
           sink' = sink \cup {batch[n] : n \in DOMAIN batch}
    PROVE  /\ sink \subseteq sink' /\ SinkInv'
           /\ Covered(Last(batch).sequence)'
  <1>1. PICK c \in Nat :
           /\ Covered(c) /\ c + Len(batch) <= Len(audit)
           /\ \A n \in 1 .. Len(batch) : batch[n] = audit[c + n]
    BY DEF BatchOK
  <1>2. /\ Len(batch) \in Nat \ {0} /\ DOMAIN batch = 1 .. Len(batch)
        /\ Len(audit) \in Nat
    BY LenProperties DEF BatchOK, DeliveryInv, ChainInv
  <1>3. \A k \in 1 .. c + Len(batch) : audit[k] \in sink'
    <2>1. ASSUME NEW k \in 1 .. c + Len(batch), k > c PROVE audit[k] \in sink'
      <3>1. k - c \in 1 .. Len(batch) /\ c + (k - c) = k
        BY <1>2, <2>1
      <3>2. batch[k - c] = audit[k]
        BY <1>1, <3>1
      <3> QED
        BY <1>2, <3>1, <3>2
    <2>2. ASSUME NEW k \in 1 .. c + Len(batch), ~ (k > c) PROVE audit[k] \in sink'
      BY <1>1, <1>2, <2>2 DEF Covered
    <2> QED
      BY <2>1, <2>2
  <1>4. \A n \in 1 .. Len(batch) :
           batch[n] \in Range(audit) /\ batch[n].sequence = c + n /\ c + n <= c + Len(batch)
    <2> SUFFICES ASSUME NEW n \in 1 .. Len(batch)
                 PROVE  /\ batch[n] \in Range(audit)
                        /\ batch[n].sequence = c + n /\ c + n <= c + Len(batch)
      OBVIOUS
    <2>1. c + n \in 1 .. Len(audit) /\ c + n <= c + Len(batch)
      BY <1>1, <1>2
    <2>2. audit[c + n] \in Range(audit)
      BY <2>1, ElementOfSeq DEF DeliveryInv, ChainInv
    <2> QED
      BY <1>1, <2>1, <2>2 DEF DeliveryInv, ChainInv
  <1>5. SinkInv'
    <2>1. sink' \subseteq Range(audit')
      BY <1>2, <1>4 DEF DeliveryInv, SinkInv
    <2>2. ASSUME NEW e \in sink', NEW n \in 1 .. e.sequence PROVE audit[n] \in sink'
      <3>1. CASE e \in sink
        BY <2>2, <3>1 DEF DeliveryInv, SinkInv, SinkGapFree
      <3>2. CASE e \notin sink
        <4>1. PICK m \in 1 .. Len(batch) : e = batch[m]
          BY <1>2, <2>2, <3>2
        <4>2. n \in 1 .. c + Len(batch)
          BY <1>1, <1>2, <1>4, <2>2, <4>1
        <4> QED
          BY <1>3, <4>2
      <3> QED
        BY <3>1, <3>2
    <2> QED
      BY <2>1, <2>2 DEF SinkInv, SinkGapFree
  <1>6. Last(batch).sequence = c + Len(batch)
    BY <1>2, <1>4 DEF Last
  <1>7. c + Len(batch) \in 0 .. Len(audit)
    BY <1>1, <1>2
  <1> QED
    BY <1>3, <1>5, <1>6, <1>7 DEF Covered

(* DeliverKeeps: the sink takes the batch and answers with its last entry. *)
LEMMA DeliverKeeps ==
    ASSUME DeliveryInv, NEW w \in Workers, Deliver(w)
    PROVE  DeliveryInv'
  <1>1. PICK batch : batch = at[w].batch
    OBVIOUS
  <1>2. BatchOK(batch)
    BY <1>1 DEF DeliveryInv, WorkersInv, AttemptOK, Deliver
  <1>3. /\ audit' = audit /\ UNCHANGED cursor
        /\ sink' = sink \cup {batch[n] : n \in DOMAIN batch}
    BY <1>1 DEF Deliver, cpLogVars
  <1>4. sink \subseteq sink' /\ SinkInv' /\ Covered(Last(batch).sequence)'
    BY <1>2, <1>3, ReachesSink
  <1>5. PICK a : a = [step |-> "advance", ack |-> HeadOf(batch)]
    OBVIOUS
  <1>6. Goto(w, a)
    BY <1>1, <1>5 DEF Deliver, Goto
  <1>7. AttemptOK(a)'
    BY <1>4, <1>5 DEF AttemptOK, HeadOf
  <1> QED
    BY <1>3, <1>4, <1>6, <1>7, AttemptKeeps

(* FailureKeeps: the answer is lost, and the sink may have taken the batch.*)
LEMMA FailureKeeps ==
    ASSUME DeliveryInv, NEW w \in Workers, DeliverFails(w)
    PROVE  DeliveryInv'
  <1>1. PICK batch : batch = at[w].batch
    OBVIOUS
  <1>2. BatchOK(batch)
    BY <1>1 DEF DeliveryInv, WorkersInv, AttemptOK, DeliverFails
  <1>3. audit' = audit /\ UNCHANGED cursor
    BY DEF DeliverFails, cpLogVars
  <1>4. sink' = sink \/ sink' = sink \cup {batch[n] : n \in DOMAIN batch}
    BY <1>1 DEF DeliverFails
  <1>5. sink \subseteq sink' /\ SinkInv'
    <2>1. CASE sink' = sink
      BY <1>3, <2>1 DEF DeliveryInv, SinkInv, SinkGapFree
    <2>2. CASE sink' = sink \cup {batch[n] : n \in DOMAIN batch}
      BY <1>2, <1>3, <2>2, ReachesSink
    <2> QED
      BY <1>4, <2>1, <2>2
  <1>6. PICK a : a = [step |-> "fail"]
    OBVIOUS
  <1>7. Goto(w, a) /\ AttemptOK(a)'
    BY <1>6 DEF DeliverFails, Goto, AttemptOK
  <1> QED
    BY <1>3, <1>5, <1>7, AttemptKeeps

(* CursorKeeps: the steps that leave the chain and the sink alone.         *)
LEMMA CursorKeeps ==
    ASSUME DeliveryInv, NEW w \in Workers,
           ReadCursor(w) \/ ReadHead(w) \/ Advance(w) \/ RecordFailure(w) \/ Crash(w)
    PROVE  DeliveryInv'
  <1>1. audit' = audit /\ sink' = sink
    BY DEF ReadCursor, ReadHead, Advance, RecordFailure, Crash, cpLogVars
  <1>2. sink \subseteq sink' /\ SinkInv'
    BY <1>1 DEF DeliveryInv, SinkInv, SinkGapFree
  <1>3. CASE ReadCursor(w)
    <2>1. PICK a : a = [step |-> "head", cursor |-> cursor, deferred |-> deferred]
      OBVIOUS
    <2>2. Goto(w, a) /\ UNCHANGED cursor
      BY <1>3, <2>1 DEF ReadCursor, Goto
    <2>3. AttemptOK(a)'
      BY <1>1, <2>1, <2>2 DEF DeliveryInv, AttemptOK, Covered
    <2> QED
      BY <1>1, <1>2, <2>2, <2>3, AttemptKeeps
  <1>4. CASE ReadHead(w)
    <2>1. UNCHANGED cursor
      BY <1>4 DEF ReadHead
    <2>2. PICK a : a = [step |-> "rows", cursor |-> at[w].cursor, head |-> At(audit)]
      OBVIOUS
    <2>3. Goto(w, NoAttempt) \/ Goto(w, a)
      BY <1>4, <2>2 DEF ReadHead, Goto
    <2>4. AttemptOK(a)'
      BY <1>1, <1>4, <2>2 DEF DeliveryInv, WorkersInv, ReadHead, AttemptOK, Covered
    <2> QED
      BY <1>1, <1>2, <2>1, <2>3, <2>4, AttemptKeeps
  <1>5. CASE Advance(w)
    <2>1. Goto(w, NoAttempt)
      BY <1>5 DEF Advance
    <2>2. UNCHANGED cursor \/ cursor' = at[w].ack
      BY <1>5 DEF Advance
    <2>3. Covered(at[w].ack.sequence) /\ Boundary(at[w].ack)
      BY <1>5 DEF DeliveryInv, WorkersInv, Advance, AttemptOK
    <2>4. UNCHANGED cursor \/ (Covered(cursor.sequence) /\ Boundary(cursor))'
      BY <1>1, <2>2, <2>3 DEF Covered, Boundary
    <2> QED
      BY <1>1, <1>2, <2>1, <2>4, AttemptKeeps
  <1>6. CASE RecordFailure(w) \/ Crash(w)
    <2>1. Goto(w, NoAttempt) /\ UNCHANGED cursor
      BY <1>6 DEF RecordFailure, Crash, CursorAfterFailure
    <2> QED
      BY <1>1, <1>2, <2>1, AttemptKeeps
  <1> QED
    BY <1>3, <1>4, <1>5, <1>6

(* DeliveryInvStep: every step keeps the invariant.                        *)
LEMMA DeliveryInvStep ==
    DeliveryInv /\ [DeliveryNext]_auditVars => DeliveryInv'
  <1> SUFFICES ASSUME DeliveryInv, [DeliveryNext]_auditVars
               PROVE  DeliveryInv'
    OBVIOUS
  <1>1. CASE Write
    BY <1>1, WriteKeeps
  <1>2. ASSUME NEW w \in Workers, Attempt(w) \/ DeliverFails(w) \/ Crash(w)
        PROVE  DeliveryInv'
    BY <1>2, ReadRowsKeeps, DeliverKeeps, FailureKeeps, CursorKeeps DEF Attempt
  <1>3. CASE RetryDue \/ UNCHANGED auditVars
    <2>1. UNCHANGED <<audit, sink, at, cursor>>
      BY <1>3 DEF RetryDue, auditVars, cpLogVars, deliveryVars
    <2> QED
      BY <2>1 DEF DeliveryInv, ChainInv, SinkInv, SinkGapFree, WorkersInv,
                  AttemptOK, BatchOK, Covered, Boundary
  <1> QED
    BY <1>1, <1>2, <1>3 DEF DeliveryNext

(* DeliverySafe: the invariant holds in every reachable state.             *)
LEMMA DeliverySafe == DeliverySpec => []DeliveryInv
  <1> QED
    BY DeliveryInvInit, DeliveryInvStep, PTL DEF DeliverySpec

(* CursorCorrect: what lies behind the cursor is at the sink, with any     *)
(* workers, losses and repetitions, and the cursor is an entry of the      *)
(* chain.                                                                  *)
THEOREM CursorCorrect == DeliverySpec => []CursorCovered
  <1>1. DeliveryInv => CursorCovered
    BY DEF DeliveryInv, CursorCovered, Covered
  <1> QED
    BY <1>1, DeliverySafe, PTL

(* SinkCorrect: the sink holds a beginning of the chain at any time.       *)
THEOREM SinkCorrect == DeliverySpec => []SinkGapFree
  <1>1. DeliveryInv => SinkGapFree
    BY DEF DeliveryInv, SinkInv
  <1> QED
    BY <1>1, DeliverySafe, PTL

(* CursorForward: whatever step moves the cursor moves it forward.         *)
THEOREM CursorForward == DeliverySpec => CursorAdvances
  <1>1. ASSUME DeliveryInv, [DeliveryNext]_auditVars
        PROVE  [cursor'.sequence >= cursor.sequence]_cursor
    <2>1. cursor.sequence \in Nat
      BY <1>1, LenProperties DEF DeliveryInv, ChainInv, Covered
    <2>2. ASSUME NEW w \in Workers, Advance(w)
          PROVE  cursor'.sequence >= cursor.sequence
      <3>1. at[w].ack.sequence \in Nat
        BY <1>1, <2>2, LenProperties
        DEF Advance, DeliveryInv, ChainInv, WorkersInv, AttemptOK, Covered
      <3> QED
        BY <2>1, <2>2, <3>1 DEF Advance, Ahead
    <2>3. \/ UNCHANGED cursor
          \/ \E w \in Workers : Advance(w)
      BY <1>1 DEF DeliveryNext, Attempt, Write, ReadCursor, ReadHead, ReadRows,
         Deliver, DeliverFails, RecordFailure, CursorAfterFailure, RetryDue,
         Crash, deliveryVars, auditVars
    <2> QED
      BY <2>2, <2>3
  <1> QED
    BY <1>1, DeliverySafe, PTL DEF DeliverySpec, CursorAdvances

-----------------------------------------------------------------------------
(* DeletionLedger *)

Mutations == [deletes : BOOLEAN, route : Routes]

LedgerRow == [sequence : Nat,
              status : UNION {[route -> {"pending", "applied"}] : route \in Routes}]

Due == [ident : Idents, sequence : Nat]

Pass == [restore : BOOLEAN, left : SUBSET Due, record : Due \cup {Nil},
         todo : SUBSET Targets, sent : Targets \cup {Nil}, count : {0, 1}]

TypeInv ==
    /\ log \in [Idents -> Seq(Mutations)]
    /\ ledger \in [Idents -> LedgerRow \cup {Nil}]
    /\ holds \in [Targets -> [Idents -> Nat]]
    /\ ckpt \in [Targets -> [Idents -> Nat]]
    /\ snapshot \in [Targets -> [Idents -> Nat]]
    /\ isolated \subseteq Targets
    /\ gate \in [verified : BOOLEAN, clear : BOOLEAN]
    /\ run \in Pass \cup {Nil}

\* The row of an identity is that of its last deletion.
LedgerInv ==
    \A i \in Idents :
        /\ Tombstones(i) # {} => ledger[i] # Nil
        /\ ledger[i] # Nil =>
               /\ ledger[i].sequence \in Tombstones(i)
               /\ \A s \in Tombstones(i) : s <= ledger[i].sequence
               /\ DOMAIN ledger[i].status = log[i][ledger[i].sequence].route

\* The checkpoints of the targets do not run ahead of the log.
CheckpointInv == \A t \in Targets, i \in Idents : ckpt[t][i] <= Len(log[i])

\* A pass works on rows of the ledger, which may have been replaced since.
Known(r) == ledger[r.ident] # Nil /\ r.sequence <= ledger[r.ident].sequence

\* What the target of the record at hand has been told.
PassInv ==
    run # Nil =>
        /\ \A r \in run.left : Known(r)
        /\ run.todo # {} => run.record \in Due /\ Known(run.record)
        /\ run.sent # Nil =>
               /\ run.sent \in run.todo
               /\ ckpt[run.sent][run.record.ident] >= run.record.sequence
               /\ \/ holds[run.sent][run.record.ident] = 0
                  \/ holds[run.sent][run.record.ident] > run.record.sequence

LedgerSafe ==
    TypeInv /\ LedgerInv /\ CheckpointInv /\ PassInv /\ ReceiptIsCurrent

\* What a target holds of a document is not behind a deletion that the target
\* has passed.
Clean(t, i) ==
    holds[t][i] # 0 => \A s \in Tombstones(i) : holds[t][i] < s => ckpt[t][i] < s

\* Still to be looked at by the pass.
StillToDo(t, i) ==
    \/ \E r \in run.left : r.ident = i
    \/ t \in run.todo /\ run.record.ident = i

TrafficInv ==
    \A t \in Targets, i \in Idents :
        /\ t \notin isolated => Clean(t, i)
        /\ gate.verified => Clean(t, i)
        /\ run # Nil /\ run.restore => Clean(t, i) \/ StillToDo(t, i)

\* One page holds the ledger, and every mutation goes to every target.
Covering == Limit >= Cardinality(Idents) /\ Routes \subseteq {Targets}

-----------------------------------------------------------------------------
(* Receipts *)

(* LogTyped: the mutations of an identity.                                 *)
LEMMA LogTyped ==
    ASSUME TypeInv, NEW i \in Idents
    PROVE  /\ Len(log[i]) \in Nat
           /\ \A s \in 1 .. Len(log[i]) : log[i][s] \in Mutations
           /\ Tombstones(i) \subseteq 1 .. Len(log[i])
  <1>1. log[i] \in Seq(Mutations)
    BY DEF TypeInv
  <1> QED
    BY <1>1, LenProperties, ElementOfSeq DEF Tombstones

(* RowTyped: the row of an identity.                                       *)
LEMMA RowTyped ==
    ASSUME TypeInv, NEW i \in Idents, ledger[i] # Nil
    PROVE  /\ ledger[i] \in LedgerRow /\ ledger[i].sequence \in Nat
           /\ DOMAIN ledger[i].status \in Routes
           /\ DOMAIN ledger[i].status \subseteq Targets
           /\ ledger[i].status \in [DOMAIN ledger[i].status -> {"pending", "applied"}]
  <1>1. ledger[i] \in LedgerRow
    BY DEF TypeInv
  <1> QED
    BY <1>1, LedgerAssumption DEF LedgerRow

(* PassTyped: the fields of a pass.                                        *)
LEMMA PassTyped ==
    ASSUME TypeInv, run # Nil
    PROVE  /\ run \in Pass
           /\ run.left \subseteq Due /\ run.todo \subseteq Targets
           /\ run.record \in Due \cup {Nil} /\ run.sent \in Targets \cup {Nil}
  BY DEF TypeInv, Pass

(* SafeInit: no mutation, no row, no pass.                                 *)
LEMMA SafeInit == Init => LedgerSafe
  <1> SUFFICES ASSUME Init PROVE LedgerSafe
    OBVIOUS
  <1>1. TypeInv
    BY EmptySeq DEF Init, TypeInv, Ungated
  <1>2. \A i \in Idents : Len(log[i]) = 0 /\ Tombstones(i) = {}
    BY DEF Init, Tombstones
  <1>3. LedgerInv /\ CheckpointInv /\ PassInv /\ ReceiptIsCurrent
    BY <1>2 DEF Init, LedgerInv, CheckpointInv, PassInv, ReceiptIsCurrent
  <1> QED
    BY <1>1, <1>3 DEF LedgerSafe

(* LogGrows: a mutation is the last of its identity.                       *)
LEMMA LogGrows ==
    ASSUME TypeInv, NEW i \in Idents, NEW deletes \in BOOLEAN, NEW route \in Routes,
           Mutate(i, deletes, route)
    PROVE  /\ log' \in [Idents -> Seq(Mutations)]
           /\ Len(log'[i]) = Len(log[i]) + 1 /\ Len(log[i]) \in Nat
           /\ \A s \in 1 .. Len(log[i]) : log'[i][s] = log[i][s]
           /\ log'[i][Len(log[i]) + 1] = [deletes |-> deletes, route |-> route]
           /\ \A j \in Idents \ {i} : log'[j] = log[j] /\ Tombstones(j)' = Tombstones(j)
           /\ Tombstones(i)' = IF deletes THEN Tombstones(i) \cup {Len(log[i]) + 1}
                               ELSE Tombstones(i)
  <1> DEFINE m == [deletes |-> deletes, route |-> route]
  <1>1. m \in Mutations
    BY DEF Mutations
  <1>2. log[i] \in Seq(Mutations)
    BY DEF TypeInv
  <1>3. log' = [log EXCEPT ![i] = Append(log[i], m)]
    BY DEF Mutate
  <1> HIDE DEF m
  <1>4. log'[i] = Append(log[i], m) /\ \A j \in Idents \ {i} : log'[j] = log[j]
    BY <1>3 DEF TypeInv
  <1>5. /\ Append(log[i], m) \in Seq(Mutations)
        /\ Len(log'[i]) = Len(log[i]) + 1 /\ Len(log[i]) \in Nat
        /\ \A s \in 1 .. Len(log[i]) : log'[i][s] = log[i][s]
        /\ log'[i][Len(log[i]) + 1] = m
    BY <1>1, <1>2, <1>4, AppendProperties, LenProperties
  <1>6. log' \in [Idents -> Seq(Mutations)]
    BY <1>3, <1>5 DEF TypeInv
  <1>7. \A s : s \in 1 .. Len(log[i]) + 1 <=> s \in 1 .. Len(log[i]) \/ s = Len(log[i]) + 1
    BY <1>5
  <1>8. Tombstones(i)' = IF deletes THEN Tombstones(i) \cup {Len(log[i]) + 1}
                         ELSE Tombstones(i)
    <2>1. m.deletes = deletes
      BY DEF m
    <2>2. Tombstones(i)' = {s \in 1 .. Len(log[i]) + 1 : log'[i][s].deletes}
      BY <1>5 DEF Tombstones
    <2>3. \A s : s \in Tombstones(i)' <=>
                    s \in Tombstones(i) \/ (s = Len(log[i]) + 1 /\ deletes)
      BY <1>5, <1>7, <2>1, <2>2 DEF Tombstones
    <2> QED
      BY <2>3
  <1>9. \A j \in Idents \ {i} : Tombstones(j)' = Tombstones(j)
    BY <1>4 DEF Tombstones
  <1> QED
    BY <1>4, <1>5, <1>6, <1>8, <1>9 DEF m

(* MutateSafe: a deletion replaces the row of its identity.                *)
LEMMA MutateSafe ==
    ASSUME LedgerSafe, NEW i \in Idents, NEW deletes \in BOOLEAN, NEW route \in Routes,
           Mutate(i, deletes, route)
    PROVE  LedgerSafe'
  <1> USE DEF LedgerSafe
  <1> DEFINE n == Len(log[i]) + 1
             row == Registered(i, n, route)
  <1>1. /\ log' \in [Idents -> Seq(Mutations)]
        /\ Len(log'[i]) = n /\ Len(log[i]) \in Nat
        /\ \A s \in 1 .. Len(log[i]) : log'[i][s] = log[i][s]
        /\ log'[i][n] = [deletes |-> deletes, route |-> route]
        /\ \A j \in Idents \ {i} : log'[j] = log[j] /\ Tombstones(j)' = Tombstones(j)
        /\ Tombstones(i)' = IF deletes THEN Tombstones(i) \cup {n} ELSE Tombstones(i)
    BY LogGrows
  <1>2. ledger' = IF deletes THEN [ledger EXCEPT ![i] = row] ELSE ledger
    BY DEF Mutate
  <1>3. /\ row \in LedgerRow /\ row.sequence = n /\ DOMAIN row.status = route
        /\ \A t \in route : row.status[t] = "pending"
    BY <1>1 DEF Registered, LedgerRow
  <1>4. row # Nil
    BY <1>3, LedgerAssumption DEF LedgerRow
  <1> HIDE DEF n, row
  <1>5. /\ n \in Nat /\ n = Len(log[i]) + 1
    BY <1>1 DEF n
  <1>6. UNCHANGED <<holds, ckpt, snapshot, isolated, gate, run>>
    BY DEF Mutate, providers
  <1>7. TypeInv'
    BY <1>1, <1>2, <1>3, <1>6 DEF TypeInv
  <1>8. /\ deletes => ledger'[i] = row
        /\ ~deletes => ledger'[i] = ledger[i]
        /\ \A j \in Idents \ {i} : ledger'[j] = ledger[j]
    BY <1>2 DEF TypeInv
  <1>9. \A s \in Tombstones(i) : s \in 1 .. Len(log[i])
    BY LogTyped
  <1>10. LedgerInv'
    <2> SUFFICES ASSUME NEW j \in Idents
                 PROVE  /\ Tombstones(j)' # {} => ledger'[j] # Nil
                        /\ ledger'[j] # Nil =>
                             /\ ledger'[j].sequence \in Tombstones(j)'
                             /\ \A s \in Tombstones(j)' : s <= ledger'[j].sequence
                             /\ DOMAIN ledger'[j].status = log'[j][ledger'[j].sequence].route
      BY DEF LedgerInv
    <2>1. CASE j # i
      BY <1>1, <1>8, <2>1 DEF LedgerInv
    <2>2. CASE j = i /\ deletes
      <3>1. Tombstones(i)' = Tombstones(i) \cup {n} /\ ledger'[i] = row
        BY <1>1, <1>8, <2>2
      <3>2. \A s \in Tombstones(i)' : s <= n
        BY <1>5, <1>9, <3>1
      <3>3. log'[i][n].route = route
        BY <1>1
      <3> QED
        BY <1>3, <1>4, <2>2, <3>1, <3>2, <3>3
    <2>3. CASE j = i /\ ~deletes
      <3>1. ledger[i] # Nil => ledger[i].sequence \in 1 .. Len(log[i])
        BY <1>9 DEF LedgerInv
      <3> QED
        BY <1>1, <1>8, <2>3, <3>1 DEF LedgerInv
    <2> QED
      BY <2>1, <2>2, <2>3
  <1>11. CheckpointInv'
    <2>1. ASSUME NEW t \in Targets, NEW j \in Idents PROVE ckpt'[t][j] <= Len(log'[j])
      <3>1. ckpt[t][j] \in Nat /\ ckpt[t][j] <= Len(log[j])
        BY DEF TypeInv, CheckpointInv
      <3> QED
        BY <1>1, <1>5, <1>6, <3>1
    <2> QED
      BY <2>1 DEF CheckpointInv
  <1>12. ASSUME NEW r \in Due, Known(r) PROVE Known(r)'
    <2>1. r.ident \in Idents /\ r.sequence \in Nat
      BY DEF Due
    <2>2. ledger[r.ident].sequence \in 1 .. Len(log[r.ident])
      BY <1>12, <2>1, LogTyped DEF Known, LedgerInv
    <2> QED
      BY <1>3, <1>4, <1>5, <1>8, <1>12, <2>1, <2>2 DEF Known
  <1>13. PassInv'
    <2>1. run # Nil => run.left \subseteq Due /\ run.record \in Due \cup {Nil}
      BY PassTyped
    <2> QED
      BY <1>6, <1>12, <2>1 DEF PassInv
  <1>14. ReceiptIsCurrent'
    BY <1>3, <1>6, <1>8 DEF ReceiptIsCurrent
  <1> QED
    BY <1>7, <1>10, <1>11, <1>13, <1>14

(* TargetSafe: the steps of workers, backups, restores and replays.        *)
LEMMA TargetSafe ==
    ASSUME LedgerSafe,
           \/ Reopen
           \/ \E t \in Targets : Backup(t) \/ Restore(t)
           \/ \E t \in Targets, i \in Idents, s \in 1 .. MaxSeq : Apply(t, i, s) \/ Replay(t, i, s)
    PROVE  LedgerSafe'
  <1> USE DEF LedgerSafe
  <1>1. UNCHANGED <<log, ledger, run>>
    BY DEF Backup, Restore, Reopen, Apply, Replay
  <1>2. LedgerInv'
    BY <1>1 DEF LedgerInv, Tombstones
  <1>3. ASSUME UNCHANGED ckpt, TypeInv', run = Nil \/ UNCHANGED holds
        PROVE  LedgerSafe'
    <2>1. CheckpointInv' /\ ReceiptIsCurrent'
      BY <1>1, <1>3 DEF CheckpointInv, ReceiptIsCurrent
    <2>2. PassInv'
      BY <1>1, <1>3 DEF PassInv, Known
    <2> QED
      BY <1>2, <1>3, <2>1, <2>2
  <1>4. ASSUME NEW t \in Targets, Backup(t) PROVE LedgerSafe'
    <2>1. UNCHANGED <<ckpt, holds>> /\ TypeInv'
      BY <1>4 DEF Backup, TypeInv
    <2> QED
      BY <1>3, <2>1
  <1>5. ASSUME NEW t \in Targets, Restore(t) PROVE LedgerSafe'
    <2>1. UNCHANGED ckpt /\ run = Nil /\ TypeInv'
      BY <1>5 DEF Restore, TypeInv, Ungated
    <2> QED
      BY <1>3, <2>1
  <1>6. CASE Reopen
    <2>1. UNCHANGED <<ckpt, holds>> /\ TypeInv'
      BY <1>6 DEF Reopen, TypeInv, providers
    <2> QED
      BY <1>3, <2>1
  <1>7. ASSUME NEW t \in Targets, NEW i \in Idents, NEW s \in 1 .. MaxSeq, Apply(t, i, s)
        PROVE  LedgerSafe'
    <2>1. ckpt[t][i] \in Nat /\ Len(log[i]) \in Nat
      BY LogTyped DEF TypeInv
    <2>2. s \in Nat /\ s > ckpt[t][i] /\ s <= Len(log[i])
      BY <1>7, <2>1 DEF Apply
    <2>3. /\ ckpt'[t][i] = s
          /\ holds'[t][i] \in {0, s}
          /\ \A u \in Targets, j \in Idents : u # t \/ j # i =>
                 ckpt'[u][j] = ckpt[u][j] /\ holds'[u][j] = holds[u][j]
      BY <1>7 DEF Apply, TypeInv
    <2>4. TypeInv'
      <3>1. ckpt' \in [Targets -> [Idents -> Nat]]
        BY <1>7, <2>2 DEF Apply, TypeInv
      <3>2. holds' \in [Targets -> [Idents -> Nat]]
        BY <1>7, <2>2 DEF Apply, TypeInv
      <3> QED
        BY <1>7, <3>1, <3>2 DEF Apply, TypeInv
    <2>5. CheckpointInv'
      BY <1>1, <2>2, <2>3 DEF CheckpointInv
    <2>6. ReceiptIsCurrent'
      <3> SUFFICES ASSUME NEW j \in Idents, ledger[j] # Nil,
                          NEW u \in DOMAIN ledger[j].status,
                          ledger[j].status[u] = "applied"
                   PROVE  ckpt'[u][j] >= ledger[j].sequence
        BY <1>1 DEF ReceiptIsCurrent
      <3>1. ckpt[u][j] >= ledger[j].sequence /\ u \in Targets
            /\ ledger[j].sequence \in Nat
        BY RowTyped DEF ReceiptIsCurrent
      <3> QED
        BY <2>1, <2>2, <2>3, <3>1
    <2>7. PassInv'
      <3> SUFFICES ASSUME run # Nil PROVE PassInv'
        BY <1>1 DEF PassInv
      <3>1. /\ \A r \in run.left : Known(r)'
            /\ run.todo # {} => run.record \in Due /\ Known(run.record)'
        BY <1>1 DEF PassInv, Known
      <3>2. ASSUME run.sent # Nil
            PROVE  /\ run.sent \in run.todo
                   /\ ckpt'[run.sent][run.record.ident] >= run.record.sequence
                   /\ \/ holds'[run.sent][run.record.ident] = 0
                      \/ holds'[run.sent][run.record.ident] > run.record.sequence
        <4>1. run.sent \in run.todo /\ run.sent \in Targets /\ run.record \in Due
          BY <3>2, PassTyped DEF PassInv
        <4>2. run.record.ident \in Idents /\ run.record.sequence \in Nat
          BY <4>1 DEF Due
        <4>3. CASE run.sent = t /\ run.record.ident = i
          <5>1. ckpt[t][i] >= run.record.sequence
            BY <3>2, <4>3 DEF PassInv
          <5> QED
            BY <2>1, <2>2, <2>3, <4>1, <4>2, <4>3, <5>1
        <4>4. CASE run.sent # t \/ run.record.ident # i
          BY <2>3, <3>2, <4>1, <4>2, <4>4 DEF PassInv
        <4> QED
          BY <4>3, <4>4
      <3> QED
        BY <1>1, <3>1, <3>2 DEF PassInv
    <2> QED
      BY <1>2, <2>4, <2>5, <2>6, <2>7
  <1>8. ASSUME NEW t \in Targets, NEW i \in Idents, NEW s \in 1 .. MaxSeq, Replay(t, i, s)
        PROVE  LedgerSafe'
    <2>1. /\ s \in Nat /\ s > holds[t][i] /\ UNCHANGED ckpt /\ holds[t][i] \in Nat
          /\ holds' = [holds EXCEPT ![t][i] = s]
          /\ ledger[i] # Nil => s > ledger[i].sequence
      <3>1. ledger[i] # Nil => ledger[i].sequence \in Nat
        BY RowTyped
      <3> QED
        BY <1>8, <3>1 DEF Replay, Suppressed, TypeInv
    <2>2. /\ holds'[t][i] = s
          /\ \A u \in Targets, j \in Idents : u # t \/ j # i => holds'[u][j] = holds[u][j]
      BY <2>1 DEF TypeInv
    <2>3. TypeInv'
      <3>1. holds' \in [Targets -> [Idents -> Nat]]
        BY <2>1 DEF TypeInv
      <3> QED
        BY <1>8, <3>1 DEF Replay, TypeInv
    <2>4. CheckpointInv' /\ ReceiptIsCurrent'
      BY <1>1, <2>1 DEF CheckpointInv, ReceiptIsCurrent
    <2>5. PassInv'
      <3> SUFFICES ASSUME run # Nil PROVE PassInv'
        BY <1>1 DEF PassInv
      <3>1. /\ \A r \in run.left : Known(r)'
            /\ run.todo # {} => run.record \in Due /\ Known(run.record)'
        BY <1>1 DEF PassInv, Known
      <3>2. ASSUME run.sent # Nil
            PROVE  /\ run.sent \in run.todo
                   /\ ckpt'[run.sent][run.record.ident] >= run.record.sequence
                   /\ \/ holds'[run.sent][run.record.ident] = 0
                      \/ holds'[run.sent][run.record.ident] > run.record.sequence
        <4>1. /\ run.sent \in run.todo /\ run.sent \in Targets /\ run.record \in Due
              /\ Known(run.record)
          BY <3>2, PassTyped DEF PassInv
        <4>2. run.record.ident \in Idents /\ run.record.sequence \in Nat
          BY <4>1 DEF Due
        <4>3. CASE run.sent = t /\ run.record.ident = i
          <5>1. ledger[i] # Nil /\ run.record.sequence <= ledger[i].sequence
            BY <4>1, <4>3 DEF Known
          <5>2. ledger[i].sequence \in Nat
            BY <5>1, RowTyped
          <5> QED
            BY <2>1, <2>2, <3>2, <4>1, <4>2, <4>3, <5>1, <5>2 DEF PassInv
        <4>4. CASE run.sent # t \/ run.record.ident # i
          BY <2>1, <2>2, <3>2, <4>1, <4>2, <4>4 DEF PassInv
        <4> QED
          BY <4>3, <4>4
      <3> QED
        BY <1>1, <3>1, <3>2 DEF PassInv
    <2> QED
      BY <1>2, <2>3, <2>4, <2>5
  <1> QED
    BY <1>4, <1>5, <1>6, <1>7, <1>8

(* MaxOfTwo: the later of two sequences.                                   *)
LEMMA MaxOfTwo ==
    ASSUME NEW a \in Nat, NEW b \in Nat
    PROVE  Max({a, b}) \in {a, b} /\ Max({a, b}) >= a /\ Max({a, b}) >= b
  <1>1. \E x \in {a, b} : \A y \in {a, b} : x >= y
    <2>1. CASE a >= b
      BY <2>1
    <2>2. CASE b >= a
      BY <2>2
    <2> QED
      BY <2>1, <2>2
  <1>2. PICK m : m = Max({a, b})
    OBVIOUS
  <1>3. m \in {a, b} /\ \A y \in {a, b} : m >= y
    BY <1>1, <1>2 DEF Max
  <1> QED
    BY <1>2, <1>3

\* The row that a pass takes next.
First == CHOOSE r \in run.left : \A q \in run.left : r.ident <= q.ident

(* FirstInside: the rows left have a first one.                            *)
LEMMA FirstInside ==
    ASSUME TypeInv, run # Nil, run.left # {}
    PROVE  First \in run.left
  <1> DEFINE Less == {p \in Nat \X Nat : p[1] < p[2]}
             S == {r.ident : r \in run.left}
  <1>1. IsWellFoundedOn(Less, Nat)
    BY NatLessThanWellFounded DEF OpToRel
  <1>2. S \subseteq Nat /\ S # {}
    <2>1. Cardinality(Idents) \in Nat /\ Idents = 1 .. Cardinality(Idents)
      BY LedgerAssumption, FS_CardinalityType
    <2>2. Idents \subseteq Nat
      BY <2>1
    <2>3. run.left \subseteq Due
      BY PassTyped
    <2> QED
      BY <2>2, <2>3 DEF Due
  <1>3. PICK x \in S : \A y \in S : <<y, x>> \notin Less
    <2> HIDE DEF Less, S
    <2> QED
      BY <1>1, <1>2, WFMin
  <1>4. ASSUME NEW y \in S PROVE x <= y
    <2>1. <<y, x>> \in Nat \X Nat /\ <<y, x>>[1] = y /\ <<y, x>>[2] = x
      BY <1>2
    <2>2. ~ (y < x)
      BY <1>3, <2>1
    <2> QED
      BY <1>2, <2>2
  <1>5. \E r \in run.left : \A q \in run.left : r.ident <= q.ident
    <2>1. PICK r \in run.left : r.ident = x
      BY <1>3
    <2> QED
      BY <1>4, <2>1
  <1> QED
    BY <1>5 DEF First

(* PassSafe: the steps of a pass that leave ledger and targets alone.      *)
LEMMA PassSafe ==
    ASSUME LedgerSafe, StartPass \/ NextRecord \/ SuppressFails \/ RecordStale \/ EndPass
    PROVE  LedgerSafe'
  <1> USE DEF LedgerSafe
  <1>1. UNCHANGED <<log, ledger, holds, ckpt, snapshot, isolated>>
    BY DEF StartPass, NextRecord, SuppressFails, RecordStale, EndPass, providers
  <1>2. LedgerInv' /\ CheckpointInv' /\ ReceiptIsCurrent'
    BY <1>1 DEF LedgerInv, CheckpointInv, ReceiptIsCurrent, Tombstones
  <1>3. CASE StartPass
    <2> DEFINE rows == {[ident |-> i, sequence |-> ledger[i].sequence] : i \in Listed}
    <2>1. rows \subseteq Due /\ \A r \in rows : Known(r)
      <3> SUFFICES ASSUME NEW i \in Listed
                   PROVE  /\ [ident |-> i, sequence |-> ledger[i].sequence] \in Due
                          /\ Known([ident |-> i, sequence |-> ledger[i].sequence])
        OBVIOUS
      <3>1. i \in Idents /\ ledger[i] # Nil
        BY DEF Listed
      <3>2. ledger[i].sequence \in Nat
        BY <3>1, RowTyped
      <3> QED
        BY <3>1, <3>2 DEF Due, Known
    <2>2. run' = [restore |-> ~gate.verified, left |-> rows,
                  record |-> Nil, todo |-> {}, sent |-> Nil, count |-> 0]
      BY <1>3 DEF StartPass
    <2> HIDE DEF rows
    <2>3. run' \in Pass
      BY <2>1, <2>2 DEF Pass, TypeInv
    <2>4. TypeInv'
      BY <1>1, <1>3, <2>3 DEF TypeInv, StartPass
    <2>5. run'.left = rows /\ run'.todo = {} /\ run'.sent = Nil
      BY <2>2
    <2>6. \A r \in rows : Known(r)'
      BY <1>1, <2>1 DEF Known
    <2>7. PassInv'
      BY <2>5, <2>6 DEF PassInv
    <2> QED
      BY <1>2, <2>4, <2>7
  <1>4. CASE NextRecord
    <2>1. /\ run # Nil /\ run.todo = {} /\ run.left # {}
          /\ run' = [run EXCEPT !.record = First, !.left = @ \ {First},
                                !.todo = ToSuppress(First.ident)]
      BY <1>4 DEF NextRecord, First
    <2>2. First \in run.left
      BY <2>1, FirstInside
    <2>3. PICK r : r = First
      OBVIOUS
    <2>4. r \in Due /\ Known(r) /\ r \in run.left
      BY <2>1, <2>2, <2>3, PassTyped DEF PassInv
    <2>5. run.sent = Nil
      BY <2>1 DEF PassInv
    <2>6. ToSuppress(r.ident) \subseteq Targets
      BY <2>4, RowTyped DEF ToSuppress, Pending, Known, Due
    <2>7. PICK todo : todo = ToSuppress(r.ident)
      OBVIOUS
    <2>8. run' = [run EXCEPT !.record = r, !.left = @ \ {r}, !.todo = todo]
      BY <2>1, <2>3, <2>7
    <2>9. run' \in Pass
      BY <2>1, <2>4, <2>6, <2>7, <2>8, PassTyped DEF Pass
    <2>10. TypeInv'
      BY <1>1, <1>4, <2>9 DEF TypeInv, NextRecord
    <2>11. /\ run'.record = r /\ run'.left = run.left \ {r} /\ run'.todo = todo
           /\ run'.sent = Nil
      BY <2>1, <2>5, <2>8, PassTyped DEF Pass
    <2>12. \A q \in run.left : Known(q)'
      BY <1>1, <2>1 DEF Known, PassInv
    <2>13. PassInv'
      BY <2>4, <2>11, <2>12 DEF PassInv
    <2> QED
      BY <1>2, <2>10, <2>13
  <1>5. CASE SuppressFails \/ RecordStale
    <2>1. run' = Nil /\ TypeInv'
      BY <1>1, <1>5 DEF TypeInv, SuppressFails, RecordStale
    <2> QED
      BY <1>2, <2>1 DEF PassInv
  <1>6. CASE EndPass
    <2>1. run' = Nil /\ gate' \in [verified : BOOLEAN, clear : BOOLEAN]
      BY <1>6 DEF EndPass, TypeInv
    <2>2. TypeInv'
      BY <1>1, <2>1 DEF TypeInv
    <2> QED
      BY <1>2, <2>1, <2>2 DEF PassInv
  <1> QED
    BY <1>3, <1>4, <1>5, <1>6

(* SuppressEffect: the target holds nothing that the tombstone covers, and *)
(* has passed it; its checkpoint does not fall.                            *)
LEMMA SuppressEffect ==
    ASSUME LedgerSafe, NEW t \in Targets, Suppress(t),
           NEW i, NEW n, i = run.record.ident, n = run.record.sequence
    PROVE  /\ run # Nil /\ t \in run.todo /\ run.sent = Nil
           /\ run.record \in Due /\ i \in Idents /\ n \in Nat
           /\ ledger[i] # Nil /\ n <= ledger[i].sequence
           /\ run' = [run EXCEPT !.sent = t]
           /\ UNCHANGED <<log, ledger, snapshot, isolated, gate>>
           /\ holds' \in [Targets -> [Idents -> Nat]]
           /\ ckpt' \in [Targets -> [Idents -> Nat]]
           /\ holds'[t][i] = IF holds[t][i] <= n THEN 0 ELSE holds[t][i]
           /\ ckpt'[t][i] \in {ckpt[t][i], n} /\ ckpt'[t][i] >= n
           /\ ckpt'[t][i] >= ckpt[t][i]
           /\ \A u \in Targets, j \in Idents : u # t \/ j # i =>
                  ckpt'[u][j] = ckpt[u][j] /\ holds'[u][j] = holds[u][j]
  <1> USE DEF LedgerSafe
  <1>1. /\ run # Nil /\ t \in run.todo /\ run.sent = Nil
        /\ UNCHANGED <<log, ledger, snapshot, isolated, gate>>
        /\ run' = [run EXCEPT !.sent = t]
    BY DEF Suppress
  <1>2. run.record \in Due /\ i \in Idents /\ n \in Nat
    BY <1>1 DEF PassInv, Due
  <1>3. ledger[i] # Nil /\ n <= ledger[i].sequence
    BY <1>1 DEF PassInv, Known
  <1>4. ckpt[t][i] \in Nat /\ holds[t][i] \in Nat
    BY <1>2 DEF TypeInv
  <1>5. PICK m : m = Max({ckpt[t][i], n})
    OBVIOUS
  <1>6. m \in {ckpt[t][i], n} /\ m >= n /\ m >= ckpt[t][i]
    BY <1>2, <1>4, <1>5, MaxOfTwo
  <1>7. PICK h : h = IF holds[t][i] <= n THEN 0 ELSE holds[t][i]
    OBVIOUS
  <1>8. h \in Nat
    BY <1>4, <1>7
  <1>9. /\ holds' = [holds EXCEPT ![t][i] = h]
        /\ ckpt' = [ckpt EXCEPT ![t][i] = m]
    BY <1>5, <1>7 DEF Suppress
  <1>10. /\ holds'[t][i] = h /\ ckpt'[t][i] = m
         /\ \A u \in Targets, j \in Idents : u # t \/ j # i =>
                ckpt'[u][j] = ckpt[u][j] /\ holds'[u][j] = holds[u][j]
    BY <1>2, <1>9 DEF TypeInv
  <1>11. /\ holds' \in [Targets -> [Idents -> Nat]]
         /\ ckpt' \in [Targets -> [Idents -> Nat]]
    BY <1>2, <1>4, <1>6, <1>8, <1>9 DEF TypeInv
  <1> QED
    BY <1>1, <1>2, <1>3, <1>6, <1>7, <1>10, <1>11

(* SuppressSafe: the target is told of the tombstone at hand.              *)
LEMMA SuppressSafe ==
    ASSUME LedgerSafe, NEW t \in Targets, Suppress(t)
    PROVE  LedgerSafe'
  <1> USE DEF LedgerSafe
  <1>1. PICK i, n : i = run.record.ident /\ n = run.record.sequence
    OBVIOUS
  <1>2. /\ run # Nil /\ t \in run.todo
        /\ run.record \in Due /\ i \in Idents /\ n \in Nat
        /\ ledger[i] # Nil /\ n <= ledger[i].sequence
        /\ run' = [run EXCEPT !.sent = t]
        /\ UNCHANGED <<log, ledger, snapshot, isolated, gate>>
        /\ holds' \in [Targets -> [Idents -> Nat]]
        /\ ckpt' \in [Targets -> [Idents -> Nat]]
        /\ holds'[t][i] = IF holds[t][i] <= n THEN 0 ELSE holds[t][i]
        /\ ckpt'[t][i] \in {ckpt[t][i], n} /\ ckpt'[t][i] >= n
        /\ ckpt'[t][i] >= ckpt[t][i]
        /\ \A u \in Targets, j \in Idents : u # t \/ j # i =>
               ckpt'[u][j] = ckpt[u][j] /\ holds'[u][j] = holds[u][j]
    BY <1>1, SuppressEffect
  <1>3. /\ run'.left = run.left /\ run'.record = run.record /\ run'.todo = run.todo
        /\ run'.sent = t /\ run' \in Pass
    BY <1>2, PassTyped DEF Pass
  <1>4. TypeInv'
    BY <1>2, <1>3 DEF TypeInv
  <1>5. LedgerInv'
    BY <1>2 DEF LedgerInv, Tombstones
  <1>6. CheckpointInv'
    <2>1. n <= Len(log[i])
      <3>1. ledger[i].sequence \in 1 .. Len(log[i]) /\ Len(log[i]) \in Nat
        BY <1>2, LogTyped DEF LedgerInv
      <3> QED
        BY <1>2, <3>1
    <2>2. ckpt'[t][i] <= Len(log[i])
      BY <1>2, <2>1 DEF CheckpointInv
    <2> QED
      BY <1>2, <2>2 DEF CheckpointInv
  <1>7. ReceiptIsCurrent'
    <2> SUFFICES ASSUME NEW j \in Idents, ledger[j] # Nil,
                        NEW u \in DOMAIN ledger[j].status,
                        ledger[j].status[u] = "applied"
                 PROVE  ckpt'[u][j] >= ledger[j].sequence
      BY <1>2 DEF ReceiptIsCurrent
    <2>1. /\ ckpt[u][j] >= ledger[j].sequence /\ u \in Targets
          /\ ledger[j].sequence \in Nat
      BY RowTyped DEF ReceiptIsCurrent
    <2>2. ckpt[u][j] \in Nat /\ ckpt'[u][j] \in Nat
      BY <1>2, <2>1 DEF TypeInv
    <2>3. ckpt'[u][j] >= ckpt[u][j]
      <3>1. CASE u = t /\ j = i
        BY <1>2, <3>1
      <3>2. CASE u # t \/ j # i
        BY <1>2, <2>1, <2>2, <3>2
      <3> QED
        BY <3>1, <3>2
    <2> QED
      BY <2>1, <2>2, <2>3
  <1>8. PassInv'
    <2>1. \A r : Known(r) => Known(r)'
      BY <1>2 DEF Known
    <2>2. /\ \A r \in run.left : Known(r)'
          /\ run.record \in Due /\ Known(run.record)'
      BY <1>2, <2>1 DEF PassInv
    <2>3. holds'[t][i] = 0 \/ holds'[t][i] > n
      <3>1. holds[t][i] \in Nat
        BY <1>2 DEF TypeInv
      <3> QED
        BY <1>2, <3>1
    <2> QED
      BY <1>1, <1>2, <1>3, <2>2, <2>3 DEF PassInv
  <1> QED
    BY <1>4, <1>5, <1>6, <1>7, <1>8

(* RecordSafe: the receipt is for the deletion in force.                   *)
LEMMA RecordSafe ==
    ASSUME LedgerSafe, RecordTarget
    PROVE  LedgerSafe'
  <1> USE DEF LedgerSafe
  <1>1. PICK i, t : i = run.record.ident /\ t = run.sent
    OBVIOUS
  <1>2. /\ run # Nil /\ t # Nil
        /\ ledger[i].sequence = run.record.sequence
        /\ t \in DOMAIN ledger[i].status
        /\ ledger' = [ledger EXCEPT ![i].status[t] = "applied"]
        /\ run' = [run EXCEPT !.todo = @ \ {t}, !.sent = Nil, !.count = 1]
        /\ UNCHANGED <<log, holds, ckpt, snapshot, isolated, gate>>
    BY <1>1 DEF RecordTarget, IsCurrent, providers
  <1>3. t \in run.todo /\ run.record \in Due /\ i \in Idents /\ ledger[i] # Nil
    BY <1>1, <1>2 DEF PassInv, Known, Due
  <1>4. /\ ledger[i] \in LedgerRow /\ ledger[i].sequence \in Nat
        /\ DOMAIN ledger[i].status \in Routes
        /\ ledger[i].status \in [DOMAIN ledger[i].status -> {"pending", "applied"}]
    BY <1>3, RowTyped
  <1>5. PICK st : st = [ledger[i].status EXCEPT ![t] = "applied"]
    OBVIOUS
  <1>6. /\ st \in [DOMAIN ledger[i].status -> {"pending", "applied"}]
        /\ st[t] = "applied"
        /\ \A u \in DOMAIN ledger[i].status : u # t => st[u] = ledger[i].status[u]
    BY <1>2, <1>4, <1>5
  <1>7. PICK row : row = [sequence |-> ledger[i].sequence, status |-> st]
    OBVIOUS
  <1>8. row \in LedgerRow /\ row # Nil
    <2>1. row \in LedgerRow
      BY <1>4, <1>6, <1>7 DEF LedgerRow
    <2> QED
      BY <2>1, LedgerAssumption DEF LedgerRow
  <1>9. ledger' = [ledger EXCEPT ![i] = row]
    <2>1. row = [ledger[i] EXCEPT !.status = st]
      BY <1>4, <1>7 DEF LedgerRow
    <2> QED
      BY <1>2, <1>5, <2>1
  <1>10. ledger'[i] = row /\ \A j \in Idents \ {i} : ledger'[j] = ledger[j]
    BY <1>3, <1>9 DEF TypeInv
  <1>11. /\ run'.left = run.left /\ run'.record = run.record
         /\ run'.todo = run.todo \ {t} /\ run'.sent = Nil /\ run' \in Pass
    BY <1>2, PassTyped DEF Pass
  <1>12. TypeInv'
    BY <1>2, <1>3, <1>8, <1>9, <1>11 DEF TypeInv
  <1>13. LedgerInv'
    <2>1. \A j \in Idents : /\ (ledger'[j] # Nil <=> ledger[j] # Nil)
                            /\ ledger'[j].sequence = ledger[j].sequence
                            /\ DOMAIN ledger'[j].status = DOMAIN ledger[j].status
      BY <1>3, <1>6, <1>7, <1>8, <1>10
    <2> QED
      BY <1>2, <2>1 DEF LedgerInv, Tombstones
  <1>14. CheckpointInv'
    BY <1>2 DEF CheckpointInv
  <1>15. ReceiptIsCurrent'
    <2> SUFFICES ASSUME NEW j \in Idents, ledger'[j] # Nil,
                        NEW u \in DOMAIN ledger'[j].status,
                        ledger'[j].status[u] = "applied"
                 PROVE  ckpt[u][j] >= ledger'[j].sequence
      BY <1>2 DEF ReceiptIsCurrent
    <2>1. CASE j # i
      BY <1>10, <2>1 DEF ReceiptIsCurrent
    <2>2. CASE j = i /\ u = t
      BY <1>1, <1>2, <1>7, <1>10, <2>2 DEF PassInv
    <2>3. CASE j = i /\ u # t
      BY <1>3, <1>6, <1>7, <1>10, <2>3 DEF ReceiptIsCurrent
    <2> QED
      BY <2>1, <2>2, <2>3
  <1>16. PassInv'
    <2>1. \A r \in Due : Known(r) => Known(r)'
      BY <1>7, <1>8, <1>10 DEF Known, Due
    <2>2. \A r \in run.left : Known(r)'
      BY <1>2, <2>1, PassTyped DEF PassInv
    <2>3. run.record \in Due /\ Known(run.record)'
      BY <1>2, <1>3, <2>1 DEF PassInv
    <2> QED
      BY <1>11, <2>2, <2>3 DEF PassInv
  <1> QED
    BY <1>12, <1>13, <1>14, <1>15, <1>16

(* SafeStep: every step keeps the invariant.                               *)
LEMMA SafeStep == LedgerSafe /\ [Next]_vars => LedgerSafe'
  <1> SUFFICES ASSUME LedgerSafe, [Next]_vars PROVE LedgerSafe'
    OBVIOUS
  <1>1. ASSUME NEW i \in Idents, NEW deletes \in BOOLEAN, NEW route \in Routes,
               Mutate(i, deletes, route)
        PROVE  LedgerSafe'
    BY <1>1, MutateSafe
  <1>2. ASSUME NEW t \in Targets, NEW i \in Idents, NEW s \in 1 .. MaxSeq,
               Apply(t, i, s) \/ Replay(t, i, s)
        PROVE  LedgerSafe'
    BY <1>2, TargetSafe
  <1>3. ASSUME NEW t \in Targets, Backup(t) \/ Restore(t) PROVE LedgerSafe'
    BY <1>3, TargetSafe
  <1>4. CASE Reopen
    BY <1>4, TargetSafe
  <1>5. CASE StartPass \/ NextRecord \/ SuppressFails \/ RecordStale \/ EndPass
    BY <1>5, PassSafe
  <1>6. CASE RecordTarget
    BY <1>6, RecordSafe
  <1>7. ASSUME NEW t \in Targets, Suppress(t) PROVE LedgerSafe'
    BY <1>7, SuppressSafe
  <1>8. CASE UNCHANGED vars
    BY <1>8 DEF vars, providers, LedgerSafe, TypeInv, LedgerInv, CheckpointInv, PassInv,
                ReceiptIsCurrent, Known, Tombstones
  <1> QED
    BY <1>1, <1>2, <1>3, <1>4, <1>5, <1>6, <1>7, <1>8 DEF Next, Reconcile

(* ReceiptsCorrect: a target is recorded as reconciled only for the        *)
(* deletion in force, whose tombstone it has passed: a newer deletion,     *)
(* registered between the provider's answer and record_target, voids it.   *)
THEOREM ReceiptsCorrect == Spec => []ReceiptIsCurrent
  <1>1. LedgerSafe => ReceiptIsCurrent
    BY DEF LedgerSafe
  <1> QED
    BY <1>1, SafeInit, SafeStep, PTL DEF Spec

-----------------------------------------------------------------------------
(* Nothing comes back *)

(* MutateClean: a target has not passed the deletion that is registered.   *)
LEMMA MutateClean ==
    ASSUME LedgerSafe, NEW i \in Idents, NEW deletes \in BOOLEAN, NEW route \in Routes,
           Mutate(i, deletes, route),
           NEW u \in Targets, NEW j \in Idents, Clean(u, j)
    PROVE  Clean(u, j)'
  <1> USE DEF LedgerSafe
  <1>1. UNCHANGED <<holds, ckpt>>
    BY DEF Mutate, providers
  <1>2. /\ j # i => Tombstones(j)' = Tombstones(j)
        /\ j = i => Tombstones(j)' \subseteq Tombstones(j) \cup {Len(log[j]) + 1}
        /\ Len(log[i]) \in Nat
    BY LogGrows
  <1>3. ckpt[u][j] \in Nat /\ ckpt[u][j] <= Len(log[j])
    BY DEF TypeInv, CheckpointInv
  <1>4. j = i => ckpt[u][j] < Len(log[j]) + 1
    BY <1>2, <1>3
  <1> QED
    BY <1>1, <1>2, <1>4 DEF Clean

(* TargetClean: a worker goes ahead; a replay brings back nothing that the *)
(* ledger suppresses; the reconciler deletes what it lets a target pass.   *)
LEMMA TargetClean ==
    ASSUME LedgerSafe, NEW t \in Targets,
           \/ \E i \in Idents, s \in 1 .. MaxSeq : Apply(t, i, s) \/ Replay(t, i, s)
           \/ Suppress(t),
           NEW u \in Targets, NEW j \in Idents, Clean(u, j)
    PROVE  Clean(u, j)'
  <1> USE DEF LedgerSafe
  <1>1. \A i \in Idents : Tombstones(i)' = Tombstones(i) /\ Tombstones(i) \subseteq Nat
    <2>1. UNCHANGED log
      BY DEF Apply, Replay, Suppress
    <2> QED
      BY <2>1, LogTyped DEF Tombstones
  <1>2. ASSUME NEW i \in Idents, NEW s \in 1 .. MaxSeq, Apply(t, i, s) PROVE Clean(u, j)'
    <2>1. ckpt[t][i] \in Nat
      BY DEF TypeInv
    <2>2. s \in Nat
      BY <1>2, <2>1, LogTyped DEF Apply
    <2>3. /\ ckpt'[t][i] = s /\ holds'[t][i] \in {0, s}
          /\ u # t \/ j # i => ckpt'[u][j] = ckpt[u][j] /\ holds'[u][j] = holds[u][j]
      BY <1>2 DEF Apply, TypeInv
    <2> QED
      BY <1>1, <2>3 DEF Clean
  <1>3. ASSUME NEW i \in Idents, NEW s \in 1 .. MaxSeq, Replay(t, i, s) PROVE Clean(u, j)'
    <2>1. /\ UNCHANGED ckpt /\ holds'[t][i] = s
          /\ u # t \/ j # i => holds'[u][j] = holds[u][j]
      BY <1>3 DEF Replay, TypeInv
    <2>2. \A d \in Tombstones(i) : ~(s < d)
      <3>1. CASE ledger[i] = Nil
        BY <3>1 DEF LedgerInv
      <3>2. CASE ledger[i] # Nil
        <4>1. s \in Nat /\ ledger[i].sequence \in Nat /\ ~(s <= ledger[i].sequence)
          BY <1>3, <3>2, RowTyped, LogTyped DEF Replay, Suppressed
        <4>2. \A d \in Tombstones(i) : d <= ledger[i].sequence /\ d \in Nat
          BY <1>1, <3>2 DEF LedgerInv
        <4> QED
          BY <4>1, <4>2
      <3> QED
        BY <3>1, <3>2
    <2> QED
      BY <1>1, <2>1, <2>2 DEF Clean
  <1>4. CASE Suppress(t)
    <2>1. PICK i, n : i = run.record.ident /\ n = run.record.sequence
      OBVIOUS
    <2>2. /\ i \in Idents /\ n \in Nat
          /\ holds'[t][i] = IF holds[t][i] <= n THEN 0 ELSE holds[t][i]
          /\ ckpt'[t][i] \in {ckpt[t][i], n}
          /\ u # t \/ j # i => ckpt'[u][j] = ckpt[u][j] /\ holds'[u][j] = holds[u][j]
      BY <1>4, <2>1, SuppressEffect
    <2>3. CASE u # t \/ j # i
      BY <1>1, <2>2, <2>3 DEF Clean
    <2>4. CASE u = t /\ j = i
      <3> SUFFICES ASSUME holds'[t][i] # 0, NEW d \in Tombstones(i), holds'[t][i] < d
                   PROVE  ckpt'[t][i] < d
        BY <1>1, <2>2, <2>4 DEF Clean
      <3>1. holds[t][i] \in Nat /\ d \in Nat
        BY <1>1, <2>2 DEF TypeInv
      <3>2. holds'[t][i] = holds[t][i] /\ ~(holds[t][i] <= n) /\ holds[t][i] # 0
        BY <2>2
      <3>3. ckpt[t][i] < d
        BY <2>2, <2>4, <3>2 DEF Clean
      <3>4. n < d
        BY <2>2, <3>1, <3>2
      <3> QED
        BY <2>2, <3>3, <3>4
    <2> QED
      BY <2>3, <2>4
  <1> QED
    BY <1>2, <1>3, <1>4

(* TrafficInit: the targets are empty.                                     *)
LEMMA TrafficInit == Init => TrafficInv
  BY DEF Init, TrafficInv, Clean

(* AllListed: the page holds every row.                                    *)
LEMMA AllListed ==
    ASSUME Covering, NEW i \in Idents, ledger[i] # Nil
    PROVE  i \in Listed
  <1> DEFINE registered == {j \in Idents : ledger[j] # Nil}
             upTo == {j \in registered : j <= i}
  <1>1. IsFiniteSet(Idents) /\ upTo \subseteq Idents
    BY LedgerAssumption
  <1>2. Cardinality(upTo) <= Cardinality(Idents) /\ Cardinality(upTo) \in Nat
        /\ Cardinality(Idents) \in Nat
    <2> HIDE DEF upTo
    <2> QED
      BY <1>1, FS_Subset, FS_CardinalityType
  <1>3. Cardinality(upTo) <= Limit
    BY <1>2, LedgerAssumption DEF Covering
  <1> QED
    BY <1>3 DEF Listed

(* TrafficStep: a target gets clean before the pass of the restore is over *)
(* with it, and stays clean until its next restore.                        *)
LEMMA TrafficStep ==
    ASSUME Covering, LedgerSafe, TrafficInv, [Next]_vars
    PROVE  TrafficInv'
  <1> USE DEF LedgerSafe
  <1>1. ASSUME UNCHANGED <<isolated, gate>>,
               run' = Nil \/ (run'.restore = run.restore /\ run'.left = run.left
                              /\ run'.todo = run.todo /\ run'.record = run.record
                              /\ run # Nil),
               \A u \in Targets, j \in Idents : Clean(u, j) => Clean(u, j)'
        PROVE  TrafficInv'
    BY <1>1 DEF TrafficInv, StillToDo
  <1>2. ASSUME NEW i \in Idents, NEW deletes \in BOOLEAN, NEW route \in Routes,
               Mutate(i, deletes, route)
        PROVE  TrafficInv'
    <2>1. UNCHANGED <<isolated, gate, run>>
      BY <1>2 DEF Mutate
    <2>2. \A u \in Targets, j \in Idents : Clean(u, j) => Clean(u, j)'
      BY <1>2, MutateClean
    <2> QED
      BY <1>1, <2>1, <2>2
  <1>3. ASSUME NEW t \in Targets, NEW i \in Idents, NEW s \in 1 .. MaxSeq,
               Apply(t, i, s) \/ Replay(t, i, s)
        PROVE  TrafficInv'
    <2>1. UNCHANGED <<isolated, gate, run>>
      BY <1>3 DEF Apply, Replay
    <2>2. \A u \in Targets, j \in Idents : Clean(u, j) => Clean(u, j)'
      BY <1>3, TargetClean
    <2> QED
      BY <1>1, <2>1, <2>2
  <1>4. ASSUME NEW t \in Targets, Suppress(t) PROVE TrafficInv'
    <2>1. /\ UNCHANGED <<isolated, gate>> /\ run # Nil
          /\ run'.restore = run.restore /\ run'.left = run.left
          /\ run'.todo = run.todo /\ run'.record = run.record
      BY <1>4, PassTyped DEF Suppress, Pass
    <2>2. \A u \in Targets, j \in Idents : Clean(u, j) => Clean(u, j)'
      BY <1>4, TargetClean
    <2> QED
      BY <1>1, <2>1, <2>2
  <1>5. ASSUME UNCHANGED <<log, holds, ckpt>>, NEW u \in Targets, NEW j \in Idents, Clean(u, j)
        PROVE  Clean(u, j)'
    BY <1>5 DEF Clean, Tombstones
  <1>6. ASSUME NEW t \in Targets, Backup(t) PROVE TrafficInv'
    <2>1. UNCHANGED <<log, holds, ckpt, isolated, gate, run>>
      BY <1>6 DEF Backup
    <2> QED
      BY <1>1, <1>5, <2>1
  <1>7. ASSUME NEW t \in Targets, Restore(t) PROVE TrafficInv'
    <2>1. /\ UNCHANGED <<log, ckpt>> /\ run' = Nil /\ ~gate'.verified
          /\ isolated' = isolated \cup {t}
          /\ \A u \in Targets : u # t => holds'[u] = holds[u]
      BY <1>7 DEF Restore, Ungated, TypeInv
    <2>2. \A u \in Targets \ {t}, j \in Idents : Clean(u, j) => Clean(u, j)'
      BY <2>1 DEF Clean, Tombstones
    <2> QED
      BY <2>1, <2>2 DEF TrafficInv
  <1>8. CASE Reopen
    <2>1. UNCHANGED <<log, holds, ckpt, gate, run>> /\ gate.verified /\ run = Nil
      BY <1>8 DEF Reopen, providers
    <2> QED
      BY <1>5, <2>1 DEF TrafficInv
  <1>9. CASE StartPass
    <2>1. /\ UNCHANGED <<log, holds, ckpt, isolated, gate>>
          /\ run'.left = {[ident |-> i, sequence |-> ledger[i].sequence] : i \in Listed}
      BY <1>9 DEF StartPass, providers
    <2>2. ASSUME NEW u \in Targets, NEW j \in Idents PROVE Clean(u, j) \/ StillToDo(u, j)'
      <3>1. CASE ledger[j] = Nil
        BY <3>1 DEF LedgerInv, Clean
      <3>2. CASE ledger[j] # Nil
        <4>1. j \in Listed
          BY <3>2, AllListed
        <4>2. PICK r : r = [ident |-> j, sequence |-> ledger[j].sequence]
          OBVIOUS
        <4>3. r \in run'.left /\ r.ident = j
          BY <2>1, <4>1, <4>2
        <4> QED
          BY <4>3 DEF StillToDo
      <3> QED
        BY <3>1, <3>2
    <2> QED
      BY <1>5, <2>1, <2>2 DEF TrafficInv
  <1>10. CASE NextRecord
    <2>1. /\ UNCHANGED <<log, holds, ckpt, isolated, gate>>
          /\ run # Nil /\ run.todo = {} /\ run.left # {}
          /\ run' = [run EXCEPT !.record = First, !.left = @ \ {First},
                                !.todo = ToSuppress(First.ident)]
      BY <1>10 DEF NextRecord, First, providers
    <2>2. First \in run.left
      BY <2>1, FirstInside
    <2>3. PICK r : r = First
      OBVIOUS
    <2>4. r \in run.left /\ r.ident \in Idents /\ ledger[r.ident] # Nil
      BY <2>1, <2>2, <2>3, PassTyped DEF PassInv, Known, Due
    <2>5. /\ run'.restore = run.restore /\ run'.record = r
          /\ run'.left = run.left \ {r} /\ run'.todo = ToSuppress(r.ident)
      BY <2>1, <2>3, PassTyped DEF Pass
    <2>6. run.restore => run'.todo = Targets
      BY <2>4, <2>5, RowTyped DEF ToSuppress, Covering
    <2>7. ASSUME NEW u \in Targets, NEW j \in Idents, run.restore, StillToDo(u, j)
          PROVE  StillToDo(u, j)'
      BY <2>1, <2>5, <2>6, <2>7 DEF StillToDo
    <2> QED
      BY <1>5, <2>1, <2>5, <2>7 DEF TrafficInv
  <1>11. CASE RecordTarget
    <2>1. PICK i, t : i = run.record.ident /\ t = run.sent
      OBVIOUS
    <2>2. /\ UNCHANGED <<log, holds, ckpt, isolated, gate>>
          /\ run # Nil /\ t # Nil /\ ledger[i].sequence = run.record.sequence
          /\ run' = [run EXCEPT !.todo = @ \ {t}, !.sent = Nil, !.count = 1]
      BY <1>11, <2>1 DEF RecordTarget, IsCurrent, providers
    <2>3. /\ run'.restore = run.restore /\ run'.left = run.left
          /\ run'.record = run.record /\ run'.todo = run.todo \ {t}
      BY <2>2, PassTyped DEF Pass
    <2>4. /\ t \in Targets /\ i \in Idents /\ ledger[i] # Nil
          /\ holds[t][i] = 0 \/ holds[t][i] > ledger[i].sequence
      BY <2>1, <2>2, PassTyped DEF PassInv, Known, Due
    <2>5. Clean(t, i)
      <3>1. \A s \in Tombstones(i) : s \in Nat /\ s <= ledger[i].sequence
        BY <2>4, LogTyped DEF LedgerInv
      <3>2. ledger[i].sequence \in Nat /\ holds[t][i] \in Nat
        BY <2>4, RowTyped DEF TypeInv
      <3> QED
        BY <2>4, <3>1, <3>2 DEF Clean
    <2>6. ASSUME NEW u \in Targets, NEW j \in Idents, Clean(u, j) \/ StillToDo(u, j)
          PROVE  Clean(u, j) \/ StillToDo(u, j)'
      BY <2>1, <2>3, <2>5, <2>6 DEF StillToDo
    <2> QED
      BY <1>5, <2>2, <2>3, <2>6 DEF TrafficInv
  <1>12. CASE SuppressFails \/ RecordStale
    <2>1. UNCHANGED <<log, holds, ckpt, isolated, gate>> /\ run' = Nil
      BY <1>12 DEF SuppressFails, RecordStale, providers
    <2> QED
      BY <1>1, <1>5, <2>1
  <1>13. CASE EndPass
    <2>1. /\ UNCHANGED <<log, holds, ckpt, isolated>> /\ run' = Nil
          /\ run # Nil /\ run.todo = {} /\ run.left = {}
          /\ gate'.verified => gate.verified \/ run.restore
      BY <1>13 DEF EndPass, providers, TypeInv
    <2>2. ASSUME gate'.verified, NEW u \in Targets, NEW j \in Idents PROVE Clean(u, j)
      BY <2>1, <2>2 DEF TrafficInv, StillToDo
    <2> QED
      BY <1>5, <2>1, <2>2 DEF TrafficInv
  <1>14. CASE UNCHANGED vars
    BY <1>14 DEF vars, providers, TrafficInv, Clean, StillToDo, Tombstones
  <1> QED
    BY <1>2, <1>3, <1>4, <1>6, <1>7, <1>8, <1>9, <1>10, <1>11, <1>12, <1>13, <1>14
       DEF Next, Reconcile

(* NothingReturns: neither a restored snapshot nor a replayed upsert       *)
(* brings a deleted document back into traffic, when one page of the       *)
(* reconciler holds the ledger and every mutation goes to every target.    *)
(* The reconciler does not go on to a second page, and a row names the     *)
(* targets of its deletion only: without the first, or with routes that    *)
(* differ, TLC finds the document that returns.                            *)
THEOREM NothingReturns ==
    ASSUME Covering
    PROVE  Spec => []NothingResurrected
  <1>1. LedgerSafe /\ TrafficInv /\ [Next]_vars => TrafficInv'
    BY TrafficStep
  <1>2. TrafficInv => NothingResurrected
    BY DEF TrafficInv, NothingResurrected, Clean
  <1> QED
    BY <1>1, <1>2, SafeInit, SafeStep, TrafficInit, PTL DEF Spec
=============================================================================
