---------------------------- MODULE AuditDelivery ----------------------------
(***************************************************************************)
(* Delivery of the audit chain to a sink outside                           *)
(* (query_api/app/control_plane/audit_delivery.py, audit_delivery_worker.py*)
(* and audit_http_sink.py): workers read the cursor of the destination,    *)
(* post the entries after it, and advance the cursor over what the sink    *)
(* acknowledged.  Nothing but the cursor's row lock keeps two workers of   *)
(* one destination apart.  The chain is that of ControlPlaneLog, which     *)
(* ControlPlaneStore implements.                                           *)
(***************************************************************************)
EXTENDS ControlPlaneLog, FiniteSets, SequencesExt

CONSTANTS
    Workers,
    PageLimit,    \* AUDIT_DELIVERY_BATCH_SIZE
    NoAttempt,
    MaxAudit,     \* bound: audit entries
    MaxMishaps    \* bound: refused deliveries, lost answers, crashes

ASSUME DeliveryAssumption ==
    PageLimit \in Nat \ {0} /\ {MaxAudit, MaxMishaps} \subseteq Nat

VARIABLES
    cursor,      \* audit_delivery_checkpoints: the last entry acknowledged
    deferred,    \* next_retry_at is in the future
    at,          \* worker -> its delivery attempt, or NoAttempt
    sink,        \* the entries the sink holds
    mishaps

deliveryVars == <<cursor, deferred, at, sink>>
auditVars    == <<cpLogVars, deliveryVars, mishaps>>

Fault == mishaps < MaxMishaps /\ mishaps' = mishaps + 1

\* A position in the chain: how many entries, and the hash of the last.
At(chain) == [sequence |-> Len(chain), hash |-> Tip(chain)]

HeadOf(batch) == [sequence |-> Last(batch).sequence, hash |-> Hash(Last(batch))]

-----------------------------------------------------------------------------
(* deliver_once *)

Goto(w, a) == at' = [at EXCEPT ![w] = a]

\* next_batch takes the cursor first.
ReadCursor(w) ==
    /\ at[w] = NoAttempt
    /\ Goto(w, [step |-> "head", cursor |-> cursor, deferred |-> deferred])
    /\ UNCHANGED <<cpLogVars, cursor, deferred, sink, mishaps>>

\* Variant: the cursor must be at the head.
BoundaryAtHead(c) == c = At(audit)

\* The cursor is an entry of the chain; the head is read.
Boundary(c) ==
    IF c.sequence = 0 THEN c.hash = ZeroHash
    ELSE c.sequence <= Len(audit) /\ Hash(audit[c.sequence]) = c.hash

ReadHead(w) ==
    LET a == at[w] IN
    /\ a # NoAttempt /\ a.step = "head"
    /\ IF a.deferred \/ ~Boundary(a.cursor)
          THEN Goto(w, NoAttempt)
          ELSE Goto(w, [step |-> "rows", cursor |-> a.cursor, head |-> At(audit)])
    /\ UNCHANGED <<cpLogVars, cursor, deferred, sink, mishaps>>

\* _verify_page: the entries follow the cursor without a gap.
Follows(c, page) ==
    \A n \in 1 .. Len(page) :
        /\ page[n].sequence = c.sequence + n
        /\ page[n].previous = IF n = 1 THEN c.hash ELSE Hash(page[n - 1])

Page(a) == SubSeq(audit, a.cursor.sequence + 1,
                  Min({Len(audit), a.cursor.sequence + PageLimit}))

\* An integrity error ends the worker's process, and nothing is sent.
Deliverable(a, page) ==
    /\ page # <<>>
    /\ Follows(a.cursor, page)
    /\ Last(page).sequence = a.head.sequence => HeadOf(page) = a.head

ReadRows(w) ==
    LET a == at[w]
        page == Page(a)
    IN  /\ a # NoAttempt /\ a.step = "rows"
        /\ IF Deliverable(a, page)
              THEN Goto(w, [step |-> "send", batch |-> page])
              ELSE Goto(w, NoAttempt)
        /\ UNCHANGED <<cpLogVars, cursor, deferred, sink, mishaps>>

\* The sink accepts a batch, also one it has had before, and answers with
\* the last entry of it.
Deliver(w) ==
    /\ at[w] # NoAttempt /\ at[w].step = "send"
    /\ sink' = sink \cup {at[w].batch[n] : n \in DOMAIN at[w].batch}
    /\ Goto(w, [step |-> "advance", ack |-> HeadOf(at[w].batch)])
    /\ UNCHANGED <<cpLogVars, cursor, deferred, mishaps>>

\* An error status, a transport error, an answer that is lost or that does
\* not fit: the entries may be at the sink all the same.
DeliverFails(w) ==
    /\ at[w] # NoAttempt /\ at[w].step = "send"
    /\ Fault
    /\ \E taken \in {{}, {at[w].batch[n] : n \in DOMAIN at[w].batch}} :
          sink' = sink \cup taken
    /\ Goto(w, [step |-> "fail"])
    /\ UNCHANGED <<cpLogVars, cursor, deferred>>

\* advance, under the lock of the cursor's row: a slower worker's answer
\* moves it no more.
Ahead(ack) == ack.sequence > cursor.sequence

Advance(w) ==
    /\ at[w] # NoAttempt /\ at[w].step = "advance"
    /\ Boundary(at[w].ack)
    /\ IF Ahead(at[w].ack)
          THEN cursor' = at[w].ack /\ deferred' = FALSE
          ELSE UNCHANGED <<cursor, deferred>>
    /\ Goto(w, NoAttempt)
    /\ UNCHANGED <<cpLogVars, sink, mishaps>>

\* Variant: a failed batch is given up.
CursorAfterSkipped == At(audit)

CursorAfterFailure == cursor

\* record_failure.
RecordFailure(w) ==
    /\ at[w] # NoAttempt /\ at[w].step = "fail"
    /\ cursor' = CursorAfterFailure
    /\ deferred' = TRUE
    /\ Goto(w, NoAttempt)
    /\ UNCHANGED <<cpLogVars, sink, mishaps>>

\* The delay is over.
RetryDue ==
    /\ deferred
    /\ deferred' = FALSE
    /\ UNCHANGED <<cpLogVars, cursor, at, sink, mishaps>>

\* A worker ends at any point and is started again.
Crash(w) ==
    /\ at[w] # NoAttempt
    /\ Fault
    /\ Goto(w, NoAttempt)
    /\ UNCHANGED <<cpLogVars, cursor, deferred, sink>>

-----------------------------------------------------------------------------

DeliveryInit ==
    /\ CPLogInit
    /\ cursor = At(<<>>)
    /\ deferred = FALSE
    /\ at = [w \in Workers |-> NoAttempt]
    /\ sink = {}
    /\ mishaps = 0

\* The writers of the control plane.
Write ==
    /\ Len(audit) < MaxAudit
    /\ Commit \/ AppendAudit(0)
    /\ UNCHANGED <<deliveryVars, mishaps>>

Attempt(w) ==
    \/ ReadCursor(w) \/ ReadHead(w) \/ ReadRows(w)
    \/ Deliver(w) \/ Advance(w) \/ RecordFailure(w)

DeliveryNext ==
    \/ Write
    \/ \E w \in Workers : Attempt(w) \/ DeliverFails(w) \/ Crash(w)
    \/ RetryDue

\* The workers poll for ever, and delays end.
DeliveryFairness ==
    /\ \A w \in Workers : WF_auditVars(Attempt(w))
    /\ WF_auditVars(RetryDue)

DeliverySpec == DeliveryInit /\ [][DeliveryNext]_auditVars /\ DeliveryFairness

-----------------------------------------------------------------------------

DeliveryTypeOK ==
    /\ sink \subseteq Range(audit)
    /\ cursor.sequence \in 0 .. Len(audit)
    /\ deferred \in BOOLEAN
    /\ mishaps \in 0 .. MaxMishaps

(* CursorCovered: what lies behind the cursor is at the sink, entry by     *)
(* entry, when answers are lost, workers race and batches are repeated;    *)
(* the cursor itself is an entry of the chain.                             *)
CursorCovered ==
    /\ \A n \in 1 .. cursor.sequence : audit[n] \in sink
    /\ Boundary(cursor)

(* SinkGapFree: the sink can verify what it holds at any time: it has a    *)
(* beginning of the chain.                                                 *)
SinkGapFree == \A e \in sink : \A n \in 1 .. e.sequence : audit[n] \in sink

(* CursorAdvances: the answer of a slow worker never moves the cursor back.*)
CursorAdvances == [][cursor'.sequence >= cursor.sequence]_cursor

(* Delivered: every entry reaches the sink and is passed by the cursor.    *)
Delivered == \A n \in 1 .. MaxAudit : Len(audit) >= n ~> cursor.sequence >= n
=============================================================================
