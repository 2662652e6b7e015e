-------------------------- MODULE ControlPlaneStore --------------------------
(***************************************************************************)
(* The control-plane store in PostgreSQL                                   *)
(* (query_api/app/control_plane/postgres_store.py), the dispatchers that   *)
(* announce its outbox on Redis (query_api/app/main.py), and the retention *)
(* job of that outbox (scripts/ops/outbox_retention.py).                   *)
(*                                                                         *)
(* Transactions run at READ COMMITTED: a statement sees what is committed  *)
(* when it starts, waits for a row lock another transaction holds, and     *)
(* evaluates its condition on the row as it then is.  The writes of an     *)
(* open transaction are in txn and take effect at its end.                 *)
(***************************************************************************)
EXTENDS Integers, Sequences, FiniteSets, FiniteSetsExt

CONSTANTS
    Writers,         \* threads of the Query API replicas that write
    Dispatchers,     \* outbox dispatchers, one in a replica
    HeldRevisions,   \* legal hold of the retention policy
    BatchSize,       \* of a dispatcher's page and of a retention batch
    MaxUnpublished,  \* backlog above which retention refuses
    Nil,
    MaxEntries,      \* bound: audit entries
    MaxFaults        \* bound: lost connections, failed calls, crashes

ASSUME StoreBoundsAssumption ==
    /\ BatchSize \in Nat \ {0}
    /\ {MaxUnpublished, MaxEntries, MaxFaults} \subseteq Nat

VARIABLES
    revision,    \* control_plane_state.revision, 0 without a row
    auditRows,   \* control_plane_audit
    auditHead,   \* control_plane_audit_head
    outbox,      \* revisions with a row in control_plane_outbox
    marked,      \* revisions whose published_at was set
    known,       \* writer -> revision its replica has loaded
    txn,         \* writer -> its open transaction, or Nil
    notified,    \* revisions announced on the Redis channel
    page,        \* dispatcher -> outbox rows it has still to announce
    announced,   \* dispatchers that announced the first row of their page
    job,         \* the retention job, or Nil
    faults

tables       == <<revision, auditRows, auditHead, outbox, marked>>
dispatchVars == <<notified, page, announced>>
storeVars    == <<tables, known, txn, dispatchVars, job, faults>>

L == INSTANCE ControlPlaneLog WITH
         audit <- [n \in 1 .. Cardinality(auditRows) |->
                       CHOOSE e \in auditRows : e.sequence = n],
         published <- marked

Fault == faults < MaxFaults /\ faults' = faults + 1

-----------------------------------------------------------------------------
(* commit and append_audit *)

Open == {w \in Writers : txn[w] # Nil}

\* The row of control_plane_state is locked from its write to the end of the
\* transaction, that of control_plane_audit_head from its SELECT FOR UPDATE.
StateFree(w) == \A v \in Open \ {w} : ~ (txn[v].commits /\ txn[v].step # "state")
HeadFree(w)  == \A v \in Open \ {w} : txn[v].step # "close"

Ended(w)    == txn' = [txn EXCEPT ![w] = Nil]

Room == Cardinality(auditRows) + Cardinality(Open) < MaxEntries

\* _cas_state looks whether there is a state row.
BeginCommit(w) ==
    /\ txn[w] = Nil
    /\ Room
    /\ txn' = [txn EXCEPT ![w] =
           [commits |-> TRUE, step |-> "state", first |-> revision = 0,
            expected |-> known[w], revision |-> known[w] + 1, seen |-> Nil]]
    /\ UNCHANGED <<tables, known, dispatchVars, job, faults>>

\* An entry without a change: the revision it names, if any, is committed.
BeginAudit(w, r) ==
    /\ txn[w] = Nil
    /\ Room
    /\ r <= revision
    /\ txn' = [txn EXCEPT ![w] =
           [commits |-> FALSE, step |-> "audit", first |-> FALSE,
            expected |-> known[w], revision |-> r, seen |-> Nil]]
    /\ UNCHANGED <<tables, known, dispatchVars, job, faults>>

\* The UPDATE finds the expected revision; the INSERT of the first commit
\* finds no row.
IsCurrent(t) == IF t.first THEN t.expected = 0 /\ revision = 0
                           ELSE t.expected = revision

CasState(w) ==
    /\ txn[w] # Nil /\ txn[w].step = "state"
    /\ StateFree(w)
    /\ IsCurrent(txn[w])
    /\ txn' = [txn EXCEPT ![w].step = "audit"]
    /\ UNCHANGED <<tables, known, dispatchVars, job, faults>>

\* StateConflictError, also from the IntegrityError of a second INSERT.
Conflict(w) ==
    /\ txn[w] # Nil /\ txn[w].step = "state"
    /\ StateFree(w)
    /\ ~IsCurrent(txn[w])
    /\ Ended(w)
    /\ UNCHANGED <<tables, known, dispatchVars, job, faults>>

\* Variant: an entry of no revision starts a chain of its own.
EntryDetached(t) == L!Material(t.seen.sequence + 1, t.revision,
                               IF t.commits THEN t.seen.hash ELSE L!ZeroHash)

Entry(t) == L!Material(t.seen.sequence + 1, t.revision, t.seen.hash)

AppendAudit(w) ==
    /\ txn[w] # Nil /\ txn[w].step = "audit"
    /\ HeadFree(w)
    /\ txn' = [txn EXCEPT ![w].step = "close", ![w].seen = auditHead]
    /\ UNCHANGED <<tables, known, dispatchVars, job, faults>>

\* Variant: the notification of a commit is left to the caller.
RowsOfNone(t) == {}

RowsOf(t) == IF t.commits THEN {t.revision} ELSE {}

\* The entry and the outbox row are inserted, the head is replaced if it is as
\* it was read, and the transaction commits.  The replica may not learn of it.
Close(w) ==
    LET t == txn[w] IN
    /\ t # Nil /\ t.step = "close"
    /\ t.seen = auditHead
    /\ revision' = IF t.commits THEN t.revision ELSE revision
    /\ auditRows' = auditRows \cup {Entry(t)}
    /\ auditHead' = [sequence |-> Entry(t).sequence, hash |-> L!Hash(Entry(t))]
    /\ outbox' = outbox \cup RowsOf(t)
    /\ \E k \in {known[w], revision'} : known' = [known EXCEPT ![w] = k]
    /\ Ended(w)
    /\ UNCHANGED <<marked, dispatchVars, job, faults>>

\* A lost connection or the end of the process: nothing of it stays.
Abort(w) ==
    /\ txn[w] # Nil
    /\ Fault
    /\ Ended(w)
    /\ UNCHANGED <<tables, known, dispatchVars, job>>

\* load: the replica takes over the committed state.
Load(w) ==
    /\ txn[w] = Nil
    /\ known[w] # revision
    /\ known' = [known EXCEPT ![w] = revision]
    /\ UNCHANGED <<tables, txn, dispatchVars, job, faults>>

-----------------------------------------------------------------------------
(* dispatch_control_plane_outbox_once *)

\* The first BatchSize unpublished rows, in the order of their revisions.
Unpublished ==
    LET open == outbox \ marked
    IN  {r \in open : Cardinality({s \in open : s <= r}) <= BatchSize}

ListOutbox(d) ==
    /\ page[d] = {}
    /\ Unpublished # {}
    /\ page' = [page EXCEPT ![d] = Unpublished]
    /\ UNCHANGED <<tables, known, txn, notified, announced, job, faults>>

NextRow(d) == Min(page[d])
Done(d)    == page' = [page EXCEPT ![d] = @ \ {NextRow(d)}]

Announce(d) ==
    /\ page[d] # {} /\ d \notin announced
    /\ notified' = notified \cup {NextRow(d)}
    /\ announced' = announced \cup {d}
    /\ UNCHANGED <<tables, known, txn, page, job, faults>>

\* record_outbox_failure keeps the row; later rows go on.
AnnounceFails(d) ==
    /\ page[d] # {} /\ d \notin announced
    /\ Fault
    /\ Done(d)
    /\ UNCHANGED <<tables, known, txn, notified, announced, job>>

\* Variant: the row is marked when it is listed for publication.
MarkableAlways(d) == TRUE

Markable(d) == d \in announced

\* mark_outbox_published, which does nothing if another one has marked it.
Mark(d) ==
    /\ page[d] # {} /\ Markable(d)
    /\ marked' = marked \cup {NextRow(d)}
    /\ announced' = announced \ {d}
    /\ Done(d)
    /\ UNCHANGED <<revision, auditRows, auditHead, outbox, known, txn, notified, job, faults>>

\* The mark fails, or the replica ends and starts: the row is announced again.
Forget(d) ==
    /\ page[d] # {}
    /\ Fault
    /\ page' = [page EXCEPT ![d] = {}]
    /\ announced' = announced \ {d}
    /\ UNCHANGED <<tables, known, txn, notified, job>>

-----------------------------------------------------------------------------
(* The retention job, one at a time by its advisory lock *)

Backlog == Cardinality(outbox \ marked)

\* The policy's cutoff covers some of the rows published so far.
StartRetention(old) ==
    /\ job = Nil
    /\ Backlog <= MaxUnpublished
    /\ old # {} /\ old \subseteq (outbox \cap marked) \ HeldRevisions
    /\ job' = [initial |-> Backlog, old |-> old]
    /\ UNCHANGED <<tables, known, txn, dispatchVars, faults>>

\* Variant: the newest row goes as well once it is old.
PrunableNewest == job.old \cap outbox

Prunable == {r \in job.old \cap outbox : \E s \in outbox : s > r}

DeleteBatch(rs) ==
    /\ job # Nil
    /\ Backlog <= job.initial /\ Backlog <= MaxUnpublished
    /\ rs # {} /\ rs \subseteq Prunable /\ Cardinality(rs) <= BatchSize
    /\ outbox' = outbox \ rs
    /\ UNCHANGED <<revision, auditRows, auditHead, marked, known, txn, dispatchVars, job, faults>>

\* All batches done, a risen backlog, or a failure.
EndRetention ==
    /\ job # Nil
    /\ job' = Nil
    /\ UNCHANGED <<tables, known, txn, dispatchVars, faults>>

-----------------------------------------------------------------------------

StoreInit ==
    /\ revision = 0
    /\ auditRows = {}
    /\ auditHead = [sequence |-> 0, hash |-> <<>>]
    /\ outbox = {}
    /\ marked = {}
    /\ known = [w \in Writers |-> 0]
    /\ txn = [w \in Writers |-> Nil]
    /\ notified = {}
    /\ page = [d \in Dispatchers |-> {}]
    /\ announced = {}
    /\ job = Nil
    /\ faults = 0

Transact(w) == CasState(w) \/ Conflict(w) \/ AppendAudit(w) \/ Close(w)
Dispatch(d) == ListOutbox(d) \/ Announce(d) \/ Mark(d)
Request(w)  == BeginCommit(w) \/ \E r \in {0, known[w]} : BeginAudit(w, r)
Retention   == (\E old \in SUBSET marked : StartRetention(old))
               \/ (\E rs \in SUBSET outbox : DeleteBatch(rs))
               \/ EndRetention

StoreNext ==
    \/ \E w \in Writers : Request(w) \/ Transact(w) \/ Abort(w) \/ Load(w)
    \/ \E d \in Dispatchers : Dispatch(d) \/ AnnounceFails(d) \/ Forget(d)
    \/ Retention

\* Transactions end, and the dispatchers poll for ever.
StoreFairness ==
    /\ \A w \in Writers : WF_storeVars(Transact(w))
    /\ \A d \in Dispatchers : WF_storeVars(Dispatch(d))

StoreSpec == StoreInit /\ [][StoreNext]_storeVars /\ StoreFairness

-----------------------------------------------------------------------------

StoreTypeOK ==
    /\ revision \in Nat /\ known \in [Writers -> 0 .. revision]
    /\ {e.sequence : e \in auditRows} = 1 .. auditHead.sequence
    /\ outbox \subseteq 1 .. revision /\ marked \subseteq 1 .. revision
    /\ announced \subseteq {d \in Dispatchers : page[d] # {}}
    /\ faults \in 0 .. MaxFaults

(* Implements: sessions that interleave statement by statement, conflict,  *)
(* end in the middle and lose their answers behave like the one-step store *)
(* of the unit tests, whose chain has no gap and no fork.                  *)
Implements == L!CPLogSpec

(* RevisionAccounted: see ControlPlaneLog.                                 *)
RevisionAccounted == L!RevisionAccounted

(* PublishedAnnounced: a row counts as published, and may be deleted, only *)
(* when its notification was sent, whichever replica sent it.              *)
PublishedAnnounced == marked \subseteq notified

(* Announces: every committed revision is announced in the end, by some    *)
(* replica, when those that listed it end and start again.                 *)
Announces == \A r \in 1 .. MaxEntries : revision >= r ~> r \in notified
=============================================================================
