----------------------------- MODULE EventStore -----------------------------
(***************************************************************************)
(* The indexing event store on PostgreSQL                                  *)
(* (query_api/app/indexing_events/postgres_store.py): prepare and          *)
(* prepare_latest_repair as transactions of several statements, run by     *)
(* concurrent sessions, with the row lock on the identity's head, the      *)
(* identity column that numbers rows before they commit, and the table     *)
(* lock of high_water_mark; and the retention job of                       *)
(* scripts/ops/outbox_retention.py.                                        *)
(***************************************************************************)
EXTENDS Integers

CONSTANTS
    Idents, Clusters, Keys, RepairKeys, Bodies,
    Sessions,    \* database sessions of the Query API replicas
    Routes,      \* target sets the routing can choose
    NoDraft,     \* a session outside of a request
    NoRow,       \* no outbox row
    MaxPos       \* bound: positions the identity column hands out

ASSUME RepairKeysAssumption == RepairKeys \subseteq Keys
ASSUME RoutesAssumption == Routes \subseteq SUBSET Clusters
ASSUME MaxPosAssumption == MaxPos \in Nat

VARIABLES
    rows, head, published,  \* the committed tables
    fence,       \* the highest high-water mark handed out
    nextPos,     \* the identity column: never rolled back
    phase,       \* session -> where its request is
    draft,       \* session -> the request
    row          \* session -> the row it has inserted, or the result

logVars  == <<rows, head, published, fence>>
txnVars  == <<phase, draft, row>>
vars     == <<logVars, nextPos, txnVars>>

Log == INSTANCE EventLog

Draft == [ident : Idents, key : Keys, body : Bodies, targets : SUBSET Clusters]

\* The session holds the lock on its identity's head, with a row that is
\* inserted and not committed.
Inserting(c) == phase[c] = "open"

HeadLocked(i) == \E c \in Sessions : Inserting(c) /\ draft[c].ident = i

\* Variant: the mark is read beside open inserts.
DrainedAlways == TRUE

\* LOCK TABLE ... IN SHARE MODE is granted.
Drained == \A c \in Sessions : ~Inserting(c)

Superseded(r) == \E s \in rows : s.ident = r.ident /\ s.seq > r.seq

\* No row carries the key of the request.
Unrecorded(d) == Log!WithKey(d.ident, d.key) = {}

NextSequence(d) == head[d.ident] + 1

IsRepair(d) == d.key \in RepairKeys

\* Variant: the request digests are not compared.
AnswerUnverified(d, r) == r

(***************************************************************************)
(* _verify_existing: the stored row answers a repetition of its request,   *)
(* and no other request under its key.  A repair does not compare.         *)
(***************************************************************************)
Answer(d, r) == IF IsRepair(d) \/ r.body = d.body THEN r ELSE NoRow

-----------------------------------------------------------------------------

(* A request reaches the store.  prepare first looks its key up without a  *)
(* lock; prepare_latest_repair goes straight to the head.                  *)
Begin(c, d) ==
    /\ phase[c] = "idle"
    /\ draft' = [draft EXCEPT ![c] = d]
    /\ \/ /\ ~IsRepair(d)
          /\ \E r \in Log!WithKey(d.ident, d.key) :
                /\ phase' = [phase EXCEPT ![c] = "done"]
                /\ row' = [row EXCEPT ![c] = Answer(d, r)]
       \/ /\ IsRepair(d) \/ Unrecorded(d)
          /\ phase' = [phase EXCEPT ![c] = "waiting"]
          /\ UNCHANGED row
    /\ UNCHANGED <<logVars, nextPos>>

(* The head is locked and the key looked up again: it was recorded in the  *)
(* meantime, or a repair has nothing to clone, and the transaction ends.   *)
LockAndReturn(c) ==
    LET d == draft[c] IN
    /\ phase[c] = "waiting"
    /\ ~HeadLocked(d.ident)
    /\ \/ \E r \in Log!WithKey(d.ident, d.key) :
             row' = [row EXCEPT ![c] = Answer(d, r)]
       \/ /\ Unrecorded(d)
          /\ IsRepair(d) /\ head[d.ident] = 0
          /\ row' = [row EXCEPT ![c] = NoRow]
    /\ phase' = [phase EXCEPT ![c] = "done"]
    /\ UNCHANGED <<logVars, nextPos, draft>>

(* The body a request records: its own, or the newest one for a repair.    *)
RecordedBody(d) ==
    IF IsRepair(d) THEN (CHOOSE s \in Log!Newest(d.ident) : TRUE).body
                   ELSE d.body

(* The head is locked and the row inserted: it takes the next sequence of  *)
(* its identity and the next position of the table.                        *)
LockAndInsert(c) ==
    LET d == draft[c] IN
    /\ phase[c] = "waiting"
    /\ ~HeadLocked(d.ident)
    /\ Unrecorded(d)
    /\ IsRepair(d) => head[d.ident] > 0
    /\ nextPos <= MaxPos
    /\ row' = [row EXCEPT ![c] =
                  [pos |-> nextPos, ident |-> d.ident, seq |-> NextSequence(d),
                   key |-> d.key, body |-> RecordedBody(d),
                   targets |-> d.targets]]
    /\ nextPos' = nextPos + 1
    /\ phase' = [phase EXCEPT ![c] = "open"]
    /\ UNCHANGED <<logVars, draft>>

Commit(c) ==
    /\ phase[c] = "open"
    /\ rows' = rows \cup {row[c]}
    /\ head' = [head EXCEPT ![row[c].ident] = row[c].seq]
    /\ phase' = [phase EXCEPT ![c] = "done"]
    /\ UNCHANGED <<published, fence, nextPos, draft, row>>

(* The transaction is rolled back: an error, a lost connection, a dead     *)
(* replica.  Its position is lost.                                         *)
Rollback(c) ==
    /\ phase[c] \in {"waiting", "open"}
    /\ phase' = [phase EXCEPT ![c] = "done"]
    /\ row' = [row EXCEPT ![c] = NoRow]
    /\ UNCHANGED <<logVars, nextPos, draft>>

(* The request is answered; its client may send it again.                  *)
Finish(c) ==
    /\ phase[c] = "done"
    /\ phase' = [phase EXCEPT ![c] = "idle"]
    /\ draft' = [draft EXCEPT ![c] = NoDraft]
    /\ row' = [row EXCEPT ![c] = NoRow]
    /\ UNCHANGED <<logVars, nextPos>>

MarkPublished(r) ==
    /\ r.pos \notin published
    /\ published' = published \cup {r.pos}
    /\ UNCHANGED <<rows, head, fence, nextPos, txnVars>>

(* high_water_mark: the table lock waits for every transaction that has    *)
(* inserted, and then the highest committed position is read.              *)
HighWaterMark ==
    /\ Drained
    /\ \E h \in {0} \cup {r.pos : r \in rows} :
          /\ \A r \in rows : r.pos <= h
          /\ fence' = h
    /\ UNCHANGED <<rows, head, published, nextPos, txnVars>>

(* The retention job deletes a published row older than its cutoff, unless *)
(* it is the newest of its identity.                                       *)
Prune(r) ==
    /\ r.pos \in published
    /\ Superseded(r)
    /\ rows' = rows \ {r}
    /\ UNCHANGED <<head, published, fence, nextPos, txnVars>>

Init ==
    /\ rows = {}
    /\ head = [i \in Idents |-> 0]
    /\ published = {}
    /\ fence = 0
    /\ nextPos = 1
    /\ phase = [c \in Sessions |-> "idle"]
    /\ draft = [c \in Sessions |-> NoDraft]
    /\ row = [c \in Sessions |-> NoRow]

Next ==
    \/ \E c \in Sessions :
          \/ \E i \in Idents, k \in Keys, b \in Bodies, T \in Routes :
                Begin(c, [ident |-> i, key |-> k, body |-> b, targets |-> T])
          \/ LockAndReturn(c)
          \/ LockAndInsert(c)
          \/ Commit(c)
          \/ Rollback(c)
          \/ Finish(c)
    \/ \E r \in rows : MarkPublished(r) \/ Prune(r)
    \/ HighWaterMark

Spec == Init /\ [][Next]_vars

-----------------------------------------------------------------------------

TypeOK ==
    /\ Log!LogTypeOK
    /\ nextPos \in Nat \ {0}
    /\ phase \in [Sessions -> {"idle", "waiting", "open", "done"}]
    /\ draft \in [Sessions -> Draft \cup {NoDraft}]
    /\ row \in [Sessions -> Log!Row \cup {NoRow}]

(* OrderAgrees, HeadIsStored, OnePerKey: as EventLog states them.          *)
OrderAgrees  == Log!OrderAgrees
HeadIsStored == Log!HeadIsStored
OnePerKey    == Log!OnePerKey

(* AnsweredIsDurable: a request that is answered with an event finds its   *)
(* own mutation in the outbox, or published and superseded.                *)
AnsweredIsDurable ==
    \A c \in Sessions :
        phase[c] = "done" /\ row[c] # NoRow =>
            /\ row[c].ident = draft[c].ident /\ row[c].key = draft[c].key
            /\ IsRepair(draft[c]) \/ row[c].body = draft[c].body
            /\ \/ row[c] \in rows
               \/ row[c].pos \in published /\ row[c].seq < head[row[c].ident]

(* ImplementsLog: the transactions implement the atomic log of EventLog:   *)
(* no mutation is committed out of sequence, under a used key, as a repair *)
(* of anything but the newest mutation, or below a high-water mark that    *)
(* was already returned.                                                   *)
ImplementsLog == Log!LogSpec
=============================================================================
