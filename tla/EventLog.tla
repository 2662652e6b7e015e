------------------------------ MODULE EventLog ------------------------------
(***************************************************************************)
(* What the indexing event store promises its users: a log of document     *)
(* mutations with one increasing sequence per identity, positions that     *)
(* agree with the sequences, and a high-water mark that no later mutation  *)
(* can slip under.  Every operation is one step.  EventStore implements    *)
(* it with PostgreSQL transactions; IndexingPipeline uses it.              *)
(***************************************************************************)
EXTENDS Integers

CONSTANTS
    Idents,      \* document identities (tenant, collection, document)
    Clusters,    \* Typesense clusters
    Keys,        \* idempotency keys
    RepairKeys,  \* the keys of rollout repairs
    Bodies       \* documents, and the marker of a deletion

VARIABLES
    rows,        \* the committed rows of indexing_event_outbox
    head,        \* identity -> last sequence (indexing_event_heads)
    published,   \* positions of the rows with a published_at
    fence        \* the highest high-water mark handed out

logVars == <<rows, head, published, fence>>

Row == [pos : Nat \ {0}, ident : Idents, seq : Nat \ {0}, key : Keys,
        body : Bodies, targets : SUBSET Clusters]

WithKey(i, k) == {r \in rows : r.ident = i /\ r.key = k}
Newest(i)     == {r \in rows : r.ident = i /\ r.seq = head[i]}

(***************************************************************************)
(* A mutation is recorded: prepare, or prepare_latest_repair, which clones *)
(* the newest mutation of its identity.                                    *)
(***************************************************************************)
Record(r) ==
    /\ r \in Row
    /\ r.seq = head[r.ident] + 1
    /\ WithKey(r.ident, r.key) = {}
    /\ r.pos > fence
    /\ \A s \in rows : s.pos # r.pos
    /\ \A s \in rows : s.ident = r.ident => s.pos < r.pos
    /\ r.key \in RepairKeys => \E s \in Newest(r.ident) : s.body = r.body
    /\ rows' = rows \cup {r}
    /\ head' = [head EXCEPT ![r.ident] = r.seq]
    /\ UNCHANGED <<published, fence>>

(***************************************************************************)
(* The publisher closes a row it has handed to Kafka.                      *)
(***************************************************************************)
MarkPublished(r) ==
    /\ r \in rows
    /\ r.pos \notin published
    /\ published' = published \cup {r.pos}
    /\ UNCHANGED <<rows, head, fence>>

(***************************************************************************)
(* high_water_mark: the position of the last row, or zero.                 *)
(***************************************************************************)
HighWater(h) ==
    /\ \A r \in rows : r.pos <= h
    /\ h = 0 \/ \E r \in rows : r.pos = h
    /\ h >= fence
    /\ fence' = h
    /\ UNCHANGED <<rows, head, published>>

(***************************************************************************)
(* The retention job removes a published row that a newer one supersedes.  *)
(***************************************************************************)
Prune(r) ==
    /\ r \in rows
    /\ r.pos \in published
    /\ \E s \in rows : s.ident = r.ident /\ s.seq > r.seq
    /\ rows' = rows \ {r}
    /\ UNCHANGED <<head, published, fence>>

LogInit ==
    /\ rows = {}
    /\ head = [i \in Idents |-> 0]
    /\ published = {}
    /\ fence = 0

LogNext ==
    \/ \E r \in rows' \ rows : Record(r)
    \/ \E r \in rows : MarkPublished(r) \/ Prune(r)
    \/ \E h \in {0} \cup {r.pos : r \in rows} : HighWater(h)

LogSpec == LogInit /\ [][LogNext]_logVars

-----------------------------------------------------------------------------

LogTypeOK ==
    /\ rows \subseteq Row
    /\ head \in [Idents -> Nat]
    /\ published \subseteq Nat
    /\ fence \in Nat

(* OrderAgrees: within one identity the positions are in the order of the  *)
(* sequences.  list_latest_by_identity takes the highest position for the  *)
(* newest mutation, so a repair would resurrect an old one otherwise.      *)
OrderAgrees ==
    \A r, s \in rows :
        r.ident = s.ident => (r.seq < s.seq <=> r.pos < s.pos)

(* HeadIsStored: the newest mutation of an identity is always in the       *)
(* outbox, whatever retention has removed: prepare_latest_repair never     *)
(* finds a head without its event.                                         *)
HeadIsStored ==
    \A i \in Idents : head[i] > 0 => \E r \in rows : r.ident = i /\ r.seq = head[i]

(* OnePerKey: an idempotency key names at most one stored mutation.        *)
OnePerKey ==
    \A r, s \in rows : r.ident = s.ident /\ r.key = s.key => r = s
=============================================================================
