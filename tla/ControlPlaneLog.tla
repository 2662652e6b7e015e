--------------------------- MODULE ControlPlaneLog ---------------------------
(***************************************************************************)
(* What the control-plane store promises: a revision that each commit      *)
(* raises by one together with its audit entry and its notification, and   *)
(* an audit chain that only grows.  It is the store of the unit tests      *)
(* (query_api/app/control_plane/in_memory_store.py), whose operations are  *)
(* one step each under a lock; ControlPlaneStore implements it with        *)
(* PostgreSQL transactions.                                                *)
(*                                                                         *)
(* A hash is the hashed content itself: no two contents have the same.     *)
(***************************************************************************)
EXTENDS Integers, Sequences

VARIABLES
    revision,    \* of the committed state, 0 before the first commit
    audit,       \* the chain of audit entries
    outbox,      \* revisions with an outbox row
    published    \* revisions whose row was marked published

cpLogVars == <<revision, audit, outbox, published>>

ZeroHash == <<>>

\* build_audit_material: revision 0 stands for an entry without one.
Material(s, r, h) == [sequence |-> s, revision |-> r, previous |-> h]

\* audit_event_hash.
Hash(e) == <<e.sequence, e.revision, e.previous>>

Tip(chain) == IF chain = <<>> THEN ZeroHash ELSE Hash(chain[Len(chain)])

Extended(chain, r) == Append(chain, Material(Len(chain) + 1, r, Tip(chain)))

Commit ==
    /\ revision' = revision + 1
    /\ audit' = Extended(audit, revision + 1)
    /\ outbox' = outbox \cup {revision + 1}
    /\ UNCHANGED published

\* An audit entry of its own, of no revision or of a committed one.
AppendAudit(r) ==
    /\ audit' = Extended(audit, r)
    /\ UNCHANGED <<revision, outbox, published>>

MarkPublished(r) ==
    /\ r \in outbox \ published
    /\ published' = published \cup {r}
    /\ UNCHANGED <<revision, audit, outbox>>

\* Retention takes published rows and leaves the newest.
Prune(rs) ==
    /\ rs \subseteq outbox \cap published
    /\ \A r \in rs : \E s \in outbox : s > r
    /\ outbox' = outbox \ rs
    /\ UNCHANGED <<revision, audit, published>>

CPLogInit ==
    /\ revision = 0
    /\ audit = <<>>
    /\ outbox = {}
    /\ published = {}

CPLogNext ==
    \/ Commit
    \/ \E r \in 0 .. revision : AppendAudit(r)
    \/ \E r \in outbox : MarkPublished(r)
    \/ Prune(outbox \ outbox')

CPLogSpec == CPLogInit /\ [][CPLogNext]_cpLogVars

-----------------------------------------------------------------------------

\* verify_audit_chain.
Verified(chain) ==
    \A n \in 1 .. Len(chain) :
        /\ chain[n].sequence = n
        /\ chain[n].previous = Tip(SubSeq(chain, 1, n - 1))

(* RevisionAccounted: every revision has its audit entry, the entries of   *)
(* first mention are in the order of the revisions, and a notification     *)
(* that left the outbox was published: what a commit announces is lost     *)
(* neither by a later commit nor by retention.                             *)
RevisionAccounted ==
    /\ \A r \in 1 .. revision :
          \E n \in 1 .. Len(audit) :
              /\ audit[n].revision = r
              /\ \A m \in 1 .. n - 1 : audit[m].revision < r
    /\ \A r \in 1 .. revision : r \in outbox \/ r \in published
    /\ revision > 0 => revision \in outbox
=============================================================================
