--------------------------- MODULE DeletionLedger ---------------------------
(***************************************************************************)
(* The deletion ledger and the reconciler that a restore waits for         *)
(* (query_api/app/control_plane/deletion_ledger.py).                       *)
(*                                                                         *)
(* A delete is registered in the transaction that records its event.  The  *)
(* workers apply events to the targets; a target can be put back to a      *)
(* snapshot, and is then isolated until the reconciler has suppressed what *)
(* the snapshot brought back.  The checkpoints of the workers are in       *)
(* PostgreSQL and stay as they are.  The target adapter is not part of the *)
(* repository: it is modelled from the DeletionTarget protocol.            *)
(***************************************************************************)
EXTENDS Integers, Sequences, FiniteSets, FiniteSetsExt

CONSTANTS
    Idents,      \* document identities, 1 .. n in the order of their hashes
    Targets,     \* data clusters
    Routes,      \* target sets the routing can choose for a mutation
    Limit,       \* of list_restore_suppressions
    Nil,
    MaxSeq,      \* bound: mutations of an identity
    MaxRestores, \* bound
    MaxFaults    \* bound: failed provider calls

ASSUME LedgerAssumption ==
    /\ IsFiniteSet(Idents) /\ Idents = 1 .. Cardinality(Idents)
    /\ Routes \subseteq SUBSET Targets \ {{}}
    /\ Nil \notin Targets
    /\ Nil \notin [sequence : Nat, status : UNION {[route -> {"pending", "applied"}] : route \in Routes}]
    /\ Limit \in Nat \ {0}
    /\ {MaxSeq, MaxRestores, MaxFaults} \subseteq Nat

VARIABLES
    log,         \* identity -> its mutations, by sequence
    ledger,      \* identity -> its row with the target rows, or Nil
    holds,       \* target -> identity -> sequence of the document held, or 0
    ckpt,        \* target -> identity -> last sequence applied
    snapshot,    \* target -> what a backup of it holds
    isolated,    \* restored targets that serve no traffic yet
    gate,        \* what was reconciled since the last restore
    run,         \* the reconciler's pass, or Nil
    restores, faults

providers == <<holds, ckpt, snapshot>>
vars == <<log, ledger, providers, isolated, gate, run, restores, faults>>

Tombstones(i) == {s \in 1 .. Len(log[i]) : log[i][s].deletes}

-----------------------------------------------------------------------------
(* Mutations and workers *)

\* Variant: the receipts of the former deletion are kept.
RegisteredWithReceipts(i, s, route) ==
    [sequence |-> s,
     status |-> [t \in route |-> IF ledger[i] # Nil /\ t \in DOMAIN ledger[i].status
                                 THEN ledger[i].status[t] ELSE "pending"]]

\* register_tombstone_in_transaction: the newer sequence replaces the row and
\* all rows of targets.
Registered(i, s, route) ==
    [sequence |-> s, status |-> [t \in route |-> "pending"]]

Mutate(i, deletes, route) ==
    /\ Len(log[i]) < MaxSeq
    /\ log' = [log EXCEPT ![i] = Append(@, [deletes |-> deletes, route |-> route])]
    /\ ledger' = IF deletes
                 THEN [ledger EXCEPT ![i] = Registered(i, Len(log[i]) + 1, route)]
                 ELSE ledger
    /\ UNCHANGED <<providers, isolated, gate, run, restores, faults>>

\* A worker applies an event that is ahead of the target's checkpoint.
Apply(t, i, s) ==
    /\ t \notin isolated
    /\ s \in ckpt[t][i] + 1 .. Len(log[i])
    /\ t \in log[i][s].route
    /\ holds' = [holds EXCEPT ![t][i] = IF log[i][s].deletes THEN 0 ELSE s]
    /\ ckpt' = [ckpt EXCEPT ![t][i] = s]
    /\ UNCHANGED <<log, ledger, snapshot, isolated, gate, run, restores, faults>>

-----------------------------------------------------------------------------
(* Backup and restore of a target *)

Backup(t) ==
    /\ t \notin isolated
    /\ snapshot[t] # holds[t]
    /\ snapshot' = [snapshot EXCEPT ![t] = holds[t]]
    /\ UNCHANGED <<log, ledger, holds, ckpt, isolated, gate, run, restores, faults>>

Ungated == [verified |-> FALSE, clear |-> FALSE]

Restore(t) ==
    /\ restores < MaxRestores
    /\ run = Nil
    /\ restores' = restores + 1
    /\ holds' = [holds EXCEPT ![t] = snapshot[t]]
    /\ isolated' = isolated \cup {t}
    /\ gate' = Ungated
    /\ UNCHANGED <<log, ledger, ckpt, snapshot, run, faults>>

\* should_suppress.
Suppressed(i, s) == ledger[i] # Nil /\ s <= ledger[i].sequence

\* replay_allowed: an upsert of before the restore is brought back.
Replay(t, i, s) ==
    /\ t \in isolated
    /\ s \in 1 .. Len(log[i]) /\ s > holds[t][i]
    /\ t \in log[i][s].route /\ ~log[i][s].deletes
    /\ ~Suppressed(i, s)
    /\ holds' = [holds EXCEPT ![t][i] = s]
    /\ UNCHANGED <<log, ledger, ckpt, snapshot, isolated, gate, run, restores, faults>>

\* Traffic reopens when reconcile_restore has completed and reconcile_once has
\* found nothing left.
Reopen ==
    /\ isolated # {}
    /\ run = Nil
    /\ gate.verified /\ gate.clear
    /\ isolated' = {}
    /\ UNCHANGED <<log, ledger, providers, gate, run, restores, faults>>

-----------------------------------------------------------------------------
(* The reconciler *)

\* list_restore_suppressions: the first Limit rows.
Listed ==
    LET registered == {i \in Idents : ledger[i] # Nil}
    IN  {i \in registered : Cardinality({j \in registered : j <= i}) <= Limit}

Pending(i) == {t \in DOMAIN ledger[i].status : ledger[i].status[t] = "pending"}

\* reconcile_restore, and reconcile_once when that has completed.
StartPass ==
    /\ run = Nil
    /\ isolated # {} /\ ~gate.clear
    /\ run' = [restore |-> ~gate.verified,
               left |-> {[ident |-> i, sequence |-> ledger[i].sequence] : i \in Listed},
               record |-> Nil, todo |-> {}, sent |-> Nil, count |-> 0]
    /\ UNCHANGED <<log, ledger, providers, isolated, gate, restores, faults>>

\* Variant: targets with a receipt are not asked again.
ToSuppressPending(i) == Pending(i)

\* Variant: both passes ask all targets.
ToSuppressAll(i) == DOMAIN ledger[i].status

\* target_ids, or pending_targets.
ToSuppress(i) == IF run.restore THEN DOMAIN ledger[i].status ELSE Pending(i)

NextRecord ==
    /\ run # Nil /\ run.todo = {} /\ run.left # {}
    /\ LET r == CHOOSE r \in run.left : \A q \in run.left : r.ident <= q.ident
       IN  run' = [run EXCEPT !.record = r, !.left = @ \ {r}, !.todo = ToSuppress(r.ident)]
    /\ UNCHANGED <<log, ledger, providers, isolated, gate, restores, faults>>

\* The adapter deletes what the tombstone covers and nothing newer.
Suppress(t) ==
    /\ run # Nil /\ t \in run.todo /\ run.sent = Nil
    /\ LET r == run.record IN
       /\ holds' = [holds EXCEPT ![t][r.ident] = IF @ <= r.sequence THEN 0 ELSE @]
       /\ ckpt' = [ckpt EXCEPT ![t][r.ident] = Max({@, r.sequence})]
    /\ run' = [run EXCEPT !.sent = t]
    /\ UNCHANGED <<log, ledger, snapshot, isolated, gate, restores, faults>>

\* A provider error ends the pass.
SuppressFails ==
    /\ run # Nil /\ run.todo # {} /\ run.sent = Nil
    /\ faults < MaxFaults
    /\ faults' = faults + 1
    /\ run' = Nil
    /\ UNCHANGED <<log, ledger, providers, isolated, gate, restores>>

IsCurrent(r) == ledger[r.ident].sequence = r.sequence

\* record_target.
RecordTarget ==
    /\ run # Nil /\ run.sent # Nil
    /\ IsCurrent(run.record) /\ run.sent \in DOMAIN ledger[run.record.ident].status
    /\ ledger' = [ledger EXCEPT ![run.record.ident].status[run.sent] = "applied"]
    /\ run' = [run EXCEPT !.todo = @ \ {run.sent}, !.sent = Nil, !.count = 1]
    /\ UNCHANGED <<log, providers, isolated, gate, restores, faults>>

\* StaleTombstoneError: a newer deletion was registered meanwhile.
RecordStale ==
    /\ run # Nil /\ run.sent # Nil
    /\ ~ (IsCurrent(run.record) /\ run.sent \in DOMAIN ledger[run.record.ident].status)
    /\ run' = Nil
    /\ UNCHANGED <<log, ledger, providers, isolated, gate, restores, faults>>

\* The pass completes; reconcile_once reports how many it reconciled.
EndPass ==
    /\ run # Nil /\ run.todo = {} /\ run.left = {}
    /\ gate' = IF run.restore THEN [gate EXCEPT !.verified = TRUE]
                              ELSE [gate EXCEPT !.clear = run.count = 0]
    /\ run' = Nil
    /\ UNCHANGED <<log, ledger, providers, isolated, restores, faults>>

-----------------------------------------------------------------------------

Init ==
    /\ log = [i \in Idents |-> <<>>]
    /\ ledger = [i \in Idents |-> Nil]
    /\ holds = [t \in Targets |-> [i \in Idents |-> 0]]
    /\ ckpt = [t \in Targets |-> [i \in Idents |-> 0]]
    /\ snapshot = [t \in Targets |-> [i \in Idents |-> 0]]
    /\ isolated = {}
    /\ gate = Ungated
    /\ run = Nil
    /\ restores = 0 /\ faults = 0

Reconcile == \/ StartPass \/ NextRecord \/ RecordTarget \/ RecordStale \/ EndPass
             \/ \E t \in Targets : Suppress(t)

Next ==
    \/ \E i \in Idents, deletes \in BOOLEAN, route \in Routes : Mutate(i, deletes, route)
    \/ \E t \in Targets, i \in Idents, s \in 1 .. MaxSeq : Apply(t, i, s) \/ Replay(t, i, s)
    \/ \E t \in Targets : Backup(t) \/ Restore(t)
    \/ Reopen
    \/ Reconcile
    \/ SuppressFails

\* The operator repeats the passes and reopens traffic.
Fairness == WF_vars(Reconcile) /\ WF_vars(Reopen)

Spec == Init /\ [][Next]_vars /\ Fairness

-----------------------------------------------------------------------------

TypeOK ==
    /\ \A i \in Idents : ledger[i] # Nil =>
           /\ ledger[i].sequence = Max(Tombstones(i))
           /\ DOMAIN ledger[i].status = log[i][ledger[i].sequence].route
    /\ \A t \in Targets, i \in Idents :
           /\ ckpt[t][i] \in 0 .. Len(log[i])
           /\ holds[t][i] # 0 => ~log[i][holds[t][i]].deletes
    /\ isolated \subseteq Targets

(* NothingResurrected: a target in traffic that has applied a deletion     *)
(* does not serve a document of before that deletion: neither a restored   *)
(* snapshot nor a replayed upsert brings it back.                          *)
NothingResurrected ==
    \A t \in Targets \ isolated, i \in Idents :
        holds[t][i] # 0 => \A s \in Tombstones(i) : holds[t][i] < s => ckpt[t][i] < s

(* ReceiptIsCurrent: a target counts as reconciled only for the deletion   *)
(* that is in force: it has passed that tombstone.                         *)
ReceiptIsCurrent ==
    \A i \in Idents : ledger[i] # Nil =>
        \A t \in DOMAIN ledger[i].status :
            ledger[i].status[t] = "applied" => ckpt[t][i] >= ledger[i].sequence

(* Reopens: once no more restores and deletions come, traffic reopens.     *)
Reopens == []<>(isolated = {})
=============================================================================
