----------------------------- MODULE DeadLetters -----------------------------
(***************************************************************************)
(* One partition of the dead-letter topic and the tool with which an       *)
(* operator resolves its records one by one (scripts/ops/dlq_resolver.py): *)
(* a replay publishes the event again to its source topic, a disposition   *)
(* gives it up, and either may commit the record's offset for the resolver *)
(* group, whose lag holds a routing cutover back.                          *)
(*                                                                         *)
(* Nothing but the offsets it reads keeps two runs of the tool apart.  The *)
(* worker handles an event in one step here, see IndexingWorker.           *)
(***************************************************************************)
EXTENDS Integers, Sequences, FiniteSets, SequencesExt

CONSTANTS
    Events,       \* 1 .. n, in the order they are published
    IdentOf,      \* event -> document; a later event has a higher sequence
    KindOf,       \* event -> "valid", "invalid" (not eligible for replay) or
                  \* "malformed" (the wrapper cannot be parsed)
    Operators,
    Nil,
    FirstCommit,  \* the group's offset at first, Nil if it has none
    MaxLetters,   \* bound: dead letters
    MaxReplays,   \* bound: replays published
    MaxExpired,   \* bound: dead letters that retention removes
    MaxFaults     \* bound: failed calls and ends of the tool

ASSUME LettersAssumption ==
    /\ IsFiniteSet(Events) /\ Events = 1 .. Cardinality(Events)
    /\ Nil \notin Nat /\ FirstCommit \in {Nil, 0}
    /\ {MaxLetters, MaxReplays, MaxExpired, MaxFaults} \subseteq Nat

VARIABLES
    topic,       \* events in the source partition that are not handled
    applied,     \* document -> last event applied
    next,        \* the next event to be published
    dlq,         \* the dead letters, offset n at position n + 1
    beginning,   \* the first offset that is retained
    committed,   \* offset of the resolver group, or Nil
    op,          \* operator -> the run of the tool, or Nil
    given,       \* events that a disposition gave up
    mistaken,    \* a run was refused for an offset that had not changed
    replays, faults

letters == <<dlq, beginning>>
source  == <<topic, applied, next>>
vars    == <<letters, source, committed, op, given, mistaken, replays, faults>>

Fault == faults < MaxFaults /\ faults' = faults + 1

-----------------------------------------------------------------------------
(* The source topic and its worker *)

Publish ==
    /\ next \in Events
    /\ topic' = Append(topic, next)
    /\ next' = next + 1
    /\ UNCHANGED <<letters, applied, committed, op, given, mistaken, replays, faults>>

Stale(e) == e <= applied[IdentOf[e]]

Handle ==
    /\ topic # <<>> /\ KindOf[Head(topic)] = "valid"
    /\ applied' = IF Stale(Head(topic)) THEN applied
                  ELSE [applied EXCEPT ![IdentOf[Head(topic)]] = Head(topic)]
    /\ topic' = Tail(topic)
    /\ UNCHANGED <<letters, next, committed, op, given, mistaken, replays, faults>>

\* The attempts are used up, or the event is refused for good.
DeadLetter ==
    /\ topic # <<>> /\ Len(dlq) < MaxLetters
    /\ IF KindOf[Head(topic)] = "valid" THEN Fault ELSE UNCHANGED faults
    /\ dlq' = Append(dlq, Head(topic))
    /\ topic' = Tail(topic)
    /\ UNCHANGED <<beginning, applied, next, committed, op, given, mistaken, replays>>

\* The broker removes the oldest dead letter.
Expire ==
    /\ beginning < Len(dlq) /\ beginning < MaxExpired
    /\ beginning' = beginning + 1
    /\ UNCHANGED <<dlq, source, committed, op, given, mistaken, replays, faults>>

-----------------------------------------------------------------------------
(* A run of the tool *)

Letter(n) == dlq[n + 1]

Goto(o, step) == op' = [op EXCEPT ![o].step = step]
Ended(o)      == op' = [op EXCEPT ![o] = Nil]

\* expected_next_offset: without a commit the partition is unresolved.
ExpectedNext(first, position) == IF position = Nil THEN first ELSE position

\* _require_resolution_order.
InOrder(n, first, position) ==
    /\ position # Nil => position >= first
    /\ n = ExpectedNext(first, position)

\* parse_dlq_envelope and, for a replay, validate_replay_payload.
Eligible(action, e) ==
    /\ KindOf[e] # "malformed"
    /\ action = "replay" => KindOf[e] = "valid"

\* _fetch_exact and the checks that follow it; inspect and dry-run end here.
Fetch(o, action, n, commit) ==
    /\ op[o] = Nil
    /\ n \in beginning .. Len(dlq) - 1
    /\ InOrder(n, beginning, committed)
    /\ Eligible(action, Letter(n))
    /\ action = "disposition" => commit
    /\ op' = [op EXCEPT ![o] =
           [action |-> action, offset |-> n, letter |-> Letter(n), commit |-> commit,
            seen |-> committed, step |-> IF action = "replay" THEN "send" ELSE "check"]]
    /\ UNCHANGED <<letters, source, committed, given, mistaken, replays, faults>>

\* The replay is acknowledged and flushed.
Send(o) ==
    /\ op[o] # Nil /\ op[o].step = "send"
    /\ replays < MaxReplays
    /\ replays' = replays + 1
    /\ topic' = Append(topic, op[o].letter)
    /\ IF op[o].commit THEN Goto(o, "check") ELSE Ended(o)
    /\ UNCHANGED <<letters, applied, next, committed, given, mistaken, faults>>

\* Variant: the offset is committed although the broker did not acknowledge.
AfterFailureCommit(o) == Goto(o, "check")

AfterFailure(o) == Ended(o)

SendFails(o) ==
    /\ op[o] # Nil /\ op[o].step = "send"
    /\ Fault
    /\ AfterFailure(o)
    /\ UNCHANGED <<letters, source, committed, given, mistaken, replays>>

\* _commit_exact compares the group's offset with the record's.  Before the
\* group's first commit there is none to compare.
Check(o) ==
    /\ op[o] # Nil /\ op[o].step = "check"
    /\ IF committed = op[o].offset
          THEN Goto(o, "commit") /\ UNCHANGED mistaken
          ELSE Ended(o) /\ mistaken' = (mistaken \/ committed = op[o].seen)
    /\ UNCHANGED <<letters, source, committed, given, replays, faults>>

\* Variant: the offset of the record itself is committed.
CommitOffsetSame(o) == op[o].offset

CommitOffset(o) == op[o].offset + 1

Commit(o) ==
    /\ op[o] # Nil /\ op[o].step = "commit"
    /\ committed' = CommitOffset(o)
    /\ given' = IF op[o].action = "disposition" THEN given \cup {op[o].letter} ELSE given
    /\ Ended(o)
    /\ UNCHANGED <<letters, source, mistaken, replays, faults>>

\* The tool ends, or a call fails: what is done stays.
Stop(o) ==
    /\ op[o] # Nil
    /\ Fault
    /\ Ended(o)
    /\ UNCHANGED <<letters, source, committed, given, mistaken, replays>>

-----------------------------------------------------------------------------

Init ==
    /\ topic = <<>>
    /\ applied = [i \in {IdentOf[e] : e \in Events} |-> 0]
    /\ next = 1
    /\ dlq = <<>> /\ beginning = 0
    /\ committed = FirstCommit
    /\ op = [o \in Operators |-> Nil]
    /\ given = {}
    /\ mistaken = FALSE
    /\ replays = 0 /\ faults = 0

Resolve(o) ==
    \/ \E n \in 0 .. MaxLetters : Fetch(o, "replay", n, TRUE)
    \/ \E n \in 0 .. MaxLetters :
          n \in beginning .. Len(dlq) - 1 /\ KindOf[Letter(n)] = "invalid"
          /\ Fetch(o, "disposition", n, TRUE)
    \/ Send(o) \/ Check(o) \/ Commit(o)

Observe(o) == \E n \in 0 .. MaxLetters : Fetch(o, "replay", n, FALSE)

Dispose(o) == \E n \in 0 .. MaxLetters : Fetch(o, "disposition", n, TRUE)

Next ==
    \/ Publish \/ Handle \/ DeadLetter \/ Expire
    \/ \E o \in Operators :
          Resolve(o) \/ Observe(o) \/ Dispose(o) \/ SendFails(o) \/ Stop(o)

\* The worker works, and an operator follows the runbook's procedure.
Fairness ==
    /\ WF_vars(Handle \/ DeadLetter)
    /\ \A o \in Operators : WF_vars(Resolve(o))

Spec == Init /\ [][Next]_vars /\ Fairness

-----------------------------------------------------------------------------

TypeOK ==
    /\ committed \in {Nil} \cup 0 .. Len(dlq)
    /\ beginning \in 0 .. Len(dlq)
    /\ \A o \in Operators : op[o] # Nil => Letter(op[o].offset) = op[o].letter
    /\ given \subseteq Range(dlq)
    /\ replays \in 0 .. MaxReplays /\ faults \in 0 .. MaxFaults

Unresolved == {n \in 0 .. Len(dlq) - 1 : committed = Nil \/ n >= committed}

(* NothingForgotten: an accepted event is in its topic, or applied or      *)
(* superseded, or an unresolved dead letter that the group's lag shows, or *)
(* was given up by a disposition: resolving never loses one, whichever     *)
(* call fails.                                                             *)
NothingForgotten ==
    \A e \in 1 .. next - 1 :
        \/ e \in Range(topic)
        \/ e <= applied[IdentOf[e]]
        \/ \E n \in Unresolved : Letter(n) = e
        \/ e \in given

(* CommitsAdvance: the group's offset never goes back over resolved        *)
(* records.                                                                *)
CommitsAdvance == [][committed # Nil => committed' >= committed]_committed

(* RefusedIfChanged: a run is refused with concurrent_offset_change only   *)
(* when the offset has changed since it was fetched.                       *)
RefusedIfChanged == ~mistaken

(* LagEnds: operators who follow the procedure bring the group's lag to    *)
(* zero, unless retention or the bound on replays stops them.              *)
LagEnds == []<>(Unresolved = {} \/ beginning > 0 \/ replays = MaxReplays)
=============================================================================
