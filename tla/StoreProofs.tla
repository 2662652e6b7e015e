---------------------------- MODULE StoreProofs ----------------------------
(***************************************************************************)
(* The two stores and what they implement.                                 *)
(*                                                                         *)
(* The transactions of EventStore implement the atomic log of EventLog,    *)
(* for any number of sessions, identities and keys; the log keeps its      *)
(* order, its heads and its keys.                                          *)
(*                                                                         *)
(* The PostgreSQL transactions, dispatchers and retention job of           *)
(* ControlPlaneStore implement the one-step store of ControlPlaneLog, for  *)
(* any number of replicas; what that store promises holds of its tables.   *)
(***************************************************************************)
EXTENDS EventStore, ControlPlaneStore, FiniteSetTheorems, SequenceTheorems, TLAPS

-----------------------------------------------------------------------------
(* The abstract log *)

\* No row is ahead of the head of its identity.
SeqBounded == \A r \in rows : r.seq <= head[r.ident]

LogInv == Log!LogTypeOK /\ SeqBounded /\ Log!OrderAgrees /\ Log!HeadIsStored /\ Log!OnePerKey

(* LogInvInit: the empty log.                                              *)
LEMMA LogInvInit == Log!LogInit => LogInv
  BY DEF Log!LogInit, LogInv, Log!LogTypeOK, SeqBounded, Log!OrderAgrees, Log!HeadIsStored,
         Log!OnePerKey

(* RowTyped: the fields of a row.                                          *)
LEMMA RowTyped ==
    ASSUME NEW r \in Log!Row
    PROVE  /\ r.pos \in Nat /\ r.pos > 0 /\ r.ident \in Idents
           /\ r.seq \in Nat /\ r.seq > 0
  BY DEF Log!Row

(* LogRecordKeeps: a mutation is recorded behind all others of its         *)
(* identity.                                                               *)
LEMMA LogRecordKeeps ==
    ASSUME LogInv, NEW r, Log!Record(r)
    PROVE  LogInv'
  <1>1. /\ r \in Log!Row /\ r.seq = head[r.ident] + 1 /\ Log!WithKey(r.ident, r.key) = {}
        /\ \A s \in rows : s.ident = r.ident => s.pos < r.pos
        /\ rows' = rows \cup {r} /\ head' = [head EXCEPT ![r.ident] = r.seq]
        /\ UNCHANGED <<published, fence>>
    BY DEF Log!Record
  <1>2. Log!LogTypeOK /\ SeqBounded /\ Log!OrderAgrees /\ Log!HeadIsStored /\ Log!OnePerKey
    BY DEF LogInv
  <1>3. /\ r.ident \in Idents /\ r.seq \in Nat /\ r.pos \in Nat
        /\ \A s \in rows : s.ident \in Idents /\ s.seq \in Nat /\ s.pos \in Nat
    BY <1>1, <1>2, RowTyped DEF Log!LogTypeOK
  <1>4. /\ head'[r.ident] = r.seq
        /\ \A i \in Idents : head[i] \in Nat /\ (i # r.ident => head'[i] = head[i])
    BY <1>1, <1>2, <1>3 DEF Log!LogTypeOK
  <1>5. Log!LogTypeOK'
    BY <1>1, <1>2, <1>3 DEF Log!LogTypeOK
  <1>6. SeqBounded'
    BY <1>1, <1>2, <1>3, <1>4 DEF SeqBounded
  <1>7. Log!OrderAgrees'
    <2>1. \A s \in rows : s.ident = r.ident => s.seq < r.seq /\ s.pos < r.pos
      BY <1>1, <1>2, <1>3, <1>4 DEF SeqBounded
    <2> QED
      BY <1>1, <1>2, <1>3, <2>1 DEF Log!OrderAgrees
  <1>8. Log!HeadIsStored'
    BY <1>1, <1>2, <1>3, <1>4 DEF Log!HeadIsStored
  <1>9. Log!OnePerKey'
    BY <1>1, <1>2 DEF Log!OnePerKey, Log!WithKey
  <1> QED
    BY <1>5, <1>6, <1>7, <1>8, <1>9 DEF LogInv

(* LogPruneKeeps: a superseded row is not the newest of its identity.      *)
LEMMA LogPruneKeeps ==
    ASSUME LogInv, NEW r, Log!Prune(r)
    PROVE  LogInv'
  <1>1. /\ r \in rows /\ rows' = rows \ {r} /\ UNCHANGED <<head, published, fence>>
        /\ \E s \in rows : s.ident = r.ident /\ s.seq > r.seq
    BY DEF Log!Prune
  <1>2. Log!LogTypeOK /\ SeqBounded /\ Log!OrderAgrees /\ Log!HeadIsStored /\ Log!OnePerKey
    BY DEF LogInv
  <1>3. \A s \in rows : s.ident \in Idents /\ s.seq \in Nat /\ head[s.ident] \in Nat
    BY <1>2, RowTyped DEF Log!LogTypeOK
  <1>4. r.seq < head[r.ident]
    BY <1>1, <1>2, <1>3 DEF SeqBounded
  <1>5. Log!HeadIsStored'
    BY <1>1, <1>2, <1>3, <1>4 DEF Log!HeadIsStored
  <1> QED
    BY <1>1, <1>2, <1>5 DEF LogInv, Log!LogTypeOK, SeqBounded, Log!OrderAgrees, Log!OnePerKey

(* LogInvStep: every operation of the log keeps the invariant.             *)
LEMMA LogInvStep == LogInv /\ [Log!LogNext]_(Log!logVars) => LogInv'
  <1> SUFFICES ASSUME LogInv, [Log!LogNext]_(Log!logVars) PROVE LogInv'
    OBVIOUS
  <1>1. ASSUME NEW r, Log!Record(r) PROVE LogInv'
    BY <1>1, LogRecordKeeps
  <1>2. ASSUME NEW r, Log!Prune(r) PROVE LogInv'
    BY <1>2, LogPruneKeeps
  <1>3. ASSUME NEW r, Log!MarkPublished(r) PROVE LogInv'
    <2>1. r.pos \in Nat
      BY <1>3, RowTyped DEF Log!MarkPublished, LogInv, Log!LogTypeOK
    <2> QED
      BY <1>3, <2>1
      DEF Log!MarkPublished, LogInv, Log!LogTypeOK, SeqBounded, Log!OrderAgrees, Log!HeadIsStored,
          Log!OnePerKey
  <1>4. ASSUME NEW h \in {0} \cup {r.pos : r \in rows}, Log!HighWater(h) PROVE LogInv'
    <2>1. h \in Nat
      BY RowTyped DEF LogInv, Log!LogTypeOK
    <2> QED
      BY <1>4, <2>1
      DEF Log!HighWater, LogInv, Log!LogTypeOK, SeqBounded, Log!OrderAgrees, Log!HeadIsStored,
          Log!OnePerKey
  <1>5. CASE UNCHANGED Log!logVars
    BY <1>5 DEF Log!logVars, LogInv, Log!LogTypeOK, SeqBounded, Log!OrderAgrees, Log!HeadIsStored,
                Log!OnePerKey
  <1> QED
    BY <1>1, <1>2, <1>3, <1>4, <1>5 DEF Log!LogNext

(* LogCorrect: positions agree with sequences, the newest mutation of an   *)
(* identity is never pruned, and a key names at most one mutation.         *)
THEOREM LogCorrect ==
    Log!LogSpec => [](Log!LogTypeOK /\ Log!OrderAgrees /\ Log!HeadIsStored /\ Log!OnePerKey)
  <1>1. LogInv => Log!LogTypeOK /\ Log!OrderAgrees /\ Log!HeadIsStored /\ Log!OnePerKey
    BY DEF LogInv
  <1> QED
    BY <1>1, LogInvInit, LogInvStep, PTL DEF Log!LogSpec

-----------------------------------------------------------------------------
(* The transactions *)

\* A row that is inserted and not committed could be recorded at once.
OpenOK(c) ==
    LET r == row[c] IN
    /\ r \in Log!Row
    /\ r.ident = draft[c].ident /\ r.key = draft[c].key
    /\ IsRepair(draft[c]) \/ r.body = draft[c].body
    /\ r.seq = head[r.ident] + 1
    /\ Log!WithKey(r.ident, r.key) = {}
    /\ r.pos < nextPos
    /\ r.pos > fence
    /\ \A s \in rows : s.pos # r.pos
    /\ \A s \in rows : s.ident = r.ident => s.pos < r.pos
    /\ r.key \in RepairKeys => \E s \in Log!Newest(r.ident) : s.body = r.body

OpenInv == \A c \in Sessions : phase[c] = "open" => OpenOK(c)

\* The head's row lock: one open transaction per identity.
IdentLockInv ==
    \A c, d \in Sessions :
        c # d /\ phase[c] = "open" /\ phase[d] = "open" =>
            /\ row[c].ident # row[d].ident
            /\ row[c].pos # row[d].pos

\* Positions are handed out in order, and the row of the mark is kept.
PosInv ==
    /\ \A r \in rows : r.pos < nextPos
    /\ fence = 0 \/ \E r \in rows : r.pos >= fence

DraftInv == \A c \in Sessions : phase[c] # "idle" => draft[c] \in Draft

EventStoreInv == /\ TypeOK /\ LogInv /\ OpenInv /\ IdentLockInv /\ PosInv
                 /\ DraftInv /\ AnsweredIsDurable

(* EventStoreInit: the empty store.                                       *)
LEMMA EventStoreInit == Init => EventStoreInv /\ Log!LogInit
  <1> SUFFICES ASSUME Init PROVE EventStoreInv /\ Log!LogInit
    OBVIOUS
  <1>1. Log!LogInit
    BY DEF Init, Log!LogInit
  <1>2. LogInv
    BY <1>1, LogInvInit
  <1>3. TypeOK
    BY DEF Init, TypeOK, Log!LogTypeOK
  <1>4. OpenInv /\ IdentLockInv /\ PosInv /\ DraftInv /\ AnsweredIsDurable
    BY DEF Init, OpenInv, IdentLockInv, PosInv, DraftInv, AnsweredIsDurable
  <1> QED
    BY <1>1, <1>2, <1>3, <1>4 DEF EventStoreInv
(* LogUse: the log invariant, by its parts.                                *)
LEMMA LogUse ==
    ASSUME EventStoreInv
    PROVE  /\ \A r \in rows : /\ r.pos \in Nat /\ r.seq \in Nat /\ r.ident \in Idents
                              /\ r.body \in Bodies /\ r.seq <= head[r.ident]
           /\ \A i \in Idents : /\ head[i] \in Nat
                                /\ head[i] > 0 => Log!Newest(i) # {}
           /\ \A r, s \in rows : r.ident = s.ident => (r.seq < s.seq <=> r.pos < s.pos)
           /\ fence \in Nat /\ nextPos \in Nat /\ nextPos > 0
  BY DEF EventStoreInv, TypeOK, Log!LogTypeOK, Log!Row, Log!Newest, LogInv,
         SeqBounded, Log!OrderAgrees, Log!HeadIsStored

(* LogStep: a step of the log keeps the log's invariant.                   *)
LEMMA LogStep ==
    ASSUME EventStoreInv, [Log!LogNext]_logVars
    PROVE  LogInv'
  <1>1. [Log!LogNext]_(Log!logVars)
    BY DEF logVars, Log!logVars
  <1> QED
    BY <1>1, LogInvStep DEF EventStoreInv

(* QuietStep: a step of a session that leaves the tables alone and opens   *)
(* no transaction.                                                         *)
LEMMA QuietStep ==
    ASSUME EventStoreInv, UNCHANGED <<logVars, nextPos>>, NEW c \in Sessions,
           phase' \in [Sessions -> {"idle", "waiting", "open", "done"}],
           draft' \in [Sessions -> Draft \cup {NoDraft}],
           row' \in [Sessions -> Log!Row \cup {NoRow}],
           phase'[c] # "open",
           phase'[c] # "idle" => draft'[c] \in Draft,
           phase'[c] = "done" /\ row'[c] # NoRow =>
              /\ row'[c] \in rows
              /\ row'[c].ident = draft'[c].ident /\ row'[c].key = draft'[c].key
              /\ IsRepair(draft'[c]) \/ row'[c].body = draft'[c].body,
           \A d \in Sessions : d # c => /\ phase'[d] = phase[d] /\ row'[d] = row[d]
                                       /\ draft'[d] = draft[d]
    PROVE  EventStoreInv'
  <1>1. TypeOK'
    BY DEF EventStoreInv, TypeOK, Log!LogTypeOK, logVars
  <1>2. LogInv'
    BY LogStep
  <1>3. OpenInv'
    BY DEF EventStoreInv, OpenInv, OpenOK, IsRepair, logVars, Log!WithKey, Log!Newest
  <1>4. IdentLockInv'
    BY DEF EventStoreInv, IdentLockInv
  <1>5. PosInv' /\ DraftInv'
    BY DEF EventStoreInv, PosInv, DraftInv, logVars
  <1>6. AnsweredIsDurable'
    BY DEF EventStoreInv, AnsweredIsDurable, IsRepair, logVars
  <1> QED
    BY <1>1, <1>2, <1>3, <1>4, <1>5, <1>6 DEF EventStoreInv
(* BeginKeeps: a request arrives, and is answered from the outbox or goes  *)
(* on to the lock.                                                         *)
LEMMA BeginKeeps ==
    ASSUME EventStoreInv, NEW c \in Sessions, NEW d \in Draft, Begin(c, d)
    PROVE  EventStoreInv'
  <1>1. /\ draft' = [draft EXCEPT ![c] = d] /\ phase[c] = "idle"
        /\ UNCHANGED <<logVars, nextPos>>
        /\ \/ /\ phase' = [phase EXCEPT ![c] = "waiting"] /\ row' = row
           \/ /\ phase' = [phase EXCEPT ![c] = "done"]
              /\ \E r \in Log!WithKey(d.ident, d.key) : row' = [row EXCEPT ![c] = Answer(d, r)]
    BY DEF Begin
  <1>2. ASSUME NEW r \in Log!WithKey(d.ident, d.key)
        PROVE  /\ Answer(d, r) \in Log!Row \cup {NoRow}
               /\ Answer(d, r) # NoRow =>
                     /\ Answer(d, r) \in rows
                     /\ Answer(d, r).ident = d.ident /\ Answer(d, r).key = d.key
                     /\ IsRepair(d) \/ Answer(d, r).body = d.body
    BY DEF EventStoreInv, TypeOK, Log!LogTypeOK, Log!WithKey, Answer
  <1>3. /\ phase \in [Sessions -> {"idle", "waiting", "open", "done"}]
        /\ draft \in [Sessions -> Draft \cup {NoDraft}]
        /\ row \in [Sessions -> Log!Row \cup {NoRow}]
    BY DEF EventStoreInv, TypeOK
  <1>4. CASE phase' = [phase EXCEPT ![c] = "waiting"] /\ row' = row
    BY <1>1, <1>3, <1>4, QuietStep
  <1>5. ASSUME NEW r \in Log!WithKey(d.ident, d.key),
               row' = [row EXCEPT ![c] = Answer(d, r)],
               phase' = [phase EXCEPT ![c] = "done"]
        PROVE  EventStoreInv'
    <2>1. row'[c] = Answer(d, r) /\ draft'[c] = d /\ phase'[c] = "done"
      BY <1>1, <1>3, <1>5
    <2>2. row' \in [Sessions -> Log!Row \cup {NoRow}]
      BY <1>2, <1>3, <1>5
    <2> QED
      BY <1>1, <1>2, <1>3, <1>5, <2>1, <2>2, QuietStep
  <1> QED
    BY <1>1, <1>4, <1>5

(* ReturnKeeps: the locked transaction ends without an insert.             *)
LEMMA ReturnKeeps ==
    ASSUME EventStoreInv, NEW c \in Sessions, LockAndReturn(c)
    PROVE  EventStoreInv'
  <1>1. /\ phase[c] = "waiting" /\ phase' = [phase EXCEPT ![c] = "done"]
        /\ UNCHANGED <<logVars, nextPos, draft>>
        /\ \/ \E r \in Log!WithKey(draft[c].ident, draft[c].key) :
                 row' = [row EXCEPT ![c] = Answer(draft[c], r)]
           \/ row' = [row EXCEPT ![c] = NoRow]
    BY DEF LockAndReturn
  <1>2. /\ phase \in [Sessions -> {"idle", "waiting", "open", "done"}]
        /\ draft \in [Sessions -> Draft \cup {NoDraft}]
        /\ row \in [Sessions -> Log!Row \cup {NoRow}]
        /\ draft[c] \in Draft
    BY <1>1 DEF EventStoreInv, TypeOK, DraftInv
  <1>3. PICK x \in Log!Row \cup {NoRow} :
           /\ row' = [row EXCEPT ![c] = x]
           /\ x # NoRow =>
                 /\ x \in rows
                 /\ x.ident = draft[c].ident /\ x.key = draft[c].key
                 /\ IsRepair(draft[c]) \/ x.body = draft[c].body
    <2>1. CASE row' = [row EXCEPT ![c] = NoRow]
      BY <2>1
    <2>2. ASSUME NEW r \in Log!WithKey(draft[c].ident, draft[c].key),
                 row' = [row EXCEPT ![c] = Answer(draft[c], r)]
          PROVE  \E x \in Log!Row \cup {NoRow} :
                    /\ row' = [row EXCEPT ![c] = x]
                    /\ x # NoRow =>
                          /\ x \in rows
                          /\ x.ident = draft[c].ident /\ x.key = draft[c].key
                          /\ IsRepair(draft[c]) \/ x.body = draft[c].body
      <3>1. r \in rows /\ r \in Log!Row /\ r.ident = draft[c].ident /\ r.key = draft[c].key
        BY DEF EventStoreInv, TypeOK, Log!LogTypeOK, Log!WithKey
      <3>2. CASE IsRepair(draft[c]) \/ r.body = draft[c].body
        BY <2>2, <3>1, <3>2 DEF Answer
      <3>3. CASE ~(IsRepair(draft[c]) \/ r.body = draft[c].body)
        BY <2>2, <3>3 DEF Answer
      <3> QED
        BY <3>2, <3>3
    <2> QED
      BY <1>1, <2>1, <2>2
  <1>4. /\ row' \in [Sessions -> Log!Row \cup {NoRow}] /\ row'[c] = x
        /\ \A d \in Sessions : d # c => row'[d] = row[d]
    BY <1>2, <1>3
  <1> QED
    BY <1>1, <1>2, <1>3, <1>4, QuietStep

(* InsertKeeps: under the lock of its head a session inserts the row that  *)
(* comes next for its identity.                                            *)
LEMMA InsertKeeps ==
    ASSUME EventStoreInv, NEW c \in Sessions, LockAndInsert(c)
    PROVE  EventStoreInv'
  <1> DEFINE d == draft[c]
             r == [pos |-> nextPos, ident |-> d.ident, seq |-> NextSequence(d),
                   key |-> d.key, body |-> RecordedBody(d), targets |-> d.targets]
  <1>1. /\ phase[c] = "waiting" /\ ~HeadLocked(d.ident) /\ Unrecorded(d)
        /\ IsRepair(d) => head[d.ident] > 0
        /\ row' = [row EXCEPT ![c] = r] /\ nextPos' = nextPos + 1
        /\ phase' = [phase EXCEPT ![c] = "open"] /\ UNCHANGED <<logVars, draft>>
    BY DEF LockAndInsert
  <1>2. d \in Draft /\ d.ident \in Idents /\ d.key \in Keys /\ d.body \in Bodies
        /\ d.targets \in SUBSET Clusters
    BY <1>1 DEF EventStoreInv, DraftInv, Draft
  <1>3. IsRepair(d) => \E s \in Log!Newest(d.ident) :
                          s.body = RecordedBody(d) /\ s.body \in Bodies
    <2> SUFFICES ASSUME IsRepair(d)
                 PROVE  \E s \in Log!Newest(d.ident) :
                          s.body = RecordedBody(d) /\ s.body \in Bodies
      OBVIOUS
    <2>1. Log!Newest(d.ident) # {}
      BY <1>1, <1>2, LogUse
    <2>2. (CHOOSE s \in Log!Newest(d.ident) : TRUE) \in Log!Newest(d.ident)
      BY <2>1
    <2>3. RecordedBody(d) = (CHOOSE s \in Log!Newest(d.ident) : TRUE).body
      BY DEF RecordedBody
    <2>4. \A s \in Log!Newest(d.ident) : s.body \in Bodies
      BY LogUse DEF Log!Newest
    <2> QED
      BY <2>2, <2>3, <2>4
  <1>4. r \in Log!Row
    <2>1. NextSequence(d) \in Nat \ {0} /\ nextPos \in Nat \ {0}
      BY <1>2, LogUse DEF NextSequence
    <2>2. RecordedBody(d) \in Bodies
      BY <1>2, <1>3 DEF RecordedBody
    <2> QED
      BY <1>2, <2>1, <2>2 DEF Log!Row
  <1>5. /\ r.pos = nextPos /\ r.ident = d.ident /\ r.key = d.key
        /\ r.seq = head[d.ident] + 1 /\ r.body = RecordedBody(d)
    BY DEF NextSequence
  <1> HIDE DEF r
  <1>6. /\ phase \in [Sessions -> {"idle", "waiting", "open", "done"}]
        /\ draft \in [Sessions -> Draft \cup {NoDraft}]
        /\ row \in [Sessions -> Log!Row \cup {NoRow}]
    BY DEF EventStoreInv, TypeOK
  <1>7. /\ row'[c] = r /\ phase'[c] = "open"
        /\ \A e \in Sessions : e # c => phase'[e] = phase[e] /\ row'[e] = row[e]
    BY <1>1, <1>6
  <1>8. \A s \in rows : s.pos < nextPos /\ s.pos \in Nat
    BY LogUse DEF EventStoreInv, PosInv
  <1>9. fence < nextPos /\ fence \in Nat /\ nextPos \in Nat
    BY LogUse, <1>8 DEF EventStoreInv, PosInv
  <1>10. TypeOK'
    <2>1. nextPos' \in Nat \ {0}
      BY <1>1, <1>9
    <2> QED
      BY <1>1, <1>4, <1>6, <2>1 DEF EventStoreInv, TypeOK, Log!LogTypeOK, logVars
  <1>11. LogInv'
    BY <1>1, LogStep
  <1>12. OpenOK(c)'
    <2>1. /\ \A s \in rows : s.pos # r.pos /\ s.pos < r.pos
          /\ r.pos < nextPos + 1 /\ r.pos > fence
      BY <1>5, <1>8, <1>9
    <2>2. r.key \in RepairKeys => \E s \in Log!Newest(r.ident) : s.body = r.body
      BY <1>3, <1>5 DEF IsRepair
    <2>3. /\ Log!WithKey(r.ident, r.key) = {} /\ r.seq = head[r.ident] + 1
          /\ IsRepair(d) \/ r.body = d.body
      BY <1>1, <1>5 DEF Unrecorded, RecordedBody
    <2> QED
      BY <1>1, <1>4, <1>5, <1>7, <2>1, <2>2, <2>3
      DEF OpenOK, logVars, IsRepair, Log!WithKey, Log!Newest
  <1>13. OpenInv'
    <2>1. ASSUME NEW e \in Sessions, e # c, phase[e] = "open"
          PROVE  OpenOK(e)'
      <3>1. OpenOK(e) /\ row[e].pos \in Nat
        BY <2>1 DEF EventStoreInv, OpenInv, OpenOK, Log!Row
      <3>2. row[e].pos < nextPos + 1
        BY <1>9, <3>1 DEF OpenOK
      <3> QED
        BY <1>1, <1>7, <2>1, <3>1, <3>2
        DEF OpenOK, IsRepair, logVars, Log!WithKey, Log!Newest
    <2> QED
      BY <1>7, <1>12, <2>1 DEF OpenInv
  <1>14. IdentLockInv'
    <2>1. ASSUME NEW e \in Sessions, e # c, phase[e] = "open"
          PROVE  row[e].ident # r.ident /\ row[e].pos # r.pos
      <3>1. OpenOK(e)
        BY <2>1 DEF EventStoreInv, OpenInv
      <3>2. draft[e].ident # d.ident
        BY <1>1, <2>1 DEF HeadLocked, Inserting
      <3>3. row[e].pos \in Nat /\ row[e].pos < nextPos
        BY <3>1 DEF OpenOK, Log!Row
      <3> QED
        BY <1>5, <1>9, <3>1, <3>2, <3>3 DEF OpenOK
    <2> QED
      BY <1>7, <2>1 DEF EventStoreInv, IdentLockInv
  <1>15. PosInv'
    BY <1>1, <1>8, <1>9 DEF EventStoreInv, PosInv, logVars
  <1>16. DraftInv' /\ AnsweredIsDurable'
    BY <1>1, <1>2, <1>7 DEF EventStoreInv, DraftInv, AnsweredIsDurable, IsRepair, logVars
  <1> QED
    BY <1>10, <1>11, <1>13, <1>14, <1>15, <1>16 DEF EventStoreInv
(* CommitKeeps: a commit records the row, and disturbs no other open       *)
(* transaction: they belong to other identities.                           *)
LEMMA CommitKeeps ==
    ASSUME EventStoreInv, NEW c \in Sessions, Commit(c)
    PROVE  EventStoreInv' /\ Log!LogNext
  <1>1. PICK r \in Log!Row : r = row[c]
    BY DEF Commit, EventStoreInv, OpenInv, OpenOK
  <1>2. /\ phase[c] = "open" /\ rows' = rows \cup {r}
        /\ head' = [head EXCEPT ![r.ident] = r.seq]
        /\ phase' = [phase EXCEPT ![c] = "done"]
        /\ UNCHANGED <<published, fence, nextPos, draft, row>>
    BY <1>1 DEF Commit
  <1>3. /\ r.ident = draft[c].ident /\ r.key = draft[c].key
        /\ r.seq = head[r.ident] + 1
        /\ Log!WithKey(r.ident, r.key) = {}
        /\ r.pos < nextPos /\ r.pos > fence
        /\ \A s \in rows : s.pos # r.pos
        /\ \A s \in rows : s.ident = r.ident => s.pos < r.pos
        /\ r.key \in RepairKeys => \E s \in Log!Newest(r.ident) : s.body = r.body
    BY <1>1, <1>2 DEF EventStoreInv, OpenInv, OpenOK
  <1>4. Log!Record(r)
    BY <1>2, <1>3 DEF Log!Record
  <1>5. r \notin rows /\ r \in rows'
    BY <1>2, <1>3
  <1>6. Log!LogNext
    BY <1>4, <1>5 DEF Log!LogNext
  <1>7. LogInv'
    BY <1>6, LogStep
  <1>8. r.ident \in Idents /\ r.seq \in Nat \ {0} /\ r.pos \in Nat
    BY DEF Log!Row
  <1>9. /\ phase \in [Sessions -> {"idle", "waiting", "open", "done"}]
        /\ head \in [Idents -> Nat] /\ rows \subseteq Log!Row
    BY DEF EventStoreInv, TypeOK, Log!LogTypeOK
  <1>10. /\ phase'[c] = "done" /\ \A e \in Sessions : e # c => phase'[e] = phase[e]
         /\ head'[r.ident] = r.seq
         /\ \A i \in Idents : i # r.ident => head'[i] = head[i]
    BY <1>2, <1>8, <1>9
  <1>11. TypeOK'
    BY <1>2, <1>8, <1>9 DEF EventStoreInv, TypeOK, Log!LogTypeOK
  <1>12. OpenInv'
    <2> SUFFICES ASSUME NEW e \in Sessions, e # c, phase[e] = "open"
                 PROVE  OpenOK(e)'
      BY <1>10 DEF OpenInv
    <2>1. OpenOK(e) /\ row[e].ident \in Idents
      BY DEF EventStoreInv, OpenInv, OpenOK, Log!Row
    <2>2. row[e].ident # r.ident /\ row[e].pos # r.pos
      BY <1>1, <1>2 DEF EventStoreInv, IdentLockInv
    <2>3. head'[row[e].ident] = head[row[e].ident]
      BY <1>10, <2>1, <2>2
    <2>4. Log!WithKey(row[e].ident, row[e].key)' = {}
      BY <1>2, <2>1, <2>2 DEF OpenOK, Log!WithKey
    <2>5. row[e].key \in RepairKeys => \E s \in Log!Newest(row[e].ident)' : s.body = row[e].body
      BY <1>2, <2>1, <2>2, <2>3 DEF OpenOK, Log!Newest
    <2> QED
      BY <1>2, <2>1, <2>2, <2>3, <2>4, <2>5 DEF OpenOK, IsRepair
  <1>13. IdentLockInv'
    BY <1>2, <1>10 DEF EventStoreInv, IdentLockInv
  <1>14. PosInv'
    BY <1>2, <1>3 DEF EventStoreInv, PosInv
  <1>15. DraftInv'
    BY <1>2, <1>10 DEF EventStoreInv, DraftInv
  <1>16. AnsweredIsDurable'
    <2> SUFFICES ASSUME NEW e \in Sessions, phase'[e] = "done", row[e] # NoRow
                 PROVE  /\ row[e].ident = draft[e].ident /\ row[e].key = draft[e].key
                        /\ IsRepair(draft[e]) \/ row[e].body = draft[e].body
                        /\ \/ row[e] \in rows'
                           \/ row[e].pos \in published /\ row[e].seq < head'[row[e].ident]
      BY <1>2 DEF AnsweredIsDurable, IsRepair
    <2>1. CASE e = c
      BY <1>1, <1>2, <1>3, <2>1 DEF EventStoreInv, OpenInv, OpenOK
    <2>2. CASE e # c
      <3>1. /\ row[e].ident = draft[e].ident /\ row[e].key = draft[e].key
            /\ IsRepair(draft[e]) \/ row[e].body = draft[e].body
            /\ \/ row[e] \in rows
               \/ row[e].pos \in published /\ row[e].seq < head[row[e].ident]
        BY <1>10, <2>2 DEF EventStoreInv, AnsweredIsDurable
      <3>2. row[e].seq \in Nat /\ row[e].ident \in Idents
        BY DEF EventStoreInv, TypeOK, Log!Row
      <3>3. head'[row[e].ident] >= head[row[e].ident] /\ head[row[e].ident] \in Nat
            /\ head'[row[e].ident] \in Nat
        BY <1>3, <1>8, <1>9, <1>10, <3>2
      <3> QED
        BY <1>2, <3>1, <3>2, <3>3
    <2> QED
      BY <2>1, <2>2
  <1> QED
    BY <1>6, <1>7, <1>11, <1>12, <1>13, <1>14, <1>15, <1>16 DEF EventStoreInv
(* PruneKeeps: what retention deletes is superseded by a later row, so the *)
(* newest bodies, the mark's row and the answers of clients survive.       *)
LEMMA PruneKeeps ==
    ASSUME EventStoreInv, NEW r \in rows, Prune(r)
    PROVE  EventStoreInv' /\ Log!LogNext
  <1>1. /\ r.pos \in published /\ rows' = rows \ {r}
        /\ UNCHANGED <<head, published, fence, nextPos, phase, draft, row>>
    BY DEF Prune, txnVars
  <1>2. PICK s \in rows : s.ident = r.ident /\ s.seq > r.seq
    BY DEF Prune, Superseded
  <1>3. Log!LogNext
    BY <1>1, <1>2 DEF Log!LogNext, Log!Prune
  <1>4. LogInv'
    BY <1>3, LogStep
  <1>5. /\ s.pos > r.pos /\ r.seq < head[r.ident] /\ s.pos \in Nat /\ r.pos \in Nat
        /\ r.seq \in Nat /\ head[r.ident] \in Nat /\ s # r
    BY <1>2, LogUse
  <1>6. TypeOK'
    BY <1>1 DEF EventStoreInv, TypeOK, Log!LogTypeOK
  <1>7. OpenInv'
    <2> SUFFICES ASSUME NEW e \in Sessions, phase[e] = "open"
                 PROVE  OpenOK(e)'
      BY <1>1 DEF OpenInv
    <2>1. OpenOK(e)
      BY DEF EventStoreInv, OpenInv
    <2>2. Log!WithKey(row[e].ident, row[e].key)' = {}
      BY <1>1, <2>1 DEF OpenOK, Log!WithKey
    <2>3. row[e].key \in RepairKeys => \E x \in Log!Newest(row[e].ident)' : x.body = row[e].body
      BY <1>1, <1>5, <2>1 DEF OpenOK, Log!Newest
    <2> QED
      BY <1>1, <2>1, <2>2, <2>3 DEF OpenOK, IsRepair
  <1>8. IdentLockInv' /\ DraftInv'
    BY <1>1 DEF EventStoreInv, IdentLockInv, DraftInv
  <1>9. PosInv'
    <2>1. fence = 0 \/ \E x \in rows : x.pos >= fence
      BY DEF EventStoreInv, PosInv
    <2>2. fence \in Nat /\ \A x \in rows : x.pos \in Nat
      BY LogUse
    <2>3. fence = 0 \/ \E x \in rows' : x.pos >= fence
      BY <1>1, <1>2, <1>5, <2>1, <2>2
    <2> QED
      BY <1>1, <2>3 DEF EventStoreInv, PosInv
  <1>10. AnsweredIsDurable'
    BY <1>1, <1>5 DEF EventStoreInv, AnsweredIsDurable, IsRepair
  <1> QED
    BY <1>3, <1>4, <1>6, <1>7, <1>8, <1>9, <1>10 DEF EventStoreInv

(* MarkKeeps: closing a row.                                               *)
LEMMA MarkKeeps ==
    ASSUME EventStoreInv, NEW r \in rows, MarkPublished(r)
    PROVE  EventStoreInv' /\ Log!LogNext
  <1>1. /\ r.pos \notin published /\ published' = published \cup {r.pos}
        /\ UNCHANGED <<rows, head, fence, nextPos, phase, draft, row>>
    BY DEF MarkPublished, txnVars
  <1>2. Log!LogNext
    BY <1>1 DEF Log!LogNext, Log!MarkPublished
  <1>3. LogInv'
    BY <1>2, LogStep
  <1>4. TypeOK'
    <2>1. r.pos \in Nat
      BY LogUse
    <2> QED
      BY <1>1, <2>1 DEF EventStoreInv, TypeOK, Log!LogTypeOK
  <1>5. OpenInv' /\ IdentLockInv'
    BY <1>1 DEF EventStoreInv, OpenInv, OpenOK, IdentLockInv, IsRepair, Log!WithKey, Log!Newest
  <1>6. PosInv' /\ DraftInv' /\ AnsweredIsDurable'
    BY <1>1 DEF EventStoreInv, PosInv, DraftInv, AnsweredIsDurable, IsRepair
  <1> QED
    BY <1>2, <1>3, <1>4, <1>5, <1>6 DEF EventStoreInv

(* MarkReadKeeps: the high-water mark is read with no insert open, so that *)
(* nothing is ever committed below it.                                     *)
LEMMA MarkReadKeeps ==
    ASSUME EventStoreInv, HighWaterMark
    PROVE  EventStoreInv' /\ Log!LogNext
  <1>1. PICK h \in {0} \cup {r.pos : r \in rows} :
           (\A r \in rows : r.pos <= h) /\ fence' = h
    BY DEF HighWaterMark
  <1>2. /\ \A c \in Sessions : phase[c] # "open"
        /\ UNCHANGED <<rows, head, published, nextPos, phase, draft, row>>
    BY DEF HighWaterMark, Drained, Inserting, txnVars
  <1>3. h \in Nat /\ fence \in Nat /\ \A r \in rows : r.pos \in Nat
    BY LogUse
  <1>4. h >= fence
    BY <1>1, <1>3 DEF EventStoreInv, PosInv
  <1>5. h = 0 \/ \E r \in rows : r.pos = h
    OBVIOUS
  <1>6. Log!LogNext
    BY <1>1, <1>2, <1>4, <1>5 DEF Log!LogNext, Log!HighWater
  <1>7. LogInv'
    BY <1>6, LogStep
  <1>8. TypeOK'
    BY <1>1, <1>2, <1>3 DEF EventStoreInv, TypeOK, Log!LogTypeOK
  <1>9. OpenInv' /\ IdentLockInv'
    BY <1>2 DEF OpenInv, IdentLockInv
  <1>10. PosInv'
    <2>1. fence' = 0 \/ \E r \in rows : r.pos >= fence'
      BY <1>1, <1>3, <1>5
    <2> QED
      BY <1>2, <2>1 DEF EventStoreInv, PosInv
  <1>11. DraftInv' /\ AnsweredIsDurable'
    BY <1>2 DEF EventStoreInv, DraftInv, AnsweredIsDurable, IsRepair
  <1> QED
    BY <1>6, <1>7, <1>8, <1>9, <1>10, <1>11 DEF EventStoreInv

(* EventStoreStep: every statement of every session keeps the invariant    *)
(* and is an operation of the log, or invisible to it.                     *)
LEMMA EventStoreStep ==
    ASSUME EventStoreInv, [Next]_vars
    PROVE  EventStoreInv' /\ [Log!LogNext]_logVars
  <1>a. /\ phase \in [Sessions -> {"idle", "waiting", "open", "done"}]
        /\ draft \in [Sessions -> Draft \cup {NoDraft}]
        /\ row \in [Sessions -> Log!Row \cup {NoRow}]
    BY DEF EventStoreInv, TypeOK
  <1>1. ASSUME NEW c \in Sessions, NEW i \in Idents, NEW k \in Keys, NEW b \in Bodies,
               NEW T \in Routes,
               Begin(c, [ident |-> i, key |-> k, body |-> b, targets |-> T])
        PROVE  EventStoreInv' /\ UNCHANGED logVars
    <2>1. [ident |-> i, key |-> k, body |-> b, targets |-> T] \in Draft
      BY RoutesAssumption DEF Draft
    <2> QED
      BY <1>1, <2>1, BeginKeeps DEF Begin
  <1>2. ASSUME NEW c \in Sessions, LockAndReturn(c)
        PROVE  EventStoreInv' /\ UNCHANGED logVars
    BY <1>2, ReturnKeeps DEF LockAndReturn
  <1>3. ASSUME NEW c \in Sessions, LockAndInsert(c)
        PROVE  EventStoreInv' /\ UNCHANGED logVars
    BY <1>3, InsertKeeps DEF LockAndInsert
  <1>4. ASSUME NEW c \in Sessions, Commit(c)
        PROVE  EventStoreInv' /\ Log!LogNext
    BY <1>4, CommitKeeps
  <1>5. ASSUME NEW c \in Sessions, Rollback(c)
        PROVE  EventStoreInv' /\ UNCHANGED logVars
    <2>1. /\ UNCHANGED <<logVars, nextPos, draft>> /\ phase[c] # "idle"
          /\ phase' = [phase EXCEPT ![c] = "done"] /\ row' = [row EXCEPT ![c] = NoRow]
      BY <1>5 DEF Rollback
    <2>2. draft[c] \in Draft
      BY <2>1 DEF EventStoreInv, DraftInv
    <2> QED
      BY <1>a, <2>1, <2>2, QuietStep
  <1>6. ASSUME NEW c \in Sessions, Finish(c)
        PROVE  EventStoreInv' /\ UNCHANGED logVars
    <2>1. /\ UNCHANGED <<logVars, nextPos>> /\ draft' = [draft EXCEPT ![c] = NoDraft]
          /\ phase' = [phase EXCEPT ![c] = "idle"] /\ row' = [row EXCEPT ![c] = NoRow]
      BY <1>6 DEF Finish
    <2> QED
      BY <1>a, <2>1, QuietStep
  <1>7. ASSUME NEW r \in rows, MarkPublished(r) \/ Prune(r)
        PROVE  EventStoreInv' /\ Log!LogNext
    BY <1>7, MarkKeeps, PruneKeeps
  <1>8. ASSUME HighWaterMark PROVE EventStoreInv' /\ Log!LogNext
    BY <1>8, MarkReadKeeps
  <1>9. CASE UNCHANGED vars
    <2>1. UNCHANGED <<logVars, nextPos, phase, draft, row>>
      BY <1>9 DEF vars, txnVars
    <2>2. LogInv'
      BY <2>1, LogStep
    <2>3. TypeOK' /\ OpenInv' /\ IdentLockInv'
      BY <2>1 DEF EventStoreInv, TypeOK, OpenInv, OpenOK, IdentLockInv, IsRepair, logVars,
                  Log!LogTypeOK, Log!WithKey, Log!Newest
    <2>4. PosInv' /\ DraftInv' /\ AnsweredIsDurable'
      BY <2>1 DEF EventStoreInv, PosInv, DraftInv, AnsweredIsDurable, IsRepair, logVars
    <2> QED
      BY <2>1, <2>2, <2>3, <2>4 DEF EventStoreInv
  <1> QED
    BY <1>1, <1>2, <1>3, <1>4, <1>5, <1>6, <1>7, <1>8, <1>9 DEF Next

(* StoreCorrect: the order of positions and sequences, the stored heads,   *)
(* the single row per key and the durability of every answer hold however  *)
(* the transactions of the replicas interleave or fail.                    *)
THEOREM StoreCorrect ==
    Spec => [](TypeOK /\ OrderAgrees /\ HeadIsStored /\ OnePerKey /\ AnsweredIsDurable)
  <1>1. EventStoreInv => TypeOK /\ OrderAgrees /\ HeadIsStored /\ OnePerKey /\ AnsweredIsDurable
    BY DEF EventStoreInv, OrderAgrees, HeadIsStored, OnePerKey, LogInv,
           Log!OrderAgrees, Log!HeadIsStored, Log!OnePerKey
  <1>2. EventStoreInv /\ [Next]_vars => EventStoreInv'
    BY EventStoreStep
  <1>3. Init => EventStoreInv
    BY EventStoreInit
  <1> QED
    BY <1>1, <1>2, <1>3, PTL DEF Spec

(* StoreImplementsLog: the transactions of the store implement the atomic  *)
(* log: nothing is committed out of sequence, under a used key, or below a *)
(* high-water mark that was already handed out.                            *)
THEOREM StoreImplementsLog == Spec => ImplementsLog
  <1>1. Init => EventStoreInv /\ Log!LogInit
    BY EventStoreInit
  <1>2. EventStoreInv /\ [Next]_vars => EventStoreInv'
    BY EventStoreStep
  <1>3. EventStoreInv /\ [Next]_vars => [Log!LogNext]_(Log!logVars)
    BY EventStoreStep DEF logVars, Log!logVars
  <1> QED
    BY <1>1, <1>2, <1>3, PTL DEF Spec, ImplementsLog, Log!LogSpec

-----------------------------------------------------------------------------
(* The control-plane store *)

\* The audit rows in the order of their sequences: the abstract chain.
EntryAt(R, n) == CHOOSE e \in R : e.sequence = n

Chain == [n \in 1 .. Cardinality(auditRows) |-> EntryAt(auditRows, n)]

-----------------------------------------------------------------------------
(* The inductive invariant *)

\* The sequences of the audit rows are 1 .. n, each once, and the head is the
\* last of them: inserting the next entry cannot hit UNIQUE(sequence).
RowsInv ==
    /\ IsFiniteSet(auditRows)
    /\ \A e \in auditRows : e.sequence \in 1 .. Cardinality(auditRows)
    /\ \A n \in 1 .. Cardinality(auditRows) : \E e \in auditRows : e.sequence = n
    /\ \A e, f \in auditRows : e.sequence = f.sequence => e = f
    /\ auditHead = [sequence |-> Cardinality(auditRows), hash |-> L!Tip(Chain)]

\* Every replica's revision is of the past.
RevisionsInv ==
    /\ revision \in Nat
    /\ known \in [Writers -> 0 .. revision]
    /\ \A e \in auditRows : e.revision \in 0 .. revision

Txn ==
    {Nil} \cup [commits : BOOLEAN, step : {"state", "audit", "close"}, first : BOOLEAN,
                expected : Nat, revision : Nat, seen : {Nil, auditHead}]

\* The two row locks: one open transaction has changed the state row, and it
\* goes to the next revision; one has read the head, and read what it still is.
LockInv ==
    /\ txn \in [Writers -> Txn]
    /\ \A w \in Open :
          /\ txn[w].commits /\ txn[w].step # "state" => txn[w].revision = revision + 1
          /\ ~txn[w].commits => txn[w].step # "state" /\ txn[w].revision <= revision
          /\ txn[w].commits => txn[w].revision = txn[w].expected + 1
          /\ txn[w].seen = IF txn[w].step = "close" THEN auditHead ELSE Nil
    /\ \A v, w \in Open : v # w =>
          /\ ~ (txn[v].commits /\ txn[v].step # "state" /\ txn[w].commits /\ txn[w].step # "state")
          /\ ~ (txn[v].step = "close" /\ txn[w].step = "close")

\* A row leaves the outbox once it is published, and never the newest.
OutboxInv ==
    /\ outbox \subseteq 1 .. revision
    /\ marked \subseteq 1 .. revision
    /\ \A r \in 1 .. revision : r \in outbox \/ r \in marked
    /\ revision > 0 => revision \in outbox
    /\ job # Nil => job.old \subseteq marked

\* What a dispatcher works on has been in the outbox, and a row it is about to
\* mark was announced.
PagesInv ==
    /\ page \in [Dispatchers -> SUBSET (1 .. revision)]
    /\ \A d \in announced : d \in Dispatchers /\ page[d] # {} /\ NextRow(d) \in notified

StoreInv == RowsInv /\ RevisionsInv /\ LockInv /\ OutboxInv /\ PagesInv

-----------------------------------------------------------------------------
(* Chains *)

(* ChainOf: the abstract chain has one element for each audit row.         *)
LEMMA ChainOf ==
    ASSUME RowsInv
    PROVE  /\ Cardinality(auditRows) \in Nat
           /\ Chain \in Seq(auditRows) /\ Len(Chain) = Cardinality(auditRows)
           /\ \A n \in 1 .. Cardinality(auditRows) : Chain[n] \in auditRows /\ Chain[n].sequence = n
  <1>1. Cardinality(auditRows) \in Nat
    BY FS_CardinalityType DEF RowsInv
  <1>2. \A n \in 1 .. Cardinality(auditRows) :
            EntryAt(auditRows, n) \in auditRows /\ EntryAt(auditRows, n).sequence = n
    BY DEF RowsInv, EntryAt
  <1>3. Chain \in [1 .. Cardinality(auditRows) -> auditRows]
    BY <1>2 DEF Chain
  <1> QED
    BY <1>1, <1>2, <1>3 DEF Chain

(* ChainExtended: inserting the row of the next sequence appends to the    *)
(* abstract chain.                                                         *)
LEMMA ChainExtended ==
    ASSUME RowsInv, NEW e, e.sequence = Cardinality(auditRows) + 1, auditRows' = auditRows \cup {e}
    PROVE  /\ IsFiniteSet(auditRows') /\ Cardinality(auditRows') = Cardinality(auditRows) + 1
           /\ Chain' = Append(Chain, e)
  <1>1. Cardinality(auditRows) \in Nat /\ e \notin auditRows
    BY FS_CardinalityType DEF RowsInv
  <1>2. IsFiniteSet(auditRows') /\ Cardinality(auditRows') = Cardinality(auditRows) + 1
    BY <1>1, FS_AddElement DEF RowsInv
  <1>3. /\ Append(Chain, e) \in [1 .. Cardinality(auditRows) + 1 -> auditRows \cup {e}]
        /\ \A n \in 1 .. Cardinality(auditRows) : Append(Chain, e)[n] = Chain[n]
        /\ Append(Chain, e)[Cardinality(auditRows) + 1] = e
    <2>1. Chain \in Seq(auditRows \cup {e}) /\ Len(Chain) = Cardinality(auditRows)
      BY ChainOf, SeqMonotonic
    <2>2. /\ Append(Chain, e) \in Seq(auditRows \cup {e})
          /\ Len(Append(Chain, e)) = Cardinality(auditRows) + 1
          /\ \A n \in 1 .. Cardinality(auditRows) : Append(Chain, e)[n] = Chain[n]
          /\ Append(Chain, e)[Cardinality(auditRows) + 1] = e
      BY <2>1, AppendProperties
    <2> QED
      BY <2>2, LenProperties
  <1>4. ASSUME NEW n \in 1 .. Cardinality(auditRows) + 1
        PROVE  EntryAt(auditRows', n) = Append(Chain, e)[n]
    <2>1. CASE n = Cardinality(auditRows) + 1
      <3>1. \A f \in auditRows' : f.sequence = n <=> f = e
        BY <1>1, <2>1 DEF RowsInv
      <3>2. EntryAt(auditRows', n) = e
        BY <3>1 DEF EntryAt
      <3> QED
        BY <3>2, <2>1, <1>3
    <2>2. CASE n \in 1 .. Cardinality(auditRows)
      <3>1. \A f : f \in auditRows' /\ f.sequence = n <=> f \in auditRows /\ f.sequence = n
        BY <1>1, <2>2
      <3>2. PICK r \in auditRows : r.sequence = n
        BY <2>2 DEF RowsInv
      <3>3. \A f \in auditRows' : f.sequence = n <=> f = r
        BY <3>1, <3>2 DEF RowsInv
      <3>4. EntryAt(auditRows', n) = r
        BY <3>3 DEF EntryAt
      <3>5. Chain[n] = r
        BY <2>2, <3>2, ChainOf DEF RowsInv
      <3> QED
        BY <3>4, <3>5, <2>2, <1>3
    <2>3. n = Cardinality(auditRows) + 1 \/ n \in 1 .. Cardinality(auditRows)
      BY <1>1
    <2> QED
      BY <2>1, <2>2, <2>3
  <1>5. Chain' = [n \in 1 .. Cardinality(auditRows) + 1 |-> Append(Chain, e)[n]]
    BY <1>2, <1>4 DEF Chain
  <1> QED
    BY <1>2, <1>3, <1>5

(* ChainKept: statements that leave the audit tables alone.                *)
LEMMA ChainKept ==
    ASSUME RowsInv, UNCHANGED <<auditRows, auditHead>>
    PROVE  RowsInv' /\ Chain' = Chain
  BY DEF RowsInv, Chain, EntryAt

(* MinInside: the first row of a page is one of the page.                  *)
LEMMA MinInside ==
    ASSUME NEW S \in SUBSET Nat, S # {}
    PROVE  Min(S) \in S
  <1> DEFINE Less == {p \in Nat \X Nat : p[1] < p[2]}
  <1>1. IsWellFoundedOn(Less, Nat)
    BY NatLessThanWellFounded DEF OpToRel
  <1>2. PICK x \in S : \A y \in S : <<y, x>> \notin Less
    <2> HIDE DEF Less
    <2> QED
      BY <1>1, WFMin
  <1>3. ASSUME NEW y \in S PROVE x <= y
    <2>1. <<y, x>> \in Nat \X Nat /\ <<y, x>>[1] = y /\ <<y, x>>[2] = x
      OBVIOUS
    <2>2. ~ (y < x)
      BY <1>2, <2>1
    <2> QED
      BY <2>2
  <1> QED
    BY <1>3 DEF Min

-----------------------------------------------------------------------------
(* The invariant is inductive *)

(* StoreInvInit: the empty database.                                       *)
LEMMA StoreInvInit == StoreInit => StoreInv
  <1> SUFFICES ASSUME StoreInit PROVE StoreInv
    OBVIOUS
  <1>1. IsFiniteSet(auditRows) /\ Cardinality(auditRows) = 0
    BY FS_EmptySet DEF StoreInit
  <1>2. Chain = <<>>
    BY <1>1 DEF Chain
  <1>3. RowsInv
    BY <1>1, <1>2 DEF StoreInit, RowsInv, L!Tip, L!ZeroHash
  <1>4. RevisionsInv /\ LockInv /\ OutboxInv /\ PagesInv
    BY DEF StoreInit, RevisionsInv, LockInv, Txn, Open, OutboxInv, PagesInv
  <1> QED
    BY <1>3, <1>4 DEF StoreInv

(* QuietKeeps: a statement of one transaction that changes no table.       *)
LEMMA QuietKeeps ==
    ASSUME StoreInv, NEW w \in Writers, NEW t \in Txn,
           UNCHANGED <<tables, dispatchVars, job>>,
           known' \in [Writers -> 0 .. revision],
           txn' = [txn EXCEPT ![w] = t],
           t # Nil =>
              /\ t.commits /\ t.step # "state" =>
                    /\ t.revision = revision + 1
                    /\ \A v \in Open \ {w} : ~ (txn[v].commits /\ txn[v].step # "state")
              /\ ~t.commits => t.step # "state" /\ t.revision <= revision
              /\ t.commits => t.revision = t.expected + 1
              /\ t.seen = IF t.step = "close" THEN auditHead ELSE Nil
              /\ t.step = "close" => \A v \in Open \ {w} : txn[v].step # "close"
    PROVE  StoreInv'
  <1>1. RowsInv'
    BY ChainKept DEF StoreInv, tables
  <1>2. RevisionsInv' /\ OutboxInv' /\ PagesInv'
    BY DEF StoreInv, RevisionsInv, OutboxInv, PagesInv, NextRow, tables, dispatchVars
  <1>3. txn' \in [Writers -> Txn] /\ Txn' = Txn
    BY DEF StoreInv, LockInv, Txn, tables
  <1>4. /\ w \in Open' => t # Nil
        /\ Open' \ {w} = Open \ {w}
        /\ txn'[w] = t /\ \A v \in Writers \ {w} : txn'[v] = txn[v]
    BY DEF StoreInv, LockInv, Open
  <1>5. LockInv'
    <2>1. ASSUME NEW v \in Open'
          PROVE  /\ txn'[v].commits /\ txn'[v].step # "state" => txn'[v].revision = revision + 1
                 /\ ~txn'[v].commits => txn'[v].step # "state" /\ txn'[v].revision <= revision
                 /\ txn'[v].commits => txn'[v].revision = txn'[v].expected + 1
                 /\ txn'[v].seen = IF txn'[v].step = "close" THEN auditHead ELSE Nil
      <3>1. CASE v = w
        BY <1>4, <3>1
      <3>2. CASE v # w
        BY <1>4, <3>2 DEF StoreInv, LockInv, Open
      <3> QED
        BY <3>1, <3>2
    <2>2. ASSUME NEW u \in Open', NEW v \in Open', u # v
          PROVE  /\ ~ (/\ txn'[u].commits /\ txn'[u].step # "state"
                       /\ txn'[v].commits /\ txn'[v].step # "state")
                 /\ ~ (txn'[u].step = "close" /\ txn'[v].step = "close")
      <3>1. CASE u = w
        BY <1>4, <2>2, <3>1 DEF Open
      <3>2. CASE v = w
        BY <1>4, <2>2, <3>2 DEF Open
      <3>3. CASE u # w /\ v # w
        BY <1>4, <2>2, <3>3 DEF StoreInv, LockInv, Open
      <3> QED
        BY <3>1, <3>2, <3>3
    <2> QED
      BY <1>3, <2>1, <2>2 DEF LockInv, tables
  <1> QED
    BY <1>1, <1>2, <1>5 DEF StoreInv

(* RequestKeeps: a transaction begins.                                     *)
LEMMA RequestKeeps ==
    ASSUME StoreInv, NEW w \in Writers, Request(w)
    PROVE  StoreInv'
  <1>1. /\ known[w] \in 0 .. revision /\ revision \in Nat /\ known \in [Writers -> 0 .. revision]
        /\ UNCHANGED <<tables, known, dispatchVars, job>>
    BY DEF StoreInv, RevisionsInv, Request, BeginCommit, BeginAudit
  <1>2. CASE BeginCommit(w)
    <2> DEFINE t == [commits |-> TRUE, step |-> "state", first |-> revision = 0,
                     expected |-> known[w], revision |-> known[w] + 1, seen |-> Nil]
    <2>1. t \in Txn
      BY <1>1 DEF Txn
    <2>2. txn' = [txn EXCEPT ![w] = t]
      BY <1>2 DEF BeginCommit
    <2> QED
      BY <1>1, <2>1, <2>2, QuietKeeps
  <1>3. ASSUME NEW r \in {0, known[w]}, BeginAudit(w, r)
        PROVE  StoreInv'
    <2> DEFINE t == [commits |-> FALSE, step |-> "audit", first |-> FALSE,
                     expected |-> known[w], revision |-> r, seen |-> Nil]
    <2>1. t \in Txn
      BY <1>1 DEF Txn
    <2>2. txn' = [txn EXCEPT ![w] = t] /\ r <= revision
      BY <1>3 DEF BeginAudit
    <2> QED
      BY <1>1, <2>1, <2>2, QuietKeeps
  <1> QED
    BY <1>2, <1>3 DEF Request

(* LocksKeep: the statements of a transaction before its last one, and an  *)
(* end without a commit.                                                   *)
LEMMA LocksKeep ==
    ASSUME StoreInv, NEW w \in Writers,
           CasState(w) \/ Conflict(w) \/ AppendAudit(w) \/ Abort(w) \/ Load(w)
    PROVE  StoreInv'
  <1>1. /\ known \in [Writers -> 0 .. revision] /\ revision \in Nat
        /\ txn \in [Writers -> Txn]
        /\ txn[w] # Nil => txn[w] \in Txn /\ txn[w] \in Txn \ {Nil} /\ w \in Open
    BY DEF StoreInv, RevisionsInv, LockInv, Open
  <1>2. CASE Conflict(w) \/ Abort(w)
    <2>1. /\ UNCHANGED <<tables, known, dispatchVars, job>>
          /\ txn' = [txn EXCEPT ![w] = Nil]
      BY <1>2 DEF Conflict, Abort, Ended
    <2> QED
      BY <1>1, <2>1, QuietKeeps DEF Txn
  <1>3. CASE Load(w)
    <2>1. /\ UNCHANGED <<tables, dispatchVars, job>> /\ txn[w] = Nil
          /\ txn' = [txn EXCEPT ![w] = Nil]
          /\ known' = [known EXCEPT ![w] = revision]
      BY <1>1, <1>3 DEF Load
    <2>2. known' \in [Writers -> 0 .. revision] /\ Nil \in Txn
      BY <1>1, <2>1 DEF Txn
    <2> QED
      BY <2>1, <2>2, QuietKeeps
  <1>4. CASE CasState(w)
    <2> DEFINE t == [txn[w] EXCEPT !.step = "audit"]
    <2>1. /\ UNCHANGED <<tables, known, dispatchVars, job>>
          /\ txn' = [txn EXCEPT ![w] = t]
          /\ txn[w] # Nil /\ txn[w].step = "state" /\ StateFree(w) /\ IsCurrent(txn[w])
      BY <1>4 DEF CasState
    <2>2. /\ t.step = "audit" /\ t.commits = txn[w].commits /\ txn[w].commits
          /\ t.seen = Nil
          /\ t.revision = txn[w].revision /\ t.expected = txn[w].expected
          /\ t \in Txn /\ t.expected \in Nat
      BY <1>1, <2>1 DEF Txn, StoreInv, LockInv
    <2>3. t.revision = t.expected + 1 /\ t.expected = revision
      BY <1>1, <2>1, <2>2 DEF IsCurrent, StoreInv, LockInv
    <2>4. \A v \in Open \ {w} : ~ (txn[v].commits /\ txn[v].step # "state")
      BY <2>1 DEF StateFree
    <2> HIDE DEF t
    <2> QED
      BY <1>1, <2>1, <2>2, <2>3, <2>4, QuietKeeps
  <1>5. CASE AppendAudit(w)
    <2> DEFINE t == [txn[w] EXCEPT !.step = "close", !.seen = auditHead]
    <2>1. /\ UNCHANGED <<tables, known, dispatchVars, job>>
          /\ txn' = [txn EXCEPT ![w] = t]
          /\ txn[w] # Nil /\ txn[w].step = "audit" /\ HeadFree(w)
      BY <1>1, <1>5 DEF AppendAudit, Txn
    <2>2. /\ t.step = "close" /\ t.seen = auditHead /\ t.commits = txn[w].commits
          /\ t.revision = txn[w].revision /\ t.expected = txn[w].expected
          /\ t \in Txn
      BY <1>1, <2>1 DEF Txn
    <2>3. /\ t.commits => t.revision = revision + 1 /\ t.revision = t.expected + 1
          /\ ~t.commits => t.revision <= revision
          /\ t.commits => \A v \in Open \ {w} : ~ (txn[v].commits /\ txn[v].step # "state")
      BY <1>1, <2>1, <2>2 DEF StoreInv, LockInv
    <2>4. \A v \in Open \ {w} : txn[v].step # "close"
      BY <2>1 DEF HeadFree
    <2> HIDE DEF t
    <2> QED
      BY <1>1, <2>1, <2>2, <2>3, <2>4, QuietKeeps
  <1> QED
    BY <1>2, <1>3, <1>4, <1>5

(* CloseAppends: the last statement of a transaction inserts the next      *)
(* entry of the chain.                                                     *)
LEMMA CloseAppends ==
    ASSUME StoreInv, NEW w \in Writers, Close(w)
    PROVE  LET t == txn[w]
               e == L!Material(Len(Chain) + 1, t.revision, L!Tip(Chain))
           IN  /\ w \in Open /\ t \in Txn \ {Nil} /\ t.step = "close"
               /\ Entry(t) = e /\ e.sequence = Cardinality(auditRows) + 1
               /\ e.revision = t.revision
               /\ auditRows' = auditRows \cup {e}
               /\ Chain' = Append(Chain, e)
               /\ IsFiniteSet(auditRows') /\ Cardinality(auditRows') = Cardinality(auditRows) + 1
               /\ RowsInv'
               /\ t.commits => t.revision = revision + 1
               /\ ~t.commits => t.revision \in 0 .. revision
  <1> DEFINE t == txn[w]
             e == L!Material(Len(Chain) + 1, t.revision, L!Tip(Chain))
  <1>1. /\ t # Nil /\ t.step = "close" /\ t.seen = auditHead
        /\ auditRows' = auditRows \cup {Entry(t)}
        /\ auditHead' = [sequence |-> Entry(t).sequence, hash |-> L!Hash(Entry(t))]
    BY DEF Close
  <1>2. /\ w \in Open /\ t \in Txn \ {Nil}
        /\ t.commits => t.revision = revision + 1
        /\ ~t.commits => t.revision \in 0 .. revision
    BY <1>1 DEF StoreInv, LockInv, Open, Txn, RevisionsInv
  <1>3. Cardinality(auditRows) \in Nat /\ Len(Chain) = Cardinality(auditRows)
    BY ChainOf DEF StoreInv
  <1>4. Entry(t) = e
    BY <1>1, <1>3 DEF Entry, StoreInv, RowsInv
  <1>5. e.sequence = Cardinality(auditRows) + 1 /\ e.revision = t.revision
    BY <1>3 DEF L!Material
  <1> HIDE DEF e, t
  <1>6. /\ IsFiniteSet(auditRows') /\ Cardinality(auditRows') = Cardinality(auditRows) + 1
        /\ Chain' = Append(Chain, e)
    BY <1>1, <1>4, <1>5, ChainExtended DEF StoreInv
  <1>7. RowsInv'
    <2>1. Len(Chain') = Cardinality(auditRows') /\ Chain'[Len(Chain')] = e
      <3>1. Chain \in Seq(auditRows \cup {e})
        BY ChainOf, SeqMonotonic DEF StoreInv
      <3> QED
        BY <1>3, <1>6, <3>1, AppendProperties
    <2>2. L!Tip(Chain') = L!Hash(e)
      <3>1. Chain' # <<>>
        BY <2>1, <1>3, <1>6, EmptySeq
      <3> QED
        BY <2>1, <3>1 DEF L!Tip
    <2>3. auditHead' = [sequence |-> Cardinality(auditRows'), hash |-> L!Tip(Chain')]
      BY <1>1, <1>4, <1>5, <1>6, <2>2
    <2>4. \A f \in auditRows : f.sequence \in 1 .. Cardinality(auditRows)
      BY DEF StoreInv, RowsInv
    <2>5. /\ \A f \in auditRows' : f.sequence \in 1 .. Cardinality(auditRows')
          /\ \A f, g \in auditRows' : f.sequence = g.sequence => f = g
      BY <1>1, <1>3, <1>4, <1>5, <1>6, <2>4 DEF StoreInv, RowsInv
    <2>6. \A n \in 1 .. Cardinality(auditRows') : \E f \in auditRows' : f.sequence = n
      BY <1>1, <1>3, <1>4, <1>5, <1>6 DEF StoreInv, RowsInv
    <2> QED
      BY <1>6, <2>3, <2>5, <2>6 DEF RowsInv
  <1> QED
    BY <1>1, <1>2, <1>4, <1>5, <1>6, <1>7 DEF e, t

(* CloseKeeps: a transaction commits.                                      *)
LEMMA CloseKeeps ==
    ASSUME StoreInv, NEW w \in Writers, Close(w)
    PROVE  StoreInv'
  <1> DEFINE t == txn[w]
  <1>1. /\ revision' = IF t.commits THEN t.revision ELSE revision
        /\ outbox' = outbox \cup RowsOf(t)
        /\ \E k \in {known[w], revision'} : known' = [known EXCEPT ![w] = k]
        /\ txn' = [txn EXCEPT ![w] = Nil]
        /\ t.step = "close"
        /\ UNCHANGED <<marked, dispatchVars, job>>
    BY DEF Close, Ended
  <1>2. /\ w \in Open /\ t \in Txn \ {Nil} /\ RowsInv'
        /\ t.commits => t.revision = revision + 1
        /\ ~t.commits => t.revision \in 0 .. revision
        /\ \E e : auditRows' = auditRows \cup {e} /\ e.revision = t.revision
    BY CloseAppends
  <1>3. revision \in Nat /\ revision' \in {revision, revision + 1} /\ t.revision \in 0 .. revision'
        /\ t.commits \in BOOLEAN
    BY <1>1, <1>2 DEF StoreInv, RevisionsInv, Txn
  <1> HIDE DEF t
  <1>4. RevisionsInv'
    <2>1. known' \in [Writers -> 0 .. revision']
      BY <1>1, <1>3 DEF StoreInv, RevisionsInv
    <2>2. \A e \in auditRows' : e.revision \in 0 .. revision'
      BY <1>2, <1>3 DEF StoreInv, RevisionsInv
    <2> QED
      BY <1>3, <2>1, <2>2 DEF RevisionsInv
  <1>5. OutboxInv'
    BY <1>1, <1>2, <1>3 DEF StoreInv, OutboxInv, RowsOf
  <1>6. PagesInv'
    BY <1>1, <1>3 DEF StoreInv, PagesInv, NextRow, dispatchVars
  <1>7. LockInv'
    <2>1. /\ Open' = Open \ {w}
          /\ txn' \in [Writers -> Txn]
          /\ \A v \in Open' : txn'[v] = txn[v] /\ v # w /\ v \in Open
      BY <1>1 DEF StoreInv, LockInv, Open, Txn
    <2>2. \A v \in Open' : /\ txn[v].step # "close" /\ txn[v].seen = Nil
                           /\ txn[v] \in Txn \ {Nil}
      BY <1>1, <1>2, <2>1 DEF StoreInv, LockInv, Open, t
    <2>3. txn' \in [Writers -> Txn']
      BY <2>1, <2>2 DEF Txn, Open
    <2>4. \A v \in Open' : txn[v].commits /\ txn[v].step # "state" => revision' = revision
      BY <1>1, <1>2, <2>1 DEF StoreInv, LockInv, t
    <2>5. \A v \in Open' : ~txn[v].commits => txn[v].step # "state" /\ txn[v].revision <= revision'
      BY <1>3, <2>1, <2>2 DEF StoreInv, LockInv, Txn
    <2>6. ASSUME NEW v \in Open'
          PROVE  /\ txn'[v].commits /\ txn'[v].step # "state" => txn'[v].revision = revision' + 1
                 /\ ~txn'[v].commits => txn'[v].step # "state" /\ txn'[v].revision <= revision'
                 /\ txn'[v].commits => txn'[v].revision = txn'[v].expected + 1
                 /\ txn'[v].seen = IF txn'[v].step = "close" THEN auditHead' ELSE Nil
      BY <2>1, <2>2, <2>4, <2>5 DEF StoreInv, LockInv
    <2>7. \A u, v \in Open' : u # v =>
             /\ ~ (/\ txn'[u].commits /\ txn'[u].step # "state"
                   /\ txn'[v].commits /\ txn'[v].step # "state")
             /\ ~ (txn'[u].step = "close" /\ txn'[v].step = "close")
      BY <2>1 DEF StoreInv, LockInv
    <2> QED
      BY <2>3, <2>6, <2>7 DEF LockInv
  <1> QED
    BY <1>2, <1>4, <1>5, <1>6, <1>7 DEF StoreInv

(* TransactionsKept: what does not touch the audit tables, the revision or *)
(* a transaction.                                                          *)
LEMMA TransactionsKept ==
    ASSUME StoreInv, UNCHANGED <<revision, auditRows, auditHead, known, txn>>
    PROVE  RowsInv' /\ RevisionsInv' /\ LockInv'
  BY ChainKept DEF StoreInv, RevisionsInv, LockInv, Txn, Open

(* DispatchKeeps: the dispatchers, whose rows others may have marked.      *)
LEMMA DispatchKeeps ==
    ASSUME StoreInv, NEW d \in Dispatchers, Dispatch(d) \/ AnnounceFails(d) \/ Forget(d)
    PROVE  StoreInv'
  <1>1. UNCHANGED <<revision, auditRows, auditHead, outbox, known, txn, job>>
    BY DEF Dispatch, ListOutbox, Announce, Mark, AnnounceFails, Forget, tables
  <1>2. RowsInv' /\ RevisionsInv' /\ LockInv'
    BY <1>1, TransactionsKept
  <1>3. /\ page \in [Dispatchers -> SUBSET (1 .. revision)] /\ revision \in Nat
        /\ \A c \in announced : c \in Dispatchers /\ page[c] # {} /\ NextRow(c) \in notified
        /\ outbox \subseteq 1 .. revision /\ marked \subseteq 1 .. revision
        /\ job # Nil => job.old \subseteq marked
    BY DEF StoreInv, PagesInv, RevisionsInv, OutboxInv
  <1>4. CASE ListOutbox(d)
    <2>1. /\ page[d] = {} /\ page' = [page EXCEPT ![d] = Unpublished]
          /\ UNCHANGED <<tables, notified, announced>>
      BY <1>4 DEF ListOutbox
    <2>2. Unpublished \subseteq outbox /\ d \notin announced
      BY <1>3, <2>1 DEF Unpublished
    <2>3. PagesInv'
      BY <1>1, <1>3, <2>1, <2>2 DEF PagesInv, NextRow
    <2> QED
      BY <1>1, <1>2, <2>1, <2>3 DEF StoreInv, OutboxInv, tables
  <1>5. CASE Announce(d)
    <2>1. /\ page[d] # {} /\ notified' = notified \cup {NextRow(d)}
          /\ announced' = announced \cup {d}
          /\ UNCHANGED <<tables, page>>
      BY <1>5 DEF Announce
    <2>2. PagesInv'
      BY <1>3, <2>1 DEF PagesInv, NextRow, tables
    <2> QED
      BY <1>1, <1>2, <2>1, <2>2 DEF StoreInv, OutboxInv, tables
  <1>6. CASE Mark(d)
    <2>1. /\ page[d] # {} /\ marked' = marked \cup {NextRow(d)}
          /\ announced' = announced \ {d}
          /\ page' = [page EXCEPT ![d] = @ \ {NextRow(d)}]
          /\ UNCHANGED notified
      BY <1>6 DEF Mark, Done
    <2>2. NextRow(d) \in 1 .. revision
      <3>1. page[d] \subseteq 1 .. revision /\ page[d] \in SUBSET Nat
        BY <1>3
      <3> QED
        BY <2>1, <3>1, MinInside DEF NextRow
    <2>3. PagesInv'
      BY <1>1, <1>3, <2>1 DEF PagesInv, NextRow
    <2>4. OutboxInv'
      BY <1>1, <1>3, <2>1, <2>2 DEF StoreInv, OutboxInv
    <2> QED
      BY <1>2, <2>3, <2>4 DEF StoreInv
  <1>7. CASE AnnounceFails(d) \/ Forget(d)
    <2>1. /\ announced' = announced \ {d} /\ UNCHANGED <<tables, notified>>
          /\ \E S \in SUBSET page[d] : page' = [page EXCEPT ![d] = S]
      BY <1>7 DEF AnnounceFails, Forget, Done
    <2>2. PagesInv'
      BY <1>1, <1>3, <2>1 DEF PagesInv, NextRow
    <2> QED
      BY <1>1, <1>2, <2>1, <2>2 DEF StoreInv, OutboxInv, tables
  <1> QED
    BY <1>4, <1>5, <1>6, <1>7 DEF Dispatch

(* RetentionKeeps: the newest row stays, and nothing unpublished goes.     *)
LEMMA RetentionKeeps ==
    ASSUME StoreInv, Retention
    PROVE  StoreInv'
  <1>1. UNCHANGED <<revision, auditRows, auditHead, marked, known, txn, dispatchVars>>
    BY DEF Retention, StartRetention, DeleteBatch, EndRetention, tables
  <1>2. RowsInv' /\ RevisionsInv' /\ LockInv'
    BY <1>1, TransactionsKept
  <1>3. PagesInv'
    BY <1>1 DEF StoreInv, PagesInv, NextRow, dispatchVars
  <1>4. CASE \E old \in SUBSET marked : StartRetention(old)
    BY <1>1, <1>2, <1>3, <1>4 DEF StartRetention, StoreInv, OutboxInv, tables
  <1>5. ASSUME NEW rs \in SUBSET outbox, DeleteBatch(rs) PROVE StoreInv'
    <2>1. /\ job # Nil /\ rs \subseteq Prunable /\ outbox' = outbox \ rs /\ job' = job
      BY <1>5 DEF DeleteBatch
    <2>2. /\ rs \subseteq marked
          /\ \A r \in rs : \E s \in outbox : s > r
      BY <2>1 DEF Prunable, StoreInv, OutboxInv
    <2>3. OutboxInv'
      BY <1>1, <2>1, <2>2 DEF StoreInv, OutboxInv, RevisionsInv
    <2> QED
      BY <1>2, <1>3, <2>3 DEF StoreInv
  <1>6. CASE EndRetention
    BY <1>1, <1>2, <1>3, <1>6 DEF EndRetention, StoreInv, OutboxInv, tables
  <1> QED
    BY <1>4, <1>5, <1>6 DEF Retention

(* StoreInvStep: every step keeps the invariant.                           *)
LEMMA StoreInvStep == StoreInv /\ [StoreNext]_storeVars => StoreInv'
  <1> SUFFICES ASSUME StoreInv, [StoreNext]_storeVars PROVE StoreInv'
    OBVIOUS
  <1>1. CASE UNCHANGED storeVars
    <2>1. RowsInv' /\ RevisionsInv' /\ LockInv'
      BY <1>1, TransactionsKept DEF storeVars, tables
    <2>2. OutboxInv' /\ PagesInv'
      BY <1>1 DEF StoreInv, OutboxInv, PagesInv, NextRow, storeVars, tables, dispatchVars
    <2> QED
      BY <2>1, <2>2 DEF StoreInv
  <1>2. ASSUME NEW w \in Writers, Request(w) \/ Transact(w) \/ Abort(w) \/ Load(w)
        PROVE  StoreInv'
    BY <1>2, RequestKeeps, LocksKeep, CloseKeeps DEF Transact
  <1> QED
    BY <1>1, <1>2, DispatchKeeps, RetentionKeeps DEF StoreNext

-----------------------------------------------------------------------------
(* The refinement *)

(* InitRefines: the empty database is the empty store.                     *)
LEMMA InitRefines == StoreInit => L!CPLogInit
  <1> SUFFICES ASSUME StoreInit PROVE L!CPLogInit
    OBVIOUS
  <1>1. Cardinality(auditRows) = 0
    BY FS_EmptySet DEF StoreInit
  <1>2. Chain = <<>>
    BY <1>1 DEF Chain
  <1> QED
    BY <1>2 DEF StoreInit, L!CPLogInit, Chain, EntryAt

(* CloseRefines: the end of a transaction is a commit of the one-step      *)
(* store, or an entry of its own; what came before it is a stutter.        *)
LEMMA CloseRefines ==
    ASSUME StoreInv, NEW w \in Writers, Close(w)
    PROVE  L!CPLogNext
  <1> DEFINE t == txn[w]
  <1>1. /\ revision' = IF t.commits THEN t.revision ELSE revision
        /\ outbox' = outbox \cup RowsOf(t)
        /\ marked' = marked
    BY DEF Close
  <1>2. /\ t \in Txn \ {Nil}
        /\ Chain' = L!Extended(Chain, t.revision)
        /\ t.commits => t.revision = revision + 1
        /\ ~t.commits => t.revision \in 0 .. revision
    BY CloseAppends DEF L!Extended
  <1>3. CASE t.commits
    <2>1. /\ revision' = revision + 1 /\ Chain' = L!Extended(Chain, revision + 1)
          /\ outbox' = outbox \cup {revision + 1}
      BY <1>1, <1>2, <1>3 DEF RowsOf
    <2>2. L!Commit
      BY <1>1, <2>1 DEF L!Commit, Chain, EntryAt
    <2> QED
      BY <2>2 DEF L!CPLogNext
  <1>4. CASE ~t.commits
    <2>1. PICK r \in 0 .. revision : r = t.revision
      BY <1>2, <1>4
    <2>2. /\ revision' = revision /\ outbox' = outbox
          /\ Chain' = L!Extended(Chain, r)
      BY <1>1, <1>2, <1>4, <2>1 DEF RowsOf
    <2>3. L!AppendAudit(r)
      BY <1>1, <2>2 DEF L!AppendAudit, Chain, EntryAt
    <2> QED
      BY <2>3 DEF L!CPLogNext
  <1> QED
    BY <1>3, <1>4

(* MarkRefines: a row marked by two dispatchers is marked once.            *)
LEMMA MarkRefines ==
    ASSUME StoreInv, NEW d \in Dispatchers, Mark(d), Chain' = Chain
    PROVE  [L!CPLogNext]_(L!cpLogVars)
  <1>1. /\ marked' = marked \cup {NextRow(d)} /\ page[d] # {}
        /\ UNCHANGED <<revision, outbox>>
    BY DEF Mark
  <1>2. NextRow(d) \in 1 .. revision
    <2>1. page[d] \subseteq 1 .. revision /\ page[d] \in SUBSET Nat
      BY DEF StoreInv, PagesInv, RevisionsInv
    <2> QED
      BY <1>1, <2>1, MinInside DEF NextRow
  <1>3. CASE NextRow(d) \in marked
    BY <1>1, <1>3 DEF L!cpLogVars, Chain, EntryAt
  <1>4. CASE NextRow(d) \notin marked
    <2>1. NextRow(d) \in outbox \ marked
      BY <1>2, <1>4 DEF StoreInv, OutboxInv
    <2>2. L!MarkPublished(NextRow(d))
      BY <1>1, <2>1 DEF L!MarkPublished, Chain, EntryAt
    <2> QED
      BY <2>1, <2>2 DEF L!CPLogNext
  <1> QED
    BY <1>3, <1>4

(* PruneRefines: a batch of the retention job is a pruning of the store.   *)
LEMMA PruneRefines ==
    ASSUME StoreInv, NEW rs \in SUBSET outbox, DeleteBatch(rs), Chain' = Chain
    PROVE  L!CPLogNext
  <1>1. /\ job # Nil /\ rs \subseteq Prunable /\ outbox' = outbox \ rs
        /\ UNCHANGED <<revision, marked>>
    BY DEF DeleteBatch
  <1>2. /\ rs \subseteq outbox \cap marked
        /\ \A r \in rs : \E s \in outbox : s > r
        /\ outbox \ outbox' = rs
    BY <1>1 DEF Prunable, StoreInv, OutboxInv
  <1>3. L!Prune(outbox \ outbox')
    BY <1>1, <1>2 DEF L!Prune, Chain, EntryAt
  <1> QED
    BY <1>3 DEF L!CPLogNext

(* TableSteps: which steps change a table.                                 *)
LEMMA TableSteps ==
    ASSUME [StoreNext]_storeVars
    PROVE  \/ UNCHANGED tables /\ notified \subseteq notified'
           \/ \E w \in Writers : Close(w)
           \/ \E d \in Dispatchers : Mark(d)
           \/ \E rs \in SUBSET outbox : DeleteBatch(rs)
  BY DEF StoreNext, Request, BeginCommit, BeginAudit, Transact, CasState, Conflict,
         AppendAudit, Abort, Load, Dispatch, ListOutbox, Announce, AnnounceFails, Forget,
         Retention, StartRetention, EndRetention, storeVars, dispatchVars

(* StepRefines: every step of the tables is a step of the one-step store,  *)
(* or leaves it alone.                                                     *)
LEMMA StepRefines ==
    StoreInv /\ [StoreNext]_storeVars => [L!CPLogNext]_(L!cpLogVars)
  <1> SUFFICES ASSUME StoreInv, [StoreNext]_storeVars
               PROVE  [L!CPLogNext]_(L!cpLogVars)
    OBVIOUS
  <1>1. CASE UNCHANGED tables
    <2>1. Chain' = Chain
      BY <1>1, ChainKept DEF StoreInv, tables
    <2> QED
      BY <1>1, <2>1 DEF L!cpLogVars, Chain, EntryAt, tables
  <1>2. ASSUME NEW w \in Writers, Close(w) PROVE L!CPLogNext
    BY <1>2, CloseRefines
  <1>3. ASSUME NEW d \in Dispatchers, Mark(d) PROVE [L!CPLogNext]_(L!cpLogVars)
    <2>1. UNCHANGED <<auditRows, auditHead>>
      BY <1>3 DEF Mark
    <2> QED
      BY <1>3, <2>1, ChainKept, MarkRefines DEF StoreInv
  <1>4. ASSUME NEW rs \in SUBSET outbox, DeleteBatch(rs) PROVE L!CPLogNext
    <2>1. UNCHANGED <<auditRows, auditHead>>
      BY <1>4 DEF DeleteBatch
    <2> QED
      BY <1>4, <2>1, ChainKept, PruneRefines DEF StoreInv
  <1>5. \/ UNCHANGED tables
        \/ \E w \in Writers : Close(w)
        \/ \E d \in Dispatchers : Mark(d)
        \/ \E rs \in SUBSET outbox : DeleteBatch(rs)
    BY TableSteps
  <1> QED
    BY <1>1, <1>2, <1>3, <1>4, <1>5

-----------------------------------------------------------------------------
(* What the store promises *)

(* AccountedStep: a revision keeps its audit entry, and its notification   *)
(* until that is published.                                                *)
LEMMA AccountedStep ==
    ASSUME StoreInv, RevisionAccounted, StoreInv', [StoreNext]_storeVars
    PROVE  RevisionAccounted'
  <1> DEFINE Has(chain, r) == \E n \in 1 .. Len(chain) :
                                 /\ chain[n].revision = r
                                 /\ \A m \in 1 .. n - 1 : chain[m].revision < r
  <1>1. \A r \in 1 .. revision : Has(Chain, r)
    BY DEF RevisionAccounted, L!RevisionAccounted, Chain, EntryAt
  <1>2. /\ Chain \in Seq(auditRows) /\ Len(Chain) \in Nat
        /\ \A n \in 1 .. Len(Chain) : Chain[n].revision \in 0 .. revision
        /\ revision \in Nat
    BY ChainOf DEF StoreInv, RevisionsInv
  <1>3. \A r \in 1 .. revision' : Has(Chain', r)
    <2>1. CASE UNCHANGED <<revision, auditRows, auditHead>>
      BY <1>1, <2>1, ChainKept DEF StoreInv
    <2>2. ASSUME NEW w \in Writers, Close(w)
          PROVE  \A r \in 1 .. revision' : Has(Chain', r)
      <3>1. /\ txn[w].commits => txn[w].revision = revision + 1
            /\ revision' = IF txn[w].commits THEN txn[w].revision ELSE revision
        BY <2>2, CloseAppends DEF Close
      <3>2. PICK e : Chain' = Append(Chain, e) /\ e.revision = txn[w].revision
        BY <2>2, CloseAppends
      <3>3. /\ Len(Chain') = Len(Chain) + 1 /\ Chain'[Len(Chain) + 1] = e
            /\ \A n \in 1 .. Len(Chain) : Chain'[n] = Chain[n]
        <4>1. Chain \in Seq(auditRows \cup {e})
          BY <1>2, SeqMonotonic
        <4> QED
          BY <3>2, <4>1, AppendProperties
      <3>4. ASSUME NEW r \in 1 .. revision PROVE Has(Chain', r)
        <4>1. PICK n \in 1 .. Len(Chain) :
                 /\ Chain[n].revision = r
                 /\ \A m \in 1 .. n - 1 : Chain[m].revision < r
          BY <1>1
        <4>2. \A m \in 1 .. n - 1 : m \in 1 .. Len(Chain)
          BY <1>2
        <4> QED
          BY <1>2, <3>3, <4>1, <4>2
      <3>5. CASE txn[w].commits
        <4>1. Has(Chain', revision + 1)
          BY <1>2, <3>1, <3>2, <3>3, <3>5
        <4>2. \A r \in 1 .. revision' : r \in 1 .. revision \/ r = revision + 1
          BY <1>2, <3>1, <3>5
        <4> HIDE DEF Has
        <4> QED
          BY <3>4, <4>1, <4>2
      <3>6. CASE ~txn[w].commits
        BY <3>1, <3>4, <3>6
      <3> QED
        BY <3>5, <3>6
    <2>3. UNCHANGED <<revision, auditRows, auditHead>> \/ \E w \in Writers : Close(w)
      BY TableSteps DEF Mark, DeleteBatch, tables
    <2> QED
      BY <2>1, <2>2, <2>3
  <1>4. /\ \A r \in 1 .. revision' : r \in outbox' \/ r \in marked'
        /\ revision' > 0 => revision' \in outbox'
    BY DEF StoreInv, OutboxInv
  <1> QED
    BY <1>3, <1>4 DEF RevisionAccounted, L!RevisionAccounted, Chain, EntryAt

(* AnnouncedStep: a row is marked after its notification.                  *)
LEMMA AnnouncedStep ==
    ASSUME StoreInv, PublishedAnnounced, [StoreNext]_storeVars
    PROVE  PublishedAnnounced'
  <1>1. \/ marked' = marked /\ notified \subseteq notified'
        \/ \E d \in Dispatchers : Mark(d)
    BY TableSteps DEF Close, DeleteBatch, tables, dispatchVars
  <1>2. ASSUME NEW d \in Dispatchers, Mark(d) PROVE PublishedAnnounced'
    BY <1>2 DEF Mark, Markable, PublishedAnnounced, StoreInv, PagesInv
  <1> QED
    BY <1>1, <1>2 DEF PublishedAnnounced

(* TipBefore: what the n-th entry of a chain must refer to.                *)
LEMMA TipBefore ==
    ASSUME NEW S, NEW chain \in Seq(S), NEW n \in 1 .. Len(chain)
    PROVE  L!Tip(SubSeq(chain, 1, n - 1))
               = IF n = 1 THEN L!ZeroHash ELSE L!Hash(chain[n - 1])
  <1>1. Len(chain) \in Nat
    BY LenProperties
  <1>2. CASE n = 1
    <2>1. SubSeq(chain, 1, n - 1) = <<>>
      BY <1>1, <1>2, SubSeqEmpty
    <2> QED
      BY <1>2, <2>1 DEF L!Tip
  <1>3. CASE n # 1
    <2> DEFINE before == SubSeq(chain, 1, n - 1)
    <2>1. Len(before) = n - 1 /\ before[n - 1] = chain[n - 1] /\ before # <<>>
      <3>1. 1 \in Int /\ n - 1 \in Int /\ \A i \in 1 .. n - 1 : chain[i] \in S
        BY <1>1, ElementOfSeq
      <3>2. /\ Len(before) = IF 1 <= n - 1 THEN (n - 1) - 1 + 1 ELSE 0
            /\ \A i \in 1 .. (n - 1) - 1 + 1 : before[i] = chain[1 + i - 1]
        BY <1>1, <1>3, <3>1, SubSeqProperties
      <3>3. Len(before) = n - 1 /\ n - 1 \in 1 .. (n - 1) - 1 + 1 /\ 1 + (n - 1) - 1 = n - 1
        BY <1>1, <1>3, <3>2
      <3> QED
        BY <1>1, <1>3, <3>2, <3>3, EmptySeq
    <2> HIDE DEF before
    <2>2. L!Tip(before) = L!Hash(chain[n - 1])
      BY <2>1 DEF L!Tip
    <2> QED
      BY <1>3, <2>2 DEF before
  <1> QED
    BY <1>2, <1>3

(* ChainLinked: every entry refers to the one before it.                   *)
ChainLinked ==
    \A n \in 1 .. Len(Chain) :
        /\ Chain[n].sequence = n
        /\ Chain[n].previous = IF n = 1 THEN L!ZeroHash ELSE L!Hash(Chain[n - 1])

(* LinkedStep: the entry a transaction inserts refers to the head it read, *)
(* which nobody has replaced since.                                        *)
LEMMA LinkedStep ==
    ASSUME StoreInv, ChainLinked, [StoreNext]_storeVars
    PROVE  ChainLinked'
  <1>1. CASE UNCHANGED <<auditRows, auditHead>>
    BY <1>1, ChainKept DEF StoreInv, ChainLinked
  <1>2. ASSUME NEW w \in Writers, Close(w) PROVE ChainLinked'
    <2> DEFINE e == L!Material(Len(Chain) + 1, txn[w].revision, L!Tip(Chain))
    <2>1. /\ Chain' = Append(Chain, e)
          /\ e.sequence = Len(Chain) + 1 /\ e.previous = L!Tip(Chain)
      <3>1. Chain' = Append(Chain, e)
        BY <1>2, CloseAppends
      <3> QED
        BY <3>1 DEF L!Material
    <2> HIDE DEF e
    <2>2. Chain \in Seq(auditRows \cup {e}) /\ Len(Chain) \in Nat
      BY ChainOf, SeqMonotonic DEF StoreInv
    <2>3. /\ Len(Chain') = Len(Chain) + 1 /\ Chain'[Len(Chain) + 1] = e
          /\ \A n \in 1 .. Len(Chain) : Chain'[n] = Chain[n]
      BY <2>1, <2>2, AppendProperties
    <2>4. L!Tip(Chain) = IF Len(Chain) = 0 THEN L!ZeroHash ELSE L!Hash(Chain[Len(Chain)])
      BY <2>2, EmptySeq DEF L!Tip
    <2>5. ASSUME NEW n \in 1 .. Len(Chain) + 1
          PROVE  /\ Chain'[n].sequence = n
                 /\ Chain'[n].previous
                        = IF n = 1 THEN L!ZeroHash ELSE L!Hash(Chain'[n - 1])
      <3>1. CASE n \in 1 .. Len(Chain)
        <4>1. n # 1 => n - 1 \in 1 .. Len(Chain)
          BY <2>2, <3>1
        <4> QED
          BY <2>3, <3>1, <4>1 DEF ChainLinked
      <3>2. CASE n = Len(Chain) + 1
        <4>1. n # 1 => Len(Chain) \in 1 .. Len(Chain) /\ n - 1 = Len(Chain) /\ Len(Chain) # 0
          BY <2>2, <3>2
        <4> QED
          BY <2>1, <2>2, <2>3, <2>4, <3>2, <4>1
      <3> QED
        BY <2>2, <3>1, <3>2
    <2> QED
      BY <2>3, <2>5 DEF ChainLinked
  <1>3. UNCHANGED <<auditRows, auditHead>> \/ \E w \in Writers : Close(w)
    BY TableSteps DEF Mark, DeleteBatch, tables
  <1> QED
    BY <1>1, <1>2, <1>3

(* StoreStep: the invariant and what follows from it, together.            *)
LEMMA StoreStep ==
    StoreSpec => [](StoreInv /\ RevisionAccounted /\ PublishedAnnounced /\ ChainLinked)
  <1>1. StoreInit => RevisionAccounted /\ PublishedAnnounced
    BY DEF StoreInit, RevisionAccounted, L!RevisionAccounted, PublishedAnnounced
  <1>2. StoreInit => ChainLinked
    <2> SUFFICES ASSUME StoreInit PROVE Len(Chain) = 0
      BY DEF ChainLinked
    <2> QED
      BY StoreInvInit, ChainOf, FS_EmptySet DEF StoreInit, StoreInv
  <1>3. /\ StoreInv /\ RevisionAccounted /\ PublishedAnnounced /\ ChainLinked
        /\ StoreInv' /\ [StoreNext]_storeVars
        => RevisionAccounted' /\ PublishedAnnounced' /\ ChainLinked'
    BY AccountedStep, AnnouncedStep, LinkedStep
  <1> QED
    BY <1>1, <1>2, <1>3, StoreInvInit, StoreInvStep, PTL DEF StoreSpec

(* RevisionsCorrect: for any number of writers and dispatchers, whatever   *)
(* conflicts, aborts and lost answers come, every committed revision has   *)
(* its audit entry, in order, and its notification, and retention deletes  *)
(* neither an unpublished row nor the newest (commit,                      *)
(* mark_outbox_published, and the batches of outbox_retention.py).         *)
THEOREM RevisionsCorrect == StoreSpec => []RevisionAccounted
  BY StoreStep, PTL

(* AnnouncedCorrect: a row counts as published only when its notification  *)
(* was sent, with any number of dispatchers on the same rows               *)
(* (dispatch_control_plane_outbox_once).                                   *)
THEOREM AnnouncedCorrect == StoreSpec => []PublishedAnnounced
  BY StoreStep, PTL

(* ChainCorrect: the audit chain verifies at all times: no two entries     *)
(* have one sequence, none is missing, and each carries the hash of the    *)
(* one before it (_append_audit_event, verify_audit_chain).                *)
THEOREM ChainCorrect == StoreSpec => []L!Verified(Chain)
  <1>1. StoreInv /\ ChainLinked => L!Verified(Chain)
    <2> SUFFICES ASSUME StoreInv, ChainLinked, NEW n \in 1 .. Len(Chain)
                 PROVE  /\ Chain[n].sequence = n
                        /\ Chain[n].previous = L!Tip(SubSeq(Chain, 1, n - 1))
      BY DEF L!Verified
    <2>1. Chain \in Seq(auditRows)
      BY ChainOf DEF StoreInv
    <2> QED
      BY <2>1, TipBefore DEF ChainLinked
  <1> QED
    BY <1>1, StoreStep, PTL

(* RefinementCorrect: the transactions behave like the one-step store of   *)
(* the unit tests (in_memory_store.py), for any number of replicas.        *)
THEOREM RefinementCorrect == StoreSpec => Implements
  BY InitRefines, StepRefines, StoreInvInit, StoreInvStep, PTL
     DEF StoreSpec, Implements, L!CPLogSpec
=============================================================================
