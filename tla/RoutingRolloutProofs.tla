------------------------ MODULE RoutingRolloutProofs ------------------------
(***************************************************************************)
(* A routing rollout, for any collection, replicas and number of handlers  *)
(* at once.                                                                *)
(*                                                                         *)
(* First its record, for any policies and every lapse but "stranded": a    *)
(* step raises its version by one or leaves it alone, its source barrier   *)
(* stays what it was, and neither copy nor repair goes back.               *)
(*                                                                         *)
(* Then where the documents are, for a collection that moves as a whole    *)
(* from one cluster to another, without a lapse: nothing is hidden, and    *)
(* the evidence is still true at the cutover.  The placements of the       *)
(* policies in Live hold the newest mutation of each document or are going *)
(* to get it, and nothing older comes after it (Covered); while evidence   *)
(* is gathered, whatever follows the source barrier goes to both           *)
(* placements (Dual); and a runtime is at most one phase behind (Lags).    *)
(***************************************************************************)
EXTENDS RoutingRollout, FiniteSetTheorems, SequenceTheorems, WellFoundedInduction, TLAPS

(* DocsNumbered: the documents are the numbers up to some number.          *)
LEMMA DocsNumbered == \E n \in Nat : Docs = 1 .. n
  BY DocsAssumption, FS_CardinalityType

\* The fields of a record, and their types.
Rollouts ==
    [id : Int, phase : DOMAIN Allowed, ver : Int, from : {"old", "new"}, to : {"old", "new"},
     barrier : Int, last : {0} \cup Docs, raw : BOOLEAN, through : Int, cursor : Int,
     repaired : BOOLEAN, complete : BOOLEAN, parity : BOOLEAN]

\* Repair goes from the barrier to the end of the log as it was after the copy.
RolloutOK(v) ==
    /\ v \in Rollouts
    /\ Unset <= v.barrier /\ v.barrier <= Len(log)
    /\ IF v.raw THEN v.cursor <= v.through ELSE v.cursor = Unset

\* v is u, perhaps with its source barrier.
Drawn(u, v) ==
    /\ v = [u EXCEPT !.barrier = v.barrier]
    /\ u.barrier # Unset => v.barrier = u.barrier

\* v may be committed after u.
Succeeds(u, v) ==
    /\ v.ver = u.ver + 1
    /\ v.id = u.id =>
          /\ u.barrier # Unset => v.barrier = u.barrier
          /\ v.last >= u.last /\ v.cursor >= u.cursor
          /\ u.raw => v.raw /\ v.through = u.through

\* What a handler has worked out so far.
StepOK(j) ==
    /\ j.step \in {"export", "window"} => DOMAIN j = {"at", "step", "exp", "rec"}
    /\ j.step \in {"export", "import"} => ~j.rec.raw
    /\ j.step \in {"window", "repair"} => j.rec.raw
    /\ j.step = "import" => "sel" \in DOMAIN j /\ j.sel \subseteq Docs
    /\ j.step \in {"lag", "dlq", "pending"} => "goal" \in DOMAIN j /\ j.goal \in DOMAIN Allowed
    /\ j.step = "repair" =>
          /\ "page" \in DOMAIN j
          /\ \A p \in j.page : p \in 1 .. Len(log) /\ j.rec.cursor < p /\ p <= j.rec.through

\* A handler began at a revision of the past; while that is still the
\* committed one, what it has worked out may follow the record.
JobOK(j) ==
    /\ {"at", "step", "exp", "rec"} \subseteq DOMAIN j
    /\ j.at \in Replicas /\ j.exp \in Int /\ j.exp <= rev
    /\ RolloutOK(j.rec) /\ StepOK(j)
    /\ j.exp = rev => IF j.step = "commit" THEN Succeeds(rec, j.rec) ELSE Drawn(rec, j.rec)

\* A runtime has a record of the past, and of each version the one committed.
ViewOK(v) == RolloutOK(v) /\ v.ver <= rec.ver /\ (v.ver = rec.ver => v = rec)

\* A replica whose revision is the committed one has the committed record.
\* That is what no replica is stranded for.
RevisionOK ==
    /\ "stranded" \notin Lapses
    /\ rev \in Int
    /\ cur \in [Replicas -> Int]
    /\ \A r \in Replicas : cur[r] <= rev /\ (cur[r] = rev => view[r] = rec)

\* The inductive invariant.
RolloutInv ==
    /\ RevisionOK
    /\ log \in Seq(Range(log))
    /\ RolloutOK(rec)
    /\ view \in [Replicas -> {view[r] : r \in Replicas}]
    /\ \A r \in Replicas : ViewOK(view[r])
    /\ job \in [Operators -> {job[o] : o \in Operators}]
    /\ \A o \in Operators : job[o] # Nil => JobOK(job[o])

-----------------------------------------------------------------------------

(* Greatest: a set of numbers below a bound has its maximum.               *)
LEMMA Greatest ==
    ASSUME NEW N \in Nat, NEW S \in SUBSET (0 .. N), S # {}
    PROVE  Max(S) \in S /\ \A n \in S : n <= Max(S)
  <1> DEFINE Above == {p \in Nat \X Nat : p[1] < p[2]}
             Room == {N - n : n \in S}
  <1>1. IsWellFoundedOn(Above, Nat)
    BY NatLessThanWellFounded DEF OpToRel
  <1>2. Room \subseteq Nat /\ Room # {}
    <2>1. ASSUME NEW n \in S PROVE N - n \in Nat
      BY <2>1
    <2>2. PICK n \in S : TRUE
      OBVIOUS
    <2> QED
      BY <2>1, <2>2
  <1>3. PICK r \in Room : \A m \in Room : <<m, r>> \notin Above
    <2> HIDE DEF Above, Room
    <2> QED
      BY <1>1, <1>2, WFMin
  <1>4. PICK g \in S : r = N - g
    OBVIOUS
  <1>5. ASSUME NEW n \in S PROVE n <= g
    <2>1. N - n \in Room /\ N - n \in Nat /\ r \in Nat
      BY <1>2, <1>3
    <2>2. <<N - n, r>> \in Nat \X Nat /\ <<N - n, r>>[1] = N - n /\ <<N - n, r>>[2] = r
      BY <2>1
    <2>3. ~ (N - n < r)
      BY <1>3, <2>1, <2>2
    <2> QED
      BY <1>4, <2>1, <2>3
  <1>6. \E x \in S : \A y \in S : x >= y
    BY <1>5
  <1>7. Max(S) \in S /\ \A y \in S : Max(S) >= y
    BY <1>6 DEF Max
  <1> QED
    BY <1>7

(* Joined: the fields of a job that has worked more out.                   *)
LEMMA Joined ==
    ASSUME NEW j, NEW more
    PROVE  /\ DOMAIN With(j, more) = DOMAIN j \cup DOMAIN more
           /\ \A x \in DOMAIN j : With(j, more)[x] = j[x]
           /\ \A x \in DOMAIN more \ DOMAIN j : With(j, more)[x] = more[x]
  BY DEF With

-----------------------------------------------------------------------------
(* The operations on a record *)

\* The names of the fields.
FieldNames == {"id", "phase", "ver", "from", "to", "barrier", "last", "raw",
           "through", "cursor", "repaired", "complete", "parity"}

(* Fields: what a rollout record is made of.                               *)
LEMMA Fields ==
    ASSUME NEW v \in Rollouts
    PROVE  /\ v.id \in Int /\ v.phase \in DOMAIN Allowed /\ v.ver \in Int
           /\ v.from \in {"old", "new"} /\ v.to \in {"old", "new"}
           /\ v.barrier \in Int /\ v.last \in {0} \cup Docs /\ v.raw \in BOOLEAN
           /\ v.through \in Int /\ v.cursor \in Int /\ v.repaired \in BOOLEAN
           /\ v.complete \in BOOLEAN /\ v.parity \in BOOLEAN
           /\ DOMAIN v = FieldNames
  BY DEF Rollouts, FieldNames

(* IsRollout: fields of the right types make a rollout record.             *)
LEMMA IsRollout ==
    ASSUME NEW w, w = [x \in DOMAIN w |-> w[x]], DOMAIN w = FieldNames,
           w.id \in Int, w.phase \in DOMAIN Allowed, w.ver \in Int,
           w.from \in {"old", "new"}, w.to \in {"old", "new"},
           w.barrier \in Int, w.last \in {0} \cup Docs, w.raw \in BOOLEAN,
           w.through \in Int, w.cursor \in Int, w.repaired \in BOOLEAN,
           w.complete \in BOOLEAN, w.parity \in BOOLEAN
    PROVE  w \in Rollouts
  <1>1. w = [id |-> w.id, phase |-> w.phase, ver |-> w.ver, from |-> w.from, to |-> w.to,
             barrier |-> w.barrier, last |-> w.last, raw |-> w.raw, through |-> w.through,
             cursor |-> w.cursor, repaired |-> w.repaired, complete |-> w.complete,
             parity |-> w.parity]
    BY DEF FieldNames
  <1> QED
    BY <1>1 DEF Rollouts

\* The fields that progress is about.
Same(v, w) ==
    /\ w.id = v.id /\ w.barrier = v.barrier /\ w.last = v.last
    /\ w.raw = v.raw /\ w.through = v.through /\ w.cursor = v.cursor

(* SameSucceeds: a step that keeps these fields succeeds the record it has *)
(* read.                                                                   *)
LEMMA SameSucceeds ==
    ASSUME NEW u, NEW v, NEW w, RolloutOK(u), RolloutOK(v), Drawn(u, v), w \in Rollouts,
           Same(v, w), w.ver = v.ver + 1
    PROVE  RolloutOK(w) /\ Succeeds(u, w)
  <1>1. RolloutOK(w)
    BY DEF RolloutOK, Same
  <1>2. /\ v.last = u.last /\ v.cursor = u.cursor /\ v.raw = u.raw /\ v.through = u.through
        /\ v.ver = u.ver
    BY DEF RolloutOK, Rollouts, Drawn
  <1>3. u.last \in Int /\ u.cursor \in Int
    BY DocsNumbered DEF RolloutOK, Rollouts
  <1> QED
    BY <1>1, <1>2, <1>3 DEF Succeeds, Same, Drawn

(* DraftSucceeds: a new rollout has an id of its own.                      *)
LEMMA DraftSucceeds ==
    ASSUME NEW v, RolloutOK(v), Len(log) \in Nat
    PROVE  RolloutOK(Draft(v)) /\ Succeeds(v, Draft(v))
  <1>1. /\ Draft(v).id = v.id + 1 /\ Draft(v).ver = v.ver + 1
        /\ Draft(v).barrier = Unset /\ Draft(v).cursor = Unset /\ ~Draft(v).raw
    BY DEF Draft
  <1>2. v.id \in Int /\ v.ver \in Int /\ v.from \in {"old", "new"} /\ v.to \in {"old", "new"}
    BY DEF RolloutOK, Rollouts
  <1>3. Draft(v) \in Rollouts
    BY <1>2 DEF Draft, Rollouts, Unset, Allowed
  <1> QED
    BY <1>1, <1>2, <1>3 DEF RolloutOK, Succeeds, Unset

(* Moves: a transition changes the phase alone, a step without a copy or a *)
(* repair and a verification what is known of the evidence.                *)
LEMMA Moves ==
    ASSUME NEW v \in Rollouts
    PROVE  /\ \A goal \in DOMAIN Allowed :
                  /\ Moved(v, goal) \in Rollouts
                  /\ Same(v, Moved(v, goal)) /\ Moved(v, goal).ver = v.ver + 1
           /\ Backfilled(v) \in Rollouts
           /\ Same(v, Backfilled(v)) /\ Backfilled(v).ver = v.ver + 1
           /\ \A passed \in BOOLEAN :
                  /\ Verified(v, passed) \in Rollouts
                  /\ Same(v, Verified(v, passed)) /\ Verified(v, passed).ver = v.ver + 1
  <1>1. ASSUME NEW goal \in DOMAIN Allowed
        PROVE  /\ Moved(v, goal) \in Rollouts
               /\ Same(v, Moved(v, goal)) /\ Moved(v, goal).ver = v.ver + 1
    <2> DEFINE w == Moved(v, goal)
    <2>1. DOMAIN w = FieldNames /\ w = [x \in DOMAIN w |-> w[x]]
      BY Fields DEF Moved
    <2>2. /\ w.id = v.id /\ w.phase = goal /\ w.ver = v.ver + 1 /\ w.from = v.from /\ w.to = v.to
          /\ w.barrier = v.barrier /\ w.last = v.last /\ w.raw = v.raw /\ w.through = v.through
          /\ w.cursor = v.cursor /\ w.repaired = v.repaired /\ w.complete = v.complete
          /\ w.parity = v.parity
      BY Fields DEF Moved, FieldNames
    <2> HIDE DEF w
    <2>3. w \in Rollouts /\ Same(v, w) /\ w.ver = v.ver + 1
      BY <2>1, <2>2, Fields, IsRollout DEF Same
    <2> QED
      BY <2>3 DEF w
  <1>2. /\ Backfilled(v) \in Rollouts
        /\ Same(v, Backfilled(v)) /\ Backfilled(v).ver = v.ver + 1
    <2> DEFINE w == Backfilled(v)
    <2>1. DOMAIN w = FieldNames /\ w = [x \in DOMAIN w |-> w[x]]
      BY Fields DEF Backfilled
    <2>2. /\ w.id = v.id /\ w.phase = v.phase /\ w.ver = v.ver + 1 /\ w.from = v.from /\ w.to = v.to
          /\ w.barrier = v.barrier /\ w.last = v.last /\ w.raw = v.raw /\ w.through = v.through
          /\ w.cursor = v.cursor /\ w.repaired = v.repaired /\ w.complete = (v.raw /\ v.repaired)
          /\ w.parity = FALSE
      BY Fields DEF Backfilled, FieldNames
    <2> HIDE DEF w
    <2>4. w.complete \in BOOLEAN /\ w.parity \in BOOLEAN
      BY <2>2, Zenon
    <2>3. w \in Rollouts /\ Same(v, w) /\ w.ver = v.ver + 1
      BY <2>1, <2>2, <2>4, Fields, IsRollout DEF Same
    <2> QED
      BY <2>3 DEF w
  <1>3. ASSUME NEW passed \in BOOLEAN
        PROVE  /\ Verified(v, passed) \in Rollouts
               /\ Same(v, Verified(v, passed)) /\ Verified(v, passed).ver = v.ver + 1
    <2> DEFINE w == Verified(v, passed)
    <2>1. DOMAIN w = FieldNames /\ w = [x \in DOMAIN w |-> w[x]]
      BY Fields DEF Verified
    <2>2. /\ w.id = v.id /\ w.phase = v.phase /\ w.ver = v.ver + 1 /\ w.from = v.from /\ w.to = v.to
          /\ w.barrier = v.barrier /\ w.last = v.last /\ w.raw = v.raw /\ w.through = v.through
          /\ w.cursor = v.cursor /\ w.repaired = v.repaired /\ w.complete = v.complete
          /\ w.parity = passed
      BY Fields DEF Verified, FieldNames
    <2> HIDE DEF w
    <2>3. w \in Rollouts /\ Same(v, w) /\ w.ver = v.ver + 1
      BY <2>1, <2>2, Fields, IsRollout DEF Same
    <2> QED
      BY <2>3 DEF w
  <1> QED
    BY <1>1, <1>2, <1>3

(* CopiedSucceeds: the copy goes on, and at its end repair begins at the   *)
(* barrier.                                                                *)
LEMMA CopiedSucceeds ==
    ASSUME NEW v, RolloutOK(v), ~v.raw, Len(log) \in Nat,
           NEW last \in {0} \cup Docs, last >= v.last, NEW all
    PROVE  LET w == Backfilled(Copied(v, last, all))
           IN  RolloutOK(w) /\ \A u : RolloutOK(u) /\ Drawn(u, v) => Succeeds(u, w)
  <1> DEFINE c == Copied(v, last, all)
             w == Backfilled(c)
  <1>0. v \in Rollouts /\ v.cursor = Unset /\ Unset <= v.barrier /\ v.barrier <= Len(log)
    BY DEF RolloutOK
  <1>1. DOMAIN c = FieldNames /\ c = [x \in DOMAIN c |-> c[x]]
    BY <1>0, Fields DEF Copied
  <1>2. /\ c.id = v.id /\ c.phase = v.phase /\ c.ver = v.ver /\ c.from = v.from /\ c.to = v.to
        /\ c.barrier = v.barrier /\ c.last = last /\ c.complete = v.complete /\ c.parity = v.parity
        /\ IF all THEN /\ c.raw = TRUE /\ c.through = Len(log) /\ c.cursor = v.barrier
                       /\ c.repaired = (v.barrier >= Len(log))
                  ELSE /\ c.raw = v.raw /\ c.through = v.through /\ c.cursor = v.cursor
                       /\ c.repaired = v.repaired
    BY <1>0, Fields DEF Copied, FieldNames
  <1> HIDE DEF c
  <1>3. c \in Rollouts
    <2>1. c.through \in Int /\ c.cursor \in Int
      BY <1>0, <1>2, Fields
    <2>2. v.raw \in BOOLEAN /\ v.repaired \in BOOLEAN
      BY <1>0, Fields
    <2>3. (v.barrier >= Len(log)) \in BOOLEAN
      BY <1>0, Fields
    <2>4. c.raw \in BOOLEAN /\ c.repaired \in BOOLEAN
      <3>1. CASE all
        <4>1. c.raw = TRUE /\ c.repaired = (v.barrier >= Len(log))
          BY <1>2, <3>1
        <4> QED
          BY <2>3, <4>1, Zenon
      <3>2. CASE ~all
        <4>1. c.raw = v.raw /\ c.repaired = v.repaired
          BY <1>2, <3>2
        <4> QED
          BY <2>2, <4>1
      <3> QED
        BY <3>1, <3>2
    <2> QED
      BY <1>0, <1>1, <1>2, <2>1, <2>4, Fields, IsRollout
  <1>4. RolloutOK(c)
    BY <1>0, <1>2, <1>3 DEF RolloutOK
  <1>5. w \in Rollouts /\ Same(c, w) /\ w.ver = c.ver + 1
    BY <1>3, Moves
  <1> HIDE DEF w
  <1>6. RolloutOK(w)
    BY <1>4, <1>5 DEF RolloutOK, Same
  <1>7. ASSUME NEW u, RolloutOK(u), Drawn(u, v) PROVE Succeeds(u, w)
    <2>1. /\ v.last = u.last /\ v.cursor = u.cursor /\ v.raw = u.raw /\ v.ver = u.ver
      BY <1>7 DEF RolloutOK, Rollouts, Drawn
    <2>2. c.cursor >= Unset
      BY <1>0, <1>2, Fields DEF Unset
    <2> QED
      BY <1>0, <1>2, <1>5, <1>7, <2>1, <2>2 DEF Succeeds, Same, Drawn
  <1> QED
    BY <1>6, <1>7 DEF w, c

(* RepairedSucceeds: repair goes on, up to the end of its window at most.  *)
LEMMA RepairedSucceeds ==
    ASSUME NEW v, RolloutOK(v), v.raw,
           NEW n \in Int, n >= v.cursor, n <= v.through, NEW done \in BOOLEAN
    PROVE  LET w == Backfilled([v EXCEPT !.cursor = n, !.repaired = done])
           IN  RolloutOK(w) /\ \A u : RolloutOK(u) /\ Drawn(u, v) => Succeeds(u, w)
  <1> DEFINE c == [v EXCEPT !.cursor = n, !.repaired = done]
             w == Backfilled(c)
  <1>0. v \in Rollouts /\ Unset <= v.barrier /\ v.barrier <= Len(log)
    BY DEF RolloutOK
  <1>1. DOMAIN c = FieldNames /\ c = [x \in DOMAIN c |-> c[x]]
    BY <1>0, Fields
  <1>2. /\ c.id = v.id /\ c.phase = v.phase /\ c.ver = v.ver /\ c.from = v.from /\ c.to = v.to
        /\ c.barrier = v.barrier /\ c.last = v.last /\ c.complete = v.complete /\ c.parity = v.parity
        /\ c.raw = v.raw /\ c.through = v.through /\ c.cursor = n /\ c.repaired = done
    BY <1>0, Fields DEF FieldNames
  <1> HIDE DEF c
  <1>3. c \in Rollouts
    BY <1>0, <1>1, <1>2, Fields, IsRollout
  <1>4. RolloutOK(c)
    BY <1>0, <1>2, <1>3 DEF RolloutOK
  <1>5. w \in Rollouts /\ Same(c, w) /\ w.ver = c.ver + 1
    BY <1>3, Moves
  <1> HIDE DEF w
  <1>6. RolloutOK(w)
    BY <1>4, <1>5 DEF RolloutOK, Same
  <1>7. ASSUME NEW u, RolloutOK(u), Drawn(u, v) PROVE Succeeds(u, w)
    <2>1. /\ v.last = u.last /\ v.cursor = u.cursor /\ v.raw = u.raw /\ v.ver = u.ver
          /\ v.through = u.through
      BY <1>7 DEF RolloutOK, Rollouts, Drawn
    <2>2. u.last \in Int
      BY <1>7, DocsNumbered DEF RolloutOK, Rollouts
    <2> QED
      BY <1>0, <1>2, <1>5, <1>7, <2>1, <2>2 DEF Succeeds, Same, Drawn
  <1> QED
    BY <1>6, <1>7 DEF w, c

-----------------------------------------------------------------------------
(* The steps *)

(* Standing: what the invariant says of the log, records and jobs.         *)
LEMMA Standing ==
    ASSUME RolloutInv
    PROVE  /\ Len(log) \in Nat /\ DOMAIN log = 1 .. Len(log)
           /\ rec.ver \in Int
           /\ \A r \in Replicas : view[r] \in Rollouts /\ view[r].ver \in Int
           /\ rev \in Int
           /\ \A r \in Replicas :
                 cur[r] \in Int /\ cur[r] <= rev /\ (cur[r] = rev => view[r] = rec)
  <1>1. /\ Len(log) \in Nat /\ DOMAIN log = 1 .. Len(log)
        /\ rec.ver \in Int
        /\ \A r \in Replicas : view[r] \in Rollouts /\ view[r].ver \in Int
    BY LenProperties, Fields DEF RolloutInv, ViewOK, RolloutOK
  <1> QED
    BY <1>1 DEF RolloutInv, RevisionOK

(* JobKept: a longer log and an unchanged record leave a job what it is.   *)
LEMMA JobKept ==
    ASSUME Len(log) \in Nat, Len(log') \in Nat, Len(log) <= Len(log'), rec' = rec,
           rev' = rev
    PROVE  /\ \A v : RolloutOK(v) => RolloutOK(v)'
           /\ \A v : ViewOK(v) => ViewOK(v)'
           /\ \A j : JobOK(j) => JobOK(j)'
  <1>1. ASSUME NEW v, RolloutOK(v) PROVE RolloutOK(v)'
    <2>1. v.barrier \in Int
      BY <1>1, Fields DEF RolloutOK
    <2> QED
      BY <1>1, <2>1 DEF RolloutOK
  <1>2. ASSUME NEW v, ViewOK(v) PROVE ViewOK(v)'
    BY <1>1, <1>2 DEF ViewOK
  <1>3. ASSUME NEW j, JobOK(j) PROVE JobOK(j)'
    <2>1. StepOK(j)'
      BY <1>3 DEF JobOK, StepOK
    <2>2. RolloutOK(j.rec)'
      BY <1>1, <1>3 DEF JobOK
    <2> QED
      BY <1>3, <2>1, <2>2 DEF JobOK
  <1> QED
    BY <1>1, <1>2, <1>3

(* StepKeeps: an event is recorded, and a job changes perhaps.             *)
LEMMA StepKeeps ==
    ASSUME RolloutInv, UNCHANGED <<rec, rev, view, cur>>,
           UNCHANGED log \/ \E e : Record(e),
           \/ UNCHANGED job
           \/ \E o \in Operators : \E j : job' = [job EXCEPT ![o] = j] /\ (j = Nil \/ JobOK(j))
    PROVE  RolloutInv'
  <1>1. /\ log' \in Seq(Range(log')) /\ Len(log) \in Nat /\ Len(log') \in Nat
        /\ Len(log) <= Len(log')
    <2>1. CASE UNCHANGED log
      BY <2>1, Standing DEF RolloutInv
    <2>2. CASE \E e : Record(e)
      <3>1. PICK e : log' = Append(log, e)
        BY <2>2 DEF Record
      <3> DEFINE S == Range(log) \cup {e}
      <3>2. log \in Seq(S)
        BY SeqMonotonic DEF RolloutInv
      <3>3. log' \in Seq(S) /\ Len(log') = Len(log) + 1
        BY <3>1, <3>2, AppendProperties
      <3>4. log' \in Seq(Range(log'))
        BY <3>3, SeqOfRange
      <3> QED
        BY <3>3, <3>4, Standing
    <2> QED
      BY <2>1, <2>2
  <1>2. /\ \A v : RolloutOK(v) => RolloutOK(v)'
        /\ \A v : ViewOK(v) => ViewOK(v)'
        /\ \A j : JobOK(j) => JobOK(j)'
    BY <1>1, JobKept
  <1>3. /\ RolloutOK(rec)'
        /\ (view \in [Replicas -> {view[r] : r \in Replicas}])'
        /\ \A r \in Replicas : ViewOK(view[r])'
    <2>1. RolloutOK(rec)'
      BY <1>2 DEF RolloutInv
    <2>2. ASSUME NEW r \in Replicas PROVE ViewOK(view[r])'
      <3>1. PICK v : v = view[r]
        OBVIOUS
      <3>2. ViewOK(v)'
        BY <1>2, <3>1 DEF RolloutInv
      <3> QED
        BY <3>1, <3>2 DEF ViewOK, RolloutOK
    <2> QED
      BY <2>1, <2>2 DEF RolloutInv
  <1>4. /\ (job \in [Operators -> {job[o] : o \in Operators}])'
        /\ \A o \in Operators : job'[o] # Nil => JobOK(job[o])'
    <2>1. CASE UNCHANGED job
      <3>1. ASSUME NEW o \in Operators, job[o] # Nil PROVE JobOK(job[o])'
        <4>1. PICK j : j = job[o]
          OBVIOUS
        <4>2. JobOK(j)'
          BY <1>2, <3>1, <4>1 DEF RolloutInv
        <4> QED
          BY <2>1, <4>1, <4>2 DEF JobOK, StepOK, RolloutOK
      <3> QED
        BY <2>1, <3>1 DEF RolloutInv
    <2>2. ASSUME NEW o \in Operators, NEW j, job' = [job EXCEPT ![o] = j], j = Nil \/ JobOK(j)
          PROVE  /\ (job \in [Operators -> {job[p] : p \in Operators}])'
                 /\ \A p \in Operators : job'[p] # Nil => JobOK(job[p])'
      <3>1. /\ job' \in [Operators -> {job'[p] : p \in Operators}]
            /\ job'[o] = j
            /\ \A p \in Operators \ {o} : job'[p] = job[p]
        BY <2>2 DEF RolloutInv
      <3>2. ASSUME NEW p \in Operators, job'[p] # Nil PROVE JobOK(job[p])'
        <4>1. PICK k : k = job'[p]
          OBVIOUS
        <4>2. JobOK(k)
          BY <2>2, <3>1, <3>2, <4>1 DEF RolloutInv
        <4>3. JobOK(k)'
          BY <1>2, <4>2
        <4> QED
          BY <4>1, <4>3 DEF JobOK, StepOK, RolloutOK
      <3> QED
        BY <3>1, <3>2
    <2> QED
      BY <2>1, <2>2
  <1>5. RevisionOK'
    BY DEF RolloutInv, RevisionOK
  <1> QED
    BY <1>1, <1>3, <1>4, <1>5 DEF RolloutInv

(* Begun: a job on the record of a replica.                                *)
LEMMA Begun ==
    ASSUME RolloutInv, NEW r \in Replicas, NEW step, NEW v,
           RolloutOK(v), step \notin {"import", "repair", "lag", "dlq", "pending"},
           step = "export" => ~v.raw, step = "window" => v.raw,
           IF step = "commit" THEN Succeeds(view[r], v) ELSE Drawn(view[r], v)
    PROVE  JobOK(Job(r, step, v))
  <1> DEFINE j == Job(r, step, v)
  <1>1. /\ DOMAIN j = {"at", "step", "exp", "rec"}
        /\ j.at = r /\ j.step = step /\ j.exp = cur[r] /\ j.rec = v
    BY DEF Job
  <1> HIDE DEF j
  <1>2. /\ cur[r] \in Int /\ cur[r] <= rev
        /\ cur[r] = rev => view[r] = rec
    BY Standing
  <1>3. StepOK(j)
    BY <1>1 DEF StepOK
  <1>4. JobOK(j)
    BY <1>1, <1>2, <1>3 DEF JobOK
  <1> QED
    BY <1>4 DEF j

(* Ended: a handler has the record that it is going to commit.             *)
LEMMA Ended ==
    ASSUME RolloutInv, NEW j, JobOK(j), j.step # "commit", NEW v, RolloutOK(v),
           \A u : RolloutOK(u) /\ Drawn(u, j.rec) => Succeeds(u, v)
    PROVE  JobOK([Job(j.at, "commit", v) EXCEPT !.exp = j.exp])
  <1> DEFINE k == [Job(j.at, "commit", v) EXCEPT !.exp = j.exp]
  <1>1. /\ DOMAIN k = {"at", "step", "exp", "rec"}
        /\ k.at = j.at /\ k.step = "commit" /\ k.exp = j.exp /\ k.rec = v
    BY DEF Job
  <1> HIDE DEF k
  <1>2. StepOK(k)
    BY <1>1 DEF StepOK
  <1>3. RolloutOK(rec)
    BY DEF RolloutInv
  <1>4. JobOK(k)
    BY <1>1, <1>2, <1>3 DEF JobOK
  <1> QED
    BY <1>4 DEF k

(* Going: a handler goes on with the record it has, and knows more.        *)
LEMMA Going ==
    ASSUME NEW j, JobOK(j), j.step # "commit", NEW step, NEW more,
           step \notin {"commit", "export", "window", "lag"},
           step \in {"dlq", "pending"} => j.step \in {"lag", "dlq"},
           step = "import" =>
              /\ j.step = "export"
              /\ "sel" \in DOMAIN more /\ more.sel \subseteq Docs,
           step = "repair" =>
              /\ j.step = "window" /\ "page" \in DOMAIN more
              /\ \A p \in more.page : p \in 1 .. Len(log) /\ j.rec.cursor < p /\ p <= j.rec.through
    PROVE  JobOK(With([j EXCEPT !.step = step], more))
  <1> DEFINE i == [j EXCEPT !.step = step]
             k == With(i, more)
  <1>1. /\ DOMAIN i = DOMAIN j
        /\ i.step = step /\ i.at = j.at /\ i.exp = j.exp /\ i.rec = j.rec
        /\ "goal" \in DOMAIN j => i.goal = j.goal
    BY DEF JobOK
  <1> HIDE DEF i
  <1>8. /\ DOMAIN k = DOMAIN i \cup DOMAIN more
        /\ \A x \in DOMAIN i : k[x] = i[x]
        /\ \A x \in DOMAIN more \ DOMAIN i : k[x] = more[x]
    BY Joined
  <1> HIDE DEF k
  <1>2. /\ DOMAIN k = DOMAIN j \cup DOMAIN more
        /\ \A x \in DOMAIN j : k[x] = i[x]
        /\ \A x \in DOMAIN more \ DOMAIN j : k[x] = more[x]
    BY <1>1, <1>8
  <1>3. k.step = step /\ k.at = j.at /\ k.exp = j.exp /\ k.rec = j.rec
    BY <1>1, <1>2 DEF JobOK
  <1>4. step = "import" => k.sel = more.sel /\ "sel" \in DOMAIN k /\ ~j.rec.raw
    BY <1>2 DEF JobOK, StepOK
  <1>5. step = "repair" => k.page = more.page /\ "page" \in DOMAIN k /\ j.rec.raw
    BY <1>2 DEF JobOK, StepOK
  <1>9. step \in {"dlq", "pending"} => "goal" \in DOMAIN k /\ k.goal \in DOMAIN Allowed
    BY <1>1, <1>2 DEF JobOK, StepOK
  <1>6. StepOK(k)
    BY <1>3, <1>4, <1>5, <1>9 DEF StepOK
  <1>7. JobOK(k)
    BY <1>2, <1>3, <1>6 DEF JobOK
  <1> QED
    BY <1>7 DEF k, i

(* Doing: a job knows more, or has done one of the things to do.           *)
LEMMA Doing ==
    ASSUME NEW j, JobOK(j), j.step \notin {"export", "window"}
    PROVE  /\ \A more : JobOK(With(j, more))
           /\ \A t : JobOK([j EXCEPT !.todo = t])
  <1>1. ASSUME NEW k, DOMAIN j \subseteq DOMAIN k,
               \A x \in DOMAIN j : x # "todo" => k[x] = j[x]
        PROVE  JobOK(k)
    <2>1. /\ k.step = j.step /\ k.at = j.at /\ k.exp = j.exp /\ k.rec = j.rec
          /\ \A x \in {"sel", "page", "goal"} :
                x \in DOMAIN j => x \in DOMAIN k /\ k[x] = j[x]
      BY <1>1 DEF JobOK
    <2>2. StepOK(k)
      BY <2>1 DEF JobOK, StepOK
    <2> QED
      BY <1>1, <2>1, <2>2 DEF JobOK
  <1>2. ASSUME NEW more PROVE JobOK(With(j, more))
    <2>1. /\ DOMAIN j \subseteq DOMAIN With(j, more)
          /\ \A x \in DOMAIN j : With(j, more)[x] = j[x]
      BY Joined
    <2> QED
      BY <1>1, <2>1
  <1>3. ASSUME NEW t PROVE JobOK([j EXCEPT !.todo = t])
    <2> DEFINE k == [j EXCEPT !.todo = t]
    <2>1. /\ DOMAIN j \subseteq DOMAIN k
          /\ \A x \in DOMAIN j : x # "todo" => k[x] = j[x]
      OBVIOUS
    <2> HIDE DEF k
    <2>2. JobOK(k)
      BY <1>1, <2>1
    <2> QED
      BY <2>2 DEF k
  <1> QED
    BY <1>2, <1>3

(* HandleKeeps: a handler goes on, or it is over.                          *)
LEMMA HandleKeeps ==
    ASSUME RolloutInv, NEW o \in Operators, NEW j, Handle(o, j), j = Nil \/ JobOK(j)
    PROVE  RolloutInv'
  BY StepKeeps DEF Handle, events, config

(* Loaded: the record that a handler begins with.                          *)
LEMMA Loaded ==
    ASSUME RolloutInv, NEW r \in Replicas
    PROVE  RolloutOK(view[r]) /\ Drawn(view[r], view[r])
  BY DEF RolloutInv, ViewOK, RolloutOK, Rollouts, Drawn

(* CreateKeeps: a new rollout is drafted from the record of a replica.     *)
LEMMA CreateKeeps ==
    ASSUME RolloutInv, NEW o \in Operators, NEW r \in Replicas, Create(o, r)
    PROVE  RolloutInv'
  <1>1. JobOK(Job(r, "commit", Draft(view[r])))
    BY Loaded, DraftSucceeds, Standing, Begun
  <1> QED
    BY <1>1, HandleKeeps DEF Create

(* TransitionKeeps: a transition is ready to commit, or measures first.    *)
LEMMA TransitionKeeps ==
    ASSUME RolloutInv, NEW o \in Operators, NEW r \in Replicas, NEW goal \in DOMAIN Allowed,
           Transition(o, r, goal)
    PROVE  RolloutInv'
  <1>1. CASE Handle(o, With(Job(r, "lag", view[r]), [goal |-> goal]))
    <2>8. PICK more : more = [goal |-> goal]
      OBVIOUS
    <2> DEFINE j == Job(r, "lag", view[r])
               k == With(j, more)
    <2>1. /\ DOMAIN j = {"at", "step", "exp", "rec"}
          /\ j.at = r /\ j.step = "lag" /\ j.exp = cur[r] /\ j.rec = view[r]
      BY DEF Job
    <2>2. /\ DOMAIN k = DOMAIN j \cup {"goal"}
          /\ \A x \in DOMAIN j : k[x] = j[x]
          /\ \A x \in {"goal"} \ DOMAIN j : k[x] = goal
      <3>1. /\ DOMAIN k = DOMAIN j \cup DOMAIN more
            /\ \A x \in DOMAIN j : k[x] = j[x]
            /\ \A x \in DOMAIN more \ DOMAIN j : k[x] = more[x]
        BY Joined
      <3>2. DOMAIN more = {"goal"} /\ more["goal"] = goal
        BY <2>8
      <3> QED
        BY <3>1, <3>2
    <2>3. Handle(o, k)
      BY <1>1, <2>8
    <2> HIDE DEF j, k
    <2>4. /\ k.at = r /\ k.step = "lag" /\ k.exp = cur[r] /\ k.rec = view[r] /\ k.goal = goal
      BY <2>1, <2>2
    <2>5. StepOK(k)
      BY <2>2, <2>4 DEF StepOK
    <2>6. /\ cur[r] \in Int /\ cur[r] <= rev
          /\ cur[r] = rev => view[r] = rec
      BY Standing
    <2>7. JobOK(k)
      BY <2>1, <2>2, <2>4, <2>5, <2>6, Loaded DEF JobOK
    <2> QED
      BY <2>3, <2>7, HandleKeeps
  <1>2. CASE Handle(o, Job(r, "commit", Moved(view[r], goal)))
    <2>1. RolloutOK(Moved(view[r], goal)) /\ Succeeds(view[r], Moved(view[r], goal))
      BY Loaded, Moves, SameSucceeds DEF RolloutOK
    <2>2. JobOK(Job(r, "commit", Moved(view[r], goal)))
      BY <2>1, Begun
    <2> QED
      BY <1>2, <2>2, HandleKeeps
  <1> QED
    BY <1>1, <1>2 DEF Transition

(* MeasureKeeps: lag and outbox are measured, and the gates tried.         *)
LEMMA MeasureKeeps ==
    ASSUME RolloutInv, NEW o \in Operators, MeasureLag(o) \/ MeasureDlq(o) \/ MeasurePending(o)
    PROVE  RolloutInv'
  <1>1. PICK j : j = job[o]
    OBVIOUS
  <1>2. JobOK(j) /\ j.step \in {"lag", "dlq", "pending"}
    BY <1>1 DEF MeasureLag, MeasureDlq, MeasurePending, RolloutInv
  <1>3. CASE MeasureLag(o) \/ MeasureDlq(o)
    <2>1. PICK step, more :
             /\ Handle(o, With([j EXCEPT !.step = step], more))
             /\ step \in {"dlq", "pending"} /\ j.step \in {"lag", "dlq"}
      BY <1>1, <1>3 DEF MeasureLag, MeasureDlq
    <2>2. JobOK(With([j EXCEPT !.step = step], more))
      BY <1>2, <2>1, Going
    <2> QED
      BY <2>1, <2>2, HandleKeeps
  <1>4. CASE MeasurePending(o)
    <2> DEFINE v == Moved(j.rec, j.goal)
               k == [Job(j.at, "commit", v) EXCEPT !.exp = j.exp]
    <2>1. Handle(o, k) \/ Handle(o, Nil)
      BY <1>1, <1>4 DEF MeasurePending
    <2>2. j.goal \in DOMAIN Allowed /\ RolloutOK(j.rec) /\ j.rec \in Rollouts
      BY <1>2 DEF JobOK, StepOK, RolloutOK
    <2>3. \A u : RolloutOK(u) /\ Drawn(u, j.rec) => RolloutOK(v) /\ Succeeds(u, v)
      BY <2>2, Moves, SameSucceeds
    <2>4. RolloutOK(v)
      <3>1. Drawn(j.rec, j.rec)
        BY <2>2 DEF Drawn, Rollouts
      <3> QED
        BY <2>2, <2>3, <3>1
    <2>5. JobOK(k)
      <3> HIDE DEF v
      <3> QED
        BY <1>2, <2>3, <2>4, Ended
    <2> HIDE DEF k
    <2> QED
      BY <2>1, <2>5, HandleKeeps
  <1> QED
    BY <1>3, <1>4

(* BackfillKeeps: a backfill step takes the barrier and what to do.        *)
LEMMA BackfillKeeps ==
    ASSUME RolloutInv, NEW o \in Operators, NEW r \in Replicas, BackfillStep(o, r)
    PROVE  RolloutInv'
  <1> DEFINE v == [view[r] EXCEPT !.barrier = Barrier(view[r])]
  <1>0. view[r] \in Rollouts /\ RolloutOK(view[r]) /\ Len(log) \in Nat
    BY Loaded, Standing DEF RolloutOK
  <1>1. Barrier(view[r]) \in Int /\ Unset <= Barrier(view[r]) /\ Barrier(view[r]) <= Len(log)
    BY <1>0, Fields DEF Barrier, RolloutOK, Unset
  <1>2. RolloutOK(v) /\ Drawn(view[r], v)
    <2>1. v \in Rollouts
      BY <1>0, <1>1 DEF Rollouts
    <2>2. v.barrier = Barrier(view[r]) /\ v.raw = view[r].raw /\ v.cursor = view[r].cursor
          /\ v.through = view[r].through
      BY <1>0, Fields DEF FieldNames
    <2>3. v = [view[r] EXCEPT !.barrier = v.barrier]
      BY <2>2
    <2> HIDE DEF v
    <2> QED
      BY <1>0, <1>1, <2>1, <2>2, <2>3 DEF RolloutOK, Drawn, Barrier
  <1>3. \/ ~v.raw /\ Handle(o, Job(r, "export", v))
        \/ v.raw /\ ~v.repaired /\ Handle(o, Job(r, "window", v))
        \/ v.raw /\ v.repaired /\ Handle(o, Job(r, "commit", Backfilled(v)))
    BY DEF BackfillStep
  <1> HIDE DEF v
  <1>4. v \in Rollouts
    BY <1>2 DEF RolloutOK
  <1>5. RolloutOK(Backfilled(v)) /\ Succeeds(view[r], Backfilled(v))
    BY <1>0, <1>2, <1>4, Moves, SameSucceeds
  <1>6. CASE ~v.raw /\ Handle(o, Job(r, "export", v))
    <2>1. JobOK(Job(r, "export", v))
      BY <1>2, <1>6, Begun
    <2> QED
      BY <1>6, <2>1, HandleKeeps
  <1>7. CASE v.raw /\ ~v.repaired /\ Handle(o, Job(r, "window", v))
    <2>1. JobOK(Job(r, "window", v))
      BY <1>2, <1>7, Begun
    <2> QED
      BY <1>7, <2>1, HandleKeeps
  <1>8. CASE v.raw /\ v.repaired /\ Handle(o, Job(r, "commit", Backfilled(v)))
    <2>1. JobOK(Job(r, "commit", Backfilled(v)))
      BY <1>5, Begun
    <2> QED
      BY <1>8, <2>1, HandleKeeps
  <1> QED
    BY <1>3, <1>6, <1>7, <1>8

(* ExportKeeps: the documents to copy come from the source policy.         *)
LEMMA ExportKeeps ==
    ASSUME RolloutInv, NEW o \in Operators, Export(o)
    PROVE  RolloutInv'
  <1>1. PICK j : j = job[o]
    OBVIOUS
  <1>2. JobOK(j) /\ j.step = "export"
    BY <1>1 DEF Export, RolloutInv
  <1>3. CASE Handle(o, Nil)
    BY <1>3, HandleKeeps
  <1>4. CASE ~Handle(o, Nil)
    <2> DEFINE src == Exported(j.rec.from)
               sel == Selected(j.rec, src)
    <2>1. PICK more :
             /\ more = [src |-> src, sel |-> sel,
                        todo |-> UNION {Placement(j.rec.to, d) : d \in sel},
                        all |-> sel = Remaining(j.rec, src)]
             /\ Handle(o, With([j EXCEPT !.step = "import"], more))
      BY <1>1, <1>4 DEF Export
    <2>2. "sel" \in DOMAIN more /\ more.sel = sel
      BY <2>1
    <2>3. sel \subseteq Docs
      BY DEF Selected, Remaining
    <2>4. JobOK(With([j EXCEPT !.step = "import"], more))
      <3> HIDE DEF sel, src
      <3> QED
        BY <1>2, <2>2, <2>3, Going
    <2> QED
      BY <2>1, <2>4, HandleKeeps
  <1> QED
    BY <1>3, <1>4

(* ImportKeeps: one batch is imported, or the handler fails.               *)
LEMMA ImportKeeps ==
    ASSUME RolloutInv, NEW o \in Operators, NEW c, Import(o, c)
    PROVE  RolloutInv'
  <1>1. PICK j : j = job[o]
    OBVIOUS
  <1>2. JobOK(j) /\ j.step = "import" /\ UNCHANGED <<rec, rev, view, cur, log>>
    BY <1>1 DEF Import, RolloutInv, events, config
  <1>3. \/ job' = [job EXCEPT ![o] = [j EXCEPT !.todo = j.todo \ {c}]]
        \/ job' = [job EXCEPT ![o] = Nil]
    BY <1>1 DEF Import
  <1>4. PICK k : job' = [job EXCEPT ![o] = k] /\ (k = Nil \/ JobOK(k))
    BY <1>2, <1>3, Doing
  <1> QED
    BY <1>2, <1>4, StepKeeps

(* FinishCopyKeeps: the copy is one step further, or done.                 *)
LEMMA FinishCopyKeeps ==
    ASSUME RolloutInv, NEW o \in Operators, FinishCopy(o)
    PROVE  RolloutInv'
  <1>1. PICK j : j = job[o]
    OBVIOUS
  <1>2. JobOK(j) /\ j.step = "import"
    BY <1>1 DEF FinishCopy, RolloutInv
  <1> DEFINE last == Max({j.rec.last} \cup j.sel)
             v == Backfilled(Copied(j.rec, last, j.all))
  <1>3. Handle(o, [Job(j.at, "commit", v) EXCEPT !.exp = j.exp])
    BY <1>1 DEF FinishCopy
  <1>4. /\ RolloutOK(j.rec) /\ j.rec \in Rollouts /\ ~j.rec.raw /\ j.sel \subseteq Docs
        /\ Len(log) \in Nat
    BY <1>2, Standing DEF JobOK, StepOK, RolloutOK
  <1>5. last \in {0} \cup Docs /\ last >= j.rec.last
    <2> DEFINE S == {j.rec.last} \cup j.sel
    <2>1. PICK n \in Nat : Docs = 1 .. n
      BY DocsNumbered
    <2>2. S \in SUBSET (0 .. n) /\ S # {}
      BY <1>4, <2>1, Fields
    <2>3. Max(S) \in S /\ \A m \in S : m <= Max(S)
      <3> HIDE DEF S
      <3> QED
        BY <2>1, <2>2, Greatest
    <2> QED
      BY <1>4, <2>1, <2>2, <2>3, Fields
  <1> HIDE DEF last
  <1>6. RolloutOK(v) /\ \A u : RolloutOK(u) /\ Drawn(u, j.rec) => Succeeds(u, v)
    BY <1>4, <1>5, CopiedSucceeds
  <1> HIDE DEF v
  <1>7. JobOK([Job(j.at, "commit", v) EXCEPT !.exp = j.exp])
    BY <1>2, <1>6, Ended
  <1> QED
    BY <1>3, <1>7, HandleKeeps

(* ListKeeps: the events to repair are later than the cursor.              *)
LEMMA ListKeeps ==
    ASSUME RolloutInv, NEW o \in Operators, ListEvents(o)
    PROVE  RolloutInv'
  <1>1. PICK j : j = job[o]
    OBVIOUS
  <1>2. JobOK(j) /\ j.step = "window"
    BY <1>1 DEF ListEvents, RolloutInv
  <1>3. PICK more :
           /\ more = [todo |-> Window(j.rec), page |-> Window(j.rec)]
           /\ Handle(o, With([j EXCEPT !.step = "repair"], more))
    BY <1>1 DEF ListEvents
  <1>4. "page" \in DOMAIN more /\ more.page = Window(j.rec)
    BY <1>3
  <1>5. \A p \in Window(j.rec) : p \in 1 .. Len(log) /\ j.rec.cursor < p /\ p <= j.rec.through
    BY Standing DEF Window
  <1>6. JobOK(With([j EXCEPT !.step = "repair"], more))
    BY <1>2, <1>4, <1>5, Going
  <1> QED
    BY <1>3, <1>6, HandleKeeps

(* RepairKeeps: a repair is an event of its own.                           *)
LEMMA RepairKeeps ==
    ASSUME RolloutInv, NEW o \in Operators, Repair(o)
    PROVE  RolloutInv'
  <1>1. PICK j : j = job[o]
    OBVIOUS
  <1>2. JobOK(j) /\ j.step = "repair" /\ UNCHANGED <<rec, rev, view, cur>>
    BY <1>1 DEF Repair, RolloutInv, config
  <1>3. job' = [job EXCEPT ![o] = [j EXCEPT !.todo = j.todo \ {Min(j.todo)}]]
    BY <1>1 DEF Repair
  <1>4. PICK k : job' = [job EXCEPT ![o] = k] /\ JobOK(k)
    BY <1>2, <1>3, Doing
  <1>5. UNCHANGED log \/ \E e : Record(e)
    BY DEF Repair
  <1> QED
    BY <1>2, <1>4, <1>5, StepKeeps

(* FinishRepairKeeps: the cursor goes to the last event of the page.       *)
LEMMA FinishRepairKeeps ==
    ASSUME RolloutInv, NEW o \in Operators, FinishRepair(o)
    PROVE  RolloutInv'
  <1>1. PICK j : j = job[o]
    OBVIOUS
  <1>2. JobOK(j) /\ j.step = "repair"
    BY <1>1 DEF FinishRepair, RolloutInv
  <1> DEFINE n == IF j.page = {} THEN j.rec.through ELSE Max(j.page)
             v == Backfilled([j.rec EXCEPT !.cursor = n, !.repaired = n >= j.rec.through])
  <1>3. Handle(o, [Job(j.at, "commit", v) EXCEPT !.exp = j.exp])
    BY <1>1 DEF FinishRepair
  <1>4. /\ RolloutOK(j.rec) /\ j.rec \in Rollouts /\ j.rec.raw /\ Len(log) \in Nat
        /\ \A p \in j.page : p \in 1 .. Len(log) /\ j.rec.cursor < p /\ p <= j.rec.through
    BY <1>2, Standing DEF JobOK, StepOK, RolloutOK
  <1>5. n \in Int /\ n >= j.rec.cursor /\ n <= j.rec.through
    <2>1. CASE j.page = {}
      BY <1>4, <2>1, Fields DEF RolloutOK
    <2>2. CASE j.page # {}
      <3>1. j.page \in SUBSET (0 .. Len(log))
        BY <1>4
      <3>2. Max(j.page) \in j.page
        BY <1>4, <2>2, <3>1, Greatest
      <3> QED
        BY <1>4, <2>2, <3>2, Fields
    <2> QED
      BY <2>1, <2>2
  <1>6. (n >= j.rec.through) \in BOOLEAN
    BY <1>4, <1>5, Fields
  <1> HIDE DEF n
  <1>7. RolloutOK(v) /\ \A u : RolloutOK(u) /\ Drawn(u, j.rec) => Succeeds(u, v)
    <2>1. PICK done \in BOOLEAN : done = (n >= j.rec.through)
      BY <1>6
    <2>2. v = Backfilled([j.rec EXCEPT !.cursor = n, !.repaired = done])
      BY <2>1
    <2> HIDE DEF v
    <2> QED
      BY <1>4, <1>5, <2>1, <2>2, RepairedSucceeds
  <1> HIDE DEF v
  <1>8. JobOK([Job(j.at, "commit", v) EXCEPT !.exp = j.exp])
    BY <1>2, <1>7, Ended
  <1> QED
    BY <1>3, <1>8, HandleKeeps

(* ParityKeeps: verification changes nothing but the evidence.             *)
LEMMA ParityKeeps ==
    ASSUME RolloutInv, NEW o \in Operators,
           \/ \E r \in Replicas : BeginParity(o, r)
           \/ ExportSource(o) \/ ExportCandidate(o)
    PROVE  RolloutInv'
  <1>1. ASSUME NEW r \in Replicas, BeginParity(o, r) PROVE RolloutInv'
    <2>1. PICK more : Handle(o, With(Job(r, "source", view[r]), more))
      BY <1>1 DEF BeginParity
    <2>2. JobOK(Job(r, "source", view[r]))
      BY Loaded, Begun
    <2>3. Job(r, "source", view[r]).step = "source"
      BY DEF Job
    <2>4. JobOK(With(Job(r, "source", view[r]), more))
      BY <2>2, <2>3, Doing
    <2> QED
      BY <2>1, <2>4, HandleKeeps
  <1>2. PICK j : j = job[o]
    OBVIOUS
  <1>3. CASE ExportSource(o)
    <2>1. JobOK(j) /\ j.step = "source"
      BY <1>2, <1>3 DEF ExportSource, RolloutInv
    <2>2. PICK more : \/ Handle(o, Nil)
                      \/ Handle(o, With([j EXCEPT !.step = "candidate"], more))
      BY <1>2, <1>3 DEF ExportSource
    <2>3. JobOK(With([j EXCEPT !.step = "candidate"], more))
      BY <2>1, Going
    <2> QED
      BY <2>2, <2>3, HandleKeeps
  <1>4. CASE ExportCandidate(o)
    <2> DEFINE v == Verified(j.rec, Parity(o))
               k == [Job(j.at, "commit", v) EXCEPT !.exp = j.exp]
    <2>1. JobOK(j) /\ j.step = "candidate"
      BY <1>2, <1>4 DEF ExportCandidate, RolloutInv
    <2>2. Handle(o, Nil) \/ Handle(o, k)
      BY <1>2, <1>4 DEF ExportCandidate
    <2>3. RolloutOK(j.rec) /\ j.rec \in Rollouts /\ Parity(o) \in BOOLEAN
      BY <2>1 DEF JobOK, RolloutOK, Parity
    <2>4. \A u : RolloutOK(u) /\ Drawn(u, j.rec) => RolloutOK(v) /\ Succeeds(u, v)
      BY <2>3, Moves, SameSucceeds
    <2>5. Drawn(j.rec, j.rec)
      BY <2>3 DEF Drawn, Rollouts
    <2> HIDE DEF v
    <2>6. JobOK(k)
      BY <2>1, <2>3, <2>4, <2>5, Ended
    <2> HIDE DEF k
    <2> QED
      BY <2>2, <2>6, HandleKeeps
  <1> QED
    BY <1>1, <1>3, <1>4

(* CommitKeeps: with the commit every other handler's revision and every   *)
(* other replica's is of the past; so is that of the replica whose answer  *)
(* is lost.                                                                *)
LEMMA CommitKeeps ==
    ASSUME RolloutInv, NEW o \in Operators, Commit(o) \/ CommitUnanswered(o)
    PROVE  RolloutInv'
  <1>1. /\ JobOK(job[o]) /\ job[o].step = "commit" /\ UNCHANGED log
        /\ job' = [job EXCEPT ![o] = Nil]
    BY DEF Commit, CommitUnanswered, RolloutInv, events
  <1>2. CASE ~UnchangedSince(o)
    <2>1. UNCHANGED <<rec, rev, view, cur>>
      BY <1>2 DEF Commit, CommitUnanswered, config
    <2> QED
      BY <1>1, <2>1, StepKeeps
  <1>3. CASE UnchangedSince(o)
    <2>1. PICK v : v = job[o].rec
      OBVIOUS
    <2>2. /\ rec' = v /\ rev' = rev + 1
          /\ \/ view' = [view EXCEPT ![job[o].at] = v] /\ cur' = [cur EXCEPT ![job[o].at] = rev + 1]
             \/ UNCHANGED <<view, cur>>
      BY <1>3, <2>1 DEF Commit, CommitUnanswered, Committed
    <2>3. RolloutOK(v) /\ Succeeds(rec, v) /\ v.ver = rec.ver + 1 /\ rec.ver \in Int
      BY <1>1, <1>3, <2>1, Standing DEF UnchangedSince, JobOK, Succeeds
    <2>4. RolloutOK(rec)'
      BY <1>1, <2>2, <2>3 DEF RolloutOK
    <2>5. /\ view' \in [Replicas -> {view'[r] : r \in Replicas}]
          /\ \A r \in Replicas : view'[r] = v \/ view'[r] = view[r]
      BY <2>2 DEF RolloutInv
    <2>6. ASSUME NEW r \in Replicas PROVE ViewOK(view[r])'
      <3>1. CASE view'[r] = v
        BY <1>1, <2>2, <2>3, <3>1 DEF ViewOK, RolloutOK
      <3>2. CASE view'[r] = view[r]
        <4>1. RolloutOK(view[r]) /\ view[r].ver <= rec.ver /\ view[r].ver \in Int
          BY Standing DEF RolloutInv, ViewOK
        <4> QED
          BY <1>1, <2>2, <2>3, <3>2, <4>1 DEF ViewOK, RolloutOK
      <3> QED
        BY <2>5, <3>1, <3>2
    <2>7. /\ job' \in [Operators -> {job'[p] : p \in Operators}]
          /\ \A p \in Operators : job'[p] = Nil \/ job'[p] = job[p]
      BY <1>1 DEF RolloutInv
    <2>8. ASSUME NEW p \in Operators, job'[p] # Nil PROVE JobOK(job[p])'
      <3>1. job'[p] = job[p] /\ JobOK(job[p])
        BY <2>7, <2>8 DEF RolloutInv
      <3>2. StepOK(job[p])'
        BY <1>1, <3>1 DEF JobOK, StepOK
      <3>3. RolloutOK(job[p].rec)'
        BY <1>1, <3>1 DEF JobOK, RolloutOK
      <3>4. job[p].exp \in Int /\ job[p].exp <= rev /\ rev \in Int
        BY <3>1, Standing DEF JobOK
      <3> QED
        BY <2>2, <3>1, <3>2, <3>3, <3>4 DEF JobOK
    <2>9. (log \in Seq(Range(log)))'
      BY <1>1 DEF RolloutInv
    <2>10. RevisionOK'
      <3>1. RevisionOK
        BY DEF RolloutInv
      <3>2. rev' \in Int /\ cur' \in [Replicas -> Int]
        BY <2>2, <3>1 DEF RevisionOK
      <3>3. ASSUME NEW r \in Replicas PROVE cur'[r] <= rev' /\ (cur'[r] = rev' => view'[r] = rec')
        <4>1. view \in [Replicas -> {view[q] : q \in Replicas}]
          BY DEF RolloutInv
        <4> QED
          BY <2>2, <3>1, <4>1 DEF RevisionOK
      <3> QED
        BY <3>1, <3>2, <3>3 DEF RevisionOK
    <2> QED
      BY <2>4, <2>5, <2>6, <2>7, <2>8, <2>9, <2>10 DEF RolloutInv
  <1> QED
    BY <1>2, <1>3

\* Replicas take the committed record, and revisions are counted on.
Catching(r) ==
    /\ UNCHANGED <<rec, log, job>>
    /\ \/ view' = [view EXCEPT ![r] = rec] /\ cur' = [cur EXCEPT ![r] = rev] /\ rev' = rev
       \/ view' = view /\ cur' = [cur EXCEPT ![r] = rev + 1] /\ rev' = rev + 1

(* Catches: a reload takes the committed record; another operation leaves  *)
(* it alone, as its replica has the committed one.                         *)
LEMMA Catches ==
    ASSUME RolloutInv, NEW r \in Replicas, Reload(r) \/ Administer(r)
    PROVE  /\ Catching(r)
           /\ UNCHANGED <<pending, topic, dlq, store, ckpt, route, window>>
           /\ Administer(r) => view[r] = rec
  <1>1. "stranded" \notin Lapses /\ (cur[r] = rev => view[r] = rec)
    BY DEF RolloutInv, RevisionOK
  <1> QED
    BY <1>1 DEF Reload, Administer, Catching, events, data

(* CatchingKeeps: the invariant is kept by both.                           *)
LEMMA CatchingKeeps ==
    ASSUME RolloutInv, NEW r \in Replicas, Reload(r) \/ Administer(r)
    PROVE  RolloutInv'
  <1>1. Catching(r) /\ (Administer(r) => view[r] = rec)
    BY Catches
  <1>0. UNCHANGED <<rec, log, job>> /\ rev' >= rev /\ rev \in Int /\ rev' \in Int
    BY <1>1, Standing DEF Catching
  <1>2. /\ view' \in [Replicas -> {view'[q] : q \in Replicas}]
        /\ \A q \in Replicas : view'[q] = rec \/ view'[q] = view[q]
    BY <1>1 DEF RolloutInv, Catching
  <1>3. ASSUME NEW q \in Replicas PROVE ViewOK(view[q])'
    <2>1. ViewOK(rec)
      BY Standing DEF RolloutInv, ViewOK
    <2>2. ViewOK(view'[q])
      BY <1>2, <2>1 DEF RolloutInv
    <2> QED
      BY <1>0, <2>2 DEF ViewOK, RolloutOK
  <1>4. ASSUME NEW o \in Operators, job'[o] # Nil PROVE JobOK(job[o])'
    <2>1. JobOK(job[o])
      BY <1>0, <1>4 DEF RolloutInv
    <2>2. job[o].exp \in Int /\ job[o].exp <= rev /\ (rev' # rev => job[o].exp # rev')
      BY <1>0, <2>1 DEF JobOK
    <2> QED
      BY <1>0, <2>1, <2>2 DEF JobOK, StepOK, RolloutOK
  <1>5. RolloutOK(rec)' /\ (log \in Seq(Range(log)))'
        /\ (job \in [Operators -> {job[o] : o \in Operators}])'
    BY <1>0 DEF RolloutInv, RolloutOK
  <1>6. RevisionOK'
    <2>1. RevisionOK /\ view \in [Replicas -> {view[q] : q \in Replicas}]
      BY DEF RolloutInv
    <2>2. cur' \in [Replicas -> Int]
      BY <1>0, <1>1, <2>1 DEF RevisionOK, Catching
    <2>3. ASSUME NEW q \in Replicas PROVE cur'[q] <= rev' /\ (cur'[q] = rev' => view'[q] = rec')
      <3>1. CASE Administer(r)
        <4>1. view[r] = rec /\ rev' = rev + 1 /\ view' = view /\ cur' = [cur EXCEPT ![r] = rev + 1]
          BY <1>1, <3>1 DEF Administer
        <4> QED
          BY <1>0, <2>1, <4>1 DEF RevisionOK
      <3>2. CASE Reload(r)
        BY <1>0, <1>1, <2>1, <3>2 DEF RevisionOK, Catching, Reload
      <3> QED
        BY <3>1, <3>2
    <2> QED
      BY <1>0, <2>1, <2>2, <2>3 DEF RevisionOK
  <1> QED
    BY <1>2, <1>3, <1>4, <1>5, <1>6 DEF RolloutInv

(* RolloutInvInit: no rollout yet, and one event of each document.         *)
LEMMA RolloutInvInit ==
    ASSUME "stranded" \notin Lapses
    PROVE  Init => RolloutInv
  <1> SUFFICES ASSUME Init PROVE RolloutInv
    OBVIOUS
  <1>1. PICK n \in Nat : Docs = 1 .. n
    BY DocsNumbered
  <1>2. PICK ev : ev = [d \in Docs |-> log[d]] /\ log = ev
    BY DEF Init
  <1>3. log \in [1 .. n -> {log[d] : d \in Docs}] /\ Range(log) = {log[d] : d \in Docs}
    BY <1>1, <1>2 DEF Range
  <1>4. log \in Seq(Range(log)) /\ Len(log) \in Nat
    <2>1. log \in Seq(Range(log))
      BY <1>3
    <2> QED
      BY <2>1, LenProperties
  <1>5. /\ rec = NoRollout /\ \A r \in Replicas : view[r] = rec
        /\ view \in [Replicas -> {view[r] : r \in Replicas}]
        /\ job \in [Operators -> {job[o] : o \in Operators}]
        /\ \A o \in Operators : job[o] = Nil
    BY DEF Init
  <1>6. RolloutOK(NoRollout)
    <2> DEFINE d == Draft([id |-> -1, phase |-> "none", ver |-> -1,
                           from |-> "old", to |-> "new"])
    <2>2. d = [id |-> 0, phase |-> "draft", ver |-> 0, from |-> "old", to |-> "new",
               barrier |-> Unset, last |-> 0, raw |-> FALSE, through |-> Unset,
               cursor |-> Unset, repaired |-> FALSE, complete |-> FALSE, parity |-> FALSE]
      BY DEF Draft
    <2>3. NoRollout = [d EXCEPT !.phase = "none"]
      BY DEF NoRollout
    <2> HIDE DEF d
    <2>4. d \in Rollouts /\ "none" \in DOMAIN Allowed
      BY <2>2 DEF Rollouts, Unset, Allowed
    <2>1. /\ NoRollout \in Rollouts
          /\ NoRollout.barrier = Unset /\ NoRollout.cursor = Unset /\ ~NoRollout.raw
      BY <2>2, <2>3, <2>4 DEF Rollouts
    <2> QED
      BY <1>4, <2>1 DEF RolloutOK, Unset
  <1>7. \A r \in Replicas : ViewOK(view[r])
    <2>1. rec.ver \in Int
      BY <1>5, <1>6, Fields DEF RolloutOK
    <2> QED
      BY <1>5, <1>6, <2>1 DEF ViewOK
  <1>8. RevisionOK
    BY <1>5 DEF RevisionOK, Init
  <1> QED
    BY <1>4, <1>5, <1>6, <1>7, <1>8 DEF RolloutInv

(* OtherKeeps: the steps that are no handler's.                            *)
LEMMA OtherKeeps ==
    ASSUME RolloutInv,
           \/ \E r, d, gone : Route(r, d, gone)
           \/ Accept \/ Index \/ DeadLetter \/ Elapse
           \/ \E p : Publish(p) \/ Replay(p)
           \/ \E o \in Operators : Abandon(o)
           \/ UNCHANGED vars
    PROVE  RolloutInv' /\ rec' = rec
  <1>1. UNCHANGED <<rec, rev, view, cur>>
    BY DEF Route, Accept, Index, DeadLetter, Elapse, Publish, Replay, Abandon, vars, config
  <1>2. UNCHANGED log \/ \E e : Record(e)
    BY DEF Route, Accept, Index, DeadLetter, Elapse, Publish, Replay, Abandon, vars, events
  <1>3. \/ UNCHANGED job
        \/ \E o \in Operators : \E j : job' = [job EXCEPT ![o] = j] /\ j = Nil
    BY DEF Route, Accept, Index, DeadLetter, Elapse, Publish, Replay, Abandon, vars
  <1> QED
    BY <1>1, <1>2, <1>3, StepKeeps

\* A step of a handler but its commit.
Handling(o) ==
    \/ \E r \in Replicas :
          \/ Create(o, r)
          \/ \E goal \in DOMAIN Allowed : Transition(o, r, goal)
          \/ BackfillStep(o, r) \/ BeginParity(o, r)
    \/ MeasureLag(o) \/ MeasureDlq(o) \/ MeasurePending(o)
    \/ Export(o) \/ FinishCopy(o)
    \/ \E c \in Clusters : Import(o, c)
    \/ ListEvents(o) \/ Repair(o) \/ FinishRepair(o)
    \/ ExportSource(o) \/ ExportCandidate(o)

(* HandlingKeeps: until it commits a handler changes what it knows alone.  *)
LEMMA HandlingKeeps ==
    ASSUME RolloutInv, NEW o \in Operators, Handling(o)
    PROVE  RolloutInv' /\ rec' = rec
  <1>1. RolloutInv'
    BY CreateKeeps, TransitionKeeps, BackfillKeeps, MeasureKeeps, ExportKeeps, ImportKeeps,
       FinishCopyKeeps, ListKeeps, RepairKeeps, FinishRepairKeeps, ParityKeeps DEF Handling
  <1>2. rec' = rec
    BY DEF Handling, Create, Transition, BackfillStep, BeginParity, MeasureLag, MeasureDlq,
       MeasurePending, Export, FinishCopy, Import, ListEvents, Repair, FinishRepair, ExportSource,
       ExportCandidate, Handle, config
  <1> QED
    BY <1>1, <1>2

(* Steps: the steps of the specification, by what they do to the record.   *)
LEMMA Steps ==
    ASSUME [Next]_vars
    PROVE  \/ \E r, d, gone : Route(r, d, gone)
           \/ Accept \/ Index \/ DeadLetter \/ Elapse
           \/ \E p : Publish(p) \/ Replay(p)
           \/ \E o \in Operators :
                 Abandon(o) \/ Handling(o) \/ Commit(o) \/ CommitUnanswered(o)
           \/ \E r \in Replicas : Reload(r) \/ Administer(r)
           \/ UNCHANGED vars
  BY DEF Next, Handling

(* RolloutInvStep: every step keeps the invariant.                         *)
LEMMA RolloutInvStep ==
    ASSUME RolloutInv, [Next]_vars
    PROVE  RolloutInv'
  BY Steps, OtherKeeps, HandlingKeeps, CommitKeeps, CatchingKeeps

(* RolloutSafe: the invariant holds in every reachable state.              *)
LEMMA RolloutSafe ==
    ASSUME "stranded" \notin Lapses
    PROVE  Spec => []RolloutInv
  <1>1. Init => RolloutInv
    BY RolloutInvInit
  <1>2. RolloutInv /\ [Next]_vars => RolloutInv'
    BY RolloutInvStep
  <1> QED
    BY <1>1, <1>2, PTL DEF Spec

(* ProgressCorrect: within a rollout a step raises the version by one or   *)
(* leaves the record alone, the barrier stays, and neither copy nor repair *)
(* goes back, with any number of handlers and replicas and any lapses but  *)
(* one: no replica has its record under a revision that it is not of.      *)
THEOREM ProgressCorrect ==
    ASSUME "stranded" \notin Lapses
    PROVE  Spec => ProgressKept
  <1> DEFINE Forward ==
        rec'.id = rec.id =>
          /\ rec'.ver = rec.ver + 1 \/ rec' = rec
          /\ rec.barrier # Unset => rec'.barrier = rec.barrier
          /\ rec'.last >= rec.last /\ rec'.cursor >= rec.cursor
          /\ rec.raw => rec'.raw /\ rec'.through = rec.through
  <1>1. ASSUME RolloutInv, [Next]_vars PROVE Forward
    <2>1. CASE rec' = rec
      <3>1. rec.last \in Int /\ rec.cursor \in Int
        BY <1>1, Fields, DocsNumbered DEF RolloutInv, RolloutOK
      <3> QED
        BY <2>1, <3>1
    <2>2. CASE rec' # rec
      <3>1. PICK o \in Operators : Commit(o) \/ CommitUnanswered(o)
        BY <1>1, <2>2, Steps, OtherKeeps, HandlingKeeps, Catches DEF Catching
      <3>2. job[o].step = "commit" /\ job[o].exp = rev /\ rec' = job[o].rec /\ JobOK(job[o])
        BY <1>1, <2>2, <3>1
        DEF Commit, CommitUnanswered, Committed, UnchangedSince, RolloutInv, config
      <3>3. Succeeds(rec, rec')
        BY <3>2 DEF JobOK, Succeeds
      <3> QED
        BY <3>3 DEF Succeeds
    <2> QED
      BY <2>1, <2>2
  <1>2. RolloutInv /\ [Next]_vars => [Forward]_vars
    BY <1>1
  <1> QED
    BY <1>2, RolloutSafe, PTL DEF Spec, ProgressKept

-----------------------------------------------------------------------------
(* Where the documents are                                                 *)

\* The whole collection moves from one cluster to another, and nothing goes
\* wrong that the code leaves to luck.
WholeMove ==
    /\ Lapses = {} /\ Historic = {}
    /\ \E a, b \in Clusters :
          /\ a # b /\ PolicyClusters("old") = {a} /\ PolicyClusters("new") = {b}
          /\ \A d \in Docs : Placement("old", d) = {a} /\ Placement("new", d) = {b}

\* The cluster that a policy places every document on.
Home(p) == CHOOSE c \in Clusters : PolicyClusters(p) = {c}

Both(T) == {Home("old"), Home("new")} \subseteq T

\* Events on their way, and those of a document.
InFlight == pending \cup dlq \cup Range(topic)
Of(d) == {p \in InFlight : log[p].doc = d}

Mutation(p) == log[p].repair = Nil

\* Events, checkpoints and providers.
EventsOK ==
    /\ store \in [Clusters -> [Docs -> Nat]]
    /\ ckpt \in [Clusters -> [Docs -> Nat]]
    /\ topic \in Seq(Nat)
    /\ InFlight \subseteq DOMAIN log
    /\ \A p \in DOMAIN log :
          log[p].doc \in Docs /\ log[p].body \in Nat /\ log[p].targets \subseteq Clusters
    /\ route # Nil => route.doc \in Docs /\ route.targets \subseteq Clusters
    /\ \A d \in Docs :
          /\ \E p \in DOMAIN log : log[p].doc = d
          /\ \A c \in Clusters : ckpt[c][d] <= Newest(d)
          /\ Newest(d) \notin InFlight => \A c \in log[Newest(d)].targets : ckpt[c][d] = Newest(d)
          /\ ~Mutation(Newest(d)) => Of(d) \subseteq {Newest(d)}

\* Cluster c has the newest mutation of d, or is going to get it; nothing
\* older will come after it.
Covered(c, d) ==
    LET n == Newest(d) IN
    \/ n \in InFlight /\ Mutation(n) /\ c \in log[n].targets
    \/ /\ store[c][d] = log[n].body
       /\ \A p \in Of(d) : c \in log[p].targets => Superseded(p) \/ p = n

\* What was written after position n, and what is on its way, goes to both
\* placements.
Dual(n) ==
    /\ \A p \in DOMAIN log : p > n /\ Mutation(p) => Both(log[p].targets)
    /\ \A p \in InFlight : p <= n => Both(log[p].targets)
    /\ route # Nil => Both(route.targets)

\* The policies whose placement is up to date: the active one, and the
\* candidate once parity has been established.
Paired == {"backfill", "verifying", "cutover", "drain", "rolling_back", "failed"}
Live(v) ==
    {IF v.phase = "completed" THEN v.to ELSE v.from}
        \cup (IF v.parity /\ v.phase \in Paired THEN {v.to} ELSE {})

\* The evidence that goes with a phase.
PhaseOK(v) ==
    /\ v.from # v.to
    /\ v.complete \/ v.parity \/ v.phase = "verifying" => v.raw
    /\ v.phase = "verifying" => v.barrier # Unset
    /\ v.phase \in {"none", "draft", "validating", "dual_write"} => v.barrier = Unset
    /\ v.parity => v.phase \notin {"none", "draft", "validating", "dual_write", "cancelled"}
    /\ v.phase \in {"cutover", "drain", "completed"} => v.parity

\* How far a runtime is behind.
Lags(v) ==
    \/ /\ v.from = rec.from /\ v.to = rec.to
       /\ \/ v.phase = rec.phase \/ rec.phase \in Allowed[v.phase]
          \/ /\ rec.phase = "draft"
             /\ v.phase \in {"none", "validating", "cancelled", "rolling_back", "rolled_back"}
       /\ IF rec.parity THEN v.phase \notin {"none", "draft", "validating"}
                        ELSE v.phase \notin {"cutover", "drain", "completed"}
    \/ /\ v.from = rec.to /\ v.to = rec.from
       /\ rec.phase = "draft" /\ v.phase \in {"drain", "completed"}

\* What a handler may commit.
MayFollow(w) ==
    \/ rec.phase \in Terminal \cup {"none"} /\ w = Draft(rec)
    \/ /\ AllLoaded
       /\ \E goal \in Allowed[rec.phase] :
             /\ w = Moved(rec, goal)
             /\ goal = "verifying" => rec.complete /\ rec.barrier # Unset
             /\ goal = "cutover" => rec.parity
    \/ /\ rec.phase = "backfill" /\ w.phase = "backfill"
       /\ w.from = rec.from /\ w.to = rec.to
       /\ ~w.parity /\ (w.complete => w.raw)
       /\ w.barrier # Unset /\ Dual(w.barrier)
    \/ /\ rec.phase = "verifying"
       /\ \E passed \in BOOLEAN :
             /\ w = Verified(rec, passed)
             /\ passed => \A d \in Docs : Covered(Home(rec.to), d)

\* What a handler on the committed record relies on.
Relies(j) ==
    /\ j.step \in {"lag", "dlq", "pending"} =>
          j.rec = rec /\ j.goal \in Allowed[rec.phase] /\ AllLoaded
    /\ j.step \in {"export", "import", "window", "repair"} =>
          rec.phase = "backfill" /\ j.rec.barrier # Unset /\ Dual(j.rec.barrier)
    /\ j.step \in {"source", "candidate"} => j.rec = rec /\ rec.phase = "verifying"
    /\ j.step = "candidate" /\ j.start = Len(log) =>
          \A d \in Docs : j.src[d] = log[Newest(d)].body \/ Covered(Home(rec.to), d)
    /\ j.step = "commit" => MayFollow(j.rec)

WorkOK(j) ==
    /\ j.step = "import" =>
          {"src", "sel", "todo"} \subseteq DOMAIN j /\ j.src \in [Docs -> Nat]
    /\ j.step = "repair" => "todo" \in DOMAIN j /\ j.todo \subseteq 1 .. Len(log)
    /\ j.step = "source" => DOMAIN j = {"at", "step", "exp", "rec", "start", "clear"}
    /\ j.step \in {"source", "candidate"} =>
          "start" \in DOMAIN j /\ j.start \in Nat /\ j.start <= Len(log)
    /\ j.exp = rev => Relies(j)

\* A handler that is about to commit the first draft.
Drafting(j) == j.step = "commit" /\ j.rec.phase = "draft" /\ j.rec.from = "old"

\* No rollout has begun as far as some replica knows.
Untouched == \E v \in {rec} \cup {view[r] : r \in Replicas} : v.phase = "none"
Fresh ==
    /\ rec.from = "old" /\ rec.phase \in {"none", "draft"}
    /\ \A r \in Replicas : view[r].from = "old" /\ view[r].phase \in {"none", "draft"}
    /\ \A o \in Operators : job[o] # Nil => Drafting(job[o])
    /\ \A p \in DOMAIN log : log[p].targets = {Home("old")} \/ log[p].body = 0
    /\ route # Nil => route.gone \/ route.targets = {Home("old")}
    /\ \A c \in Clusters \ {Home("old")}, d \in Docs : store[c][d] = 0

PlacedInv ==
    /\ RolloutInv
    /\ EventsOK
    /\ PhaseOK(rec)
    /\ \A r \in Replicas : Lags(view[r])
    /\ \A m \in Live(rec) :
          /\ \A d \in Docs : Covered(Home(m), d)
          /\ route # Nil => Home(m) \in route.targets
    /\ rec.phase \in {"backfill", "verifying"} /\ rec.barrier # Unset => Dual(rec.barrier)
    /\ \A o \in Operators : job[o] # Nil => WorkOK(job[o])
    /\ Untouched => Fresh

-----------------------------------------------------------------------------
(* Events *)

(* Homes: the two placements of a whole move.                              *)
LEMMA Homes ==
    ASSUME WholeMove
    PROVE  /\ Home("old") \in Clusters /\ Home("new") \in Clusters /\ Home("old") # Home("new")
           /\ \A p \in {"old", "new"} :
                 /\ PolicyClusters(p) = {Home(p)}
                 /\ \A d \in Docs : Placement(p, d) = {Home(p)}
  <1>1. PICK a, b \in Clusters :
              /\ a # b /\ PolicyClusters("old") = {a} /\ PolicyClusters("new") = {b}
              /\ \A d \in Docs : Placement("old", d) = {a} /\ Placement("new", d) = {b}
    BY DEF WholeMove
  <1>2. Home("old") = a /\ Home("new") = b
    BY <1>1 DEF Home
  <1> QED
    BY <1>1, <1>2

\* n is the newest event of d in l.
Latest(l, d, n) ==
    /\ n \in DOMAIN l /\ l[n].doc = d
    /\ \A p \in DOMAIN l : l[p].doc = d => p <= n

(* LatestIs: the newest event of a document is the latest one in the log.  *)
LEMMA LatestIs ==
    ASSUME NEW l, NEW d, Len(l) \in Nat, DOMAIN l = 1 .. Len(l),
           \E p \in DOMAIN l : l[p].doc = d
    PROVE  LET m == Max({0} \cup {p \in DOMAIN l : l[p].doc = d})
           IN  Latest(l, d, m)
  <1> DEFINE S == {0} \cup {p \in DOMAIN l : l[p].doc = d}
             m == Max(S)
  <1>1. S \in SUBSET (0 .. Len(l)) /\ S # {}
    OBVIOUS
  <1>2. m \in S /\ \A n \in S : n <= m
    <2> HIDE DEF S
    <2> QED
      BY <1>1, Greatest
  <1>3. Latest(l, d, m)
    <2> HIDE DEF m
    <2>1. PICK p \in DOMAIN l : l[p].doc = d
      OBVIOUS
    <2>2. p \in S /\ p >= 1 /\ p <= m
      BY <1>2, <2>1
    <2>3. m # 0
      BY <1>2, <2>2
    <2> QED
      BY <1>2, <2>3 DEF Latest
  <1> QED
    BY <1>3

(* LatestOnly: there is one latest event.                                  *)
LEMMA LatestOnly ==
    ASSUME NEW l, NEW d, NEW m, NEW n, Len(l) \in Nat, DOMAIN l = 1 .. Len(l),
           Latest(l, d, m), Latest(l, d, n)
    PROVE  m = n
  BY DEF Latest

(* NewestIs: the same of the log as it is.                                 *)
LEMMA NewestIs ==
    ASSUME RolloutInv, EventsOK, NEW d \in Docs
    PROVE  Latest(log, d, Newest(d)) /\ Newest(d) \in Nat
  <1>1. /\ Len(log) \in Nat /\ DOMAIN log = 1 .. Len(log)
        /\ \E p \in DOMAIN log : log[p].doc = d
    BY Standing DEF EventsOK
  <1>2. Latest(log, d, Newest(d))
    BY <1>1, LatestIs DEF Newest
  <1> QED
    BY <1>1, <1>2 DEF Latest

(* NewestSame: the newest event is a matter of the log alone.              *)
LEMMA NewestSame ==
    ASSUME log' = log, NEW d
    PROVE  Newest(d)' = Newest(d)
  <1>1. PICK l : l = log
    OBVIOUS
  <1>2. Newest(d)' = Max({0} \cup {p \in DOMAIN l : l[p].doc = d})
    BY <1>1, Zenon DEF Newest
  <1>3. Newest(d) = Max({0} \cup {p \in DOMAIN l : l[p].doc = d})
    BY <1>1, Zenon DEF Newest
  <1> QED
    BY <1>2, <1>3, Zenon

(* Grown: the log after an event has been recorded.                        *)
LEMMA Grown ==
    ASSUME RolloutInv, EventsOK, NEW e, Record(e)
    PROVE  /\ Len(log') = Len(log) + 1 /\ DOMAIN log' = 1 .. Len(log) + 1
           /\ log'[Len(log) + 1] = e /\ \A p \in DOMAIN log : log'[p] = log[p]
           /\ \A d \in Docs : Newest(d)' = IF e.doc = d THEN Len(log) + 1 ELSE Newest(d)
  <1> DEFINE N == Len(log) + 1
             S == Range(log) \cup {e}
  <1>0. Len(log) \in Nat /\ DOMAIN log = 1 .. Len(log)
    BY Standing
  <1>1. log \in Seq(S) /\ log' = Append(log, e) /\ e \in S
    BY SeqMonotonic DEF RolloutInv, Record
  <1>2. /\ log' \in Seq(S) /\ Len(log') = N /\ log'[N] = e
        /\ \A p \in 1 .. Len(log) : log'[p] = log[p]
    <2> HIDE DEF S
    <2> QED
      BY <1>1, AppendProperties
  <1>3. DOMAIN log' = 1 .. N
    BY <1>2, LenProperties
  <1>4. ASSUME NEW d \in Docs PROVE Newest(d)' = IF e.doc = d THEN N ELSE Newest(d)
    <2> DEFINE n == IF e.doc = d THEN N ELSE Newest(d)
    <2>1. Latest(log, d, Newest(d)) /\ Newest(d) \in Nat
      BY NewestIs
    <2>2. Latest(log', d, n)
      BY <1>0, <1>2, <1>3, <2>1 DEF Latest
    <2>3. \E p \in DOMAIN log' : log'[p].doc = d
      BY <2>2 DEF Latest
    <2>4. Newest(d)' = Max({0} \cup {p \in DOMAIN log' : log'[p].doc = d})
      BY DEF Newest
    <2>5. Len(log') \in Nat /\ DOMAIN log' = 1 .. Len(log')
      BY <1>0, <1>2, <1>3
    <2> HIDE DEF n
    <2>6. Newest(d)' = n
      <3>1. PICK l : l = log'
        OBVIOUS
      <3>2. /\ Latest(l, d, n) /\ \E p \in DOMAIN l : l[p].doc = d
            /\ Len(l) \in Nat /\ DOMAIN l = 1 .. Len(l)
        BY <2>2, <2>3, <2>5, <3>1
      <3>3. PICK k : k = n
        OBVIOUS
      <3>4. Latest(l, d, Max({0} \cup {p \in DOMAIN l : l[p].doc = d}))
        BY <3>2, LatestIs
      <3>5. PICK m : m = Newest(d)'
        OBVIOUS
      <3>6. Latest(l, d, m)
        BY <2>4, <3>1, <3>4, <3>5
      <3>7. m = k
        BY <3>2, <3>3, <3>6, LatestOnly
      <3> QED
        BY <3>3, <3>5, <3>7
    <2> QED
      BY <2>6 DEF n
  <1> QED
    BY <1>0, <1>2, <1>3, <1>4

(* Ranges: what is in a queue after a record is added or taken.            *)
LEMMA Ranges ==
    ASSUME NEW s \in Seq(Nat)
    PROVE  /\ \A x \in Nat : /\ Append(s, x) \in Seq(Nat)
                             /\ Range(Append(s, x)) = Range(s) \cup {x}
           /\ s # <<>> => /\ Tail(s) \in Seq(Nat) /\ Head(s) \in Range(s)
                          /\ Range(Tail(s)) \subseteq Range(s)
                          /\ Range(s) \subseteq Range(Tail(s)) \cup {Head(s)}
  <1>0. Len(s) \in Nat /\ DOMAIN s = 1 .. Len(s)
    BY LenProperties
  <1>1. ASSUME NEW x \in Nat
        PROVE  Append(s, x) \in Seq(Nat) /\ Range(Append(s, x)) = Range(s) \cup {x}
    <2> DEFINE t == Append(s, x)
    <2>1. /\ t \in Seq(Nat) /\ Len(t) = Len(s) + 1
          /\ \A i \in 1 .. Len(s) : t[i] = s[i]
          /\ t[Len(s) + 1] = x
      BY AppendProperties
    <2> HIDE DEF t
    <2>2. DOMAIN t = 1 .. Len(s) + 1
      BY <2>1, LenProperties
    <2>3. Range(t) = Range(s) \cup {x}
      <3>1. \A y \in Range(t) : y \in Range(s) \cup {x}
        <4> SUFFICES ASSUME NEW i \in DOMAIN t PROVE t[i] \in Range(s) \cup {x}
          BY DEF Range
        <4>1. CASE i \in 1 .. Len(s)
          BY <1>0, <2>1, <4>1 DEF Range
        <4>2. CASE i = Len(s) + 1
          BY <2>1, <4>2
        <4> QED
          BY <1>0, <2>2, <4>1, <4>2
      <3>2. \A y \in Range(s) : y \in Range(t)
        BY <1>0, <2>1, <2>2 DEF Range
      <3>3. x \in Range(t)
        BY <1>0, <2>1, <2>2 DEF Range
      <3> QED
        BY <3>1, <3>2, <3>3
    <2> QED
      BY <2>1, <2>3 DEF t
  <1>2. ASSUME s # <<>>
        PROVE  /\ Tail(s) \in Seq(Nat) /\ Head(s) \in Range(s)
               /\ Range(Tail(s)) \subseteq Range(s)
               /\ Range(s) \subseteq Range(Tail(s)) \cup {Head(s)}
    <2> DEFINE t == Tail(s)
    <2>1. /\ t \in Seq(Nat) /\ Len(t) = Len(s) - 1
          /\ \A i \in 1 .. Len(t) : t[i] = s[i + 1]
      BY <1>2, HeadTailProperties
    <2>2. Head(s) = s[1]
      BY DEF Head
    <2> HIDE DEF t
    <2>3. Len(s) > 0
      BY <1>0, <1>2, EmptySeq
    <2>4. DOMAIN t = 1 .. Len(t) /\ Len(t) \in Nat
      BY <2>1, LenProperties
    <2>5. Head(s) \in Range(s)
      BY <1>0, <2>2, <2>3 DEF Range
    <2>6. ASSUME NEW i \in DOMAIN t PROVE t[i] \in Range(s)
      <3>1. t[i] = s[i + 1] /\ i + 1 \in DOMAIN s
        BY <1>0, <2>1, <2>4
      <3> QED
        BY <3>1 DEF Range
    <2>7. ASSUME NEW i \in DOMAIN s PROVE s[i] \in Range(t) \cup {s[1]}
      <3>1. CASE i = 1
        BY <3>1
      <3>2. CASE i # 1
        <4>1. i - 1 \in DOMAIN t /\ t[i - 1] = s[i]
          BY <1>0, <2>1, <2>4, <3>2
        <4> QED
          BY <4>1 DEF Range
      <3> QED
        BY <3>1, <3>2
    <2> QED
      BY <2>1, <2>2, <2>5, <2>6, <2>7 DEF t, Range
  <1> QED
    BY <1>1, <1>2

\* What a step must leave of the coverage and of dual-write.
Kept(c, d) == Covered(c, d) => Covered(c, d)'
DualKept == \A n \in Int : n <= Len(log) /\ Dual(n) => Dual(n)'

(* RecordKeeps: a mutation to all of its placements, or a repair of a      *)
(* document that has nothing on its way.                                   *)
LEMMA RecordKeeps ==
    ASSUME RolloutInv, EventsOK, NEW e, Record(e), UNCHANGED <<topic, dlq, data>>,
           e.doc \in Docs, e.body \in Nat, e.targets \subseteq Clusters,
           e.repair = Nil \/ (Of(e.doc) = {} /\ e.body = log[Newest(e.doc)].body),
           route' = Nil \/ route' = route
    PROVE  /\ EventsOK'
           /\ \A c \in Clusters, d \in Docs :
                 (e.repair = Nil /\ e.doc = d => c \in e.targets) => Kept(c, d)
           /\ (e.repair = Nil => route # Nil /\ e.targets = route.targets) => DualKept
  <1> DEFINE N == Len(log) + 1
  <1>1. /\ Len(log) \in Nat /\ DOMAIN log = 1 .. Len(log)
        /\ DOMAIN log' = 1 .. N /\ log'[N] = e
        /\ \A p \in DOMAIN log : log'[p] = log[p]
        /\ \A d \in Docs : Newest(d)' = IF e.doc = d THEN N ELSE Newest(d)
    BY Standing, Grown
  <1>2. InFlight' = InFlight \cup {N} /\ InFlight \subseteq 1 .. Len(log)
    BY <1>1 DEF InFlight, Record, EventsOK
  <1>3. store' = store /\ ckpt' = ckpt /\ topic' = topic
    BY DEF data
  <1>4. ASSUME NEW d \in Docs
        PROVE  /\ Newest(d) \in 1 .. Len(log) /\ log[Newest(d)].doc = d
               /\ e.doc # d => Of(d)' = Of(d)
               /\ e.doc = d => Of(d)' = Of(d) \cup {N}
               /\ \A p \in Of(d) : p \in 1 .. Len(log) /\ p <= Newest(d)
    <2>1. Newest(d) \in 1 .. Len(log) /\ log[Newest(d)].doc = d
      BY <1>1, NewestIs DEF Latest
    <2>2. ASSUME NEW p PROVE p \in Of(d)' <=> p \in Of(d) \/ (p = N /\ e.doc = d)
      BY <1>1, <1>2 DEF Of
    <2>3. \A p \in Of(d) : p \in 1 .. Len(log) /\ p <= Newest(d)
      BY <1>1, <1>2, NewestIs DEF Of, Latest
    <2> QED
      BY <2>1, <2>2, <2>3
  <1>5. \A p \in 1 .. Len(log) : (Superseded(p) <=> Superseded(p)') /\ (Mutation(p) <=> Mutation(p)')
    BY <1>1, <1>3 DEF Superseded, Mutation
  <1>6. EventsOK'
    <2>1. /\ (store \in [Clusters -> [Docs -> Nat]])'
          /\ (ckpt \in [Clusters -> [Docs -> Nat]])'
          /\ (topic \in Seq(Nat))'
          /\ InFlight' \subseteq DOMAIN log'
      BY <1>1, <1>2, <1>3 DEF EventsOK
    <2>2. \A p \in DOMAIN log' :
             log'[p].doc \in Docs /\ log'[p].body \in Nat /\ log'[p].targets \subseteq Clusters
      BY <1>1 DEF EventsOK
    <2>3. route' # Nil => route'.doc \in Docs /\ route'.targets \subseteq Clusters
      BY DEF EventsOK
    <2>4. ASSUME NEW d \in Docs
          PROVE  /\ \E p \in DOMAIN log' : log'[p].doc = d
                 /\ \A c \in Clusters : ckpt'[c][d] <= Newest(d)'
    <3>1. \E p \in DOMAIN log' : log'[p].doc = d
        BY <1>1, <1>4
      <3>2. ASSUME NEW c \in Clusters PROVE ckpt'[c][d] <= Newest(d)'
        <4>1. ckpt[c][d] \in Nat /\ ckpt[c][d] <= Newest(d)
          BY DEF EventsOK
        <4> QED
          BY <1>1, <1>3, <1>4, <4>1
      <3> QED
        BY <3>1, <3>2
    <2>5. ASSUME NEW d \in Docs
          PROVE  /\ Newest(d)' \notin InFlight' =>
                       \A c \in log'[Newest(d)'].targets : ckpt'[c][d] = Newest(d)'
                 /\ ~Mutation(Newest(d))' => Of(d)' \subseteq {Newest(d)'}
      <3>1. CASE e.doc = d
        <4>1. Newest(d)' = N /\ N \in InFlight'
          BY <1>1, <1>2, <3>1
        <4>2. ~Mutation(Newest(d))' => Of(d)' \subseteq {Newest(d)'}
          BY <1>1, <1>4, <3>1, <4>1 DEF Mutation
        <4> QED
          BY <4>1, <4>2
      <3>2. CASE e.doc # d
        <4>1. Newest(d)' = Newest(d) /\ log'[Newest(d)] = log[Newest(d)] /\ Of(d)' = Of(d)
          BY <1>1, <1>4, <3>2
        <4>2. Newest(d) \notin InFlight' => Newest(d) \notin InFlight
          BY <1>2
        <4> QED
          BY <1>3, <4>1, <4>2 DEF EventsOK, Mutation
      <3> QED
        BY <3>1, <3>2
    <2> QED
      BY <2>1, <2>2, <2>3, <2>4, <2>5 DEF EventsOK
  <1>7. ASSUME NEW c \in Clusters, NEW d \in Docs, Covered(c, d),
               e.repair = Nil /\ e.doc = d => c \in e.targets
        PROVE  Covered(c, d)'
    <2>1. CASE e.doc = d /\ e.repair = Nil
      <3>1. /\ Newest(d)' = N /\ N \in InFlight' /\ log'[N].repair = Nil
            /\ c \in log'[N].targets
        BY <1>1, <1>2, <1>7, <2>1
      <3> QED
        BY <3>1 DEF Covered, Mutation
    <2>2. CASE e.doc = d /\ e.repair # Nil
      <3>1. Of(d) = {} /\ e.body = log[Newest(d)].body
        BY <2>2
      <3>2. store[c][d] = log[Newest(d)].body
        BY <1>4, <1>7, <3>1 DEF Covered, Of
      <3>3. Newest(d)' = N /\ log'[N] = e /\ Of(d)' = {N}
        BY <1>1, <1>4, <2>2, <3>1
      <3> QED
        BY <1>3, <3>1, <3>2, <3>3 DEF Covered
    <2>3. CASE e.doc # d
      <3>1. Newest(d)' = Newest(d) /\ log'[Newest(d)] = log[Newest(d)] /\ Of(d)' = Of(d)
        BY <1>1, <1>4, <2>3
      <3>2. Newest(d) \in InFlight => Newest(d) \in InFlight'
        BY <1>2
      <3>3. Mutation(Newest(d)) <=> Mutation(Newest(d))'
        BY <3>1 DEF Mutation
      <3>4. \A p \in Of(d) : log'[p] = log[p] /\ (Superseded(p) <=> Superseded(p)')
        BY <1>1, <1>4, <1>5
      <3> QED
        BY <1>3, <1>7, <3>1, <3>2, <3>3, <3>4 DEF Covered
    <2> QED
      BY <2>1, <2>2, <2>3
  <1>8. ASSUME e.repair = Nil => route # Nil /\ e.targets = route.targets,
               NEW n \in Int, n <= Len(log), Dual(n)
        PROVE  Dual(n)'
    <2>1. ASSUME NEW p \in DOMAIN log', p > n, Mutation(p)' PROVE Both(log'[p].targets)
      <3>1. CASE p = N
        BY <1>1, <1>8, <2>1, <3>1 DEF Mutation, Dual
      <3>2. CASE p # N
        BY <1>1, <1>5, <1>8, <2>1, <3>2 DEF Dual
      <3> QED
        BY <3>1, <3>2
    <2>2. ASSUME NEW p \in InFlight', p <= n PROVE Both(log'[p].targets)
      <3>1. p # N /\ p \in InFlight /\ p \in DOMAIN log
        BY <1>1, <1>2, <1>8, <2>2
      <3>2. Both(log[p].targets) /\ log'[p] = log[p]
        BY <1>1, <1>8, <2>2, <3>1 DEF Dual
      <3> QED
        BY <3>2
    <2>3. route' # Nil => Both(route'.targets)
      BY <1>8 DEF Dual
    <2> QED
      BY <2>1, <2>2, <2>3 DEF Dual, Both
  <1> QED
    BY <1>6, <1>7, <1>8 DEF Kept, DualKept

(* LogStays: events are handled, and no document loses its newest one.     *)
LEMMA LogStays ==
    ASSUME RolloutInv, EventsOK, log' = log, route' = route, topic' \in Seq(Nat),
           InFlight' \subseteq InFlight,
           store' \in [Clusters -> [Docs -> Nat]], ckpt' \in [Clusters -> [Docs -> Nat]],
           \A d \in Docs :
              /\ \A c \in Clusters : ckpt[c][d] <= ckpt'[c][d] /\ ckpt'[c][d] <= Newest(d)
              /\ Newest(d) \in InFlight \ InFlight' =>
                    \A c \in log[Newest(d)].targets : ckpt'[c][d] = Newest(d)
    PROVE  /\ EventsOK' /\ DualKept
           /\ \A c \in Clusters, d \in Docs :
                 \/ /\ store'[c][d] \in {store[c][d], log[Newest(d)].body}
                    /\ Newest(d) \in InFlight \ InFlight' /\ c \in log[Newest(d)].targets =>
                          store'[c][d] = log[Newest(d)].body
                 \/ Newest(d) \in InFlight' /\ Mutation(Newest(d)) /\ c \in log[Newest(d)].targets
                 => Kept(c, d)
  <1>1. /\ Len(log) \in Nat /\ DOMAIN log = 1 .. Len(log)
        /\ \A p \in DOMAIN log :
              log[p].doc \in Docs /\ log[p].body \in Nat /\ log[p].targets \subseteq Clusters
        /\ InFlight \subseteq DOMAIN log
    BY Standing DEF EventsOK
  <1>2. ASSUME NEW d \in Docs PROVE Newest(d)' = Newest(d)
    BY NewestSame
  <1>3. ASSUME NEW d \in Docs
        PROVE  /\ Newest(d) \in DOMAIN log /\ log[Newest(d)].doc = d /\ Of(d)' \subseteq Of(d)
               /\ \A p \in Of(d) : p \in DOMAIN log /\ log[p].doc = d /\ p <= Newest(d)
               /\ Newest(d) \notin InFlight' =>
                     \A c \in log[Newest(d)].targets : ckpt'[c][d] = Newest(d)
    <2>1. /\ Newest(d) \in DOMAIN log /\ log[Newest(d)].doc = d
          /\ \A p \in DOMAIN log : log[p].doc = d => p <= Newest(d)
      BY NewestIs DEF Latest
    <2>2. \A p \in Of(d)' : p \in Of(d)
      BY DEF Of
    <2>3. \A p \in Of(d) : p \in DOMAIN log /\ log[p].doc = d /\ p <= Newest(d)
      BY <1>1, <2>1 DEF Of
    <2>4. ASSUME Newest(d) \notin InFlight, NEW c \in log[Newest(d)].targets
          PROVE  ckpt'[c][d] = Newest(d)
      <3>1. ckpt[c][d] = Newest(d) /\ c \in Clusters
        BY <1>1, <2>1, <2>4 DEF EventsOK
      <3>2. ckpt'[c][d] \in Nat /\ ckpt[c][d] \in Nat
        BY <3>1 DEF EventsOK
      <3> QED
        BY <3>1, <3>2
    <2> QED
      BY <2>1, <2>2, <2>3, <2>4
  <1>4. \A p : Mutation(p)' <=> Mutation(p)
    BY DEF Mutation
  <1>5. EventsOK'
    <2>1. ASSUME NEW d \in Docs
          PROVE  ~Mutation(Newest(d))' => Of(d)' \subseteq {Newest(d)'}
      BY <1>2, <1>3 DEF EventsOK, Mutation
    <2>2. ASSUME NEW d \in Docs
          PROVE  /\ \E p \in DOMAIN log' : log'[p].doc = d
                 /\ \A c \in Clusters : ckpt'[c][d] <= Newest(d)'
                 /\ Newest(d)' \notin InFlight' =>
                       \A c \in log'[Newest(d)'].targets : ckpt'[c][d] = Newest(d)'
      BY <1>2, <1>3
    <2>3. /\ InFlight' \subseteq DOMAIN log'
          /\ \A p \in DOMAIN log' :
                log'[p].doc \in Docs /\ log'[p].body \in Nat /\ log'[p].targets \subseteq Clusters
          /\ route' # Nil => route'.doc \in Docs /\ route'.targets \subseteq Clusters
      BY <1>1 DEF EventsOK
    <2> QED
      BY <2>1, <2>2, <2>3 DEF EventsOK
  <1>6. DualKept
    <2> SUFFICES ASSUME NEW n \in Int, Dual(n) PROVE Dual(n)'
      BY DEF DualKept
    <2> QED
      BY <1>4 DEF Dual, Both
  <1>7. ASSUME NEW c \in Clusters, NEW d \in Docs, Covered(c, d),
               \/ /\ store'[c][d] \in {store[c][d], log[Newest(d)].body}
                  /\ Newest(d) \in InFlight \ InFlight' /\ c \in log[Newest(d)].targets =>
                        store'[c][d] = log[Newest(d)].body
               \/ Newest(d) \in InFlight' /\ Mutation(Newest(d)) /\ c \in log[Newest(d)].targets
        PROVE  Covered(c, d)'
    <2>1. CASE Newest(d) \in InFlight' /\ Mutation(Newest(d)) /\ c \in log[Newest(d)].targets
      <3>1. Mutation(Newest(d))'
        BY <1>2, <2>1 DEF Mutation
      <3> QED
        BY <1>2, <2>1, <3>1 DEF Covered
    <2>2. CASE ~(Newest(d) \in InFlight' /\ Mutation(Newest(d)) /\ c \in log[Newest(d)].targets)
      <3> DEFINE n == Newest(d)
      <3>1. /\ store'[c][d] \in {store[c][d], log[n].body}
            /\ n \in InFlight \ InFlight' /\ c \in log[n].targets => store'[c][d] = log[n].body
        BY <1>7, <2>2
      <3>2. ASSUME NEW p \in Of(d), c \in log[p].targets, Superseded(p) PROVE Superseded(p)'
        <4>1. PICK x \in log[p].targets : ckpt[x][log[p].doc] > p
          BY <3>2 DEF Superseded
        <4>2. x \in Clusters /\ log[p].doc = d /\ p \in Nat
          BY <1>1, <1>3, <4>1
        <4>3. ckpt[x][d] \in Nat /\ ckpt'[x][d] \in Nat /\ ckpt[x][d] <= ckpt'[x][d]
          BY <4>2 DEF EventsOK
        <4>4. ckpt'[x][d] > p
          BY <4>1, <4>2, <4>3
        <4> QED
          BY <4>1, <4>2, <4>4 DEF Superseded
      <3>3. CASE n \in InFlight /\ Mutation(n) /\ c \in log[n].targets
        <4>1. n \notin InFlight' /\ store'[c][d] = log[n].body
          BY <2>2, <3>1, <3>3
        <4>2. ckpt'[c][d] = n
          BY <1>3, <3>3, <4>1
        <4>3. ASSUME NEW p \in Of(d)', c \in log[p].targets, p # n PROVE Superseded(p)'
          <5>1. p \in Of(d) /\ log[p].doc = d /\ p < n
            BY <1>1, <1>3, <4>3
          <5> QED
            BY <4>2, <4>3, <5>1 DEF Superseded
        <4> QED
          BY <1>2, <4>1, <4>3 DEF Covered
      <3>4. CASE ~(n \in InFlight /\ Mutation(n) /\ c \in log[n].targets)
        <4>1. /\ store[c][d] = log[n].body
              /\ \A p \in Of(d) : c \in log[p].targets => Superseded(p) \/ p = n
          BY <1>7, <3>4 DEF Covered
        <4>2. store'[c][d] = log[n].body
          BY <3>1, <4>1
        <4>3. ASSUME NEW p \in Of(d)', c \in log[p].targets, p # n PROVE Superseded(p)'
          BY <1>3, <3>2, <4>1, <4>3
        <4> QED
          BY <1>2, <4>2, <4>3 DEF Covered
      <3> QED
        BY <3>3, <3>4
    <2> QED
      BY <2>1, <2>2
  <1> QED
    BY <1>5, <1>6, <1>7 DEF Kept

(* IndexKeeps: an event is written to its targets, or passed over.         *)
LEMMA IndexKeeps ==
    ASSUME RolloutInv, EventsOK, Index
    PROVE  /\ EventsOK' /\ DualKept
           /\ \A c \in Clusters, d \in Docs :
                 /\ Kept(c, d)
                 /\ store'[c][d] = store[c][d] \/ \E q \in DOMAIN log :
                       c \in log[q].targets /\ store'[c][d] = log[q].body
  <1> DEFINE p == Head(topic)
             e == log[p].doc
             T == IF Superseded(p) THEN {} ELSE log[p].targets
  <1>1. /\ topic # <<>> /\ topic' = Tail(topic) /\ store' = Written(p, T)
        /\ ckpt' = Checked(p, T)
        /\ log' = log /\ pending' = pending /\ dlq' = dlq /\ route' = route
    BY DEF Index
  <1>2. /\ topic' \in Seq(Nat) /\ p \in InFlight
        /\ InFlight' \subseteq InFlight /\ InFlight \subseteq InFlight' \cup {p}
    BY <1>1, Ranges DEF InFlight, EventsOK
  <1>3. /\ p \in DOMAIN log /\ p \in Nat /\ e \in Docs /\ log[p].body \in Nat
        /\ T \subseteq Clusters /\ log[p].targets \subseteq Clusters
    BY <1>2, Standing DEF EventsOK
  <1> HIDE DEF p, T
  <1>4. ASSUME NEW c \in Clusters, NEW d \in Docs
        PROVE  /\ store'[c][d] = IF c \in T /\ d = e THEN log[p].body ELSE store[c][d]
               /\ ckpt'[c][d] = IF c \in T /\ d = e THEN p ELSE ckpt[c][d]
    BY <1>1, <1>3 DEF Written, Checked, EventsOK
  <1>5. /\ store' \in [Clusters -> [Docs -> Nat]]
        /\ ckpt' \in [Clusters -> [Docs -> Nat]]
    BY <1>1, <1>3 DEF Written, Checked, EventsOK
  <1>6. /\ Newest(e) \in Nat /\ p <= Newest(e)
        /\ \A d \in Docs : log[Newest(d)].doc = d
    BY <1>3, NewestIs DEF Latest
  <1>7. /\ \A c \in T : ckpt[c][e] <= p
        /\ p = Newest(e) => T = log[p].targets
    <2>1. ASSUME NEW c \in Clusters PROVE ckpt[c][e] \in Nat /\ ckpt[c][e] <= Newest(e)
      BY <1>3 DEF EventsOK
    <2>2. CASE Superseded(p)
      <3>1. T = {}
        BY <2>2 DEF T
      <3>2. PICK c \in log[p].targets : ckpt[c][e] > p
        BY <2>2 DEF Superseded
      <3>3. p # Newest(e)
        BY <1>3, <1>6, <2>1, <3>2
      <3> QED
        BY <3>1, <3>3
    <2>3. CASE ~Superseded(p)
      <3>1. T = log[p].targets
        BY <2>3 DEF T
      <3>2. \A c \in log[p].targets : ~(ckpt[c][e] > p)
        BY <2>3 DEF Superseded
      <3> QED
        BY <1>3, <2>1, <3>1, <3>2
    <2> QED
      BY <2>2, <2>3
  <1>8. ASSUME NEW d \in Docs
        PROVE  /\ \A c \in Clusters : ckpt[c][d] <= ckpt'[c][d] /\ ckpt'[c][d] <= Newest(d)
               /\ Newest(d) \in InFlight \ InFlight' => p = Newest(d) /\ d = e
               /\ Newest(d) \in InFlight \ InFlight' =>
                     \A c \in log[Newest(d)].targets : ckpt'[c][d] = Newest(d)
    <2>1. ASSUME NEW c \in Clusters
          PROVE  ckpt[c][d] <= ckpt'[c][d] /\ ckpt'[c][d] <= Newest(d)
      <3>1. ckpt[c][d] \in Nat /\ ckpt[c][d] <= Newest(d)
        BY DEF EventsOK
      <3> QED
        BY <1>3, <1>4, <1>6, <1>7, <3>1
    <2>2. Newest(d) \in InFlight \ InFlight' => p = Newest(d) /\ d = e
      BY <1>2, <1>6
    <2>3. ASSUME Newest(d) \in InFlight \ InFlight', NEW c \in log[Newest(d)].targets
          PROVE  ckpt'[c][d] = Newest(d)
      BY <1>3, <1>4, <1>7, <2>2, <2>3
    <2> QED
      BY <2>1, <2>2, <2>3
  <1>9. ASSUME NEW c \in Clusters, NEW d \in Docs
        PROVE  \/ /\ store'[c][d] \in {store[c][d], log[Newest(d)].body}
                  /\ Newest(d) \in InFlight \ InFlight' /\ c \in log[Newest(d)].targets =>
                        store'[c][d] = log[Newest(d)].body
               \/ Newest(d) \in InFlight' /\ Mutation(Newest(d)) /\ c \in log[Newest(d)].targets
               \/ ~Covered(c, d)
    <2>1. CASE store'[c][d] = store[c][d] /\ Newest(d) \notin InFlight \ InFlight'
      BY <2>1
    <2>2. CASE p = Newest(d) /\ d = e
      BY <1>4, <1>7, <2>2
    <2>3. CASE c \in T /\ d = e /\ p # Newest(d)
      <3>1. ~Superseded(p) /\ c \in log[p].targets
        BY <2>3 DEF T
      <3>2. p \in Of(d)
        BY <1>2, <2>3 DEF Of
      <3>3. Newest(d) \in InFlight => Newest(d) \in InFlight'
        BY <1>2, <2>3
      <3> QED
        BY <2>3, <3>1, <3>2, <3>3 DEF Covered
    <2> QED
      BY <1>4, <1>8, <2>1, <2>2, <2>3
  <1> QED
    <2>1. /\ EventsOK' /\ DualKept
          /\ \A c \in Clusters, d \in Docs :
                \/ /\ store'[c][d] \in {store[c][d], log[Newest(d)].body}
                   /\ Newest(d) \in InFlight \ InFlight' /\ c \in log[Newest(d)].targets =>
                         store'[c][d] = log[Newest(d)].body
                \/ Newest(d) \in InFlight' /\ Mutation(Newest(d)) /\ c \in log[Newest(d)].targets
                => Kept(c, d)
      BY <1>1, <1>2, <1>5, <1>8, LogStays
    <2>2. \A c \in Clusters, d \in Docs : Kept(c, d)
      BY <1>9, <2>1 DEF Kept
    <2>3. T \subseteq log[p].targets
      BY DEF T
    <2> QED
      BY <1>3, <1>4, <2>1, <2>2, <2>3

(* DeadLetterKeeps: an event is written to some of its targets and kept.   *)
LEMMA DeadLetterKeeps ==
    ASSUME RolloutInv, EventsOK, DeadLetter
    PROVE  /\ EventsOK' /\ DualKept
           /\ \A c \in Clusters, d \in Docs :
                 /\ Kept(c, d)
                 /\ store'[c][d] = store[c][d] \/ \E q \in DOMAIN log :
                       c \in log[q].targets /\ store'[c][d] = log[q].body
  <1> DEFINE p == Head(topic)
             e == log[p].doc
  <1>1. /\ topic # <<>> /\ topic' = Tail(topic) /\ dlq' = dlq \cup {p}
        /\ log' = log /\ pending' = pending /\ route' = route
    BY DEF DeadLetter
  <1>2. PICK T \in SUBSET log[p].targets :
              /\ Superseded(p) => T = {}
              /\ store' = Written(p, T) /\ ckpt' = Checked(p, T)
    BY DEF DeadLetter
  <1>3. topic' \in Seq(Nat) /\ p \in InFlight /\ InFlight' = InFlight
    <2>1. /\ topic' \in Seq(Nat) /\ p \in Range(topic)
          /\ Range(topic') \subseteq Range(topic) /\ Range(topic) \subseteq Range(topic') \cup {p}
      BY <1>1, Ranges DEF EventsOK
    <2> HIDE DEF p
    <2> QED
      BY <1>1, <2>1 DEF InFlight
  <1>4. /\ p \in DOMAIN log /\ p \in Nat /\ e \in Docs /\ log[p].body \in Nat
        /\ log[p].targets \subseteq Clusters
    BY <1>3, Standing DEF EventsOK
  <1> HIDE DEF p
  <1>5. /\ store' \in [Clusters -> [Docs -> Nat]]
        /\ ckpt' \in [Clusters -> [Docs -> Nat]]
        /\ \A c \in Clusters, d \in Docs :
              /\ store'[c][d] = IF c \in T /\ d = e THEN log[p].body ELSE store[c][d]
              /\ ckpt'[c][d] = IF c \in T /\ d = e THEN p ELSE ckpt[c][d]
    BY <1>2, <1>4 DEF Written, Checked, EventsOK
  <1>6. ASSUME NEW c \in Clusters, NEW d \in Docs
        PROVE  \/ store'[c][d] \in {store[c][d], log[Newest(d)].body}
               \/ Newest(d) \in InFlight' /\ Mutation(Newest(d)) /\ c \in log[Newest(d)].targets
               \/ ~Covered(c, d)
    <2>1. CASE ~(c \in T /\ d = e)
      BY <1>5, <2>1
    <2>2. CASE c \in T /\ d = e
      <3>1. p \in Of(d) /\ c \in log[p].targets /\ ~Superseded(p)
        BY <1>2, <1>3, <2>2 DEF Of
      <3> QED
        BY <1>3, <1>5, <2>2, <3>1 DEF Covered
    <2> QED
      BY <2>1, <2>2
  <1>7. ASSUME NEW d \in Docs, NEW c \in Clusters
        PROVE  ckpt[c][d] <= ckpt'[c][d] /\ ckpt'[c][d] <= Newest(d)
    <2>1. ckpt[c][d] \in Nat /\ ckpt[c][d] <= Newest(d) /\ Newest(d) \in Nat
      BY NewestIs DEF EventsOK
    <2>2. p <= Newest(e)
      BY <1>4, NewestIs DEF Latest
    <2>3. c \in T /\ d = e => ~(ckpt[c][d] > p)
      BY <1>2 DEF Superseded
    <2> QED
      BY <1>4, <1>5, <2>1, <2>2, <2>3
  <1> QED
    <2>1. /\ EventsOK' /\ DualKept
          /\ \A c \in Clusters, d \in Docs :
                \/ /\ store'[c][d] \in {store[c][d], log[Newest(d)].body}
                   /\ Newest(d) \in InFlight \ InFlight' /\ c \in log[Newest(d)].targets =>
                         store'[c][d] = log[Newest(d)].body
                \/ Newest(d) \in InFlight' /\ Mutation(Newest(d)) /\ c \in log[Newest(d)].targets
                => Kept(c, d)
      BY <1>1, <1>3, <1>5, <1>7, LogStays
    <2>2. \A c \in Clusters, d \in Docs : Kept(c, d)
      BY <1>3, <1>6, <2>1 DEF Kept
    <2> QED
      BY <1>2, <1>4, <1>5, <2>1, <2>2

(* MovedKeeps: events go from the outbox, or from the dead letters, to the *)
(* topic; and steps that leave the events alone.                           *)
LEMMA MovedKeeps ==
    ASSUME RolloutInv, EventsOK, UNCHANGED <<log, ckpt, route>>, topic' \in Seq(Nat),
           InFlight' = InFlight, store' \in [Clusters -> [Docs -> Nat]]
    PROVE  /\ EventsOK' /\ DualKept
           /\ \A c \in Clusters, d \in Docs : store'[c][d] = store[c][d] => Kept(c, d)
  <1>1. /\ ckpt' \in [Clusters -> [Docs -> Nat]]
        /\ \A d \in Docs, c \in Clusters : ckpt[c][d] <= ckpt'[c][d] /\ ckpt'[c][d] <= Newest(d)
    <2>1. ASSUME NEW d \in Docs, NEW c \in Clusters
          PROVE  ckpt[c][d] \in Nat /\ ckpt[c][d] <= Newest(d)
      BY DEF EventsOK
    <2> QED
      BY <2>1 DEF EventsOK
  <1>2. /\ EventsOK' /\ DualKept
        /\ \A c \in Clusters, d \in Docs :
              \/ /\ store'[c][d] \in {store[c][d], log[Newest(d)].body}
                 /\ Newest(d) \in InFlight \ InFlight' /\ c \in log[Newest(d)].targets =>
                       store'[c][d] = log[Newest(d)].body
              \/ Newest(d) \in InFlight' /\ Mutation(Newest(d)) /\ c \in log[Newest(d)].targets
              => Kept(c, d)
    BY <1>1, LogStays
  <1> QED
    BY <1>2

-----------------------------------------------------------------------------
(* Handlers *)

\* The placements that are up to date or about to be said to be.
Needed == Live(rec) \cup (IF rec.phase = "verifying" THEN {rec.to} ELSE {})

CoverKept ==
    /\ \A m \in Needed, d \in Docs : Kept(Home(m), d)
    /\ rec.phase \in {"backfill", "verifying"} => DualKept

(* WorkKept: what a handler has worked out stays true while the record is  *)
(* the one it read.                                                        *)
LEMMA WorkKept ==
    ASSUME RolloutInv, rec' = rec, AllLoaded => AllLoaded', Len(log') \in Nat,
           log' = log \/ Len(log') > Len(log), CoverKept, NEW j, JobOK(j), WorkOK(j),
           j.exp = rev' => rev' = rev
    PROVE  WorkOK(j)'
  <1>1. Len(log) \in Nat
    BY Standing
  <1>2. /\ j.step \in {"source", "candidate"} =>
              "start" \in DOMAIN j /\ j.start \in Nat /\ j.start <= Len(log')
        /\ j.step = "repair" => "todo" \in DOMAIN j /\ j.todo \subseteq 1 .. Len(log')
    BY <1>1 DEF WorkOK
  <1>3. AllLoaded => AllLoaded'
    OBVIOUS
  <1>4. j.rec.barrier \in Int /\ j.rec.barrier <= Len(log)
    BY Fields DEF JobOK, RolloutOK
  <1>5. rec.phase = "verifying" =>
              \A d \in Docs : Covered(Home(rec.to), d) => Covered(Home(rec.to), d)'
    BY DEF CoverKept, Needed, Kept
  <1>6. ASSUME j.exp = rev' PROVE Relies(j)'
    <2>0. Relies(j)
      BY <1>6 DEF WorkOK
    <2>1. j.step \in {"lag", "dlq", "pending"} =>
                j.rec = rec' /\ j.goal \in Allowed[rec'.phase] /\ AllLoaded'
      BY <1>3, <2>0 DEF Relies
    <2>2. j.step \in {"export", "import", "window", "repair"} =>
                rec'.phase = "backfill" /\ j.rec.barrier # Unset /\ Dual(j.rec.barrier)'
      BY <1>4, <2>0 DEF Relies, CoverKept, DualKept
    <2>3. j.step \in {"source", "candidate"} => j.rec = rec' /\ rec'.phase = "verifying"
      BY <2>0 DEF Relies
    <2>4. ASSUME j.step = "candidate", j.start = Len(log'), NEW d \in Docs
          PROVE  j.src[d] = log'[Newest(d)'].body \/ Covered(Home(rec.to), d)'
      <3>1. j.start <= Len(log) /\ j.start \in Nat
        BY <2>4 DEF WorkOK
      <3>2. log' = log
        BY <1>1, <2>4, <3>1
      <3>3. Newest(d)' = Newest(d)
        BY <3>2, NewestSame
      <3>4. j.src[d] = log[Newest(d)].body \/ Covered(Home(rec.to), d)
        BY <2>0, <2>4, <3>2 DEF Relies
      <3>5. rec.phase = "verifying"
        BY <2>0, <2>4 DEF Relies
      <3> QED
        BY <1>5, <3>2, <3>3, <3>4, <3>5
    <2>5. ASSUME j.step = "commit" PROVE MayFollow(j.rec)'
      <3>1. MayFollow(j.rec)
        BY <2>0, <2>5 DEF Relies
      <3>2. CASE rec.phase \in Terminal \cup {"none"} /\ j.rec = Draft(rec)
        BY <3>2 DEF MayFollow
      <3>3. CASE /\ AllLoaded
                 /\ \E goal \in Allowed[rec.phase] :
                       /\ j.rec = Moved(rec, goal)
                       /\ goal = "verifying" => rec.complete /\ rec.barrier # Unset
                       /\ goal = "cutover" => rec.parity
        BY <1>3, <3>3 DEF MayFollow
      <3>4. CASE /\ rec.phase = "backfill" /\ j.rec.phase = "backfill"
                 /\ j.rec.from = rec.from /\ j.rec.to = rec.to
                 /\ ~j.rec.parity /\ (j.rec.complete => j.rec.raw)
                 /\ j.rec.barrier # Unset /\ Dual(j.rec.barrier)
        <4>1. Dual(j.rec.barrier)'
          BY <1>4, <3>4 DEF CoverKept, DualKept
        <4> QED
          BY <3>4, <4>1 DEF MayFollow
      <3>5. CASE /\ rec.phase = "verifying"
                 /\ \E passed \in BOOLEAN :
                       /\ j.rec = Verified(rec, passed)
                       /\ passed => \A d \in Docs : Covered(Home(rec.to), d)
        BY <1>5, <3>5 DEF MayFollow
      <3> QED
        BY <3>1, <3>2, <3>3, <3>4, <3>5 DEF MayFollow
    <2> QED
      BY <2>1, <2>2, <2>3, <2>4, <2>5 DEF Relies
  <1> QED
    BY <1>2, <1>6 DEF WorkOK

(* PlacedKept: a step that leaves the record and the runtimes alone.       *)
LEMMA PlacedKept ==
    ASSUME PlacedInv, RolloutInv', EventsOK', UNCHANGED <<rec, rev, view, cur>>,
           log' = log \/ Len(log') > Len(log), CoverKept,
           route' # Nil => route' = route \/ \A m \in Live(rec) : Home(m) \in route'.targets,
           \/ UNCHANGED job
           \/ \E o \in Operators : \E j : job' = [job EXCEPT ![o] = j] /\ (j = Nil \/ WorkOK(j)'),
           Untouched => Fresh'
    PROVE  PlacedInv'
  <1>0. Len(log') \in Nat /\ Len(log) \in Nat
    BY LenProperties DEF RolloutInv, PlacedInv
  <1>1. PhaseOK(rec)'
    BY DEF PlacedInv, PhaseOK
  <1>2. \A r \in Replicas : Lags(view[r])'
    BY DEF PlacedInv, Lags
  <1>3. ASSUME NEW m \in Live(rec)'
        PROVE  /\ \A d \in Docs : Covered(Home(m), d)'
               /\ route' # Nil => Home(m) \in route'.targets
    <2>1. m \in Live(rec)
      BY DEF Live
    <2>2. \A d \in Docs : Covered(Home(m), d)'
      BY <2>1 DEF PlacedInv, CoverKept, Needed, Kept
    <2> QED
      BY <2>1, <2>2 DEF PlacedInv
  <1>4. (rec.phase \in {"backfill", "verifying"} /\ rec.barrier # Unset => Dual(rec.barrier))'
    <2> SUFFICES ASSUME rec.phase \in {"backfill", "verifying"}, rec.barrier # Unset
                 PROVE  Dual(rec.barrier)'
      OBVIOUS
    <2>1. PICK n : n = rec.barrier
      OBVIOUS
    <2>2. n \in Int /\ n <= Len(log) /\ Dual(n)
      BY <2>1, Fields DEF PlacedInv, RolloutInv, RolloutOK
    <2>3. Dual(n)'
      BY <2>2 DEF CoverKept, DualKept
    <2> QED
      BY <2>1, <2>3
  <1>5. ASSUME NEW o \in Operators, job'[o] # Nil PROVE WorkOK(job[o])'
    <2>1. PICK k : k = job'[o]
      OBVIOUS
    <2>2. ASSUME k = job[o] PROVE WorkOK(k)'
      <3>1. JobOK(k) /\ WorkOK(k)
        BY <1>5, <2>1, <2>2 DEF PlacedInv, RolloutInv
      <3> QED
        BY <1>0, <3>1, WorkKept DEF PlacedInv, AllLoaded
    <2>3. WorkOK(k)'
      <3>1. CASE UNCHANGED job
        BY <2>1, <2>2, <3>1
      <3>2. ASSUME NEW p \in Operators, NEW j, job' = [job EXCEPT ![p] = j], j = Nil \/ WorkOK(j)'
            PROVE  WorkOK(k)'
        <4>1. job'[o] = IF o = p THEN j ELSE job[o]
          BY <3>2 DEF PlacedInv, RolloutInv
        <4> QED
          BY <1>5, <2>1, <2>2, <3>2, <4>1
      <3> QED
        BY <3>1, <3>2
    <2> QED
      BY <2>1, <2>3
  <1>6. Untouched' => Fresh'
    BY DEF Untouched
  <1> QED
    BY <1>1, <1>2, <1>3, <1>4, <1>5, <1>6 DEF PlacedInv

(* Still: nothing moves on the way to the providers.                       *)
LEMMA Still ==
    ASSUME RolloutInv, EventsOK, UNCHANGED <<log, pending, topic, dlq, store, ckpt, route>>
    PROVE  /\ EventsOK' /\ DualKept /\ CoverKept
           /\ \A c : \A d \in Docs : Kept(c, d)
  <1>1. InFlight' = InFlight
    BY DEF InFlight
  <1>2. EventsOK' /\ DualKept
    BY <1>1, MovedKeeps DEF EventsOK
  <1>3. ASSUME NEW c, NEW d \in Docs PROVE Kept(c, d)
    <2>1. Newest(d)' = Newest(d)
      BY NewestSame
    <2> QED
      BY <1>1, <2>1 DEF Kept, Covered, Mutation, Superseded, Of
  <1> QED
    BY <1>2, <1>3 DEF CoverKept

(* HandlePlaced: a handler goes on, or it is over.                         *)
LEMMA HandlePlaced ==
    ASSUME PlacedInv, RolloutInv', NEW o \in Operators, NEW j, Handle(o, j),
           j = Nil \/ WorkOK(j), Untouched => j = Nil \/ Drafting(j)
    PROVE  PlacedInv'
  <1>1. /\ job' = [job EXCEPT ![o] = j]
        /\ UNCHANGED <<log, pending, topic, dlq, store, ckpt, rec, rev, view, cur, route>>
    BY DEF Handle, events, data, config
  <1>5. EventsOK' /\ CoverKept
    BY <1>1, Still DEF PlacedInv
  <1>6. job'[o] = j /\ \A p \in Operators : job'[p] = IF p = o THEN j ELSE job[p]
    BY <1>1 DEF PlacedInv, RolloutInv
  <1>7. j = Nil \/ WorkOK(j)'
    <2>1. ASSUME j # Nil PROVE WorkOK(j)'
      <3>1. JobOK(j)'
        BY <1>6, <2>1 DEF RolloutInv, JobOK, StepOK, RolloutOK
      <3>2. JobOK(j)
        BY <1>1, <3>1 DEF JobOK, StepOK, RolloutOK
      <3>3. Len(log') \in Nat
        BY <1>1, Standing DEF PlacedInv
      <3> QED
        BY <1>1, <1>5, <2>1, <3>2, <3>3, WorkKept DEF PlacedInv, AllLoaded
    <2> QED
      BY <2>1
  <1>8. Untouched => Fresh'
    <2> SUFFICES ASSUME Untouched PROVE Fresh'
      OBVIOUS
    <2>1. Fresh
      BY DEF PlacedInv
    <2>2. \A p \in Operators : job'[p] # Nil => Drafting(job'[p])
      BY <1>6, <2>1 DEF Fresh
    <2> QED
      BY <1>1, <2>1, <2>2 DEF Fresh
  <1> QED
    BY <1>1, <1>5, <1>7, <1>8, PlacedKept

-----------------------------------------------------------------------------
(* Phases *)

(* Preceding: the phases that a phase can follow.                          *)
LEMMA Preceding ==
    ASSUME NEW p \in DOMAIN Allowed, NEW q \in Allowed[p]
    PROVE  /\ q \in DOMAIN Allowed /\ q \notin {"none", "draft"}
           /\ q = "validating" => p = "draft"
           /\ q = "dual_write" => p = "validating"
           /\ q = "backfill" => p \in {"dual_write", "verifying"}
           /\ q = "verifying" => p = "backfill"
           /\ q = "cutover" => p = "verifying"
           /\ q = "drain" => p = "cutover"
           /\ q = "completed" => p = "drain"
           /\ q = "cancelled" => p \in {"draft", "validating"}
           /\ q = "rolled_back" => p = "rolling_back"
           /\ q = "rolling_back" => p \in {"dual_write", "backfill", "verifying", "cutover",
                                          "drain", "failed"}
           /\ q = "failed" => p \in {"validating", "dual_write", "backfill", "verifying",
                                    "cutover", "drain", "rolling_back"}
  <1>1. p \in {"draft", "validating", "dual_write", "backfill", "verifying", "cutover", "drain",
               "failed", "rolling_back", "completed", "cancelled", "rolled_back", "none"}
    BY DEF Allowed
  <1>2. /\ p = "draft" => q \in {"validating", "cancelled"}
        /\ p = "validating" => q \in {"dual_write", "failed", "cancelled"}
        /\ p = "dual_write" => q \in {"backfill", "rolling_back", "failed"}
        /\ p = "backfill" => q \in {"verifying", "rolling_back", "failed"}
        /\ p = "verifying" => q \in {"backfill", "cutover", "rolling_back", "failed"}
        /\ p = "cutover" => q \in {"drain", "rolling_back", "failed"}
        /\ p = "drain" => q \in {"completed", "rolling_back", "failed"}
        /\ p = "failed" => q \in {"rolling_back"}
        /\ p = "rolling_back" => q \in {"rolled_back", "failed"}
        /\ p \notin {"completed", "cancelled", "rolled_back", "none"}
    BY DEF Allowed
  <1>3. q \in DOMAIN Allowed
    BY <1>1, <1>2 DEF Allowed
  <1> QED
    BY <1>1, <1>2, <1>3

(* Modes: what a record reads and writes.                                  *)
LEMMA Modes ==
    ASSUME NEW v
    PROVE  /\ v.phase \in {"none", "draft", "validating", "cancelled", "rolled_back"} =>
                 ReadModes(v) = {v.from} /\ WriteModes(v) = {v.from}
           /\ v.phase = "completed" => ReadModes(v) = {v.to} /\ WriteModes(v) = {v.to}
           /\ v.phase \in {"cutover", "drain"} =>
                 ReadModes(v) = {v.to} /\ WriteModes(v) = {v.from, v.to}
           /\ v.phase \in {"dual_write", "backfill", "verifying", "rolling_back", "failed"} =>
                 ReadModes(v) = {v.from, v.to} /\ WriteModes(v) = {v.from, v.to}
  BY DEF ReadModes, WriteModes

(* Reading: what a runtime reads and writes, beside what is up to date.    *)
LEMMA Reading ==
    ASSUME RolloutInv, PhaseOK(rec), NEW r \in Replicas, Lags(view[r])
    PROVE  LET v == view[r] IN
           /\ v.from # v.to /\ v.from \in {"old", "new"} /\ v.to \in {"old", "new"}
           /\ Live(rec) \subseteq WriteModes(v) /\ WriteModes(v) \subseteq {"old", "new"}
           /\ rec.phase \in {"backfill", "verifying"} => WriteModes(v) = {"old", "new"}
           /\ ReadModes(v) \cap Live(rec) # {} /\ ReadModes(v) \subseteq {"old", "new"}
           /\ ReadModes(v) = {v.from, v.to} \/ ReadModes(v) \subseteq Live(rec)
  <1>1. PICK v : v = view[r]
    OBVIOUS
  <1>2. /\ v.phase \in DOMAIN Allowed /\ rec.phase \in DOMAIN Allowed
        /\ v.from \in {"old", "new"} /\ v.to \in {"old", "new"}
        /\ rec.from \in {"old", "new"} /\ rec.to \in {"old", "new"}
        /\ rec.parity \in BOOLEAN
    BY <1>1, Standing, Fields DEF RolloutInv, RolloutOK
  <1>3. v.from # v.to
    BY <1>1, <1>2 DEF Lags, PhaseOK
  <1> DEFINE L == Live(rec)
             R == ReadModes(v)
             W == WriteModes(v)
             Goal == /\ L \subseteq W /\ W \subseteq {"old", "new"}
                     /\ rec.phase \in {"backfill", "verifying"} => W = {"old", "new"}
                     /\ R \cap L # {} /\ R \subseteq {"old", "new"}
                     /\ R = {v.from, v.to} \/ R \subseteq L
  <1>4. /\ v.phase \in {"draft", "validating", "dual_write", "backfill", "verifying", "cutover",
                        "drain", "failed", "rolling_back", "completed", "cancelled",
                        "rolled_back", "none"}
        /\ rec.phase \in {"draft", "validating", "dual_write", "backfill", "verifying", "cutover",
                          "drain", "failed", "rolling_back", "completed", "cancelled",
                          "rolled_back", "none"}
    BY <1>2 DEF Allowed
  <1>5. /\ L \subseteq {rec.from, rec.to}
        /\ rec.phase = "completed" => L = {rec.to}
        /\ rec.phase # "completed" => rec.from \in L
        /\ rec.phase \notin Paired \cup {"completed"} => L = {rec.from}
        /\ rec.parity /\ rec.phase \in Paired => L = {rec.from, rec.to}
        /\ ~rec.parity /\ rec.phase # "completed" => L = {rec.from}
    BY <1>2 DEF Live, Paired
  <1>6. CASE /\ v.from = rec.to /\ v.to = rec.from
             /\ rec.phase = "draft" /\ v.phase \in {"drain", "completed"}
    <2>1. L = {rec.from}
      BY <1>5, <1>6 DEF Paired
    <2>2. R = {v.to} /\ v.to \in W /\ W \subseteq {v.from, v.to}
      BY <1>6, Modes
    <2>3. Goal
      BY <1>2, <1>6, <2>1, <2>2
    <2> QED
      BY <1>1, <1>2, <1>3, <2>3
  <1>7. CASE /\ v.from = rec.from /\ v.to = rec.to
             /\ \/ v.phase = rec.phase \/ rec.phase \in Allowed[v.phase]
                \/ /\ rec.phase = "draft"
                   /\ v.phase \in {"none", "validating", "cancelled", "rolling_back", "rolled_back"}
             /\ IF rec.parity THEN v.phase \notin {"none", "draft", "validating"}
                              ELSE v.phase \notin {"cutover", "drain", "completed"}
    <2>0. {v.from, v.to} = {"old", "new"}
      BY <1>2, <1>3
    <2>1. CASE v.phase \in {"none", "draft", "validating", "cancelled", "rolled_back"}
      <3>1. R = {v.from} /\ W = {v.from}
        BY <2>1, Modes
      <3>2. L = {rec.from} /\ rec.phase \notin {"backfill", "verifying"}
        BY <1>2, <1>4, <1>5, <1>7, <2>1, Preceding DEF PhaseOK, Paired
      <3>3. Goal
        BY <1>2, <1>7, <3>1, <3>2
      <3> QED
        BY <1>1, <1>2, <1>3, <3>3
    <2>2. CASE v.phase = "completed"
      <3>1. R = {v.to} /\ W = {v.to}
        BY <2>2, Modes
      <3>2. rec.phase = "completed"
        BY <1>2, <1>4, <1>7, <2>2, Preceding
      <3>3. Goal
        BY <1>2, <1>5, <1>7, <3>1, <3>2
      <3> QED
        BY <1>1, <1>2, <1>3, <3>3
    <2>3. CASE v.phase \in {"cutover", "drain"}
      <3>1. R = {v.to} /\ W = {v.from, v.to}
        BY <2>3, Modes
      <3>2. rec.phase \in {"cutover", "drain", "completed", "rolling_back", "failed"}
        BY <1>2, <1>4, <1>7, <2>3, Preceding
      <3>3. rec.to \in L
        BY <1>2, <1>5, <1>7, <2>3, <3>2 DEF Paired, PhaseOK
      <3>4. Goal
        BY <1>2, <1>5, <1>7, <2>0, <3>1, <3>3
      <3> QED
        BY <1>1, <1>2, <1>3, <3>4
    <2>4. CASE v.phase \in {"dual_write", "backfill", "verifying", "rolling_back", "failed"}
      <3>1. R = {v.from, v.to} /\ W = {v.from, v.to}
        BY <2>4, Modes
      <3>2. R \cap L # {}
        BY <1>4, <1>5, <1>7, <3>1
      <3>3. Goal
        BY <1>2, <1>5, <1>7, <2>0, <3>1, <3>2
      <3> QED
        BY <1>1, <1>2, <1>3, <3>3
    <2> QED
      BY <1>4, <2>1, <2>2, <2>3, <2>4
  <1> QED
    BY <1>1, <1>6, <1>7 DEF Lags

-----------------------------------------------------------------------------
(* The steps that are no handler's *)

(* Homely: what a whole move needs is a placement of one of its policies.  *)
LEMMA Homely ==
    ASSUME WholeMove, PlacedInv
    PROVE  /\ Needed \subseteq {"old", "new"} /\ Live(rec) \subseteq Needed
           /\ \A m \in Needed : Home(m) \in Clusters
           /\ route # Nil => \A m \in Needed : Home(m) \in route.targets
  <1>1. rec.from \in {"old", "new"} /\ rec.to \in {"old", "new"}
    BY Fields DEF PlacedInv, RolloutInv, RolloutOK
  <1>2. Needed \subseteq {"old", "new"} /\ Live(rec) \subseteq Needed
    BY <1>1 DEF Needed, Live
  <1>3. ASSUME route # Nil, NEW m \in Needed PROVE Home(m) \in route.targets
    <2>1. CASE m \in Live(rec)
      BY <1>3, <2>1 DEF PlacedInv
    <2>2. CASE m \notin Live(rec)
      <3>1. rec.phase = "verifying"
        BY <1>3, <2>2 DEF Needed
      <3>2. Dual(rec.barrier)
        BY <3>1 DEF PlacedInv, PhaseOK
      <3>3. Both(route.targets)
        BY <1>3, <3>2 DEF Dual
      <3> QED
        BY <1>2, <3>3 DEF Both
    <2> QED
      BY <2>1, <2>2
  <1> QED
    BY <1>2, <1>3, Homes

(* EventPlaced: an event is published, handled, given up or sent again.    *)
LEMMA EventPlaced ==
    ASSUME WholeMove, PlacedInv, RolloutInv', UNCHANGED <<rec, rev, view, cur, job>>,
           \/ \E p \in pending : Publish(p)
           \/ \E p \in dlq : Replay(p)
           \/ Index \/ DeadLetter
    PROVE  PlacedInv'
  <1> USE DEF PlacedInv
  <1>1. /\ EventsOK' /\ DualKept /\ log' = log /\ route' = route
        /\ \A c \in Clusters, d \in Docs :
              /\ Kept(c, d)
              /\ store'[c][d] = store[c][d] \/ \E q \in DOMAIN log :
                    c \in log[q].targets /\ store'[c][d] = log[q].body
    <2>1. CASE (\E p \in pending : Publish(p)) \/ (\E p \in dlq : Replay(p))
      <3>1. PICK p \in pending \cup dlq :
                  /\ topic' = Append(topic, p)
                  /\ pending' \cup dlq' \cup {p} = pending \cup dlq
                  /\ UNCHANGED <<log, data, route>>
        BY <2>1 DEF Publish, Replay
      <3>2. p \in Nat /\ Len(log) \in Nat
        BY <3>1, Standing DEF EventsOK, InFlight
      <3>3. topic' \in Seq(Nat) /\ Range(topic') = Range(topic) \cup {p}
        BY <3>1, <3>2, Ranges DEF EventsOK
      <3>4. InFlight' = InFlight
        BY <3>1, <3>3 DEF InFlight
      <3> QED
        BY <3>1, <3>3, <3>4, MovedKeeps DEF data, EventsOK
    <2>2. CASE Index
      BY <2>2, IndexKeeps DEF Index
    <2>3. CASE DeadLetter
      BY <2>3, DeadLetterKeeps DEF DeadLetter
    <2> QED
      BY <2>1, <2>2, <2>3
  <1>2. CoverKept
    BY <1>1, Homely DEF CoverKept
  <1>3. Untouched => Fresh'
    <2> SUFFICES ASSUME Untouched PROVE Fresh'
      OBVIOUS
    <2>1. Fresh
      OBVIOUS
    <2>2. ASSUME NEW c \in Clusters \ {Home("old")}, NEW d \in Docs PROVE store'[c][d] = 0
      BY <1>1, <2>1 DEF Fresh
    <2> QED
      BY <1>1, <2>1, <2>2 DEF Fresh
  <1> QED
    BY <1>1, <1>2, <1>3, PlacedKept

(* InRuntime: a replica routes by its record, or by one that a handler has *)
(* put into its runtime and not committed.                                 *)
LEMMA InRuntime ==
    ASSUME NEW r
    PROVE  \/ Runtime(r) = view[r]
           \/ \E o \in Operators : /\ job[o] # Nil /\ job[o].at = r /\ job[o].step = "commit"
                                   /\ Runtime(r) = job[o].rec
                                   /\ ~Lost(r) => job[o].exp = rev
  <1>1. CASE Free(r)
    BY <1>1 DEF Runtime
  <1>2. CASE ~Free(r)
    <2>1. PICK o : o = CHOOSE q \in Installing(r) : TRUE
      OBVIOUS
    <2>2. o \in Installing(r)
      BY <1>2, <2>1 DEF Free
    <2>3. Runtime(r) = Shown(view[r], job[o].rec)
      BY <1>2, <2>1 DEF Runtime
    <2> QED
      BY <2>2, <2>3 DEF Shown, Installing, Lost
  <1> QED
    BY <1>1, <1>2

(* RoutePlaced: a replica that is behind, or ahead, routes to every        *)
(* placement that is up to date.                                           *)
LEMMA RoutePlaced ==
    ASSUME WholeMove, PlacedInv, RolloutInv', NEW r \in Replicas, NEW d \in Docs,
           NEW gone \in BOOLEAN, Route(r, d, gone)
    PROVE  PlacedInv'
  <1> DEFINE T == IF gone THEN Clusters ELSE WriteTargets(Runtime(r), d)
  <1>1. /\ route' = [doc |-> d, gone |-> gone, targets |-> T]
        /\ UNCHANGED <<log, pending, topic, dlq, store, ckpt, rec, rev, view, cur, job>>
    BY DEF Route, events, data, config
  <1>9. WriteTargets(view[r], d) \subseteq WriteTargets(Runtime(r), d)
    BY DEF Route, WholeMove
  <1>10. WriteModes(Runtime(r)) \subseteq {"old", "new"}
    <2>1. PICK v : v = Runtime(r)
      OBVIOUS
    <2>2. v \in Rollouts
      <3>1. view[r] \in Rollouts
        BY Standing DEF PlacedInv
      <3>2. \A o \in Operators : job[o] # Nil => job[o].rec \in Rollouts
        BY DEF PlacedInv, RolloutInv, JobOK, RolloutOK
      <3> QED
        BY <2>1, <3>1, <3>2, InRuntime
    <2>3. v.from \in {"old", "new"} /\ v.to \in {"old", "new"}
      BY <2>2, Fields
    <2> QED
      BY <2>1, <2>3 DEF WriteModes, ReadModes
  <1>2. /\ WriteModes(view[r]) \subseteq {"old", "new"} /\ Live(rec) \subseteq WriteModes(view[r])
        /\ rec.phase \in {"backfill", "verifying"} => WriteModes(view[r]) = {"old", "new"}
    BY Reading DEF PlacedInv
  <1>3. /\ T \subseteq Clusters
        /\ \A m \in Live(rec) : Home(m) \in T
        /\ rec.phase \in {"backfill", "verifying"} => Both(T)
    <2>1. WriteTargets(view[r], d) = {Home(p) : p \in WriteModes(view[r])}
      BY <1>2, Homes DEF WriteTargets
    <2>2. WriteTargets(Runtime(r), d) = {Home(p) : p \in WriteModes(Runtime(r))}
      BY <1>10, Homes DEF WriteTargets
    <2>3. WriteTargets(Runtime(r), d) \subseteq Clusters
      BY <1>10, <2>2, Homes
    <2>4. WriteTargets(view[r], d) \subseteq T
      BY <1>2, <1>9, <2>1, Homes
    <2> QED
      BY <1>2, <2>1, <2>3, <2>4, Homes DEF Both
  <1> HIDE DEF T
  <1>4. InFlight' = InFlight
    BY <1>1 DEF InFlight
  <1>5. ASSUME NEW x \in Docs PROVE Newest(x)' = Newest(x)
    BY <1>1, NewestSame
  <1>6. EventsOK'
    <2>1. route'.doc \in Docs /\ route'.targets \subseteq Clusters
      BY <1>1, <1>3
    <2>2. /\ (store \in [Clusters -> [Docs -> Nat]])' /\ (ckpt \in [Clusters -> [Docs -> Nat]])'
          /\ (topic \in Seq(Nat))' /\ InFlight' \subseteq DOMAIN log'
          /\ \A p \in DOMAIN log' :
                log'[p].doc \in Docs /\ log'[p].body \in Nat /\ log'[p].targets \subseteq Clusters
      BY <1>1, <1>4 DEF PlacedInv, EventsOK
    <2>3. ASSUME NEW x \in Docs
          PROVE  /\ \E p \in DOMAIN log' : log'[p].doc = x
                 /\ \A c \in Clusters : ckpt'[c][x] <= Newest(x)'
                 /\ Newest(x)' \notin InFlight' =>
                       \A c \in log'[Newest(x)'].targets : ckpt'[c][x] = Newest(x)'
                 /\ ~Mutation(Newest(x))' => Of(x)' \subseteq {Newest(x)'}
      BY <1>1, <1>4, <1>5 DEF PlacedInv, EventsOK, Mutation, Of
    <2> QED
      BY <2>1, <2>2, <2>3 DEF EventsOK
  <1>7. CoverKept
    <2>1. ASSUME NEW m, NEW x \in Docs PROVE Kept(Home(m), x)
      BY <1>1, <1>4, <1>5 DEF Kept, Covered, Mutation, Superseded, Of
    <2>2. ASSUME rec.phase \in {"backfill", "verifying"}, NEW n \in Int, Dual(n) PROVE Dual(n)'
      BY <1>1, <1>3, <1>4, <2>2 DEF Dual, Both, Mutation
    <2> QED
      BY <2>1, <2>2 DEF CoverKept, DualKept
  <1>8. Untouched => Fresh'
    <2> SUFFICES ASSUME Untouched PROVE Fresh'
      OBVIOUS
    <2>1. Fresh
      BY DEF PlacedInv
    <2>2. gone \/ T = {Home("old")}
      <3>1. WriteModes(Runtime(r)) = {"old"}
        <4>1. PICK v : v = Runtime(r)
          OBVIOUS
        <4>2. v.from = "old" /\ v.phase \in {"none", "draft"}
          BY <2>1, <4>1, InRuntime DEF Fresh, Drafting
        <4> QED
          BY <4>1, <4>2, Modes
      <3> QED
        BY <3>1, Homes DEF T, WriteTargets
    <2> QED
      BY <1>1, <2>1, <2>2 DEF Fresh
  <1> QED
    BY <1>1, <1>3, <1>6, <1>7, <1>8, PlacedKept

(* AcceptPlaced: what was routed is recorded.                              *)
LEMMA AcceptPlaced ==
    ASSUME WholeMove, PlacedInv, RolloutInv', Accept
    PROVE  PlacedInv'
  <1> DEFINE e == Event(route.doc, IF route.gone THEN 0 ELSE Len(log) + 1, route.targets, Nil)
  <1>1. /\ route # Nil /\ Record(e) /\ route' = Nil
        /\ UNCHANGED <<topic, dlq, data, rec, rev, view, cur, job>> /\ UNCHANGED store
    BY DEF Accept, data, config
  <1>2. /\ e.doc = route.doc /\ e.targets = route.targets /\ e.repair = Nil
        /\ e.body = IF route.gone THEN 0 ELSE Len(log) + 1
    BY DEF Event
  <1>3. Len(log) \in Nat /\ route.doc \in Docs /\ route.targets \subseteq Clusters
    BY <1>1, Standing DEF PlacedInv, EventsOK
  <1> HIDE DEF e
  <1>4. e.doc \in Docs /\ e.body \in Nat /\ e.targets \subseteq Clusters
    BY <1>2, <1>3
  <1>5. /\ EventsOK' /\ DualKept
        /\ \A c \in Clusters, d \in Docs :
              (e.repair = Nil /\ e.doc = d => c \in e.targets) => Kept(c, d)
    BY <1>1, <1>2, <1>4, RecordKeeps DEF PlacedInv
  <1>6. CoverKept
    BY <1>1, <1>2, <1>5, Homely DEF CoverKept
  <1>7. /\ Len(log') = Len(log) + 1 /\ DOMAIN log' = 1 .. Len(log) + 1
        /\ log'[Len(log) + 1] = e /\ \A p \in DOMAIN log : log'[p] = log[p]
        /\ DOMAIN log = 1 .. Len(log)
    BY <1>1, Grown, Standing DEF PlacedInv
  <1>8. Untouched => Fresh'
    <2> SUFFICES ASSUME Untouched PROVE Fresh'
      OBVIOUS
    <2>1. Fresh
      BY DEF PlacedInv
    <2>2. ASSUME NEW p \in DOMAIN log'
          PROVE  log'[p].targets = {Home("old")} \/ log'[p].body = 0
      <3>1. CASE p = Len(log) + 1
        BY <1>1, <1>2, <1>7, <2>1, <3>1 DEF Fresh
      <3>2. CASE p # Len(log) + 1
        <4>1. p \in DOMAIN log /\ log'[p] = log[p]
          BY <1>3, <1>7, <3>2
        <4> QED
          BY <2>1, <4>1 DEF Fresh
      <3> QED
        BY <3>1, <3>2
    <2> QED
      BY <1>1, <2>1, <2>2 DEF Fresh
  <1>9. Len(log') > Len(log)
    BY <1>3, <1>7
  <1> QED
    BY <1>1, <1>5, <1>6, <1>8, <1>9, PlacedKept

-----------------------------------------------------------------------------
(* The steps of the handlers *)

(* Current: a replica of the committed revision has the committed record,   *)
(* and while no rollout has begun there is no handler to go on.            *)
LEMMA Current ==
    ASSUME WholeMove, PlacedInv
    PROVE  /\ \A r \in Replicas : cur[r] = rev => view[r] = rec
           /\ Lapses = {}
           /\ \A o \in Operators : job[o] # Nil =>
                 /\ JobOK(job[o]) /\ WorkOK(job[o])
                 /\ Untouched => job[o].step = "commit"
           /\ \A r \in Replicas : Untouched =>
                 /\ view[r].phase \in {"none", "draft"}
                 /\ AllLoaded => view[r].phase = "none"
  <1>1. \A r \in Replicas : cur[r] = rev => view[r] = rec
    BY Standing DEF PlacedInv
  <1>2. \A o \in Operators : job[o] # Nil =>
              JobOK(job[o]) /\ WorkOK(job[o]) /\ (Untouched => job[o].step = "commit")
    BY DEF PlacedInv, RolloutInv, Fresh, Drafting
  <1>3. ASSUME NEW r \in Replicas, Untouched
        PROVE  /\ view[r].phase \in {"none", "draft"}
               /\ AllLoaded => view[r].phase = "none"
    <2>1. view[r].phase \in {"none", "draft"}
      BY <1>3 DEF PlacedInv, Fresh
    <2>2. rec.phase = "none" \/ \E q \in Replicas : view[q].phase = "none"
      BY <1>3 DEF Untouched
    <2> QED
      BY <2>1, <2>2 DEF AllLoaded
  <1> QED
    BY <1>1, <1>2, <1>3 DEF WholeMove

(* CreatePlaced: a new rollout begins where the last one ended.            *)
LEMMA CreatePlaced ==
    ASSUME WholeMove, PlacedInv, RolloutInv', NEW o \in Operators, NEW r \in Replicas,
           Create(o, r)
    PROVE  PlacedInv'
  <1> DEFINE j == Job(r, "commit", Draft(view[r]))
  <1>1. Handle(o, j) /\ view[r].phase \in Terminal \cup {"none"}
    BY DEF Create
  <1>2. j.step = "commit" /\ j.exp = cur[r] /\ j.rec = Draft(view[r])
    BY DEF Job
  <1> HIDE DEF j
  <1>3. j.exp = rev => MayFollow(j.rec)
    BY <1>1, <1>2, Current DEF MayFollow
  <1>4. WorkOK(j)
    BY <1>2, <1>3 DEF WorkOK, Relies
  <1>5. Untouched => Drafting(j)
    <2> SUFFICES ASSUME Untouched PROVE Drafting(j)
      OBVIOUS
    <2>1. view[r].from = "old" /\ view[r].phase # "completed"
      BY DEF PlacedInv, Fresh
    <2> QED
      BY <1>2, <2>1 DEF Drafting, Draft
  <1> QED
    BY <1>1, <1>4, <1>5, HandlePlaced

(* TransitionPlaced: the next phase is requested when every replica has    *)
(* loaded the one before.                                                  *)
LEMMA TransitionPlaced ==
    ASSUME WholeMove, PlacedInv, RolloutInv', NEW o \in Operators, NEW r \in Replicas,
           NEW goal \in DOMAIN Allowed, Transition(o, r, goal)
    PROVE  PlacedInv'
  <1>1. goal \in Allowed[view[r].phase] /\ AllLoaded
    BY Current DEF Transition
  <1>2. ~Untouched
    <2>1. Allowed["none"] = {}
      BY DEF Allowed
    <2> QED
      BY <1>1, <2>1, Current
  <1>3. CASE Handle(o, With(Job(r, "lag", view[r]), [goal |-> goal]))
    <2>1. PICK more : more = [goal |-> goal]
      OBVIOUS
    <2> DEFINE i == Job(r, "lag", view[r])
               j == With(i, more)
    <2>2. Handle(o, j)
      BY <1>3, <2>1
    <2>3. /\ DOMAIN i = {"at", "step", "exp", "rec"}
          /\ i.step = "lag" /\ i.exp = cur[r] /\ i.rec = view[r]
      BY DEF Job
    <2> HIDE DEF i
    <2>7. /\ \A x \in DOMAIN i : j[x] = i[x]
          /\ \A x \in DOMAIN more \ DOMAIN i : j[x] = more[x]
      BY Joined
    <2> HIDE DEF j
    <2>8. DOMAIN more = {"goal"} /\ more["goal"] = goal
      BY <2>1
    <2>4. j.step = "lag" /\ j.exp = cur[r] /\ j.rec = view[r] /\ j.goal = goal
      BY <2>3, <2>7, <2>8
    <2>5. j.exp = rev => Relies(j)
      BY <1>1, <2>4, Current DEF Relies
    <2>6. WorkOK(j)
      BY <2>4, <2>5 DEF WorkOK
    <2> QED
      BY <1>2, <2>2, <2>6, HandlePlaced
  <1>4. CASE /\ goal \notin {"cutover", "completed"} /\ GatesPass(view[r], goal, Nil)
             /\ Handle(o, Job(r, "commit", Moved(view[r], goal)))
    <2> DEFINE j == Job(r, "commit", Moved(view[r], goal))
    <2>1. j.step = "commit" /\ j.exp = cur[r] /\ j.rec = Moved(view[r], goal)
      BY DEF Job
    <2>2. goal = "verifying" => view[r].complete /\ view[r].barrier # Unset
      BY <1>4 DEF GatesPass
    <2>3. Handle(o, j)
      BY <1>4
    <2> HIDE DEF j
    <2>4. j.exp = rev => MayFollow(j.rec)
      BY <1>1, <1>4, <2>1, <2>2, Current DEF MayFollow
    <2>5. WorkOK(j)
      BY <2>1, <2>4 DEF WorkOK, Relies
    <2> QED
      BY <1>2, <2>3, <2>5, HandlePlaced
  <1> QED
    BY <1>3, <1>4 DEF Transition

(* MeasurePlaced: lag, dead letters and outbox are measured, and the gates *)
(* tried.                                                                  *)
LEMMA MeasurePlaced ==
    ASSUME WholeMove, PlacedInv, RolloutInv', NEW o \in Operators,
           MeasureLag(o) \/ MeasureDlq(o) \/ MeasurePending(o)
    PROVE  PlacedInv'
  <1>1. PICK j : j = job[o]
    OBVIOUS
  <1>2. JobOK(j) /\ WorkOK(j) /\ j.step \in {"lag", "dlq", "pending"} /\ ~Untouched
    BY <1>1, Current DEF MeasureLag, MeasureDlq, MeasurePending
  <1>3. CASE MeasureLag(o) \/ MeasureDlq(o)
    <2>1. PICK step, more : /\ step \in {"dlq", "pending"} /\ j.step \in {"lag", "dlq"}
                            /\ Handle(o, With([j EXCEPT !.step = step], more))
      BY <1>1, <1>3 DEF MeasureLag, MeasureDlq
    <2> DEFINE i == [j EXCEPT !.step = step]
               k == With(i, more)
    <2>2. /\ DOMAIN i = DOMAIN j /\ i.step = step /\ i.exp = j.exp /\ i.rec = j.rec
          /\ i.goal = j.goal /\ {"step", "exp", "rec", "goal"} \subseteq DOMAIN j
      BY <1>2, <2>1 DEF JobOK, StepOK
    <2> HIDE DEF i
    <2>6. \A x \in DOMAIN i : k[x] = i[x]
      BY Joined
    <2>4. Handle(o, k)
      BY <2>1 DEF i
    <2> HIDE DEF k
    <2>3. k.step = step /\ k.exp = j.exp /\ k.rec = j.rec /\ k.goal = j.goal
      BY <2>2, <2>6
    <2>5. WorkOK(k)
      BY <1>2, <2>1, <2>3 DEF WorkOK, Relies
    <2> QED
      BY <1>2, <2>4, <2>5, HandlePlaced
  <1>4. CASE MeasurePending(o)
    <2> DEFINE k == [Job(j.at, "commit", Moved(j.rec, j.goal)) EXCEPT !.exp = j.exp]
    <2>1. \/ Handle(o, k) /\ \E ev : GatesPass(j.rec, j.goal, ev)
          \/ Handle(o, Nil)
      BY <1>1, <1>4 DEF MeasurePending
    <2>2. k.step = "commit" /\ k.exp = j.exp /\ k.rec = Moved(j.rec, j.goal)
      BY DEF Job
    <2> HIDE DEF k
    <2>3. CASE Handle(o, Nil)
      BY <1>2, <2>3, HandlePlaced
    <2>4. CASE Handle(o, k) /\ \E ev : GatesPass(j.rec, j.goal, ev)
      <3>1. /\ j.goal = "verifying" => j.rec.complete /\ j.rec.barrier # Unset
            /\ j.goal = "cutover" => j.rec.parity
        BY <2>4 DEF GatesPass
      <3>2. j.exp = rev => j.rec = rec /\ j.goal \in Allowed[rec.phase] /\ AllLoaded
        BY <1>2 DEF WorkOK, Relies
      <3>3. k.exp = rev => MayFollow(k.rec)
        BY <2>2, <3>1, <3>2 DEF MayFollow
      <3>4. WorkOK(k)
        BY <2>2, <3>3 DEF WorkOK, Relies
      <3> QED
        BY <1>2, <2>4, <3>4, HandlePlaced
    <2> QED
      BY <2>1, <2>3, <2>4
  <1> QED
    BY <1>3, <1>4

(* BackfillPlaced: the source barrier is taken when all that is on its way *)
(* goes to both placements.                                                *)
LEMMA BackfillPlaced ==
    ASSUME WholeMove, PlacedInv, RolloutInv', NEW o \in Operators, NEW r \in Replicas,
           BackfillStep(o, r)
    PROVE  PlacedInv'
  <1> DEFINE v == [view[r] EXCEPT !.barrier = Barrier(view[r])]
  <1>0. view[r] \in Rollouts /\ Len(log) \in Nat
    BY Standing DEF PlacedInv
  <1>1. /\ v.phase = view[r].phase /\ v.from = view[r].from /\ v.to = view[r].to
        /\ v.raw = view[r].raw /\ v.repaired = view[r].repaired
        /\ v.barrier = Barrier(view[r])
        /\ DOMAIN v = FieldNames
    BY <1>0, Fields DEF FieldNames
  <1>2. /\ view[r].phase = "backfill"
        /\ view[r].barrier # Unset \/ Settled
        /\ \/ ~v.raw /\ Handle(o, Job(r, "export", v))
           \/ v.raw /\ ~v.repaired /\ Handle(o, Job(r, "window", v))
           \/ v.raw /\ v.repaired /\ Handle(o, Job(r, "commit", Backfilled(v)))
    BY <1>1, Current DEF BackfillStep
  <1> HIDE DEF v
  <1>3. ~Untouched
    BY <1>2, Current
  <1>4. ASSUME cur[r] = rev
        PROVE  view[r] = rec /\ v.barrier # Unset /\ Dual(v.barrier)
    <2>1. view[r] = rec
      BY <1>4, Current
    <2>2. CASE view[r].barrier # Unset
      BY <1>1, <1>2, <2>1, <2>2 DEF PlacedInv, Barrier
    <2>3. CASE view[r].barrier = Unset
      <3>1. v.barrier = Len(log) /\ Settled
        BY <1>1, <1>2, <2>3 DEF Barrier
      <3>2. ASSUME NEW T, NEW d \in Docs, UNION {Placement(p, d) : p \in {"old", "new"}} \subseteq T
            PROVE  Both(T)
        BY <3>2, Homes DEF Both
      <3>3. ASSUME NEW p \in InFlight PROVE Both(log[p].targets)
        <4>1. p \in DOMAIN log /\ log[p].doc \in Docs
          BY DEF PlacedInv, EventsOK
        <4>2. UNION {Placement(q, log[p].doc) : q \in {"old", "new"}} \subseteq log[p].targets
          BY <3>1, <4>1 DEF Settled, InFlight
        <4> QED
          BY <3>2, <4>1, <4>2
      <3>4. route # Nil => Both(route.targets)
        BY <3>1, <3>2 DEF Settled, PlacedInv, EventsOK
      <3>5. \A p \in DOMAIN log : ~(p > Len(log))
        BY <1>0, Standing DEF PlacedInv
      <3>6. PICK n : n = Len(log)
        OBVIOUS
      <3>7. Dual(n)
        BY <3>3, <3>4, <3>5, <3>6 DEF Dual
      <3>8. v.barrier = n /\ n # Unset
        BY <1>0, <3>1, <3>6 DEF Unset
      <3> QED
        BY <2>1, <3>7, <3>8
    <2> QED
      BY <2>1, <2>2, <2>3
  <1>5. ASSUME NEW step \in {"export", "window"}, Handle(o, Job(r, step, v))
        PROVE  PlacedInv'
    <2> DEFINE j == Job(r, step, v)
    <2>1. j.step = step /\ j.exp = cur[r] /\ j.rec = v
      BY DEF Job
    <2>2. Handle(o, j)
      BY <1>5
    <2> HIDE DEF j
    <2>3. j.exp = rev => Relies(j)
      BY <1>2, <1>4, <2>1 DEF Relies
    <2>4. WorkOK(j)
      BY <2>1, <2>3 DEF WorkOK
    <2> QED
      BY <1>3, <2>2, <2>4, HandlePlaced
  <1>6. ASSUME v.raw, Handle(o, Job(r, "commit", Backfilled(v)))
        PROVE  PlacedInv'
    <2> DEFINE w == Backfilled(v)
               j == Job(r, "commit", w)
    <2>1. j.step = "commit" /\ j.exp = cur[r] /\ j.rec = w
      BY DEF Job
    <2>2. Handle(o, j)
      BY <1>6
    <2>3. /\ w.phase = v.phase /\ w.from = v.from /\ w.to = v.to /\ w.barrier = v.barrier
          /\ w.raw = v.raw /\ ~w.parity
      BY <1>1 DEF Backfilled, FieldNames
    <2> HIDE DEF w, j
    <2>4. cur[r] = rev => MayFollow(w)
      BY <1>1, <1>2, <1>4, <1>6, <2>3 DEF MayFollow
    <2>5. WorkOK(j)
      BY <2>1, <2>4 DEF WorkOK, Relies
    <2> QED
      BY <1>3, <2>2, <2>5, HandlePlaced
  <1> QED
    BY <1>2, <1>5, <1>6

(* Copy: what a policy holds of a document is what its cluster holds.      *)
LEMMA Copy ==
    ASSUME WholeMove, EventsOK, NEW p \in {"old", "new"}
    PROVE  /\ Exported(p) \in [Docs -> Nat]
           /\ \A d \in Docs : /\ Exported(p)[d] = store[Home(p)][d]
                              /\ Copies(p, d) = {store[Home(p)][d]} \ {0}
  <1>1. ASSUME NEW d \in Docs
        PROVE  /\ Copies(p, d) = {store[Home(p)][d]} \ {0}
               /\ Exported(p)[d] = store[Home(p)][d] /\ store[Home(p)][d] \in Nat
    <2>1. Copies(p, d) = {store[Home(p)][d]} \ {0}
      BY Homes DEF Copies
    <2>2. store[Home(p)][d] \in Nat
      BY Homes DEF EventsOK
    <2>3. Exported(p)[d] = IF Copies(p, d) = {} THEN 0 ELSE CHOOSE b \in Copies(p, d) : TRUE
      BY DEF Exported
    <2>4. Exported(p)[d] = store[Home(p)][d]
      <3>1. CASE store[Home(p)][d] = 0
        BY <2>1, <2>3, <3>1
      <3>2. CASE store[Home(p)][d] # 0
        BY <2>1, <2>3, <3>2
      <3> QED
        BY <3>1, <3>2
    <2> QED
      BY <2>1, <2>2, <2>4
  <1>2. Exported(p) = [d \in Docs |-> Exported(p)[d]]
    BY DEF Exported
  <1> QED
    BY <1>1, <1>2

(* ExportPlaced: the documents to copy come from the source policy.        *)
LEMMA ExportPlaced ==
    ASSUME WholeMove, PlacedInv, RolloutInv', NEW o \in Operators, Export(o)
    PROVE  PlacedInv'
  <1>1. PICK j : j = job[o]
    OBVIOUS
  <1>2. JobOK(j) /\ WorkOK(j) /\ j.step = "export" /\ ~Untouched
    BY <1>1, Current DEF Export
  <1>3. CASE Handle(o, Nil)
    BY <1>2, <1>3, HandlePlaced
  <1>4. CASE ~Handle(o, Nil)
    <2> DEFINE src == Exported(j.rec.from)
               sel == Selected(j.rec, src)
    <2>1. PICK more :
             /\ more = [src |-> src, sel |-> sel,
                        todo |-> UNION {Placement(j.rec.to, d) : d \in sel},
                        all |-> sel = Remaining(j.rec, src)]
             /\ Handle(o, With([j EXCEPT !.step = "import"], more))
      BY <1>1, <1>4 DEF Export
    <2>2. DOMAIN more = {"src", "sel", "todo", "all"} /\ more["src"] = src
      BY <2>1
    <2>3. src \in [Docs -> Nat]
      BY <1>2, Copy, Fields DEF JobOK, RolloutOK, PlacedInv
    <2> HIDE DEF src, sel
    <2> DEFINE i == [j EXCEPT !.step = "import"]
               k == With(i, more)
    <2>4. DOMAIN j = {"at", "step", "exp", "rec"}
      BY <1>2 DEF JobOK, StepOK
    <2>5. /\ DOMAIN i = {"at", "step", "exp", "rec"}
          /\ i.step = "import" /\ i.exp = j.exp /\ i.rec = j.rec
      BY <2>4
    <2>6. Handle(o, k)
      BY <2>1
    <2> HIDE DEF i
    <2>7. /\ DOMAIN k = DOMAIN i \cup DOMAIN more
          /\ \A x \in DOMAIN i : k[x] = i[x]
          /\ \A x \in DOMAIN more \ DOMAIN i : k[x] = more[x]
      BY Joined
    <2> HIDE DEF k
    <2>8. /\ k.step = "import" /\ k.exp = j.exp /\ k.rec = j.rec /\ k.src = src
          /\ {"src", "sel", "todo"} \subseteq DOMAIN k
      BY <2>2, <2>5, <2>7
    <2>9. k.exp = rev => Relies(k)
      BY <1>2, <2>8 DEF WorkOK, Relies
    <2>10. WorkOK(k)
      BY <2>3, <2>8, <2>9 DEF WorkOK
    <2> QED
      BY <1>2, <2>6, <2>10, HandlePlaced
  <1> QED
    BY <1>3, <1>4

(* ListPlaced: the events to repair are in the log.                        *)
LEMMA ListPlaced ==
    ASSUME WholeMove, PlacedInv, RolloutInv', NEW o \in Operators, ListEvents(o)
    PROVE  PlacedInv'
  <1>1. PICK j : j = job[o]
    OBVIOUS
  <1>2. JobOK(j) /\ WorkOK(j) /\ j.step = "window" /\ ~Untouched
    BY <1>1, Current DEF ListEvents
  <1>3. PICK more :
           /\ more = [todo |-> Window(j.rec), page |-> Window(j.rec)]
           /\ Handle(o, With([j EXCEPT !.step = "repair"], more))
    BY <1>1 DEF ListEvents
  <1>4. DOMAIN more = {"todo", "page"} /\ more["todo"] = Window(j.rec)
    BY <1>3
  <1>5. Window(j.rec) \subseteq 1 .. Len(log)
    BY Standing DEF Window, PlacedInv
  <1> DEFINE i == [j EXCEPT !.step = "repair"]
             k == With(i, more)
  <1>6. DOMAIN j = {"at", "step", "exp", "rec"}
    BY <1>2 DEF JobOK, StepOK
  <1>7. /\ DOMAIN i = {"at", "step", "exp", "rec"}
        /\ i.step = "repair" /\ i.exp = j.exp /\ i.rec = j.rec
    BY <1>6
  <1>8. Handle(o, k)
    BY <1>3
  <1> HIDE DEF i
  <1>9. /\ DOMAIN k = DOMAIN i \cup DOMAIN more
        /\ \A x \in DOMAIN i : k[x] = i[x]
        /\ \A x \in DOMAIN more \ DOMAIN i : k[x] = more[x]
    BY Joined
  <1> HIDE DEF k
  <1>10. /\ k.step = "repair" /\ k.exp = j.exp /\ k.rec = j.rec /\ k.todo = Window(j.rec)
         /\ "todo" \in DOMAIN k
    BY <1>4, <1>7, <1>9
  <1>11. k.exp = rev => Relies(k)
    BY <1>2, <1>10 DEF WorkOK, Relies
  <1>12. WorkOK(k)
    BY <1>5, <1>10, <1>11 DEF WorkOK
  <1> QED
    BY <1>2, <1>8, <1>12, HandlePlaced

(* ProgressPlaced: copy or repair is one step further.                     *)
LEMMA ProgressPlaced ==
    ASSUME WholeMove, PlacedInv, RolloutInv', NEW o \in Operators, FinishCopy(o) \/ FinishRepair(o)
    PROVE  PlacedInv'
  <1>1. PICK j : j = job[o]
    OBVIOUS
  <1>2. JobOK(j) /\ WorkOK(j) /\ j.step \in {"import", "repair"} /\ ~Untouched
    BY <1>1, Current DEF FinishCopy, FinishRepair
  <1>3. j.rec \in Rollouts /\ DOMAIN j.rec = FieldNames
    BY <1>2, Fields DEF JobOK, RolloutOK
  <1>4. PICK u : /\ Handle(o, [Job(j.at, "commit", Backfilled(u)) EXCEPT !.exp = j.exp])
                 /\ DOMAIN u = FieldNames
                 /\ u.phase = j.rec.phase /\ u.from = j.rec.from /\ u.to = j.rec.to
                 /\ u.barrier = j.rec.barrier
    <2>1. CASE FinishCopy(o)
      <3>1. PICK last, all :
                  Handle(o, [Job(j.at, "commit", Backfilled(Copied(j.rec, last, all)))
                               EXCEPT !.exp = j.exp])
        BY <1>1, <2>1 DEF FinishCopy
      <3> DEFINE c == Copied(j.rec, last, all)
      <3>2. /\ DOMAIN c = FieldNames
            /\ c.phase = j.rec.phase /\ c.from = j.rec.from /\ c.to = j.rec.to
            /\ c.barrier = j.rec.barrier
        BY <1>3 DEF Copied, FieldNames
      <3> QED
        BY <3>1, <3>2
    <2>2. CASE FinishRepair(o)
      <3>1. PICK n, done :
                  Handle(o, [Job(j.at, "commit",
                                 Backfilled([j.rec EXCEPT !.cursor = n, !.repaired = done]))
                               EXCEPT !.exp = j.exp])
        BY <1>1, <2>2 DEF FinishRepair
      <3> DEFINE c == [j.rec EXCEPT !.cursor = n, !.repaired = done]
      <3>2. /\ DOMAIN c = FieldNames
            /\ c.phase = j.rec.phase /\ c.from = j.rec.from /\ c.to = j.rec.to
            /\ c.barrier = j.rec.barrier
        BY <1>3 DEF FieldNames
      <3> QED
        BY <3>1, <3>2
    <2> QED
      BY <2>1, <2>2
  <1> DEFINE w == Backfilled(u)
             k == [Job(j.at, "commit", w) EXCEPT !.exp = j.exp]
  <1>5. /\ w.phase = u.phase /\ w.from = u.from /\ w.to = u.to /\ w.barrier = u.barrier
        /\ ~w.parity /\ w.complete = (u.raw /\ u.repaired) /\ w.raw = u.raw
    BY <1>4 DEF Backfilled, FieldNames
  <1>6. k.step = "commit" /\ k.exp = j.exp /\ k.rec = w
    BY DEF Job
  <1>7. Handle(o, k)
    BY <1>4
  <1> HIDE DEF w, k
  <1>8. ASSUME j.exp = rev PROVE MayFollow(w)
    <2>1. rec.phase = "backfill" /\ j.rec.barrier # Unset /\ Dual(j.rec.barrier)
      BY <1>2, <1>8 DEF WorkOK, Relies
    <2>2. j.rec.phase = rec.phase /\ j.rec.from = rec.from /\ j.rec.to = rec.to
      BY <1>2, <1>8 DEF JobOK, Drawn, PlacedInv, RolloutInv, RolloutOK, Rollouts
    <2> QED
      BY <1>4, <1>5, <2>1, <2>2 DEF MayFollow
  <1>9. WorkOK(k)
    BY <1>6, <1>8 DEF WorkOK, Relies
  <1> QED
    BY <1>2, <1>7, <1>9, HandlePlaced

(* Least: a set of numbers has its minimum.                                *)
LEMMA Least ==
    ASSUME NEW S \in SUBSET Nat, S # {}
    PROVE  Min(S) \in S
  <1> DEFINE Below == {p \in Nat \X Nat : p[1] < p[2]}
  <1>1. IsWellFoundedOn(Below, Nat)
    BY NatLessThanWellFounded DEF OpToRel
  <1>2. PICK g \in S : \A m \in S : <<m, g>> \notin Below
    <2> HIDE DEF Below
    <2> QED
      BY <1>1, WFMin
  <1>3. ASSUME NEW n \in S PROVE g <= n
    <2>1. <<n, g>> \in Nat \X Nat /\ <<n, g>>[1] = n /\ <<n, g>>[2] = g /\ n \in Nat /\ g \in Nat
      OBVIOUS
    <2>2. ~ (n < g)
      BY <1>2, <2>1
    <2> QED
      BY <2>1, <2>2
  <1>4. \E x \in S : \A y \in S : x <= y
    BY <1>3
  <1> QED
    BY <1>4 DEF Min

(* RepairPlaced: the newest mutation of a document is recorded once more   *)
(* when nothing of the document is on its way.                             *)
LEMMA RepairPlaced ==
    ASSUME WholeMove, PlacedInv, RolloutInv', NEW o \in Operators, Repair(o)
    PROVE  PlacedInv'
  <1>1. PICK j : j = job[o]
    OBVIOUS
  <1>2. JobOK(j) /\ WorkOK(j) /\ j.step = "repair" /\ ~Untouched
    BY <1>1, Current DEF Repair
  <1> DEFINE d == log[Min(j.todo)].doc
             k == [j EXCEPT !.todo = j.todo \ {Min(j.todo)}]
             e == Event(d, log[Newest(d)].body, PolicyClusters(j.rec.to), RepairKey(j.rec, d))
  <1>3. /\ j.todo # {} /\ \A p \in InFlight : log[p].doc # d
        /\ job' = [job EXCEPT ![o] = k]
        /\ UNCHANGED <<topic, dlq, data, rec, rev, view, cur, route>>
        /\ Record(e) \/ UNCHANGED <<log, pending>>
    BY <1>1, Current DEF Repair, InFlight, config
  <1>4. d \in Docs /\ Of(d) = {}
    <2>1. j.todo \subseteq 1 .. Len(log) /\ Len(log) \in Nat /\ DOMAIN log = 1 .. Len(log)
      BY <1>2, Standing DEF WorkOK, PlacedInv
    <2>2. Min(j.todo) \in DOMAIN log
      BY <1>3, <2>1, Least
    <2> QED
      BY <1>3, <2>2 DEF PlacedInv, EventsOK, Of
  <1>5. /\ EventsOK' /\ DualKept
        /\ \A c \in Clusters, x \in Docs : Kept(c, x)
        /\ log' = log \/ Len(log') > Len(log)
    <2>1. CASE Record(e)
      <3>1. j.rec \in Rollouts
        BY <1>2 DEF JobOK, RolloutOK
      <3>2. /\ e.doc = d /\ e.body = log[Newest(d)].body /\ e.targets = PolicyClusters(j.rec.to)
            /\ e.repair = RepairKey(j.rec, d)
        BY DEF Event
      <3>3. e.repair # Nil
        <4> HIDE DEF d, e
        <4>1. j.rec.id \in Int /\ j.rec.through \in Int
          BY <3>1, Fields
        <4>2. e.repair = <<j.rec.id, j.rec.through, d>>
          BY <3>2 DEF RepairKey
        <4>3. <<j.rec.id, j.rec.through, d>> \in Int \X Int \X Docs
          BY <1>4, <4>1
        <4> QED
          BY <4>2, <4>3, NilAssumption
      <3>4. e.targets \subseteq Clusters
        BY <3>1, <3>2, Fields, Homes
      <3>5. e.body \in Nat
        BY <1>4, <3>2, NewestIs DEF PlacedInv, EventsOK, Latest
      <3>6. Len(log') > Len(log)
        BY <2>1, Standing, Grown DEF PlacedInv
      <3> HIDE DEF d, e
      <3>7. /\ EventsOK' /\ DualKept
            /\ \A c \in Clusters, x \in Docs :
                  (e.repair = Nil /\ e.doc = x => c \in e.targets) => Kept(c, x)
        BY <1>3, <1>4, <2>1, <3>2, <3>3, <3>4, <3>5, RecordKeeps DEF PlacedInv
      <3> QED
        BY <3>3, <3>6, <3>7
    <2>2. CASE UNCHANGED <<log, pending>>
      <3>1. InFlight' = InFlight
        BY <1>3, <2>2 DEF InFlight
      <3> QED
        BY <1>3, <2>2, <3>1, MovedKeeps DEF PlacedInv, EventsOK, data
    <2> QED
      BY <1>3, <2>1, <2>2
  <1> HIDE DEF d, e
  <1>6. CoverKept
    BY <1>5, Homely DEF CoverKept
  <1>7. WorkOK(k)'
    <2>1. JobOK(k)
      BY <1>2, Doing
    <2>2. /\ k.step = "repair" /\ k.exp = j.exp /\ k.rec = j.rec
          /\ "todo" \in DOMAIN k /\ k.todo \subseteq 1 .. Len(log)
      BY <1>2 DEF JobOK, WorkOK
    <2> HIDE DEF k
    <2>3. WorkOK(k)
      BY <1>2, <2>2 DEF WorkOK, Relies
    <2>4. Len(log') \in Nat
      BY LenProperties DEF RolloutInv
    <2> QED
      BY <1>3, <1>5, <1>6, <2>1, <2>3, <2>4, WorkKept DEF PlacedInv, AllLoaded
  <1> HIDE DEF k
  <1> QED
    BY <1>2, <1>3, <1>5, <1>6, <1>7, PlacedKept

(* ImportPlaced: a batch of the copy goes to the candidate placement, and  *)
(* none is up to date there before parity.                                 *)
LEMMA ImportPlaced ==
    ASSUME WholeMove, PlacedInv, RolloutInv', NEW o \in Operators, NEW c \in Clusters,
           Import(o, c)
    PROVE  PlacedInv'
  <1>1. PICK j : j = job[o]
    OBVIOUS
  <1>2. JobOK(j) /\ WorkOK(j) /\ j.step = "import" /\ ~Untouched
    BY <1>1, Current DEF Import
  <1> DEFINE S == {d \in j.sel : c \in Placement(j.rec.to, d)}
             k == [j EXCEPT !.todo = j.todo \ {c}]
  <1>3. /\ j.exp = rev
        /\ UNCHANGED <<log, pending, topic, dlq, ckpt, rec, rev, view, cur, route>>
        /\ \E F \in SUBSET S : store' = Imported(c, F, j.src)
        /\ job' = [job EXCEPT ![o] = k] \/ job' = [job EXCEPT ![o] = Nil]
    BY <1>1, Current DEF Import, InTime, events, config
  <1>4. /\ rec.phase = "backfill" /\ j.rec.to = rec.to /\ ~j.rec.raw /\ ~rec.raw
        /\ j.sel \subseteq Docs /\ j.src \in [Docs -> Nat]
    <2>1. rec.phase = "backfill" /\ j.src \in [Docs -> Nat]
      BY <1>2, <1>3 DEF WorkOK, Relies
    <2>2. j.rec.raw = rec.raw /\ j.rec.to = rec.to
      BY <1>2, <1>3 DEF JobOK, Drawn, PlacedInv, RolloutInv, RolloutOK, Rollouts
    <2> QED
      BY <1>2, <2>1, <2>2 DEF JobOK, StepOK
  <1>5. Needed = {rec.from} /\ rec.from # rec.to /\ {rec.from, rec.to} = {"old", "new"}
    <2>1. ~rec.parity /\ rec.from # rec.to
      BY <1>4 DEF PlacedInv, PhaseOK
    <2>2. rec.from \in {"old", "new"} /\ rec.to \in {"old", "new"}
      BY Fields DEF PlacedInv, RolloutInv, RolloutOK
    <2> QED
      BY <1>4, <2>1, <2>2 DEF Needed, Live
  <1>6. PICK F \in SUBSET S : store' = Imported(c, F, j.src)
    BY <1>3
  <1>7. /\ F \subseteq Docs
        /\ \A d \in F : c = Home(rec.to)
    BY <1>4, <1>5, Homes
  <1> HIDE DEF S
  <1>8. /\ store' \in [Clusters -> [Docs -> Nat]]
        /\ \A x \in Clusters, d \in Docs :
              store'[x][d] = IF x = c /\ d \in F THEN j.src[d] ELSE store[x][d]
    <2>1. store' = [store EXCEPT ![c] = [d \in Docs |-> IF d \in F THEN j.src[d] ELSE store[c][d]]]
      BY <1>6 DEF Imported
    <2> QED
      BY <1>4, <2>1 DEF PlacedInv, EventsOK
  <1>9. InFlight' = InFlight
    BY <1>3 DEF InFlight
  <1>10. /\ EventsOK' /\ DualKept
         /\ \A x \in Clusters, d \in Docs : store'[x][d] = store[x][d] => Kept(x, d)
    BY <1>3, <1>8, <1>9, MovedKeeps DEF PlacedInv, EventsOK
  <1>11. CoverKept
    <2>1. Home(rec.from) \in Clusters /\ Home(rec.from) # Home(rec.to)
      BY <1>5, Homes
    <2>2. \A d \in Docs : store'[Home(rec.from)][d] = store[Home(rec.from)][d]
      BY <1>7, <1>8, <2>1
    <2> QED
      BY <1>5, <1>10, <2>1, <2>2 DEF CoverKept
  <1>12. WorkOK(k)'
    <2>1. JobOK(k)
      BY <1>2, Doing
    <2>2. /\ k.step = "import" /\ k.exp = j.exp /\ k.rec = j.rec /\ k.src = j.src
          /\ {"src", "sel", "todo"} \subseteq DOMAIN k
      BY <1>2 DEF JobOK, WorkOK
    <2> HIDE DEF k
    <2>3. WorkOK(k)
      BY <1>2, <2>2 DEF WorkOK, Relies
    <2>4. Len(log') \in Nat
      BY LenProperties DEF RolloutInv
    <2> QED
      BY <1>3, <1>11, <2>1, <2>3, <2>4, WorkKept DEF PlacedInv, AllLoaded
  <1> HIDE DEF k
  <1> QED
    BY <1>2, <1>3, <1>10, <1>11, <1>12, PlacedKept

(* BeginPlaced: verification begins with the state of the log.             *)
LEMMA BeginPlaced ==
    ASSUME WholeMove, PlacedInv, RolloutInv', NEW o \in Operators, NEW r \in Replicas,
           BeginParity(o, r)
    PROVE  PlacedInv'
  <1>1. view[r].phase = "verifying" /\ ~Untouched
    BY Current DEF BeginParity
  <1>2. PICK more :
           /\ more = [start |-> Len(log), clear |-> pending = {}]
           /\ Handle(o, With(Job(r, "source", view[r]), more))
    BY DEF BeginParity
  <1>3. DOMAIN more = {"start", "clear"} /\ more["start"] = Len(log)
    BY <1>2
  <1> DEFINE i == Job(r, "source", view[r])
             k == With(i, more)
  <1>4. /\ DOMAIN i = {"at", "step", "exp", "rec"}
        /\ i.step = "source" /\ i.exp = cur[r] /\ i.rec = view[r]
    BY DEF Job
  <1>5. Handle(o, k)
    BY <1>2
  <1> HIDE DEF i
  <1>6. /\ DOMAIN k = DOMAIN i \cup DOMAIN more
        /\ \A x \in DOMAIN i : k[x] = i[x]
        /\ \A x \in DOMAIN more \ DOMAIN i : k[x] = more[x]
    BY Joined
  <1> HIDE DEF k
  <1>7. /\ DOMAIN k = {"at", "step", "exp", "rec", "start", "clear"}
        /\ k.step = "source" /\ k.exp = cur[r] /\ k.rec = view[r] /\ k.start = Len(log)
    BY <1>3, <1>4, <1>6
  <1>8. k.exp = rev => Relies(k)
    BY <1>1, <1>7, Current DEF Relies
  <1>9. Len(log) \in Nat
    BY Standing DEF PlacedInv
  <1>10. WorkOK(k)
    BY <1>7, <1>8, <1>9 DEF WorkOK
  <1> QED
    BY <1>1, <1>5, <1>10, HandlePlaced

(* Mirrored: during verification what is on its way to the active          *)
(* placement, and what the active one has, is found at the candidate's.    *)
LEMMA Mirrored ==
    ASSUME WholeMove, PlacedInv, rec.phase = "verifying", NEW d \in Docs
    PROVE  LET b == Home(rec.to)
               n == Newest(d)
           IN
           /\ store[Home(rec.from)][d] = log[n].body \/ Covered(b, d)
           /\ store[b][d] = log[n].body => Covered(b, d)
  <1> DEFINE a == Home(rec.from)
             b == Home(rec.to)
             n == Newest(d)
  <1>1. /\ rec.from \in Live(rec) /\ rec.barrier \in Int /\ Dual(rec.barrier)
        /\ {rec.from, rec.to} = {"old", "new"}
    <2>1. rec.from \in {"old", "new"} /\ rec.to \in {"old", "new"} /\ rec.barrier \in Int
      BY Fields DEF PlacedInv, RolloutInv, RolloutOK
    <2>2. rec.from # rec.to /\ Dual(rec.barrier)
      BY DEF PlacedInv, PhaseOK
    <2> QED
      BY <2>1, <2>2 DEF Live
  <1>2. /\ Covered(a, d)
        /\ a \in Clusters /\ b \in Clusters
        /\ \A T : Both(T) <=> a \in T /\ b \in T
    <2>1. Home("old") \in Clusters /\ Home("new") \in Clusters
      BY Homes
    <2>2. \/ rec.from = "old" /\ rec.to = "new"
          \/ rec.from = "new" /\ rec.to = "old"
      BY <1>1
    <2>3. {a, b} = {Home("old"), Home("new")}
      BY <2>2
    <2>4. \A T : Both(T) <=> a \in T /\ b \in T
      BY <2>3 DEF Both
    <2> QED
      BY <1>1, <2>1, <2>3, <2>4 DEF PlacedInv
  <1> HIDE DEF a, b
  <1>3. /\ n \in DOMAIN log /\ n \in Nat /\ log[n].doc = d /\ DOMAIN log \subseteq Nat
        /\ \A p \in Of(d) : p \in DOMAIN log /\ p \in InFlight /\ log[p].doc = d /\ p <= n
    BY NewestIs, Standing DEF Latest, Of, PlacedInv, EventsOK
  <1> HIDE DEF n
  <1>4. n \in InFlight /\ Mutation(n) => Both(log[n].targets)
    BY <1>1, <1>3 DEF Dual
  <1>5. n \in InFlight /\ Mutation(n) => Covered(b, d)
    BY <1>2, <1>4 DEF Covered, n
  <1>6. store[a][d] = log[n].body \/ Covered(b, d)
    BY <1>2, <1>5 DEF Covered, n
  <1>7. ASSUME store[b][d] = log[n].body, ~(n \in InFlight /\ Mutation(n)),
               NEW p \in Of(d), b \in log[p].targets, p # n
        PROVE  Superseded(p)
    <2>1. Mutation(n) /\ n \notin InFlight /\ p < n
      BY <1>3, <1>7 DEF n, PlacedInv, EventsOK
    <2>2. CASE p <= rec.barrier
      <3>1. a \in log[p].targets
        BY <1>1, <1>2, <1>3, <2>2 DEF Dual
      <3> QED
        BY <1>2, <1>7, <2>1, <3>1 DEF Covered, n
    <2>3. CASE ~(p <= rec.barrier)
      <3>1. Both(log[n].targets)
        BY <1>1, <1>3, <2>1, <2>3 DEF Dual
      <3>2. ckpt[b][d] = n
        BY <1>2, <2>1, <3>1 DEF n, PlacedInv, EventsOK
      <3> QED
        BY <1>3, <1>7, <2>1, <3>2 DEF Superseded
    <2> QED
      BY <2>2, <2>3
  <1>8. store[b][d] = log[n].body => Covered(b, d)
    BY <1>5, <1>7 DEF Covered, n
  <1> QED
    BY <1>6, <1>8 DEF a, b, n

(* SourcePlaced: what the active placement holds is newest, or is going to *)
(* be overwritten on both sides.                                           *)
LEMMA SourcePlaced ==
    ASSUME WholeMove, PlacedInv, RolloutInv', NEW o \in Operators, ExportSource(o)
    PROVE  PlacedInv'
  <1>1. PICK j : j = job[o]
    OBVIOUS
  <1>2. JobOK(j) /\ WorkOK(j) /\ j.step = "source" /\ ~Untouched
    BY <1>1, Current DEF ExportSource
  <1>3. CASE Handle(o, Nil)
    BY <1>2, <1>3, HandlePlaced
  <1>4. CASE ~Handle(o, Nil)
    <2>1. PICK more :
             /\ more = [src |-> Exported(j.rec.from)]
             /\ Handle(o, With([j EXCEPT !.step = "candidate"], more))
      BY <1>1, <1>4 DEF ExportSource
    <2>2. DOMAIN more = {"src"} /\ more["src"] = Exported(j.rec.from)
      BY <2>1
    <2> DEFINE i == [j EXCEPT !.step = "candidate"]
               k == With(i, more)
    <2>3. /\ DOMAIN j = {"at", "step", "exp", "rec", "start", "clear"}
          /\ j.start \in Nat /\ j.start <= Len(log)
      BY <1>2 DEF WorkOK
    <2>4. /\ DOMAIN i = DOMAIN j /\ i.step = "candidate" /\ i.exp = j.exp /\ i.rec = j.rec
          /\ i.start = j.start
      BY <2>3
    <2>5. Handle(o, k)
      BY <2>1
    <2> HIDE DEF i
    <2>6. /\ DOMAIN k = DOMAIN i \cup DOMAIN more
          /\ \A x \in DOMAIN i : k[x] = i[x]
          /\ \A x \in DOMAIN more \ DOMAIN i : k[x] = more[x]
      BY Joined
    <2> HIDE DEF k
    <2>7. /\ k.step = "candidate" /\ k.exp = j.exp /\ k.rec = j.rec /\ k.start = j.start
          /\ k.src = Exported(j.rec.from) /\ "start" \in DOMAIN k
      BY <2>2, <2>3, <2>4, <2>6
    <2>8. ASSUME k.exp = rev PROVE Relies(k)
      <3>1. j.rec = rec /\ rec.phase = "verifying"
        BY <1>2, <2>7, <2>8 DEF WorkOK, Relies
      <3>2. ASSUME NEW d \in Docs
            PROVE  k.src[d] = log[Newest(d)].body \/ Covered(Home(rec.to), d)
        <4>1. rec.from \in {"old", "new"}
          BY Fields DEF PlacedInv, RolloutInv, RolloutOK
        <4>2. k.src[d] = store[Home(rec.from)][d]
          BY <2>7, <3>1, <4>1, Copy DEF PlacedInv
        <4> QED
          BY <3>1, <4>2, Mirrored
      <3> QED
        BY <2>7, <3>1, <3>2 DEF Relies
    <2>9. WorkOK(k)
      BY <2>3, <2>7, <2>8 DEF WorkOK
    <2> QED
      BY <1>2, <2>5, <2>9, HandlePlaced
  <1> QED
    BY <1>3, <1>4

(* CandidatePlaced: with parity the candidate placement is up to date.     *)
LEMMA CandidatePlaced ==
    ASSUME WholeMove, PlacedInv, RolloutInv', NEW o \in Operators, ExportCandidate(o)
    PROVE  PlacedInv'
  <1>1. PICK j : j = job[o]
    OBVIOUS
  <1>2. JobOK(j) /\ WorkOK(j) /\ j.step = "candidate" /\ ~Untouched
    BY <1>1, Current DEF ExportCandidate
  <1>3. PICK passed : passed = Parity(o)
    OBVIOUS
  <1> DEFINE w == Verified(j.rec, passed)
             k == [Job(j.at, "commit", w) EXCEPT !.exp = j.exp]
  <1>4. Handle(o, Nil) \/ Handle(o, k)
    BY <1>1, <1>3 DEF ExportCandidate
  <1>5. k.step = "commit" /\ k.exp = j.exp /\ k.rec = w
    BY DEF Job
  <1>6. passed \in BOOLEAN /\ (passed => j.src = Exported(j.rec.to) /\ j.start = Len(log))
    BY <1>1, <1>3 DEF Parity
  <1>7. ASSUME j.exp = rev PROVE MayFollow(w)
    <2>1. j.rec = rec /\ rec.phase = "verifying"
      BY <1>2, <1>7 DEF WorkOK, Relies
    <2>2. ASSUME passed, NEW d \in Docs PROVE Covered(Home(rec.to), d)
      <3>1. j.src[d] = log[Newest(d)].body \/ Covered(Home(rec.to), d)
        BY <1>2, <1>6, <1>7, <2>2 DEF WorkOK, Relies
      <3>2. rec.to \in {"old", "new"}
        BY Fields DEF PlacedInv, RolloutInv, RolloutOK
      <3>3. j.src[d] = store[Home(rec.to)][d]
        BY <1>6, <2>1, <2>2, <3>2, Copy DEF PlacedInv
      <3> QED
        BY <2>1, <3>1, <3>3, Mirrored
    <2> QED
      BY <1>6, <2>1, <2>2 DEF MayFollow
  <1> HIDE DEF k, w
  <1>8. WorkOK(k)
    BY <1>5, <1>7 DEF WorkOK, Relies
  <1> QED
    BY <1>2, <1>4, <1>8, HandlePlaced

-----------------------------------------------------------------------------
(* The record and the runtimes *)

(* IdlePlaced: a handler ends without a result, the window elapses, or     *)
(* nothing happens.                                                        *)
LEMMA IdlePlaced ==
    ASSUME PlacedInv, RolloutInv',
           UNCHANGED <<log, pending, topic, dlq, store, ckpt, rec, rev, view, cur, route>>,
           UNCHANGED job \/ \E o \in Operators : job' = [job EXCEPT ![o] = Nil]
    PROVE  PlacedInv'
  <1>1. EventsOK' /\ CoverKept
    BY Still DEF PlacedInv
  <1>2. Untouched => Fresh'
    <2>1. \A p \in Operators : job'[p] \in {job[p], Nil}
      BY DEF PlacedInv, RolloutInv
    <2>2. Untouched => \A p \in Operators : job'[p] # Nil => Drafting(job'[p])
      BY <2>1 DEF PlacedInv, Fresh
    <2>3. Untouched => Fresh
      BY DEF PlacedInv
    <2> QED
      BY <2>2, <2>3 DEF Fresh
  <1> QED
    BY <1>1, <1>2, PlacedKept

(* CatchingPlaced: a runtime takes the committed record, or another        *)
(* operation commits it as it is.                                          *)
LEMMA CatchingPlaced ==
    ASSUME PlacedInv, RolloutInv', NEW r \in Replicas, Reload(r) \/ Administer(r)
    PROVE  PlacedInv'
  <1>0. Catching(r) /\ UNCHANGED <<pending, topic, dlq, store, ckpt, route>>
    BY Catches DEF PlacedInv
  <1>1. /\ UNCHANGED <<log, pending, topic, dlq, store, ckpt, rec, route, job>>
        /\ \A q \in Replicas : view'[q] \in {rec, view[q]}
    BY <1>0 DEF Catching, PlacedInv, RolloutInv
  <1>9. rev \in Int /\ rev' \in {rev, rev + 1}
    BY <1>0, Standing DEF Catching, PlacedInv
  <1>2. EventsOK' /\ DualKept /\ CoverKept /\ \A c : \A d \in Docs : Kept(c, d)
    BY <1>1, Still DEF PlacedInv
  <1>3. ASSUME NEW q \in Replicas PROVE Lags(view[q])'
    <2>1. Lags(rec)
      BY DEF Lags, PlacedInv, PhaseOK
    <2>2. Lags(view'[q])
      BY <1>1, <2>1 DEF PlacedInv
    <2> QED
      BY <1>1, <2>2 DEF Lags
  <1>4. ASSUME NEW m \in Live(rec)'
        PROVE  /\ \A d \in Docs : Covered(Home(m), d)'
               /\ route' # Nil => Home(m) \in route'.targets
    <2>1. m \in Live(rec)
      BY <1>1 DEF Live
    <2>2. \A d \in Docs : Covered(Home(m), d)'
      BY <1>2, <2>1 DEF PlacedInv, Kept
    <2> QED
      BY <1>1, <2>1, <2>2 DEF PlacedInv
  <1>5. (rec.phase \in {"backfill", "verifying"} /\ rec.barrier # Unset => Dual(rec.barrier))'
    <2> SUFFICES ASSUME rec.phase \in {"backfill", "verifying"}, rec.barrier # Unset
                 PROVE  Dual(rec.barrier)'
      BY <1>1
    <2>1. PICK n : n = rec.barrier
      OBVIOUS
    <2>2. n \in Int /\ n <= Len(log) /\ Dual(n)
      BY <2>1, Fields DEF PlacedInv, RolloutInv, RolloutOK
    <2>3. Dual(n)'
      BY <1>2, <2>2 DEF DualKept
    <2> QED
      BY <1>1, <2>1, <2>3
  <1>6. ASSUME NEW o \in Operators, job'[o] # Nil PROVE WorkOK(job[o])'
    <2>1. PICK k : k = job[o]
      OBVIOUS
    <2>2. JobOK(k) /\ WorkOK(k)
      BY <1>1, <1>6, <2>1 DEF PlacedInv, RolloutInv
    <2>3. AllLoaded => AllLoaded'
      BY <1>1 DEF AllLoaded
    <2>4. Len(log') \in Nat
      BY <1>1, Standing DEF PlacedInv
    <2>6. k.exp = rev' => rev' = rev
      BY <1>9, <2>2 DEF JobOK
    <2>5. WorkOK(k)'
      BY <1>1, <1>2, <2>2, <2>3, <2>4, <2>6, WorkKept DEF PlacedInv
    <2> QED
      BY <1>1, <2>1, <2>5
  <1>7. Untouched' => Fresh'
    <2>1. Untouched' => Untouched
      BY <1>1 DEF Untouched
    <2>2. Untouched => Fresh
      BY DEF PlacedInv
    <2>3. Fresh => Fresh'
      BY <1>1 DEF Fresh
    <2> QED
      BY <2>1, <2>2, <2>3
  <1>8. PhaseOK(rec)'
    BY <1>1 DEF PlacedInv, PhaseOK
  <1> QED
    BY <1>2, <1>3, <1>4, <1>5, <1>6, <1>7, <1>8 DEF PlacedInv

\* What a record must be to follow the committed one.
Follows(w) ==
    /\ PhaseOK(w)
    /\ \A m \in Live(w) :
          /\ \A d \in Docs : Covered(Home(m), d)
          /\ route # Nil => Home(m) \in route.targets
    /\ w.phase \in {"backfill", "verifying"} /\ w.barrier # Unset => Dual(w.barrier)
    /\ w.phase # "none"
    /\ Untouched => w.phase = "draft" /\ w.from = "old"

(* Phases: every phase is one of these.                                    *)
LEMMA Phases ==
    ASSUME PlacedInv
    PROVE  /\ rec.phase \in {"draft", "validating", "dual_write", "backfill", "verifying", "cutover",
                             "drain", "failed", "rolling_back", "completed", "cancelled",
                             "rolled_back", "none"}
           /\ rec.from \in {"old", "new"} /\ rec.to \in {"old", "new"} /\ rec.from # rec.to
           /\ rec.parity \in BOOLEAN /\ DOMAIN rec = FieldNames /\ rec \in Rollouts
  <1>1. rec \in Rollouts
    BY DEF PlacedInv, RolloutInv, RolloutOK
  <1>2. rec.phase \in DOMAIN Allowed
    BY <1>1, Fields
  <1>3. rec.phase \in {"draft", "validating", "dual_write", "backfill", "verifying", "cutover",
                       "drain", "failed", "rolling_back", "completed", "cancelled",
                       "rolled_back", "none"}
    BY <1>2 DEF Allowed
  <1> QED
    BY <1>1, <1>3, Fields DEF PlacedInv, PhaseOK

(* DraftFollows: a new rollout starts from the placement that is active.   *)
LEMMA DraftFollows ==
    ASSUME PlacedInv, NEW w, w = Draft(rec), rec.phase \in Terminal \cup {"none"}
    PROVE  /\ Follows(w)
           /\ rec' = w => \A v : v.phase \in DOMAIN Allowed /\ Lags(v) => Lags(v)'
  <1>1. /\ w.phase = "draft" /\ w.barrier = Unset /\ ~w.parity /\ ~w.complete
        /\ w.from = IF rec.phase = "completed" THEN rec.to ELSE rec.from
        /\ w.to = IF rec.phase = "completed" THEN rec.from ELSE rec.to
    BY DEF Draft
  <1>2. PhaseOK(w)
    BY <1>1, Phases DEF PhaseOK
  <1>3. Live(w) \subseteq Live(rec)
    BY <1>1 DEF Live, Paired
  <1>4. Untouched => w.from = "old"
    BY <1>1 DEF PlacedInv, Fresh
  <1>5. ASSUME rec' = w, NEW v, v.phase \in DOMAIN Allowed, Lags(v) PROVE Lags(v)'
    <2>1. /\ v.from = rec.from /\ v.to = rec.to
          /\ v.phase = rec.phase \/ rec.phase \in Allowed[v.phase]
          /\ ~rec.parity => v.phase \notin {"cutover", "drain", "completed"}
      BY <1>5, Phases DEF Lags, Terminal
    <2>2. CASE rec.phase = "completed"
      <3>1. v.phase \in {"drain", "completed"}
        BY <1>5, <2>1, <2>2, Preceding
      <3> QED
        BY <1>1, <1>5, <2>1, <2>2, <3>1 DEF Lags
    <2>3. CASE rec.phase # "completed"
      <3>1. v.phase \in {"none", "draft", "validating", "cancelled", "rolling_back", "rolled_back"}
        BY <1>5, <2>1, <2>3, Preceding DEF Terminal
      <3> QED
        BY <1>1, <1>5, <2>1, <2>3, <3>1 DEF Lags
    <2> QED
      BY <2>2, <2>3
  <1> QED
    BY <1>1, <1>2, <1>3, <1>4, <1>5 DEF Follows, PlacedInv

(* MovedFollows: the next phase, when every replica is at this one.        *)
LEMMA MovedFollows ==
    ASSUME WholeMove, PlacedInv, NEW w, AllLoaded, NEW goal \in Allowed[rec.phase],
           w = Moved(rec, goal),
           goal = "verifying" => rec.complete /\ rec.barrier # Unset,
           goal = "cutover" => rec.parity
    PROVE  /\ Follows(w)
           /\ rec' = w => \A v : v.phase = rec.phase /\ Lags(v) => Lags(v)'
  <1>1. /\ w.phase = goal /\ w.from = rec.from /\ w.to = rec.to /\ w.barrier = rec.barrier
        /\ w.parity = rec.parity /\ w.raw = rec.raw /\ w.complete = rec.complete
    BY Phases DEF Moved, FieldNames
  <1>2. goal \in DOMAIN Allowed /\ goal \notin {"none", "draft"} /\ rec.phase \in DOMAIN Allowed
    BY Phases, Preceding, Fields
  <1>3. PhaseOK(w)
    BY <1>1, <1>2, Phases, Preceding DEF PhaseOK, PlacedInv
  <1>4. Live(w) \subseteq Live(rec)
    <2>1. rec.phase # "completed"
      BY DEF Allowed
    <2>2. goal = "completed" => rec.parity /\ rec.phase = "drain"
      BY <1>2, Preceding DEF PlacedInv, PhaseOK
    <2>3. rec.parity => rec.phase \in Paired
      <3>1. rec.phase \notin {"rolled_back", "cancelled"}
        BY DEF Allowed
      <3> QED
        BY <2>1, <3>1, Phases DEF Paired, PlacedInv, PhaseOK
    <2> QED
      BY <1>1, <2>1, <2>2, <2>3 DEF Live
  <1>5. goal \in {"backfill", "verifying"} /\ rec.barrier # Unset => Dual(rec.barrier)
    <2>1. goal \in {"backfill", "verifying"} =>
              rec.phase \in {"dual_write", "backfill", "verifying"}
      BY <1>2, Preceding
    <2>2. rec.phase = "dual_write" => rec.barrier = Unset
      BY DEF PlacedInv, PhaseOK
    <2> QED
      BY <2>1, <2>2 DEF PlacedInv
  <1>6. ~Untouched
    <2>1. Allowed["none"] = {}
      BY DEF Allowed
    <2>2. Untouched => rec.phase = "none"
      BY DEF Untouched, AllLoaded
    <2> QED
      BY <2>1, <2>2
  <1>7. ASSUME rec' = w, NEW v, v.phase = rec.phase, Lags(v) PROVE Lags(v)'
    <2>1. /\ v.from = rec.from /\ v.to = rec.to
          /\ IF rec.parity THEN v.phase \notin {"none", "draft", "validating"}
                           ELSE v.phase \notin {"cutover", "drain", "completed"}
      BY <1>7 DEF Lags
    <2> QED
      BY <1>1, <1>7, <2>1 DEF Lags
  <1> QED
    BY <1>1, <1>2, <1>3, <1>4, <1>5, <1>6, <1>7 DEF Follows, PlacedInv

(* EvidenceFollows: a step of the copy or the repair, or of verification.  *)
LEMMA EvidenceFollows ==
    ASSUME WholeMove, PlacedInv, NEW w,
           \/ /\ rec.phase = "backfill" /\ w.phase = "backfill"
              /\ w.from = rec.from /\ w.to = rec.to
              /\ ~w.parity /\ (w.complete => w.raw)
              /\ w.barrier # Unset /\ Dual(w.barrier)
           \/ /\ rec.phase = "verifying"
              /\ \E passed \in BOOLEAN :
                    /\ w = Verified(rec, passed)
                    /\ passed => \A d \in Docs : Covered(Home(rec.to), d)
    PROVE  /\ Follows(w)
           /\ rec' = w => \A v : v.phase \in DOMAIN Allowed /\ Lags(v) => Lags(v)'
  <1>1. ~Untouched
    BY DEF PlacedInv, Fresh
  <1>2. /\ w.phase = rec.phase /\ w.phase \in {"backfill", "verifying"}
        /\ w.from = rec.from /\ w.to = rec.to
        /\ w.barrier # Unset /\ Dual(w.barrier)
        /\ w.complete \/ w.phase = "verifying" => w.raw
        /\ w.parity => w.phase = "verifying" /\ \A d \in Docs : Covered(Home(rec.to), d)
    <2>1. CASE /\ rec.phase = "backfill" /\ w.phase = "backfill"
               /\ w.from = rec.from /\ w.to = rec.to
               /\ ~w.parity /\ (w.complete => w.raw)
               /\ w.barrier # Unset /\ Dual(w.barrier)
      BY <2>1
    <2>2. ASSUME rec.phase = "verifying", NEW passed \in BOOLEAN, w = Verified(rec, passed),
                 passed => \A d \in Docs : Covered(Home(rec.to), d)
          PROVE  /\ w.phase = rec.phase
                 /\ w.from = rec.from /\ w.to = rec.to
                 /\ w.barrier # Unset /\ Dual(w.barrier)
                 /\ w.raw
                 /\ w.parity => \A d \in Docs : Covered(Home(rec.to), d)
      <3>1. /\ w.phase = rec.phase /\ w.from = rec.from /\ w.to = rec.to
            /\ w.barrier = rec.barrier /\ w.raw = rec.raw /\ w.parity = passed
        BY <2>2, Phases DEF Verified, FieldNames
      <3>2. rec.barrier # Unset /\ Dual(rec.barrier) /\ rec.raw
        BY <2>2 DEF PlacedInv, PhaseOK
      <3> QED
        BY <2>2, <3>1, <3>2
    <2> QED
      BY <2>1, <2>2
  <1>3. PhaseOK(w)
    BY <1>2, Phases DEF PhaseOK
  <1>4. ASSUME NEW m \in Live(w)
        PROVE  /\ \A d \in Docs : Covered(Home(m), d)
               /\ route # Nil => Home(m) \in route.targets
    <2>1. m = rec.from \/ (m = rec.to /\ w.parity)
      BY <1>2 DEF Live
    <2>2. CASE m = rec.from
      <3>1. m \in Live(rec)
        BY <1>2, <2>2 DEF Live
      <3> QED
        BY <3>1 DEF PlacedInv
    <2>3. CASE m = rec.to /\ w.parity
      <3>1. route # Nil => Both(route.targets)
        BY <1>2 DEF Dual
      <3>2. Home(m) \in {Home("old"), Home("new")}
        BY <2>3, Phases
      <3> QED
        BY <1>2, <2>3, <3>1, <3>2 DEF Both
    <2> QED
      BY <2>1, <2>2, <2>3
  <1>5. ASSUME rec' = w, NEW v, v.phase \in DOMAIN Allowed, Lags(v) PROVE Lags(v)'
    <2>1. /\ v.from = rec.from /\ v.to = rec.to
          /\ v.phase = rec.phase \/ rec.phase \in Allowed[v.phase]
      BY <1>2, <1>5 DEF Lags
    <2>2. v.phase \in {"dual_write", "backfill", "verifying"}
      BY <1>2, <1>5, <2>1, Preceding
    <2> QED
      BY <1>2, <1>5, <2>1, <2>2 DEF Lags
  <1> QED
    BY <1>1, <1>2, <1>3, <1>4, <1>5 DEF Follows

(* Following: what a handler may commit follows the committed record.      *)
LEMMA Following ==
    ASSUME WholeMove, PlacedInv, NEW w, MayFollow(w)
    PROVE  /\ Follows(w)
           /\ rec' = w => \A r \in Replicas : \A v : v = view[r] => Lags(v)'
  <1>1. ASSUME NEW r \in Replicas PROVE view[r].phase \in DOMAIN Allowed /\ Lags(view[r])
    BY Standing, Fields DEF PlacedInv
  <1>2. CASE rec.phase \in Terminal \cup {"none"} /\ w = Draft(rec)
    BY <1>1, <1>2, DraftFollows
  <1>3. CASE /\ AllLoaded
             /\ \E goal \in Allowed[rec.phase] :
                   /\ w = Moved(rec, goal)
                   /\ goal = "verifying" => rec.complete /\ rec.barrier # Unset
                   /\ goal = "cutover" => rec.parity
    <2>1. \A r \in Replicas : view[r].phase = rec.phase
      BY <1>3 DEF AllLoaded
    <2> QED
      BY <1>1, <1>3, <2>1, MovedFollows
  <1>4. CASE \/ /\ rec.phase = "backfill" /\ w.phase = "backfill"
                /\ w.from = rec.from /\ w.to = rec.to
                /\ ~w.parity /\ (w.complete => w.raw)
                /\ w.barrier # Unset /\ Dual(w.barrier)
             \/ /\ rec.phase = "verifying"
                /\ \E passed \in BOOLEAN :
                      /\ w = Verified(rec, passed)
                      /\ passed => \A d \in Docs : Covered(Home(rec.to), d)
    BY <1>1, <1>4, EvidenceFollows
  <1> QED
    BY <1>2, <1>3, <1>4 DEF MayFollow

(* CommitPlaced: the record a handler commits follows the one it was       *)
(* worked out on, and what the others have worked out is void.             *)
LEMMA CommitPlaced ==
    ASSUME WholeMove, PlacedInv, RolloutInv', NEW o \in Operators,
           Commit(o) \/ CommitUnanswered(o)
    PROVE  PlacedInv'
  <1>1. /\ UNCHANGED <<log, pending, topic, dlq, store, ckpt, route>>
        /\ job' = [job EXCEPT ![o] = Nil] /\ job[o] # Nil /\ job[o].step = "commit"
    BY DEF Commit, CommitUnanswered, events, data
  <1>2. CASE ~UnchangedSince(o)
    <2>1. UNCHANGED <<rec, rev, view, cur>>
      BY <1>2 DEF Commit, CommitUnanswered, config
    <2> QED
      BY <1>1, <2>1, IdlePlaced
  <1>3. CASE UnchangedSince(o)
    <2>1. PICK w : w = job[o].rec
      OBVIOUS
    <2>2. /\ rec' = w /\ rev' = rev + 1 /\ MayFollow(w)
          /\ view' = [view EXCEPT ![job[o].at] = w] \/ view' = view
      BY <1>1, <1>3, <2>1, Current
      DEF Commit, CommitUnanswered, Committed, UnchangedSince, WorkOK, Relies
    <2>3. Follows(w) /\ \A r \in Replicas : \A v : v = view[r] => Lags(v)'
      BY <2>2, Following
    <2>4. EventsOK' /\ DualKept /\ \A c : \A d \in Docs : Kept(c, d)
      BY <1>1, Still DEF PlacedInv
    <2>5. /\ \A q \in Replicas : view'[q] \in {w, view[q]}
          /\ \A p \in Operators : job'[p] \in {job[p], Nil}
      BY <1>1, <2>2 DEF PlacedInv, RolloutInv
    <2>6. PhaseOK(rec)'
      BY <2>2, <2>3 DEF Follows, PhaseOK
    <2>7. ASSUME NEW q \in Replicas PROVE Lags(view[q])'
      <3>1. CASE view'[q] = w
        BY <2>2, <2>3, <3>1 DEF Lags, Follows, PhaseOK
      <3>2. CASE view'[q] = view[q]
        <4>1. PICK v : v = view[q]
          OBVIOUS
        <4>2. Lags(v)'
          BY <2>3, <4>1
        <4> QED
          BY <3>2, <4>1, <4>2 DEF Lags
      <3> QED
        BY <2>5, <3>1, <3>2
    <2>8. ASSUME NEW m \in Live(rec)'
          PROVE  /\ \A d \in Docs : Covered(Home(m), d)'
                 /\ route' # Nil => Home(m) \in route'.targets
      <3>1. m \in Live(w)
        BY <2>2 DEF Live
      <3>2. \A d \in Docs : Covered(Home(m), d)'
        BY <2>3, <2>4, <3>1 DEF Follows, Kept
      <3> QED
        BY <1>1, <2>3, <3>1, <3>2 DEF Follows
    <2>9. (rec.phase \in {"backfill", "verifying"} /\ rec.barrier # Unset => Dual(rec.barrier))'
      <3> SUFFICES ASSUME w.phase \in {"backfill", "verifying"}, w.barrier # Unset
                   PROVE  Dual(rec.barrier)'
        BY <2>2
      <3>1. PICK n : n = w.barrier
        OBVIOUS
      <3>2. n \in Int /\ n <= Len(log)
        BY <1>1, <2>1, <3>1, Current, Fields DEF JobOK, RolloutOK
      <3>3. Dual(n)'
        BY <2>3, <2>4, <3>1, <3>2 DEF DualKept, Follows
      <3> QED
        BY <2>2, <3>1, <3>3
    <2>10. ASSUME NEW p \in Operators, job'[p] # Nil PROVE WorkOK(job[p])'
      <3>1. PICK k : k = job[p]
        OBVIOUS
      <3>2. job'[p] = k /\ JobOK(k) /\ WorkOK(k)
        BY <2>5, <2>10, <3>1 DEF PlacedInv, RolloutInv
      <3>3. k.exp # rev'
        <4>1. rev \in Int
          BY Standing DEF PlacedInv
        <4> QED
          BY <2>2, <3>2, <4>1 DEF JobOK
      <3>4. WorkOK(k)'
        BY <1>1, <3>2, <3>3 DEF WorkOK
      <3> QED
        BY <3>2, <3>4
    <2>11. Untouched' => Fresh'
      <3>1. Untouched' => Untouched
        BY <2>2, <2>3, <2>5 DEF Untouched, Follows
      <3>2. Untouched => Fresh
        BY DEF PlacedInv
      <3>3. Untouched /\ Fresh => Fresh'
        BY <1>1, <2>2, <2>3, <2>5 DEF Fresh, Follows
      <3> QED
        BY <3>1, <3>2, <3>3
    <2> QED
      BY <2>4, <2>6, <2>7, <2>8, <2>9, <2>10, <2>11 DEF PlacedInv
  <1> QED
    BY <1>2, <1>3

-----------------------------------------------------------------------------
(* The specification *)

(* PlacedInit: every document is where the old policy places it.           *)
LEMMA PlacedInit ==
    ASSUME WholeMove, Init
    PROVE  PlacedInv
  <1>1. RolloutInv
    BY RolloutInvInit DEF WholeMove
  <1>2. PICK a : a = Home("old")
    OBVIOUS
  <1>3. PICK n \in Nat : Docs = 1 .. n
    BY DocsNumbered
  <1>4. /\ log = [d \in Docs |-> Event(d, d, {a}, Nil)]
        /\ store = [c \in Clusters |-> [d \in Docs |-> IF c \in {a} THEN d ELSE 0]]
        /\ ckpt = [c \in Clusters |-> [d \in Docs |-> IF c \in {a} THEN d ELSE 0]]
        /\ pending = {} /\ topic = <<>> /\ dlq = {} /\ route = Nil
        /\ rec = NoRollout /\ \A r \in Replicas : view[r] = rec
        /\ \A o \in Operators : job[o] = Nil
    <2>1. \A d \in Docs : (IF d \in Historic THEN Clusters \ PolicyClusters("old")
                                             ELSE Placement("old", d)) = {a}
      BY <1>2, Homes DEF WholeMove
    <2> QED
      BY <2>1 DEF Init
  <1>5. a \in Clusters
    BY <1>2, Homes
  <1>6. InFlight = {}
    BY <1>4 DEF InFlight, Range
  <1>7. /\ DOMAIN log = Docs /\ Docs \subseteq Nat
        /\ \A d \in Docs : /\ log[d].doc = d /\ log[d].body = d /\ log[d].targets = {a}
                           /\ log[d].repair = Nil
    BY <1>3, <1>4 DEF Event
  <1>8. ASSUME NEW d \in Docs PROVE Newest(d) = d
    <2>1. Len(log) \in Nat /\ DOMAIN log = 1 .. Len(log)
      BY <1>1, Standing
    <2>2. Latest(log, d, Newest(d))
      BY <1>7, <2>1, LatestIs DEF Newest
    <2>3. Latest(log, d, d)
      <3>1. \A p \in DOMAIN log : log[p].doc = p
        BY <1>7
      <3>2. d \in DOMAIN log /\ d \in Nat
        BY <1>7
      <3>3. d <= d
        BY <3>2
      <3> QED
        BY <3>1, <3>2, <3>3, Zenon DEF Latest
    <2> QED
      BY <2>1, <2>2, <2>3, LatestOnly
  <1>9. EventsOK
    <2>1. store \in [Clusters -> [Docs -> Nat]] /\ ckpt \in [Clusters -> [Docs -> Nat]]
      BY <1>4, <1>7
    <2>2. topic \in Seq(Nat)
      BY <1>4
    <2>3. \A p \in DOMAIN log :
             log[p].doc \in Docs /\ log[p].body \in Nat /\ log[p].targets \subseteq Clusters
      BY <1>5, <1>7
    <2>4. ASSUME NEW d \in Docs
          PROVE  /\ \E p \in DOMAIN log : log[p].doc = d
                 /\ \A c \in Clusters : ckpt[c][d] <= Newest(d)
                 /\ \A c \in log[Newest(d)].targets : ckpt[c][d] = Newest(d)
                 /\ Of(d) \subseteq {Newest(d)}
      <3>1. /\ Newest(d) = d /\ d \in Nat /\ d \in DOMAIN log
            /\ log[d].doc = d /\ log[d].targets = {a}
        BY <1>7, <1>8
      <3>2. \A c \in Clusters : ckpt[c][d] = IF c \in {a} THEN d ELSE 0
        BY <1>4
      <3>3. \A c \in Clusters : ckpt[c][d] <= d
        BY <3>1, <3>2
      <3>4. \A c \in {a} : ckpt[c][d] = d
        BY <1>5, <3>2
      <3>5. Of(d) = {}
        BY <1>6 DEF Of
      <3> QED
        BY <3>1, <3>3, <3>4, <3>5
    <2> QED
      BY <1>4, <1>6, <2>1, <2>2, <2>3, <2>4 DEF EventsOK
  <1>10. /\ rec.phase = "none" /\ rec.from = "old" /\ rec.to = "new" /\ rec.barrier = Unset
         /\ rec.raw = FALSE /\ rec.complete = FALSE /\ rec.parity = FALSE
    <2> DEFINE d == Draft([id |-> -1, phase |-> "none", ver |-> -1, from |-> "old", to |-> "new"])
    <2>1. d = [id |-> 0, phase |-> "draft", ver |-> 0, from |-> "old", to |-> "new",
               barrier |-> Unset, last |-> 0, raw |-> FALSE, through |-> Unset,
               cursor |-> Unset, repaired |-> FALSE, complete |-> FALSE, parity |-> FALSE]
      BY DEF Draft
    <2>2. NoRollout = [d EXCEPT !.phase = "none"]
      BY DEF NoRollout
    <2> HIDE DEF d
    <2> QED
      BY <1>4, <2>1, <2>2
  <1>11. PhaseOK(rec) /\ Lags(rec) /\ Live(rec) = {"old"}
    BY <1>10 DEF PhaseOK, Lags, Live, Paired
  <1>12. ASSUME NEW d \in Docs PROVE Covered(Home("old"), d)
    <2>1. store[a][d] = log[Newest(d)].body
      BY <1>4, <1>5, <1>7, <1>8
    <2> QED
      BY <1>2, <1>6, <2>1 DEF Covered, Of
  <1>13. Fresh
    BY <1>2, <1>4, <1>7, <1>10 DEF Fresh
  <1> QED
    BY <1>1, <1>4, <1>9, <1>10, <1>11, <1>12, <1>13 DEF PlacedInv

(* PlacedStep: every step keeps the invariant.                             *)
LEMMA PlacedStep ==
    ASSUME WholeMove, PlacedInv, [Next]_vars
    PROVE  PlacedInv'
  <1>0. RolloutInv'
    BY RolloutInvStep DEF PlacedInv
  <1>1. ASSUME NEW r \in Replicas, NEW d \in Docs, NEW gone \in BOOLEAN, Route(r, d, gone)
        PROVE  PlacedInv'
    BY <1>0, <1>1, RoutePlaced
  <1>2. ASSUME NEW r \in Replicas, Reload(r) \/ Administer(r) PROVE PlacedInv'
    BY <1>0, <1>2, CatchingPlaced
  <1>3. CASE Accept
    BY <1>0, <1>3, AcceptPlaced
  <1>4. CASE \/ \E p \in pending : Publish(p)
             \/ \E p \in dlq : Replay(p)
             \/ Index \/ DeadLetter
    <2>1. UNCHANGED <<rec, rev, view, cur, job>>
      BY <1>4 DEF Publish, Replay, Index, DeadLetter, config
    <2> QED
      BY <1>0, <1>4, <2>1, EventPlaced
  <1>5. CASE Elapse \/ (\E o \in Operators : Abandon(o)) \/ UNCHANGED vars
    <2>1. /\ UNCHANGED <<log, pending, topic, dlq, store, ckpt, rec, rev, view, cur, route>>
          /\ UNCHANGED job \/ \E o \in Operators : job' = [job EXCEPT ![o] = Nil]
      BY <1>5 DEF Elapse, Abandon, vars, events, data, config
    <2> QED
      BY <1>0, <2>1, IdlePlaced
  <1>6. ASSUME NEW o \in Operators, NEW r \in Replicas,
               \/ Create(o, r)
               \/ \E goal \in DOMAIN Allowed : Transition(o, r, goal)
               \/ BackfillStep(o, r)
               \/ BeginParity(o, r)
        PROVE  PlacedInv'
    BY <1>0, <1>6, CreatePlaced, TransitionPlaced, BackfillPlaced, BeginPlaced
  <1>7. ASSUME NEW o \in Operators,
               \/ MeasureLag(o) \/ MeasureDlq(o) \/ MeasurePending(o)
               \/ Export(o) \/ FinishCopy(o)
               \/ ListEvents(o) \/ Repair(o) \/ FinishRepair(o)
               \/ ExportSource(o) \/ ExportCandidate(o)
               \/ Commit(o) \/ CommitUnanswered(o)
        PROVE  PlacedInv'
    BY <1>0, <1>7, MeasurePlaced, ExportPlaced, ProgressPlaced, ListPlaced, RepairPlaced,
       SourcePlaced, CandidatePlaced, CommitPlaced
  <1>8. ASSUME NEW o \in Operators, NEW c \in Clusters, Import(o, c) PROVE PlacedInv'
    BY <1>0, <1>8, ImportPlaced
  <1> QED
    BY <1>1, <1>2, <1>3, <1>4, <1>5, <1>6, <1>7, <1>8 DEF Next

(* PlacedSafe: the invariant holds in every reachable state.               *)
LEMMA PlacedSafe == ASSUME WholeMove PROVE Spec => []PlacedInv
  <1>1. Init => PlacedInv
    BY PlacedInit
  <1>2. PlacedInv /\ [Next]_vars => PlacedInv'
    BY PlacedStep
  <1> QED
    BY <1>1, <1>2, PTL DEF Spec

(* Serving: what a runtime reads is up to date, also by a record that is   *)
(* about to be committed.                                                  *)
LEMMA Serving ==
    ASSUME WholeMove, PlacedInv, NEW r \in Replicas, ~Lost(r)
    PROVE  LET v == Runtime(r) IN
           /\ v.from # v.to /\ v.from \in {"old", "new"} /\ v.to \in {"old", "new"}
           /\ ReadModes(v) \subseteq {"old", "new"}
           /\ v.phase = "none" => Untouched
           /\ \E L :
                 /\ ReadModes(v) \cap L # {}
                 /\ ReadModes(v) = {v.from, v.to} \/ ReadModes(v) \subseteq L
                 /\ \A m \in L, d \in Docs : Covered(Home(m), d)
  <1>1. PICK v : v = Runtime(r)
    OBVIOUS
  <1>2. CASE v = view[r]
    <2>1. /\ v.from # v.to /\ v.from \in {"old", "new"} /\ v.to \in {"old", "new"}
          /\ ReadModes(v) \cap Live(rec) # {} /\ ReadModes(v) \subseteq {"old", "new"}
          /\ ReadModes(v) = {v.from, v.to} \/ ReadModes(v) \subseteq Live(rec)
      BY <1>2, Reading DEF PlacedInv
    <2>2. \A m \in Live(rec), d \in Docs : Covered(Home(m), d)
      BY DEF PlacedInv
    <2>3. v.phase = "none" => Untouched
      BY <1>2 DEF Untouched
    <2> QED
      BY <1>1, <2>1, <2>2, <2>3
  <1>3. CASE v # view[r]
    <2>1. PICK o \in Operators : /\ job[o] # Nil /\ job[o].step = "commit"
                                 /\ v = job[o].rec /\ job[o].exp = rev
      BY <1>1, <1>3, InRuntime
    <2>2. MayFollow(v) /\ v \in Rollouts
      BY <2>1, Current DEF WorkOK, Relies, JobOK, RolloutOK
    <2>3. Follows(v)
      BY <2>2, Following
    <2>4. /\ v.from # v.to /\ v.from \in {"old", "new"} /\ v.to \in {"old", "new"}
          /\ v.phase \in DOMAIN Allowed /\ v.phase # "none"
          /\ v.phase \in {"cutover", "drain", "completed"} => v.parity
          /\ \A m \in Live(v), d \in Docs : Covered(Home(m), d)
      BY <2>2, <2>3, Fields DEF Follows, PhaseOK
    <2>5. v.phase \in {"draft", "validating", "dual_write", "backfill", "verifying", "cutover",
                       "drain", "failed", "rolling_back", "completed", "cancelled", "rolled_back"}
      BY <2>4 DEF Allowed
    <2>6. /\ ReadModes(v) \cap Live(v) # {} /\ ReadModes(v) \subseteq {"old", "new"}
          /\ ReadModes(v) = {v.from, v.to} \/ ReadModes(v) \subseteq Live(v)
      BY <2>4, <2>5, Modes DEF Live, Paired
    <2> QED
      BY <1>1, <2>4, <2>6
  <1> QED
    BY <1>2, <1>3

(* NothingHidden: when a collection moves as a whole and the operator and  *)
(* the timing leave no gap, then in every phase, whatever replica is       *)
(* behind, the events once handled, every replica serves the newest        *)
(* mutation of every document, and nothing else where one policy is read;  *)
(* also by the record of a handler that is in its runtime and is not yet   *)
(* committed, or is given back, unless its revision is lost already.       *)
THEOREM NothingHidden == ASSUME WholeMove PROVE Spec => []NoHiddenDocument
  <1>1. ASSUME PlacedInv PROVE NoHiddenDocument
    <2> SUFFICES ASSUME Quiet, NEW r \in Replicas, NEW d \in Docs, ~Lost(r)
                 PROVE  LET now == {log[Newest(d)].body} \ {0} IN
                        /\ now \subseteq Served(r, d)
                        /\ Cardinality(ReadModes(Runtime(r))) = 1 => Served(r, d) \subseteq now
      BY DEF NoHiddenDocument
    <2> DEFINE body == log[Newest(d)].body
    <2>1. PICK v : v = Runtime(r)
      OBVIOUS
    <2>2. /\ v.from # v.to /\ v.from \in {"old", "new"} /\ v.to \in {"old", "new"}
          /\ ReadModes(v) \subseteq {"old", "new"} /\ (v.phase = "none" => Untouched)
          /\ \E L :
                /\ ReadModes(v) \cap L # {}
                /\ ReadModes(v) = {v.from, v.to} \/ ReadModes(v) \subseteq L
                /\ \A m \in L, x \in Docs : Covered(Home(m), x)
      BY <1>1, <2>1, Serving
    <2>7. PICK L : /\ ReadModes(v) \cap L # {}
                   /\ ReadModes(v) = {v.from, v.to} \/ ReadModes(v) \subseteq L
                   /\ \A m \in L, x \in Docs : Covered(Home(m), x)
      BY <2>2
    <2>8. InFlight = {}
      BY DEF Quiet, InFlight, Range
    <2>3. ASSUME NEW m, Covered(Home(m), d) PROVE store[Home(m)][d] = body
      BY <2>3, <2>8 DEF Covered
    <2>4. Cardinality(ReadModes(v)) = 1 => ReadModes(v) # {v.from, v.to}
      <3>1. PICK x, y : x = v.from /\ y = v.to
        OBVIOUS
      <3>2. IsFiniteSet({x}) /\ Cardinality({x}) = 1
        BY FS_Singleton
      <3>3. Cardinality({x} \cup {y}) = Cardinality({x}) + 1
        <4>1. y \notin {x}
          BY <2>2, <3>1
        <4> QED
          BY <3>2, <4>1, FS_AddElement
      <3>4. {v.from, v.to} = {x} \cup {y}
        BY <3>1
      <3> QED
        BY <3>2, <3>3, <3>4
    <2> HIDE DEF body
    <2>5. CASE v.phase = "none" /\ Policies[v.from].rules = <<>>
      <3>1. Served(r, d) = {store[c][d] : c \in Clusters} \ {0}
        BY <2>1, <2>5 DEF Served, SearchClusters
      <3>2. Fresh
        BY <1>1, <2>2, <2>5 DEF PlacedInv
      <3>3. rec.from = "old" /\ "old" \in Live(rec)
        BY <3>2 DEF Fresh, Live
      <3>4. store[Home("old")][d] = body /\ Home("old") \in Clusters
        BY <1>1, <2>3, <3>3, Homes DEF PlacedInv
      <3>5. \A c \in Clusters : c # Home("old") => store[c][d] = 0
        BY <3>2 DEF Fresh
      <3>6. Served(r, d) = {body} \ {0}
        BY <3>1, <3>4, <3>5
      <3> QED
        BY <3>6 DEF body
    <2>6. CASE ~(v.phase = "none" /\ Policies[v.from].rules = <<>>)
      <3>1. SearchClusters(v) = {Home(p) : p \in ReadModes(v)}
        <4>1. SearchClusters(v) = UNION {PolicyClusters(p) : p \in ReadModes(v)}
          BY <2>6 DEF SearchClusters
        <4> QED
          BY <2>2, <4>1, Homes
      <3>2. Served(r, d) = {store[Home(p)][d] : p \in ReadModes(v)} \ {0}
        BY <2>1, <3>1 DEF Served
      <3>3. {body} \ {0} \subseteq Served(r, d)
        BY <2>3, <2>7, <3>2
      <3>4. Cardinality(ReadModes(v)) = 1 => Served(r, d) \subseteq {body} \ {0}
        BY <2>3, <2>4, <2>7, <3>2
      <3> QED
        BY <2>1, <3>3, <3>4 DEF body
    <2> QED
      BY <2>5, <2>6
  <1> QED
    BY <1>1, PlacedSafe, PTL

(* CutoverFaithful: at the step into cutover of such a move both           *)
(* placements hold the same of every document with no event on its way,    *)
(* however long ago parity was measured.                                   *)
THEOREM CutoverFaithful == ASSUME WholeMove PROVE Spec => CutoverExact
  <1>1. ASSUME PlacedInv, [Next]_vars
        PROVE  rec.phase = "verifying" /\ rec'.phase = "cutover" =>
                  \A d \in Docs :
                      \/ \E p \in pending \cup dlq \cup Range(topic) : log[p].doc = d
                      \/ Copies(rec.from, d) = Copies(rec.to, d)
    <2> SUFFICES ASSUME rec.phase = "verifying", rec'.phase = "cutover", NEW d \in Docs, Of(d) = {}
                 PROVE  Copies(rec.from, d) = Copies(rec.to, d)
      BY DEF Of, InFlight
    <2>1. PICK o \in Operators : Commit(o) \/ CommitUnanswered(o)
      BY <1>1, Steps, OtherKeeps, HandlingKeeps, Catches DEF Catching, PlacedInv
    <2>2. MayFollow(rec')
      BY <1>1, <2>1, Current
      DEF Commit, CommitUnanswered, Committed, UnchangedSince, WorkOK, Relies, config
    <2>3. rec.parity
      <3>1. PICK w : w = rec'
        OBVIOUS
      <3>2. MayFollow(w) /\ w.phase = "cutover"
        BY <2>2, <3>1
      <3>3. CASE rec.phase \in Terminal \cup {"none"} /\ w = Draft(rec)
        BY <3>3 DEF Terminal
      <3>4. ASSUME NEW goal \in Allowed[rec.phase], w = Moved(rec, goal), goal = "cutover" => rec.parity
            PROVE  rec.parity
        <4>1. w.phase = goal
          BY <1>1, <3>4, Phases DEF Moved, FieldNames
        <4> QED
          BY <3>2, <3>4, <4>1
      <3>5. ASSUME NEW passed, w = Verified(rec, passed) PROVE FALSE
        <4>1. w.phase = rec.phase
          BY <1>1, <3>5, Phases DEF Verified, FieldNames
        <4> QED
          BY <3>2, <4>1
      <3> QED
        BY <3>2, <3>3, <3>4, <3>5 DEF MayFollow
    <2>4. rec.from \in Live(rec) /\ rec.to \in Live(rec)
      BY <2>3 DEF Live, Paired
    <2>5. ASSUME NEW m \in Live(rec) PROVE store[Home(m)][d] = log[Newest(d)].body
      <3>1. Covered(Home(m), d)
        BY <1>1 DEF PlacedInv
      <3>2. log[Newest(d)].doc = d
        BY <1>1, NewestIs DEF PlacedInv, Latest
      <3> QED
        BY <3>1, <3>2 DEF Covered, Of
    <2>6. store[Home(rec.from)][d] = store[Home(rec.to)][d]
      BY <2>4, <2>5
    <2>7. \A p \in {"old", "new"} : Copies(p, d) = {store[Home(p)][d]} \ {0}
      BY <1>1, Copy DEF PlacedInv
    <2>8. rec.from \in {"old", "new"} /\ rec.to \in {"old", "new"}
      BY <1>1, Phases
    <2> QED
      BY <2>6, <2>7, <2>8
  <1> QED
    BY <1>1, PlacedSafe, PTL DEF Spec, CutoverExact
=============================================================================
