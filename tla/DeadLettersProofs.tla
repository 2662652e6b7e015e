-------------------------- MODULE DeadLettersProofs --------------------------
(***************************************************************************)
(* Theorems about DeadLetters, for any events and documents, any number of *)
(* operators, and with or without a first commit of the group.             *)
(***************************************************************************)
EXTENDS DeadLetters, FiniteSetTheorems, SequenceTheorems, TLAPS

Run == [action : {"replay", "disposition"}, offset : Nat, letter : Events,
        commit : BOOLEAN, seen : Nat \cup {Nil}, step : {"send", "check", "commit"}]

Documents == {IdentOf[e] : e \in Events}

\* The types of the variables; a commit or a run is for a dead letter that
\* exists.
TypeInv ==
    /\ topic \in Seq(Events) /\ dlq \in Seq(Events)
    /\ applied \in [Documents -> Nat]
    /\ next \in 1 .. Cardinality(Events) + 1
    /\ beginning \in Nat
    /\ committed \in Nat \cup {Nil}
    /\ committed # Nil => committed <= Len(dlq)
    /\ op \in [Operators -> Run \cup {Nil}]
    /\ \A o \in Operators : op[o] # Nil => /\ op[o].offset < Len(dlq)
                                           /\ op[o].letter = Letter(op[o].offset)

Offsets == 0 .. Len(dlq) - 1

\* An event is still to be handled, or needs not be.
Kept(e) == e \in Range(topic) \/ e <= applied[IdentOf[e]] \/ e \in given

\* What may be committed over: the event is kept, or there is a later dead
\* letter of it.
Done(n) == Kept(Letter(n)) \/ \E k \in Offsets : n < k /\ Letter(k) = Letter(n)

\* Every event that was published is somewhere.
AcceptedInv == \A e \in Events : e < next => Kept(e) \/ e \in Range(dlq)

\* The records below the offset of the group are done.
CommittedInv == committed # Nil => \A n \in Offsets : n < committed => Done(n)

\* So are those below the record that a run is about to commit, however long
\* ago it compared the group's offset, and the record itself if it replayed it.
RunOK(o) ==
    op[o] # Nil =>
        /\ op[o].step = "commit" => \A n \in Offsets : n < op[o].offset => Done(n)
        /\ op[o].action = "replay" /\ op[o].step \in {"check", "commit"} =>
               Done(op[o].offset)

RunInv == \A o \in Operators : RunOK(o)

LettersInv == TypeInv /\ AcceptedInv /\ CommittedInv /\ RunInv

-----------------------------------------------------------------------------
(* Sequences *)

(* AppendRange: what is appended is added to the elements.                 *)
LEMMA AppendRange ==
    ASSUME NEW S, NEW s \in Seq(S), NEW e \in S
    PROVE  Range(Append(s, e)) = Range(s) \cup {e}
  <1>1. /\ DOMAIN Append(s, e) = 1 .. Len(s) + 1 /\ DOMAIN s = 1 .. Len(s)
        /\ Append(s, e)[Len(s) + 1] = e
        /\ \A i \in 1 .. Len(s) : Append(s, e)[i] = s[i]
        /\ Len(s) \in Nat
    OBVIOUS
  <1>2. 1 .. Len(s) + 1 = (1 .. Len(s)) \cup {Len(s) + 1}
    BY <1>1
  <1> QED
    BY <1>1, <1>2 DEF Range

(* TailRange: the elements are the head and those of the tail.             *)
LEMMA TailRange ==
    ASSUME NEW S, NEW s \in Seq(S), s # <<>>
    PROVE  /\ Range(s) = {Head(s)} \cup Range(Tail(s))
           /\ Head(s) \in S /\ Tail(s) \in Seq(S)
  <1>1. /\ Len(s) \in Nat \ {0} /\ Len(Tail(s)) = Len(s) - 1 /\ Tail(s) \in Seq(S)
        /\ Head(s) = s[1] /\ \A i \in 1 .. Len(s) - 1 : Tail(s)[i] = s[i + 1]
        /\ DOMAIN s = 1 .. Len(s) /\ DOMAIN Tail(s) = 1 .. Len(s) - 1
        /\ Head(s) \in S
    OBVIOUS
  <1>2. \A i \in 1 .. Len(s) : i = 1 \/ i - 1 \in 1 .. Len(s) - 1
    BY <1>1
  <1>3. \A i \in 1 .. Len(s) - 1 : i + 1 \in 1 .. Len(s)
    BY <1>1
  <1>4. ASSUME NEW x \in Range(s) PROVE x \in {Head(s)} \cup Range(Tail(s))
    <2>1. PICK i \in 1 .. Len(s) : x = s[i]
      BY <1>1, <1>4 DEF Range
    <2>2. CASE i = 1
      BY <1>1, <2>1, <2>2
    <2>3. CASE i - 1 \in 1 .. Len(s) - 1
      <3>1. Tail(s)[i - 1] = s[i]
        BY <1>1, <2>1, <2>3
      <3> QED
        BY <1>1, <2>1, <2>3, <3>1 DEF Range
    <2> QED
      BY <1>2, <2>2, <2>3
  <1>5. ASSUME NEW x \in Range(Tail(s)) PROVE x \in Range(s)
    <2>1. PICK i \in 1 .. Len(s) - 1 : x = Tail(s)[i]
      BY <1>1, <1>5 DEF Range
    <2> QED
      BY <1>1, <1>3, <2>1 DEF Range
  <1>6. Head(s) \in Range(s)
    BY <1>1 DEF Range
  <1> QED
    BY <1>1, <1>4, <1>5, <1>6

(* LastOffset: a set of offsets has a greatest element.                    *)
LEMMA LastOffset ==
    ASSUME NEW N \in Nat, NEW S \in SUBSET (0 .. N), S # {}
    PROVE  \E g \in S : \A n \in S : n <= g
  <1> DEFINE Above == {p \in Nat \X Nat : p[1] < p[2]}
             Room == {N - n : n \in S}
  <1>1. IsWellFoundedOn(Above, Nat)
    BY NatLessThanWellFounded DEF OpToRel
  <1>2. Room \subseteq Nat /\ Room # {}
    <2>1. ASSUME NEW n \in S PROVE N - n \in Nat
      BY <2>1
    <2>2. PICK n \in S : TRUE
      OBVIOUS
    <2> QED
      BY <2>1, <2>2
  <1>3. PICK r \in Room : \A m \in Room : <<m, r>> \notin Above
    <2> HIDE DEF Above, Room
    <2> QED
      BY <1>1, <1>2, WFMin
  <1>4. PICK g \in S : r = N - g
    OBVIOUS
  <1>5. ASSUME NEW n \in S PROVE n <= g
    <2>1. N - n \in Room /\ N - n \in Nat /\ r \in Nat
      BY <1>2, <1>3
    <2>2. <<N - n, r>> \in Nat \X Nat /\ <<N - n, r>>[1] = N - n /\ <<N - n, r>>[2] = r
      BY <2>1
    <2>3. ~ (N - n < r)
      BY <1>3, <2>1, <2>2
    <2> QED
      BY <1>4, <2>1, <2>3
  <1> QED
    BY <1>5

-----------------------------------------------------------------------------
(* The steps *)

(* EventsTyped: events are numbers, and each has its document.             *)
LEMMA EventsTyped ==
    /\ Events \subseteq Nat \ {0}
    /\ \A e \in Events : IdentOf[e] \in Documents
  BY LettersAssumption, FS_CardinalityType DEF Documents

(* RunTyped: the fields of a run.                                          *)
LEMMA RunTyped ==
    ASSUME TypeInv, NEW o \in Operators, op[o] # Nil
    PROVE  /\ op[o] \in Run /\ op[o].offset \in Offsets /\ op[o].offset \in Nat
           /\ op[o].letter \in Events /\ op[o].letter = Letter(op[o].offset)
  <1>1. op[o] \in Run /\ op[o].offset < Len(dlq) /\ Len(dlq) \in Nat
    BY DEF TypeInv
  <1>2. op[o].offset \in Nat /\ op[o].letter \in Events
    BY <1>1 DEF Run
  <1> QED
    BY <1>1, <1>2 DEF TypeInv, Offsets

(* LetterTyped: a dead letter is of an event.                              *)
LEMMA LetterTyped ==
    ASSUME TypeInv, NEW n \in Offsets
    PROVE  /\ Letter(n) \in Events /\ n \in Nat /\ n + 1 \in 1 .. Len(dlq)
           /\ Letter(n) \in Range(dlq)
  <1>1. dlq \in Seq(Events) /\ n + 1 \in 1 .. Len(dlq) /\ n \in Nat
    BY DEF TypeInv, Offsets
  <1> QED
    BY <1>1 DEF Letter, Range

\* The kinds of steps, by what they do to the events.
Arrives(e) == topic' = Append(topic, e) /\ UNCHANGED <<applied, dlq, given>>

Closed == UNCHANGED <<topic, applied, dlq>> /\ given \subseteq given'

(* StepKinds: what a step does to the events.                              *)
LEMMA StepKinds ==
    ASSUME TypeInv, [Next]_vars
    PROVE  \/ \E e \in Events : Arrives(e)
           \/ Handle \/ DeadLetter \/ Closed
  <1>1. CASE UNCHANGED vars
    BY <1>1 DEF vars, letters, source, Closed
  <1>2. CASE Publish
    BY <1>2 DEF Publish, letters, Arrives
  <1>3. CASE Expire
    BY <1>3 DEF Expire, source, Closed
  <1>4. ASSUME NEW o \in Operators, Resolve(o) \/ Observe(o) \/ Dispose(o) \/ SendFails(o) \/ Stop(o)
        PROVE  Closed \/ \E e \in Events : Arrives(e)
    <2>1. CASE Send(o)
      <3>1. op[o].letter \in Events
        BY <2>1, RunTyped DEF Send
      <3> QED
        BY <2>1, <3>1 DEF Send, Arrives, letters
    <2>2. CASE Commit(o)
      <3>1. UNCHANGED <<topic, applied, dlq>> /\ given \subseteq given'
        BY <2>2 DEF Commit, letters, source
      <3> QED
        BY <3>1 DEF Closed
    <2>3. CASE \E a \in {"replay", "disposition"}, n \in 0 .. MaxLetters, c \in BOOLEAN :
                  Fetch(o, a, n, c)
      BY <2>3 DEF Fetch, letters, source, Closed
    <2>4. CASE Check(o) \/ SendFails(o) \/ Stop(o)
      BY <2>4 DEF Check, SendFails, Stop, letters, source, Closed
    <2> QED
      BY <1>4, <2>1, <2>2, <2>3, <2>4 DEF Resolve, Observe, Dispose
  <1> QED
    BY <1>1, <1>2, <1>3, <1>4 DEF Next

(* AppliedGrows: what is applied to a document is only followed by newer   *)
(* events.                                                                 *)
LEMMA AppliedGrows ==
    ASSUME TypeInv, [Next]_vars
    PROVE  /\ applied' \in [Documents -> Nat]
           /\ \A i \in Documents : applied'[i] >= applied[i]
  <1>1. applied \in [Documents -> Nat] /\ \A i \in Documents : applied[i] \in Nat
    BY DEF TypeInv
  <1>2. CASE Handle
    <2>1. topic \in Seq(Events) /\ topic # <<>>
      BY <1>2 DEF TypeInv, Handle
    <2>2. Head(topic) \in Events
      BY <2>1, TailRange
    <2>3. PICK e \in Events : e = Head(topic)
      BY <2>2
    <2>4. applied' = IF e <= applied[IdentOf[e]] THEN applied
                     ELSE [applied EXCEPT ![IdentOf[e]] = e]
      BY <1>2, <2>3 DEF Handle, Stale
    <2>5. e \in Nat /\ IdentOf[e] \in Documents
      BY EventsTyped
    <2> QED
      BY <1>1, <2>4, <2>5
  <1>3. CASE applied' = applied
    BY <1>1, <1>3
  <1> QED
    BY <1>2, <1>3, StepKinds DEF Arrives, DeadLetter, Closed

(* KeptStays: an event stays kept unless it becomes a dead letter.         *)
LEMMA KeptStays ==
    ASSUME TypeInv, [Next]_vars, NEW e \in Events, Kept(e)
    PROVE  Kept(e)' \/ dlq' = Append(dlq, e)
  <1>1. /\ topic \in Seq(Events) /\ e \in Nat /\ IdentOf[e] \in Documents
        /\ applied \in [Documents -> Nat] /\ applied' \in [Documents -> Nat]
        /\ \A i \in Documents : applied'[i] >= applied[i]
    BY EventsTyped, AppliedGrows DEF TypeInv
  <1>2. /\ applied[IdentOf[e]] \in Nat /\ applied'[IdentOf[e]] \in Nat
        /\ applied'[IdentOf[e]] >= applied[IdentOf[e]]
    BY <1>1
  <1>3. e <= applied[IdentOf[e]] => e <= applied'[IdentOf[e]]
    BY <1>1, <1>2
  <1>4. ASSUME NEW x \in Events, Arrives(x) PROVE Kept(e)'
    BY <1>1, <1>3, <1>4, AppendRange DEF Arrives, Kept
  <1>5. CASE Closed
    BY <1>3, <1>5 DEF Closed, Kept
  <1>6. CASE Handle
    <2>1. topic # <<>> /\ topic' = Tail(topic) /\ given' = given
      BY <1>6 DEF Handle
    <2>2. Range(topic) = {Head(topic)} \cup Range(topic')
      BY <1>1, <2>1, TailRange
    <2>3. CASE e = Head(topic)
      <3>1. applied' = IF e <= applied[IdentOf[e]] THEN applied
                       ELSE [applied EXCEPT ![IdentOf[e]] = e]
        BY <1>6, <2>3 DEF Handle, Stale
      <3>2. e <= applied'[IdentOf[e]]
        BY <1>1, <3>1
      <3> QED
        BY <3>2 DEF Kept
    <2> QED
      BY <1>3, <2>1, <2>2, <2>3 DEF Kept
  <1>7. CASE DeadLetter
    <2>1. /\ topic # <<>> /\ topic' = Tail(topic) /\ given' = given
          /\ dlq' = Append(dlq, Head(topic))
      BY <1>7 DEF DeadLetter
    <2>2. Range(topic) = {Head(topic)} \cup Range(topic')
      BY <1>1, <2>1, TailRange
    <2> QED
      BY <1>3, <2>1, <2>2 DEF Kept
  <1> QED
    BY <1>4, <1>5, <1>6, <1>7, StepKinds

(* DeadLettersGrow: dead letters are appended, and never change.           *)
LEMMA DeadLettersGrow ==
    ASSUME TypeInv, [Next]_vars
    PROVE  /\ dlq' \in Seq(Events) /\ Len(dlq') >= Len(dlq)
           /\ \A n \in Offsets : n \in Offsets' /\ Letter(n)' = Letter(n)
           /\ Range(dlq) \subseteq Range(dlq')
           /\ \A e \in Events : dlq' = Append(dlq, e) =>
                 /\ Len(dlq) \in Offsets' /\ dlq'[Len(dlq) + 1] = e
                 /\ e \in Range(dlq')
  <1>1. dlq \in Seq(Events) /\ Len(dlq) \in Nat
    BY DEF TypeInv
  <1>2. ASSUME NEW e \in Events, dlq' = Append(dlq, e)
        PROVE  /\ dlq' \in Seq(Events) /\ Len(dlq') >= Len(dlq)
               /\ \A n \in Offsets : n \in Offsets' /\ Letter(n)' = Letter(n)
               /\ Range(dlq) \subseteq Range(dlq')
               /\ Len(dlq) \in Offsets' /\ dlq'[Len(dlq) + 1] = e
               /\ e \in Range(dlq')
    <2>1. /\ dlq' \in Seq(Events) /\ Len(dlq') = Len(dlq) + 1
          /\ \A i \in 1 .. Len(dlq) : dlq'[i] = dlq[i]
          /\ dlq'[Len(dlq) + 1] = e
      BY <1>1, <1>2, AppendProperties
    <2>2. Range(dlq') = Range(dlq) \cup {e}
      BY <1>1, <1>2, AppendRange
    <2> QED
      BY <1>1, <2>1, <2>2 DEF Offsets, Letter
  <1>3. dlq' = dlq \/ \E e \in Events : dlq' = Append(dlq, e)
    <2>1. CASE DeadLetter
      <3>1. topic \in Seq(Events) /\ topic # <<>> /\ dlq' = Append(dlq, Head(topic))
        BY <2>1 DEF DeadLetter, TypeInv
      <3>2. Head(topic) \in Events
        BY <3>1, TailRange
      <3> QED
        BY <3>1, <3>2
    <2> QED
      BY <2>1, StepKinds DEF Arrives, Handle, Closed, letters
  <1>4. CASE dlq' = dlq
    <2>1. ASSUME NEW e \in Events PROVE dlq' # Append(dlq, e)
      BY <1>1, <1>4, AppendProperties
    <2> QED
      BY <1>1, <1>4, <2>1 DEF Offsets, Letter
  <1> QED
    BY <1>2, <1>3, <1>4

(* DoneStays: what may be committed over stays so.                         *)
LEMMA DoneStays ==
    ASSUME TypeInv, [Next]_vars, NEW n \in Offsets, Done(n)
    PROVE  Done(n)'
  <1>1. /\ Letter(n) \in Events /\ n < Len(dlq) /\ Len(dlq) \in Nat
        /\ n \in Offsets' /\ Letter(n)' = Letter(n)
    BY LetterTyped, DeadLettersGrow DEF TypeInv, Offsets
  <1>2. ASSUME NEW k \in Offsets, n < k, Letter(k) = Letter(n)
        PROVE  Done(n)'
    <2>1. k \in Offsets' /\ Letter(k)' = Letter(k)
      BY DeadLettersGrow
    <2> QED
      BY <1>1, <1>2, <2>1 DEF Done
  <1>3. ASSUME Kept(Letter(n)) PROVE Done(n)'
    <2>1. PICK e \in Events : e = Letter(n)
      BY <1>1
    <2>2. Kept(e)' \/ dlq' = Append(dlq, e)
      BY <1>3, <2>1, KeptStays
    <2>3. CASE dlq' = Append(dlq, e)
      <3>1. Len(dlq) \in Offsets' /\ dlq'[Len(dlq) + 1] = e
        BY <2>3, DeadLettersGrow
      <3>2. PICK k \in Nat : k = Len(dlq)
        BY <1>1
      <3>3. k \in Offsets' /\ n < k /\ Letter(k)' = e
        BY <1>1, <3>1, <3>2 DEF Letter
      <3> QED
        BY <1>1, <2>1, <3>3 DEF Done
    <2>4. CASE Kept(e)'
      BY <1>1, <2>1, <2>4 DEF Done, Kept
    <2> QED
      BY <2>2, <2>3, <2>4
  <1> QED
    BY <1>2, <1>3 DEF Done

\* What a step does to a run of the tool.
Fetched(o) ==
    /\ op'[o].offset \in Offsets /\ op'[o].letter = Letter(op'[o].offset)
    /\ op'[o].step # "commit" /\ (op'[o].action = "replay" => op'[o].step = "send")

Sent(o) ==
    /\ op[o] # Nil /\ op'[o] = [op[o] EXCEPT !.step = "check"]
    /\ op[o].step = "send" /\ topic' = Append(topic, op[o].letter)

Checked(o) ==
    /\ op[o] # Nil /\ op'[o] = [op[o] EXCEPT !.step = "commit"]
    /\ op[o].step = "check" /\ committed = op[o].offset

RunMoves(o) ==
    /\ op'[o] \in Run \cup {Nil}
    /\ op'[o] # Nil => op'[o] = op[o] \/ Fetched(o) \/ Sent(o) \/ Checked(o)

Committed(o) ==
    /\ op[o] # Nil /\ op[o].step = "commit" /\ committed' = op[o].offset + 1
    /\ op[o].action = "disposition" => op[o].letter \in given'

(* RunsMove: a step moves at most one run.                                 *)
LEMMA RunsMove ==
    ASSUME TypeInv, [Next]_vars
    PROVE  /\ op' \in [Operators -> Run \cup {Nil}]
           /\ \A o \in Operators : RunMoves(o)
           /\ committed' = committed \/ \E o \in Operators : Committed(o)
  <1>1. op \in [Operators -> Run \cup {Nil}]
    BY DEF TypeInv
  <1>2. CASE op' = op /\ committed' = committed
    BY <1>1, <1>2 DEF RunMoves
  <1>3. ASSUME NEW o \in Operators, NEW r \in Run \cup {Nil},
               op' = [op EXCEPT ![o] = r], RunMoves(o),
               committed' = committed \/ Committed(o)
        PROVE  /\ op' \in [Operators -> Run \cup {Nil}]
               /\ \A u \in Operators : RunMoves(u)
               /\ committed' = committed \/ \E u \in Operators : Committed(u)
    <2>1. op' \in [Operators -> Run \cup {Nil}]
      BY <1>1, <1>3
    <2>2. ASSUME NEW u \in Operators, u # o PROVE RunMoves(u)
      BY <1>1, <1>3, <2>1, <2>2 DEF RunMoves
    <2> QED
      BY <1>3, <2>1, <2>2
  <1>4. CASE UNCHANGED vars \/ Publish \/ Handle \/ DeadLetter \/ Expire
    BY <1>2, <1>4 DEF vars, Publish, Handle, DeadLetter, Expire
  <1>5. ASSUME NEW o \in Operators, op' = [op EXCEPT ![o] = Nil],
               committed' = committed \/ Committed(o)
        PROVE  RunMoves(o)
    BY <1>1, <1>5 DEF RunMoves
  <1>6. ASSUME NEW o \in Operators, NEW step \in {"check", "commit"}, op[o] # Nil,
               Goto(o, step)
        PROVE  \E r \in Run : op' = [op EXCEPT ![o] = r] /\ r = [op[o] EXCEPT !.step = step]
                              /\ op'[o] = r
    <2>1. op[o] \in Run
      BY <1>1, <1>6
    <2>2. PICK r : r = [op[o] EXCEPT !.step = step]
      OBVIOUS
    <2>3. r \in Run /\ op' = [op EXCEPT ![o] = r]
      BY <1>6, <2>1, <2>2 DEF Goto, Run
    <2> QED
      BY <1>1, <2>2, <2>3
  <1>7. ASSUME NEW o \in Operators, NEW a \in {"replay", "disposition"},
               NEW n \in 0 .. MaxLetters, NEW c \in BOOLEAN, Fetch(o, a, n, c)
        PROVE  \E r \in Run : op' = [op EXCEPT ![o] = r] /\ RunMoves(o) /\ committed' = committed
    <2> DEFINE r == [action |-> a, offset |-> n, letter |-> Letter(n), commit |-> c,
                     seen |-> committed, step |-> IF a = "replay" THEN "send" ELSE "check"]
    <2>1. /\ op' = [op EXCEPT ![o] = r] /\ committed' = committed
          /\ n \in beginning .. Len(dlq) - 1
      BY <1>7 DEF Fetch
    <2>2. n \in Offsets
      BY <2>1, LettersAssumption DEF TypeInv, Offsets
    <2>3. Letter(n) \in Events /\ n \in Nat /\ committed \in Nat \cup {Nil}
      BY <2>2, LetterTyped DEF TypeInv
    <2>4. r \in Run
      BY <2>3 DEF Run
    <2>5. op'[o] = r
      BY <1>1, <2>1
    <2>6. RunMoves(o)
      <3>1. r.offset = n /\ r.letter = Letter(n) /\ r.step # "commit" /\ r.action = a
            /\ (a = "replay" => r.step = "send")
        OBVIOUS
      <3> HIDE DEF r
      <3> QED
        BY <2>2, <2>4, <2>5, <3>1 DEF RunMoves, Fetched
    <2> HIDE DEF r
    <2> QED
      BY <2>1, <2>4, <2>6
  <1>8. ASSUME NEW o \in Operators, Send(o)
        PROVE  \E r \in Run \cup {Nil} :
                  op' = [op EXCEPT ![o] = r] /\ RunMoves(o) /\ committed' = committed
    <2>1. /\ op[o] # Nil /\ op[o].step = "send" /\ committed' = committed
          /\ topic' = Append(topic, op[o].letter)
          /\ Goto(o, "check") \/ Ended(o)
      BY <1>8 DEF Send
    <2>2. CASE Goto(o, "check")
      BY <1>6, <2>1, <2>2 DEF RunMoves, Sent
    <2>3. CASE Ended(o)
      BY <1>5, <2>1, <2>3 DEF Ended
    <2> QED
      BY <2>1, <2>2, <2>3
  <1>9. ASSUME NEW o \in Operators, Check(o)
        PROVE  \E r \in Run \cup {Nil} :
                  op' = [op EXCEPT ![o] = r] /\ RunMoves(o) /\ committed' = committed
    <2>1. /\ op[o] # Nil /\ op[o].step = "check" /\ committed' = committed
          /\ (committed = op[o].offset /\ Goto(o, "commit")) \/ Ended(o)
      BY <1>9 DEF Check
    <2>2. CASE committed = op[o].offset /\ Goto(o, "commit")
      BY <1>6, <2>1, <2>2 DEF RunMoves, Checked
    <2>3. CASE Ended(o)
      BY <1>5, <2>1, <2>3 DEF Ended
    <2> QED
      BY <2>1, <2>2, <2>3
  <1>10. ASSUME NEW o \in Operators, Commit(o)
         PROVE  op' = [op EXCEPT ![o] = Nil] /\ Committed(o)
    BY <1>10 DEF Commit, CommitOffset, Ended, Committed
  <1>11. ASSUME NEW o \in Operators, SendFails(o) \/ Stop(o)
         PROVE  op' = [op EXCEPT ![o] = Nil] /\ committed' = committed
    BY <1>11 DEF SendFails, Stop, AfterFailure, Ended
  <1>12. ASSUME NEW o \in Operators,
                Resolve(o) \/ Observe(o) \/ Dispose(o) \/ SendFails(o) \/ Stop(o)
         PROVE  \E r \in Run \cup {Nil} :
                  /\ op' = [op EXCEPT ![o] = r] /\ RunMoves(o)
                  /\ committed' = committed \/ Committed(o)
    <2>1. CASE \E a \in {"replay", "disposition"}, n \in 0 .. MaxLetters, c \in BOOLEAN :
                  Fetch(o, a, n, c)
      BY <1>7, <2>1
    <2>2. CASE Commit(o) \/ SendFails(o) \/ Stop(o)
      BY <1>5, <1>10, <1>11, <2>2
    <2> QED
      BY <1>8, <1>9, <1>12, <2>1, <2>2 DEF Resolve, Observe, Dispose
  <1> QED
    BY <1>3, <1>2, <1>4, <1>12 DEF Next

(* TypeStep: steps keep the types.                                         *)
LEMMA TypeStep ==
    ASSUME TypeInv, [Next]_vars
    PROVE  TypeInv'
  <1>1. topic' \in Seq(Events)
    <2>1. topic \in Seq(Events)
      BY DEF TypeInv
    <2>2. ASSUME NEW e \in Events, Arrives(e) PROVE topic' \in Seq(Events)
      BY <2>1, <2>2, AppendProperties DEF Arrives
    <2>3. CASE Handle \/ DeadLetter
      BY <2>1, <2>3, TailRange DEF Handle, DeadLetter
    <2> QED
      BY <2>1, <2>2, <2>3, StepKinds DEF Closed
  <1>2. dlq' \in Seq(Events) /\ Len(dlq') >= Len(dlq) /\ Len(dlq) \in Nat /\ Len(dlq') \in Nat
    BY DeadLettersGrow DEF TypeInv
  <1>3. next' \in 1 .. Cardinality(Events) + 1 /\ beginning' \in Nat
    <2>1. next' = next \/ (next' = next + 1 /\ next \in Events)
      BY DEF Next, vars, source, Publish, Handle, DeadLetter, Expire, Resolve, Observe,
             Dispose, Fetch, Send, Check, Commit, SendFails, Stop
    <2>2. beginning' = beginning \/ beginning' = beginning + 1
      BY DEF Next, vars, letters, Publish, Handle, DeadLetter, Expire, Resolve, Observe,
             Dispose, Fetch, Send, Check, Commit, SendFails, Stop
    <2> QED
      BY <2>1, <2>2, LettersAssumption, FS_CardinalityType DEF TypeInv
  <1>4. committed' \in Nat \cup {Nil} /\ (committed' # Nil => committed' <= Len(dlq'))
    <2>1. CASE committed' = committed
      BY <1>2, <2>1 DEF TypeInv
    <2>2. ASSUME NEW o \in Operators, Committed(o)
          PROVE  committed' \in Nat /\ committed' <= Len(dlq')
      <3>1. op[o].offset \in Nat /\ op[o].offset < Len(dlq) /\ committed' = op[o].offset + 1
        BY <2>2, RunTyped DEF Committed, TypeInv
      <3> QED
        BY <1>2, <3>1
    <2> QED
      BY <2>1, <2>2, RunsMove
  <1>5. ASSUME NEW o \in Operators, op'[o] # Nil
        PROVE  op'[o].offset < Len(dlq') /\ op'[o].letter = dlq'[op'[o].offset + 1]
    <2>1. \E n \in Offsets : op'[o].offset = n /\ op'[o].letter = Letter(n)
      <3>1. CASE Fetched(o)
        BY <3>1 DEF Fetched
      <3>2. CASE op[o] # Nil /\ \E s \in {"check", "commit"} : op'[o] = [op[o] EXCEPT !.step = s]
        <4>1. op[o] \in Run /\ op[o].offset \in Offsets /\ op[o].letter = Letter(op[o].offset)
          BY <3>2, RunTyped
        <4>2. op'[o].offset = op[o].offset /\ op'[o].letter = op[o].letter
          BY <3>2, <4>1 DEF Run
        <4> QED
          BY <4>1, <4>2
      <3>3. CASE op'[o] = op[o]
        BY <1>5, <3>3, RunTyped
      <3> QED
        BY <1>5, <3>1, <3>2, <3>3, RunsMove DEF RunMoves, Sent, Checked
    <2>2. PICK n \in Offsets : op'[o].offset = n /\ op'[o].letter = Letter(n)
      BY <2>1
    <2>3. n \in Offsets' /\ dlq'[n + 1] = Letter(n)
      BY DeadLettersGrow DEF Letter
    <2> QED
      BY <1>2, <2>2, <2>3 DEF Offsets
  <1> QED
    BY <1>1, <1>2, <1>3, <1>4, <1>5, AppliedGrows, RunsMove DEF TypeInv, Letter

(* LettersInit: the topics are empty.                                      *)
LEMMA LettersInit == Init => LettersInv
  <1> SUFFICES ASSUME Init PROVE LettersInv
    OBVIOUS
  <1>1. /\ topic \in Seq(Events) /\ dlq \in Seq(Events) /\ Len(dlq) = 0
        /\ applied \in [Documents -> Nat]
    BY DEF Init, Documents
  <1>2. TypeInv
    BY <1>1, LettersAssumption, FS_CardinalityType DEF Init, TypeInv
  <1>3. Offsets = {}
    BY <1>1 DEF Offsets
  <1>4. AcceptedInv
    BY EventsTyped DEF Init, AcceptedInv
  <1> QED
    BY <1>2, <1>3, <1>4 DEF Init, LettersInv, CommittedInv, RunInv, RunOK

(* AcceptedStep: no event is lost on its way.                              *)
LEMMA AcceptedStep ==
    ASSUME TypeInv, AcceptedInv, [Next]_vars
    PROVE  AcceptedInv'
  <1> SUFFICES ASSUME NEW e \in Events, e < next'
               PROVE  Kept(e)' \/ e \in Range(dlq')
    BY DEF AcceptedInv
  <1>1. CASE Kept(e)
    BY <1>1, KeptStays, DeadLettersGrow
  <1>2. CASE e \in Range(dlq)
    BY <1>2, DeadLettersGrow
  <1>3. CASE ~(e < next)
    <2>1. Publish
      BY <1>3 DEF Next, vars, source, Publish, Handle, DeadLetter, Expire, Resolve, Observe,
                  Dispose, Fetch, Send, Check, Commit, SendFails, Stop
    <2>2. topic \in Seq(Events) /\ next \in Events /\ next \in Nat /\ e \in Nat
          /\ topic' = Append(topic, next) /\ next' = next + 1
      BY <2>1, EventsTyped DEF Publish, TypeInv
    <2>3. e = next
      BY <1>3, <2>2
    <2>4. e \in Range(topic')
      BY <2>2, <2>3, AppendRange
    <2> QED
      BY <2>4 DEF Kept
  <1> QED
    BY <1>1, <1>2, <1>3 DEF AcceptedInv

(* CommittedStep: a commit only goes over what is done.                    *)
LEMMA CommittedStep ==
    ASSUME LettersInv, [Next]_vars
    PROVE  CommittedInv'
  <1> SUFFICES ASSUME committed' # Nil, NEW n \in Offsets', n < committed'
               PROVE  Done(n)'
    BY DEF CommittedInv
  <1>1. TypeInv /\ CommittedInv /\ RunInv /\ n \in Nat /\ Len(dlq) \in Nat
    BY DEF LettersInv, TypeInv, Offsets
  <1>2. CASE committed' = committed
    <2>1. committed \in Nat /\ committed <= Len(dlq)
      BY <1>1, <1>2 DEF TypeInv
    <2>2. n \in Offsets
      BY <1>1, <1>2, <2>1 DEF Offsets
    <2> QED
      BY <1>1, <1>2, <2>2, DoneStays DEF CommittedInv
  <1>3. ASSUME NEW o \in Operators, Committed(o)
        PROVE  Done(n)'
    <2>1. /\ op[o] # Nil /\ op[o].step = "commit" /\ committed' = op[o].offset + 1
          /\ op[o].offset \in Offsets /\ op[o].offset \in Nat /\ op[o] \in Run
          /\ op[o].letter = Letter(op[o].offset)
      BY <1>1, <1>3, RunTyped DEF Committed
    <2>2. n \in Offsets /\ (n < op[o].offset \/ n = op[o].offset)
      BY <1>1, <2>1 DEF Offsets
    <2>3. CASE n < op[o].offset \/ op[o].action = "replay"
      <3>1. Done(n)
        BY <1>1, <2>1, <2>2, <2>3 DEF RunInv, RunOK
      <3> QED
        BY <1>1, <2>2, <3>1, DoneStays
    <2>4. CASE n = op[o].offset /\ op[o].action = "disposition"
      <3>1. Letter(n) \in given' /\ Letter(n)' = Letter(n)
        BY <1>1, <1>3, <2>1, <2>2, <2>4, DeadLettersGrow DEF Committed
      <3> QED
        BY <3>1 DEF Done, Kept
    <2> QED
      BY <2>1, <2>2, <2>3, <2>4 DEF Run
  <1> QED
    BY <1>1, <1>2, <1>3, RunsMove

(* RunStep: what a run knows of the records up to its own stays true.      *)
LEMMA RunStep ==
    ASSUME LettersInv, [Next]_vars
    PROVE  RunInv'
  <1>1. TypeInv /\ CommittedInv /\ RunInv /\ TypeInv' /\ Len(dlq) \in Nat
    BY TypeStep DEF LettersInv, TypeInv
  <1> SUFFICES ASSUME NEW o \in Operators, op'[o] # Nil PROVE RunOK(o)'
    BY DEF RunInv, RunOK
  <1>2. \A n \in Offsets : Done(n) => Done(n)'
    BY <1>1, DoneStays
  <1>3. ASSUME NEW m \in Offsets, NEW n \in Offsets', n < m PROVE n \in Offsets
    BY <1>1, <1>3 DEF Offsets
  <1>4. CASE op'[o] = op[o]
    <2>1. PICK m \in Offsets : op[o].offset = m
      BY <1>1, <1>4, RunTyped
    <2>2. op'[o].offset = m
      BY <1>4, <2>1
    <2>3. op[o].step = "commit" => \A n \in Offsets : n < m => Done(n)
      BY <1>1, <1>4, <2>1 DEF RunInv, RunOK
    <2>4. op[o].action = "replay" /\ op[o].step \in {"check", "commit"} => Done(m)
      BY <1>1, <1>4, <2>1 DEF RunInv, RunOK
    <2>5. op[o].step = "commit" => \A n \in Offsets' : n < m => Done(n)'
      BY <1>2, <1>3, <2>3
    <2>6. op[o].action = "replay" /\ op[o].step \in {"check", "commit"} => Done(m)'
      BY <1>2, <2>4
    <2> QED
      BY <1>4, <2>2, <2>5, <2>6 DEF RunOK, Done, Kept, Offsets, Letter
  <1>5. CASE Fetched(o)
    BY <1>5 DEF Fetched, RunOK
  <1>6. CASE Sent(o)
    <2>1. /\ op[o] \in Run /\ op[o].letter \in Events /\ op[o].letter = Letter(op[o].offset)
          /\ topic' = Append(topic, op[o].letter) /\ op'[o] = [op[o] EXCEPT !.step = "check"]
      BY <1>1, <1>6, RunTyped DEF Sent
    <2>2. PICK m \in Offsets : op[o].offset = m
      BY <1>1, <1>6, RunTyped DEF Sent
    <2>3. op'[o].offset = m /\ op'[o].step = "check"
      BY <2>1, <2>2 DEF Run
    <2>4. op[o].letter \in Range(topic')
      BY <1>1, <2>1, AppendRange DEF TypeInv
    <2>5. Letter(m)' = op[o].letter
      BY <1>1, <2>1, <2>2, DeadLettersGrow
    <2>6. Done(m)'
      BY <2>4, <2>5 DEF Done, Kept
    <2> QED
      BY <2>3, <2>6 DEF RunOK, Done, Kept, Offsets, Letter
  <1>7. CASE Checked(o)
    <2>1. /\ op[o] # Nil /\ op[o] \in Run /\ op[o].step = "check" /\ committed = op[o].offset
          /\ op[o].offset \in Nat /\ op'[o] = [op[o] EXCEPT !.step = "commit"]
      BY <1>1, <1>7, RunTyped DEF Checked
    <2>2. PICK m \in Offsets : op[o].offset = m
      BY <1>1, <2>1, RunTyped
    <2>3. /\ op'[o].offset = m /\ op'[o].action = op[o].action
      BY <2>1, <2>2 DEF Run
    <2>4. \A n \in Offsets : n < m => Done(n)
      BY <1>1, <2>1, <2>2, LettersAssumption DEF CommittedInv
    <2>5. \A n \in Offsets' : n < m => Done(n)'
      BY <1>2, <1>3, <2>4
    <2>6. op[o].action = "replay" => Done(m)'
      BY <1>1, <1>2, <2>1, <2>2 DEF RunInv, RunOK
    <2> QED
      BY <2>3, <2>5, <2>6 DEF RunOK, Done, Kept, Offsets, Letter
  <1> QED
    BY <1>1, <1>4, <1>5, <1>6, <1>7, RunsMove DEF RunMoves

(* LettersAlways: the invariant holds throughout.                          *)
LEMMA LettersAlways == Spec => []LettersInv
  <1>1. LettersInv /\ [Next]_vars => LettersInv'
    BY TypeStep, AcceptedStep, CommittedStep, RunStep DEF LettersInv
  <1> QED
    BY <1>1, LettersInit, PTL DEF Spec

-----------------------------------------------------------------------------
(* What resolving promises *)

(* NothingIsForgotten: whatever the runs of any operators do to one        *)
(* another, an accepted event is on its way, done with, or shown by the    *)
(* lag: the last dead letter of an event is the one that tells.            *)
THEOREM NothingIsForgotten == Spec => []NothingForgotten
  <1>1. ASSUME LettersInv PROVE NothingForgotten
    <2> SUFFICES ASSUME NEW e \in 1 .. next - 1
                 PROVE  \/ e \in Range(topic)
                        \/ e <= applied[IdentOf[e]]
                        \/ \E n \in Unresolved : Letter(n) = e
                        \/ e \in given
      BY DEF NothingForgotten
    <2>1. TypeInv /\ AcceptedInv /\ CommittedInv
      BY <1>1 DEF LettersInv
    <2>2. CASE Kept(e)
      BY <2>2 DEF Kept
    <2>3. CASE e \in Range(dlq)
      <3> DEFINE L == {n \in Offsets : Letter(n) = e}
      <3>1. dlq \in Seq(Events) /\ Len(dlq) \in Nat
        BY <2>1 DEF TypeInv
      <3>2. PICK i \in 1 .. Len(dlq) : dlq[i] = e
        BY <2>3, <3>1 DEF Range
      <3>3. i - 1 \in Offsets /\ Letter(i - 1) = e
        BY <3>1, <3>2 DEF Offsets, Letter
      <3>4. L \in SUBSET (0 .. Len(dlq)) /\ L # {}
        BY <3>1, <3>3 DEF Offsets
      <3>5. PICK g \in L : \A n \in L : n <= g
        <4> HIDE DEF L
        <4> QED
          BY <3>1, <3>4, LastOffset
      <3>6. CASE committed = Nil \/ g >= committed
        BY <3>5, <3>6 DEF Unresolved, Offsets
      <3>7. CASE committed # Nil /\ ~(g >= committed)
        <4>1. committed \in Nat /\ g \in Nat
          BY <2>1, <3>5, <3>7 DEF TypeInv, Offsets
        <4>2. Done(g)
          BY <2>1, <3>5, <3>7, <4>1 DEF CommittedInv
        <4>3. ~ \E k \in Offsets : g < k /\ Letter(k) = Letter(g)
          BY <3>5, <4>1 DEF Offsets
        <4> QED
          BY <3>5, <4>2, <4>3 DEF Done, Kept
      <3> QED
        BY <3>6, <3>7
    <2>4. e \in Events /\ e < next
      BY <2>1, LettersAssumption, FS_CardinalityType DEF TypeInv
    <2> QED
      BY <2>1, <2>2, <2>3, <2>4 DEF AcceptedInv
  <1> QED
    BY <1>1, LettersAlways, PTL
=============================================================================
