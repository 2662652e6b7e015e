----------------------- MODULE CheckpointScopesProofs -----------------------
(***************************************************************************)
(* Theorems about CheckpointScopes, for any number of threads, any keys    *)
(* and events, and each of the three adapters.                             *)
(***************************************************************************)
EXTENDS CheckpointScopes, FiniteSetTheorems, TLAPS

\* The types of the variables that the proofs need.
TypeInv ==
    /\ backend \in {"memory", "typesense", "postgres"}
    /\ entry \in [Keys -> Objects \cup {NoObject}]
    /\ users \in [Objects -> Int]
    /\ pc \in [Threads -> {"idle", "acquiring", "applying", "releasing"}]
    /\ event \in [Threads -> Events \cup {NoEvent}]
    /\ refs \in [Threads -> [Keys -> Objects \cup {NoObject}]]
    /\ got \in [Threads -> SUBSET Keys]
    /\ plan \in [Threads -> SUBSET Keys]
    /\ staged \in [Threads -> SUBSET Keys]
    /\ rows \in [Keys -> Nat]

\* What a thread is about to write, and what it has saved, lies in fences
\* that it was granted in ascending order.
ScopeOK(t) ==
    /\ plan[t] \cup staged[t] \subseteq got[t]
    /\ got[t] \subseteq KeysOf(event[t])
    /\ pc[t] = "idle" <=> event[t] = NoEvent
    /\ pc[t] # "applying" => plan[t] = {} /\ staged[t] = {}
    /\ pc[t] = "acquiring" => \A j \in got[t], k \in Ungranted(t) : j < k
    /\ pc[t] = "releasing" => InProcess
    /\ backend = "typesense" => staged[t] = {}

ScopeInv == \A t \in Threads : ScopeOK(t)

\* The registry has one lock for each key that a scope refers to, no other,
\* and every scope that names the key refers to that one.
RegistryInv ==
    /\ \A t \in Threads, k \in Keys :
          /\ refs[t][k] # NoObject <=> (InProcess /\ k \in KeysOf(event[t]))
          /\ refs[t][k] # NoObject => entry[k] = refs[t][k]
    /\ \A k \in Keys : entry[k] # NoObject => \E t \in Threads : refs[t][k] # NoObject
    /\ \A j, k \in Keys : entry[j] # NoObject /\ entry[j] = entry[k] => j = k

\* The count of a lock is the number of scopes that refer to it.
UsersOf(o) == {t \in Threads : \E k \in Keys : refs[t][k] = o}

UsersInv == \A o \in Objects : users[o] = Cardinality(UsersOf(o))

\* What a scope will save, or has saved, advances the stored checkpoint.
FreshInv ==
    \A t \in Threads : \A k \in plan[t] \cup staged[t] : rows[k] < event[t].seq

FenceInv == TypeInv /\ ScopeInv /\ RegistryInv /\ UsersInv /\ Exclusive /\ FreshInv

-----------------------------------------------------------------------------
(* Keys and their order *)

(* LeastInside: a set of numbers has a least element.                      *)
LEMMA LeastInside ==
    ASSUME NEW S \in SUBSET Nat, S # {}
    PROVE  Least(S) \in S /\ \A m \in S : Least(S) <= m
  <1> DEFINE Below == {p \in Nat \X Nat : p[1] < p[2]}
  <1>1. IsWellFoundedOn(Below, Nat)
    BY NatLessThanWellFounded DEF OpToRel
  <1>2. PICK n \in S : \A m \in S : <<m, n>> \notin Below
    <2> HIDE DEF Below
    <2> QED
      BY <1>1, WFMin
  <1>3. ASSUME NEW m \in S PROVE n <= m
    <2>1. <<m, n>> \in Nat \X Nat /\ <<m, n>>[1] = m /\ <<m, n>>[2] = n
      OBVIOUS
    <2>2. ~ (m < n)
      BY <1>2, <2>1
    <2> QED
      BY <2>2
  <1>4. \E x \in S : \A m \in S : x <= m
    BY <1>3
  <1> QED
    BY <1>4 DEF Least

(* KeysTyped: the fences of an event are checkpoint ids.                   *)
LEMMA KeysTyped ==
    /\ Keys \subseteq Nat
    /\ \A e \in Events : KeysOf(e) \subseteq Keys /\ e.seq \in Nat
    /\ KeysOf(NoEvent) = {} /\ NoEvent.seq \in Nat
    /\ \A e \in Events : e # NoEvent
  <1>1. Keys \subseteq Nat
    BY ScopesAssumption, FS_CardinalityType
  <1>2. ASSUME NEW e \in Events PROVE KeysOf(e) \subseteq Keys /\ e.seq \in Nat /\ e # NoEvent
    BY ScopesAssumption DEF KeysOf, NoEvent
  <1> QED
    BY <1>1, <1>2 DEF KeysOf, NoEvent

(* NextKeyInside: a thread that waits asks for the least fence it misses.  *)
LEMMA NextKeyInside ==
    ASSUME TypeInv, NEW t \in Threads, Waiting(t)
    PROVE  /\ NextKey(t) \in Ungranted(t) /\ NextKey(t) \in Keys
           /\ \A k \in Ungranted(t) : NextKey(t) <= k
  <1>1. Ungranted(t) \subseteq Keys /\ Keys \subseteq Nat
    BY KeysTyped DEF TypeInv, Ungranted
  <1> QED
    BY <1>1, LeastInside DEF NextKey, Waiting

(* NextTargetInside: the target that is written next is one of the plan.   *)
LEMMA NextTargetInside ==
    ASSUME TypeInv, ScopeInv, NEW t \in Threads, plan[t] # {}
    PROVE  NextTarget(t) \in plan[t]
  <1> DEFINE e == event[t]
             S == {n \in DOMAIN e.keys : e.keys[n] \in plan[t]}
  <1>1. plan[t] \subseteq KeysOf(e)
    BY DEF ScopeInv, ScopeOK
  <1>2. e \in Events
    BY <1>1, KeysTyped DEF TypeInv
  <1>3. DOMAIN e.keys \subseteq Nat
    BY <1>2, ScopesAssumption
  <1>4. S # {}
    BY <1>1 DEF KeysOf
  <1>5. Least(S) \in S
    BY <1>3, <1>4, LeastInside
  <1> QED
    BY <1>5 DEF NextTarget, FirstListed

-----------------------------------------------------------------------------
(* The steps *)

(* FenceInit: no scope is open.                                            *)
LEMMA FenceInit == Init => FenceInv
  <1> SUFFICES ASSUME Init PROVE FenceInv
    OBVIOUS
  <1>1. TypeInv
    BY DEF Init, TypeInv
  <1>2. ScopeInv
    BY KeysTyped DEF Init, ScopeInv, ScopeOK
  <1>3. RegistryInv
    BY KeysTyped DEF Init, RegistryInv
  <1>4. UsersInv
    <2>1. ASSUME NEW o \in Objects PROVE UsersOf(o) = {}
      BY ScopesAssumption DEF Init, UsersOf
    <2> QED
      BY <2>1, FS_EmptySet DEF Init, UsersInv
  <1>5. Exclusive /\ FreshInv
    BY DEF Init, Exclusive, Holds, FreshInv
  <1> QED
    BY <1>1, <1>2, <1>3, <1>4, <1>5 DEF FenceInv

(* OpenTyped: a scope is opened for an event, with its locks.              *)
LEMMA OpenTyped ==
    ASSUME FenceInv, NEW t \in Threads, Open(t)
    PROVE  TypeInv' /\ ScopeInv'
  <1>1. PICK e \in Events : Opening(t, e) /\ IF InProcess THEN Register(t, e)
                                             ELSE UNCHANGED <<entry, users, refs>>
    BY DEF Open
  <1>2. /\ pc[t] = "idle" /\ pc' = [pc EXCEPT ![t] = "acquiring"]
        /\ event' = [event EXCEPT ![t] = e]
        /\ UNCHANGED <<backend, got, plan, staged, rows>>
    BY <1>1 DEF Opening
  <1>3. /\ entry' \in [Keys -> Objects \cup {NoObject}]
        /\ users' \in [Objects -> Int]
        /\ refs' \in [Threads -> [Keys -> Objects \cup {NoObject}]]
    <2>1. CASE Register(t, e)
      <3> DEFINE n(o) == Cardinality({k \in KeysOf(e) : entry'[k] = o})
      <3>1. /\ entry' \in [Keys -> Objects \cup {NoObject}]
            /\ refs' = [refs EXCEPT ![t] =
                           [k \in Keys |-> IF k \in KeysOf(e) THEN entry'[k] ELSE NoObject]]
            /\ users' = [o \in Objects |-> users[o] + n(o)]
        BY <2>1 DEF Register
      <3>2. ASSUME NEW o \in Objects PROVE n(o) \in Nat
        <4>1. IsFiniteSet(Keys) /\ {k \in KeysOf(e) : entry'[k] = o} \subseteq Keys
          BY KeysTyped, ScopesAssumption
        <4> QED
          BY <4>1, FS_Subset, FS_CardinalityType
      <3> HIDE DEF n
      <3>3. users' \in [Objects -> Int]
        BY <3>1, <3>2 DEF FenceInv, TypeInv
      <3>4. refs' \in [Threads -> [Keys -> Objects \cup {NoObject}]]
        BY <3>1 DEF FenceInv, TypeInv
      <3> QED
        BY <3>1, <3>3, <3>4
    <2> QED
      BY <1>1, <2>1 DEF FenceInv, TypeInv
  <1>4. TypeInv'
    BY <1>2, <1>3 DEF FenceInv, TypeInv
  <1>5. ASSUME NEW u \in Threads PROVE ScopeOK(u)'
    <2>1. ScopeOK(u)
      BY DEF FenceInv, ScopeInv
    <2>2. CASE u = t
      <3>1. pc'[t] = "acquiring" /\ event'[t] = e /\ e # NoEvent
        BY <1>2, KeysTyped DEF FenceInv, TypeInv
      <3>2. /\ event[t] = NoEvent /\ got[t] = {} /\ plan[t] = {} /\ staged[t] = {}
        BY <1>2, <2>1, <2>2, KeysTyped DEF ScopeOK
      <3> QED
        BY <1>2, <2>2, <3>1, <3>2 DEF ScopeOK
    <2>3. CASE u # t
      <3>1. pc'[u] = pc[u] /\ event'[u] = event[u]
        BY <1>2, <2>3 DEF FenceInv, TypeInv
      <3> QED
        BY <1>2, <2>1, <3>1 DEF ScopeOK, Ungranted, InProcess
    <2> QED
      BY <2>2, <2>3
  <1> QED
    BY <1>4, <1>5 DEF ScopeInv

(* OpenRegistry: the lock of a key is found or made, and counted once.     *)
LEMMA OpenRegistry ==
    ASSUME FenceInv, NEW t \in Threads, Open(t)
    PROVE  RegistryInv' /\ UsersInv'
  <1>1. PICK e \in Events : Opening(t, e) /\ IF InProcess THEN Register(t, e)
                                             ELSE UNCHANGED <<entry, users, refs>>
    BY DEF Open
  <1>2. /\ pc[t] = "idle" /\ event' = [event EXCEPT ![t] = e] /\ backend' = backend
    BY <1>1 DEF Opening
  <1>3. /\ event'[t] = e
        /\ \A u \in Threads \ {t} : event'[u] = event[u]
        /\ event[t] = NoEvent
        /\ InProcess' <=> InProcess
    BY <1>2 DEF FenceInv, TypeInv, ScopeInv, ScopeOK, InProcess
  <1>4. \A k \in Keys : refs[t][k] = NoObject
    BY <1>3, KeysTyped DEF FenceInv, RegistryInv
  <1>5. CASE ~InProcess
    <2>1. UNCHANGED <<entry, users, refs>>
      BY <1>1, <1>5
    <2>2. RegistryInv'
      BY <1>3, <1>5, <2>1 DEF FenceInv, RegistryInv
    <2>3. UsersInv'
      BY <2>1 DEF FenceInv, UsersInv, UsersOf
    <2> QED
      BY <2>2, <2>3
  <1>6. CASE InProcess
    <2> DEFINE missing == {k \in KeysOf(e) : entry[k] = NoObject}
    <2>1. /\ entry' \in [Keys -> Objects \cup {NoObject}]
          /\ refs' = [refs EXCEPT ![t] =
                         [k \in Keys |-> IF k \in KeysOf(e) THEN entry'[k] ELSE NoObject]]
          /\ users' = [o \in Objects |->
                          users[o] + Cardinality({k \in KeysOf(e) : entry'[k] = o})]
      BY <1>1, <1>6 DEF Register
    <2>3. /\ \A k \in Keys \ missing : entry'[k] = entry[k]
          /\ \A k \in missing : entry'[k] \in Unreferenced
          /\ \A j, k \in missing : entry'[j] = entry'[k] => j = k
      BY <1>1, <1>6 DEF Register
    <2>4. /\ KeysOf(e) \subseteq Keys
          /\ \A o \in Unreferenced : /\ o \in Objects /\ o # NoObject
                                     /\ \A k \in Keys : entry[k] # o
                                     /\ \A u \in Threads, k \in Keys : refs[u][k] # o
      BY KeysTyped, ScopesAssumption DEF Unreferenced
    <2>5. /\ \A k \in Keys : refs'[t][k] = IF k \in KeysOf(e) THEN entry'[k] ELSE NoObject
          /\ \A u \in Threads \ {t} : refs'[u] = refs[u]
      BY <2>1 DEF FenceInv, TypeInv
    <2>6. \A k \in KeysOf(e) : entry'[k] # NoObject
      BY <2>3, <2>4
    <2>7. \A k \in Keys : entry[k] # NoObject => entry'[k] = entry[k]
      BY <2>3
    <2>8. \A j, k \in Keys : entry'[j] # NoObject /\ entry'[j] = entry'[k] => j = k
      <3>1. ASSUME NEW j \in Keys, NEW k \in Keys, entry'[j] # NoObject, entry'[j] = entry'[k]
            PROVE  j = k
        <4>1. CASE j \in missing /\ k \in missing
          BY <2>3, <3>1, <4>1
        <4>2. CASE j \in missing /\ k \notin missing
          BY <2>3, <2>4, <3>1, <4>2
        <4>3. CASE j \notin missing /\ k \in missing
          BY <2>3, <2>4, <3>1, <4>3
        <4>4. CASE j \notin missing /\ k \notin missing
          BY <2>3, <3>1, <4>4 DEF FenceInv, RegistryInv
        <4> QED
          BY <4>1, <4>2, <4>3, <4>4
      <3> QED
        BY <3>1
    <2>9. RegistryInv'
      <3>1. ASSUME NEW u \in Threads, NEW k \in Keys
            PROVE  /\ refs'[u][k] # NoObject <=> (InProcess' /\ k \in KeysOf(event'[u]))
                   /\ refs'[u][k] # NoObject => entry'[k] = refs'[u][k]
        <4>1. CASE u = t
          BY <1>3, <1>6, <2>5, <2>6, <4>1
        <4>2. CASE u # t
          <5>1. refs'[u][k] = refs[u][k] /\ event'[u] = event[u]
            BY <1>3, <2>5, <4>2
          <5> QED
            BY <1>3, <2>7, <5>1 DEF FenceInv, RegistryInv
        <4> QED
          BY <4>1, <4>2
      <3>2. ASSUME NEW k \in Keys, entry'[k] # NoObject
            PROVE  \E u \in Threads : refs'[u][k] # NoObject
        <4>1. CASE k \in KeysOf(e)
          BY <2>5, <2>6, <4>1
        <4>2. CASE k \notin KeysOf(e)
          <5>1. entry[k] # NoObject
            BY <2>3, <3>2, <4>2
          <5>2. PICK u \in Threads : refs[u][k] # NoObject
            BY <5>1 DEF FenceInv, RegistryInv
          <5> QED
            BY <1>4, <2>5, <5>2
        <4> QED
          BY <4>1, <4>2
      <3> QED
        BY <2>8, <3>1, <3>2 DEF RegistryInv, KeysOf, InProcess
    <2>10. ASSUME NEW o \in Objects
           PROVE  users'[o] = Cardinality(UsersOf(o)')
      <3> DEFINE K == {k \in KeysOf(e) : entry'[k] = o}
      <3>1. users'[o] = users[o] + Cardinality(K) /\ users[o] = Cardinality(UsersOf(o))
        BY <2>1 DEF FenceInv, UsersInv
      <3>2. IsFiniteSet(UsersOf(o)) /\ Cardinality(UsersOf(o)) \in Nat
        <4>1. UsersOf(o) \subseteq Threads /\ IsFiniteSet(Threads)
          BY ScopesAssumption DEF UsersOf
        <4> QED
          BY <4>1, FS_Subset, FS_CardinalityType
      <3>3. t \notin UsersOf(o)
        BY <1>4, ScopesAssumption DEF UsersOf
      <3>4. o # NoObject
        BY ScopesAssumption
      <3>5. CASE K = {}
        <4>1. UsersOf(o)' = UsersOf(o)
          BY <2>5, <3>3, <3>4, <3>5 DEF UsersOf
        <4>2. Cardinality(K) = 0
          BY <3>5, FS_EmptySet
        <4> QED
          BY <3>1, <3>2, <4>1, <4>2
      <3>6. CASE K # {}
        <4>1. PICK k \in Keys : k \in K
          BY <2>4, <3>6
        <4>2. K = {k}
          BY <2>4, <2>6, <2>8, <4>1
        <4>3. Cardinality(K) = 1
          BY <4>2, FS_Singleton
        <4>4. UsersOf(o)' = UsersOf(o) \cup {t}
          BY <2>5, <4>1 DEF UsersOf
        <4>5. Cardinality(UsersOf(o) \cup {t}) = Cardinality(UsersOf(o)) + 1
          BY <3>2, <3>3, FS_AddElement
        <4> QED
          BY <3>1, <4>3, <4>4, <4>5
      <3> QED
        BY <3>5, <3>6
    <2> QED
      BY <2>9, <2>10 DEF UsersInv
  <1> QED
    BY <1>5, <1>6

(* RegistryKept: what leaves the registry alone keeps it in order.         *)
LEMMA RegistryKept ==
    ASSUME FenceInv, UNCHANGED <<backend, entry, users, refs>>,
           InProcess => UNCHANGED event
    PROVE  RegistryInv' /\ UsersInv'
  <1>1. RegistryInv'
    BY DEF FenceInv, RegistryInv, InProcess
  <1>2. UsersInv'
    BY DEF FenceInv, UsersInv, UsersOf
  <1> QED
    BY <1>1, <1>2

(* SameLock: two scopes that name a key refer to the same lock.            *)
LEMMA SameLock ==
    ASSUME FenceInv, NEW t \in Threads, NEW u \in Threads, u # t,
           NEW k \in KeysOf(event[t]), Holds(u, k)
    PROVE  Taken(t, k)
  <1>1. k \in got[u] /\ k \in Keys /\ k \in KeysOf(event[u])
    BY DEF FenceInv, TypeInv, ScopeInv, ScopeOK, Holds
  <1>2. InProcess => refs[u][k] = refs[t][k]
    BY <1>1 DEF FenceInv, RegistryInv
  <1> QED
    BY <1>1, <1>2 DEF Taken

(* TakenByKey: a lock that is held is that of the same key.                *)
LEMMA TakenByKey ==
    ASSUME FenceInv, NEW t \in Threads, NEW k \in KeysOf(event[t]), Taken(t, k)
    PROVE  \E u \in Threads \ {t} : Holds(u, k)
  <1>0. PICK u \in Threads \ {t} : \E j \in got[u] :
           IF InProcess THEN refs[u][j] = refs[t][k] ELSE j = k
    BY DEF Taken
  <1>1. PICK j \in got[u] : IF InProcess THEN refs[u][j] = refs[t][k] ELSE j = k
    BY <1>0
  <1>2. k \in Keys /\ j \in Keys /\ j \in KeysOf(event[u])
    BY <1>1, KeysTyped DEF FenceInv, TypeInv, ScopeInv, ScopeOK
  <1>3. CASE InProcess
    <2>1. /\ refs[t][k] # NoObject /\ entry[k] = refs[t][k]
          /\ refs[u][j] # NoObject /\ entry[j] = refs[u][j]
      BY <1>1, <1>2, <1>3 DEF FenceInv, RegistryInv
    <2>2. j = k
      BY <1>1, <1>2, <1>3, <2>1 DEF FenceInv, RegistryInv
    <2> QED
      BY <1>1, <2>2 DEF Holds
  <1> QED
    BY <1>1, <1>3 DEF Holds

(* Disjoint: fences are not shared.                                        *)
LEMMA Disjoint ==
    ASSUME FenceInv, NEW t \in Threads, NEW u \in Threads, u # t
    PROVE  /\ got[t] \cap got[u] = {}
           /\ plan[t] \cup staged[t] \subseteq got[t]
           /\ plan[u] \cup staged[u] \subseteq got[u]
  <1>1. got[t] \subseteq Keys
    BY DEF FenceInv, TypeInv
  <1> QED
    BY <1>1 DEF FenceInv, Exclusive, Holds, ScopeInv, ScopeOK

(* ScopeEnds: a scope ends in any of three ways; rows are stored only for  *)
(* its own fences.                                                         *)
LEMMA ScopeEnds ==
    ASSUME FenceInv, NEW t \in Threads, pc[t] \in {"acquiring", "applying"}, Ended(t),
           UNCHANGED <<backend, entry, users, refs>>,
           plan' = [plan EXCEPT ![t] = {}], staged' = [staged EXCEPT ![t] = {}],
           rows' \in [Keys -> Nat],
           \A k \in Keys : rows'[k] # rows[k] => k \in got[t]
    PROVE  FenceInv'
  <1>1. /\ TypeInv /\ ScopeInv /\ Exclusive /\ FreshInv
        /\ plan \in [Threads -> SUBSET Keys] /\ staged \in [Threads -> SUBSET Keys]
        /\ got \in [Threads -> SUBSET Keys]
    BY DEF FenceInv, TypeInv
  <1>2. IF InProcess
        THEN pc' = [pc EXCEPT ![t] = "releasing"] /\ event' = event /\ got' = got
        ELSE /\ pc' = [pc EXCEPT ![t] = "idle"] /\ got' = [got EXCEPT ![t] = {}]
             /\ event' = [event EXCEPT ![t] = NoEvent]
    BY DEF Ended
  <1>3. TypeInv'
    BY <1>1, <1>2 DEF TypeInv
  <1>4. ASSUME NEW u \in Threads, u # t
        PROVE  /\ pc'[u] = pc[u] /\ event'[u] = event[u] /\ got'[u] = got[u]
               /\ plan'[u] = plan[u] /\ staged'[u] = staged[u]
    BY <1>1, <1>2, <1>4 DEF TypeInv
  <1>5. /\ plan'[t] = {} /\ staged'[t] = {} /\ got'[t] \subseteq got[t]
        /\ IF InProcess THEN pc'[t] = "releasing" /\ event'[t] = event[t]
                        ELSE pc'[t] = "idle" /\ event'[t] = NoEvent /\ got'[t] = {}
    BY <1>1, <1>2 DEF TypeInv
  <1>6. ASSUME NEW u \in Threads PROVE ScopeOK(u)'
    <2>1. ScopeOK(u)
      BY <1>1 DEF ScopeInv
    <2>2. CASE u = t
      BY <1>5, <2>1, <2>2 DEF ScopeOK, InProcess, KeysOf
    <2>3. CASE u # t
      BY <1>4, <2>1, <2>3 DEF ScopeOK, Ungranted, InProcess, KeysOf
    <2> QED
      BY <2>2, <2>3
  <1>7. Exclusive'
    <2>1. \A u \in Threads : got'[u] \subseteq got[u]
      BY <1>4, <1>5
    <2> QED
      BY <1>1, <2>1 DEF Exclusive, Holds
  <1>8. FreshInv'
    <2>1. ASSUME NEW u \in Threads, NEW k \in plan'[u] \cup staged'[u]
          PROVE  rows'[k] < event'[u].seq
      <3>1. u # t
        BY <1>5, <2>1
      <3>2. k \in plan[u] \cup staged[u] /\ k \in Keys /\ event'[u] = event[u]
        BY <1>1, <1>4, <2>1, <3>1
      <3>3. rows'[k] = rows[k]
        BY <3>1, <3>2, Disjoint
      <3> QED
        BY <1>1, <3>2, <3>3 DEF FreshInv
    <2> QED
      BY <2>1 DEF FreshInv
  <1>9. RegistryInv' /\ UsersInv'
    BY <1>2, RegistryKept
  <1> QED
    BY <1>3, <1>6, <1>7, <1>8, <1>9 DEF FenceInv, ScopeInv

(* AcquireKeeps: a fence that is free belongs to nobody else.              *)
LEMMA AcquireKeeps ==
    ASSUME FenceInv, NEW t \in Threads, Acquire(t)
    PROVE  FenceInv'
  <1>1. PICK k : k = NextKey(t)
    OBVIOUS
  <1>2. /\ pc[t] = "acquiring" /\ ~Taken(t, k) /\ got' = [got EXCEPT ![t] = @ \cup {k}]
        /\ UNCHANGED <<backend, entry, users, pc, event, refs, plan, staged, rows>>
    BY <1>1 DEF Acquire, Waiting
  <1>3. /\ k \in KeysOf(event[t]) /\ k \notin got[t] /\ k \in Keys
        /\ \A j \in Ungranted(t) : k <= j
    BY <1>1, NextKeyInside DEF Acquire, FenceInv, Ungranted
  <1>4. TypeInv /\ ScopeInv /\ Exclusive /\ FreshInv /\ got \in [Threads -> SUBSET Keys]
    BY DEF FenceInv, TypeInv
  <1>5. TypeInv'
    BY <1>2, <1>3, <1>4 DEF TypeInv
  <1>6. got'[t] = got[t] \cup {k} /\ \A u \in Threads \ {t} : got'[u] = got[u]
    BY <1>2, <1>4
  <1>7. ASSUME NEW u \in Threads PROVE ScopeOK(u)'
    <2>1. ScopeOK(u)
      BY <1>4 DEF ScopeInv
    <2>2. CASE u = t
      <3>1. \A j \in got'[t], i \in KeysOf(event[t]) \ got'[t] : j < i
        <4>1. ASSUME NEW j \in got'[t], NEW i \in KeysOf(event[t]) \ got'[t]
              PROVE  j < i
          <5>1. i \in Ungranted(t) /\ i # k
            BY <1>6, <4>1 DEF Ungranted
          <5>2. i \in Nat /\ k \in Nat
            BY <1>3, <4>1, <1>4, KeysTyped DEF TypeInv
          <5>3. k < i
            BY <1>3, <5>1, <5>2
          <5> QED
            BY <1>2, <1>6, <2>1, <2>2, <4>1, <5>1, <5>3 DEF ScopeOK
        <4> QED
          BY <4>1
      <3> QED
        BY <1>2, <1>3, <1>6, <2>1, <2>2, <3>1 DEF ScopeOK, Ungranted, InProcess, KeysOf
    <2>3. CASE u # t
      BY <1>2, <1>6, <2>1, <2>3 DEF ScopeOK, Ungranted, InProcess, KeysOf
    <2> QED
      BY <2>2, <2>3
  <1>8. Exclusive'
    <2>1. \A u \in Threads \ {t} : k \notin got[u]
      BY <1>2, <1>3, SameLock DEF Holds
    <2> QED
      BY <1>4, <1>6, <2>1 DEF Exclusive, Holds
  <1>9. FreshInv'
    BY <1>2, <1>4 DEF FreshInv
  <1>10. RegistryInv' /\ UsersInv'
    BY <1>2, RegistryKept
  <1> QED
    BY <1>5, <1>7, <1>8, <1>9, <1>10 DEF FenceInv, ScopeInv

(* LoadKeeps: targets are planned only if the event is newer.              *)
LEMMA LoadKeeps ==
    ASSUME FenceInv, NEW t \in Threads, Load(t)
    PROVE  FenceInv'
  <1>1. /\ pc[t] = "acquiring" /\ Ungranted(t) = {}
        /\ pc' = [pc EXCEPT ![t] = "applying"]
        /\ plan' = [plan EXCEPT ![t] = Planned(event[t])]
        /\ UNCHANGED <<backend, entry, users, event, refs, got, staged, rows>>
    BY DEF Load, Waiting
  <1>2. TypeInv /\ ScopeInv /\ Exclusive /\ FreshInv /\ plan \in [Threads -> SUBSET Keys]
    BY DEF FenceInv, TypeInv
  <1>3. event[t] \in Events /\ KeysOf(event[t]) \subseteq Keys /\ KeysOf(event[t]) \subseteq got[t]
    BY <1>1, <1>2, KeysTyped DEF TypeInv, ScopeInv, ScopeOK, Ungranted
  <1>4. /\ Planned(event[t]) \subseteq KeysOf(event[t])
        /\ \A k \in Planned(event[t]) : rows[k] < event[t].seq
    BY DEF Planned
  <1>5. plan'[t] = Planned(event[t]) /\ \A u \in Threads \ {t} : plan'[u] = plan[u]
    BY <1>1, <1>2
  <1>6. TypeInv'
    BY <1>1, <1>2, <1>3, <1>4 DEF TypeInv
  <1>7. ASSUME NEW u \in Threads PROVE ScopeOK(u)'
    <2>1. ScopeOK(u)
      BY <1>2 DEF ScopeInv
    <2>2. CASE u = t
      <3>1. pc'[t] = "applying" /\ staged[t] = {}
        BY <1>1, <1>2, <2>1, <2>2 DEF ScopeOK, TypeInv
      <3> QED
        BY <1>1, <1>3, <1>4, <1>5, <2>1, <2>2, <3>1 DEF ScopeOK, KeysOf
    <2>3. CASE u # t
      <3>1. pc'[u] = pc[u]
        BY <1>1, <1>2, <2>3 DEF TypeInv
      <3> QED
        BY <1>1, <1>5, <2>1, <2>3, <3>1 DEF ScopeOK, Ungranted, InProcess, KeysOf
    <2> QED
      BY <2>2, <2>3
  <1>8. Exclusive'
    BY <1>1, <1>2 DEF Exclusive, Holds
  <1>9. FreshInv'
    <2>1. staged[t] = {}
      BY <1>1, <1>2 DEF ScopeInv, ScopeOK
    <2> QED
      BY <1>1, <1>2, <1>4, <1>5, <2>1 DEF FreshInv
  <1>10. RegistryInv' /\ UsersInv'
    BY <1>1, RegistryKept
  <1> QED
    BY <1>6, <1>7, <1>8, <1>9, <1>10 DEF FenceInv, ScopeInv

(* ApplyKeeps: the target that is written leaves the plan; its checkpoint  *)
(* belongs to this scope alone.                                            *)
LEMMA ApplyKeeps ==
    ASSUME FenceInv, NEW t \in Threads, Apply(t)
    PROVE  FenceInv'
  <1> DEFINE k == NextTarget(t)
  <1>1. /\ pc[t] = "applying" /\ plan[t] # {}
        /\ plan' = [plan EXCEPT ![t] = @ \ {k}]
        /\ UNCHANGED <<backend, entry, users, pc, event, refs, got>>
    BY DEF Apply
  <1>2. /\ TypeInv /\ ScopeInv /\ Exclusive /\ FreshInv
        /\ plan \in [Threads -> SUBSET Keys] /\ staged \in [Threads -> SUBSET Keys]
        /\ rows \in [Keys -> Nat]
    BY DEF FenceInv, TypeInv
  <1>3. k \in plan[t] /\ k \in got[t] /\ k \in Keys
    BY <1>1, <1>2, NextTargetInside DEF ScopeInv, ScopeOK
  <1>4. event[t] \in Events /\ event[t].seq \in Nat
    BY <1>2, <1>3, KeysTyped DEF TypeInv, ScopeInv, ScopeOK
  <1>5. plan'[t] = plan[t] \ {k} /\ \A u \in Threads \ {t} : plan'[u] = plan[u]
    BY <1>1, <1>2
  <1>6. \/ /\ backend # "typesense" /\ rows' = rows
           /\ staged' = [staged EXCEPT ![t] = @ \cup {k}]
        \/ /\ backend = "typesense" /\ staged' = staged
           /\ rows' = [rows EXCEPT ![k] = event[t].seq]
    BY DEF Apply, StageInMemory, SaveInTransaction, UpsertCheckpoint
  <1> HIDE DEF k
  <1>7. TypeInv'
    <2>1. CASE backend = "typesense"
      <3>1. rows' \in [Keys -> Nat] /\ staged' = staged
        BY <1>2, <1>4, <1>6, <2>1
      <3> QED
        BY <1>1, <1>2, <3>1 DEF TypeInv
    <2>2. CASE backend # "typesense"
      <3>1. staged' \in [Threads -> SUBSET Keys] /\ rows' = rows
        BY <1>2, <1>3, <1>6, <2>2
      <3> QED
        BY <1>1, <1>2, <3>1 DEF TypeInv
    <2> QED
      BY <2>1, <2>2
  <1>8. /\ staged'[t] \subseteq staged[t] \cup {k}
        /\ \A u \in Threads \ {t} : staged'[u] = staged[u]
        /\ backend = "typesense" => staged' = staged
    BY <1>2, <1>6
  <1>9. ASSUME NEW u \in Threads PROVE ScopeOK(u)'
    <2>1. ScopeOK(u)
      BY <1>2 DEF ScopeInv
    <2>2. CASE u = t
      BY <1>1, <1>3, <1>5, <1>8, <2>1, <2>2 DEF ScopeOK, InProcess, KeysOf
    <2>3. CASE u # t
      BY <1>1, <1>5, <1>8, <2>1, <2>3 DEF ScopeOK, Ungranted, InProcess, KeysOf
    <2> QED
      BY <2>2, <2>3
  <1>10. Exclusive'
    BY <1>1, <1>2 DEF Exclusive, Holds
  <1>11. FreshInv'
    <2>1. ASSUME NEW u \in Threads, NEW j \in plan'[u] \cup staged'[u]
          PROVE  rows'[j] < event'[u].seq
      <3>1. j \in plan[u] \cup staged[u]
        BY <1>3, <1>5, <1>8, <2>1
      <3>2. j \in Keys /\ rows[j] < event[u].seq /\ event'[u] = event[u]
        BY <1>1, <1>2, <3>1 DEF FreshInv
      <3>3. CASE backend # "typesense"
        BY <1>6, <3>2, <3>3
      <3>4. CASE backend = "typesense"
        <4>1. j # k
          <5>1. CASE u = t
            <6>1. staged'[t] = {}
              BY <1>2, <1>8, <3>4 DEF ScopeInv, ScopeOK
            <6> QED
              BY <1>5, <2>1, <5>1, <6>1
          <5>2. CASE u # t
            BY <1>3, <3>1, <5>2, Disjoint
          <5> QED
            BY <5>1, <5>2
        <4>2. rows'[j] = rows[j]
          BY <1>2, <1>6, <3>2, <3>4, <4>1
        <4> QED
          BY <3>2, <4>2
      <3> QED
        BY <3>3, <3>4
    <2> QED
      BY <2>1 DEF FreshInv
  <1>12. RegistryInv' /\ UsersInv'
    BY <1>1, RegistryKept
  <1> QED
    BY <1>7, <1>9, <1>10, <1>11, <1>12 DEF FenceInv, ScopeInv

(* LeaveKeeps: what a scope stores are positions of its own fences.        *)
LEMMA LeaveKeeps ==
    ASSUME FenceInv, NEW t \in Threads, NEW failed \in BOOLEAN, Leave(t, failed)
    PROVE  FenceInv'
  <1>1. /\ pc[t] = "applying" /\ rows' = Stored(t) /\ Ended(t)
        /\ staged' = [staged EXCEPT ![t] = {}] /\ plan' = [plan EXCEPT ![t] = {}]
        /\ UNCHANGED <<backend, entry, users, refs>>
    BY DEF Leave, Kept
  <1>2. event[t].seq \in Nat /\ rows \in [Keys -> Nat] /\ staged[t] \subseteq got[t]
    BY KeysTyped DEF FenceInv, TypeInv, ScopeInv, ScopeOK
  <1>3. rows' \in [Keys -> Nat] /\ \A k \in Keys : rows'[k] # rows[k] => k \in got[t]
    BY <1>1, <1>2 DEF Stored
  <1> QED
    BY <1>1, <1>3, ScopeEnds

(* AbandonKeeps: a scope that gives up stores nothing.                     *)
LEMMA AbandonKeeps ==
    ASSUME FenceInv, NEW t \in Threads, LockTimeout(t) \/ ConnectionLost(t)
    PROVE  FenceInv'
  <1>1. /\ pc[t] \in {"acquiring", "applying"} /\ Ended(t)
        /\ UNCHANGED <<backend, entry, users, refs, rows>>
    BY DEF LockTimeout, ConnectionLost, Waiting
  <1>2. staged' = [staged EXCEPT ![t] = {}] /\ plan' = [plan EXCEPT ![t] = {}]
    <2>1. CASE LockTimeout(t)
      <3>1. staged[t] = {} /\ plan[t] = {} /\ staged' = staged /\ plan' = plan
        BY <2>1 DEF LockTimeout, Waiting, FenceInv, ScopeInv, ScopeOK
      <3> QED
        BY <3>1 DEF FenceInv, TypeInv
    <2>2. CASE ConnectionLost(t)
      BY <2>2 DEF ConnectionLost
    <2> QED
      BY <2>1, <2>2
  <1>3. rows' \in [Keys -> Nat] /\ \A k \in Keys : rows'[k] # rows[k] => k \in got[t]
    BY <1>1 DEF FenceInv, TypeInv
  <1> QED
    BY <1>1, <1>2, <1>3, ScopeEnds

(* ReleaseKeeps: a fence is given back.                                    *)
LEMMA ReleaseKeeps ==
    ASSUME FenceInv, NEW t \in Threads, Release(t)
    PROVE  FenceInv'
  <1>1. /\ pc[t] = "releasing"
        /\ got' = [got EXCEPT ![t] = @ \ {Greatest(@)}]
        /\ UNCHANGED <<backend, entry, users, pc, event, refs, plan, staged, rows>>
    BY DEF Release
  <1>2. TypeInv /\ ScopeInv /\ Exclusive /\ FreshInv /\ got \in [Threads -> SUBSET Keys]
    BY DEF FenceInv, TypeInv
  <1>3. got'[t] \subseteq got[t] /\ \A u \in Threads \ {t} : got'[u] = got[u]
    BY <1>1, <1>2
  <1>4. TypeInv'
    BY <1>1, <1>2 DEF TypeInv
  <1>5. ASSUME NEW u \in Threads PROVE ScopeOK(u)'
    <2>1. ScopeOK(u)
      BY <1>2 DEF ScopeInv
    <2>2. CASE u = t
      BY <1>1, <1>3, <2>1, <2>2 DEF ScopeOK, InProcess, KeysOf
    <2>3. CASE u # t
      BY <1>1, <1>3, <2>1, <2>3 DEF ScopeOK, Ungranted, InProcess, KeysOf
    <2> QED
      BY <2>2, <2>3
  <1>6. Exclusive'
    BY <1>2, <1>3 DEF Exclusive, Holds
  <1>7. FreshInv'
    BY <1>1, <1>2 DEF FreshInv
  <1>8. RegistryInv' /\ UsersInv'
    BY <1>1, RegistryKept
  <1> QED
    BY <1>4, <1>5, <1>6, <1>7, <1>8 DEF FenceInv, ScopeInv

(* UnregisterKeeps: a lock is forgotten with the last scope that refers to *)
(* it, and counted down for the others.                                    *)
LEMMA UnregisterKeeps ==
    ASSUME FenceInv, NEW t \in Threads, Unregister(t)
    PROVE  FenceInv'
  <1> DEFINE K == KeysOf(event[t])
             N(o) == {k \in K : refs[t][k] = o}
             F == Forgotten(t)
  <1>1. /\ pc[t] = "releasing" /\ got[t] = {}
        /\ entry' = [k \in Keys |-> IF k \in F THEN NoObject ELSE entry[k]]
        /\ users' = [o \in Objects |-> users[o] - Cardinality(N(o))]
        /\ refs' = [refs EXCEPT ![t] = [k \in Keys |-> NoObject]]
        /\ event' = [event EXCEPT ![t] = NoEvent]
        /\ pc' = [pc EXCEPT ![t] = "idle"]
        /\ UNCHANGED <<backend, got, plan, staged, rows>>
    BY DEF Unregister
  <1>2. TypeInv /\ ScopeInv /\ RegistryInv /\ UsersInv /\ Exclusive /\ FreshInv
    BY DEF FenceInv
  <1>3. InProcess /\ K \subseteq Keys
    BY <1>1, <1>2, KeysTyped DEF TypeInv, ScopeInv, ScopeOK
  <1>4. /\ \A k \in K : refs[t][k] = entry[k] /\ entry[k] # NoObject /\ entry[k] \in Objects
        /\ \A k \in Keys \ K : refs[t][k] = NoObject
    BY <1>2, <1>3 DEF RegistryInv, TypeInv
  <1>5. \A k \in K : F \subseteq K /\ (k \in F <=> users[entry[k]] = 1)
    BY <1>4 DEF Forgotten
  <1>6. /\ pc'[t] = "idle" /\ event'[t] = NoEvent /\ \A k \in Keys : refs'[t][k] = NoObject
        /\ \A u \in Threads \ {t} : /\ pc'[u] = pc[u] /\ event'[u] = event[u]
                                    /\ refs'[u] = refs[u]
    BY <1>1, <1>2 DEF TypeInv
  <1>7. ASSUME NEW o \in Objects
        PROVE  /\ users[o] = Cardinality(UsersOf(o)) /\ IsFiniteSet(UsersOf(o))
               /\ Cardinality(UsersOf(o)) \in Nat
    <2>1. UsersOf(o) \subseteq Threads /\ IsFiniteSet(Threads)
      BY ScopesAssumption DEF UsersOf
    <2> QED
      BY <1>2, <2>1, FS_Subset, FS_CardinalityType DEF UsersInv
  <1>8. ASSUME NEW k \in K, NEW u \in Threads
        PROVE  u \in UsersOf(entry[k]) <=> refs[u][k] = entry[k]
    <2>1. ASSUME NEW j \in Keys, refs[u][j] = entry[k] PROVE j = k
      <3>1. entry[k] # NoObject /\ k \in Keys
        BY <1>3, <1>4
      <3>2. entry[j] = refs[u][j]
        BY <1>2, <2>1, <3>1 DEF RegistryInv
      <3> QED
        BY <1>2, <2>1, <3>1, <3>2 DEF RegistryInv
    <2> QED
      BY <1>3, <2>1 DEF UsersOf
  <1>9. ASSUME NEW k \in K, UsersOf(entry[k]) = {t} PROVE k \in F
    <2>1. Cardinality(UsersOf(entry[k])) = 1
      BY <1>9, FS_Singleton
    <2> QED
      BY <1>4, <1>5, <1>7, <2>1
  <1>10. ASSUME NEW k \in F, NEW u \in Threads \ {t} PROVE refs[u][k] = NoObject
    <2>1. k \in K /\ users[entry[k]] = 1
      BY <1>5, <1>10 DEF Forgotten
    <2>2. PICK x : UsersOf(entry[k]) = {x}
      BY <1>4, <1>7, <2>1, FS_Singleton
    <2>3. t \in UsersOf(entry[k]) /\ u \notin UsersOf(entry[k])
      BY <1>4, <1>8, <2>1, <2>2
    <2> QED
      BY <1>2, <1>3, <1>8, <2>1, <2>3 DEF RegistryInv
  <1> HIDE DEF K, F
  <1>11. RegistryInv'
    <2>1. ASSUME NEW u \in Threads, NEW k \in Keys
          PROVE  /\ refs'[u][k] # NoObject <=> (InProcess' /\ k \in KeysOf(event'[u]))
                 /\ refs'[u][k] # NoObject => entry'[k] = refs'[u][k]
      <3>1. CASE u = t
        BY <1>6, <3>1, KeysTyped
      <3>2. CASE u # t
        <4>1. refs'[u][k] = refs[u][k] /\ event'[u] = event[u] /\ (InProcess' <=> InProcess)
          BY <1>1, <1>6, <3>2 DEF InProcess
        <4>2. refs[u][k] # NoObject => entry'[k] = entry[k]
          BY <1>1, <1>10, <3>2
        <4> QED
          BY <1>2, <4>1, <4>2 DEF RegistryInv
      <3> QED
        BY <3>1, <3>2
    <2>2. ASSUME NEW k \in Keys, entry'[k] # NoObject
          PROVE  \E u \in Threads : refs'[u][k] # NoObject
      <3>1. k \notin F /\ entry'[k] = entry[k]
        BY <1>1, <2>2
      <3>2. CASE k \notin K
        <4>1. PICK u \in Threads : refs[u][k] # NoObject
          BY <1>2, <2>2, <3>1 DEF RegistryInv
        <4>2. u # t
          BY <1>4, <3>2, <4>1
        <4> QED
          BY <1>6, <4>1, <4>2
      <3>3. CASE k \in K
        <4>1. UsersOf(entry[k]) # {t} /\ t \in UsersOf(entry[k])
          BY <1>4, <1>8, <1>9, <3>1, <3>3
        <4>2. PICK u \in Threads \ {t} : u \in UsersOf(entry[k])
          BY <4>1 DEF UsersOf
        <4>3. refs'[u][k] = entry[k]
          BY <1>6, <1>8, <3>3, <4>2
        <4> QED
          BY <1>4, <3>3, <4>3
      <3> QED
        BY <3>2, <3>3
    <2>3. \A j, k \in Keys : entry'[j] # NoObject /\ entry'[j] = entry'[k] => j = k
      BY <1>1, <1>2 DEF RegistryInv
    <2> QED
      BY <2>1, <2>2, <2>3 DEF RegistryInv, KeysOf, InProcess
  <1>12. ASSUME NEW o \in Objects
         PROVE  /\ users'[o] = Cardinality(UsersOf(o)') /\ Cardinality(N(o)) \in Nat
    <2>1. users'[o] = users[o] - Cardinality(N(o)) /\ o # NoObject
      BY <1>1, ScopesAssumption
    <2>2. CASE N(o) = {}
      <3>1. UsersOf(o)' = UsersOf(o)
        BY <1>4, <1>6, <2>1, <2>2 DEF UsersOf
      <3>2. Cardinality(N(o)) = 0
        BY <2>2, FS_EmptySet
      <3> QED
        BY <1>7, <2>1, <3>1, <3>2
    <2>3. CASE N(o) # {}
      <3>1. PICK k \in K : refs[t][k] = o
        BY <2>3
      <3>2. o = entry[k] /\ k \in Keys
        BY <1>3, <1>4, <3>1
      <3>3. N(o) = {k}
        BY <1>2, <1>3, <1>4, <3>1, <3>2 DEF RegistryInv
      <3>4. Cardinality(N(o)) = 1
        BY <3>3, FS_Singleton
      <3>5. t \in UsersOf(o) /\ UsersOf(o)' = UsersOf(o) \ {t}
        BY <1>6, <2>1, <3>1, <3>2 DEF UsersOf
      <3>6. Cardinality(UsersOf(o) \ {t}) = Cardinality(UsersOf(o)) - 1
        BY <1>7, <3>5, FS_RemoveElement
      <3> QED
        BY <1>7, <2>1, <3>4, <3>5, <3>6
    <2> QED
      BY <2>2, <2>3
  <1>13. TypeInv'
    <2>1. users' \in [Objects -> Int]
      <3> HIDE DEF N
      <3> QED
        BY <1>1, <1>2, <1>12 DEF TypeInv
    <2> QED
      BY <1>1, <1>2, <2>1 DEF TypeInv
  <1>14. ASSUME NEW u \in Threads PROVE ScopeOK(u)'
    <2>1. ScopeOK(u)
      BY <1>2 DEF ScopeInv
    <2>2. CASE u = t
      BY <1>1, <1>6, <2>1, <2>2 DEF ScopeOK, InProcess, KeysOf
    <2>3. CASE u # t
      BY <1>1, <1>6, <2>1, <2>3 DEF ScopeOK, Ungranted, InProcess, KeysOf
    <2> QED
      BY <2>2, <2>3
  <1>15. Exclusive'
    BY <1>1, <1>2 DEF Exclusive, Holds
  <1>16. FreshInv'
    <2>1. plan[t] = {} /\ staged[t] = {}
      BY <1>1, <1>2 DEF ScopeInv, ScopeOK
    <2> QED
      BY <1>1, <1>2, <1>6, <2>1 DEF FreshInv
  <1> QED
    BY <1>11, <1>12, <1>13, <1>14, <1>15, <1>16 DEF FenceInv, ScopeInv, UsersInv

(* FenceStep: no step of any thread breaks the invariant.                  *)
LEMMA FenceStep == FenceInv /\ [Next]_vars => FenceInv'
  <1> SUFFICES ASSUME FenceInv, [Next]_vars PROVE FenceInv'
    OBVIOUS
  <1>1. ASSUME NEW t \in Threads, Step(t) PROVE FenceInv'
    <2>1. CASE Open(t)
      <3>1. TypeInv' /\ ScopeInv' /\ RegistryInv' /\ UsersInv'
        BY <2>1, OpenTyped, OpenRegistry
      <3>2. PICK e \in Events : Opening(t, e)
        BY <2>1 DEF Open
      <3>3. /\ got' = got /\ plan' = plan /\ staged' = staged /\ rows' = rows
            /\ pc[t] = "idle"
            /\ \A u \in Threads \ {t} : event'[u] = event[u]
        BY <3>2 DEF Opening, FenceInv, TypeInv
      <3>4. plan[t] = {} /\ staged[t] = {}
        BY <3>3 DEF FenceInv, ScopeInv, ScopeOK
      <3>5. Exclusive'
        BY <3>3 DEF FenceInv, Exclusive, Holds
      <3>6. FreshInv'
        BY <3>3, <3>4 DEF FenceInv, FreshInv
      <3> QED
        BY <3>1, <3>5, <3>6 DEF FenceInv
    <2>2. CASE Acquire(t) \/ Load(t) \/ Apply(t) \/ Release(t) \/ Unregister(t)
      BY <2>2, AcquireKeeps, LoadKeeps, ApplyKeeps, ReleaseKeeps, UnregisterKeeps
    <2>3. CASE LockTimeout(t) \/ ConnectionLost(t)
      BY <2>3, AbandonKeeps
    <2>4. CASE Commit(t) \/ ApplyFails(t)
      <3>1. Leave(t, FALSE) \/ Leave(t, TRUE)
        BY <2>4 DEF Commit, ApplyFails
      <3> QED
        BY <3>1, LeaveKeeps
    <2> QED
      BY <1>1, <2>1, <2>2, <2>3, <2>4 DEF Step
  <1>2. CASE UNCHANGED vars
    <2>1. UNCHANGED <<backend, entry, users, refs>> /\ UNCHANGED event
      BY <1>2 DEF vars, scopeVars
    <2>2. RegistryInv' /\ UsersInv'
      BY <2>1, RegistryKept
    <2>3. TypeInv' /\ Exclusive' /\ FreshInv'
      BY <1>2 DEF vars, scopeVars, FenceInv, TypeInv, Exclusive, Holds, FreshInv
    <2>4. ScopeInv'
      BY <1>2 DEF vars, scopeVars, FenceInv, ScopeInv, ScopeOK, Ungranted, InProcess, KeysOf
    <2> QED
      BY <2>2, <2>3, <2>4 DEF FenceInv
  <1> QED
    BY <1>1, <1>2 DEF Next

(* FenceAlways: the invariant holds throughout.                            *)
LEMMA FenceAlways == Spec => []FenceInv
  BY FenceInit, FenceStep, PTL DEF Spec

-----------------------------------------------------------------------------
(* What the scopes promise *)

(* ScopesTyped: writes and saves lie in fences that are held, an idle      *)
(* thread has no trace of a scope, and no lock has more users than threads.*)
THEOREM ScopesTyped == Spec => []TypeOK
  <1>1. FenceInv => TypeOK
    <2> SUFFICES ASSUME FenceInv PROVE TypeOK
      OBVIOUS
    <2>1. users \in [Objects -> 0 .. Cardinality(Threads)]
      <3>1. ASSUME NEW o \in Objects PROVE users[o] \in 0 .. Cardinality(Threads)
        <4>1. UsersOf(o) \subseteq Threads /\ IsFiniteSet(Threads)
          BY ScopesAssumption DEF UsersOf
        <4>2. Cardinality(UsersOf(o)) <= Cardinality(Threads) /\ IsFiniteSet(UsersOf(o))
          BY <4>1, FS_Subset
        <4>3. Cardinality(UsersOf(o)) \in Nat /\ Cardinality(Threads) \in Nat
          BY <4>1, <4>2, FS_CardinalityType
        <4> QED
          BY <4>2, <4>3 DEF FenceInv, UsersInv
      <3> QED
        BY <3>1 DEF FenceInv, TypeInv
    <2> QED
      BY <2>1 DEF FenceInv, TypeInv, ScopeInv, ScopeOK, TypeOK
  <1> QED
    BY <1>1, FenceAlways, PTL

(* ExclusiveCorrect: a fence has at most one holder, whichever scopes wait,*)
(* time out, fail or give up their entries of the registry.                *)
THEOREM ExclusiveCorrect == Spec => []Exclusive
  <1>1. FenceInv => Exclusive
    BY DEF FenceInv
  <1> QED
    BY <1>1, FenceAlways, PTL

(* Unblocked: of the threads that wait, the one that asks for the greatest *)
(* fence waits for a thread that is past it, and so does not wait.         *)
LEMMA Unblocked == FenceInv => NeverDeadlocked
  <1> SUFFICES ASSUME FenceInv, NEW s \in Threads, Waiting(s),
                      \A t \in Threads : pc[t] # "idle" => Waiting(t) /\ Taken(t, NextKey(t))
               PROVE  FALSE
    BY DEF NeverDeadlocked
  <1> DEFINE N == Cardinality(Keys)
             Asked == {NextKey(t) : t \in {u \in Threads : Waiting(u)}}
             Room == {N - k : k \in Asked}
  <1>1. TypeInv /\ ScopeInv
    BY DEF FenceInv
  <1>2. \A t \in Threads : Waiting(t) => /\ NextKey(t) \in Keys
                                         /\ NextKey(t) \in KeysOf(event[t])
                                         /\ NextKey(t) \in Ungranted(t)
    BY <1>1, NextKeyInside DEF Ungranted
  <1>3. N \in Nat /\ Asked \subseteq 1 .. N /\ Asked # {}
    BY <1>2, ScopesAssumption, FS_CardinalityType
  <1>4. Room \in SUBSET Nat /\ Room # {}
    <2>1. ASSUME NEW k \in Asked PROVE N - k \in Nat
      <3>1. k \in 1 .. N
        BY <1>3
      <3> HIDE DEF N, Asked
      <3> QED
        BY <1>3, <3>1
    <2>2. PICK k : k \in Asked
      BY <1>3
    <2>3. N - k \in Room
      BY <2>2
    <2> HIDE DEF N, Asked
    <2> QED
      BY <2>1, <2>3
  <1>5. Least(Room) \in Room /\ \A m \in Room : Least(Room) <= m
    BY <1>4, LeastInside
  <1>6. PICK g \in Asked : Least(Room) = N - g
    BY <1>5
  <1>7. \A k \in Asked : k <= g
    <2>1. ASSUME NEW k \in Asked PROVE k <= g
      <3>1. N - g <= N - k
        BY <1>5, <1>6
      <3>2. k \in Int /\ g \in Int /\ N \in Int
        BY <1>3, <1>6
      <3> QED
        BY <3>1, <3>2
    <2> QED
      BY <2>1
  <1>8. PICK t \in Threads : Waiting(t) /\ g = NextKey(t)
    BY <1>6
  <1>9. PICK u \in Threads \ {t} : Holds(u, g)
    <2>1. Taken(t, g)
      BY <1>8 DEF Waiting
    <2> QED
      BY <1>2, <1>8, <2>1, TakenByKey
  <1>10. pc[u] # "idle"
    BY <1>1, <1>9, KeysTyped DEF ScopeInv, ScopeOK, Holds
  <1>11. Waiting(u) /\ NextKey(u) \in Ungranted(u) /\ NextKey(u) \in Asked
    BY <1>2, <1>10
  <1>12. g < NextKey(u)
    BY <1>1, <1>9, <1>11 DEF ScopeInv, ScopeOK, Holds, Waiting
  <1>13. NextKey(u) <= g /\ g \in Int /\ NextKey(u) \in Int
    BY <1>3, <1>6, <1>7, <1>11
  <1> QED
    BY <1>12, <1>13

(* DeadlockFree: threads that wait for fences never wait for one another.  *)
THEOREM DeadlockFree == Spec => []NeverDeadlocked
  BY Unblocked, FenceAlways, PTL

(* NothingKeptCorrect: with no scope open the registry is empty.           *)
THEOREM NothingKeptCorrect == Spec => []NothingKept
  <1>1. FenceInv => NothingKept
    <2> SUFFICES ASSUME FenceInv, \A t \in Threads : pc[t] = "idle" PROVE
                 /\ \A k \in Keys : entry[k] = NoObject
                 /\ \A o \in Objects : users[o] = 0
      BY DEF NothingKept
    <2>1. \A t \in Threads, k \in Keys : refs[t][k] = NoObject
      BY KeysTyped DEF FenceInv, ScopeInv, ScopeOK, RegistryInv
    <2>2. \A k \in Keys : entry[k] = NoObject
      BY <2>1 DEF FenceInv, RegistryInv
    <2>3. ASSUME NEW o \in Objects PROVE users[o] = 0
      <3>1. UsersOf(o) = {}
        BY <2>1, ScopesAssumption DEF UsersOf
      <3> QED
        BY <3>1, FS_EmptySet DEF FenceInv, UsersInv
    <2> QED
      BY <2>2, <2>3
  <1> QED
    BY <1>1, FenceAlways, PTL

(* OtherStaged: a step of one thread leaves the saves of the others alone. *)
LEMMA OtherStaged ==
    ASSUME TypeInv, NEW t \in Threads, NEW u \in Threads, u # t, Step(u)
    PROVE  staged'[t] = staged[t]
  <1>1. staged' = staged \/ \E S : staged' = [staged EXCEPT ![u] = S]
    BY DEF Step, Open, Opening, Acquire, LockTimeout, Load, Apply, StageInMemory,
           SaveInTransaction, UpsertCheckpoint, Commit, ApplyFails, Leave,
           ConnectionLost, Release, Unregister
  <1> QED
    BY <1>1 DEF TypeInv

(* ProgressStoredCorrect: a save outlives the failure of a later target.   *)
THEOREM ProgressStoredCorrect == Spec => ProgressStored
  <1>1. FenceInv /\ [Next]_vars =>
           [\A t \in Threads :
               pc[t] = "applying" /\ ~ConnectionLost(t) =>
                   \A k \in staged[t] \ staged'[t] : rows'[k] >= event[t].seq]_vars
    <2> SUFFICES ASSUME FenceInv, NEW u \in Threads, Step(u), NEW t \in Threads,
                        pc[t] = "applying", ~ConnectionLost(t),
                        NEW k \in staged[t] \ staged'[t]
                 PROVE  rows'[k] >= event[t].seq
      BY DEF Next
    <2>1. TypeInv /\ u = t
      BY OtherStaged DEF FenceInv
    <2>2. staged' # staged /\ k \in Keys
      BY <2>1 DEF TypeInv
    <2>3. Apply(t) \/ Commit(t) \/ ApplyFails(t)
      BY <2>1, <2>2 DEF Step, Open, Opening, Acquire, LockTimeout, Load, Waiting,
                        Release, Unregister
    <2>4. CASE Apply(t)
      BY <2>1, <2>2, <2>4 DEF Apply, StageInMemory, SaveInTransaction, UpsertCheckpoint, TypeInv
    <2>5. CASE Commit(t) \/ ApplyFails(t)
      <3>1. rows' = Stored(t)
        BY <2>5 DEF Commit, ApplyFails, Leave, Kept
      <3>2. rows[k] < event[t].seq /\ event[t].seq \in Nat
        BY <2>1, KeysTyped DEF FenceInv, FreshInv, TypeInv
      <3> QED
        BY <2>2, <3>1, <3>2 DEF Stored
    <2> QED
      BY <2>3, <2>4, <2>5
  <1> QED
    BY <1>1, FenceAlways, PTL DEF Spec, ProgressStored

(* RowsAdvanceCorrect: a stored checkpoint never moves back, not even with *)
(* the adapter that stores whatever it is given.                           *)
THEOREM RowsAdvanceCorrect == Spec => RowsAdvance
  <1>1. FenceInv /\ [Next]_vars => [\A k \in Keys : rows'[k] >= rows[k]]_rows
    <2> SUFFICES ASSUME FenceInv, NEW t \in Threads, Step(t), rows' # rows,
                        NEW k \in Keys
                 PROVE  rows'[k] >= rows[k]
      BY DEF Next, vars
    <2>1. rows[k] \in Nat /\ event[t].seq \in Nat /\ rows \in [Keys -> Nat]
      BY KeysTyped DEF FenceInv, TypeInv
    <2>2. Apply(t) \/ Commit(t) \/ ApplyFails(t)
      BY DEF Step, Open, Opening, Acquire, LockTimeout, Load, Release, Unregister, ConnectionLost
    <2>3. CASE Apply(t)
      <3>1. /\ rows' = [rows EXCEPT ![NextTarget(t)] = event[t].seq]
            /\ plan[t] # {}
        BY <2>3 DEF Apply, StageInMemory, SaveInTransaction, UpsertCheckpoint
      <3>2. rows[NextTarget(t)] < event[t].seq
        BY <3>1, NextTargetInside DEF FenceInv, FreshInv
      <3> QED
        BY <2>1, <3>1, <3>2
    <2>4. CASE Commit(t) \/ ApplyFails(t)
      BY <2>1, <2>4 DEF Commit, ApplyFails, Leave, Kept, Stored
    <2> QED
      BY <2>2, <2>3, <2>4
  <1> QED
    BY <1>1, FenceAlways, PTL DEF Spec, RowsAdvance
=============================================================================
