------------------------ MODULE FederatedSearchProofs ------------------------
(***************************************************************************)
(* Reading through the gateway, for any clusters, documents, page sizes    *)
(* and depths: what the merged windows of the clusters show of the whole   *)
(* collection, what the counts claim, what a client reads that follows the *)
(* answers, and what a lookup may call missing.                            *)
(***************************************************************************)
EXTENDS FederatedSearch, FiniteSetTheorems, SequenceTheorems, TLAPS

-----------------------------------------------------------------------------
(* Counting *)

(* InjectionCounts: what fits into a finite set is not larger.             *)
LEMMA InjectionCounts ==
    ASSUME NEW S, NEW T, IsFiniteSet(T), NEW f \in [S -> T],
           \A x, y \in S : f[x] = f[y] => x = y
    PROVE  /\ IsFiniteSet(S) /\ Cardinality(S) <= Cardinality(T)
           /\ Cardinality(S) = Cardinality(T) <=> \A t \in T : \E s \in S : f[s] = t
  <1>1. f \in Injection(S, T)
    BY DEF Injection, IsInjective
  <1>2. f \in Surjection(S, T) <=> \A t \in T : \E s \in S : f[s] = t
    BY DEF Surjection
  <1> QED
    BY <1>1, <1>2, FS_Injection

(* SurjectionCounts: what a finite set covers is not larger.               *)
LEMMA SurjectionCounts ==
    ASSUME NEW S, NEW T, IsFiniteSet(S), NEW f \in [S -> T],
           \A t \in T : \E s \in S : f[s] = t
    PROVE  IsFiniteSet(T) /\ Cardinality(T) <= Cardinality(S)
  <1>1. f \in Surjection(S, T)
    BY DEF Surjection
  <1> QED
    BY <1>1, FS_Surjection

(* LeastNumber: a set of numbers has a least element.                      *)
LEMMA LeastNumber ==
    ASSUME NEW S \in SUBSET Nat, S # {}
    PROVE  \E n \in S : \A m \in S : n <= m
  <1> DEFINE Less == {p \in Nat \X Nat : p[1] < p[2]}
  <1>1. IsWellFoundedOn(Less, Nat)
    BY NatLessThanWellFounded DEF OpToRel
  <1>2. PICK n \in S : \A m \in S : <<m, n>> \notin Less
    <2> HIDE DEF Less
    <2> QED
      BY <1>1, WFMin
  <1>3. ASSUME NEW m \in S PROVE n <= m
    <2>1. <<m, n>> \in Nat \X Nat /\ <<m, n>>[1] = m /\ <<m, n>>[2] = n
      OBVIOUS
    <2>2. ~ (m < n)
      BY <1>2, <2>1
    <2> QED
      BY <2>2
  <1> QED
    BY <1>3

-----------------------------------------------------------------------------
(* The order of the hits *)

(* BeforeIsOrder: no two hits of a set are at the same place.              *)
LEMMA BeforeIsOrder ==
    ASSUME NEW h \in Hits, NEW g \in Hits
    PROVE  /\ ~Before(h, h)
           /\ Before(h, g) => ~Before(g, h)
           /\ \A k \in Hits : Before(h, g) /\ Before(g, k) => Before(h, k)
           /\ h = g \/ Before(h, g) \/ Before(g, h)
  <1>1. /\ h.id \in Nat /\ h.score \in Nat /\ g.id \in Nat /\ g.score \in Nat
        /\ h.id = g.id /\ h.score = g.score => h = g
    <2>1. Ids \subseteq Nat /\ Scores \subseteq Nat
      BY SearchAssumption
    <2>2. /\ h.id \in Ids /\ h.score \in Scores /\ h = [id |-> h.id, score |-> h.score]
          /\ g.id \in Ids /\ g.score \in Scores /\ g = [id |-> g.id, score |-> g.score]
      BY DEF Hits
    <2> QED
      BY <2>1, <2>2
  <1>2. ASSUME NEW k \in Hits, Before(h, g), Before(g, k) PROVE Before(h, k)
    <2>1. k.id \in Nat /\ k.score \in Nat
      BY SearchAssumption DEF Hits
    <2> QED
      BY <1>1, <1>2, <2>1 DEF Before
  <1>3. ~Before(h, h) /\ (Before(h, g) => ~Before(g, h))
    BY <1>1 DEF Before
  <1>4. h = g \/ Before(h, g) \/ Before(g, h)
    BY <1>1 DEF Before
  <1> QED
    BY <1>2, <1>3, <1>4

\* The hits of a set that come before one.
Earlier(h, hits) == {g \in hits : Before(g, h)}

(* PlaceGrows: the places of a finite set of hits are numbers up to its    *)
(* size, in the order of the hits.                                         *)
LEMMA PlaceGrows ==
    ASSUME NEW S \in SUBSET Hits, IsFiniteSet(S), NEW h \in S
    PROVE  /\ Place(h, S) \in 1 .. Cardinality(S)
           /\ IsFiniteSet(Earlier(h, S)) /\ Cardinality(Earlier(h, S)) = Place(h, S) - 1
           /\ \A g \in S : Before(g, h) <=> Place(g, S) < Place(h, S)
           /\ \A g \in S : Place(g, S) = Place(h, S) => g = h
  <1>1. ASSUME NEW k \in S
        PROVE  /\ IsFiniteSet(Earlier(k, S)) /\ Cardinality(Earlier(k, S)) \in Nat
               /\ Cardinality(Earlier(k, S)) < Cardinality(S)
               /\ Place(k, S) = 1 + Cardinality(Earlier(k, S))
    <2>1. Earlier(k, S) \subseteq S /\ k \notin Earlier(k, S)
      BY BeforeIsOrder DEF Earlier
    <2>2. Earlier(k, S) # S
      BY <2>1
    <2>3. /\ IsFiniteSet(Earlier(k, S)) /\ Cardinality(Earlier(k, S)) # Cardinality(S)
          /\ Cardinality(Earlier(k, S)) <= Cardinality(S)
      BY <2>1, <2>2, FS_Subset
    <2> QED
      BY <2>3, FS_CardinalityType DEF Place, Earlier
  <1>2. ASSUME NEW g \in S, NEW k \in S, Before(g, k)
        PROVE  Place(g, S) < Place(k, S)
    <2>1. Earlier(g, S) \subseteq Earlier(k, S)
      BY <1>2, BeforeIsOrder DEF Earlier
    <2>2. g \in Earlier(k, S) /\ g \notin Earlier(g, S)
      BY <1>2, BeforeIsOrder DEF Earlier
    <2>3. /\ Cardinality(Earlier(g, S)) <= Cardinality(Earlier(k, S))
          /\ Cardinality(Earlier(g, S)) # Cardinality(Earlier(k, S))
      BY <1>1, <2>1, <2>2, FS_Subset
    <2> QED
      BY <1>1, <2>3
  <1>3. Cardinality(S) \in Nat
    BY FS_CardinalityType
  <1>4. ASSUME NEW g \in S PROVE g = h \/ Before(g, h) \/ Before(h, g)
    BY BeforeIsOrder
  <1>5. ASSUME NEW g \in S, Place(g, S) < Place(h, S) PROVE Before(g, h)
    BY <1>1, <1>2, <1>4, <1>5
  <1>6. ASSUME NEW g \in S, Place(g, S) = Place(h, S) PROVE g = h
    BY <1>1, <1>2, <1>4, <1>6
  <1> QED
    BY <1>1, <1>2, <1>3, <1>5, <1>6

(* PlaceOnto: there is a hit at every place.                               *)
LEMMA PlaceOnto ==
    ASSUME NEW S \in SUBSET Hits, IsFiniteSet(S), NEW n \in 1 .. Cardinality(S)
    PROVE  \E h \in S : Place(h, S) = n
  <1> DEFINE f == [h \in S |-> Place(h, S)]
             T == 1 .. Cardinality(S)
  <1>1. Cardinality(S) \in Nat
    BY FS_CardinalityType
  <1>2. IsFiniteSet(T) /\ Cardinality(T) = Cardinality(S)
    BY <1>1, FS_Interval
  <1>3. f \in [S -> T]
    BY PlaceGrows
  <1>4. \A h, g \in S : f[h] = f[g] => h = g
    BY PlaceGrows
  <1>5. \A t \in T : \E h \in S : f[h] = t
    <2> HIDE DEF f, T
    <2> QED
      BY <1>2, <1>3, <1>4, InjectionCounts
  <1> QED
    BY <1>5

(* LeastHit: of several hits one has none before it.                       *)
LEMMA LeastHit ==
    ASSUME NEW S \in SUBSET Hits, IsFiniteSet(S), S # {}
    PROVE  \E h \in S : \A g \in S : ~Before(g, h)
  <1>1. Cardinality(S) \in Nat \ {0}
    BY FS_CardinalityType, FS_EmptySet
  <1>2. PICK h \in S : Place(h, S) = 1
    BY <1>1, PlaceOnto
  <1>3. ASSUME NEW g \in S, Before(g, h) PROVE FALSE
    <2>1. Place(g, S) < Place(h, S) /\ Place(g, S) \in 1 .. Cardinality(S)
      BY <1>3, PlaceGrows
    <2> QED
      BY <1>1, <1>2, <2>1
  <1> QED
    BY <1>3

IdsOf(hits) == {h.id : h \in hits}

(* BestOfEach: each document has one best copy.                            *)
LEMMA BestOfEach ==
    ASSUME NEW S \in SUBSET Hits, IsFiniteSet(S)
    PROVE  /\ Best(S) \subseteq S /\ IsFiniteSet(Best(S))
           /\ \A h \in S : \E b \in Best(S) : b.id = h.id /\ (b = h \/ Before(b, h))
           /\ \A h, g \in Best(S) : h.id = g.id => h = g
           /\ IsFiniteSet(IdsOf(S)) /\ Cardinality(Best(S)) = Cardinality(IdsOf(S))
  <1>1. Best(S) \subseteq S /\ IsFiniteSet(Best(S))
    BY FS_Subset DEF Best
  <1>2. ASSUME NEW h \in S
        PROVE  \E b \in Best(S) : b.id = h.id /\ (b = h \/ Before(b, h))
    <2> DEFINE Copies == {g \in S : g.id = h.id}
    <2>1. Copies \in SUBSET Hits /\ IsFiniteSet(Copies) /\ h \in Copies
      BY FS_Subset
    <2>2. PICK b \in Copies : \A g \in Copies : ~Before(g, b)
      BY <2>1, LeastHit
    <2>3. b \in Best(S)
      BY <2>2 DEF Best
    <2> QED
      BY <2>1, <2>2, <2>3, BeforeIsOrder
  <1>3. ASSUME NEW h \in Best(S), NEW g \in Best(S), h.id = g.id PROVE h = g
    BY <1>1, <1>3, BeforeIsOrder DEF Best
  <1> DEFINE f == [b \in Best(S) |-> b.id]
  <1>4. /\ f \in [Best(S) -> IdsOf(S)]
        /\ \A i \in IdsOf(S) : \E b \in Best(S) : f[b] = i
        /\ \A h, g \in Best(S) : f[h] = f[g] => h = g
    BY <1>1, <1>2, <1>3 DEF IdsOf
  <1>5. IsFiniteSet(IdsOf(S))
    <2> HIDE DEF f
    <2> QED
      BY <1>1, <1>4, SurjectionCounts
  <1>6. Cardinality(Best(S)) = Cardinality(IdsOf(S))
    <2> HIDE DEF f
    <2> QED
      BY <1>4, <1>5, InjectionCounts
  <1> QED
    BY <1>1, <1>2, <1>3, <1>5, <1>6

(* MergedSorts: the merged hits are the best copies at their places.       *)
LEMMA MergedSorts ==
    ASSUME NEW S \in SUBSET Hits, IsFiniteSet(S)
    PROVE  /\ Merged(S) \in Seq(Hits) /\ Len(Merged(S)) = Cardinality(Best(S))
           /\ \A n \in 1 .. Cardinality(Best(S)) :
                 Merged(S)[n] \in Best(S) /\ Place(Merged(S)[n], Best(S)) = n
  <1>1. Best(S) \in SUBSET Hits /\ IsFiniteSet(Best(S))
    BY BestOfEach
  <1>2. Cardinality(Best(S)) \in Nat
    BY <1>1, FS_CardinalityType
  <1>3. \A n \in 1 .. Cardinality(Best(S)) : \E h \in Best(S) : Place(h, Best(S)) = n
    BY <1>1, PlaceOnto
  <1>4. \A n \in 1 .. Cardinality(Best(S)) :
           Merged(S)[n] \in Best(S) /\ Place(Merged(S)[n], Best(S)) = n
    BY <1>3 DEF Merged
  <1>5. /\ Merged(S) \in [1 .. Cardinality(Best(S)) -> Hits]
        /\ DOMAIN Merged(S) = 1 .. Cardinality(Best(S))
    <2>1. DOMAIN Merged(S) = 1 .. Cardinality(Best(S))
      BY DEF Merged
    <2>2. Merged(S) = [n \in 1 .. Cardinality(Best(S)) |-> Merged(S)[n]]
      BY DEF Merged
    <2> QED
      BY <1>1, <1>4, <2>1, <2>2
  <1> QED
    BY <1>2, <1>4, <1>5

(* WindowOfWhole: a set of hits that holds the W best documents of the     *)
(* whole has them at the same places, and falls short only with the whole. *)
LEMMA WindowOfWhole ==
    ASSUME NEW C \in SUBSET Hits, IsFiniteSet(C), NEW M \in SUBSET C, NEW W \in Nat,
           \A h \in Best(C) : Place(h, Best(C)) <= W => h \in M
    PROVE  /\ \A h \in Best(M) : Place(h, Best(M)) <= W =>
                 h \in Best(C) /\ Place(h, Best(C)) = Place(h, Best(M))
           /\ Cardinality(Best(C)) <= W => Cardinality(Best(M)) = Cardinality(Best(C))
           /\ W <= Cardinality(Best(C)) => W <= Cardinality(Best(M))
  <1> DEFINE B == Best(C)
             D == Best(M)
             F == {h \in B : Place(h, B) <= W}
  <1>1. /\ IsFiniteSet(M) /\ M \in SUBSET Hits
        /\ B \in SUBSET C /\ B \in SUBSET Hits /\ IsFiniteSet(B) /\ Cardinality(B) \in Nat
        /\ D \in SUBSET M /\ D \in SUBSET Hits /\ IsFiniteSet(D) /\ Cardinality(D) \in Nat
    BY FS_Subset, BestOfEach, FS_CardinalityType
  <1>2. F \subseteq D
    BY DEF Best
  <1>3. /\ IsFiniteSet(F) /\ Cardinality(F) \in Nat /\ Cardinality(F) <= Cardinality(D)
        /\ Cardinality(B) <= W => F = B
        /\ W <= Cardinality(B) => W <= Cardinality(F)
    <2>1. IsFiniteSet(F) /\ Cardinality(F) \in Nat /\ Cardinality(F) <= Cardinality(D)
      BY <1>1, <1>2, FS_Subset, FS_CardinalityType
    <2>2. ASSUME Cardinality(B) <= W PROVE F = B
      BY <1>1, <2>2, PlaceGrows
    <2>3. ASSUME W <= Cardinality(B) PROVE W <= Cardinality(F)
      <3> DEFINE f == [n \in 1 .. W |-> CHOOSE h \in B : Place(h, B) = n]
      <3>1. \A n \in 1 .. W : \E h \in B : Place(h, B) = n
        BY <1>1, <2>3, PlaceOnto
      <3>2. \A n \in 1 .. W : f[n] \in B /\ Place(f[n], B) = n
        BY <3>1
      <3>3. f \in [1 .. W -> F] /\ \A n, m \in 1 .. W : f[n] = f[m] => n = m
        BY <3>2
      <3>4. Cardinality(1 .. W) = W
        BY FS_Interval
      <3> HIDE DEF f, F
      <3> QED
        BY <2>1, <3>3, <3>4, InjectionCounts
    <2> QED
      BY <2>1, <2>2, <2>3
  <1>4. ASSUME NEW h \in D, h \notin F, NEW f \in F PROVE Before(f, h)
    <2>1. f \in B /\ Place(f, B) <= W /\ Place(f, B) \in Nat
      BY <1>1, PlaceGrows
    <2>2. PICK b \in B : b.id = h.id /\ (b = h \/ Before(b, h))
      BY <1>1, BestOfEach
    <2>3. b \notin F
      <3> SUFFICES ASSUME b \in F PROVE FALSE
        OBVIOUS
      <3>1. b \in M /\ b # h
        BY <1>1, <1>2, <1>4
      <3> QED
        BY <2>2, <3>1 DEF Best
    <2>4. Place(f, B) < Place(b, B)
      BY <1>1, <2>1, <2>3, PlaceGrows
    <2>5. Before(f, b)
      BY <1>1, <2>1, <2>4, PlaceGrows
    <2> QED
      BY <1>1, <2>1, <2>2, <2>5, BeforeIsOrder
  <1>5. ASSUME NEW h \in D, Place(h, D) <= W PROVE h \in F
    <2> SUFFICES ASSUME h \notin F PROVE FALSE
      OBVIOUS
    <2>1. F \subseteq Earlier(h, D)
      BY <1>2, <1>4 DEF Earlier
    <2>2. /\ IsFiniteSet(Earlier(h, D)) /\ Cardinality(Earlier(h, D)) = Place(h, D) - 1
          /\ Place(h, D) \in Nat
      BY <1>1, PlaceGrows
    <2>3. Cardinality(F) <= Place(h, D) - 1
      BY <2>1, <2>2, FS_Subset
    <2>4. F = B
      BY <1>1, <1>3, <1>5, <2>2, <2>3
    <2>5. PICK b \in B : b.id = h.id /\ (b = h \/ Before(b, h))
      BY <1>1, BestOfEach
    <2>6. b \in F /\ b \in D
      BY <1>2, <2>4
    <2>7. b = h
      BY <1>1, <2>5, <2>6, BestOfEach
    <2> QED
      BY <2>6, <2>7
  <1>6. ASSUME NEW h \in D, Place(h, D) <= W
        PROVE  h \in B /\ Place(h, B) = Place(h, D)
    <2>1. h \in F
      BY <1>5, <1>6
    <2>2. h \in B /\ Place(h, B) <= W
      BY <2>1
    <2>3. ASSUME NEW g \in D, Before(g, h) PROVE g \in B
      <3>1. g \notin F => Before(h, g)
        BY <1>4, <2>1
      <3> QED
        BY <1>1, <2>3, <3>1, BeforeIsOrder
    <2>4. ASSUME NEW g \in B, Before(g, h) PROVE g \in D
      <3>1. /\ Place(g, B) < Place(h, B) /\ Place(g, B) \in 1 .. Cardinality(B)
            /\ Place(h, B) \in 1 .. Cardinality(B)
        BY <1>1, <2>2, <2>4, PlaceGrows
      <3> QED
        BY <1>1, <1>2, <2>2, <3>1
    <2>5. Earlier(h, D) = Earlier(h, B)
      BY <2>3, <2>4 DEF Earlier
    <2> QED
      BY <2>2, <2>5 DEF Place, Earlier
  <1>7. ASSUME Cardinality(B) <= W PROVE Cardinality(D) = Cardinality(B)
    <2>1. B \subseteq D
      BY <1>2, <1>3, <1>7
    <2>2. ASSUME NEW h \in D PROVE h \in B
      <3>1. PICK b \in B : b.id = h.id
        BY <1>1, BestOfEach
      <3> QED
        BY <1>1, <2>1, <3>1, BestOfEach
    <2>3. B = D
      BY <2>1, <2>2
    <2> QED
      BY <2>3
  <1>8. ASSUME W <= Cardinality(B) PROVE W <= Cardinality(D)
    BY <1>1, <1>3, <1>8
  <1> QED
    BY <1>6, <1>7, <1>8

(* RankIsPlace: the rank of a document is the place of its best copy.      *)
LEMMA RankIsPlace ==
    ASSUME Collection \in SUBSET Hits, IsFiniteSet(Collection), NEW h \in Best(Collection)
    PROVE  Rank(h.id) = Place(h, Best(Collection))
  <1> DEFINE B == Best(Collection)
             best(i) == CHOOSE b \in Collection :
                            b.id = i /\ \A g \in Collection : g.id = i => ~Before(g, b)
             Ahead == {j \in {k.id : k \in Collection} : Before(best(j), best(h.id))}
  <1>1. /\ B \subseteq Collection /\ B \in SUBSET Hits /\ IsFiniteSet(B)
        /\ \A k \in Collection : \E b \in B : b.id = k.id
        /\ \A k, b \in B : k.id = b.id => k = b
    BY BestOfEach
  <1>2. ASSUME NEW b \in B PROVE best(b.id) = b
    <2>1. \A g \in Collection : g.id = b.id => ~Before(g, b)
      BY DEF Best
    <2>2. best(b.id) \in Collection /\ best(b.id).id = b.id
          /\ \A g \in Collection : g.id = b.id => ~Before(g, best(b.id))
      BY <1>1, <2>1
    <2>3. best(b.id) \in B
      BY <2>2 DEF Best
    <2> QED
      BY <1>1, <2>2, <2>3
  <1> DEFINE f == [b \in Earlier(h, B) |-> b.id]
  <1>3. f \in [Earlier(h, B) -> Ahead]
    BY <1>1, <1>2 DEF Earlier
  <1>4. \A i \in Ahead : \E b \in Earlier(h, B) : f[b] = i
    <2> SUFFICES ASSUME NEW i \in Ahead PROVE \E b \in Earlier(h, B) : b.id = i
      OBVIOUS
    <2>1. PICK b \in B : b.id = i
      BY <1>1
    <2>2. Before(b, h)
      <3>1. Before(best(i), best(h.id))
        OBVIOUS
      <3>2. best(b.id) = b /\ best(h.id) = h
        BY <1>2
      <3> HIDE DEF best
      <3> QED
        BY <2>1, <3>1, <3>2
    <2> QED
      BY <2>1, <2>2 DEF Earlier
  <1>5. \A b, k \in Earlier(h, B) : f[b] = f[k] => b = k
    BY <1>1 DEF Earlier
  <1>6. IsFiniteSet(Earlier(h, B))
    BY <1>1, PlaceGrows
  <1>7. Cardinality(Ahead) = Cardinality(Earlier(h, B))
    <2> HIDE DEF f, Ahead
    <2>1. IsFiniteSet(Ahead)
      BY <1>3, <1>4, <1>6, SurjectionCounts
    <2> QED
      BY <1>3, <1>4, <1>5, <2>1, InjectionCounts
  <1>8. Rank(h.id) = 1 + Cardinality(Ahead)
    BY DEF Rank
  <1> QED
    BY <1>7, <1>8 DEF Place, Earlier

-----------------------------------------------------------------------------
(* The clusters' indexes and the windows fetched from them *)

\* A cluster keeps its hits in order and one copy of a document.
IndexOK(s) ==
    /\ s \in Seq(Hits) /\ Ordered(s)
    /\ \A i, j \in 1 .. Len(s) : s[i].id = s[j].id => i = j

IndexInv ==
    /\ targets \in SUBSET Clusters /\ targets # {}
    /\ index \in [targets -> Seq(Hits)]
    /\ \A c \in targets : IndexOK(index[c])

(* RangeOfHits: what a cluster holds is finite.                            *)
LEMMA RangeOfHits ==
    ASSUME NEW s \in Seq(Hits)
    PROVE  /\ Range(s) \subseteq Hits /\ IsFiniteSet(Range(s)) /\ Len(s) \in Nat
           /\ \A h : h \in Range(s) <=> \E n \in 1 .. Len(s) : s[n] = h
  <1>1. Len(s) \in Nat /\ DOMAIN s = 1 .. Len(s) /\ \A n \in 1 .. Len(s) : s[n] \in Hits
    BY ElementOfSeq
  <1> DEFINE f == [n \in 1 .. Len(s) |-> s[n]]
  <1>2. f \in [1 .. Len(s) -> Range(s)] /\ \A h \in Range(s) : \E n \in 1 .. Len(s) : f[n] = h
    BY <1>1 DEF Range
  <1>3. IsFiniteSet(1 .. Len(s))
    BY <1>1, FS_Interval
  <1>4. IsFiniteSet(Range(s))
    <2> HIDE DEF f
    <2> QED
      BY <1>2, <1>3, SurjectionCounts
  <1> QED
    BY <1>1, <1>4 DEF Range

(* RankingOK: any ranking of single copies is a proper index of them.      *)
LEMMA RankingOK ==
    ASSUME NEW S \in SUBSET Hits, IsFiniteSet(S), NEW hits \in Rankings(S),
           \A g, h \in S : g.id = h.id => g = h
    PROVE  IndexOK(hits) /\ Range(hits) = S
  <1>1. Cardinality(S) \in Nat
    BY FS_CardinalityType
  <1>2. /\ hits \in [1 .. Cardinality(S) -> S] /\ Ordered(hits)
        /\ \A i, j \in 1 .. Cardinality(S) : hits[i] = hits[j] => i = j
    BY DEF Rankings, SetToSeqs
  <1>3. hits \in Seq(Hits) /\ Len(hits) = Cardinality(S)
    BY <1>1, <1>2
  <1>4. \A i, j \in 1 .. Len(hits) : hits[i].id = hits[j].id => i = j
    BY <1>2, <1>3
  <1>5. Cardinality(1 .. Cardinality(S)) = Cardinality(S)
    BY <1>1, FS_Interval
  <1>6. \A h \in S : \E n \in 1 .. Cardinality(S) : hits[n] = h
    <2> DEFINE D == 1 .. Cardinality(S)
    <2>1. hits \in [D -> S] /\ \A i, j \in D : hits[i] = hits[j] => i = j
      BY <1>2
    <2>2. Cardinality(D) = Cardinality(S)
      BY <1>5
    <2>3. \A h \in S : \E n \in D : hits[n] = h
      <3> HIDE DEF D
      <3> QED
        BY <2>1, <2>2, InjectionCounts
    <2> QED
      BY <2>3
  <1>7. Range(hits) = S
    BY <1>2, <1>6 DEF Range
  <1> QED
    BY <1>2, <1>3, <1>4, <1>7 DEF IndexOK

(* CollectionFinite: the collection is a finite set of hits.               *)
LEMMA CollectionFinite ==
    ASSUME IndexInv
    PROVE  /\ Collection \in SUBSET Hits /\ IsFiniteSet(Collection) /\ IsFiniteSet(targets)
           /\ \A c \in targets : /\ Len(index[c]) \in Nat
                                 /\ \A n \in 1 .. Len(index[c]) : index[c][n] \in Collection
           /\ \A h \in Collection : \E c \in targets : \E n \in 1 .. Len(index[c]) :
                 index[c][n] = h
  <1>1. IsFiniteSet(targets)
    BY SearchAssumption, FS_Subset DEF IndexInv
  <1>2. ASSUME NEW c \in targets
        PROVE  /\ Range(index[c]) \subseteq Hits /\ IsFiniteSet(Range(index[c]))
               /\ Len(index[c]) \in Nat
               /\ \A h : h \in Range(index[c]) <=> \E n \in 1 .. Len(index[c]) : index[c][n] = h
    <2>1. index[c] \in Seq(Hits)
      BY DEF IndexInv
    <2> QED
      BY <2>1, RangeOfHits
  <1> DEFINE f == [c \in targets |-> Range(index[c])]
             R == {Range(index[c]) : c \in targets}
  <1>3. f \in [targets -> R] /\ \A r \in R : \E c \in targets : f[c] = r
    OBVIOUS
  <1>4. IsFiniteSet(R)
    <2> HIDE DEF f, R
    <2> QED
      BY <1>1, <1>3, SurjectionCounts
  <1>5. \A r \in R : IsFiniteSet(r)
    BY <1>2
  <1>6. IsFiniteSet(UNION R)
    <2> HIDE DEF R
    <2> QED
      BY <1>4, <1>5, FS_UNION
  <1>7. Collection = UNION R
    BY DEF Collection
  <1>8. \A h : h \in Collection <=> \E c \in targets : h \in Range(index[c])
    BY DEF Collection
  <1> QED
    BY <1>1, <1>2, <1>6, <1>7, <1>8

(* DocumentsOfIndex: a cluster holds no more hits than there are documents.*)
LEMMA DocumentsOfIndex ==
    ASSUME IndexInv, NEW c \in targets
    PROVE  Len(index[c]) <= Cardinality(IdsOf(Collection))
  <1>1. /\ IsFiniteSet(IdsOf(Collection)) /\ Len(index[c]) \in Nat
        /\ \A n \in 1 .. Len(index[c]) : index[c][n] \in Collection
    BY CollectionFinite, BestOfEach
  <1> DEFINE f == [n \in 1 .. Len(index[c]) |-> index[c][n].id]
  <1>2. /\ f \in [1 .. Len(index[c]) -> IdsOf(Collection)]
        /\ \A i, j \in 1 .. Len(index[c]) : f[i] = f[j] => i = j
    BY <1>1 DEF IndexInv, IndexOK, IdsOf
  <1>3. Cardinality(1 .. Len(index[c])) = Len(index[c])
    BY <1>1, FS_Interval
  <1> HIDE DEF f
  <1> QED
    BY <1>1, <1>2, <1>3, InjectionCounts

(* WindowHolds: what is among the W best of the collection is among the W  *)
(* first hits of a cluster, if the cluster orders hits as the gateway does.*)
LEMMA WindowHolds ==
    ASSUME IndexInv, OrderedTies, NEW W \in Nat,
           NEW h \in Best(Collection), Place(h, Best(Collection)) <= W
    PROVE  \E c \in targets : \E p \in 1 .. Len(index[c]) : p <= W /\ index[c][p] = h
  <1> DEFINE B == Best(Collection)
  <1>1. /\ Collection \in SUBSET Hits /\ B \in SUBSET Hits /\ IsFiniteSet(B)
        /\ B \subseteq Collection
        /\ \A k \in Collection : \E b \in B : b.id = k.id /\ (b = k \/ Before(b, k))
    BY CollectionFinite, BestOfEach
  <1>2. PICK c \in targets : \E p \in 1 .. Len(index[c]) : index[c][p] = h
    BY <1>1, CollectionFinite
  <1> PICK p \in 1 .. Len(index[c]) : index[c][p] = h
    BY <1>2
  <1>3. Len(index[c]) \in Nat /\ \A n \in 1 .. Len(index[c]) : index[c][n] \in Collection
    BY CollectionFinite
  <1>4. ASSUME NEW q \in 1 .. (p - 1)
        PROVE  \E b \in Earlier(h, B) : b.id = index[c][q].id
    <2>1. q \in 1 .. Len(index[c]) /\ q < p
      BY <1>3
    <2>2. IndexOrder(index[c][q], index[c][p])
      BY <2>1, <1>3 DEF IndexInv, IndexOK, Ordered
    <2>3. Before(index[c][q], h)
      BY <1>2, <2>2 DEF IndexOrder, Before
    <2>4. PICK b \in B : b.id = index[c][q].id /\ (b = index[c][q] \/ Before(b, index[c][q]))
      BY <1>1, <1>3, <2>1
    <2>5. Before(b, h)
      BY <1>1, <1>3, <2>1, <2>3, <2>4, BeforeIsOrder
    <2> QED
      BY <2>4, <2>5 DEF Earlier
  <1> DEFINE f == [q \in 1 .. (p - 1) |->
                     CHOOSE b \in Earlier(h, B) : b.id = index[c][q].id]
  <1>5. \A q \in 1 .. (p - 1) : f[q] \in Earlier(h, B) /\ f[q].id = index[c][q].id
    BY <1>4
  <1>6. f \in [1 .. (p - 1) -> Earlier(h, B)]
    BY <1>5
  <1>7. \A q, r \in 1 .. (p - 1) : f[q] = f[r] => q = r
    <2> SUFFICES ASSUME NEW q \in 1 .. (p - 1), NEW r \in 1 .. (p - 1), f[q] = f[r]
                 PROVE  q = r
      OBVIOUS
    <2>1. index[c][q].id = index[c][r].id
      BY <1>5
    <2>2. q \in 1 .. Len(index[c]) /\ r \in 1 .. Len(index[c])
      BY <1>3
    <2> QED
      BY <2>1, <2>2 DEF IndexInv, IndexOK
  <1>8. /\ IsFiniteSet(Earlier(h, B)) /\ Cardinality(Earlier(h, B)) = Place(h, B) - 1
        /\ Place(h, B) \in Nat
    BY <1>1, PlaceGrows, FS_CardinalityType
  <1>9. Cardinality(1 .. (p - 1)) = p - 1
    BY <1>3, FS_Interval
  <1>10. p - 1 <= Place(h, B) - 1
    <2> HIDE DEF f
    <2> QED
      BY <1>6, <1>7, <1>8, <1>9, InjectionCounts
  <1> QED
    BY <1>2, <1>3, <1>8, <1>10

Request == [offset : Nat, limit : Limits, cursor : BOOLEAN]

Part == [hits : Seq(Hits), found : Nat \cup {Nil}, page : Nat \ {0},
         state : {"fetching", "done", "failed"}]

Begins(s, t) == Len(s) <= Len(t) /\ \A n \in 1 .. Len(s) : s[n] = t[n]

\* What has been fetched of a cluster's hits as they were all the while.
PartOK(part, request, s) ==
    /\ Begins(part.hits, s)
    /\ part.state = "fetching" =>
          /\ Len(part.hits) = (part.page - 1) * PageSize(request)
          /\ part.found \in {Nil, Len(s)}
    /\ part.state = "done" =>
          /\ Len(part.hits) = IF Needed(request) < Len(s) THEN Needed(request) ELSE Len(s)
          /\ part.found = Len(s)

(* Sizes: every cluster is asked for as many hits as the page ends at.     *)
LEMMA Sizes ==
    ASSUME NEW request \in Request
    PROVE  /\ Start(request) \in Nat /\ request.limit \in Nat \ {0}
           /\ Window(request) = request.offset + request.limit /\ Window(request) \in Nat
           /\ Needed(request) \in Nat \ {0} /\ PageSize(request) \in Nat \ {0}
           /\ Window(request) <= MaxDeep => Window(request) <= Needed(request)
  <1>1. /\ request.offset \in Nat /\ request.limit \in Nat \ {0}
        /\ MaxDeep \in Nat \ {0} /\ ProviderMax \in Nat \ {0}
    BY SearchAssumption DEF Request
  <1>2. Window(request) = request.offset + request.limit /\ Window(request) \in Nat
    BY <1>1 DEF Window
  <1>3. Needed(request) = IF Window(request) + 1 < MaxDeep THEN Window(request) + 1 ELSE MaxDeep
    BY DEF Needed
  <1>4. PageSize(request) = IF Needed(request) < ProviderMax THEN Needed(request) ELSE ProviderMax
    BY DEF PageSize
  <1> QED
    BY <1>1, <1>2, <1>3, <1>4 DEF Start

(* CutTakes: a cut is the part of a sequence between two places.           *)
LEMMA CutTakes ==
    ASSUME NEW s \in Seq(Hits), NEW a \in Nat \ {0}, NEW b \in Int
    PROVE  LET last == IF b < Len(s) THEN b ELSE Len(s) IN
           /\ Cut(s, a, b) \in Seq(Hits)
           /\ Len(Cut(s, a, b)) = IF a <= last THEN last - a + 1 ELSE 0
           /\ \A n \in 1 .. Len(Cut(s, a, b)) : Cut(s, a, b)[n] = s[a + n - 1]
  <1> DEFINE last == IF b < Len(s) THEN b ELSE Len(s)
  <1>1. Len(s) \in Nat /\ last \in Int /\ last <= Len(s)
    OBVIOUS
  <1>2. \A i \in a .. last : s[i] \in Hits
    BY <1>1, ElementOfSeq
  <1>3. Cut(s, a, b) = SubSeq(s, a, last)
    BY DEF Cut
  <1>4. /\ SubSeq(s, a, last) \in Seq(Hits)
        /\ Len(SubSeq(s, a, last)) = IF a <= last THEN last - a + 1 ELSE 0
        /\ \A i \in 1 .. last - a + 1 : SubSeq(s, a, last)[i] = s[a + i - 1]
    <2> HIDE DEF last
    <2> QED
      BY <1>1, <1>2, SubSeqProperties
  <1>5. \A n \in 1 .. Len(Cut(s, a, b)) : n \in 1 .. last - a + 1
    <2> HIDE DEF last
    <2> QED
      BY <1>1, <1>3, <1>4
  <1> HIDE DEF last
  <1> QED
    BY <1>3, <1>4, <1>5 DEF last

(* CutBegins: a cut from the first place on.                               *)
LEMMA CutBegins ==
    ASSUME NEW s \in Seq(Hits), NEW b \in Nat
    PROVE  /\ Cut(s, 1, b) \in Seq(Hits)
           /\ Len(Cut(s, 1, b)) = IF b < Len(s) THEN b ELSE Len(s)
           /\ \A n \in 1 .. Len(Cut(s, 1, b)) : Cut(s, 1, b)[n] = s[n]
  <1> DEFINE last == IF b < Len(s) THEN b ELSE Len(s)
             cut  == Cut(s, 1, b)
  <1>1. last \in Nat
    OBVIOUS
  <1>2. /\ cut \in Seq(Hits) /\ Len(cut) = IF 1 <= last THEN last - 1 + 1 ELSE 0
        /\ \A n \in 1 .. Len(cut) : cut[n] = s[1 + n - 1]
    BY CutTakes
  <1> HIDE DEF cut, last
  <1>3. Len(cut) = last
    BY <1>1, <1>2
  <1>4. ASSUME NEW n \in 1 .. Len(cut) PROVE cut[n] = s[n]
    <2>1. 1 + n - 1 = n
      BY <1>1, <1>3
    <2> QED
      BY <1>2, <2>1
  <1> QED
    BY <1>2, <1>3, <1>4 DEF cut, last

(* PagesAddUp: the pages before one, and with it.                          *)
LEMMA PagesAddUp ==
    ASSUME NEW p \in Nat \ {0}, NEW size \in Nat \ {0}
    PROVE  /\ (p - 1) * size \in Nat
           /\ (p - 1) * size + 1 \in Nat \ {0}
           /\ (p - 1) * size + 1 + size - 1 \in Nat
           /\ (p + 1 - 1) * size = (p - 1) * size + size
  <1>1. p - 1 \in Nat /\ p + 1 - 1 = p
    OBVIOUS
  <1>2. (p - 1) * size \in Nat
    BY <1>1
  <1>3. p * size = (p - 1) * size + size
    OBVIOUS
  <1> QED
    BY <1>1, <1>2, <1>3

(* FetchedOK: page after page, the hits of a cluster come in its order.    *)
LEMMA FetchedOK ==
    ASSUME IndexInv, NEW c \in targets, NEW part \in Part, NEW request \in Request,
           part.state = "fetching"
    PROVE  /\ Fetched(c, part, request) \in Part
           /\ Fetched(c, part, request).state = "done" => Fetched(c, part, request).found \in Nat
           /\ PartOK(part, request, index[c]) =>
                  PartOK(Fetched(c, part, request), request, index[c])
  <1> DEFINE s     == index[c]
             size  == PageSize(request)
             need  == Needed(request)
             first == (part.page - 1) * size + 1
             page  == Cut(s, first, first + size - 1)
             found == IF part.found = Nil THEN Len(s) ELSE part.found
             hits  == part.hits \o page
             ended == Len(page) < size \/ Len(hits) >= found \/ Len(hits) >= need
             final == Cut(hits, 1, need)
             new   == Fetched(c, part, request)
  <1>1. /\ s \in Seq(Hits) /\ Len(s) \in Nat /\ size \in Nat \ {0} /\ need \in Nat \ {0}
        /\ part.hits \in Seq(Hits) /\ Len(part.hits) \in Nat
        /\ part.found \in Nat \cup {Nil} /\ part.page \in Nat \ {0}
    BY Sizes DEF IndexInv, Part
  <1>2. (part.page - 1) * size \in Nat /\ first \in Nat \ {0} /\ first + size - 1 \in Nat
    BY <1>1, PagesAddUp
  <1>3. found \in Nat
    BY <1>1
  <1>4. /\ page \in Seq(Hits)
        /\ Len(page) = LET last == IF first + size - 1 < Len(s) THEN first + size - 1 ELSE Len(s)
                       IN  IF first <= last THEN last - first + 1 ELSE 0
        /\ \A n \in 1 .. Len(page) : page[n] = s[first + n - 1]
    <2> HIDE DEF s, first, size
    <2> QED
      BY <1>1, <1>2, CutTakes
  <1>5. /\ hits \in Seq(Hits) /\ Len(hits) = Len(part.hits) + Len(page)
        /\ \A n \in 1 .. Len(hits) :
              hits[n] = IF n <= Len(part.hits) THEN part.hits[n] ELSE page[n - Len(part.hits)]
    <2> DEFINE old == part.hits
    <2>1. old \in Seq(Hits) /\ page \in Seq(Hits) /\ Len(old) \in Nat /\ Len(page) \in Nat
      <3> HIDE DEF page
      <3> QED
        BY <1>1, <1>4
    <2> HIDE DEF page, old
    <2>2. /\ old \o page \in Seq(Hits) /\ Len(old \o page) = Len(old) + Len(page)
          /\ \A n \in 1 .. Len(old) + Len(page) :
                (old \o page)[n] = IF n <= Len(old) THEN old[n] ELSE page[n - Len(old)]
      BY <2>1, ConcatProperties
    <2> QED
      BY <2>2 DEF old
  <1>6. /\ final \in Seq(Hits)
        /\ Len(final) = IF need < Len(hits) THEN need ELSE Len(hits)
        /\ \A n \in 1 .. Len(final) : final[n] = hits[n]
    <2> HIDE DEF hits, need
    <2> QED
      BY <1>1, <1>5, CutBegins
  <1>7. new = [hits  |-> IF ended THEN final ELSE hits, found |-> found, page |-> part.page + 1,
               state |-> IF ended THEN "done" ELSE "fetching"]
    BY DEF Fetched
  <1> HIDE DEF s, size, need, first, page, found, hits, ended, final, new
  <1>8. /\ new.hits = IF ended THEN final ELSE hits
        /\ new.found = found /\ new.page = part.page + 1
        /\ new.state = IF ended THEN "done" ELSE "fetching"
    BY <1>7
  <1>9. new \in Part
    <2>1. part.page + 1 \in Nat \ {0}
      BY <1>1
    <2> QED
      BY <1>3, <1>5, <1>6, <1>7, <2>1 DEF Part
  <1>10. ASSUME PartOK(part, request, s) PROVE PartOK(new, request, s)
    <2>1. /\ Len(part.hits) <= Len(s) /\ \A n \in 1 .. Len(part.hits) : part.hits[n] = s[n]
          /\ Len(part.hits) = first - 1 /\ found = Len(s)
      <3>1. /\ Begins(part.hits, s) /\ Len(part.hits) = (part.page - 1) * size
            /\ part.found \in {Nil, Len(s)}
        BY <1>10 DEF PartOK, size
      <3>2. first - 1 = (part.page - 1) * size
        BY <1>2 DEF first
      <3> QED
        BY <3>1, <3>2 DEF Begins, found
    <2>2. /\ Len(page) \in Nat /\ Len(hits) = first - 1 + Len(page)
          /\ Len(page) = IF first - 1 + size <= Len(s) THEN size ELSE Len(s) - (first - 1)
      <3> DEFINE l == Len(s)
                 m == Len(page)
      <3>1. m \in Nat /\ Len(hits) = first - 1 + m
        BY <1>4, <1>5, <2>1
      <3>2. /\ l \in Nat /\ size \in Nat \ {0} /\ first \in Nat \ {0} /\ first - 1 <= l
            /\ m = LET last == IF first + size - 1 < l THEN first + size - 1 ELSE l
                   IN  IF first <= last THEN last - first + 1 ELSE 0
        BY <1>1, <1>2, <1>4, <2>1
      <3> HIDE DEF l, m
      <3>3. m = IF first - 1 + size <= l THEN size ELSE l - (first - 1)
        BY <3>2
      <3> QED
        BY <3>1, <3>3 DEF l, m
    <2>3. Begins(hits, s)
      <3>1. Len(hits) <= Len(s)
        BY <1>1, <1>2, <2>1, <2>2
      <3>2. ASSUME NEW n \in 1 .. Len(hits) PROVE hits[n] = s[n]
        <4>1. CASE n <= Len(part.hits)
          BY <1>1, <1>5, <2>1, <4>1
        <4>2. CASE n > Len(part.hits)
          <5>1. n - Len(part.hits) \in 1 .. Len(page) /\ first + (n - Len(part.hits)) - 1 = n
            BY <1>1, <1>2, <2>1, <2>2, <4>2
          <5>2. hits[n] = page[n - Len(part.hits)]
            BY <1>1, <1>5, <4>2
          <5> QED
            BY <1>4, <5>1, <5>2
        <4> QED
          BY <1>1, <2>2, <4>1, <4>2
      <3> QED
        BY <3>1, <3>2 DEF Begins
    <2>4. CASE ~ended
      <3>1. Len(page) = size
        <4>1. ~ (Len(page) < size)
          BY <2>4 DEF ended
        <4> QED
          BY <1>1, <1>2, <2>2, <4>1
      <3>2. Len(hits) = (part.page + 1 - 1) * size
        <4> DEFINE read == (part.page - 1) * size
        <4>1. (part.page + 1 - 1) * size = read + size
          BY <1>1, PagesAddUp
        <4>2. read \in Nat /\ first = read + 1
          BY <1>2 DEF first
        <4> HIDE DEF read
        <4>3. Len(hits) = read + size
          BY <1>1, <2>2, <3>1, <4>2
        <4> QED
          BY <4>1, <4>3
      <3>3. /\ new.state = "fetching" /\ Begins(new.hits, s) /\ new.found \in {Nil, Len(s)}
            /\ Len(new.hits) = (new.page - 1) * PageSize(request)
        <4>1. /\ new.state = "fetching" /\ new.hits = hits /\ new.found = Len(s)
              /\ new.page = part.page + 1
          BY <1>8, <2>1, <2>4
        <4>2. Len(new.hits) = (new.page - 1) * size
          <5>1. new.page - 1 = part.page + 1 - 1
            BY <1>1, <4>1
          <5> QED
            BY <3>2, <4>1, <5>1
        <4> QED
          BY <2>3, <4>1, <4>2 DEF size
      <3> QED
        BY <3>3 DEF PartOK
    <2>5. CASE ended
      <3>1. Len(hits) <= Len(s) /\ Len(hits) \in Nat
        BY <1>2, <2>2, <2>3 DEF Begins
      <3>2. Len(final) = IF need < Len(s) THEN need ELSE Len(s)
        <4>1. CASE Len(page) < size
          BY <1>1, <1>2, <1>6, <2>2, <4>1
        <4>2. CASE Len(hits) >= found \/ Len(hits) >= need
          BY <1>1, <1>6, <2>1, <3>1, <4>2
        <4> QED
          BY <2>5, <4>1, <4>2 DEF ended
      <3>3. Begins(final, s)
        BY <1>1, <1>6, <2>3, <3>1 DEF Begins
      <3> QED
        BY <1>8, <2>1, <2>5, <3>2, <3>3 DEF PartOK, need
    <2> QED
      BY <2>4, <2>5
  <1> QED
    BY <1>3, <1>8, <1>9, <1>10 DEF new, s

-----------------------------------------------------------------------------
(* One search *)

CallInv ==
    call # Nil =>
        /\ call \in [request : Request, parts : [targets -> Part], still : BOOLEAN]
        /\ Window(call.request) <= MaxDeep
        /\ \A c \in targets : call.parts[c].state = "done" => call.parts[c].found \in Nat
        /\ call.still => \A c \in targets : PartOK(call.parts[c], call.request, index[c])

Answers == [request : Request, status : {"ok", "refused", "unavailable"}, hits : Seq(Hits),
            more : BOOLEAN, found : Nat,
            relation : {"none", "exact", "upper_bound", "window_lower_bound"},
            partial : BOOLEAN, still : BOOLEAN]

\* The page is the one of the collection C, hit by hit.
PageExact(a, C) ==
    Whole(a) =>
        /\ \A k \in DOMAIN a.hits :
              a.hits[k] \in Best(C) /\ Place(a.hits[k], Best(C)) = a.request.offset + k
        /\ a.request.offset + Len(a.hits) < Cardinality(IdsOf(C)) =>
              Len(a.hits) = a.request.limit

\* The counts mean what they claim of the collection C.
CountsExact(a, C) ==
    Whole(a) =>
        /\ a.more = (Window(a.request) < Cardinality(IdsOf(C)))
        /\ a.relation = "exact" => a.found = Cardinality(IdsOf(C))
        /\ a.relation = "upper_bound" => a.found >= Cardinality(IdsOf(C))
        /\ a.relation = "window_lower_bound" => a.found <= Cardinality(IdsOf(C))

(* FiniteUnion: finitely many finite sets have a finite union.             *)
LEMMA FiniteUnion ==
    ASSUME NEW T, IsFiniteSet(T), NEW R, \A c \in T : IsFiniteSet(R[c])
    PROVE  IsFiniteSet(UNION {R[c] : c \in T})
  <1> DEFINE f == [c \in T |-> R[c]]
             U == {R[c] : c \in T}
  <1>1. f \in [T -> U] /\ \A u \in U : \E c \in T : f[c] = u
    OBVIOUS
  <1>2. \A u \in U : IsFiniteSet(u)
    OBVIOUS
  <1> HIDE DEF f, U
  <1>3. IsFiniteSet(U)
    BY <1>1, SurjectionCounts
  <1>4. IsFiniteSet(UNION U)
    BY <1>2, <1>3, FS_UNION
  <1> QED
    BY <1>4 DEF U

Pairs(c, n) == {c} \X (1 .. n)

(* PairsFinite: a cluster's hits, counted on their own.                    *)
LEMMA PairsFinite ==
    ASSUME NEW c, NEW n \in Nat
    PROVE  /\ IsFiniteSet(Pairs(c, n)) /\ Cardinality(Pairs(c, n)) = n
           /\ \A p : p \in Pairs(c, n) <=> \E i \in 1 .. n : p = <<c, i>>
  <1>1. IsFiniteSet({c}) /\ Cardinality({c}) = 1
    BY FS_Singleton
  <1>2. IsFiniteSet(1 .. n) /\ Cardinality(1 .. n) = n
    BY FS_Interval
  <1>3. /\ IsFiniteSet(Pairs(c, n))
        /\ Cardinality(Pairs(c, n)) = Cardinality({c}) * Cardinality(1 .. n)
    <2> DEFINE A == {c}
               B == 1 .. n
    <2>1. IsFiniteSet(A) /\ IsFiniteSet(B)
      BY <1>1, <1>2
    <2> HIDE DEF A, B
    <2>2. IsFiniteSet(A \X B) /\ Cardinality(A \X B) = Cardinality(A) * Cardinality(B)
      BY <2>1, FS_Product
    <2> QED
      BY <2>2 DEF A, B, Pairs
  <1>4. Cardinality(Pairs(c, n)) = n
    BY <1>1, <1>2, <1>3
  <1>5. \A p : p \in Pairs(c, n) <=> \E i \in 1 .. n : p = <<c, i>>
    BY DEF Pairs
  <1> QED
    BY <1>3, <1>4, <1>5

(* ReceivedTyped: what has been received of any clusters.                  *)
LEMMA ReceivedTyped ==
    ASSUME IndexInv, CallInv, call # Nil
    PROVE  /\ Received \in SUBSET Hits /\ IsFiniteSet(Received)
           /\ \A h : h \in Received <=> \E c \in Responded : h \in Range(call.parts[c].hits)
           /\ NumFound = Cardinality(UNION {Pairs(c, call.parts[c].found) : c \in Responded})
           /\ NumReceived = Cardinality(UNION {Pairs(c, Len(call.parts[c].hits)) : c \in Responded})
           /\ IsFiniteSet(UNION {Pairs(c, call.parts[c].found) : c \in Responded})
  <1>1. /\ IsFiniteSet(Responded) /\ Responded \subseteq targets
        /\ \A c \in Responded : call.parts[c] \in Part /\ call.parts[c].found \in Nat
    BY CollectionFinite, FS_Subset DEF CallInv, Responded
  <1>2. ASSUME NEW c \in Responded
        PROVE  /\ call.parts[c].hits \in Seq(Hits)
               /\ Range(call.parts[c].hits) \subseteq Hits
               /\ IsFiniteSet(Range(call.parts[c].hits))
    <2>1. call.parts[c].hits \in Seq(Hits)
      BY <1>1 DEF Part
    <2> QED
      BY <2>1, RangeOfHits
  <1>3. \A h : h \in Received <=> \E c \in Responded : h \in Range(call.parts[c].hits)
    BY DEF Received
  <1>4. IsFiniteSet(Received)
    <2> DEFINE R == [c \in Responded |-> Range(call.parts[c].hits)]
    <2>1. \A c \in Responded : IsFiniteSet(R[c])
      BY <1>2
    <2>2. {R[c] : c \in Responded} = {Range(call.parts[c].hits) : c \in Responded}
      OBVIOUS
    <2>3. IsFiniteSet(UNION {R[c] : c \in Responded})
      <3> HIDE DEF R
      <3> QED
        BY <1>1, <2>1, FiniteUnion
    <2> QED
      BY <2>2, <2>3 DEF Received
  <1>5. IsFiniteSet(UNION {Pairs(c, call.parts[c].found) : c \in Responded})
    <2> DEFINE R == [c \in Responded |-> Pairs(c, call.parts[c].found)]
    <2>1. \A c \in Responded : IsFiniteSet(R[c])
      BY <1>1, PairsFinite
    <2>2. {R[c] : c \in Responded} = {Pairs(c, call.parts[c].found) : c \in Responded}
      OBVIOUS
    <2>3. IsFiniteSet(UNION {R[c] : c \in Responded})
      <3> HIDE DEF R
      <3> QED
        BY <1>1, <2>1, FiniteUnion
    <2> QED
      BY <2>2, <2>3
  <1>6. NumFound = Cardinality(UNION {Pairs(c, call.parts[c].found) : c \in Responded})
    BY DEF NumFound, Pairs
  <1>7. NumReceived = Cardinality(UNION {Pairs(c, Len(call.parts[c].hits)) : c \in Responded})
    <2>1. \A c \in Responded : DOMAIN call.parts[c].hits = 1 .. Len(call.parts[c].hits)
      BY <1>2
    <2>2. {{c} \X DOMAIN call.parts[c].hits : c \in Responded}
              = {Pairs(c, Len(call.parts[c].hits)) : c \in Responded}
      BY <2>1 DEF Pairs
    <2> QED
      BY <2>2 DEF NumReceived
  <1>8. Received \subseteq Hits
    BY <1>2, <1>3
  <1> QED
    BY <1>3, <1>4, <1>5, <1>6, <1>7, <1>8

(* ResponseTyped: no page is longer than the client asked for.             *)
LEMMA ResponseTyped ==
    ASSUME IndexInv, CallInv, call # Nil
    PROVE  /\ Response \in Answers /\ Response.status = "ok"
           /\ Response.request = call.request /\ Len(Response.hits) <= call.request.limit
  <1> DEFINE merged == Merged(Received)
             hits   == Cut(merged, Start(call.request) + 1, Window(call.request))
  <1>1. call.request \in Request /\ call.still \in BOOLEAN
    BY DEF CallInv
  <1>2. merged \in Seq(Hits) /\ Len(merged) \in Nat
    BY ReceivedTyped, MergedSorts
  <1>3. /\ Start(call.request) = call.request.offset
        /\ Start(call.request) + 1 \in Nat \ {0} /\ Window(call.request) \in Nat
        /\ call.request.limit \in Nat \ {0}
        /\ Window(call.request) = call.request.offset + call.request.limit
    BY <1>1, Sizes DEF Start
  <1>4. LET last == IF Window(call.request) < Len(merged) THEN Window(call.request) ELSE Len(merged)
            from == Start(call.request) + 1
        IN  hits \in Seq(Hits) /\ Len(hits) = IF from <= last THEN last - from + 1 ELSE 0
    <2> HIDE DEF merged
    <2> QED
      BY <1>2, <1>3, CutTakes
  <1>5. Len(hits) <= call.request.limit
    <2> DEFINE o == call.request.offset
               l == call.request.limit
               m == Len(merged)
               k == Len(hits)
    <2>1. /\ o \in Nat /\ l \in Nat \ {0} /\ m \in Nat
          /\ k = IF o + 1 <= (IF o + l < m THEN o + l ELSE m)
                 THEN (IF o + l < m THEN o + l ELSE m) - (o + 1) + 1 ELSE 0
      <3> HIDE DEF hits, merged
      <3> QED
        BY <1>1, <1>2, <1>3, <1>4 DEF Request
    <2> HIDE DEF o, l, m, k
    <2>2. k <= l
      BY <2>1
    <2> QED
      BY <2>2 DEF k, l
  <1>6. NumFound \in Nat
    BY ReceivedTyped, FS_CardinalityType
  <1>7. HasMore(merged) \in BOOLEAN
    BY DEF HasMore
  <1>8. Relation \in {"exact", "upper_bound", "window_lower_bound"}
    BY DEF Relation
  <1>9. Response = [request |-> call.request, status |-> "ok", hits |-> hits,
                    more |-> HasMore(merged),
                    found |-> IF Duplicates THEN Len(merged) ELSE NumFound,
                    relation |-> Relation, partial |-> Responded # targets, still |-> call.still]
    BY DEF Response
  <1> HIDE DEF hits, merged
  <1> QED
    BY <1>1, <1>2, <1>4, <1>5, <1>6, <1>7, <1>8, <1>9 DEF Answers

(* WholeWindow: with every cluster's answer, the hits received are the     *)
(* first of every cluster, at least as many as the page ends at.           *)
LEMMA WholeWindow ==
    ASSUME IndexInv, CallInv, call # Nil, call.still, Responded = targets
    PROVE  /\ Received \subseteq Collection
           /\ \A c \in targets :
                 /\ \A n \in 1 .. Len(index[c]) :
                       n <= Needed(call.request) => index[c][n] \in Received
                 /\ call.parts[c].found = Len(index[c])
                 /\ Len(call.parts[c].hits) \in Nat /\ Len(call.parts[c].hits) <= Len(index[c])
                 /\ Len(call.parts[c].hits) < Len(index[c]) =>
                        Needed(call.request) < Len(index[c])
           /\ Window(call.request) <= Needed(call.request)
  <1>1. ASSUME NEW c \in targets
        PROVE  /\ call.parts[c].hits \in Seq(Hits) /\ Len(call.parts[c].hits) \in Nat
               /\ Len(index[c]) \in Nat
               /\ Begins(call.parts[c].hits, index[c]) /\ call.parts[c].found = Len(index[c])
               /\ Len(call.parts[c].hits) = IF Needed(call.request) < Len(index[c])
                                            THEN Needed(call.request) ELSE Len(index[c])
    <2>1. call.parts[c] \in Part /\ PartOK(call.parts[c], call.request, index[c])
      BY DEF CallInv
    <2>2. call.parts[c].state = "done"
      BY DEF Responded
    <2>3. call.parts[c].hits \in Seq(Hits) /\ index[c] \in Seq(Hits)
      BY <2>1 DEF Part, IndexInv
    <2> QED
      BY <2>1, <2>2, <2>3 DEF PartOK
  <1>2. Needed(call.request) \in Nat /\ Window(call.request) <= Needed(call.request)
    <2>1. call.request \in Request /\ Window(call.request) <= MaxDeep
      BY DEF CallInv
    <2> QED
      BY <2>1, Sizes
  <1>3. ASSUME NEW h \in Received PROVE h \in Collection
    <2>1. PICK c \in targets : h \in Range(call.parts[c].hits)
      BY ReceivedTyped
    <2>2. PICK n \in 1 .. Len(call.parts[c].hits) : call.parts[c].hits[n] = h
      BY <1>1, <2>1, RangeOfHits
    <2>3. n \in 1 .. Len(index[c]) /\ index[c][n] = h
      BY <1>1, <2>2 DEF Begins
    <2> QED
      BY <2>3, CollectionFinite
  <1>4. ASSUME NEW c \in targets, NEW n \in 1 .. Len(index[c]), n <= Needed(call.request)
        PROVE  index[c][n] \in Received
    <2>1. n \in 1 .. Len(call.parts[c].hits)
      BY <1>1, <1>2, <1>4
    <2>2. call.parts[c].hits[n] = index[c][n]
      BY <1>1, <2>1 DEF Begins
    <2>3. index[c][n] \in Range(call.parts[c].hits)
      BY <1>1, <2>1, <2>2, RangeOfHits
    <2> QED
      BY <2>3, ReceivedTyped
  <1>5. ASSUME NEW c \in targets
        PROVE  /\ Len(call.parts[c].hits) <= Len(index[c])
               /\ Len(call.parts[c].hits) < Len(index[c]) => Needed(call.request) < Len(index[c])
    BY <1>1, <1>2
  <1> QED
    BY <1>1, <1>2, <1>3, <1>4, <1>5

(* ResponsePage: the page is cut from the order of the whole collection.   *)
LEMMA ResponsePage ==
    ASSUME IndexInv, CallInv, call # Nil, call.still, Responded = targets, OrderedTies
    PROVE  PageExact(Response, Collection)
  <1> DEFINE C      == Collection
             B      == Best(C)
             D      == Best(Received)
             merged == Merged(Received)
             W      == Window(call.request)
             from   == Start(call.request) + 1
             hits   == Cut(merged, from, W)
             o      == call.request.offset
             limit  == call.request.limit
             total  == Cardinality(IdsOf(C))
  <1>1. /\ C \in SUBSET Hits /\ IsFiniteSet(C) /\ Received \in SUBSET C /\ IsFiniteSet(Received)
        /\ Received \in SUBSET Hits
    BY CollectionFinite, ReceivedTyped, WholeWindow
  <1>2. /\ o \in Nat /\ limit \in Nat \ {0} /\ W = o + limit /\ from = o + 1
        /\ W <= Needed(call.request) /\ W \in Nat /\ Needed(call.request) \in Nat
    <2>1. call.request \in Request
      BY DEF CallInv
    <2> QED
      BY <2>1, Sizes, WholeWindow DEF Request, Start
  <1>3. \A h \in B : Place(h, B) <= W => h \in Received
    <2> SUFFICES ASSUME NEW h \in B, Place(h, B) <= W PROVE h \in Received
      OBVIOUS
    <2>1. \E c \in targets : \E p \in 1 .. Len(index[c]) : p <= W /\ index[c][p] = h
      BY <1>2, WindowHolds
    <2>2. PICK c \in targets : \E p \in 1 .. Len(index[c]) : p <= W /\ index[c][p] = h
      BY <2>1
    <2>3. PICK p \in 1 .. Len(index[c]) : p <= W /\ index[c][p] = h
      BY <2>2
    <2>4. Len(index[c]) \in Nat
      BY CollectionFinite
    <2>5. p <= Needed(call.request)
      BY <1>2, <2>3, <2>4
    <2> QED
      BY <2>3, <2>5, WholeWindow
  <1>4. /\ \A h \in D : Place(h, D) <= W => h \in B /\ Place(h, B) = Place(h, D)
        /\ Cardinality(B) <= W => Cardinality(D) = Cardinality(B)
        /\ W <= Cardinality(B) => W <= Cardinality(D)
    <2> HIDE DEF C, W
    <2> QED
      BY <1>1, <1>2, <1>3, WindowOfWhole
  <1>5. /\ merged \in Seq(Hits) /\ Len(merged) = Cardinality(D) /\ Cardinality(D) \in Nat
        /\ \A n \in 1 .. Cardinality(D) : merged[n] \in D /\ Place(merged[n], D) = n
    BY <1>1, MergedSorts
  <1>6. Cardinality(B) = total /\ total \in Nat
    BY <1>1, BestOfEach, FS_CardinalityType
  <1>7. /\ hits \in Seq(Hits)
        /\ LET last == IF W < Len(merged) THEN W ELSE Len(merged)
           IN  Len(hits) = IF from <= last THEN last - from + 1 ELSE 0
        /\ \A n \in 1 .. Len(hits) : hits[n] = merged[from + n - 1]
    <2>1. merged \in Seq(Hits) /\ from \in Nat \ {0} /\ W \in Int
      BY <1>2, <1>5
    <2> HIDE DEF merged, W, from
    <2> QED
      BY <2>1, CutTakes
  <1>8. Response.hits = hits /\ Response.request = call.request
    BY DEF Response
  <1> HIDE DEF C, B, D, merged, W, from, hits, o, limit, total
  <1>9. ASSUME NEW k \in 1 .. Len(hits)
        PROVE  hits[k] \in B /\ Place(hits[k], B) = o + k
    <2>1. /\ Len(hits) \in Nat /\ from + k - 1 = o + k
          /\ o + k \in 1 .. Cardinality(D) /\ o + k <= W
      BY <1>2, <1>5, <1>7
    <2>2. hits[k] = merged[o + k]
      BY <1>7, <2>1
    <2>3. merged[o + k] \in D /\ Place(merged[o + k], D) = o + k
      BY <1>5, <2>1
    <2> QED
      BY <1>4, <2>1, <2>2, <2>3
  <1>10. o + Len(hits) < total => Len(hits) = limit
    BY <1>2, <1>4, <1>5, <1>6, <1>7
  <1>11. DOMAIN hits = 1 .. Len(hits)
    BY <1>7
  <1> QED
    BY <1>8, <1>9, <1>10, <1>11 DEF PageExact, C, B, o, limit, total

(* ResponseCounts: the counts of the page are those of the collection.     *)
LEMMA ResponseCounts ==
    ASSUME IndexInv, CallInv, call # Nil, call.still, Responded = targets
    PROVE  CountsExact(Response, Collection)
  <1> DEFINE I      == IdsOf(Collection)
             total  == Cardinality(I)
             merged == Merged(Received)
             W      == Window(call.request)
             n(c)   == Len(index[c])
             m(c)   == Len(call.parts[c].hits)
             F      == UNION {Pairs(c, n(c)) : c \in targets}
             R      == UNION {Pairs(c, m(c)) : c \in targets}
  <1>1. /\ Collection \in SUBSET Hits /\ IsFiniteSet(Collection)
        /\ Received \subseteq Collection /\ Received \in SUBSET Hits /\ IsFiniteSet(Received)
    BY CollectionFinite, ReceivedTyped, WholeWindow
  <1>2. IsFiniteSet(I) /\ total \in Nat
    BY <1>1, BestOfEach, FS_CardinalityType
  <1>3. \A c \in targets : /\ n(c) \in Nat /\ m(c) \in Nat /\ m(c) <= n(c)
                           /\ call.parts[c].found = n(c)
                           /\ m(c) < n(c) => W < n(c)
                           /\ n(c) <= total
    <2>1. W \in Nat /\ Needed(call.request) \in Nat
      <3>1. call.request \in Request
        BY DEF CallInv
      <3> QED
        BY <3>1, Sizes
    <2> QED
      BY <2>1, WholeWindow, CollectionFinite, DocumentsOfIndex
  <1>4. /\ NumFound = Cardinality(F) /\ NumReceived = Cardinality(R) /\ IsFiniteSet(F)
    <2>1. {Pairs(c, call.parts[c].found) : c \in targets} = {Pairs(c, n(c)) : c \in targets}
      BY <1>3
    <2> QED
      BY <2>1, ReceivedTyped
  <1>5. Len(merged) = Cardinality(IdsOf(Received)) /\ IdsOf(Received) \subseteq I
    <2>1. Len(merged) = Cardinality(Best(Received))
      BY <1>1, MergedSorts
    <2>2. Cardinality(Best(Received)) = Cardinality(IdsOf(Received))
      BY <1>1, BestOfEach
    <2>3. IdsOf(Received) \subseteq I
      BY <1>1 DEF IdsOf
    <2> QED
      BY <2>1, <2>2, <2>3
  <1>6. Len(merged) <= total /\ Len(merged) \in Nat
    BY <1>2, <1>5, FS_Subset, FS_CardinalityType
  <1>7. R \subseteq F
    <2> SUFFICES ASSUME NEW c \in targets, NEW p \in Pairs(c, m(c)) PROVE p \in Pairs(c, n(c))
      OBVIOUS
    <2>1. PICK i \in 1 .. m(c) : p = <<c, i>>
      BY <1>3, PairsFinite
    <2>2. i \in 1 .. n(c)
      BY <1>3
    <2> QED
      BY <1>3, <2>1, <2>2, PairsFinite
  <1>8. /\ IsFiniteSet(R) /\ NumFound \in Nat /\ NumReceived \in Nat
        /\ NumReceived <= NumFound /\ (NumReceived = NumFound => R = F)
    <2> HIDE DEF F, R
    <2> QED
      BY <1>4, <1>7, FS_Subset, FS_CardinalityType
  <1>9. ASSUME NumFound > NumReceived PROVE W < total
    <2>1. R # F
      <3> HIDE DEF F, R
      <3> QED
        BY <1>4, <1>8, <1>9
    <2>2. PICK c \in targets : Pairs(c, m(c)) # Pairs(c, n(c))
      BY <2>1
    <2>3. m(c) # n(c)
      BY <2>2
    <2>4. W \in Nat
      <3>1. call.request \in Request
        BY DEF CallInv
      <3> QED
        BY <3>1, Sizes
    <2> HIDE DEF n, m, W, total
    <2> QED
      BY <1>2, <1>3, <2>3, <2>4
  <1>10. ASSUME ~(NumFound > NumReceived) PROVE Len(merged) = total
    <2>1. R = F
      <3> HIDE DEF F, R
      <3> QED
        BY <1>8, <1>10
    <2>2. ASSUME NEW c \in targets PROVE m(c) = n(c)
      <3> SUFFICES ASSUME m(c) < n(c) PROVE FALSE
        BY <1>3
      <3>1. <<c, n(c)>> \in F
        BY <1>3, PairsFinite
      <3>2. PICK d \in targets : <<c, n(c)>> \in Pairs(d, m(d))
        BY <2>1, <3>1
      <3>3. PICK i \in 1 .. m(d) : <<c, n(c)>> = <<d, i>>
        BY <1>3, <3>2, PairsFinite
      <3>4. d = c /\ n(c) \in 1 .. m(c)
        BY <3>3
      <3> HIDE DEF n, m
      <3> QED
        BY <1>3, <3>4
    <2>3. ASSUME NEW h \in Collection PROVE h \in Received
      <3>1. PICK c \in targets : \E k \in 1 .. Len(index[c]) : index[c][k] = h
        BY CollectionFinite
      <3>2. PICK k \in 1 .. Len(index[c]) : index[c][k] = h
        BY <3>1
      <3>3. /\ call.parts[c].hits \in Seq(Hits) /\ Begins(call.parts[c].hits, index[c])
            /\ Len(call.parts[c].hits) = Len(index[c])
        BY <2>2 DEF CallInv, PartOK, Part
      <3>4. h \in Range(call.parts[c].hits)
        BY <3>2, <3>3, RangeOfHits DEF Begins
      <3> QED
        BY <3>4, ReceivedTyped
    <2>4. Received = Collection
      BY <1>1, <2>3
    <2> QED
      BY <1>5, <2>4
  <1>11. /\ total <= NumFound
         /\ Cardinality(targets) = 1 => NumFound = total
    <2> DEFINE f == [p \in F |-> index[p[1]][p[2]].id]
    <2>1. \A p \in F : \E c \in targets : \E k \in 1 .. n(c) : p = <<c, k>>
      BY <1>3, PairsFinite
    <2>2. f \in [F -> I]
      <3> SUFFICES ASSUME NEW p \in F PROVE index[p[1]][p[2]].id \in I
        OBVIOUS
      <3>1. PICK c \in targets : \E k \in 1 .. n(c) : p = <<c, k>>
        BY <2>1
      <3>2. PICK k \in 1 .. n(c) : p = <<c, k>>
        BY <3>1
      <3>3. index[c][k] \in Collection
        BY CollectionFinite
      <3> QED
        BY <3>2, <3>3 DEF IdsOf
    <2>3. \A i \in I : \E p \in F : f[p] = i
      <3> SUFFICES ASSUME NEW i \in I PROVE \E p \in F : index[p[1]][p[2]].id = i
        OBVIOUS
      <3>1. PICK h \in Collection : h.id = i
        BY DEF IdsOf
      <3>2. PICK c \in targets : \E k \in 1 .. n(c) : index[c][k] = h
        BY CollectionFinite
      <3>3. PICK k \in 1 .. n(c) : index[c][k] = h
        BY <3>2
      <3>4. <<c, k>> \in Pairs(c, n(c))
        BY <1>3, PairsFinite
      <3>5. <<c, k>> \in F /\ <<c, k>>[1] = c /\ <<c, k>>[2] = k
        BY <3>4
      <3> QED
        BY <3>1, <3>3, <3>5
    <2>4. total <= Cardinality(F)
      <3> HIDE DEF f, F, I
      <3> QED
        BY <1>4, <2>2, <2>3, SurjectionCounts
    <2>5. ASSUME Cardinality(targets) = 1 PROVE NumFound = total
      <3>1. PICK c : targets = {c}
        BY <2>5, CollectionFinite, FS_Singleton
      <3>2. F = Pairs(c, n(c))
        <4>1. {Pairs(d, n(d)) : d \in targets} = {Pairs(c, n(c))}
          BY <3>1
        <4> QED
          BY <4>1
      <3>3. Cardinality(F) = n(c)
        <4>1. n(c) \in Nat
          BY <1>3, <3>1
        <4>2. Cardinality(Pairs(c, n(c))) = n(c)
          <5> HIDE DEF n
          <5> QED
            BY <4>1, PairsFinite
        <4> HIDE DEF F, n
        <4> QED
          BY <3>2, <4>2
      <3>4. n(c) <= total
        BY <1>3, <3>1
      <3> HIDE DEF F, n, total
      <3> QED
        BY <1>2, <1>3, <1>4, <1>8, <2>4, <3>1, <3>3, <3>4
    <2> QED
      BY <1>4, <2>4, <2>5
  <1>12. /\ Response.request = call.request /\ Response.more = HasMore(merged)
         /\ Response.found = IF Duplicates THEN Len(merged) ELSE NumFound
         /\ Response.relation = Relation
    BY DEF Response
  <1>13. HasMore(merged) = (W < total)
    <2>1. HasMore(merged) <=> W < Len(merged) \/ NumFound > NumReceived
      BY DEF HasMore
    <2>2. W \in Nat
      <3>1. call.request \in Request
        BY DEF CallInv
      <3> QED
        BY <3>1, Sizes
    <2> HIDE DEF W, merged, total
    <2>3. HasMore(merged) <=> W < total
      BY <1>2, <1>6, <1>9, <1>10, <2>1, <2>2
    <2> QED
      BY <2>1, <2>3 DEF HasMore
  <1>14. /\ Relation = "exact" => ~Duplicates /\ Cardinality(targets) = 1
         /\ Relation = "upper_bound" => ~Duplicates
         /\ Relation = "window_lower_bound" => Duplicates
    BY DEF Relation
  <1> HIDE DEF I, total, merged, W, F, R, n, m
  <1> QED
    BY <1>2, <1>6, <1>8, <1>11, <1>12, <1>13, <1>14 DEF CountsExact, I, total, W

-----------------------------------------------------------------------------
(* The inductive invariant *)

\* Where reading goes on after an answer.
Ends(a) == a.request.offset + (IF a.status = "ok" THEN a.request.limit ELSE 0)

\* A request goes on where the first n answers ended, and they left no gap.
Follows(request, as, n) ==
    /\ \A i \in 1 .. n : Ends(as[i]) <= request.offset
    /\ \A r \in 1 .. request.offset : \E i \in 1 .. n :
          as[i].status = "ok" /\ as[i].request.offset < r /\ r <= Ends(as[i])

AnswersInv ==
    /\ answers \in Seq(Answers)
    /\ \A i \in 1 .. Len(answers) :
          /\ answers[i].status # "ok" => answers[i].hits = <<>>
          /\ Len(answers[i].hits) <= answers[i].request.limit
          /\ CountsExact(answers[i], Collection)
          /\ OrderedTies => PageExact(answers[i], Collection)
          /\ Follows(answers[i].request, answers, i - 1)

SessionInv == call # Nil => Follows(call.request, answers, Len(answers))

\* The clusters that held the document all the while are still to be asked,
\* unless one has failed.
LookupInv ==
    lookup # Nil =>
        /\ lookup \in [id : Ids, left : SUBSET targets, failed : BOOLEAN,
                       result : {Nil, "found", "missing", "unavailable"}, kept : SUBSET targets]
        /\ \A c \in lookup.kept : lookup.id \in Held(c)
        /\ lookup.result = Nil /\ ~lookup.failed => lookup.kept \subseteq lookup.left
        /\ lookup.result = "missing" => lookup.kept = {}

SearchInv == IndexInv /\ CallInv /\ AnswersInv /\ SessionInv /\ LookupInv

(* SearchInvInit: any content of the clusters, and nothing asked yet.      *)
LEMMA SearchInvInit == Init => SearchInv
  <1> SUFFICES ASSUME Init PROVE SearchInv
    OBVIOUS
  <1>1. ASSUME NEW c \in targets PROVE IndexOK(index[c])
    <2>1. index[c] \in Contents
      BY DEF Init
    <2>2. PICK s \in Scorings : index[c] \in Rankings({[id |-> i, score |-> s[i]] : i \in DOMAIN s})
      BY <2>1 DEF Contents
    <2> DEFINE S == {[id |-> i, score |-> s[i]] : i \in DOMAIN s}
    <2>3. PICK ids \in SUBSET Ids : IsFiniteSet(ids) /\ s \in [ids -> Scores]
      BY <2>2 DEF Scorings
    <2>4. DOMAIN s = ids /\ \A i \in ids : i \in Ids /\ s[i] \in Scores
      BY <2>3
    <2>5. S \subseteq Hits /\ \A g, h \in S : g.id = h.id => g = h
      BY <2>4 DEF Hits
    <2>6. IsFiniteSet(S)
      <3> DEFINE f == [i \in ids |-> [id |-> i, score |-> s[i]]]
      <3>1. f \in [ids -> S] /\ \A h \in S : \E i \in ids : f[i] = h
        BY <2>4
      <3> HIDE DEF f, S
      <3> QED
        BY <2>3, <3>1, SurjectionCounts
    <2> HIDE DEF S
    <2> QED
      BY <2>2, <2>5, <2>6, RankingOK DEF S
  <1>2. IndexInv
    <2>1. \A c \in targets : index[c] \in Seq(Hits)
      BY <1>1 DEF IndexOK
    <2>2. targets \in SUBSET Clusters /\ targets # {} /\ index = [c \in targets |-> index[c]]
      BY DEF Init
    <2> QED
      BY <1>1, <2>1, <2>2 DEF IndexInv
  <1>3. answers = <<>> /\ answers \in Seq(Answers) /\ Len(answers) = 0
    BY DEF Init
  <1> QED
    BY <1>2, <1>3 DEF Init, SearchInv, CallInv, AnswersInv, SessionInv, LookupInv

(* EndsTyped: an answer ends where its page does.                          *)
LEMMA EndsTyped ==
    ASSUME NEW a \in Answers
    PROVE  /\ a.request \in Request /\ a.request.offset \in Nat /\ a.request.limit \in Nat \ {0}
           /\ Ends(a) \in Nat /\ a.request.offset <= Ends(a)
  <1>1. a.request \in Request
    BY DEF Answers
  <1>2. a.request.offset \in Nat /\ a.request.limit \in Nat \ {0}
    BY <1>1, SearchAssumption DEF Request
  <1> QED
    BY <1>1, <1>2 DEF Ends

(* FollowsSame: only what was asked and how it ended matters.              *)
LEMMA FollowsSame ==
    ASSUME NEW n \in Nat, NEW as, NEW bs, NEW request, Follows(request, as, n),
           \A i \in 1 .. n : bs[i].request = as[i].request /\ bs[i].status = as[i].status
    PROVE  Follows(request, bs, n)
  BY DEF Follows, Ends

(* RequestFollows: the client goes on where the last answer ended.         *)
LEMMA RequestFollows ==
    ASSUME AnswersInv, NEW request \in Requests
    PROVE  request \in Request /\ Follows(request, answers, Len(answers))
  <1>1. CASE answers = <<>>
    <2>1. request.offset = 0 /\ request \in Request /\ Len(answers) = 0
      BY <1>1 DEF Requests, Request
    <2> QED
      BY <2>1 DEF Follows
  <1>2. CASE answers # <<>>
    <2> DEFINE n    == Len(answers)
               last == answers[n]
               o    == last.request.offset
               ok   == last.status = "ok"
    <2>1. /\ n \in Nat \ {0} /\ last \in Answers /\ Follows(last.request, answers, n - 1)
      BY <1>2 DEF AnswersInv
    <2>2. /\ last.request \in Request /\ o \in Nat /\ last.request.limit \in Nat
      BY <2>1, SearchAssumption DEF Answers, Request
    <2>3. /\ request = [last.request EXCEPT !.offset = IF ok THEN NextOffset(last) ELSE o]
          /\ ok => NextOffset(last) # Nil
      BY <1>2 DEF Requests
    <2>4. ok => NextOffset(last) = o + last.request.limit
      BY <2>3 DEF NextOffset
    <2>5. request.offset = Ends(last) /\ Ends(last) \in Nat /\ o <= Ends(last)
          /\ request \in Request
      BY <2>2, <2>3, <2>4 DEF Ends, Request
    <2> HIDE DEF n, last, o, ok
    <2>6. ASSUME NEW i \in 1 .. n PROVE Ends(answers[i]) <= request.offset
      <3>1. CASE i = n
        BY <2>5, <3>1 DEF last
      <3>2. CASE i # n
        <4>1. i \in 1 .. (n - 1) /\ i \in 1 .. Len(answers) /\ answers[i] \in Answers
          BY <2>1, <3>2 DEF n, AnswersInv
        <4>2. Ends(answers[i]) <= o /\ Ends(answers[i]) \in Nat
          <5>1. Ends(answers[i]) \in Nat
            BY <4>1, EndsTyped
          <5> QED
            BY <2>1, <4>1, <5>1 DEF Follows, o
        <4> QED
          BY <2>2, <2>5, <4>2
      <3> QED
        BY <3>1, <3>2
    <2>7. ASSUME NEW r \in 1 .. request.offset
          PROVE  \E i \in 1 .. n : /\ answers[i].status = "ok"
                                   /\ answers[i].request.offset < r /\ r <= Ends(answers[i])
      <3>1. CASE r <= o
        <4>1. r \in 1 .. o
          BY <2>2, <2>5, <3>1
        <4>2. PICK i \in 1 .. (n - 1) : /\ answers[i].status = "ok"
                                       /\ answers[i].request.offset < r /\ r <= Ends(answers[i])
          BY <2>1, <4>1 DEF Follows, o
        <4> QED
          BY <2>1, <4>2
      <3>2. CASE r > o
        <4>1. r <= Ends(last) /\ last.request.offset < r
          BY <2>2, <2>5, <3>2 DEF o
        <4>2. last.status = "ok"
          BY <2>2, <2>5, <3>2, <4>1 DEF Ends, o
        <4>3. n \in 1 .. n
          BY <2>1
        <4> QED
          BY <4>1, <4>2, <4>3 DEF last
      <3> QED
        BY <2>2, <2>5, <3>1, <3>2
    <2> QED
      BY <2>5, <2>6, <2>7 DEF Follows, n
  <1> QED
    BY <1>1, <1>2

(* AnswersGrow: an answer is right of the collection it was read from.     *)
LEMMA AnswersGrow ==
    ASSUME AnswersInv, UNCHANGED <<targets, index>>, NEW a \in Answers,
           answers' = Append(answers, a), a.status # "ok" => a.hits = <<>>,
           Len(a.hits) <= a.request.limit, CountsExact(a, Collection),
           OrderedTies => PageExact(a, Collection),
           Follows(a.request, answers, Len(answers))
    PROVE  AnswersInv'
  <1>1. Collection' = Collection
    BY DEF Collection
  <1>2. /\ answers \in Seq(Answers) /\ Len(answers) \in Nat /\ answers' \in Seq(Answers)
        /\ Len(answers') = Len(answers) + 1 /\ answers'[Len(answers) + 1] = a
        /\ \A i \in 1 .. Len(answers) : answers'[i] = answers[i]
    BY AppendProperties DEF AnswersInv
  <1>3. ASSUME NEW i \in 1 .. Len(answers')
        PROVE  /\ answers'[i].status # "ok" => answers'[i].hits = <<>>
               /\ Len(answers'[i].hits) <= answers'[i].request.limit
               /\ CountsExact(answers'[i], Collection')
               /\ OrderedTies => PageExact(answers'[i], Collection')
               /\ Follows(answers'[i].request, answers', i - 1)
    <2>1. CASE i = Len(answers) + 1
      <3>1. i - 1 = Len(answers) /\ answers'[i] = a
        BY <1>2, <2>1
      <3>2. Follows(a.request, answers', Len(answers))
        BY <1>2, FollowsSame
      <3> QED
        BY <1>1, <3>1, <3>2
    <2>2. CASE i \in 1 .. Len(answers)
      <3>1. /\ answers'[i] = answers[i] /\ i - 1 \in Nat
            /\ \A j \in 1 .. (i - 1) : answers'[j] = answers[j]
        BY <1>2, <2>2
      <3>2. Follows(answers[i].request, answers, i - 1)
        BY <2>2 DEF AnswersInv
      <3>3. Follows(answers[i].request, answers', i - 1)
        BY <3>1, <3>2, FollowsSame
      <3> QED
        BY <1>1, <2>2, <3>1, <3>3 DEF AnswersInv
    <2> QED
      BY <1>2, <2>1, <2>2
  <1> QED
    BY <1>2, <1>3 DEF AnswersInv


-----------------------------------------------------------------------------
(* Every step keeps the invariant *)

(* SearchKeeps: a call begins where the last answer ended, or is refused.  *)
LEMMA SearchKeeps == ASSUME SearchInv, Search PROVE SearchInv'
  <1>1. PICK request \in Requests :
          IF Window(request) > MaxDeep
          THEN /\ answers' = Append(answers, Empty(request, "refused"))
               /\ UNCHANGED call
          ELSE /\ call' = [request |-> request, parts |-> [c \in targets |-> NoPart],
                           still |-> TRUE]
               /\ UNCHANGED answers
    BY DEF Search
  <1>2. request \in Request /\ Follows(request, answers, Len(answers))
    BY RequestFollows DEF SearchInv
  <1>3. UNCHANGED <<targets, index, lookup>> /\ call = Nil /\ lookup = Nil
    BY DEF Search
  <1>4. IndexInv' /\ LookupInv'
    BY <1>3 DEF SearchInv, IndexInv, LookupInv
  <1>5. /\ Window(request) \in Nat /\ request.limit \in Nat \ {0} /\ PageSize(request) \in Nat
        /\ MaxDeep \in Nat
    BY <1>2, Sizes, SearchAssumption
  <1>6. CASE Window(request) > MaxDeep
    <2> DEFINE a == Empty(request, "refused")
    <2>1. /\ a \in Answers /\ a.status # "ok" /\ a.hits = <<>> /\ a.request = request
          /\ Len(a.hits) <= a.request.limit
      BY <1>2, <1>5 DEF Empty, Answers
    <2>2. answers' = Append(answers, a) /\ call' = Nil
      BY <1>1, <1>3, <1>6
    <2>3. CountsExact(a, Collection) /\ PageExact(a, Collection)
      BY <2>1 DEF CountsExact, PageExact, Whole
    <2> HIDE DEF a
    <2>4. AnswersInv'
      BY <1>2, <1>3, <2>1, <2>2, <2>3, AnswersGrow DEF SearchInv
    <2> QED
      BY <1>4, <2>2, <2>4 DEF SearchInv, CallInv, SessionInv
  <1>7. CASE ~(Window(request) > MaxDeep)
    <2>1. /\ call' = [request |-> request, parts |-> [c \in targets |-> NoPart], still |-> TRUE]
          /\ answers' = answers
      BY <1>1, <1>7
    <2>2. NoPart \in Part
      BY DEF NoPart, Part
    <2>3. ASSUME NEW c \in targets PROVE PartOK(NoPart, request, index[c])
      <3>1. index[c] \in Seq(Hits) /\ Len(index[c]) \in Nat
        BY DEF SearchInv, IndexInv
      <3>2. NoPart.hits = <<>> /\ NoPart.state = "fetching" /\ NoPart.page = 1 /\ NoPart.found = Nil
        BY DEF NoPart
      <3>3. (NoPart.page - 1) * PageSize(request) = 0
        BY <1>5, <3>2
      <3> QED
        BY <3>1, <3>2, <3>3 DEF PartOK, Begins
    <2>4. /\ call' \in [request : Request, parts : [targets' -> Part], still : BOOLEAN]
          /\ call'.request = request /\ \A c \in targets : call'.parts[c] = NoPart
      BY <1>2, <1>3, <2>1, <2>2
    <2>5. CallInv'
      <3>1. Window(call'.request) <= MaxDeep
        BY <1>5, <1>7, <2>4
      <3>2. \A c \in targets : call'.parts[c].state # "done"
        BY <2>4 DEF NoPart
      <3>3. \A c \in targets : PartOK(call'.parts[c], call'.request, index[c])
        BY <2>3, <2>4
      <3> QED
        BY <1>3, <2>4, <3>1, <3>2, <3>3 DEF CallInv
    <2>6. AnswersInv'
      BY <1>3, <2>1 DEF SearchInv, AnswersInv, Collection
    <2>7. SessionInv'
      BY <1>2, <2>1, <2>4 DEF SessionInv
    <2> QED
      BY <1>4, <2>5, <2>6, <2>7 DEF SearchInv
  <1> QED
    BY <1>6, <1>7

(* PartKeeps: a cluster's part of the call gets on as the index lets it.   *)
LEMMA PartKeeps ==
    ASSUME SearchInv, call # Nil, NEW c \in targets, NEW part \in Part,
           part.state = "done" => part.found \in Nat,
           call.still => PartOK(part, call.request, index[c]),
           call' = [call EXCEPT !.parts[c] = part],
           UNCHANGED <<targets, index, answers, lookup>>
    PROVE  SearchInv'
  <1>1. /\ call \in [request : Request, parts : [targets -> Part], still : BOOLEAN]
        /\ Window(call.request) <= MaxDeep
        /\ \A d \in targets : call.parts[d].state = "done" => call.parts[d].found \in Nat
        /\ call.still => \A d \in targets : PartOK(call.parts[d], call.request, index[d])
    BY DEF SearchInv, CallInv
  <1>2. /\ call'.request = call.request /\ call'.still = call.still
        /\ call'.parts = [call.parts EXCEPT ![c] = part]
        /\ call' \in [request : Request, parts : [targets -> Part], still : BOOLEAN]
    BY <1>1
  <1>3. \A d \in targets : call'.parts[d] = IF d = c THEN part ELSE call.parts[d]
    BY <1>1, <1>2
  <1>4. CallInv'
    <2>1. \A d \in targets : call'.parts[d].state = "done" => call'.parts[d].found \in Nat
      BY <1>1, <1>3
    <2>2. call'.still => \A d \in targets : PartOK(call'.parts[d], call'.request, index[d])
      BY <1>1, <1>2, <1>3
    <2> QED
      BY <1>1, <1>2, <2>1, <2>2 DEF CallInv
  <1>5. SessionInv'
    BY <1>2 DEF SearchInv, SessionInv
  <1>6. IndexInv' /\ AnswersInv' /\ LookupInv'
    BY DEF SearchInv, IndexInv, AnswersInv, LookupInv, Collection, Held
  <1> QED
    BY <1>4, <1>5, <1>6 DEF SearchInv

(* FetchPageKeeps: a page fetched goes on where the last one ended.        *)
LEMMA FetchPageKeeps == ASSUME SearchInv, NEW c \in targets, FetchPage(c) PROVE SearchInv'
  <1>1. /\ call # Nil /\ call.parts[c].state = "fetching"
        /\ UNCHANGED <<targets, index, answers, lookup>>
        /\ call' = [call EXCEPT !.parts[c] = Fetched(c, call.parts[c], call.request)]
    BY DEF FetchPage
  <1>2. /\ call.parts[c] \in Part /\ call.request \in Request
        /\ call.still => PartOK(call.parts[c], call.request, index[c])
    BY <1>1 DEF SearchInv, CallInv
  <1> DEFINE part == Fetched(c, call.parts[c], call.request)
  <1>3. /\ part \in Part
        /\ part.state = "done" => part.found \in Nat
        /\ PartOK(call.parts[c], call.request, index[c]) =>
              PartOK(part, call.request, index[c])
    BY <1>1, <1>2, FetchedOK DEF SearchInv
  <1>4. call' = [call EXCEPT !.parts[c] = part]
    BY <1>1
  <1> HIDE DEF part
  <1> QED
    BY <1>1, <1>2, <1>3, <1>4, PartKeeps

(* FetchFailsKeeps: a cluster that fails has no part in the answer.        *)
LEMMA FetchFailsKeeps == ASSUME SearchInv, NEW c \in targets, FetchFails(c) PROVE SearchInv'
  <1> DEFINE part == [NoPart EXCEPT !.state = "failed"]
  <1>1. /\ call # Nil /\ UNCHANGED <<targets, index, answers, lookup>>
        /\ call' = [call EXCEPT !.parts[c] = part]
    BY DEF FetchFails
  <1>2. part \in Part /\ part.state = "failed" /\ part.hits = <<>>
    <2>1. part = [hits |-> <<>>, found |-> Nil, page |-> 1, state |-> "failed"]
      BY DEF NoPart
    <2> HIDE DEF part
    <2> QED
      BY <2>1 DEF Part
  <1>3. index[c] \in Seq(Hits) /\ Len(index[c]) \in Nat
    BY DEF SearchInv, IndexInv
  <1>4. PartOK(part, call.request, index[c])
    BY <1>2, <1>3 DEF PartOK, Begins
  <1> HIDE DEF part
  <1> QED
    BY <1>1, <1>2, <1>4, PartKeeps

(* AnswerKeeps: what is answered is the page that was asked for.           *)
LEMMA AnswerKeeps == ASSUME SearchInv, Answer PROVE SearchInv'
  <1> DEFINE a == IF Responded = {} THEN Empty(call.request, "unavailable") ELSE Response
  <1>1. /\ call # Nil /\ call' = Nil /\ answers' = Append(answers, a)
        /\ UNCHANGED <<targets, index, lookup>>
    BY DEF Answer
  <1>2. /\ IndexInv /\ CallInv /\ AnswersInv /\ call.request \in Request
        /\ Follows(call.request, answers, Len(answers))
    BY <1>1 DEF SearchInv, CallInv, SessionInv
  <1>3. /\ a \in Answers /\ a.request = call.request /\ Len(a.hits) <= a.request.limit
        /\ a.status # "ok" => a.hits = <<>>
        /\ CountsExact(a, Collection)
        /\ OrderedTies => PageExact(a, Collection)
    <2>1. CASE Responded = {}
      <3>1. a = Empty(call.request, "unavailable")
        BY <2>1
      <3> HIDE DEF a
      <3>2. call.request.limit \in Nat
        BY <1>2, Sizes
      <3>3. /\ a \in Answers /\ a.status = "unavailable" /\ a.hits = <<>>
            /\ a.request = call.request /\ Len(a.hits) <= a.request.limit
        BY <1>2, <3>1, <3>2 DEF Empty, Answers
      <3> QED
        BY <3>3 DEF CountsExact, PageExact, Whole
    <2>2. CASE Responded # {}
      <3>1. a = Response
        BY <2>2
      <3> HIDE DEF a
      <3>2. /\ a \in Answers /\ a.status = "ok" /\ a.request = call.request
            /\ Len(a.hits) <= a.request.limit
        BY <1>1, <1>2, <3>1, ResponseTyped
      <3>3. Whole(a) => call.still /\ Responded = targets
        BY <3>1 DEF Whole, Response
      <3>4. CASE Whole(a)
        BY <1>1, <1>2, <3>1, <3>2, <3>3, <3>4, ResponsePage, ResponseCounts
      <3>5. CASE ~Whole(a)
        BY <3>2, <3>5 DEF CountsExact, PageExact
      <3> QED
        BY <3>4, <3>5
    <2> QED
      BY <2>1, <2>2
  <1> HIDE DEF a
  <1>4. AnswersInv'
    BY <1>1, <1>2, <1>3, AnswersGrow
  <1>5. IndexInv' /\ LookupInv' /\ CallInv' /\ SessionInv'
    BY <1>1 DEF SearchInv, IndexInv, LookupInv, CallInv, SessionInv, Held
  <1> QED
    BY <1>4, <1>5 DEF SearchInv

(* LookupKeeps: a lookup sets out to ask every cluster.                    *)
LEMMA LookupKeeps == ASSUME SearchInv, NEW id \in Ids, Lookup(id) PROVE SearchInv'
  <1> DEFINE kept == {c \in targets : id \in Held(c)}
  <1>1. /\ lookup' = [id |-> id, left |-> targets, failed |-> FALSE, result |-> Nil,
                      kept |-> kept]
        /\ UNCHANGED <<targets, index, call, answers>>
    BY DEF Lookup
  <1>2. kept \in SUBSET targets /\ \A c \in kept : id \in Held(c)
    OBVIOUS
  <1> HIDE DEF kept
  <1>3. lookup' \in [id : Ids, left : SUBSET targets, failed : BOOLEAN,
                     result : {Nil, "found", "missing", "unavailable"}, kept : SUBSET targets]
    BY <1>1, <1>2
  <1>4. LookupInv'
    BY <1>1, <1>2, <1>3, SearchAssumption DEF LookupInv, Held
  <1>5. IndexInv' /\ CallInv' /\ AnswersInv' /\ SessionInv'
    BY <1>1 DEF SearchInv, IndexInv, CallInv, AnswersInv, SessionInv, Collection
  <1> QED
    BY <1>4, <1>5 DEF SearchInv

(* RetrieveKeeps: the clusters asked in vain are not among those that held *)
(* the document all the while, unless one of them failed.                  *)
LEMMA RetrieveKeeps ==
    ASSUME SearchInv, NEW c \in targets, Retrieve(c) \/ RetrieveFails(c)
    PROVE  SearchInv'
  <1>1. /\ lookup # Nil /\ lookup.result = Nil
        /\ UNCHANGED <<targets, index, call, answers>>
    BY DEF Retrieve, RetrieveFails
  <1>2. /\ lookup \in [id : Ids, left : SUBSET targets, failed : BOOLEAN,
                       result : {Nil, "found", "missing", "unavailable"}, kept : SUBSET targets]
        /\ \A d \in lookup.kept : lookup.id \in Held(d)
        /\ ~lookup.failed => lookup.kept \subseteq lookup.left
    BY <1>1 DEF SearchInv, LookupInv
  <1>3. LookupInv'
    <2> DEFINE left == lookup.left \ {c}
    <2>1. CASE Retrieve(c)
      <3> DEFINE result == IF lookup.id \in Held(c) THEN "found" ELSE Nil
      <3>1. lookup' = [lookup EXCEPT !.left = left, !.result = result]
        BY <2>1 DEF Retrieve
      <3>2. /\ lookup'.id = lookup.id /\ lookup'.failed = lookup.failed
            /\ lookup'.kept = lookup.kept /\ lookup'.left = left /\ lookup'.result = result
            /\ lookup' = [id |-> lookup.id, left |-> left, failed |-> lookup.failed,
                          result |-> result, kept |-> lookup.kept]
        BY <1>2, <3>1
      <3>3. left \in SUBSET targets /\ result \in {Nil, "found"}
        BY <1>2
      <3>4. result = Nil => c \notin lookup.kept
        BY <1>2, SearchAssumption
      <3> HIDE DEF result
      <3>5. ~lookup.failed /\ result = Nil => lookup.kept \subseteq left
        BY <1>2, <3>4
      <3> HIDE DEF left
      <3>6. lookup' \in [id : Ids, left : SUBSET targets, failed : BOOLEAN,
                         result : {Nil, "found", "missing", "unavailable"},
                         kept : SUBSET targets]
        BY <1>2, <3>2, <3>3
      <3>7. result # "missing"
        BY <3>3, SearchAssumption
      <3> QED
        BY <1>1, <1>2, <3>2, <3>5, <3>6, <3>7 DEF LookupInv, Held
    <2>2. CASE RetrieveFails(c)
      <3>1. lookup' = [lookup EXCEPT !.left = left, !.failed = TRUE]
        BY <2>2 DEF RetrieveFails
      <3>2. /\ lookup'.id = lookup.id /\ lookup'.failed = TRUE
            /\ lookup'.kept = lookup.kept /\ lookup'.left = left /\ lookup'.result = Nil
            /\ lookup' = [id |-> lookup.id, left |-> left, failed |-> TRUE,
                          result |-> Nil, kept |-> lookup.kept]
        BY <1>1, <1>2, <3>1
      <3>3. left \in SUBSET targets
        BY <1>2
      <3> HIDE DEF left
      <3>4. lookup' \in [id : Ids, left : SUBSET targets, failed : BOOLEAN,
                         result : {Nil, "found", "missing", "unavailable"},
                         kept : SUBSET targets]
        BY <1>2, <3>2, <3>3
      <3> QED
        BY <1>1, <1>2, <3>2, <3>4, SearchAssumption DEF LookupInv, Held
    <2> QED
      BY <2>1, <2>2
  <1>4. IndexInv' /\ CallInv' /\ AnswersInv' /\ SessionInv'
    BY <1>1 DEF SearchInv, IndexInv, CallInv, AnswersInv, SessionInv, Collection
  <1> QED
    BY <1>3, <1>4 DEF SearchInv

(* NotRetrievedKeeps: with no cluster left and none failed, no cluster can *)
(* have held the document all the while.                                   *)
LEMMA NotRetrievedKeeps == ASSUME SearchInv, NotRetrieved PROVE SearchInv'
  <1> DEFINE result == IF lookup.failed THEN "unavailable" ELSE "missing"
  <1>1. /\ lookup # Nil /\ lookup.result = Nil /\ lookup.left = {}
        /\ lookup' = [lookup EXCEPT !.result = result]
        /\ UNCHANGED <<targets, index, call, answers>>
    BY DEF NotRetrieved
  <1>2. /\ lookup \in [id : Ids, left : SUBSET targets, failed : BOOLEAN,
                       result : {Nil, "found", "missing", "unavailable"}, kept : SUBSET targets]
        /\ \A d \in lookup.kept : lookup.id \in Held(d)
        /\ ~lookup.failed => lookup.kept = {}
    BY <1>1 DEF SearchInv, LookupInv
  <1>3. /\ result \in {Nil, "found", "missing", "unavailable"} /\ result # Nil
        /\ result = "missing" => ~lookup.failed
    BY SearchAssumption
  <1> HIDE DEF result
  <1>4. /\ lookup'.id = lookup.id /\ lookup'.kept = lookup.kept /\ lookup'.result = result
        /\ lookup' \in [id : Ids, left : SUBSET targets, failed : BOOLEAN,
                        result : {Nil, "found", "missing", "unavailable"},
                        kept : SUBSET targets]
    BY <1>1, <1>2, <1>3
  <1>5. LookupInv'
    <2>1. lookup'.result = "missing" => lookup'.kept = {}
      BY <1>2, <1>3, <1>4
    <2> QED
      BY <1>1, <1>2, <1>3, <1>4, <2>1 DEF LookupInv, Held
  <1>6. IndexInv' /\ CallInv' /\ AnswersInv' /\ SessionInv'
    BY <1>1 DEF SearchInv, IndexInv, CallInv, AnswersInv, SessionInv, Collection
  <1> QED
    BY <1>5, <1>6 DEF SearchInv

(* AnswerOfAnotherIndex: only what an answer is held to changes.           *)
LEMMA AnswerOfAnotherIndex ==
    ASSUME NEW a \in Answers, NEW b, b = [a EXCEPT !.still = FALSE]
    PROVE  /\ b \in Answers /\ b.request = a.request /\ b.hits = a.hits
           /\ b.status = a.status /\ b.still = FALSE
  <1>1. /\ b.request = a.request /\ b.status = a.status /\ b.hits = a.hits
        /\ b.still = FALSE
    BY DEF Answers
  <1>2. b = [request |-> a.request, status |-> a.status, hits |-> a.hits, more |-> a.more,
             found |-> a.found, relation |-> a.relation, partial |-> a.partial, still |-> FALSE]
    BY DEF Answers
  <1>3. b \in Answers
    BY <1>2 DEF Answers
  <1> QED
    BY <1>1, <1>3

(* ChangeKeeps: a change of the index under a call or an answer takes away *)
(* what they are held to.                                                  *)
LEMMA ChangeKeeps ==
    ASSUME SearchInv, NEW c \in targets, NEW hits, IndexOK(hits), Change(c, hits)
    PROVE  /\ UNCHANGED targets /\ IndexInv' /\ CallInv' /\ AnswersInv' /\ SessionInv'
           /\ index'[c] = hits /\ \A d \in targets : d # c => index'[d] = index[d]
  <1>1. /\ UNCHANGED targets /\ index' = [index EXCEPT ![c] = hits]
        /\ call' = IF call = Nil THEN Nil ELSE [call EXCEPT !.still = FALSE]
        /\ answers' = [i \in DOMAIN answers |-> [answers[i] EXCEPT !.still = FALSE]]
    BY DEF Change
  <1>2. /\ index' \in [targets -> Seq(Hits)] /\ index'[c] = hits
        /\ \A d \in targets : d # c => index'[d] = index[d]
    BY <1>1 DEF SearchInv, IndexInv, IndexOK
  <1>3. IndexInv'
    <2>1. ASSUME NEW d \in targets PROVE IndexOK(index'[d])
      <3>1. CASE d = c
        BY <1>2, <3>1
      <3>2. CASE d # c
        BY <1>2, <3>2 DEF SearchInv, IndexInv
      <3> QED
        BY <3>1, <3>2
    <2> QED
      BY <1>1, <1>2, <2>1 DEF SearchInv, IndexInv
  <1>4. ASSUME call # Nil
        PROVE  /\ call' \in [request : Request, parts : [targets -> Part], still : BOOLEAN]
               /\ call'.request = call.request /\ call'.parts = call.parts /\ call'.still = FALSE
    <2>1. call \in [request : Request, parts : [targets -> Part], still : BOOLEAN]
      BY <1>4 DEF SearchInv, CallInv
    <2> QED
      BY <1>1, <1>4, <2>1
  <1>5. CallInv'
    BY <1>1, <1>4 DEF SearchInv, CallInv
  <1>6. /\ answers' \in Seq(Answers) /\ Len(answers') = Len(answers) /\ Len(answers) \in Nat
        /\ \A i \in 1 .. Len(answers) :
              /\ answers'[i].request = answers[i].request /\ answers'[i].hits = answers[i].hits
              /\ answers'[i].status = answers[i].status /\ answers'[i].still = FALSE
    <2>1. /\ answers \in Seq(Answers) /\ Len(answers) \in Nat
          /\ DOMAIN answers = 1 .. Len(answers)
          /\ \A i \in 1 .. Len(answers) : answers[i] \in Answers
      BY ElementOfSeq DEF SearchInv, AnswersInv
    <2>2. ASSUME NEW i \in 1 .. Len(answers)
          PROVE  /\ answers'[i] \in Answers
                 /\ answers'[i].request = answers[i].request /\ answers'[i].hits = answers[i].hits
                 /\ answers'[i].status = answers[i].status /\ answers'[i].still = FALSE
      <3>1. answers[i] \in Answers /\ answers'[i] = [answers[i] EXCEPT !.still = FALSE]
        BY <1>1, <2>1
      <3> QED
        BY <3>1, AnswerOfAnotherIndex
    <2>3. answers' \in [1 .. Len(answers) -> Answers]
      BY <1>1, <2>1, <2>2
    <2>4. answers' \in Seq(Answers) /\ Len(answers') = Len(answers)
      BY <2>1, <2>3
    <2> QED
      BY <2>1, <2>2, <2>4
  <1>7. AnswersInv'
    <2>1. ASSUME NEW i \in 1 .. Len(answers')
          PROVE  /\ answers'[i].status # "ok" => answers'[i].hits = <<>>
                 /\ Len(answers'[i].hits) <= answers'[i].request.limit
                 /\ CountsExact(answers'[i], Collection')
                 /\ OrderedTies => PageExact(answers'[i], Collection')
                 /\ Follows(answers'[i].request, answers', i - 1)
      <3>1. i \in 1 .. Len(answers) /\ i - 1 \in Nat /\ 1 .. (i - 1) \subseteq 1 .. Len(answers)
        BY <1>6
      <3>2. /\ answers[i].status # "ok" => answers[i].hits = <<>>
            /\ Len(answers[i].hits) <= answers[i].request.limit
            /\ Follows(answers[i].request, answers, i - 1)
        BY <3>1 DEF SearchInv, AnswersInv
      <3>3. Follows(answers[i].request, answers', i - 1)
        BY <1>6, <3>1, <3>2, FollowsSame
      <3>4. ~Whole(answers'[i])
        BY <1>6, <3>1 DEF Whole
      <3> QED
        BY <1>6, <3>1, <3>2, <3>3, <3>4 DEF CountsExact, PageExact
    <2> QED
      BY <1>6, <2>1 DEF AnswersInv
  <1>8. SessionInv'
    <2>1. CASE call = Nil
      BY <1>1, <2>1 DEF SessionInv
    <2>2. CASE call # Nil
      <3>1. Follows(call.request, answers, Len(answers))
        BY <2>2 DEF SearchInv, SessionInv
      <3>2. Follows(call.request, answers', Len(answers))
        BY <1>6, <3>1, FollowsSame
      <3> QED
        BY <1>4, <1>6, <2>2, <3>2 DEF SessionInv
    <2> QED
      BY <2>1, <2>2
  <1> QED
    BY <1>1, <1>2, <1>3, <1>5, <1>7, <1>8

(* RerankedOK: a cluster that stores or drops a document keeps one copy of *)
(* each.                                                                   *)
LEMMA RerankedOK ==
    ASSUME IndexInv, NEW c \in targets, NEW id, NEW new \in SUBSET Hits, IsFiniteSet(new),
           \A g, h \in new : g.id = id /\ g = h,
           NEW hits \in Reranked(c, Others(c, id), new)
    PROVE  IndexOK(hits) /\ Range(hits) = Others(c, id) \cup new
  <1> DEFINE S == Others(c, id) \cup new
  <1>1. /\ index[c] \in Seq(Hits)
        /\ \A i, j \in 1 .. Len(index[c]) : index[c][i].id = index[c][j].id => i = j
    BY DEF IndexInv, IndexOK
  <1>2. /\ Range(index[c]) \subseteq Hits /\ IsFiniteSet(Range(index[c]))
        /\ \A h \in Range(index[c]) : \E n \in 1 .. Len(index[c]) : index[c][n] = h
    BY <1>1, RangeOfHits
  <1>3. Others(c, id) \in SUBSET Range(index[c]) /\ \A h \in Others(c, id) : h.id # id
    BY DEF Others
  <1>4. S \in SUBSET Hits /\ IsFiniteSet(S)
    BY <1>2, <1>3, FS_Subset, FS_Union
  <1>5. ASSUME NEW g \in S, NEW h \in S, g.id = h.id PROVE g = h
    <2>1. CASE g \in Others(c, id) /\ h \in Others(c, id)
      BY <1>1, <1>2, <1>3, <1>5, <2>1
    <2>2. CASE g \in new \/ h \in new
      BY <1>3, <1>5, <2>2
    <2> QED
      BY <2>1, <2>2
  <1>6. hits \in Rankings(S)
    BY DEF Reranked
  <1> HIDE DEF S
  <1>7. IndexOK(hits) /\ Range(hits) = S
    BY <1>4, <1>5, <1>6, RankingOK
  <1> QED
    BY <1>7 DEF S

(* UpsertKeeps: a document stored takes none away from the lookup.         *)
LEMMA UpsertKeeps ==
    ASSUME SearchInv, NEW c \in targets, NEW h \in Hits, Upsert(c, h) PROVE SearchInv'
  <1>1. PICK hits \in Reranked(c, Others(c, h.id), {h}) : Change(c, hits)
    BY DEF Upsert
  <1>2. IsFiniteSet({h}) /\ {h} \in SUBSET Hits /\ \A g, k \in {h} : g.id = h.id /\ g = k
    BY FS_Singleton
  <1>3. IndexOK(hits) /\ Range(hits) = Others(c, h.id) \cup {h}
    BY <1>2, RerankedOK DEF SearchInv
  <1>4. /\ UNCHANGED targets /\ IndexInv' /\ CallInv' /\ AnswersInv' /\ SessionInv'
        /\ index'[c] = hits /\ \A d \in targets : d # c => index'[d] = index[d]
    BY <1>1, <1>3, ChangeKeeps
  <1>5. UNCHANGED lookup
    BY DEF Upsert
  <1>6. ASSUME NEW d \in targets, NEW id, id \in Held(d) PROVE id \in Held(d)'
    <2>1. CASE d # c
      BY <1>4, <1>6, <2>1 DEF Held
    <2>2. CASE d = c
      <3>1. PICK g \in Range(index[c]) : g.id = id
        BY <1>6, <2>2 DEF Held
      <3>2. CASE g.id = h.id
        BY <1>3, <1>4, <2>2, <3>1, <3>2 DEF Held
      <3>3. CASE g.id # h.id
        <4>1. g \in Range(index'[c])
          BY <1>3, <1>4, <3>1, <3>3 DEF Others
        <4> QED
          BY <2>2, <3>1, <4>1 DEF Held
      <3> QED
        BY <3>2, <3>3
    <2> QED
      BY <2>1, <2>2
  <1>7. LookupInv'
    BY <1>4, <1>5, <1>6 DEF SearchInv, LookupInv
  <1> QED
    BY <1>4, <1>7 DEF SearchInv

(* WithdrawKeeps: a cluster that drops the document looked up did not hold *)
(* it all the while.                                                       *)
LEMMA WithdrawKeeps ==
    ASSUME SearchInv, NEW c \in targets, NEW id \in Ids, Withdraw(c, id) PROVE SearchInv'
  <1>1. PICK hits \in Reranked(c, Others(c, id), {}) : Change(c, hits)
    BY DEF Withdraw
  <1>2. IndexOK(hits) /\ Range(hits) = Others(c, id) \cup {}
    BY FS_EmptySet, RerankedOK DEF SearchInv
  <1>3. /\ UNCHANGED targets /\ IndexInv' /\ CallInv' /\ AnswersInv' /\ SessionInv'
        /\ index'[c] = hits /\ \A d \in targets : d # c => index'[d] = index[d]
    BY <1>1, <1>2, ChangeKeeps
  <1>4. lookup' = IF lookup = Nil \/ lookup.id # id THEN lookup
                  ELSE [lookup EXCEPT !.kept = @ \ {c}]
    BY DEF Withdraw
  <1>5. ASSUME NEW d \in targets, NEW i, i \in Held(d), d # c \/ i # id PROVE i \in Held(d)'
    <2>1. CASE d # c
      BY <1>3, <1>5, <2>1 DEF Held
    <2>2. CASE d = c
      <3>1. PICK g \in Range(index[c]) : g.id = i
        BY <1>5, <2>2 DEF Held
      <3>2. g \in Range(index'[c])
        BY <1>2, <1>3, <1>5, <2>2, <3>1 DEF Others
      <3> QED
        BY <2>2, <3>1, <3>2 DEF Held
    <2> QED
      BY <2>1, <2>2
  <1>6. LookupInv'
    <2>1. CASE lookup = Nil
      BY <1>4, <2>1 DEF LookupInv
    <2>2. CASE lookup # Nil /\ lookup.id # id
      <3>1. lookup' = lookup
        BY <1>4, <2>2
      <3> QED
        BY <1>3, <1>5, <2>2, <3>1 DEF SearchInv, LookupInv
    <2>3. CASE lookup # Nil /\ lookup.id = id
      <3>1. /\ lookup \in [id : Ids, left : SUBSET targets, failed : BOOLEAN,
                           result : {Nil, "found", "missing", "unavailable"},
                           kept : SUBSET targets]
            /\ \A d \in lookup.kept : lookup.id \in Held(d)
            /\ lookup.result = Nil /\ ~lookup.failed => lookup.kept \subseteq lookup.left
            /\ lookup.result = "missing" => lookup.kept = {}
        BY <2>3 DEF SearchInv, LookupInv
      <3>2. /\ lookup' = [lookup EXCEPT !.kept = lookup.kept \ {c}]
            /\ lookup.kept \ {c} \in SUBSET targets
        BY <1>4, <2>3, <3>1
      <3>3. /\ lookup'.id = lookup.id /\ lookup'.left = lookup.left
            /\ lookup'.failed = lookup.failed /\ lookup'.result = lookup.result
            /\ lookup'.kept = lookup.kept \ {c}
            /\ lookup' \in [id : Ids, left : SUBSET targets, failed : BOOLEAN,
                            result : {Nil, "found", "missing", "unavailable"},
                            kept : SUBSET targets]
        BY <3>1, <3>2
      <3>4. \A d \in lookup'.kept : lookup'.id \in Held(d)'
        BY <1>5, <3>1, <3>3
      <3> QED
        BY <1>3, <3>1, <3>3, <3>4 DEF LookupInv
    <2> QED
      BY <2>1, <2>2, <2>3
  <1> QED
    BY <1>3, <1>6 DEF SearchInv

(* SearchInvStep: every step of the gateway, a cluster or a worker.        *)
LEMMA SearchInvStep == SearchInv /\ [Next]_vars => SearchInv'
  <1> SUFFICES ASSUME SearchInv, [Next]_vars PROVE SearchInv'
    OBVIOUS
  <1>1. CASE Search
    BY <1>1, SearchKeeps
  <1>2. CASE Answer
    BY <1>2, AnswerKeeps
  <1>3. CASE NotRetrieved
    BY <1>3, NotRetrievedKeeps
  <1>4. CASE \E id \in Ids : Lookup(id)
    BY <1>4, LookupKeeps
  <1>5. CASE \E c \in targets : FetchPage(c) \/ FetchFails(c)
    BY <1>5, FetchPageKeeps, FetchFailsKeeps
  <1>6. CASE \E c \in targets : Retrieve(c) \/ RetrieveFails(c)
    BY <1>6, RetrieveKeeps
  <1>7. CASE \E c \in targets : \E h \in Hits : Upsert(c, h)
    BY <1>7, UpsertKeeps
  <1>8. CASE \E c \in targets : \E id \in Ids : Withdraw(c, id)
    BY <1>8, WithdrawKeeps
  <1>9. CASE UNCHANGED vars
    <2>1. UNCHANGED <<targets, index, call, answers, lookup>>
      BY <1>9 DEF vars
    <2>2. IndexInv' /\ CallInv'
      BY <2>1 DEF SearchInv, IndexInv, CallInv
    <2>3. AnswersInv' /\ SessionInv'
      BY <2>1 DEF SearchInv, AnswersInv, SessionInv, Collection
    <2>4. LookupInv'
      BY <2>1 DEF SearchInv, LookupInv, Held
    <2> QED
      BY <2>2, <2>3, <2>4 DEF SearchInv
  <1> QED
    BY <1>1, <1>2, <1>3, <1>4, <1>5, <1>6, <1>7, <1>8, <1>9 DEF Next

(* SearchInvCorrect: the invariant holds in every reachable state.         *)
LEMMA SearchInvCorrect == Spec => []SearchInv
  BY SearchInvInit, SearchInvStep, PTL DEF Spec

-----------------------------------------------------------------------------
(* What the gateway answers *)

(* MissingOK: what is called missing was not there all the while.          *)
LEMMA MissingOK == SearchInv => MissingIsMissing
  BY DEF SearchInv, LookupInv, MissingIsMissing

(* MissingCorrect: get_document says that a document does not exist only   *)
(* if no cluster held it from the beginning of the lookup to its end,      *)
(* whatever the workers store and drop meanwhile and whichever clusters    *)
(* fail to answer.                                                         *)
THEOREM MissingCorrect == Spec => []MissingIsMissing
  BY SearchInvCorrect, MissingOK, PTL

(* CountsOK: the counts of an answer, read off the invariant.              *)
LEMMA CountsOK == SearchInv => CountsAreHonest
  <1> SUFFICES ASSUME SearchInv, NEW i \in DOMAIN answers, Whole(answers[i])
               PROVE  /\ answers[i].more = (Window(answers[i].request) < Total)
                      /\ answers[i].relation = "exact" => answers[i].found = Total
                      /\ answers[i].relation = "upper_bound" => answers[i].found >= Total
                      /\ answers[i].relation = "window_lower_bound" => answers[i].found <= Total
    BY DEF CountsAreHonest
  <1>1. i \in 1 .. Len(answers)
    BY DEF SearchInv, AnswersInv
  <1>2. CountsExact(answers[i], Collection)
    BY <1>1 DEF SearchInv, AnswersInv
  <1>3. Total = Cardinality(IdsOf(Collection))
    BY DEF Total, IdsOf
  <1> QED
    BY <1>2, <1>3 DEF CountsExact

(* CountsCorrect: has_more, found and found_relation of an answer that had *)
(* every cluster's part of an index that stood still mean what they claim  *)
(* of the whole collection, however its copies are spread and in whatever  *)
(* order a cluster sends equal scores.                                     *)
THEOREM CountsCorrect == Spec => []CountsAreHonest
  BY SearchInvCorrect, CountsOK, PTL

(* PagesOK: the hits of an answer, read off the invariant.                 *)
LEMMA PagesOK == ASSUME OrderedTies PROVE SearchInv => PageIsExact
  <1> SUFFICES ASSUME SearchInv, NEW i \in DOMAIN answers, Whole(answers[i])
               PROVE  LET page == answers[i].hits
                          request == answers[i].request
                      IN  /\ \A k \in DOMAIN page : Rank(page[k].id) = request.offset + k
                          /\ request.offset + Len(page) < Total => Len(page) = request.limit
    BY DEF PageIsExact
  <1>1. i \in 1 .. Len(answers)
    BY DEF SearchInv, AnswersInv
  <1>2. PageExact(answers[i], Collection)
    BY <1>1 DEF SearchInv, AnswersInv
  <1>3. Total = Cardinality(IdsOf(Collection))
    BY DEF Total, IdsOf
  <1>4. ASSUME NEW k \in DOMAIN answers[i].hits
        PROVE  Rank(answers[i].hits[k].id) = answers[i].request.offset + k
    BY <1>2, <1>4, RankIsPlace, CollectionFinite DEF PageExact, SearchInv
  <1> QED
    BY <1>2, <1>3, <1>4 DEF PageExact

(* PagesCorrect: where the clusters order equal scores as the gateway      *)
(* does, the merge of their windows, cut to the page, is the page of the   *)
(* whole collection.                                                       *)
THEOREM PagesCorrect == ASSUME OrderedTies PROVE Spec => []PageIsExact
  <1>1. SearchInv => PageIsExact
    BY PagesOK
  <1> QED
    BY <1>1, SearchInvCorrect, PTL

(* ReadOK: what one answer gives a client to read.                         *)
LEMMA ReadOK ==
    ASSUME OrderedTies, SearchInv, NEW i \in DOMAIN answers, answers[i].still, ~answers[i].partial
    PROVE  /\ i \in 1 .. Len(answers) /\ answers[i] \in Answers
           /\ Follows(answers[i].request, answers, i - 1)
           /\ \A k \in DOMAIN answers[i].hits :
                 /\ answers[i].status = "ok" /\ k \in 1 .. answers[i].request.limit
                 /\ answers[i].hits[k] \in Best(Collection)
                 /\ Place(answers[i].hits[k], Best(Collection)) = answers[i].request.offset + k
           /\ answers[i].status = "ok" =>
                 \A b \in Best(Collection) :
                    /\ answers[i].request.offset < Place(b, Best(Collection))
                    /\ Place(b, Best(Collection)) <= Ends(answers[i])
                    => \E k \in DOMAIN answers[i].hits : answers[i].hits[k] = b
  <1> DEFINE a == answers[i]
             B == Best(Collection)
             o == a.request.offset
             n == Len(a.hits)
  <1>1. i \in 1 .. Len(answers) /\ a \in Answers
    BY ElementOfSeq DEF SearchInv, AnswersInv
  <1>2. /\ a.status # "ok" => a.hits = <<>>
        /\ n <= a.request.limit /\ PageExact(a, Collection)
        /\ Follows(a.request, answers, i - 1)
    BY <1>1 DEF SearchInv, AnswersInv
  <1>3. /\ o \in Nat /\ a.request.limit \in Nat \ {0} /\ n \in Nat /\ DOMAIN a.hits = 1 .. n
        /\ Ends(a) = o + (IF a.status = "ok" THEN a.request.limit ELSE 0)
    BY <1>1, EndsTyped DEF Answers, Ends
  <1>4. Whole(a) <=> a.status = "ok"
    BY DEF Whole
  <1>5. /\ B \in SUBSET Hits /\ IsFiniteSet(B) /\ Cardinality(B) = Cardinality(IdsOf(Collection))
        /\ Cardinality(B) \in Nat
    BY CollectionFinite, BestOfEach, FS_CardinalityType DEF SearchInv
  <1> HIDE DEF a, B, o, n
  <1>6. ASSUME NEW k \in DOMAIN a.hits
        PROVE  /\ a.status = "ok" /\ k \in 1 .. a.request.limit
               /\ a.hits[k] \in B /\ Place(a.hits[k], B) = o + k
    <2>1. k \in 1 .. n
      BY <1>3
    <2>2. a.status = "ok"
      <3>1. a.hits = <<>> => n = 0
        BY DEF n
      <3> QED
        BY <1>2, <1>3, <2>1, <3>1
    <2>3. k \in 1 .. a.request.limit
      BY <1>2, <1>3, <2>1
    <2> QED
      BY <1>2, <1>4, <2>2, <2>3 DEF PageExact, B, o
  <1>7. ASSUME a.status = "ok", NEW b \in B, o < Place(b, B), Place(b, B) <= Ends(a)
        PROVE  \E k \in DOMAIN a.hits : a.hits[k] = b
    <2>1. Place(b, B) \in 1 .. Cardinality(B)
      BY <1>5, PlaceGrows
    <2>2. o + n < Cardinality(B) => n = a.request.limit
      BY <1>2, <1>4, <1>5, <1>7 DEF PageExact, o, n
    <2>3. Place(b, B) <= o + n
      BY <1>3, <1>5, <1>7, <2>1, <2>2
    <2>4. PICK k \in 1 .. n : Place(b, B) = o + k
      <3>1. Place(b, B) - o \in 1 .. n /\ Place(b, B) = o + (Place(b, B) - o)
        BY <1>3, <1>7, <2>1, <2>3
      <3> QED
        BY <3>1
    <2>5. k \in DOMAIN a.hits
      BY <1>3
    <2>6. a.hits[k] \in B /\ Place(a.hits[k], B) = Place(b, B)
      BY <1>6, <2>4, <2>5
    <2>7. a.hits[k] = b
      BY <1>5, <2>6, PlaceGrows
    <2> QED
      BY <2>5, <2>7
  <1> QED
    BY <1>1, <1>2, <1>6, <1>7 DEF a, B, o

(* LastAnswer: a client stops where it was refused, where nothing is left  *)
(* to read, or where it can read no deeper.                                *)
LEMMA LastAnswer ==
    ASSUME OrderedTies, SearchInv, NEW last, last = answers[Len(answers)], answers # <<>>,
           last.still, ~last.partial, Requests = {}
    PROVE  \/ last.status = "refused"
           \/ Window(last.request) + last.request.limit > MaxDeep
           \/ last.status = "ok" /\ Total <= Ends(last)
  <1>1. Len(answers) \in 1 .. Len(answers) /\ last \in Answers
    BY ElementOfSeq DEF SearchInv, AnswersInv
  <1>2. CountsExact(last, Collection)
    BY <1>1 DEF SearchInv, AnswersInv
  <1>3. last.status = "refused" \/ (last.status = "ok" /\ NextOffset(last) = Nil)
    BY DEF Requests
  <1>4. CASE last.status = "ok" /\ NextOffset(last) = Nil
    <2>1. /\ last.request.offset \in Nat /\ last.request.limit \in Nat
          /\ Ends(last) = last.request.offset + last.request.limit
          /\ Window(last.request) = last.request.offset + last.request.limit
      BY <1>1, <1>4, EndsTyped DEF Ends, Window
    <2>2. last.request.offset + last.request.limit # Nil
      BY <2>1, SearchAssumption
    <2>3. ~last.more \/ Window(last.request) + last.request.limit > MaxDeep
      BY <1>4, <2>1, <2>2 DEF NextOffset
    <2>4. CASE ~last.more
      <3>1. Whole(last) /\ Total = Cardinality(IdsOf(Collection))
        BY <1>4 DEF Whole, Total, IdsOf
      <3>2. ~(Window(last.request) < Total)
        BY <1>2, <2>4, <3>1 DEF CountsExact
      <3>3. Total \in Nat
        <4>1. IsFiniteSet(IdsOf(Collection))
          BY CollectionFinite, BestOfEach DEF SearchInv
        <4> QED
          BY <3>1, <4>1, FS_CardinalityType
      <3> QED
        BY <1>4, <2>1, <3>2, <3>3
    <2> QED
      BY <2>3, <2>4
  <1> QED
    BY <1>3, <1>4

(* SessionOK: pages that follow each other share no document and leave     *)
(* none out.                                                               *)
LEMMA SessionOK == ASSUME OrderedTies PROVE SearchInv => SessionReadsAll
  <1> DEFINE last   == answers[Len(answers)]
             places == UNION {{i} \X DOMAIN answers[i].hits : i \in DOMAIN answers}
             id(p)  == answers[p[1]].hits[p[2]].id
             B      == Best(Collection)
             hit(p) == answers[p[1]].hits[p[2]]
  <1> SUFFICES ASSUME SearchInv, answers # <<>>, \A i \in DOMAIN answers : answers[i].still,
                      \A i \in DOMAIN answers : ~answers[i].partial, Requests = {}
               PROVE  /\ \A p, q \in places : id(p) = id(q) => p = q
                      /\ \/ {id(p) : p \in places} = {h.id : h \in Collection}
                         \/ Window(last.request) + last.request.limit > MaxDeep
                         \/ last.status = "refused"
    BY DEF SessionReadsAll
  <1>1. /\ DOMAIN answers = 1 .. Len(answers) /\ Len(answers) \in Nat
        /\ Len(answers) \in DOMAIN answers
    BY DEF SearchInv, AnswersInv
  <1>2. /\ B \subseteq Collection /\ B \in SUBSET Hits /\ IsFiniteSet(B)
        /\ \A g, h \in B : g.id = h.id => g = h
        /\ \A h \in Collection : \E b \in B : b.id = h.id
        /\ Cardinality(B) = Total
    <2>1. Collection \in SUBSET Hits /\ IsFiniteSet(Collection)
      BY CollectionFinite DEF SearchInv
    <2>2. Total = Cardinality(IdsOf(Collection))
      BY DEF Total, IdsOf
    <2> QED
      BY <2>1, <2>2, BestOfEach
  <1>3. \A p : p \in places <=>
            \E i \in DOMAIN answers : \E k \in DOMAIN answers[i].hits : p = <<i, k>>
    OBVIOUS
  <1>4. ASSUME NEW p \in places
        PROVE  /\ p = <<p[1], p[2]>> /\ p[1] \in DOMAIN answers
               /\ p[2] \in 1 .. answers[p[1]].request.limit
               /\ answers[p[1]].status = "ok" /\ answers[p[1]] \in Answers
               /\ hit(p) \in B /\ Place(hit(p), B) = answers[p[1]].request.offset + p[2]
               /\ Follows(answers[p[1]].request, answers, p[1] - 1)
    <2>1. PICK i \in DOMAIN answers : \E k \in DOMAIN answers[i].hits : p = <<i, k>>
      BY <1>3
    <2>2. PICK k \in DOMAIN answers[i].hits : p = <<i, k>>
      BY <2>1
    <2>3. p = <<p[1], p[2]>> /\ p[1] = i /\ p[2] = k
      BY <2>2
    <2> HIDE DEF places
    <2> QED
      BY <2>3, ReadOK
  <1> HIDE DEF places
  <1>5. ASSUME NEW p \in places, NEW q \in places, p[1] < q[1] PROVE id(p) # id(q)
    <2> DEFINE o(x) == answers[x[1]].request.offset
    <2>1. /\ p[1] \in 1 .. (q[1] - 1) /\ Ends(answers[p[1]]) <= o(q)
          /\ Ends(answers[p[1]]) = o(p) + answers[p[1]].request.limit
      <3>1. p[1] \in 1 .. (q[1] - 1)
        BY <1>1, <1>4, <1>5
      <3> QED
        BY <1>4, <3>1 DEF Follows, Ends
    <2>2. /\ o(p) \in Nat /\ o(q) \in Nat /\ answers[p[1]].request.limit \in Nat
          /\ p[2] \in Nat \ {0} /\ q[2] \in Nat \ {0} /\ p[2] <= answers[p[1]].request.limit
      BY <1>4, EndsTyped
    <2>3. /\ Place(hit(p), B) = o(p) + p[2] /\ Place(hit(q), B) = o(q) + q[2]
      BY <1>4
    <2> DEFINE x == o(p)
               y == o(q)
               l == answers[p[1]].request.limit
               m == p[2]
               n == q[2]
    <2>4. x + m < y + n
      <3>1. /\ x \in Nat /\ y \in Nat /\ l \in Nat /\ m \in Nat /\ n \in Nat \ {0}
            /\ m <= l /\ x + l <= y
        BY <2>1, <2>2
      <3> HIDE DEF x, y, l, m, n
      <3> QED
        BY <3>1
    <2>5. Place(hit(p), B) # Place(hit(q), B)
      <3>1. x + m \in Nat /\ y + n \in Nat
        BY <2>2
      <3> QED
        BY <2>3, <2>4, <3>1
    <2> QED
      BY <1>2, <1>4, <2>5
  <1>6. ASSUME NEW p \in places, NEW q \in places, id(p) = id(q) PROVE p = q
    <2>1. p[1] \in Nat /\ q[1] \in Nat
      BY <1>1, <1>4
    <2>2. p[1] = q[1]
      BY <1>5, <1>6, <2>1
    <2>3. hit(p) = hit(q)
      BY <1>2, <1>4, <1>6
    <2>4. answers[p[1]].request.offset + p[2] = answers[p[1]].request.offset + q[2]
      BY <1>4, <2>2, <2>3
    <2>5. p[2] \in Nat /\ q[2] \in Nat /\ answers[p[1]].request.offset \in Nat
      BY <1>4, EndsTyped
    <2>6. p[2] = q[2]
      BY <2>4, <2>5
    <2> QED
      BY <1>4, <2>2, <2>6
  <1>7. ASSUME last.status = "ok", Total <= Ends(last), NEW h \in Collection
        PROVE  \E p \in places : id(p) = h.id
    <2>1. PICK b \in B : b.id = h.id
      BY <1>2
    <2> DEFINE r == Place(b, B)
               o == last.request.offset
    <2>2. r \in Nat \ {0} /\ r <= Total
      <3>1. r \in 1 .. Cardinality(B)
        BY <1>2, PlaceGrows
      <3>2. Cardinality(B) \in Nat
        BY <1>2, FS_CardinalityType
      <3> QED
        BY <1>2, <3>1, <3>2
    <2>3. /\ last \in Answers /\ Follows(last.request, answers, Len(answers) - 1)
          /\ o \in Nat /\ Ends(last) \in Nat
      BY <1>1, ReadOK, EndsTyped
    <2>4. Total \in Nat
      BY <1>2, FS_CardinalityType
    <2> HIDE DEF r, o, last
    <2>5. \E i \in DOMAIN answers : /\ answers[i].status = "ok"
                                    /\ answers[i].request.offset < r /\ r <= Ends(answers[i])
      <3>1. CASE r <= o
        <4>1. r \in 1 .. o
          BY <2>2, <2>3, <3>1
        <4>2. PICK i \in 1 .. (Len(answers) - 1) :
                /\ answers[i].status = "ok"
                /\ answers[i].request.offset < r /\ r <= Ends(answers[i])
          BY <2>3, <4>1 DEF Follows, o
        <4> QED
          BY <1>1, <4>2
      <3>2. CASE o < r
        <4>1. r <= Ends(last)
          BY <1>7, <2>2, <2>3, <2>4
        <4> QED
          BY <1>1, <1>7, <3>2, <4>1 DEF last, o
      <3> QED
        BY <2>2, <2>3, <3>1, <3>2
    <2>6. PICK i \in DOMAIN answers : /\ answers[i].status = "ok"
                                      /\ answers[i].request.offset < r /\ r <= Ends(answers[i])
      BY <2>5
    <2>7. PICK k \in DOMAIN answers[i].hits : answers[i].hits[k] = b
      BY <2>6, ReadOK DEF r
    <2>8. <<i, k>> \in places /\ id(<<i, k>>) = b.id
      BY <1>3, <2>7
    <2> QED
      BY <2>1, <2>8
  <1>8. \/ {id(p) : p \in places} = {h.id : h \in Collection}
        \/ Window(last.request) + last.request.limit > MaxDeep
        \/ last.status = "refused"
    <2>1. last.still /\ ~last.partial
      BY <1>1
    <2> HIDE DEF last
    <2>2. CASE last.status = "ok" /\ Total <= Ends(last)
      <3>1. \A h \in Collection : \E p \in places : id(p) = h.id
        BY <1>7, <2>2
      <3>2. \A p \in places : \E h \in Collection : id(p) = h.id
        BY <1>2, <1>4
      <3> QED
        BY <3>1, <3>2
    <2> QED
      BY <2>1, <2>2, LastAnswer DEF last
  <1> QED
    BY <1>6, <1>8

(* SessionsCorrect: a client that follows the answers to their end, by     *)
(* page numbers or by cursor, has read every document of the collection    *)
(* exactly once, up to the depth that can be read at all: pages of any     *)
(* size overlap nowhere and leave no gap.                                  *)
THEOREM SessionsCorrect == ASSUME OrderedTies PROVE Spec => []SessionReadsAll
  <1>1. SearchInv => SessionReadsAll
    BY SessionOK
  <1> QED
    BY <1>1, SearchInvCorrect, PTL
=============================================================================
