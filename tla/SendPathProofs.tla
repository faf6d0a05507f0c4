--------------------------- MODULE SendPathProofs ---------------------------
(***************************************************************************)
(* What the send path guarantees for every limit, every number of packets  *)
(* in a frame, and every number of frames, audio and telemetry packets.    *)
(*                                                                         *)
(* Nothing here needs an induction over sequences: what a loop leaves of   *)
(* the queue is the queue at a set of positions (At, Without), bytes are   *)
(* counts of positions, and both are cardinalities of finite sets.         *)
(*                                                                         *)
(* Inv holds through every reset and gives the account and the order.      *)
(* SessionInv is for one session, in which a group number is used once,    *)
(* and gives the limits and what protection promises.                      *)
(***************************************************************************)
EXTENDS SendPath, FunctionTheorems, FiniteSetTheorems, SequenceTheorems, TLAPS

(***************************************************************************)
(* Positions.                                                              *)
(***************************************************************************)

\* The positions of K up to k, and the map that At reads a sequence through.
UpTo(K, k) == {j \in K : j <= k}
Enum(K) == [n \in 1 .. Cardinality(K) |-> CHOOSE k \in K : Cardinality({j \in K : j <= k}) = n]

\* Sets of positions are finite.
LEMMA Positions ==
    ASSUME NEW m \in Nat, NEW K \in SUBSET (1 .. m)
    PROVE  IsFiniteSet(K) /\ Cardinality(K) \in Nat /\ Cardinality(K) <= m
  <1>1. IsFiniteSet(1 .. m) /\ Cardinality(1 .. m) <= m
    BY FS_Interval
  <1>2. IsFiniteSet(K) /\ Cardinality(K) <= Cardinality(1 .. m)
    BY <1>1, FS_Subset
  <1>3. Cardinality(K) \in Nat /\ Cardinality(1 .. m) \in Nat
    BY <1>1, <1>2, FS_CardinalityType
  <1>4. QED BY <1>1, <1>2, <1>3

\* A later position has more positions up to it.
LEMMA UpToGrows ==
    ASSUME NEW m \in Nat, NEW K \in SUBSET (1 .. m)
    PROVE  /\ \A k \in K : Cardinality(UpTo(K, k)) \in 1 .. Cardinality(K)
           /\ \A k, l \in K : k < l => Cardinality(UpTo(K, k)) < Cardinality(UpTo(K, l))
  <1>1. IsFiniteSet(K) /\ Cardinality(K) \in Nat
    BY Positions
  <1>2. ASSUME NEW k \in K
        PROVE  /\ IsFiniteSet(UpTo(K, k)) /\ Cardinality(UpTo(K, k)) \in Nat
               /\ Cardinality(UpTo(K, k)) <= Cardinality(K)
    BY <1>1, FS_Subset, FS_CardinalityType DEF UpTo
  <1>3. ASSUME NEW k \in K
        PROVE  k \in UpTo(K, k) /\ Cardinality(UpTo(K, k)) # 0
    <2>1. k \in UpTo(K, k)
      BY DEF UpTo
    <2>2. QED BY <1>2, <2>1, FS_EmptySet
  <1>4. ASSUME NEW k \in K, NEW l \in K, k < l
        PROVE  Cardinality(UpTo(K, k)) < Cardinality(UpTo(K, l))
    <2>1. l \in UpTo(K, l) /\ UpTo(K, k) \subseteq UpTo(K, l) \ {l}
      <3>1. k \in Int /\ l \in Int /\ l <= l
        OBVIOUS
      <3>2. ASSUME NEW j \in UpTo(K, k)
            PROVE  j \in UpTo(K, l) /\ j # l
        <4>1. j \in K /\ j \in Int /\ j <= k
          BY DEF UpTo
        <4>2. j <= l /\ j # l
          BY <1>4, <3>1, <4>1
        <4>3. QED BY <4>1, <4>2 DEF UpTo
      <3>3. l \in UpTo(K, l)
        BY <3>1 DEF UpTo
      <3>4. QED BY <3>2, <3>3
    <2>2. /\ IsFiniteSet(UpTo(K, l) \ {l})
          /\ Cardinality(UpTo(K, l) \ {l}) = Cardinality(UpTo(K, l)) - 1
      BY <1>2, <2>1, FS_RemoveElement
    <2>3. Cardinality(UpTo(K, k)) <= Cardinality(UpTo(K, l) \ {l})
      BY <2>1, <2>2, FS_Subset
    <2>4. QED BY <1>2, <2>2, <2>3
  <1>5. QED BY <1>1, <1>2, <1>3, <1>4

\* Enum(K) runs through the positions of K in their order.
LEMMA Enumerates ==
    ASSUME NEW m \in Nat, NEW K \in SUBSET (1 .. m)
    PROVE  /\ Enum(K) \in [1 .. Cardinality(K) -> K]
           /\ \A i, j \in 1 .. Cardinality(K) : i < j => Enum(K)[i] < Enum(K)[j]
           /\ \A k \in K : \E i \in 1 .. Cardinality(K) : Enum(K)[i] = k
  <1> DEFINE c == Cardinality(K)
             rank == [k \in K |-> Cardinality(UpTo(K, k))]
  <1>0. \A k \in K : k \in Int
    OBVIOUS
  <1>1. IsFiniteSet(K) /\ c \in Nat
    BY Positions
  <1>2. rank \in [K -> 1 .. c]
    BY UpToGrows
  <1>3. \A k, l \in K : k < l => rank[k] < rank[l]
    BY UpToGrows
  <1>4. rank \in Injection(K, 1 .. c)
    <2>1. ASSUME NEW k \in K, NEW l \in K, rank[k] = rank[l]
          PROVE  k = l
      <3> HIDE DEF rank
      <3>1. k \in Int /\ l \in Int /\ rank[k] \in Int /\ rank[l] \in Int
        BY <1>2
      <3>2. ~(k < l) /\ ~(l < k)
        BY <1>3, <2>1, <3>1
      <3>3. QED BY <3>1, <3>2
    <2>2. QED BY <1>2, <2>1, Fun_IsInj
  <1>5. rank \in Surjection(K, 1 .. c)
    <2>1. IsFiniteSet(1 .. c) /\ Cardinality(1 .. c) = c
      BY <1>1, FS_Interval
    <2>2. QED BY <1>4, <2>1, FS_Injection
  <1>6. ASSUME NEW n \in 1 .. c
        PROVE  Enum(K)[n] \in K /\ rank[Enum(K)[n]] = n
    <2>1. \E k \in K : rank[k] = n
      <3> HIDE DEF rank, c
      <3>1. \A t \in 1 .. c : \E k \in K : rank[k] = t
        BY <1>5, Fun_SurjectionProperties
      <3>2. QED BY <3>1
    <2>2. \E k \in K : Cardinality({j \in K : j <= k}) = n
      BY <2>1 DEF UpTo
    <2>3. Enum(K)[n] = CHOOSE k \in K : Cardinality({j \in K : j <= k}) = n
      BY DEF Enum
    <2>4. Enum(K)[n] \in K /\ Cardinality({j \in K : j <= Enum(K)[n]}) = n
      BY <2>2, <2>3
    <2>5. QED BY <2>4 DEF UpTo
  <1> HIDE DEF rank
  <1>7. Enum(K) \in [1 .. c -> K]
    BY <1>6 DEF Enum
  <1>8. ASSUME NEW i \in 1 .. c, NEW j \in 1 .. c, i < j
        PROVE  Enum(K)[i] < Enum(K)[j]
    <2>1. Enum(K)[i] \in K /\ Enum(K)[j] \in K /\ rank[Enum(K)[i]] = i /\ rank[Enum(K)[j]] = j
      BY <1>6
    <2>2. CASE Enum(K)[j] < Enum(K)[i]
      <3>1. j < i
        BY <1>3, <2>1, <2>2
      <3>2. QED BY <1>8, <3>1
    <2>3. CASE Enum(K)[j] = Enum(K)[i]
      BY <1>8, <2>1, <2>3
    <2>4. Enum(K)[i] \in Int /\ Enum(K)[j] \in Int
      BY <1>0, <2>1
    <2>5. QED BY <2>2, <2>3, <2>4
  <1>9. ASSUME NEW k \in K
        PROVE  \E i \in 1 .. c : Enum(K)[i] = k
    <2> DEFINE i == rank[k]
    <2>1. i \in 1 .. c
      BY <1>2
    <2>2. Enum(K)[i] \in K /\ rank[Enum(K)[i]] = rank[k]
      BY <1>6, <2>1
    <2>3. Enum(K)[i] = k
      BY <1>4, <2>2, Fun_InjectionProperties
    <2>4. QED BY <2>1, <2>3
  <1>10. QED BY <1>7, <1>8, <1>9

\* t is s thinned out to the positions K, read through h.
Thins(t, s, K, h) ==
    /\ h \in [1 .. Len(t) -> K]
    /\ \A i, j \in 1 .. Len(t) : i < j => h[i] < h[j]
    /\ \A k \in K : \E i \in 1 .. Len(t) : h[i] = k
    /\ \A i \in 1 .. Len(t) : t[i] = s[h[i]]

\* At(s, K) is s thinned out to K.
LEMMA AtThins ==
    ASSUME NEW S, NEW s \in Seq(S), NEW K \in SUBSET (1 .. Len(s))
    PROVE  /\ At(s, K) \in Seq(S)
           /\ Len(At(s, K)) = Cardinality(K) /\ Cardinality(K) \in Nat /\ Cardinality(K) <= Len(s)
           /\ Thins(At(s, K), s, K, Enum(K))
  <1> DEFINE c == Cardinality(K)
             h == Enum(K)
  <1>1. Len(s) \in Nat
    OBVIOUS
  <1>2. c \in Nat /\ c <= Len(s)
    BY <1>1, Positions
  <1>3. /\ h \in [1 .. c -> K]
        /\ \A i, j \in 1 .. c : i < j => h[i] < h[j]
        /\ \A k \in K : \E i \in 1 .. c : h[i] = k
    BY <1>1, Enumerates
  <1>4. At(s, K) = [n \in 1 .. c |-> s[h[n]]]
    BY DEF At, Enum
  <1> HIDE DEF h, c
  <1>5. \A n \in 1 .. c : s[h[n]] \in S
    <2>1. \A n \in 1 .. c : h[n] \in 1 .. Len(s)
      BY <1>3
    <2>2. QED BY <2>1, ElementOfSeq
  <1>6. At(s, K) \in Seq(S) /\ Len(At(s, K)) = c
    BY <1>2, <1>4, <1>5, IsASeq, LenProperties
  <1>7. \A n \in 1 .. c : At(s, K)[n] = s[h[n]]
    BY <1>4
  <1>8. Thins(At(s, K), s, K, h)
    BY <1>3, <1>6, <1>7 DEF Thins
  <1>9. QED BY <1>2, <1>6, <1>8 DEF h, c

\* The cardinality of two sets without a common element.
LEMMA DisjointUnion ==
    ASSUME NEW A, NEW B, IsFiniteSet(A), IsFiniteSet(B), A \cap B = {}
    PROVE  Cardinality(A \cup B) = Cardinality(A) + Cardinality(B)
  <1>1. Cardinality(A) \in Nat /\ Cardinality(B) \in Nat
    BY FS_CardinalityType
  <1>2. Cardinality(A \cup B) = Cardinality(A) + Cardinality(B) - Cardinality(A \cap B)
    BY FS_Union
  <1>3. Cardinality(A \cap B) = 0
    BY FS_EmptySet
  <1>4. QED BY <1>1, <1>2, <1>3

\* Without(s, K) is s thinned out to the positions outside of K.
LEMMA WithoutThins ==
    ASSUME NEW S, NEW s \in Seq(S), NEW K \in SUBSET (1 .. Len(s))
    PROVE  /\ Without(s, K) \in Seq(S)
           /\ Len(Without(s, K)) \in Nat /\ Len(Without(s, K)) = Len(s) - Cardinality(K)
           /\ Cardinality(K) \in Nat
           /\ Thins(Without(s, K), s, 1 .. Len(s) \ K, Enum(1 .. Len(s) \ K))
  <1> DEFINE R == 1 .. Len(s) \ K
  <1>1. R \in SUBSET (1 .. Len(s)) /\ DOMAIN s = 1 .. Len(s) /\ Len(s) \in Nat
    OBVIOUS
  <1>2. Without(s, K) = At(s, R)
    BY <1>1 DEF Without
  <1>3. R \cup K = 1 .. Len(s) /\ R \cap K = {}
    OBVIOUS
  <1>4. IsFiniteSet(R) /\ IsFiniteSet(K) /\ Cardinality(K) \in Nat
    BY <1>1, Positions
  <1> HIDE DEF R
  <1>5. At(s, R) \in Seq(S) /\ Len(At(s, R)) = Cardinality(R) /\ Cardinality(R) \in Nat
        /\ Thins(At(s, R), s, R, Enum(R))
    BY <1>1, AtThins
  <1>6. Cardinality(1 .. Len(s)) = Cardinality(R) + Cardinality(K)
    BY <1>3, <1>4, DisjointUnion
  <1>7. \A n \in Nat : Cardinality(1 .. n) = n
    BY FS_Interval
  <1>8. Cardinality(R) = Len(s) - Cardinality(K)
    BY <1>1, <1>4, <1>5, <1>6, <1>7
  <1>9. QED BY <1>2, <1>4, <1>5, <1>8 DEF R

-----------------------------------------------------------------------------
(***************************************************************************)
(* Counts.                                                                 *)
(***************************************************************************)

\* How many elements of s are in E.
N(s, E) == Cardinality({k \in 1 .. Len(s) : s[k] \in E})

\* A count is a number, and zero when nothing is counted.
LEMMA CountType ==
    ASSUME NEW S, NEW s \in Seq(S), NEW E
    PROVE  /\ N(s, E) \in Nat /\ N(s, E) <= Len(s)
           /\ N(s, E) = 0 <=> \A k \in 1 .. Len(s) : s[k] \notin E
  <1> DEFINE K == {k \in 1 .. Len(s) : s[k] \in E}
  <1>1. IsFiniteSet(K) /\ Cardinality(K) \in Nat /\ Cardinality(K) <= Len(s)
    BY Positions
  <1>2. Cardinality(K) = 0 <=> K = {}
    BY <1>1, FS_EmptySet
  <1>3. QED BY <1>1, <1>2 DEF N

\* Every element counts once.
LEMMA CountAll ==
    ASSUME NEW S, NEW s \in Seq(S)
    PROVE  N(s, S) = Len(s)
  <1>1. Len(s) \in Nat
    OBVIOUS
  <1>2. {k \in 1 .. Len(s) : s[k] \in S} = 1 .. Len(s)
    BY ElementOfSeq
  <1>3. \A n \in Nat : Cardinality(1 .. n) = n
    BY FS_Interval
  <1>4. QED BY <1>1, <1>2, <1>3 DEF N

\* Counts add up over disjoint sets of elements.
LEMMA CountUnion ==
    ASSUME NEW S, NEW s \in Seq(S), NEW E, NEW F, E \cap F = {}
    PROVE  N(s, E \cup F) = N(s, E) + N(s, F)
  <1> DEFINE A == {k \in 1 .. Len(s) : s[k] \in E}
             B == {k \in 1 .. Len(s) : s[k] \in F}
  <1>1. {k \in 1 .. Len(s) : s[k] \in E \cup F} = A \cup B /\ A \cap B = {}
    OBVIOUS
  <1>2. /\ IsFiniteSet(A) /\ Cardinality(A) \in Nat
        /\ IsFiniteSet(B) /\ Cardinality(B) \in Nat
    BY Positions
  <1>3. N(s, E) = Cardinality(A) /\ N(s, F) = Cardinality(B) /\ N(s, E \cup F) = Cardinality(A \cup B)
    BY <1>1 DEF N
  <1> HIDE DEF A, B
  <1>4. QED BY <1>1, <1>2, <1>3, DisjointUnion

\* What is counted in a thinned sequence.
LEMMA CountAt ==
    ASSUME NEW S, NEW s \in Seq(S), NEW K \in SUBSET (1 .. Len(s)), NEW E
    PROVE  N(At(s, K), E) = Cardinality({k \in K : s[k] \in E})
  <1> DEFINE t == At(s, K)
             h == Enum(K)
             A == {i \in 1 .. Len(t) : t[i] \in E}
             B == {k \in K : s[k] \in E}
  <1>0. \A k \in K : k \in Int
    OBVIOUS
  <1>1. t \in Seq(S) /\ Thins(t, s, K, h)
    BY AtThins
  <1> HIDE DEF t, h
  <1> DEFINE f == [i \in A |-> h[i]]
  <1>2. f \in [A -> B]
    BY <1>1 DEF Thins
  <1>3. ASSUME NEW i \in A, NEW j \in A, f[i] = f[j]
        PROVE  i = j
    <2>1. i \in 1 .. Len(t) /\ j \in 1 .. Len(t) /\ h[i] = h[j]
      BY <1>3
    <2>2. h[i] \in Int /\ h[j] \in Int
      <3>1. h[i] \in K /\ h[j] \in K
        BY <1>1, <2>1 DEF Thins
      <3>2. QED BY <1>0, <3>1
    <2>3. ~(i < j) /\ ~(j < i)
      BY <1>1, <2>1, <2>2 DEF Thins
    <2>4. QED BY <2>1, <2>3
  <1>4. ASSUME NEW k \in B
        PROVE  \E i \in A : f[i] = k
    <2>1. PICK i \in 1 .. Len(t) : h[i] = k
      BY <1>1 DEF Thins
    <2>2. t[i] = s[k]
      BY <1>1, <2>1 DEF Thins
    <2>3. i \in A
      BY <2>2
    <2>4. QED BY <2>1, <2>3
  <1>5. f \in Bijection(A, B)
    <2> HIDE DEF f, A, B
    <2>1. QED BY <1>2, <1>3, <1>4, Fun_IsBij
  <1>6. ExistsBijection(A, B)
    BY <1>5, Fun_ExistsBij
  <1>7. IsFiniteSet(A)
    <2>1. Len(t) \in Nat
      BY <1>1
    <2>2. QED BY <2>1, Positions
  <1>8. Cardinality(A) = Cardinality(B)
    <2> HIDE DEF A, B
    <2>1. QED BY <1>6, <1>7, FS_Bijection
  <1>9. N(t, E) = Cardinality(A)
    BY DEF N
  <1>10. QED BY <1>8, <1>9 DEF t

\* What is taken out of a sequence and what is left add up to it.
LEMMA CountSplit ==
    ASSUME NEW S, NEW s \in Seq(S), NEW K \in SUBSET (1 .. Len(s)), NEW E
    PROVE  N(s, E) = N(At(s, K), E) + N(Without(s, K), E)
  <1> DEFINE A == {k \in K : s[k] \in E}
             B == {k \in 1 .. Len(s) \ K : s[k] \in E}
  <1>1. {k \in 1 .. Len(s) : s[k] \in E} = A \cup B /\ A \cap B = {}
    OBVIOUS
  <1>0. K \subseteq 1 .. Len(s) /\ Len(s) \in Nat
    OBVIOUS
  <1>2. A \subseteq 1 .. Len(s) /\ B \subseteq 1 .. Len(s)
    BY <1>0
  <1>3. N(At(s, K), E) = Cardinality(A)
    BY <1>0, CountAt
  <1>4. N(Without(s, K), E) = Cardinality(B)
    <2>1. DOMAIN s = 1 .. Len(s)
      OBVIOUS
    <2>2. 1 .. Len(s) \ K \subseteq 1 .. Len(s)
      OBVIOUS
    <2>3. N(At(s, 1 .. Len(s) \ K), E) = Cardinality(B)
      BY <2>2, CountAt
    <2>4. QED BY <2>1, <2>3 DEF Without
  <1> HIDE DEF A, B
  <1>5. IsFiniteSet(A) /\ Cardinality(A) \in Nat /\ IsFiniteSet(B) /\ Cardinality(B) \in Nat
    BY <1>0, <1>2, Positions
  <1>6. Cardinality(A \cup B) = Cardinality(A) + Cardinality(B)
    BY <1>1, <1>5, DisjointUnion
  <1>7. QED BY <1>1, <1>3, <1>4, <1>6 DEF N

\* Counts of a sequence put together from two.
LEMMA CountConcat ==
    ASSUME NEW S, NEW s \in Seq(S), NEW t \in Seq(S), NEW E
    PROVE  N(s \o t, E) = N(s, E) + N(t, E)
  <1> DEFINE u == s \o t
             A == {k \in 1 .. Len(s) : s[k] \in E}
             B == {k \in 1 .. Len(t) : t[k] \in E}
             C == {k \in 1 .. Len(u) : u[k] \in E}
             D == {k \in C : k > Len(s)}
             f == [k \in B |-> k + Len(s)]
  <1>1. /\ u \in Seq(S) /\ Len(u) = Len(s) + Len(t)
        /\ \A k \in 1 .. Len(s) : u[k] = s[k]
        /\ \A k \in 1 .. Len(t) : u[k + Len(s)] = t[k]
    BY ConcatProperties
  <1>2. Len(s) \in Nat /\ Len(t) \in Nat
    OBVIOUS
  <1> HIDE DEF u
  <1>3. C = A \cup D /\ A \cap D = {}
    BY <1>1, <1>2
  <1>4. f \in [B -> D]
    BY <1>1, <1>2
  <1>5. \A i, j \in B : f[i] = f[j] => i = j
    BY <1>2
  <1>6. \A k \in D : \E i \in B : f[i] = k
    <2>1. SUFFICES ASSUME NEW k \in D PROVE \E i \in B : f[i] = k
      OBVIOUS
    <2>2. k - Len(s) \in 1 .. Len(t) /\ (k - Len(s)) + Len(s) = k
      BY <1>1, <1>2
    <2>3. k - Len(s) \in B
      BY <1>1, <2>2
    <2>4. f[k - Len(s)] = k
      BY <2>2, <2>3
    <2>5. QED BY <2>3, <2>4
  <1>7. IsFiniteSet(A) /\ IsFiniteSet(B) /\ Cardinality(A) \in Nat
    BY <1>2, Positions
  <1>8. IsFiniteSet(D) /\ Cardinality(D) = Cardinality(B)
    <2> HIDE DEF f, B, D
    <2>1. f \in Bijection(B, D)
      BY <1>4, <1>5, <1>6, Fun_IsBij
    <2>2. ExistsBijection(B, D)
      BY <2>1, Fun_ExistsBij
    <2>3. QED BY <1>7, <2>2, FS_Bijection
  <1>9. Cardinality(C) = Cardinality(A) + Cardinality(B)
    <2> HIDE DEF A, B, C, D
    <2>2. Cardinality(A \cup D) = Cardinality(A) + Cardinality(D)
      BY <1>3, <1>7, <1>8, DisjointUnion
    <2>3. QED BY <1>3, <1>8, <2>2
  <1>10. QED BY <1>9 DEF N, u

\* Counts of a sequence of one.
LEMMA CountOne ==
    ASSUME NEW e, NEW E
    PROVE  N(<<e>>, E) = IF e \in E THEN 1 ELSE 0
  <1>1. {k \in 1 .. Len(<<e>>) : <<e>>[k] \in E} = IF e \in E THEN {1} ELSE {}
    OBVIOUS
  <1>2. QED BY <1>1, FS_EmptySet, FS_Singleton DEF N

-----------------------------------------------------------------------------
(***************************************************************************)
(* Bytes.                                                                  *)
(***************************************************************************)

VideoItems == {i \in Items : VideoDatagram(i)}
AuxItems   == {i \in Items : AuxDatagram(i)}

\* The bytes of the items of s that are in E.
Bytes(s, E) == VideoBytes * N(s, E \cap VideoItems) + AuxBytes * N(s, E \cap AuxItems)

\* What the provers need of the product of a packet size and a count.
LEMMA Products ==
    ASSUME NEW v \in Nat, NEW a \in Nat, NEW b \in Nat
    PROVE  v * (a + b) = v * a + v * b /\ v * a \in Nat /\ v * 0 = 0 /\ v * 1 = v
  OBVIOUS

\* The assumption on the constants, one by one.
LEMMA Constants ==
    /\ MaxPackets \in Nat /\ MaxBytes \in Nat /\ ParityPackets \in Nat
    /\ MaxFrames \in Nat /\ MaxAux \in Nat /\ MaxResets \in Nat
    /\ MaxInput \in Nat \ {0} /\ SourcePackets \in Nat \ {0}
    /\ VideoBytes \in Nat \ {0} /\ AuxBytes \in Nat \ {0}
  BY SendPathConstants

\* Bytes are a number.
LEMMA BytesType ==
    ASSUME NEW s \in Seq(Items), NEW E
    PROVE  Bytes(s, E) \in Nat
  <1> DEFINE a == N(s, E \cap VideoItems)
             b == N(s, E \cap AuxItems)
  <1>1. a \in Nat /\ b \in Nat
    BY CountType
  <1> HIDE DEF a, b
  <1>2. VideoBytes * a \in Nat /\ AuxBytes * b \in Nat
    BY <1>1, Constants, Products
  <1>3. QED BY <1>2 DEF Bytes, a, b

\* TotalBytes are the bytes of all items.
LEMMA BytesOfAll ==
    ASSUME NEW s \in Seq(Items)
    PROVE  TotalBytes(s) = Bytes(s, Items) /\ TotalBytes(s) \in Nat
  <1>1. DOMAIN s = 1 .. Len(s) /\ \A k \in 1 .. Len(s) : s[k] \in Items
    BY ElementOfSeq
  <1>2. {k \in DOMAIN s : VideoDatagram(s[k])} = {k \in 1 .. Len(s) : s[k] \in Items \cap VideoItems}
    BY <1>1 DEF VideoItems
  <1>3. {k \in DOMAIN s : AuxDatagram(s[k])} = {k \in 1 .. Len(s) : s[k] \in Items \cap AuxItems}
    BY <1>1 DEF AuxItems
  <1>4. TotalBytes(s) = Bytes(s, Items)
    BY <1>2, <1>3 DEF TotalBytes, Count, Bytes, N
  <1>5. QED BY <1>4, BytesType

\* Bytes add up over what is taken and what is left, ...
LEMMA BytesSplit ==
    ASSUME NEW s \in Seq(Items), NEW K \in SUBSET (1 .. Len(s)), NEW E
    PROVE  Bytes(s, E) = Bytes(At(s, K), E) + Bytes(Without(s, K), E)
  <1> DEFINE a == N(At(s, K), E \cap VideoItems)
             b == N(Without(s, K), E \cap VideoItems)
             c == N(At(s, K), E \cap AuxItems)
             d == N(Without(s, K), E \cap AuxItems)
  <1>1. At(s, K) \in Seq(Items) /\ Without(s, K) \in Seq(Items)
    BY WithoutThins, AtThins
  <1>2. a \in Nat /\ b \in Nat /\ c \in Nat /\ d \in Nat
    BY <1>1, CountType
  <1>3. N(s, E \cap VideoItems) = a + b /\ N(s, E \cap AuxItems) = c + d
    BY CountSplit
  <1> HIDE DEF a, b, c, d
  <1>4. VideoBytes * (a + b) = VideoBytes * a + VideoBytes * b /\ AuxBytes * (c + d) = AuxBytes * c + AuxBytes * d
    BY <1>2, Constants, Products
  <1>5. /\ VideoBytes * a \in Nat /\ VideoBytes * b \in Nat
        /\ AuxBytes * c \in Nat /\ AuxBytes * d \in Nat
    BY <1>2, Constants, Products
  <1>6. /\ Bytes(s, E) = VideoBytes * (a + b) + AuxBytes * (c + d)
        /\ Bytes(At(s, K), E) = VideoBytes * a + AuxBytes * c
        /\ Bytes(Without(s, K), E) = VideoBytes * b + AuxBytes * d
    BY <1>3 DEF Bytes, a, b, c, d
  <1>7. QED BY <1>4, <1>5, <1>6

\* ... over the parts of a sequence, ...
LEMMA BytesConcat ==
    ASSUME NEW s \in Seq(Items), NEW t \in Seq(Items), NEW E
    PROVE  Bytes(s \o t, E) = Bytes(s, E) + Bytes(t, E)
  <1> DEFINE a == N(s, E \cap VideoItems)
             b == N(t, E \cap VideoItems)
             c == N(s, E \cap AuxItems)
             d == N(t, E \cap AuxItems)
  <1>2. a \in Nat /\ b \in Nat /\ c \in Nat /\ d \in Nat
    BY CountType
  <1>3. N(s \o t, E \cap VideoItems) = a + b /\ N(s \o t, E \cap AuxItems) = c + d
    BY CountConcat
  <1> HIDE DEF a, b, c, d
  <1>4. VideoBytes * (a + b) = VideoBytes * a + VideoBytes * b /\ AuxBytes * (c + d) = AuxBytes * c + AuxBytes * d
    BY <1>2, Constants, Products
  <1>5. /\ VideoBytes * a \in Nat /\ VideoBytes * b \in Nat
        /\ AuxBytes * c \in Nat /\ AuxBytes * d \in Nat
    BY <1>2, Constants, Products
  <1>6. /\ Bytes(s \o t, E) = VideoBytes * (a + b) + AuxBytes * (c + d)
        /\ Bytes(s, E) = VideoBytes * a + AuxBytes * c
        /\ Bytes(t, E) = VideoBytes * b + AuxBytes * d
    BY <1>3 DEF Bytes, a, b, c, d
  <1>7. QED BY <1>4, <1>5, <1>6

\* ... and over a set of items and the other items.
LEMMA BytesOfSome ==
    ASSUME NEW s \in Seq(Items), NEW E \in SUBSET Items
    PROVE  Bytes(s, E) <= Bytes(s, Items)
  <1> DEFINE a == N(s, E \cap VideoItems)
             b == N(s, (Items \ E) \cap VideoItems)
             c == N(s, E \cap AuxItems)
             d == N(s, (Items \ E) \cap AuxItems)
  <1>1. /\ Items \cap VideoItems = (E \cap VideoItems) \cup ((Items \ E) \cap VideoItems)
        /\ Items \cap AuxItems = (E \cap AuxItems) \cup ((Items \ E) \cap AuxItems)
        /\ (E \cap VideoItems) \cap ((Items \ E) \cap VideoItems) = {}
        /\ (E \cap AuxItems) \cap ((Items \ E) \cap AuxItems) = {}
    OBVIOUS
  <1>2. a \in Nat /\ b \in Nat /\ c \in Nat /\ d \in Nat
    BY CountType
  <1>3. N(s, Items \cap VideoItems) = a + b /\ N(s, Items \cap AuxItems) = c + d
    BY <1>1, CountUnion
  <1> HIDE DEF a, b, c, d
  <1>4. VideoBytes * (a + b) = VideoBytes * a + VideoBytes * b /\ AuxBytes * (c + d) = AuxBytes * c + AuxBytes * d
    BY <1>2, Constants, Products
  <1>5. /\ VideoBytes * a \in Nat /\ VideoBytes * b \in Nat
        /\ AuxBytes * c \in Nat /\ AuxBytes * d \in Nat
    BY <1>2, Constants, Products
  <1>6. /\ Bytes(s, Items) = VideoBytes * (a + b) + AuxBytes * (c + d)
        /\ Bytes(s, E) = VideoBytes * a + AuxBytes * c
    BY <1>3 DEF Bytes, a, b, c, d
  <1>7. QED BY <1>4, <1>5, <1>6

\* A sequence without items in E has no bytes of it.
LEMMA BytesOfNone ==
    ASSUME NEW s \in Seq(Items), NEW E, \A k \in 1 .. Len(s) : s[k] \notin E
    PROVE  N(s, E) = 0 /\ Bytes(s, E) = 0
  <1>1. N(s, E) = 0 /\ N(s, E \cap VideoItems) = 0 /\ N(s, E \cap AuxItems) = 0
    BY CountType
  <1>2. VideoBytes * 0 = 0 /\ AuxBytes * 0 = 0
    BY Constants, Products
  <1>3. QED BY <1>1, <1>2 DEF Bytes

\* A sequence of one has the bytes of its item.
LEMMA BytesOfOne ==
    ASSUME NEW i \in Items
    PROVE  TotalBytes(<<i>>) = WireBytes(i) /\ WireBytes(i) \in Nat /\ WireBytes(i) <= LargestPacket
  <1>1. <<i>> \in Seq(Items)
    OBVIOUS
  <1>2. TotalBytes(<<i>>) = VideoBytes * N(<<i>>, Items \cap VideoItems) + AuxBytes * N(<<i>>, Items \cap AuxItems)
    BY <1>1, BytesOfAll DEF Bytes
  <1>3. /\ N(<<i>>, Items \cap VideoItems) = IF VideoDatagram(i) THEN 1 ELSE 0
        /\ N(<<i>>, Items \cap AuxItems) = IF AuxDatagram(i) THEN 1 ELSE 0
    BY CountOne DEF VideoItems, AuxItems
  <1>4. /\ VideoBytes * 0 = 0 /\ AuxBytes * 0 = 0
        /\ VideoBytes * 1 = VideoBytes /\ AuxBytes * 1 = AuxBytes
    BY Constants, Products
  <1>5. i.kind \in {"Datagram", "GroupEnd"}
    BY DEF Items
  <1>6. QED BY <1>2, <1>3, <1>4, <1>5, Constants
        DEF VideoDatagram, AuxDatagram, WireBytes, LargestPacket

-----------------------------------------------------------------------------
(***************************************************************************)
(* The invariant, whatever is reset.                                       *)
(***************************************************************************)

Sending == snd.pc # "idle"
Queued  == {items[k] : k \in 1 .. Len(items)}
Packets == Queued \cup {i \in {snd.item} : Sending}
VideoPackets == {i \in Packets : i.stream = "Video"}

(* What the threads hold at each of their places.                          *)
Threads ==
    /\ Sending <=> snd.item # NoItem
    /\ fec.pc # "idle" => fec.f \in Frames
    /\ ctr.frame + Len(input) + (IF fec.pc = "number" THEN 1 ELSE 0) <= captured
    /\ reset \in {"queue", "handshake"} => session < MaxResets

(* The video packets in the queue, behind the one that is being sent.      *)
InOrder(s) ==
    \A j, k \in 1 .. Len(s) :
        j < k /\ s[j].stream = "Video" /\ s[k].stream = "Video" => Before(s[j], s[k])

Leads(i, s) == \A k \in 1 .. Len(s) : s[k].stream = "Video" => Before(i, s[k])

PacketsInOrder ==
    InOrder(items) /\ (Sending /\ snd.item.stream = "Video" => Leads(snd.item, items))

(* The frames that are not yet cut into packets are later than any packet. *)
FramesInOrder ==
    /\ \A i \in VideoPackets :
          /\ i.frame <= captured
          /\ fec.pc # "idle" => i.frame < fec.f.frame
          /\ \A k \in 1 .. Len(input) : i.frame < input[k].frame
    /\ fec.pc # "idle" =>
          /\ fec.f.frame <= captured
          /\ \A k \in 1 .. Len(input) : fec.f.frame < input[k].frame
    /\ \A k \in 1 .. Len(input) : input[k].frame <= captured
    /\ \A j, k \in 1 .. Len(input) : j < k => input[j].frame < input[k].frame

Inv == TypeOK /\ Threads /\ PacketsInOrder /\ FramesInOrder /\ BytesExact

(***************************************************************************)
(* The invariant of one session, in which a group number is used once.     *)
(***************************************************************************)

OneSession == MaxResets = 0

NextGroup == IF fec.pc = "push" THEN fec.group ELSE ctr.frame

(* Group numbers are those of frames that were pushed, a group is one      *)
(* frame, and its marker is its last packet.                               *)
GroupsUsedOnce ==
    /\ reset = "idle" /\ session = 0
    /\ fec.pc = "push" => fec.group = ctr.frame - 1
    /\ prot < NextGroup
    /\ \A i \in VideoPackets : i.group < NextGroup
    /\ \A i, j \in VideoPackets : i.group = j.group => i.frame = j.frame
    /\ \A i \in Packets : i.kind = "GroupEnd" =>
          i.stream = "Video" /\ i.index = SourcePackets + ParityPackets

(* The frame the send thread counts is protected.                          *)
CountedIsProtected ==
    /\ snd.packets > 0 => prot = snd.frame
    /\ snd.pc = "send" /\ snd.item.stream = "Video" => prot = snd.frame

(* What may be in the queue and on its way to the socket while something   *)
(* of it may be evicted.  During the loops only the packets that no loop   *)
(* takes are bounded.                                                      *)
Limits(packets, wire) ==
    /\ MaxPackets > 0 => packets <= MaxPackets + 1
    /\ MaxBytes > 0 => wire <= MaxBytes + LargestPacket

HeldOpen  == Sending /\ ~IsProtected(snd.item)
QueueOpen == \E k \in 1 .. Len(items) : ~IsProtected(items[k])
Protected == {i \in Items : IsProtected(i)}

LineBounded ==
    /\ Free /\ QueueOpen /\ ~Sending => Limits(Len(items), TotalBytes(items))
    /\ Free /\ Sending /\ (QueueOpen \/ HeldOpen) =>
          Limits(Len(items) + 1, TotalBytes(items) + WireBytes(snd.item))
    /\ ~Free /\ HeldOpen =>
          Limits(N(items, Protected) + 1, Bytes(items, Protected) + WireBytes(snd.item))

SessionInv == Inv /\ GroupsUsedOnce /\ CountedIsProtected /\ LineBounded

-----------------------------------------------------------------------------
(***************************************************************************)
(* The loops under the mutex.                                              *)
(***************************************************************************)

\* A set of positions that is not empty has a first one.
LEMMA FirstPosition ==
    ASSUME NEW m \in Nat, NEW K \in SUBSET (1 .. m), K # {}
    PROVE  \E k \in K : \A j \in 1 .. k - 1 : j \notin K
  <1> DEFINE c == Cardinality(K)
             h == Enum(K)
  <1>0. \A k \in K : k \in Int
    OBVIOUS
  <1>1. c \in Nat /\ c # 0
    BY Positions, FS_EmptySet
  <1>2. /\ h \in [1 .. c -> K]
        /\ \A i, j \in 1 .. c : i < j => h[i] < h[j]
        /\ \A k \in K : \E i \in 1 .. c : h[i] = k
    BY Enumerates
  <1> HIDE DEF h, c
  <1>3. 1 \in 1 .. c /\ h[1] \in K
    BY <1>1, <1>2
  <1>4. ASSUME NEW j \in 1 .. h[1] - 1, j \in K
        PROVE  FALSE
    <2>1. PICK i \in 1 .. c : h[i] = j
      BY <1>2, <1>4
    <2>2. h[1] \in Int /\ j < h[1]
      <3>1. h[1] \in Int
        BY <1>0, <1>3
      <3>2. QED BY <3>1
    <2>3. i = 1 \/ 1 < i
      BY <1>1
    <2>4. QED BY <1>2, <1>3, <2>1, <2>2, <2>3
  <1>5. QED BY <1>3, <1>4

\* What is taken from the queue, and accounted for.
Takes(K) ==
    /\ items' = Without(items, K)
    /\ bytes' = BytesWithout(TotalBytes(At(items, K)))

OpenPositions == {k \in 1 .. Len(items) : ~IsProtected(items[k])}

\* What a loop takes is not protected.
LEMMA DropGroupTakes ==
    ASSUME items \in Seq(Items), NEW k \in 1 .. Len(items), ~IsProtected(items[k]),
           DropGroup(items[k].group, items[k].stream)
    PROVE  \E K \in SUBSET OpenPositions : Takes(K)
  <1> DEFINE K == {j \in DOMAIN items : items[j].group = items[k].group /\ items[j].stream = items[k].stream}
  <1>1. DOMAIN items = 1 .. Len(items)
    OBVIOUS
  <1>2. K \subseteq OpenPositions
    BY <1>1 DEF OpenPositions, IsProtected
  <1>3. Takes(K)
    BY DEF DropGroup, Drop, Takes
  <1>4. QED BY <1>2, <1>3

\* Parity is taken from groups that are not protected.
LEMMA DropParityTakes ==
    ASSUME items \in Seq(Items), NEW k \in 1 .. Len(items), ~IsProtected(items[k]),
           items[k].stream = "Video", DropParityForGroup(items[k].group)
    PROVE  \E K \in SUBSET OpenPositions : Takes(K)
  <1> DEFINE K == {j \in DOMAIN items : items[j].group = items[k].group /\ items[j].stream = "Video"
                                        /\ items[j].kind = "Datagram" /\ items[j].parity}
  <1>1. DOMAIN items = 1 .. Len(items)
    OBVIOUS
  <1>2. K \subseteq OpenPositions
    BY <1>1 DEF OpenPositions, IsProtected
  <1>3. Takes(K)
    BY DEF DropParityForGroup, Drop, Takes
  <1>4. QED BY <1>2, <1>3

\* Victims are not protected, and a group is found when there is one.
LEMMA Victims ==
    ASSUME items \in Seq(Items)
    PROVE  /\ \A k \in BacklogVictim : k \in OpenPositions /\ items[k].stream = "Video"
           /\ \A k \in ParityVictim : k \in OpenPositions /\ items[k].stream = "Video"
           /\ \A k \in GroupVictim : k \in OpenPositions
           /\ GroupVictim = {} => OpenPositions = {}
  <1>1. DOMAIN items = 1 .. Len(items) /\ Len(items) \in Nat
    OBVIOUS
  <1>2. \A k \in BacklogVictim : k \in OpenPositions /\ items[k].stream = "Video"
    BY <1>1 DEF BacklogVictim, OpenPositions, First, Prefer
  <1>3. \A k \in ParityVictim : k \in OpenPositions /\ items[k].stream = "Video"
    BY <1>1 DEF ParityVictim, OpenPositions, First, Prefer
  <1>4. \A k \in GroupVictim : k \in OpenPositions
    BY <1>1 DEF GroupVictim, OpenPositions, First, Prefer
  <1>5. ASSUME GroupVictim = {}, OpenPositions # {}
        PROVE  FALSE
    <2>1. PICK k \in OpenPositions : \A j \in 1 .. k - 1 : j \notin OpenPositions
      <3>1. OpenPositions \in SUBSET (1 .. Len(items))
        BY DEF OpenPositions
      <3>2. QED BY <1>1, <1>5, <3>1, FirstPosition
    <2>2. k \in 1 .. Len(items) /\ ~IsProtected(items[k])
      BY DEF OpenPositions
    <2>3. \A j \in 1 .. k - 1 : IsProtected(items[j])
      BY <1>1, <2>1, <2>2 DEF OpenPositions
    <2>4. k \in First(items, LAMBDA i : ~IsProtected(i))
      BY <1>1, <2>2, <2>3 DEF First
    <2>5. QED BY <1>5, <2>4 DEF GroupVictim, Prefer
  <1>6. QED BY <1>2, <1>3, <1>4, <1>5

\* An iteration of a loop takes nothing but what is not protected, and the last
\* one takes nothing.
LEMMA LoopSteps ==
    ASSUME TypeOK, QueueLoops
    PROVE  /\ UNCHANGED <<input, fec, prot, snd, ctr, ready, reset, passed, captured, session>>
           /\ ~Free /\ loop' \in [pc : {"free", "trim", "enforce"}, newest : Groups \cup {NoGroup}]
           /\ \/ UNCHANGED <<items, bytes>> /\ (Free' => ~OverLimits \/ OpenPositions = {})
              \/ ~Free' /\ \E K \in SUBSET OpenPositions : Takes(K)
  <1>0. items \in Seq(Items) /\ DOMAIN items = 1 .. Len(items) /\ prot \in Groups \cup {NoGroup}
    BY DEF TypeOK
  <1>1. CASE TrimVideoBacklog
    <2>1. /\ UNCHANGED <<input, fec, prot, snd, ctr, ready, reset, passed, captured, session>>
          /\ loop.pc = "trim"
      BY <1>1 DEF TrimVideoBacklog
    <2>2. loop' = loop \/ loop' = [loop EXCEPT !.pc = "enforce"]
      BY <1>1 DEF TrimVideoBacklog
    <2>3. ~Free /\ ~Free' /\ loop' \in [pc : {"free", "trim", "enforce"}, newest : Groups \cup {NoGroup}]
      BY <2>1, <2>2 DEF TypeOK, Free
    <2>4. CASE Drop(LAMBDA i : i.stream = "Video" /\ i.group # loop.newest /\ ~IsProtected(i))
      <3> DEFINE K == {k \in DOMAIN items : items[k].stream = "Video" /\ items[k].group # loop.newest
                                            /\ ~IsProtected(items[k])}
      <3>1. K \subseteq OpenPositions
        BY <1>0 DEF OpenPositions
      <3>2. Takes(K)
        BY <2>4 DEF Drop, Takes
      <3>3. QED BY <2>1, <2>3, <3>1, <3>2
    <2>5. CASE \E k \in BacklogVictim : DropGroup(items[k].group, "Video")
      <3>1. PICK k \in BacklogVictim : DropGroup(items[k].group, "Video")
        BY <2>5
      <3>2. k \in OpenPositions /\ items[k].stream = "Video"
        BY <1>0, Victims
      <3>3. \E K \in SUBSET OpenPositions : Takes(K)
        BY <1>0, <3>1, <3>2, DropGroupTakes DEF OpenPositions
      <3>4. QED BY <2>1, <2>3, <3>3
    <2>6. CASE UNCHANGED <<items, bytes>>
      BY <2>1, <2>3, <2>6
    <2>7. QED BY <1>1, <2>4, <2>5, <2>6 DEF TrimVideoBacklog
  <1>2. CASE EnforceLimits
    <2>1. /\ UNCHANGED <<input, fec, prot, snd, ctr, ready, reset, passed, captured, session>>
          /\ loop.pc = "enforce"
      BY <1>2 DEF EnforceLimits
    <2>2. CASE /\ OverLimits /\ UNCHANGED loop
               /\ \/ \E k \in ParityVictim : DropParityForGroup(items[k].group)
                  \/ \E k \in GroupVictim : DropGroup(items[k].group, items[k].stream)
      <3>1. ~Free /\ ~Free' /\ loop' \in [pc : {"free", "trim", "enforce"}, newest : Groups \cup {NoGroup}]
        BY <2>1, <2>2 DEF TypeOK, Free
      <3>2. CASE \E k \in ParityVictim : DropParityForGroup(items[k].group)
        <4>1. PICK k \in ParityVictim : DropParityForGroup(items[k].group)
          BY <3>2
        <4>2. k \in OpenPositions /\ items[k].stream = "Video"
          BY <1>0, Victims
        <4>3. \E K \in SUBSET OpenPositions : Takes(K)
          BY <1>0, <4>1, <4>2, DropParityTakes DEF OpenPositions
        <4>4. QED BY <2>1, <3>1, <4>3
      <3>3. CASE \E k \in GroupVictim : DropGroup(items[k].group, items[k].stream)
        <4>1. PICK k \in GroupVictim : DropGroup(items[k].group, items[k].stream)
          BY <3>3
        <4>2. k \in OpenPositions
          BY <1>0, Victims
        <4>3. \E K \in SUBSET OpenPositions : Takes(K)
          BY <1>0, <4>1, <4>2, DropGroupTakes DEF OpenPositions
        <4>4. QED BY <2>1, <3>1, <4>3
      <3>4. QED BY <2>2, <3>2, <3>3
    <2>3. CASE /\ ~OverLimits \/ (ParityVictim = {} /\ GroupVictim = {})
               /\ loop' = [pc |-> "free", newest |-> NoGroup]
               /\ UNCHANGED <<items, bytes>>
      <3>1. ~Free /\ loop' \in [pc : {"free", "trim", "enforce"}, newest : Groups \cup {NoGroup}]
        BY <2>1, <2>3 DEF Free
      <3>2. ~OverLimits \/ OpenPositions = {}
        BY <1>0, <2>3, Victims
      <3>3. QED BY <2>1, <2>3, <3>1, <3>2
    <2>4. QED BY <1>2, <2>2, <2>3 DEF EnforceLimits
  <1>3. QED BY <1>1, <1>2 DEF QueueLoops

-----------------------------------------------------------------------------
(***************************************************************************)
(* What the operations of the queue do to order and account.               *)
(***************************************************************************)

QueueOK == items \in Seq(Items) /\ InOrder(items) /\ BytesExact

\* A queue from which something is taken.
LEMMA TakesKeeps ==
    ASSUME QueueOK, NEW K \in SUBSET (1 .. Len(items)), Takes(K)
    PROVE  /\ QueueOK' /\ Queued' \subseteq Queued
           /\ Thins(items', items, 1 .. Len(items) \ K, Enum(1 .. Len(items) \ K))
           /\ \A i : Leads(i, items) => Leads(i, items')
           /\ \A E : /\ N(items', E) \in Nat /\ N(items', E) <= N(items, E)
                     /\ Bytes(items', E) \in Nat /\ Bytes(items', E) <= Bytes(items, E)
  <1> DEFINE R == 1 .. Len(items) \ K
             h == Enum(R)
  <1>1. items \in Seq(Items) /\ bytes = TotalBytes(items) /\ Len(items) \in Nat
    BY DEF QueueOK, BytesExact
  <1>2. items' \in Seq(Items) /\ Len(items') \in Nat /\ Thins(items', items, R, h)
    BY <1>1, WithoutThins DEF Takes
  <1>3. \A k \in R : k \in 1 .. Len(items) /\ k \in Int
    BY <1>1
  <1> HIDE DEF R, h
  <1>4. /\ \A i \in 1 .. Len(items') : h[i] \in 1 .. Len(items) /\ h[i] \in Int /\ items'[i] = items[h[i]]
        /\ \A i, j \in 1 .. Len(items') : i < j => h[i] < h[j]
    BY <1>2, <1>3 DEF Thins
  <1>5. Queued' \subseteq Queued
    BY <1>4 DEF Queued
  <1>6. InOrder(items')
    <2>1. SUFFICES ASSUME NEW i \in 1 .. Len(items'), NEW j \in 1 .. Len(items'), i < j,
                          items'[i].stream = "Video", items'[j].stream = "Video"
                   PROVE  Before(items'[i], items'[j])
      BY DEF InOrder
    <2>2. /\ h[i] \in 1 .. Len(items) /\ items'[i] = items[h[i]]
          /\ h[j] \in 1 .. Len(items) /\ items'[j] = items[h[j]]
          /\ h[i] < h[j]
      BY <1>4, <2>1
    <2>3. QED BY <2>1, <2>2 DEF QueueOK, InOrder
  <1>7. ASSUME NEW i, Leads(i, items)
        PROVE  Leads(i, items')
    BY <1>4, <1>7 DEF Leads
  <1>8. At(items, K) \in Seq(Items)
    BY <1>1, AtThins
  <1>9. ASSUME NEW E
        PROVE  /\ N(items', E) \in Nat /\ N(items', E) <= N(items, E)
               /\ Bytes(items', E) \in Nat /\ Bytes(items', E) <= Bytes(items, E)
    <2>1. items' = Without(items, K)
      BY DEF Takes
    <2>2. /\ N(items, E) = N(At(items, K), E) + N(items', E)
          /\ Bytes(items, E) = Bytes(At(items, K), E) + Bytes(items', E)
      BY <1>1, <2>1, CountSplit, BytesSplit
    <2>3. /\ N(At(items, K), E) \in Nat /\ N(items', E) \in Nat
          /\ Bytes(At(items, K), E) \in Nat /\ Bytes(items', E) \in Nat
      BY <1>2, <1>8, CountType, BytesType
    <2>4. QED BY <2>2, <2>3
  <1>10. BytesExact'
    <2>1. TotalBytes(items) = TotalBytes(At(items, K)) + TotalBytes(items')
      BY <1>1, <1>2, <1>8, BytesOfAll, BytesSplit DEF Takes
    <2>2. TotalBytes(At(items, K)) \in Nat /\ TotalBytes(items') \in Nat
      BY <1>2, <1>8, BytesOfAll
    <2>3. bytes' = IF bytes >= TotalBytes(At(items, K)) THEN bytes - TotalBytes(At(items, K)) ELSE 0
      BY DEF Takes, BytesWithout
    <2>4. bytes' = TotalBytes(items')
      BY <1>1, <2>1, <2>2, <2>3
    <2>5. QED BY <2>4 DEF BytesExact
  <1>11. QED BY <1>2, <1>5, <1>6, <1>7, <1>9, <1>10 DEF QueueOK, R, h

\* A queue that is appended to.
LEMMA PushKeeps ==
    ASSUME QueueOK, NEW b \in Seq(Items), InOrder(b),
           \A j \in 1 .. Len(items), k \in 1 .. Len(b) :
              items[j].stream = "Video" /\ b[k].stream = "Video" => Before(items[j], b[k]),
           items' = items \o b, bytes' = bytes + TotalBytes(b)
    PROVE  /\ QueueOK' /\ Len(items') = Len(items) + Len(b)
           /\ Queued' = Queued \cup {b[k] : k \in 1 .. Len(b)}
           /\ \A i : Leads(i, items) /\ Leads(i, b) => Leads(i, items')
           /\ \A E : /\ N(items', E) = N(items, E) + N(b, E)
                     /\ Bytes(items', E) = Bytes(items, E) + Bytes(b, E)
  <1>1. items \in Seq(Items) /\ bytes = TotalBytes(items) /\ Len(items) \in Nat /\ Len(b) \in Nat
    BY DEF QueueOK, BytesExact
  <1>2. /\ items' \in Seq(Items) /\ Len(items') = Len(items) + Len(b)
        /\ \A k \in 1 .. Len(items) : items'[k] = items[k]
        /\ \A k \in 1 .. Len(b) : items'[k + Len(items)] = b[k]
    BY <1>1, ConcatProperties
  <1>3. \A k \in 1 .. Len(items') :
           \/ k \in 1 .. Len(items) /\ items'[k] = items[k]
           \/ k - Len(items) \in 1 .. Len(b) /\ k > Len(items) /\ items'[k] = b[k - Len(items)]
    <2>1. SUFFICES ASSUME NEW k \in 1 .. Len(items'), ~(k \in 1 .. Len(items))
                   PROVE  k - Len(items) \in 1 .. Len(b) /\ k > Len(items) /\ items'[k] = b[k - Len(items)]
      BY <1>2
    <2>2. k - Len(items) \in 1 .. Len(b) /\ k > Len(items) /\ (k - Len(items)) + Len(items) = k
      BY <1>1, <1>2, <2>1
    <2>3. QED BY <1>2, <2>2
  <1>4. InOrder(items')
    <2>1. SUFFICES ASSUME NEW i \in 1 .. Len(items'), NEW j \in 1 .. Len(items'), i < j,
                          items'[i].stream = "Video", items'[j].stream = "Video"
                   PROVE  Before(items'[i], items'[j])
      BY DEF InOrder
    <2>2. CASE j \in 1 .. Len(items) /\ items'[j] = items[j]
      <3>1. i \in 1 .. Len(items) /\ items'[i] = items[i]
        BY <1>1, <1>2, <2>1, <2>2
      <3>2. QED BY <2>1, <2>2, <3>1 DEF QueueOK, InOrder
    <2>3. CASE j - Len(items) \in 1 .. Len(b) /\ items'[j] = b[j - Len(items)]
      <3>1. CASE i \in 1 .. Len(items) /\ items'[i] = items[i]
        BY <2>1, <2>3, <3>1
      <3>2. CASE i - Len(items) \in 1 .. Len(b) /\ items'[i] = b[i - Len(items)]
        <4>1. i - Len(items) < j - Len(items)
          BY <1>1, <2>1
        <4>2. QED BY <2>1, <2>3, <3>2, <4>1 DEF InOrder
      <3>3. QED BY <1>3, <3>1, <3>2
    <2>4. QED BY <1>3, <2>2, <2>3
  <1>5. Queued' = Queued \cup {b[k] : k \in 1 .. Len(b)}
    <2>1. Queued' \subseteq Queued \cup {b[k] : k \in 1 .. Len(b)}
      BY <1>3 DEF Queued
    <2>2. \A k \in 1 .. Len(items) : k \in 1 .. Len(items')
      BY <1>1, <1>2
    <2>3. \A k \in 1 .. Len(b) : k + Len(items) \in 1 .. Len(items')
      BY <1>1, <1>2
    <2>4. Queued \subseteq Queued'
      BY <1>2, <2>2 DEF Queued
    <2>5. {b[k] : k \in 1 .. Len(b)} \subseteq Queued'
      BY <1>2, <2>3 DEF Queued
    <2>6. QED BY <2>1, <2>4, <2>5
  <1>6. ASSUME NEW i, Leads(i, items), Leads(i, b)
        PROVE  Leads(i, items')
    BY <1>3, <1>6 DEF Leads
  <1>7. BytesExact'
    <2>1. Bytes(items', Items) = Bytes(items, Items) + Bytes(b, Items)
      BY <1>1, BytesConcat
    <2>2. /\ TotalBytes(items') = Bytes(items', Items)
          /\ TotalBytes(items) = Bytes(items, Items)
          /\ TotalBytes(b) = Bytes(b, Items)
      BY <1>1, <1>2, BytesOfAll
    <2>3. QED BY <1>1, <2>1, <2>2 DEF BytesExact
  <1>8. ASSUME NEW E
        PROVE  /\ N(items', E) = N(items, E) + N(b, E)
               /\ Bytes(items', E) = Bytes(items, E) + Bytes(b, E)
    BY <1>1, CountConcat, BytesConcat
  <1>9. QED BY <1>2, <1>4, <1>5, <1>6, <1>7, <1>8 DEF QueueOK

\* A queue with a packet put back to its front.
LEMMA RequeueKeeps ==
    ASSUME QueueOK, NEW i \in Items, i.stream = "Video" => Leads(i, items), RequeueFront(i)
    PROVE  /\ QueueOK' /\ Len(items') = Len(items) + 1
           /\ Queued' = Queued \cup {i}
           /\ TotalBytes(items') = TotalBytes(items) + WireBytes(i)
  <1>1. items \in Seq(Items) /\ bytes = TotalBytes(items) /\ Len(items) \in Nat /\ <<i>> \in Seq(Items)
    BY DEF QueueOK, BytesExact
  <1>2. items' = <<i>> \o items /\ Len(<<i>>) = 1 /\ <<i>>[1] = i
    BY DEF RequeueFront
  <1>3. /\ items' \in Seq(Items) /\ Len(items') = 1 + Len(items)
        /\ items'[1] = i
        /\ \A k \in 1 .. Len(items) : items'[k + 1] = items[k]
    BY <1>1, <1>2, ConcatProperties
  <1>4. \A k \in 1 .. Len(items') :
           \/ k = 1 /\ items'[k] = i
           \/ k - 1 \in 1 .. Len(items) /\ items'[k] = items[k - 1]
    <2>1. SUFFICES ASSUME NEW k \in 1 .. Len(items'), k # 1
                   PROVE  k - 1 \in 1 .. Len(items) /\ items'[k] = items[k - 1]
      BY <1>3
    <2>2. k - 1 \in 1 .. Len(items) /\ (k - 1) + 1 = k
      BY <1>1, <1>3, <2>1
    <2>3. QED BY <1>3, <2>2
  <1>5. InOrder(items')
    <2>1. SUFFICES ASSUME NEW j \in 1 .. Len(items'), NEW k \in 1 .. Len(items'), j < k,
                          items'[j].stream = "Video", items'[k].stream = "Video"
                   PROVE  Before(items'[j], items'[k])
      BY DEF InOrder
    <2>2. k # 1
      BY <2>1
    <2>3. k - 1 \in 1 .. Len(items) /\ items'[k] = items[k - 1]
      BY <1>4, <2>2
    <2>4. CASE j = 1 /\ items'[j] = i
      BY <2>1, <2>3, <2>4 DEF Leads
    <2>5. CASE j - 1 \in 1 .. Len(items) /\ items'[j] = items[j - 1]
      <3>1. j - 1 < k - 1
        BY <2>1
      <3>2. QED BY <2>1, <2>3, <2>5, <3>1 DEF QueueOK, InOrder
    <2>6. QED BY <1>4, <2>4, <2>5
  <1>6. Queued' = Queued \cup {i}
    <2>1. Queued' \subseteq Queued \cup {i}
      BY <1>4 DEF Queued
    <2>2. \A k \in 1 .. Len(items) : k + 1 \in 1 .. Len(items')
      BY <1>1, <1>3
    <2>3. Queued \subseteq Queued'
      BY <1>3, <2>2 DEF Queued
    <2>4. 1 \in 1 .. Len(items')
      BY <1>1, <1>3
    <2>5. QED BY <1>3, <2>1, <2>3, <2>4 DEF Queued
  <1>7. TotalBytes(items') = TotalBytes(items) + WireBytes(i)
    <2>1. Bytes(items', Items) = Bytes(<<i>>, Items) + Bytes(items, Items)
      BY <1>1, <1>2, BytesConcat
    <2>2. TotalBytes(<<i>>) = WireBytes(i) /\ WireBytes(i) \in Nat
      BY BytesOfOne
    <2>3. TotalBytes(items) = Bytes(items, Items) /\ TotalBytes(items) \in Nat
      BY <1>1, BytesOfAll
    <2>4. TotalBytes(items') = Bytes(items', Items) /\ TotalBytes(<<i>>) = Bytes(<<i>>, Items)
      BY <1>1, <1>3, BytesOfAll
    <2>5. QED BY <2>1, <2>2, <2>3, <2>4
  <1>8. BytesExact'
    BY <1>1, <1>7 DEF BytesExact, RequeueFront
  <1>9. QED BY <1>1, <1>3, <1>5, <1>6, <1>7, <1>8 DEF QueueOK


-----------------------------------------------------------------------------
(***************************************************************************)
(* Every step keeps the invariant.                                         *)
(***************************************************************************)

\* The batch of a frame.
LEMMA FrameBatch ==
    ASSUME NEW f \in Frames, NEW g \in Groups
    PROVE  LET b == FramePackets(f, g)
           IN  /\ b \in Seq(Items) /\ InOrder(b) /\ Len(b) \in Nat
               /\ \A k \in 1 .. Len(b) : /\ b[k].stream = "Video" /\ b[k].group = g
                                         /\ b[k].frame = f.frame
                                         /\ b[k].kind = "GroupEnd" => b[k].index = SourcePackets + ParityPackets
  <1> DEFINE b == FramePackets(f, g)
             last == SourcePackets + ParityPackets
  <1>1. SourcePackets \in Nat /\ ParityPackets \in Nat /\ last \in Nat /\ last + 1 \in Nat
    BY Constants
  <1>2. f.frame \in 1 .. MaxFrames /\ f.key \in BOOLEAN /\ f.session \in 0 .. MaxResets
    BY DEF Frames
  <1>3. b = [k \in 1 .. last + 1 |-> b[k]]
    BY DEF FramePackets
  <1>4. ASSUME NEW k \in 1 .. last + 1
        PROVE  b[k] = [kind |-> IF k <= last THEN "Datagram" ELSE "GroupEnd",
                       stream |-> "Video", group |-> g, key |-> k <= last /\ f.key,
                       parity |-> SourcePackets < k /\ k <= last,
                       index |-> k - 1, frame |-> f.frame, session |-> f.session]
    BY DEF FramePackets
  <1>5. ASSUME NEW k \in 1 .. last + 1
        PROVE  /\ b[k] \in Items
               /\ b[k].stream = "Video" /\ b[k].group = g /\ b[k].frame = f.frame /\ b[k].index = k - 1
               /\ b[k].kind = "GroupEnd" => b[k].index = last
    <2> DEFINE kind == IF k <= last THEN "Datagram" ELSE "GroupEnd"
               key == k <= last /\ f.key
               parity == SourcePackets < k /\ k <= last
    <2>1. k - 1 \in 0 .. last /\ f.frame \in 0 .. MaxFrames
      BY <1>1, <1>2, Constants
    <2>2. key \in BOOLEAN /\ parity \in BOOLEAN /\ kind \in {"Datagram", "GroupEnd"}
      OBVIOUS
    <2>3. kind = "GroupEnd" => k - 1 = last
      BY <1>1
    <2>4. b[k] = [kind |-> kind, stream |-> "Video", group |-> g, key |-> key, parity |-> parity,
                  index |-> k - 1, frame |-> f.frame, session |-> f.session]
      BY <1>4
    <2> HIDE DEF kind, key, parity, b
    <2>5. b[k] \in Items
      BY <1>2, <2>1, <2>2, <2>4 DEF Items, Streams, last
    <2>6. QED BY <2>3, <2>4, <2>5
  <1> HIDE DEF b, last
  <1>6. b \in Seq(Items) /\ Len(b) = last + 1
    BY <1>1, <1>3, <1>5, IsASeq, LenProperties
  <1>7. InOrder(b)
    <2>1. SUFFICES ASSUME NEW j \in 1 .. last + 1, NEW k \in 1 .. last + 1, j < k
                   PROVE  Before(b[j], b[k])
      BY <1>6 DEF InOrder
    <2>2. b[j].frame = b[k].frame /\ b[j].index = j - 1 /\ b[k].index = k - 1
      BY <1>5
    <2>3. j - 1 < k - 1
      BY <1>1, <2>1
    <2>4. QED BY <2>2, <2>3 DEF Before
  <1>8. QED BY <1>1, <1>5, <1>6, <1>7 DEF b, last

\* An audio or telemetry packet.
LEMMA AuxBatch ==
    ASSUME TypeOK, NEW stream \in {"Audio", "Other"}, NEW g \in 0 .. MaxAux
    PROVE  LET b == <<AuxPacket(stream, g)>>
           IN  /\ b \in Seq(Items) /\ InOrder(b) /\ Len(b) = 1
               /\ b[1].stream # "Video" /\ b[1].kind = "Datagram"
  <1>1. g \in Groups /\ 0 \in 0 .. MaxFrames /\ 0 \in 0 .. SourcePackets + ParityPackets
    BY Constants DEF Groups
  <1>2. session \in 0 .. MaxResets
    BY DEF TypeOK
  <1>3. AuxPacket(stream, g) \in Items
    BY <1>1, <1>2 DEF AuxPacket, Items, Streams
  <1>4. AuxPacket(stream, g).stream # "Video" /\ AuxPacket(stream, g).kind = "Datagram"
    BY DEF AuxPacket
  <1>5. QED BY <1>3, <1>4 DEF InOrder

\* The set that makes room in the input queue.
LEMMA DropInputThins ==
    ASSUME NEW s \in Seq(Frames), Len(s) > 0
    PROVE  /\ DropInput(s) \in Seq(Frames) /\ Len(DropInput(s)) \in Nat /\ Len(DropInput(s)) < Len(s)
           /\ \E h \in [1 .. Len(DropInput(s)) -> 1 .. Len(s)] :
                 /\ \A i, j \in 1 .. Len(DropInput(s)) : i < j => h[i] < h[j]
                 /\ \A i \in 1 .. Len(DropInput(s)) : DropInput(s)[i] = s[h[i]]
  <1> DEFINE K == Prefer(First(s, LAMBDA f : ~f.key), {1})
             R == 1 .. Len(s) \ K
             t == Without(s, K)
  <1>1. DOMAIN s = 1 .. Len(s) /\ Len(s) \in Nat
    OBVIOUS
  <1>2. K \in SUBSET (1 .. Len(s)) /\ K # {}
    BY <1>1 DEF Prefer, First
  <1>3. DropInput(s) = t
    BY DEF DropInput
  <1>4. R \subseteq 1 .. Len(s)
    OBVIOUS
  <1> HIDE DEF K
  <1>5. /\ t \in Seq(Frames) /\ Len(t) \in Nat /\ Len(t) = Len(s) - Cardinality(K)
        /\ Cardinality(K) \in Nat /\ Thins(t, s, R, Enum(R))
    BY <1>2, WithoutThins
  <1>6. Cardinality(K) # 0
    <2>1. IsFiniteSet(K)
      BY <1>1, <1>2, Positions
    <2>2. QED BY <1>2, <2>1, FS_EmptySet
  <1> HIDE DEF t, R
  <1>7. Len(t) < Len(s)
    BY <1>1, <1>5, <1>6
  <1>8. Enum(R) \in [1 .. Len(t) -> 1 .. Len(s)]
    BY <1>4, <1>5 DEF Thins
  <1>9. /\ \A i, j \in 1 .. Len(t) : i < j => Enum(R)[i] < Enum(R)[j]
        /\ \A i \in 1 .. Len(t) : t[i] = s[Enum(R)[i]]
    BY <1>5 DEF Thins
  <1>10. QED BY <1>3, <1>5, <1>7, <1>8, <1>9

\* A step that leaves the queue alone and takes nothing new in hand.
LEMMA SameQueue ==
    ASSUME Inv, UNCHANGED <<items, bytes>>, Sending' => Sending /\ snd'.item = snd.item
    PROVE  PacketsInOrder' /\ BytesExact' /\ Packets' \subseteq Packets /\ VideoPackets' \subseteq VideoPackets
  <1>1. PacketsInOrder'
    BY DEF Inv, PacketsInOrder, InOrder, Leads
  <1>2. Packets' \subseteq Packets
    BY DEF Packets, Queued
  <1>3. VideoPackets' \subseteq VideoPackets
    BY <1>2 DEF VideoPackets
  <1>4. QED BY <1>1, <1>2, <1>3 DEF Inv, BytesExact

\* A step that only takes packets away.
LEMMA SameFrames ==
    ASSUME FramesInOrder, VideoPackets' \subseteq VideoPackets, UNCHANGED <<input, fec, captured>>
    PROVE  FramesInOrder'
  BY DEF FramesInOrder

\* An iteration of a loop of SendQueue keeps the invariant.
LEMMA LoopsKeep ==
    ASSUME Inv, QueueLoops
    PROVE  Inv'
  <1>1. /\ UNCHANGED <<input, fec, prot, snd, ctr, ready, reset, passed, captured, session>>
        /\ loop' \in [pc : {"free", "trim", "enforce"}, newest : Groups \cup {NoGroup}]
        /\ \/ UNCHANGED <<items, bytes>>
           \/ \E K \in SUBSET OpenPositions : Takes(K)
    BY LoopSteps DEF Inv
  <1>2. Threads'
    BY <1>1 DEF Inv, Threads, Sending
  <1>3. CASE UNCHANGED <<items, bytes>>
    <2>1. PacketsInOrder' /\ BytesExact' /\ VideoPackets' \subseteq VideoPackets
      BY <1>1, <1>3, SameQueue DEF Sending
    <2>2. FramesInOrder'
      BY <1>1, <2>1, SameFrames DEF Inv
    <2>3. TypeOK'
      BY <1>1, <1>3 DEF Inv, TypeOK
    <2>4. QED BY <1>2, <2>1, <2>2, <2>3 DEF Inv
  <1>4. CASE \E K \in SUBSET OpenPositions : Takes(K)
    <2>1. PICK K \in SUBSET OpenPositions : Takes(K)
      BY <1>4
    <2>2. QueueOK /\ K \in SUBSET (1 .. Len(items))
      BY DEF Inv, TypeOK, PacketsInOrder, QueueOK, OpenPositions
    <2>3. QueueOK' /\ Queued' \subseteq Queued /\ \A i : Leads(i, items) => Leads(i, items')
      BY <2>1, <2>2, TakesKeeps
    <2>4. PacketsInOrder'
      <3>1. InOrder(items')
        BY <2>3 DEF QueueOK
      <3>2. snd' = snd
        BY <1>1
      <3>3. QED BY <2>3, <3>1, <3>2 DEF Inv, PacketsInOrder, Sending
    <2>5. VideoPackets' \subseteq VideoPackets
      BY <1>1, <2>3 DEF VideoPackets, Packets, Sending
    <2>6. FramesInOrder'
      BY <1>1, <2>5, SameFrames DEF Inv
    <2>7. BytesExact' /\ items' \in Seq(Items)
      BY <2>3 DEF QueueOK
    <2>8. bytes' \in Nat
      BY <2>7, BytesOfAll DEF BytesExact
    <2>9. TypeOK'
      BY <1>1, <2>7, <2>8 DEF Inv, TypeOK
    <2>10. QED BY <1>2, <2>4, <2>6, <2>7, <2>9 DEF Inv
  <1>5. QED BY <1>1, <1>3, <1>4

\* The batch of a frame goes behind the packets of the earlier frames.
LEMMA FecPushFrameKeeps ==
    ASSUME Inv, Free, FecPushFrame
    PROVE  Inv'
  <1> DEFINE b == FramePackets(fec.f, fec.group)
  <1>1. /\ fec.pc = "push" /\ fec.f \in Frames /\ fec.group \in Groups
        /\ fec' = [pc |-> "idle", f |-> NoFrame, group |-> 0]
        /\ items' = items \o b /\ bytes' = bytes + TotalBytes(b)
        /\ loop' = [pc |-> IF fec.group = NoGroup THEN "enforce" ELSE "trim", newest |-> fec.group]
        /\ UNCHANGED <<input, prot, snd, ctr, ready, reset, passed, captured, session>>
    BY DEF Inv, Threads, TypeOK, FecPushFrame, PushBatch
  <1>2. /\ b \in Seq(Items) /\ InOrder(b) /\ Len(b) \in Nat
        /\ \A k \in 1 .. Len(b) : b[k].stream = "Video" /\ b[k].frame = fec.f.frame
    BY <1>1, FrameBatch
  <1> HIDE DEF b
  <1>3. QueueOK
    BY DEF Inv, TypeOK, PacketsInOrder, QueueOK
  <1>4. \A i \in VideoPackets : i.frame < fec.f.frame
    BY <1>1 DEF Inv, FramesInOrder
  <1>5. \A i \in VideoPackets, k \in 1 .. Len(b) : Before(i, b[k])
    BY <1>2, <1>4 DEF Before
  <1>6. \A j \in 1 .. Len(items), k \in 1 .. Len(b) :
           items[j].stream = "Video" /\ b[k].stream = "Video" => Before(items[j], b[k])
    BY <1>5 DEF VideoPackets, Packets, Queued
  <1>7. /\ QueueOK' /\ Queued' = Queued \cup {b[k] : k \in 1 .. Len(b)}
        /\ \A i : Leads(i, items) /\ Leads(i, b) => Leads(i, items')
    BY <1>1, <1>2, <1>3, <1>6, PushKeeps
  <1>8. snd' = snd /\ (Sending' <=> Sending)
    BY <1>1 DEF Sending
  <1>9. PacketsInOrder'
    <2>1. ASSUME Sending, snd.item.stream = "Video"
          PROVE  Leads(snd.item, items')
      <3>1. snd.item \in VideoPackets
        BY <2>1 DEF VideoPackets, Packets
      <3>2. Leads(snd.item, items) /\ Leads(snd.item, b)
        BY <1>5, <2>1, <3>1 DEF Inv, PacketsInOrder, Leads
      <3>3. QED BY <1>7, <3>2
    <2>2. QED BY <1>7, <1>8, <2>1 DEF PacketsInOrder, QueueOK
  <1>10. \A i \in VideoPackets' : i \in VideoPackets \/ i.frame = fec.f.frame
    BY <1>2, <1>7, <1>8 DEF VideoPackets, Packets
  <1>11. FramesInOrder'
    <2>1. \A i \in VideoPackets' : i.frame <= captured /\ \A k \in 1 .. Len(input) : i.frame < input[k].frame
      BY <1>1, <1>10 DEF Inv, FramesInOrder
    <2>2. fec'.pc = "idle" /\ input' = input /\ captured' = captured
      BY <1>1
    <2>3. QED BY <2>1, <2>2 DEF Inv, FramesInOrder
  <1>12. BytesExact' /\ items' \in Seq(Items)
    BY <1>7 DEF QueueOK
  <1>13. bytes' \in Nat
    BY <1>12, BytesOfAll DEF BytesExact
  <1>14. TypeOK'
    <2>1. fec' \in [pc : {"idle", "number", "push"}, f : Frames \cup {NoFrame}, group : Groups]
      BY <1>1, Constants DEF Groups
    <2>2. loop' \in [pc : {"free", "trim", "enforce"}, newest : Groups \cup {NoGroup}]
      BY <1>1
    <2>3. QED BY <1>1, <1>12, <1>13, <2>1, <2>2 DEF Inv, TypeOK
  <1>15. Threads'
    BY <1>1, <1>8 DEF Inv, Threads
  <1>16. QED BY <1>9, <1>11, <1>12, <1>14, <1>15 DEF Inv

\* The push of an audio or telemetry packet.
AuxPush(stream, group) ==
    /\ PushBatch(<<AuxPacket(stream, group)>>, NoGroup)
    /\ ctr' \in [frame : {ctr.frame}, audio : 0 .. MaxAux, other : 0 .. MaxAux]
    /\ passed' \subseteq Streams
    /\ UNCHANGED <<input, fec, snd, ready, reset, captured, session>>

\* Audio and telemetry push one packet and number it.
LEMMA AuxIsPush ==
    ASSUME TypeOK, SendAudioPacket \/ SendRobotTelemetry
    PROVE  \E stream \in {"Audio", "Other"}, g \in 0 .. MaxAux : AuxPush(stream, g)
  <1>1. /\ ctr \in [frame : 0 .. MaxFrames, audio : 0 .. MaxAux, other : 0 .. MaxAux]
        /\ passed \subseteq Streams
    BY DEF TypeOK
  <1>2. CASE SendAudioPacket
    <2>1. AuxPush("Audio", ctr.audio)
      BY <1>1, <1>2, Constants DEF SendAudioPacket, AuxPush
    <2>2. QED BY <1>1, <2>1
  <1>3. CASE SendRobotTelemetry
    <2>1. AuxPush("Other", ctr.other)
      BY <1>1, <1>3, Constants DEF SendRobotTelemetry, AuxPush
    <2>2. QED BY <1>1, <2>1
  <1>4. QED BY <1>2, <1>3

\* An audio or telemetry packet disturbs no video packet.
LEMMA AuxPushKeeps ==
    ASSUME Inv, Free, NEW stream \in {"Audio", "Other"}, NEW g \in 0 .. MaxAux, AuxPush(stream, g)
    PROVE  Inv'
  <1> DEFINE b == <<AuxPacket(stream, g)>>
  <1>1. /\ items' = items \o b /\ bytes' = bytes + TotalBytes(b)
        /\ loop' = [pc |-> "enforce", newest |-> NoGroup]
        /\ ctr' \in [frame : {ctr.frame}, audio : 0 .. MaxAux, other : 0 .. MaxAux]
        /\ passed' \subseteq Streams
        /\ UNCHANGED <<input, fec, prot, snd, ready, reset, captured, session>>
    BY DEF AuxPush, PushBatch
  <1>2. /\ b \in Seq(Items) /\ InOrder(b) /\ Len(b) = 1
        /\ \A k \in 1 .. Len(b) : b[k].stream # "Video"
    BY AuxBatch DEF Inv
  <1> HIDE DEF b
  <1>3. QueueOK
    BY DEF Inv, TypeOK, PacketsInOrder, QueueOK
  <1>4. /\ QueueOK' /\ Queued' = Queued \cup {b[k] : k \in 1 .. Len(b)}
        /\ \A i : Leads(i, items) /\ Leads(i, b) => Leads(i, items')
    BY <1>1, <1>2, <1>3, PushKeeps
  <1>5. snd' = snd /\ (Sending' <=> Sending)
    BY <1>1 DEF Sending
  <1>6. PacketsInOrder'
    <2>1. \A i : Leads(i, b)
      BY <1>2 DEF Leads
    <2>2. QED BY <1>4, <1>5, <2>1 DEF Inv, PacketsInOrder, QueueOK
  <1>7. VideoPackets' \subseteq VideoPackets
    BY <1>2, <1>4, <1>5 DEF VideoPackets, Packets
  <1>8. FramesInOrder'
    BY <1>1, <1>7, SameFrames DEF Inv
  <1>9. BytesExact' /\ items' \in Seq(Items)
    BY <1>4 DEF QueueOK
  <1>10. bytes' \in Nat
    BY <1>9, BytesOfAll DEF BytesExact
  <1>11. TypeOK'
    BY <1>1, <1>9, <1>10 DEF Inv, TypeOK
  <1>12. Threads'
    BY <1>1, <1>5 DEF Inv, Threads
  <1>13. QED BY <1>6, <1>8, <1>9, <1>11, <1>12 DEF Inv

\* What popPrioritized takes.
Pops(k) ==
    /\ snd.pc = "idle" /\ snd' = [snd EXCEPT !.pc = "popped", !.item = items[k]]
    /\ Takes({k})
    /\ \A j \in 1 .. k - 1 : Priority(items[j]) > Priority(items[k])
    /\ Len(items) = Len(items') + 1
    /\ TotalBytes(items) = TotalBytes(items') + WireBytes(items[k])
    /\ UNCHANGED <<input, fec, prot, loop, ctr, ready, reset, passed, captured, session>>

\* popPrioritized takes one item and its bytes.
LEMMA PopPops ==
    ASSUME TypeOK, PopPrioritized
    PROVE  \E k \in 1 .. Len(items) : Pops(k)
  <1>1. items \in Seq(Items) /\ DOMAIN items = 1 .. Len(items) /\ Len(items) \in Nat
    BY DEF TypeOK
  <1>2. PICK k \in DOMAIN items : /\ Selected(k)
                                  /\ items' = Without(items, {k})
                                  /\ bytes' = BytesWithout(WireBytes(items[k]))
                                  /\ snd' = [snd EXCEPT !.pc = "popped", !.item = items[k]]
    BY DEF PopPrioritized
  <1>3. k \in 1 .. Len(items) /\ {k} \in SUBSET (1 .. Len(items)) /\ items[k] \in Items
    BY <1>1, ElementOfSeq
  <1> DEFINE t == At(items, {k})
  <1>4. Cardinality({k}) = 1
    BY FS_Singleton
  <1>5. t \in Seq(Items) /\ Len(t) = 1 /\ Thins(t, items, {k}, Enum({k}))
    BY <1>1, <1>3, <1>4, AtThins
  <1> HIDE DEF t
  <1>6. t[1] = items[k]
    <2>1. 1 \in 1 .. Len(t)
      BY <1>5
    <2>2. Enum({k})[1] = k
      BY <1>5, <2>1 DEF Thins
    <2>3. QED BY <1>5, <2>1, <2>2 DEF Thins
  <1>7. t = <<items[k]>>
    BY <1>5, <1>6
  <1>8. TotalBytes(At(items, {k})) = WireBytes(items[k])
    BY <1>3, <1>7, BytesOfOne DEF t
  <1>9. Takes({k})
    BY <1>2, <1>8 DEF Takes
  <1>10. \A j \in 1 .. k - 1 : Priority(items[j]) > Priority(items[k])
    BY <1>2 DEF Selected
  <1>11. items' \in Seq(Items) /\ Len(items) = Len(items') + 1
    <2>1. /\ items' \in Seq(Items) /\ Len(items') \in Nat
          /\ Len(items') = Len(items) - Cardinality({k})
      BY <1>1, <1>2, <1>3, WithoutThins
    <2>2. QED BY <1>1, <1>4, <2>1
  <1>12. TotalBytes(items) = TotalBytes(items') + WireBytes(items[k])
    <2>1. Bytes(items, Items) = Bytes(At(items, {k}), Items) + Bytes(items', Items)
      BY <1>1, <1>2, <1>3, BytesSplit
    <2>2. /\ TotalBytes(items) = Bytes(items, Items)
          /\ TotalBytes(items') = Bytes(items', Items) /\ TotalBytes(items') \in Nat
      BY <1>1, <1>11, BytesOfAll
    <2>3. TotalBytes(At(items, {k})) = Bytes(At(items, {k}), Items) /\ TotalBytes(At(items, {k})) \in Nat
      BY <1>5, BytesOfAll DEF t
    <2>4. QED BY <1>8, <2>1, <2>2, <2>3
  <1>13. Pops(k)
    BY <1>2, <1>9, <1>10, <1>11, <1>12 DEF PopPrioritized, Pops
  <1>14. QED BY <1>3, <1>13

\* The popped item leads what is left.
LEMMA PoppedLeads ==
    ASSUME QueueOK, NEW k \in 1 .. Len(items), items[k].stream = "Video", Pops(k)
    PROVE  Leads(items[k], items')
  <1> DEFINE R == 1 .. Len(items) \ {k}
             h == Enum(R)
  <1>1. items \in Seq(Items) /\ Len(items) \in Nat /\ k \in Int
    BY DEF QueueOK
  <1>2. Thins(items', items, R, h)
    BY TakesKeeps DEF Pops
  <1>3. \A j \in R : j \in 1 .. Len(items) /\ j # k /\ j \in Int
    BY <1>1
  <1> HIDE DEF R, h
  <1>4. SUFFICES ASSUME NEW n \in 1 .. Len(items'), items'[n].stream = "Video"
                 PROVE  Before(items[k], items'[n])
    BY DEF Leads
  <1>5. items'[n] = items[h[n]] /\ h[n] \in 1 .. Len(items) /\ h[n] # k /\ h[n] \in Int
    BY <1>2, <1>3 DEF Thins
  <1>6. CASE h[n] < k
    <2>1. h[n] \in 1 .. k - 1
      BY <1>1, <1>5, <1>6
    <2>2. Priority(items[h[n]]) > Priority(items[k])
      BY <2>1 DEF Pops
    <2>3. Priority(items[h[n]]) = 2 /\ Priority(items[k]) = 2
      BY <1>4, <1>5 DEF Priority
    <2>4. QED BY <2>2, <2>3
  <1>7. CASE k < h[n]
    BY <1>4, <1>5, <1>7 DEF QueueOK, InOrder
  <1>8. QED BY <1>1, <1>5, <1>6, <1>7

\* The item taken leads the queue, so the order is kept.
LEMMA PopsKeep ==
    ASSUME Inv, Free, NEW k \in 1 .. Len(items), Pops(k)
    PROVE  Inv'
  <1>1. /\ Takes({k}) /\ snd.pc = "idle"
        /\ UNCHANGED <<input, fec, prot, loop, ctr, ready, reset, passed, captured, session>>
    BY DEF Pops
  <1>2. snd \in [pc : {"idle", "popped", "send"}, item : Items \cup {NoItem}, frame : Groups, packets : Nat]
    BY DEF Inv, TypeOK
  <1>3. QueueOK
    BY DEF Inv, TypeOK, PacketsInOrder, QueueOK
  <1>4. items[k] \in Items /\ items[k] \in Queued
    BY <1>3, ElementOfSeq DEF QueueOK, Queued
  <1>5. /\ snd' \in [pc : {"idle", "popped", "send"}, item : Items \cup {NoItem}, frame : Groups, packets : Nat]
        /\ snd'.pc = "popped" /\ snd'.item = items[k]
    BY <1>2, <1>4 DEF Pops
  <1>6. QueueOK' /\ Queued' \subseteq Queued
    BY <1>1, <1>3, TakesKeeps
  <1>7. PacketsInOrder'
    BY <1>3, <1>5, <1>6, PoppedLeads DEF PacketsInOrder, QueueOK
  <1>8. VideoPackets' \subseteq VideoPackets
    BY <1>4, <1>5, <1>6 DEF VideoPackets, Packets
  <1>9. FramesInOrder'
    BY <1>1, <1>8, SameFrames DEF Inv
  <1>10. BytesExact' /\ items' \in Seq(Items)
    BY <1>6 DEF QueueOK
  <1>11. bytes' \in Nat
    BY <1>10, BytesOfAll DEF BytesExact
  <1>12. TypeOK'
    BY <1>1, <1>5, <1>10, <1>11 DEF Inv, TypeOK
  <1>13. items[k] # NoItem
    BY <1>4 DEF Items, NoItem
  <1>14. Threads'
    BY <1>1, <1>5, <1>13 DEF Inv, Threads, Sending
  <1>15. QED BY <1>7, <1>9, <1>10, <1>12, <1>14 DEF Inv

\* The packet put back leads the queue again.
LEMMA SendWouldBlockKeeps ==
    ASSUME Inv, Free, SendWouldBlock
    PROVE  Inv'
  <1>1. /\ snd.pc = "send" /\ RequeueFront(snd.item)
        /\ snd' = [snd EXCEPT !.pc = "idle", !.item = NoItem]
        /\ UNCHANGED <<input, fec, prot, loop, ctr, ready, reset, passed, captured, session>>
    BY DEF SendWouldBlock, RequeueFront
  <1>2. snd \in [pc : {"idle", "popped", "send"}, item : Items \cup {NoItem}, frame : Groups, packets : Nat]
    BY DEF Inv, TypeOK
  <1>3. Sending /\ snd.item \in Items
    BY <1>1, <1>2 DEF Inv, Threads, Sending
  <1>4. QueueOK /\ (snd.item.stream = "Video" => Leads(snd.item, items))
    BY <1>3 DEF Inv, TypeOK, PacketsInOrder, QueueOK
  <1>5. QueueOK' /\ Queued' = Queued \cup {snd.item}
    BY <1>1, <1>3, <1>4, RequeueKeeps
  <1>6. /\ snd' \in [pc : {"idle", "popped", "send"}, item : Items \cup {NoItem}, frame : Groups, packets : Nat]
        /\ snd'.pc = "idle" /\ snd'.item = NoItem
    BY <1>1, <1>2
  <1>7. PacketsInOrder' /\ VideoPackets' \subseteq VideoPackets
    BY <1>3, <1>5, <1>6 DEF PacketsInOrder, QueueOK, Sending, VideoPackets, Packets
  <1>8. FramesInOrder'
    BY <1>1, <1>7, SameFrames DEF Inv
  <1>9. BytesExact' /\ items' \in Seq(Items)
    BY <1>5 DEF QueueOK
  <1>10. bytes' \in Nat
    BY <1>9, BytesOfAll DEF BytesExact
  <1>11. TypeOK'
    BY <1>1, <1>6, <1>9, <1>10 DEF Inv, TypeOK
  <1>12. Threads'
    BY <1>1, <1>6 DEF Inv, Threads, Sending
  <1>13. QED BY <1>7, <1>8, <1>9, <1>11, <1>12 DEF Inv

\* A frame captured is the latest, whatever is dropped for it.
LEMMA SendH264FrameKeeps ==
    ASSUME Inv, Free, SendH264Frame
    PROVE  Inv'
  <1> DEFINE room == IF Len(input) >= MaxInput THEN DropInput(input) ELSE input
  <1>1. PICK key \in BOOLEAN :
           input' = Append(room, [frame |-> captured + 1, key |-> key, session |-> session])
    BY DEF SendH264Frame
  <1> DEFINE f == [frame |-> captured + 1, key |-> key, session |-> session]
  <1>2. /\ captured < MaxFrames /\ captured' = captured + 1 /\ passed' = passed \ {"Video"}
        /\ UNCHANGED <<fec, items, bytes, prot, loop, snd, ctr, ready, reset, session>>
    BY DEF SendH264Frame, queueVars
  <1>3. /\ input \in Seq(Frames) /\ Len(input) \in Nat /\ Len(input) <= MaxInput
        /\ captured \in 0 .. MaxFrames /\ session \in 0 .. MaxResets /\ passed \subseteq Streams
        /\ ctr.frame \in 0 .. MaxFrames
    BY DEF Inv, TypeOK
  <1>4. f \in Frames /\ f.frame = captured + 1
    BY <1>2, <1>3, Constants DEF Frames
  <1>5. /\ room \in Seq(Frames) /\ Len(room) \in Nat /\ Len(room) < MaxInput /\ Len(room) <= Len(input)
        /\ \E h \in [1 .. Len(room) -> 1 .. Len(input)] :
              /\ \A i, j \in 1 .. Len(room) : i < j => h[i] < h[j]
              /\ \A i \in 1 .. Len(room) : room[i] = input[h[i]]
    <2>1. CASE Len(input) >= MaxInput
      <3>1. Len(input) > 0 /\ room = DropInput(input)
        BY <1>3, <2>1, Constants
      <3>2. /\ DropInput(input) \in Seq(Frames) /\ Len(DropInput(input)) \in Nat
            /\ Len(DropInput(input)) < Len(input)
            /\ \E h \in [1 .. Len(DropInput(input)) -> 1 .. Len(input)] :
                  /\ \A i, j \in 1 .. Len(DropInput(input)) : i < j => h[i] < h[j]
                  /\ \A i \in 1 .. Len(DropInput(input)) : DropInput(input)[i] = input[h[i]]
        BY <1>3, <3>1, DropInputThins
      <3> HIDE DEF room
      <3>3. Len(room) \in Nat /\ Len(room) < Len(input) /\ Len(room) < MaxInput
        BY <1>3, <3>1, <3>2, Constants
      <3>4. \E h \in [1 .. Len(room) -> 1 .. Len(input)] :
               /\ \A i, j \in 1 .. Len(room) : i < j => h[i] < h[j]
               /\ \A i \in 1 .. Len(room) : room[i] = input[h[i]]
        BY <3>1, <3>2
      <3>5. room \in Seq(Frames) /\ Len(room) <= Len(input)
        BY <1>3, <3>1, <3>2, <3>3
      <3>6. QED BY <3>3, <3>4, <3>5
    <2>2. CASE ~(Len(input) >= MaxInput)
      <3> DEFINE h == [i \in 1 .. Len(input) |-> i]
      <3>1. room = input
        BY <2>2
      <3>2. h \in [1 .. Len(room) -> 1 .. Len(input)]
        BY <3>1
      <3>3. \A i, j \in 1 .. Len(room) : i < j => h[i] < h[j]
        BY <3>1
      <3>4. \A i \in 1 .. Len(room) : room[i] = input[h[i]]
        BY <3>1
      <3> HIDE DEF h, room
      <3>5. Len(room) \in Nat /\ Len(room) < MaxInput
        BY <1>3, <2>2, <3>1, Constants
      <3>6. QED BY <1>3, <3>1, <3>2, <3>3, <3>4, <3>5
    <2>3. QED BY <2>1, <2>2
  <1>6. PICK h \in [1 .. Len(room) -> 1 .. Len(input)] :
              /\ \A i, j \in 1 .. Len(room) : i < j => h[i] < h[j]
              /\ \A i \in 1 .. Len(room) : room[i] = input[h[i]]
    BY <1>5
  <1> HIDE DEF room, f
  <1>7. input' = Append(room, f)
    BY <1>1 DEF f
  <1>8. /\ input' \in Seq(Frames) /\ Len(input') = Len(room) + 1
        /\ \A i \in 1 .. Len(room) : input'[i] = room[i]
        /\ input'[Len(room) + 1] = f
    BY <1>4, <1>5, <1>7, AppendProperties
  <1>9. \A i \in 1 .. Len(input') :
           \/ i \in 1 .. Len(room) /\ input'[i] = input[h[i]] /\ h[i] \in 1 .. Len(input)
           \/ i = Len(room) + 1 /\ input'[i] = f
    <2>1. Len(room) \in Nat /\ \A i \in 1 .. Len(room) : room[i] = input[h[i]] /\ h[i] \in 1 .. Len(input)
      BY <1>5, <1>6
    <2>2. SUFFICES ASSUME NEW i \in 1 .. Len(input'), i # Len(room) + 1
                   PROVE  i \in 1 .. Len(room) /\ input'[i] = input[h[i]] /\ h[i] \in 1 .. Len(input)
      BY <1>8
    <2>3. i \in 1 .. Len(room)
      BY <1>8, <2>1, <2>2
    <2>4. QED BY <1>8, <2>1, <2>3
  <1>10. PacketsInOrder' /\ BytesExact' /\ VideoPackets' \subseteq VideoPackets
    BY <1>2, SameQueue DEF Sending
  <1>11. FramesInOrder'
    <2>1. \A k \in 1 .. Len(input) : input[k].frame \in Int /\ input[k].frame <= captured
      <3>1. \A k \in 1 .. Len(input) : input[k] \in Frames
        BY <1>3, ElementOfSeq
      <3>2. QED BY <3>1 DEF Frames, Inv, FramesInOrder
    <2>2. \A i \in 1 .. Len(input') : input'[i].frame <= captured'
      BY <1>2, <1>3, <1>4, <1>9, <2>1
    <2>3. \A j, k \in 1 .. Len(input') : j < k => input'[j].frame < input'[k].frame
      <3>1. SUFFICES ASSUME NEW j \in 1 .. Len(input'), NEW k \in 1 .. Len(input'), j < k
                     PROVE  input'[j].frame < input'[k].frame
        OBVIOUS
      <3>2. j \in 1 .. Len(room) /\ input'[j] = input[h[j]] /\ h[j] \in 1 .. Len(input)
        BY <1>5, <1>8, <1>9, <3>1
      <3>3. CASE k \in 1 .. Len(room) /\ input'[k] = input[h[k]] /\ h[k] \in 1 .. Len(input)
        <4>1. h[j] < h[k]
          BY <1>6, <3>1, <3>2, <3>3
        <4>2. QED BY <3>2, <3>3, <4>1 DEF Inv, FramesInOrder
      <3>4. CASE input'[k] = f
        BY <1>3, <1>4, <2>1, <3>2, <3>4
      <3>5. QED BY <1>9, <3>3, <3>4
    <2>4. ASSUME NEW i \in VideoPackets'
          PROVE  /\ i.frame <= captured'
                 /\ fec.pc # "idle" => i.frame < fec.f.frame
                 /\ \A k \in 1 .. Len(input') : i.frame < input'[k].frame
      <3>1. i \in VideoPackets
        BY <1>10
      <3>2. i.frame \in Int
        <4>1. items \in Seq(Items) /\ (Sending => snd.item \in Items)
          BY DEF Inv, TypeOK, Threads
        <4>2. i \in Items
          BY <3>1, <4>1, ElementOfSeq DEF VideoPackets, Packets, Queued
        <4>3. QED BY <4>2 DEF Items
      <3>3. i.frame <= captured /\ (fec.pc # "idle" => i.frame < fec.f.frame)
        BY <3>1 DEF Inv, FramesInOrder
      <3>4. \A k \in 1 .. Len(input) : i.frame < input[k].frame
        BY <3>1 DEF Inv, FramesInOrder
      <3>5. \A k \in 1 .. Len(input') : i.frame < input'[k].frame
        <4>1. i.frame < f.frame
          BY <1>3, <1>4, <3>2, <3>3
        <4>2. QED BY <1>9, <3>4, <4>1
      <3>6. QED BY <1>2, <1>3, <3>2, <3>3, <3>5
    <2>5. ASSUME fec.pc # "idle"
          PROVE  /\ fec.f.frame <= captured'
                 /\ \A k \in 1 .. Len(input') : fec.f.frame < input'[k].frame
      <3>1. fec.f.frame \in Int
        BY <2>5 DEF Inv, Threads, Frames
      <3>2. fec.f.frame <= captured /\ \A k \in 1 .. Len(input) : fec.f.frame < input[k].frame
        BY <2>5 DEF Inv, FramesInOrder
      <3>3. fec.f.frame <= captured' /\ fec.f.frame < f.frame
        BY <1>2, <1>3, <1>4, <3>1, <3>2
      <3>4. QED BY <1>9, <3>2, <3>3
    <2>6. fec' = fec
      BY <1>2
    <2>7. QED BY <2>2, <2>3, <2>4, <2>5, <2>6 DEF FramesInOrder
  <1>12. TypeOK'
    <2>1. Len(input') <= MaxInput /\ captured' \in 0 .. MaxFrames /\ passed' \subseteq Streams
      BY <1>2, <1>3, <1>5, <1>8, Constants
    <2>2. QED BY <1>2, <1>8, <2>1 DEF Inv, TypeOK
  <1>13. Threads'
    <2>1. ctr'.frame + Len(input') + (IF fec'.pc = "number" THEN 1 ELSE 0) <= captured'
      <3> DEFINE n == IF fec.pc = "number" THEN 1 ELSE 0
      <3>1. n \in Nat /\ ctr.frame + Len(input) + n <= captured
        BY DEF Inv, Threads
      <3> HIDE DEF n
      <3>2. ctr.frame + Len(input') + n <= captured'
        BY <1>2, <1>3, <1>5, <1>8, <3>1
      <3>3. QED BY <1>2, <3>2 DEF n
    <2>2. QED BY <1>2, <2>1 DEF Inv, Threads, Sending
  <1>14. QED BY <1>10, <1>11, <1>12, <1>13 DEF Inv

\* The FEC thread takes the earliest frame.
LEMMA FecPopInputKeeps ==
    ASSUME Inv, Free, FecPopInput
    PROVE  Inv'
  <1>1. /\ fec.pc = "idle" /\ input # <<>> /\ input' = Tail(input)
        /\ fec' = [fec EXCEPT !.pc = "number", !.f = Head(input)]
        /\ UNCHANGED <<items, bytes, prot, loop, snd, ctr, ready, reset, passed, captured, session>>
    BY DEF FecPopInput, queueVars
  <1>2. /\ input \in Seq(Frames) /\ Len(input) \in Nat /\ Len(input) <= MaxInput
        /\ captured \in 0 .. MaxFrames /\ ctr.frame \in 0 .. MaxFrames
        /\ fec \in [pc : {"idle", "number", "push"}, f : Frames \cup {NoFrame}, group : Groups]
    BY DEF Inv, TypeOK
  <1>3. /\ Head(input) = input[1] /\ input[1] \in Frames /\ 1 \in 1 .. Len(input)
        /\ input' \in Seq(Frames) /\ Len(input') = Len(input) - 1
        /\ \A i \in 1 .. Len(input') : i + 1 \in 1 .. Len(input) /\ input'[i] = input[i + 1]
    <2>1. Len(input) # 0
      BY <1>1, <1>2, EmptySeq
    <2>2. 1 \in 1 .. Len(input) /\ Head(input) = input[1]
      BY <1>2, <2>1
    <2>3. input' \in Seq(Frames) /\ Len(input') = Len(input) - 1
      BY <1>1, <1>2, HeadTailProperties
    <2>4. \A i \in 1 .. Len(input') : input'[i] = input[i + 1]
      BY <1>1, <1>2, HeadTailProperties
    <2>5. \A i \in 1 .. Len(input') : i + 1 \in 1 .. Len(input)
      BY <1>2, <2>3
    <2>6. QED BY <1>2, <2>2, <2>3, <2>4, <2>5, ElementOfSeq
  <1>4. /\ fec' \in [pc : {"idle", "number", "push"}, f : Frames \cup {NoFrame}, group : Groups]
        /\ fec'.pc = "number" /\ fec'.f = input[1]
    BY <1>1, <1>2, <1>3
  <1>5. PacketsInOrder' /\ BytesExact' /\ VideoPackets' \subseteq VideoPackets
    BY <1>1, SameQueue DEF Sending
  <1>6. FramesInOrder'
    <2>1. \A i \in VideoPackets' : i.frame <= captured /\ \A k \in 1 .. Len(input) : i.frame < input[k].frame
      BY <1>5 DEF Inv, FramesInOrder
    <2>2. \A i \in 1 .. Len(input') : input[1].frame < input'[i].frame
      <3>1. \A i \in 1 .. Len(input') : 1 < i + 1
        BY <1>2, <1>3
      <3>2. QED BY <1>3, <3>1 DEF Inv, FramesInOrder
    <2>3. \A j, k \in 1 .. Len(input') : j < k => input'[j].frame < input'[k].frame
      <3>1. \A j, k \in 1 .. Len(input') : j < k => j + 1 < k + 1
        BY <1>2, <1>3
      <3>2. QED BY <1>3, <3>1 DEF Inv, FramesInOrder
    <2>4. input[1].frame <= captured /\ \A i \in 1 .. Len(input') : input'[i].frame <= captured
      BY <1>3 DEF Inv, FramesInOrder
    <2>5. captured' = captured
      BY <1>1
    <2>6. QED BY <1>3, <1>4, <2>1, <2>2, <2>3, <2>4, <2>5 DEF FramesInOrder
  <1>7. TypeOK'
    <2>1. Len(input') <= MaxInput
      BY <1>2, <1>3, Constants
    <2>2. QED BY <1>1, <1>3, <1>4, <2>1 DEF Inv, TypeOK
  <1>8. Threads'
    <2>1. ctr.frame + Len(input) <= captured
      BY <1>1, <1>2 DEF Inv, Threads
    <2>2. ctr.frame + Len(input') + 1 <= captured
      BY <1>2, <1>3, <2>1
    <2>3. QED BY <1>1, <1>3, <1>4, <2>2 DEF Inv, Threads, Sending
  <1>9. QED BY <1>5, <1>6, <1>7, <1>8 DEF Inv

\* Frames numbered are frames captured.
LEMMA FecNumberFrameKeeps ==
    ASSUME Inv, Free, FecNumberFrame
    PROVE  Inv'
  <1>1. /\ fec.pc = "number" /\ fec' = [fec EXCEPT !.pc = "push", !.group = ctr.frame]
        /\ ctr' = [ctr EXCEPT !.frame = @ + 1]
        /\ UNCHANGED <<input, items, bytes, prot, loop, snd, ready, reset, passed, captured, session>>
    BY DEF FecNumberFrame, queueVars
  <1>2. /\ Len(input) \in Nat /\ captured \in 0 .. MaxFrames
        /\ ctr \in [frame : 0 .. MaxFrames, audio : 0 .. MaxAux, other : 0 .. MaxAux]
        /\ fec \in [pc : {"idle", "number", "push"}, f : Frames \cup {NoFrame}, group : Groups]
    BY DEF Inv, TypeOK
  <1>3. ctr.frame + Len(input) + 1 <= captured /\ fec.f \in Frames
    BY <1>1, <1>2 DEF Inv, Threads
  <1>4. ctr.frame + 1 \in 0 .. MaxFrames /\ ctr.frame \in Groups
    BY <1>2, <1>3, Constants DEF Groups
  <1>5. /\ fec' \in [pc : {"idle", "number", "push"}, f : Frames \cup {NoFrame}, group : Groups]
        /\ fec'.pc = "push" /\ fec'.f = fec.f
    BY <1>1, <1>2, <1>4
  <1>6. /\ ctr' \in [frame : 0 .. MaxFrames, audio : 0 .. MaxAux, other : 0 .. MaxAux]
        /\ ctr'.frame = ctr.frame + 1
    BY <1>1, <1>2, <1>4
  <1>7. PacketsInOrder' /\ BytesExact' /\ VideoPackets' \subseteq VideoPackets
    BY <1>1, SameQueue DEF Sending
  <1>8. FramesInOrder'
    BY <1>1, <1>5, <1>7 DEF Inv, FramesInOrder
  <1>9. TypeOK'
    BY <1>1, <1>5, <1>6 DEF Inv, TypeOK
  <1>10. Threads'
    <2>1. ctr'.frame + Len(input) <= captured
      BY <1>2, <1>3, <1>6
    <2>2. QED BY <1>1, <1>2, <1>3, <1>5, <1>6, <2>1 DEF Inv, Threads, Sending
  <1>11. QED BY <1>7, <1>8, <1>9, <1>10 DEF Inv

\* The steps of the send thread that leave the queue alone.
LEMMA SendStepsKeep ==
    ASSUME Inv, Free, Protect \/ FlushFrame \/ Sent \/ SendFailed
    PROVE  Inv'
  <1>1. UNCHANGED <<input, fec, items, bytes, loop, ctr, ready, reset, passed, captured, session>>
    BY DEF Protect, FlushFrame, Sent, SendFailed, queueVars
  <1>2. /\ snd \in [pc : {"idle", "popped", "send"}, item : Items \cup {NoItem}, frame : Groups, packets : Nat]
        /\ prot \in Groups \cup {NoGroup} /\ 0 \in Groups
    BY Constants DEF Inv, TypeOK, Groups
  <1>3. /\ snd' \in [pc : {"idle", "popped", "send"}, item : Items \cup {NoItem}, frame : Groups, packets : Nat]
        /\ prot' \in Groups \cup {NoGroup}
        /\ \/ snd'.pc = "idle" /\ snd'.item = NoItem
           \/ snd'.pc = "send" /\ snd'.item = snd.item /\ snd.pc = "popped"
    <2>1. Sending => snd.item \in Items
      BY <1>2 DEF Inv, Threads
    <2>2. CASE Protect
      <3>1. snd.item \in Items /\ snd.item.group \in Groups
        BY <2>1, <2>2 DEF Protect, Sending, Items
      <3>2. QED BY <1>2, <2>2, <3>1 DEF Protect
    <2>3. CASE FlushFrame
      BY <1>2, <2>3 DEF FlushFrame
    <2>4. CASE Sent
      <3> DEFINE n == IF snd.item.stream = "Video" THEN snd.packets + 1 ELSE snd.packets
      <3>1. n \in Nat
        BY <1>2
      <3>2. snd' = [snd EXCEPT !.pc = "idle", !.item = NoItem, !.packets = n] /\ prot' = prot
        BY <2>4 DEF Sent, queueVars
      <3> HIDE DEF n
      <3>3. QED BY <1>2, <3>1, <3>2
    <2>5. CASE SendFailed
      BY <1>2, <2>5 DEF SendFailed, queueVars
    <2>6. QED BY <2>2, <2>3, <2>4, <2>5
  <1>4. PacketsInOrder' /\ BytesExact' /\ VideoPackets' \subseteq VideoPackets
    BY <1>1, <1>3, SameQueue DEF Sending
  <1>5. FramesInOrder'
    BY <1>1, <1>4, SameFrames DEF Inv
  <1>6. TypeOK'
    BY <1>1, <1>3 DEF Inv, TypeOK
  <1>7. Threads'
    BY <1>1, <1>3 DEF Inv, Threads, Sending
  <1>8. QED BY <1>4, <1>5, <1>6, <1>7 DEF Inv

\* Each clearing call of resetSession keeps the invariant.
LEMMA ResetKeeps ==
    ASSUME Inv, Free, ResetSession
    PROVE  Inv'
  <1>1. /\ Len(input) \in Nat /\ captured \in 0 .. MaxFrames
        /\ ctr \in [frame : 0 .. MaxFrames, audio : 0 .. MaxAux, other : 0 .. MaxAux]
        /\ session \in 0 .. MaxResets
    BY DEF Inv, TypeOK
  <1>2. CASE ResetInput
    <2>1. /\ input' = <<>> /\ session < MaxResets /\ reset' = "queue"
          /\ UNCHANGED <<fec, items, bytes, prot, loop, snd, ctr, ready, passed, captured, session>>
      BY <1>2 DEF ResetInput, queueVars
    <2>2. PacketsInOrder' /\ BytesExact' /\ VideoPackets' \subseteq VideoPackets
      BY <2>1, SameQueue DEF Sending
    <2>3. input' \in Seq(Frames) /\ Len(input') = 0 /\ 1 .. 0 = {}
      BY <2>1
    <2>4. FramesInOrder'
      BY <2>1, <2>2, <2>3 DEF Inv, FramesInOrder
    <2>5. TypeOK'
      BY <2>1, <2>3, Constants DEF Inv, TypeOK
    <2>6. Threads'
      <3> DEFINE n == IF fec.pc = "number" THEN 1 ELSE 0
      <3>1. n \in Nat /\ ctr.frame + Len(input) + n <= captured
        BY DEF Inv, Threads
      <3> HIDE DEF n
      <3>2. ctr.frame + 0 + n <= captured
        BY <1>1, <3>1
      <3>3. ctr'.frame + Len(input') + (IF fec'.pc = "number" THEN 1 ELSE 0) <= captured'
        BY <2>1, <2>3, <3>2 DEF n
      <3>4. QED BY <2>1, <3>3 DEF Inv, Threads, Sending
    <2>7. QED BY <2>2, <2>4, <2>5, <2>6 DEF Inv
  <1>3. CASE ResetQueue
    <2>1. /\ items' = <<>> /\ bytes' = 0 /\ prot' = NoGroup /\ reset = "queue" /\ reset' = "handshake"
          /\ UNCHANGED <<input, fec, loop, snd, ctr, ready, passed, captured, session>>
      BY <1>3 DEF ResetQueue
    <2>2. items' \in Seq(Items) /\ Len(items') = 0 /\ 1 .. 0 = {}
      BY <2>1
    <2>3. \A k \in 1 .. Len(items') : items'[k] \notin Items
      BY <2>2
    <2>4. BytesExact'
      <3>1. Bytes(items', Items) = 0
        BY <2>2, <2>3, BytesOfNone
      <3>2. TotalBytes(items') = Bytes(items', Items)
        BY <2>2, BytesOfAll
      <3>3. QED BY <2>1, <3>1, <3>2 DEF BytesExact
    <2>5. PacketsInOrder' /\ VideoPackets' \subseteq VideoPackets
      BY <2>1, <2>2 DEF PacketsInOrder, InOrder, Leads, VideoPackets, Packets, Queued, Sending
    <2>6. FramesInOrder'
      BY <2>1, <2>5, SameFrames DEF Inv
    <2>7. TypeOK'
      BY <2>1, <2>2 DEF Inv, TypeOK
    <2>8. Threads'
      BY <2>1 DEF Inv, Threads, Sending
    <2>9. QED BY <2>4, <2>5, <2>6, <2>7, <2>8 DEF Inv
  <1>4. CASE ResetHandshake
    <2>1. /\ ready' = FALSE /\ session' = session + 1 /\ reset = "handshake" /\ reset' = "counters"
          /\ UNCHANGED <<input, fec, items, bytes, prot, loop, snd, ctr, passed, captured>>
      BY <1>4 DEF ResetHandshake, queueVars
    <2>2. PacketsInOrder' /\ BytesExact' /\ VideoPackets' \subseteq VideoPackets
      BY <2>1, SameQueue DEF Sending
    <2>3. FramesInOrder'
      BY <2>1, <2>2, SameFrames DEF Inv
    <2>4. session < MaxResets
      BY <2>1 DEF Inv, Threads
    <2>5. session' \in 0 .. MaxResets
      BY <1>1, <2>1, <2>4, Constants
    <2>6. TypeOK'
      BY <2>1, <2>5 DEF Inv, TypeOK
    <2>7. Threads'
      BY <2>1 DEF Inv, Threads, Sending
    <2>8. QED BY <2>2, <2>3, <2>6, <2>7 DEF Inv
  <1>5. CASE ResetCounters
    <2>1. /\ ctr' = [frame |-> 0, audio |-> 0, other |-> 0] /\ reset' = "idle"
          /\ UNCHANGED <<input, fec, items, bytes, prot, loop, snd, ready, passed, captured, session>>
      BY <1>5 DEF ResetCounters, queueVars
    <2>2. PacketsInOrder' /\ BytesExact' /\ VideoPackets' \subseteq VideoPackets
      BY <2>1, SameQueue DEF Sending
    <2>3. FramesInOrder'
      BY <2>1, <2>2, SameFrames DEF Inv
    <2>4. TypeOK'
      BY <2>1, Constants DEF Inv, TypeOK
    <2>5. Threads'
      <3> DEFINE n == IF fec.pc = "number" THEN 1 ELSE 0
      <3>1. n \in Nat /\ ctr.frame + Len(input) + n <= captured
        BY DEF Inv, Threads
      <3> HIDE DEF n
      <3>2. 0 + Len(input) + n <= captured
        BY <1>1, <3>1
      <3>3. ctr'.frame + Len(input') + (IF fec'.pc = "number" THEN 1 ELSE 0) <= captured'
        BY <2>1, <3>2 DEF n
      <3>4. QED BY <2>1, <3>3 DEF Inv, Threads, Sending
    <2>6. QED BY <2>2, <2>3, <2>4, <2>5 DEF Inv
  <1>6. QED BY <1>2, <1>3, <1>4, <1>5 DEF ResetSession

\* handshake_ready_ changes, or is looked at, and nothing else.
LEMMA ReadyStepsKeep ==
    ASSUME Inv, (\E stream \in Streams : PassReadyCheck(stream)) \/ AckReceived \/ PeerLost
    PROVE  Inv'
  <1>1. UNCHANGED <<input, fec, items, bytes, prot, loop, snd, ctr, reset, captured, session>>
    BY DEF PassReadyCheck, AckReceived, PeerLost, queueVars
  <1>2. ready' \in BOOLEAN /\ passed' \subseteq Streams
    BY DEF Inv, TypeOK, PassReadyCheck, AckReceived, PeerLost
  <1>3. PacketsInOrder' /\ BytesExact' /\ VideoPackets' \subseteq VideoPackets
    BY <1>1, SameQueue DEF Sending
  <1>4. FramesInOrder'
    BY <1>1, <1>3, SameFrames DEF Inv
  <1>5. TypeOK'
    BY <1>1, <1>2 DEF Inv, TypeOK
  <1>6. Threads'
    BY <1>1 DEF Inv, Threads, Sending
  <1>7. QED BY <1>3, <1>4, <1>5, <1>6 DEF Inv

\* The invariant holds at first.
LEMMA InvInit == Init => Inv
  <1> SUFFICES ASSUME Init PROVE Inv
    OBVIOUS
  <1>1. /\ input = <<>> /\ items = <<>> /\ bytes = 0 /\ prot = NoGroup /\ captured = 0 /\ session = 0
        /\ fec = [pc |-> "idle", f |-> NoFrame, group |-> 0]
        /\ loop = [pc |-> "free", newest |-> NoGroup]
        /\ snd = [pc |-> "idle", item |-> NoItem, frame |-> 0, packets |-> 0]
        /\ ctr = [frame |-> 0, audio |-> 0, other |-> 0]
        /\ passed = {} /\ ready = FALSE /\ reset = "idle"
    BY DEF Init
  <1>2. input \in Seq(Frames) /\ Len(input) = 0 /\ items \in Seq(Items) /\ Len(items) = 0 /\ 1 .. 0 = {}
    BY <1>1
  <1>3. 0 \in Groups
    BY Constants DEF Groups
  <1>4. TypeOK
    <2>1. /\ fec \in [pc : {"idle", "number", "push"}, f : Frames \cup {NoFrame}, group : Groups]
          /\ loop \in [pc : {"free", "trim", "enforce"}, newest : Groups \cup {NoGroup}]
          /\ snd \in [pc : {"idle", "popped", "send"}, item : Items \cup {NoItem}, frame : Groups, packets : Nat]
      BY <1>1, <1>3
    <2>2. ctr \in [frame : 0 .. MaxFrames, audio : 0 .. MaxAux, other : 0 .. MaxAux]
      BY <1>1, Constants
    <2>3. Len(input) <= MaxInput /\ captured \in 0 .. MaxFrames /\ session \in 0 .. MaxResets /\ bytes \in Nat
      BY <1>1, <1>2, Constants
    <2>4. passed \subseteq Streams /\ ready \in BOOLEAN /\ prot \in Groups \cup {NoGroup}
          /\ reset \in {"idle", "queue", "handshake", "counters"}
      BY <1>1
    <2>5. QED BY <1>2, <2>1, <2>2, <2>3, <2>4 DEF TypeOK
  <1>5. Threads
    BY <1>1, <1>2 DEF Threads, Sending
  <1>6. PacketsInOrder /\ FramesInOrder
    BY <1>1, <1>2 DEF PacketsInOrder, InOrder, Leads, FramesInOrder, VideoPackets, Packets, Queued, Sending
  <1>7. BytesExact
    <2>1. Bytes(items, Items) = 0
      BY <1>2, BytesOfNone
    <2>2. TotalBytes(items) = Bytes(items, Items)
      BY <1>2, BytesOfAll
    <2>3. QED BY <1>1, <2>1, <2>2 DEF BytesExact
  <1>8. QED BY <1>4, <1>5, <1>6, <1>7 DEF Inv

\* Every step keeps the invariant.
LEMMA InvNext == Inv /\ [Next]_vars => Inv'
  <1> SUFFICES ASSUME Inv, [Next]_vars PROVE Inv'
    OBVIOUS
  <1>1. CASE QueueLoops
    BY <1>1, LoopsKeep
  <1>2. CASE Free /\ (\/ (\E stream \in Streams : PassReadyCheck(stream)) \/ AckReceived \/ PeerLost)
    BY <1>2, ReadyStepsKeep
  <1>3. CASE Free /\ SendH264Frame
    BY <1>3, SendH264FrameKeeps
  <1>4. CASE Free /\ (SendAudioPacket \/ SendRobotTelemetry)
    <2>1. PICK stream \in {"Audio", "Other"}, g \in 0 .. MaxAux : AuxPush(stream, g)
      BY <1>4, AuxIsPush DEF Inv
    <2>2. QED BY <1>4, <2>1, AuxPushKeeps
  <1>5. CASE Free /\ FecThread
    BY <1>5, FecPopInputKeeps, FecNumberFrameKeeps, FecPushFrameKeeps DEF FecThread
  <1>6. CASE Free /\ PopPrioritized
    <2>1. PICK k \in 1 .. Len(items) : Pops(k)
      BY <1>6, PopPops DEF Inv
    <2>2. QED BY <1>6, <2>1, PopsKeep
  <1>7. CASE Free /\ (Protect \/ FlushFrame \/ Sent \/ SendFailed)
    BY <1>7, SendStepsKeep
  <1>8. CASE Free /\ SendWouldBlock
    BY <1>8, SendWouldBlockKeeps
  <1>9. CASE Free /\ ResetSession
    BY <1>9, ResetKeeps
  <1>10. CASE UNCHANGED vars
    <2>1. UNCHANGED <<input, fec, items, bytes, prot, loop, snd, ctr, passed, ready, reset, captured, session>>
      BY <1>10 DEF vars, queueVars
    <2>2. PacketsInOrder' /\ BytesExact' /\ VideoPackets' \subseteq VideoPackets
      BY <2>1, SameQueue DEF Sending
    <2>3. FramesInOrder'
      BY <2>1, <2>2, SameFrames DEF Inv
    <2>4. TypeOK' /\ Threads'
      BY <2>1 DEF Inv, TypeOK, Threads, Sending
    <2>5. QED BY <2>2, <2>3, <2>4 DEF Inv
  <1>11. QED
    BY <1>1, <1>2, <1>3, <1>4, <1>5, <1>6, <1>7, <1>8, <1>9, <1>10 DEF Next, Producers, SendThread

\* The invariant holds whatever is pushed, popped, evicted, put back or reset.
LEMMA InvAlways == Spec => []Inv
  <1>1. Init => Inv
    BY InvInit
  <1>2. Inv /\ [Next]_vars => Inv'
    BY InvNext
  <1>3. QED BY <1>1, <1>2, PTL DEF Spec

\* Every variable keeps its type: in particular frame_id_ never outruns the
\* frames captured, and the input queue its limit.
THEOREM SendPathTypes == Spec => []TypeOK
  BY InvAlways, PTL DEF Inv

\* queue_bytes_ is exact after every operation of SendQueue, the clamp at zero
\* in its subtractions included, which therefore never takes effect.
THEOREM QueueBytesExact == Spec => []BytesExact
  BY InvAlways, PTL DEF Inv

\* Priorities, eviction, requeue and resets never let a video packet overtake
\* an earlier one on its way to the socket.
THEOREM VideoKeepsCaptureOrder == Spec => []VideoInCaptureOrder
  <1>1. Inv => VideoInCaptureOrder
    <2> SUFFICES ASSUME Inv PROVE VideoInCaptureOrder
      OBVIOUS
    <2> DEFINE held == IF snd.item # NoItem THEN <<snd.item>> ELSE <<>>
               sending == held \o items
               waiting == (IF fec.pc = "idle" THEN <<>> ELSE <<fec.f>>) \o input
               video == {k \in DOMAIN sending : sending[k].stream = "Video"}
    <2>1. items \in Seq(Items) /\ Len(items) \in Nat /\ input \in Seq(Frames) /\ Len(input) \in Nat
      BY DEF Inv, TypeOK
    <2>2. /\ DOMAIN sending \subseteq Int
          /\ \A k \in DOMAIN sending :
                \/ ~Sending /\ k \in 1 .. Len(items) /\ sending[k] = items[k]
                \/ Sending /\ k = 1 /\ sending[k] = snd.item
                \/ Sending /\ k - 1 \in 1 .. Len(items) /\ sending[k] = items[k - 1]
      <3>1. CASE Sending
        <4>1. held = <<snd.item>>
          BY <3>1 DEF Inv, Threads
        <4>2. snd.item \in Items
          BY <3>1 DEF Inv, Threads, TypeOK
        <4>3. /\ sending \in Seq(Items) /\ Len(sending) = 1 + Len(items) /\ DOMAIN sending = 1 .. Len(sending)
              /\ sending[1] = snd.item /\ \A k \in 1 .. Len(items) : sending[k + 1] = items[k]
          <5>1. <<snd.item>> \in Seq(Items) /\ Len(<<snd.item>>) = 1 /\ <<snd.item>>[1] = snd.item
            BY <4>2
          <5>2. QED BY <2>1, <4>1, <5>1, ConcatProperties
        <4> HIDE DEF sending
        <4>4. SUFFICES ASSUME NEW k \in DOMAIN sending, k # 1
                       PROVE  k - 1 \in 1 .. Len(items) /\ sending[k] = items[k - 1]
          BY <3>1, <4>3
        <4>5. k - 1 \in 1 .. Len(items) /\ (k - 1) + 1 = k
          BY <2>1, <4>3, <4>4
        <4>6. QED BY <4>3, <4>5
      <3>2. CASE ~Sending
        <4>1. held = <<>>
          BY <3>2 DEF Inv, Threads
        <4>2. sending = items
          BY <2>1, <4>1
        <4>3. QED BY <2>1, <3>2, <4>2
      <3>3. QED BY <3>1, <3>2
    <2>3. /\ DOMAIN waiting \subseteq Int
          /\ \A k \in DOMAIN waiting :
                \/ fec.pc = "idle" /\ k \in 1 .. Len(input) /\ waiting[k] = input[k]
                \/ fec.pc # "idle" /\ k = 1 /\ waiting[k] = fec.f
                \/ fec.pc # "idle" /\ k - 1 \in 1 .. Len(input) /\ waiting[k] = input[k - 1]
      <3>1. CASE fec.pc # "idle"
        <4>1. waiting = <<fec.f>> \o input
          BY <3>1
        <4>2. fec.f \in Frames
          BY <3>1 DEF Inv, Threads
        <4>3. /\ waiting \in Seq(Frames) /\ Len(waiting) = 1 + Len(input) /\ DOMAIN waiting = 1 .. Len(waiting)
              /\ waiting[1] = fec.f /\ \A k \in 1 .. Len(input) : waiting[k + 1] = input[k]
          <5>1. <<fec.f>> \in Seq(Frames) /\ Len(<<fec.f>>) = 1 /\ <<fec.f>>[1] = fec.f
            BY <4>2
          <5>2. QED BY <2>1, <4>1, <5>1, ConcatProperties
        <4> HIDE DEF waiting
        <4>4. SUFFICES ASSUME NEW k \in DOMAIN waiting, k # 1
                       PROVE  k - 1 \in 1 .. Len(input) /\ waiting[k] = input[k - 1]
          BY <3>1, <4>3
        <4>5. k - 1 \in 1 .. Len(input) /\ (k - 1) + 1 = k
          BY <2>1, <4>3, <4>4
        <4>6. QED BY <4>3, <4>5
      <3>2. CASE fec.pc = "idle"
        <4>1. waiting = input
          BY <2>1, <3>2
        <4>2. QED BY <2>1, <3>2, <4>1
      <3>3. QED BY <3>1, <3>2
    <2>4. \A k \in video : sending[k] \in VideoPackets
      BY <2>2 DEF VideoPackets, Packets, Queued
    <2> HIDE DEF sending, waiting
    <2>5. ASSUME NEW j \in video, NEW k \in video, j < k
          PROVE  Before(sending[j], sending[k])
      <3>1. j \in Int /\ k \in Int /\ sending[j].stream = "Video" /\ sending[k].stream = "Video"
        BY <2>2
      <3>2. CASE Sending /\ j = 1 /\ sending[j] = snd.item
        <4>1. k - 1 \in 1 .. Len(items) /\ sending[k] = items[k - 1]
          BY <2>2, <2>5, <3>1, <3>2
        <4>2. QED BY <3>1, <3>2, <4>1 DEF Inv, PacketsInOrder, Leads
      <3>3. CASE Sending /\ j - 1 \in 1 .. Len(items) /\ sending[j] = items[j - 1]
        <4>1. k - 1 \in 1 .. Len(items) /\ sending[k] = items[k - 1]
          BY <2>1, <2>2, <2>5, <3>1, <3>3
        <4>2. j - 1 < k - 1
          BY <2>5, <3>1
        <4>3. QED BY <3>1, <3>3, <4>1, <4>2 DEF Inv, PacketsInOrder, InOrder
      <3>4. CASE ~Sending
        BY <2>2, <2>5, <3>1, <3>4 DEF Inv, PacketsInOrder, InOrder
      <3>5. QED BY <2>2, <3>2, <3>3, <3>4
    <2>6. \A j \in video, k \in DOMAIN waiting : sending[j].frame < waiting[k].frame
      BY <2>3, <2>4 DEF Inv, FramesInOrder
    <2>7. ASSUME NEW j \in DOMAIN waiting, NEW k \in DOMAIN waiting, j < k
          PROVE  waiting[j].frame < waiting[k].frame
      <3>1. j \in Int /\ k \in Int
        BY <2>3
      <3>2. CASE fec.pc # "idle" /\ j = 1 /\ waiting[j] = fec.f
        <4>1. k - 1 \in 1 .. Len(input) /\ waiting[k] = input[k - 1]
          BY <2>3, <2>7, <3>1, <3>2
        <4>2. QED BY <3>2, <4>1 DEF Inv, FramesInOrder
      <3>3. CASE fec.pc # "idle" /\ j - 1 \in 1 .. Len(input) /\ waiting[j] = input[j - 1]
        <4>1. k - 1 \in 1 .. Len(input) /\ waiting[k] = input[k - 1]
          BY <2>1, <2>3, <2>7, <3>1, <3>3
        <4>2. j - 1 < k - 1
          BY <2>7, <3>1
        <4>3. QED BY <3>3, <4>1, <4>2 DEF Inv, FramesInOrder
      <3>4. CASE fec.pc = "idle"
        BY <2>3, <2>7, <3>4 DEF Inv, FramesInOrder
      <3>5. QED BY <2>3, <3>2, <3>3, <3>4
    <2>8. QED BY <2>5, <2>6, <2>7 DEF VideoInCaptureOrder, sending, waiting
  <1>2. QED BY <1>1, InvAlways, PTL

-----------------------------------------------------------------------------
(***************************************************************************)
(* The limits, in one session.                                             *)
(***************************************************************************)

\* Packets have types, the counts too.
LEMMA LineTypes ==
    ASSUME Inv
    PROVE  /\ items \in Seq(Items) /\ Len(items) \in Nat /\ TotalBytes(items) \in Nat
           /\ \A i \in Packets : i \in Items
           /\ Sending => /\ snd.item \in Items /\ snd.item \in Packets
                         /\ WireBytes(snd.item) \in Nat /\ WireBytes(snd.item) <= LargestPacket
           /\ N(items, Protected) \in Nat /\ N(items, Protected) <= Len(items)
           /\ Bytes(items, Protected) \in Nat /\ Bytes(items, Protected) <= TotalBytes(items)
           /\ prot \in Groups \cup {NoGroup} /\ prot \in Int /\ LargestPacket \in Nat
  <1>1. items \in Seq(Items) /\ Len(items) \in Nat /\ (Sending => snd.item \in Items)
    BY DEF Inv, TypeOK, Threads
  <1>2. \A i \in Packets : i \in Items
    BY <1>1, ElementOfSeq DEF Packets, Queued
  <1>3. Sending => /\ snd.item \in Packets /\ WireBytes(snd.item) \in Nat
                   /\ WireBytes(snd.item) <= LargestPacket
    BY <1>1, BytesOfOne DEF Packets
  <1>4. Protected \in SUBSET Items
    BY DEF Protected
  <1>5. N(items, Protected) \in Nat /\ N(items, Protected) <= Len(items)
    BY <1>1, CountType
  <1>6. Bytes(items, Protected) \in Nat /\ Bytes(items, Protected) <= TotalBytes(items) /\ TotalBytes(items) \in Nat
    BY <1>1, <1>4, BytesType, BytesOfAll, BytesOfSome
  <1>7. prot \in Groups \cup {NoGroup} /\ prot \in Int
    BY Constants DEF Inv, TypeOK, Groups, NoGroup
  <1>8. LargestPacket \in Nat
    BY Constants DEF LargestPacket
  <1>9. QED BY <1>1, <1>2, <1>3, <1>5, <1>6, <1>7, <1>8

\* Fewer packets and bytes are within the limits too.
LEMMA FewerWithinLimits ==
    ASSUME NEW p \in Nat, NEW w \in Nat, NEW q \in Nat, NEW v \in Nat, Limits(p, w), q <= p, v <= w
    PROVE  Limits(q, v)
  <1>1. MaxPackets \in Nat /\ MaxBytes \in Nat /\ LargestPacket \in Nat
    BY Constants DEF LargestPacket
  <1>2. QED BY <1>1 DEF Limits

\* Numbers of groups stay used once when packets only leave.
LEMMA SameGroups ==
    ASSUME GroupsUsedOnce, Packets' \subseteq Packets,
           UNCHANGED <<fec, ctr, reset, session>>, prot' < NextGroup
    PROVE  GroupsUsedOnce'
  <1>1. VideoPackets' \subseteq VideoPackets
    BY DEF VideoPackets
  <1>2. NextGroup' = NextGroup
    BY DEF NextGroup
  <1>3. QED BY <1>1, <1>2 DEF GroupsUsedOnce

\* A loop ends with the limits met or with nothing left that it may take.
LEMMA LoopsKeepSession ==
    ASSUME SessionInv, QueueLoops
    PROVE  SessionInv'
  <1>1. Inv'
    BY LoopsKeep DEF SessionInv
  <1>2. /\ UNCHANGED <<fec, prot, snd, ctr, reset, session>> /\ ~Free
        /\ \/ UNCHANGED <<items, bytes>> /\ (Free' => ~OverLimits \/ OpenPositions = {})
           \/ ~Free' /\ \E K \in SUBSET OpenPositions : Takes(K)
    BY LoopSteps DEF SessionInv, Inv
  <1>3. QueueOK
    BY DEF SessionInv, Inv, TypeOK, PacketsInOrder, QueueOK
  <1>4. \A K \in SUBSET OpenPositions : K \in SUBSET (1 .. Len(items))
    BY DEF OpenPositions
  <1>5. /\ Queued' \subseteq Queued
        /\ ~UNCHANGED <<items, bytes>> =>
              \A E : /\ N(items', E) \in Nat /\ N(items', E) <= N(items, E)
                     /\ Bytes(items', E) \in Nat /\ Bytes(items', E) <= Bytes(items, E)
    <2>1. CASE UNCHANGED <<items, bytes>>
      BY <2>1 DEF Queued
    <2>2. CASE \E K \in SUBSET OpenPositions : Takes(K)
      BY <1>3, <1>4, <2>2, TakesKeeps
    <2>3. QED BY <1>2, <2>1, <2>2
  <1>6. Packets' \subseteq Packets
    BY <1>2, <1>5 DEF Packets, Sending
  <1>7. GroupsUsedOnce'
    BY <1>2, <1>6, SameGroups DEF SessionInv, GroupsUsedOnce
  <1>8. CountedIsProtected'
    BY <1>2 DEF SessionInv, CountedIsProtected
  <1>9. Protected' = Protected /\ (HeldOpen' <=> HeldOpen) /\ (Sending' <=> Sending) /\ snd' = snd
    BY <1>2 DEF Protected, IsProtected, HeldOpen, Sending
  <1> DEFINE n == N(items, Protected)
             v == Bytes(items, Protected)
             w == WireBytes(snd.item)
             total == TotalBytes(items)
  <1>10. /\ Len(items) \in Nat /\ total \in Nat /\ n \in Nat /\ v \in Nat
         /\ Sending => w \in Nat /\ w <= LargestPacket
         /\ LargestPacket \in Nat /\ items \in Seq(Items)
    BY LineTypes DEF SessionInv
  <1>11. HeldOpen => Sending /\ Limits(n + 1, v + w)
    BY <1>2 DEF SessionInv, LineBounded, HeldOpen
  <1>12. CASE ~Free'
    <2> DEFINE n2 == N(items', Protected)
               v2 == Bytes(items', Protected)
    <2>1. SUFFICES ASSUME HeldOpen PROVE Limits(n2 + 1, v2 + w)
      <3>1. ~Free' /\ HeldOpen' => Limits(N(items', Protected) + 1, Bytes(items', Protected) + WireBytes(snd.item))
        BY <1>9, <2>1
      <3>2. LineBounded'
        BY <1>9, <1>12, <3>1 DEF LineBounded
      <3>3. QED BY <1>1, <1>7, <1>8, <3>2 DEF SessionInv
    <2>2. n2 \in Nat /\ n2 <= n /\ v2 \in Nat /\ v2 <= v
      <3>1. CASE UNCHANGED <<items, bytes>>
        BY <1>10, <3>1
      <3>2. CASE ~UNCHANGED <<items, bytes>>
        BY <1>5, <3>2
      <3>3. QED BY <3>1, <3>2
    <2> HIDE DEF n, v, w, n2, v2
    <2>3. n + 1 \in Nat /\ v + w \in Nat /\ n2 + 1 \in Nat /\ v2 + w \in Nat /\ n2 + 1 <= n + 1 /\ v2 + w <= v + w
      BY <1>10, <1>11, <2>1, <2>2
    <2>4. QED BY <1>11, <2>1, <2>3, FewerWithinLimits
  <1>13. CASE Free'
    <2>1. UNCHANGED <<items, bytes>> /\ (~OverLimits \/ OpenPositions = {})
      BY <1>2, <1>13
    <2>2. (QueueOpen' <=> OpenPositions # {}) /\ TotalBytes(items') = total /\ Len(items') = Len(items)
      BY <1>2, <2>1 DEF QueueOpen, OpenPositions, IsProtected
    <2>3. CASE ~OverLimits
      <3>1. /\ MaxPackets > 0 => Len(items) <= MaxPackets
            /\ MaxBytes > 0 => total <= MaxBytes
        <4>1. bytes = total
          BY DEF SessionInv, Inv, BytesExact
        <4>2. QED BY <1>10, <2>3, <4>1, Constants DEF OverLimits
      <3> HIDE DEF total, w
      <3>2. Limits(Len(items), total)
        BY <1>10, <3>1, Constants DEF Limits
      <3>3. Sending => Limits(Len(items) + 1, total + w)
        BY <1>10, <3>1, Constants DEF Limits
      <3>4. LineBounded'
        BY <1>9, <1>13, <2>2, <3>2, <3>3 DEF LineBounded, w
      <3>5. QED BY <1>1, <1>7, <1>8, <3>4 DEF SessionInv
    <2>4. CASE OpenPositions = {}
      <3>1. \A k \in 1 .. Len(items) : items[k] \in Protected
        BY <1>10, <2>4, ElementOfSeq DEF OpenPositions, Protected
      <3>2. n = Len(items) /\ v = total
        <4>1. {k \in 1 .. Len(items) : items[k] \in Protected} = {k \in 1 .. Len(items) : items[k] \in Items}
          BY <1>10, <3>1, ElementOfSeq
        <4>2. N(items, Items) = Len(items) /\ Bytes(items, Items) = total
          BY <1>10, CountAll, BytesOfAll
        <4>3. n = N(items, Items)
          BY <4>1 DEF N
        <4>4. \A E : {k \in 1 .. Len(items) : items[k] \in Protected \cap E}
                        = {k \in 1 .. Len(items) : items[k] \in Items \cap E}
          BY <1>10, <3>1, ElementOfSeq
        <4>5. v = Bytes(items, Items)
          BY <4>4 DEF N, Bytes
        <4>6. QED BY <4>2, <4>3, <4>5
      <3>3. ~QueueOpen' /\ (HeldOpen => Limits(Len(items) + 1, total + w))
        BY <1>11, <2>2, <2>4, <3>2
      <3>4. LineBounded'
        BY <1>9, <1>13, <2>2, <3>3 DEF LineBounded
      <3>5. QED BY <1>1, <1>7, <1>8, <3>4 DEF SessionInv
    <2>5. QED BY <2>1, <2>3, <2>4
  <1>14. QED BY <1>12, <1>13

\* A push of what is not protected.
LEMMA PushLine ==
    ASSUME SessionInv, Free, ~Free', NEW b \in Seq(Items), UNCHANGED <<prot, snd>>,
           \A k \in 1 .. Len(b) : ~IsProtected(b[k]),
           \A E : /\ N(items', E) = N(items, E) + N(b, E)
                  /\ Bytes(items', E) = Bytes(items, E) + Bytes(b, E)
    PROVE  LineBounded' /\ CountedIsProtected'
  <1>1. Protected' = Protected /\ (HeldOpen' <=> HeldOpen) /\ snd' = snd
    BY DEF Protected, IsProtected, HeldOpen, Sending
  <1>2. N(b, Protected) = 0 /\ Bytes(b, Protected) = 0
    <2>1. \A k \in 1 .. Len(b) : b[k] \notin Protected
      BY DEF Protected
    <2>2. QED BY <2>1, BytesOfNone
  <1> DEFINE n == N(items, Protected)
             v == Bytes(items, Protected)
             w == WireBytes(snd.item)
             total == TotalBytes(items)
  <1>3. /\ Len(items) \in Nat /\ total \in Nat /\ n \in Nat /\ v \in Nat /\ n <= Len(items) /\ v <= total
        /\ Sending => w \in Nat
    BY LineTypes DEF SessionInv
  <1>4. N(items', Protected) = n /\ Bytes(items', Protected) = v
    BY <1>2, <1>3
  <1>5. HeldOpen => Sending /\ Limits(Len(items) + 1, total + w)
    BY DEF SessionInv, LineBounded, HeldOpen
  <1> HIDE DEF n, v, w, total
  <1>6. HeldOpen => Limits(n + 1, v + w)
    <2>1. SUFFICES ASSUME HeldOpen PROVE Limits(n + 1, v + w)
      OBVIOUS
    <2>2. /\ Len(items) + 1 \in Nat /\ total + w \in Nat /\ n + 1 \in Nat /\ v + w \in Nat
          /\ n + 1 <= Len(items) + 1 /\ v + w <= total + w
      BY <1>3, <1>5, <2>1
    <2>3. QED BY <1>5, <2>1, <2>2, FewerWithinLimits
  <1>7. LineBounded'
    BY <1>1, <1>4, <1>6 DEF LineBounded, w
  <1>8. CountedIsProtected'
    BY DEF SessionInv, CountedIsProtected
  <1>9. QED BY <1>7, <1>8

\* A batch carries a new group number, so nothing of it is protected.
LEMMA FecPushFrameKeepsSession ==
    ASSUME SessionInv, Free, FecPushFrame
    PROVE  SessionInv'
  <1> DEFINE b == FramePackets(fec.f, fec.group)
  <1>1. Inv'
    BY FecPushFrameKeeps DEF SessionInv
  <1>2. /\ fec.pc = "push" /\ fec.f \in Frames /\ fec.group \in Groups
        /\ fec'.pc = "idle"
        /\ items' = items \o b /\ bytes' = bytes + TotalBytes(b)
        /\ loop' = [pc |-> IF fec.group = NoGroup THEN "enforce" ELSE "trim", newest |-> fec.group]
        /\ UNCHANGED <<prot, snd, ctr, reset, session>>
    BY DEF SessionInv, Inv, Threads, TypeOK, FecPushFrame, PushBatch
  <1>3. /\ b \in Seq(Items) /\ InOrder(b) /\ Len(b) \in Nat
        /\ \A k \in 1 .. Len(b) : /\ b[k].stream = "Video" /\ b[k].group = fec.group
                                  /\ b[k].frame = fec.f.frame
                                  /\ b[k].kind = "GroupEnd" => b[k].index = SourcePackets + ParityPackets
    BY <1>2, FrameBatch
  <1> HIDE DEF b
  <1>4. ~Free'
    BY <1>2 DEF Free
  <1>5. /\ NextGroup = fec.group /\ prot < fec.group /\ NextGroup' = fec.group + 1
        /\ prot \in Int /\ fec.group \in Int
        /\ \A i \in VideoPackets : i.group < fec.group /\ i.group \in Int
    <2>1. ctr.frame \in Int /\ ctr'.frame = ctr.frame /\ fec.group = ctr.frame - 1
      BY <1>2 DEF SessionInv, Inv, TypeOK, GroupsUsedOnce
    <2>2. NextGroup = fec.group /\ NextGroup' = fec.group + 1
      BY <1>2, <2>1 DEF NextGroup
    <2>3. prot \in Int /\ \A i \in VideoPackets : i \in Items
      BY LineTypes DEF SessionInv, VideoPackets
    <2>4. \A i \in Items : i.group \in Int
      BY Constants DEF Items, Groups
    <2>5. QED BY <2>1, <2>2, <2>3, <2>4 DEF SessionInv, GroupsUsedOnce
  <1>6. \A k \in 1 .. Len(b) : ~IsProtected(b[k])
    BY <1>3, <1>5 DEF IsProtected
  <1>7. QueueOK
    BY DEF SessionInv, Inv, TypeOK, PacketsInOrder, QueueOK
  <1>8. \A j \in 1 .. Len(items), k \in 1 .. Len(b) :
           items[j].stream = "Video" /\ b[k].stream = "Video" => Before(items[j], b[k])
    <2>1. \A i \in VideoPackets : i.frame < fec.f.frame
      BY <1>2 DEF SessionInv, Inv, FramesInOrder
    <2>2. QED BY <1>3, <2>1 DEF Before, VideoPackets, Packets, Queued
  <1>9. /\ Queued' = Queued \cup {b[k] : k \in 1 .. Len(b)}
        /\ \A E : /\ N(items', E) = N(items, E) + N(b, E)
                  /\ Bytes(items', E) = Bytes(items, E) + Bytes(b, E)
    BY <1>2, <1>3, <1>7, <1>8, PushKeeps
  <1>10. LineBounded' /\ CountedIsProtected'
    BY <1>2, <1>3, <1>4, <1>6, <1>9, PushLine
  <1>11. \A i \in Packets' :
            \/ i \in Packets
            \/ /\ i.stream = "Video" /\ i.group = fec.group /\ i.frame = fec.f.frame
               /\ i.kind = "GroupEnd" => i.index = SourcePackets + ParityPackets
    BY <1>2, <1>3, <1>9 DEF Packets, Sending
  <1>12. \A i \in VideoPackets' : i \in VideoPackets \/ (i.group = fec.group /\ i.frame = fec.f.frame)
    BY <1>11 DEF VideoPackets
  <1>13. GroupsUsedOnce'
    <2>1. reset' = "idle" /\ session' = 0 /\ prot' < NextGroup'
      BY <1>2, <1>5 DEF SessionInv, GroupsUsedOnce
    <2>2. \A i \in VideoPackets' : i.group < NextGroup'
      BY <1>5, <1>12
    <2>3. \A i, j \in VideoPackets' : i.group = j.group => i.frame = j.frame
      BY <1>5, <1>12 DEF SessionInv, GroupsUsedOnce
    <2>4. \A i \in Packets' : i.kind = "GroupEnd" => i.stream = "Video" /\ i.index = SourcePackets + ParityPackets
      BY <1>11 DEF SessionInv, GroupsUsedOnce
    <2>5. QED BY <1>2, <2>1, <2>2, <2>3, <2>4 DEF GroupsUsedOnce
  <1>14. QED BY <1>1, <1>10, <1>13 DEF SessionInv

\* An audio or telemetry packet is never protected.
LEMMA AuxPushKeepsSession ==
    ASSUME SessionInv, Free, NEW stream \in {"Audio", "Other"}, NEW g \in 0 .. MaxAux, AuxPush(stream, g)
    PROVE  SessionInv'
  <1> DEFINE b == <<AuxPacket(stream, g)>>
  <1>1. Inv'
    BY AuxPushKeeps DEF SessionInv
  <1>2. /\ items' = items \o b /\ bytes' = bytes + TotalBytes(b)
        /\ loop' = [pc |-> "enforce", newest |-> NoGroup]
        /\ ctr'.frame = ctr.frame
        /\ UNCHANGED <<fec, prot, snd, reset, session>>
    BY DEF AuxPush, PushBatch
  <1>3. /\ b \in Seq(Items) /\ InOrder(b) /\ Len(b) = 1
        /\ \A k \in 1 .. Len(b) : b[k].stream # "Video" /\ b[k].kind # "GroupEnd"
    BY AuxBatch DEF SessionInv, Inv
  <1> HIDE DEF b
  <1>4. ~Free' /\ \A k \in 1 .. Len(b) : ~IsProtected(b[k])
    BY <1>2, <1>3 DEF Free, IsProtected
  <1>5. QueueOK
    BY DEF SessionInv, Inv, TypeOK, PacketsInOrder, QueueOK
  <1>6. /\ Queued' = Queued \cup {b[k] : k \in 1 .. Len(b)}
        /\ \A E : /\ N(items', E) = N(items, E) + N(b, E)
                  /\ Bytes(items', E) = Bytes(items, E) + Bytes(b, E)
    BY <1>2, <1>3, <1>5, PushKeeps
  <1>7. LineBounded' /\ CountedIsProtected'
    BY <1>2, <1>3, <1>4, <1>6, PushLine
  <1>8. \A i \in Packets' : i \in Packets \/ (i.stream # "Video" /\ i.kind # "GroupEnd")
    BY <1>2, <1>3, <1>6 DEF Packets, Sending
  <1>9. VideoPackets' \subseteq VideoPackets /\ NextGroup' = NextGroup
    BY <1>2, <1>8 DEF VideoPackets, NextGroup
  <1>10. GroupsUsedOnce'
    BY <1>2, <1>8, <1>9 DEF SessionInv, GroupsUsedOnce
  <1>11. QED BY <1>1, <1>7, <1>10 DEF SessionInv

\* A packet taken stays on its way to the socket.
LEMMA PopsKeepSession ==
    ASSUME SessionInv, Free, NEW k \in 1 .. Len(items), Pops(k)
    PROVE  SessionInv'
  <1>1. Inv'
    BY PopsKeep DEF SessionInv
  <1>2. /\ Takes({k}) /\ snd.pc = "idle" /\ Len(items) = Len(items') + 1
        /\ TotalBytes(items) = TotalBytes(items') + WireBytes(items[k])
        /\ UNCHANGED <<fec, prot, loop, ctr, reset, session>>
    BY DEF Pops
  <1>3. snd'.pc = "popped" /\ snd'.item = items[k] /\ snd'.frame = snd.frame /\ snd'.packets = snd.packets
    BY DEF Pops, SessionInv, Inv, TypeOK
  <1>4. QueueOK /\ items[k] \in Queued
    BY DEF SessionInv, Inv, TypeOK, PacketsInOrder, QueueOK, Queued
  <1>5. Queued' \subseteq Queued
    BY <1>2, <1>4, TakesKeeps
  <1>6. Packets' \subseteq Packets
    BY <1>3, <1>4, <1>5 DEF Packets
  <1>7. GroupsUsedOnce'
    BY <1>2, <1>6, SameGroups DEF SessionInv, GroupsUsedOnce
  <1>8. CountedIsProtected'
    BY <1>2, <1>3 DEF SessionInv, CountedIsProtected
  <1>9. LineBounded'
    <2>1. Free' /\ Sending' /\ ~Sending
      BY <1>2, <1>3 DEF Free, Sending
    <2>2. \A i : IsProtected(i)' <=> IsProtected(i)
      BY <1>2 DEF IsProtected
    <2>3. QueueOpen' \/ HeldOpen' => QueueOpen
      <3>1. QueueOpen <=> \E i \in Queued : ~IsProtected(i)
        BY DEF QueueOpen, Queued
      <3>2. QueueOpen' => \E i \in Queued' : ~IsProtected(i)
        BY <1>2 DEF QueueOpen, Queued, IsProtected
      <3>3. HeldOpen' => ~IsProtected(items[k])
        BY <1>2, <1>3 DEF HeldOpen, IsProtected
      <3>4. QED BY <1>4, <1>5, <3>1, <3>2, <3>3
    <2>4. QueueOpen => Limits(Len(items), TotalBytes(items))
      BY <2>1 DEF SessionInv, LineBounded
    <2>5. QueueOpen => Limits(Len(items') + 1, TotalBytes(items') + WireBytes(items[k]))
      BY <1>2, <2>4
    <2>6. QED BY <1>3, <2>1, <2>3, <2>5 DEF LineBounded
  <1>10. QED BY <1>1, <1>7, <1>8, <1>9 DEF SessionInv

\* The packet whose group becomes protected was open itself.
LEMMA ProtectKeepsSession ==
    ASSUME SessionInv, Free, Protect
    PROVE  SessionInv'
  <1>1. Inv'
    BY SendStepsKeep DEF SessionInv
  <1> DEFINE first == snd.item.stream = "Video" /\ snd.packets = 0
  <1>2. /\ snd.pc = "popped" /\ UNCHANGED <<fec, items, bytes, loop, ctr, reset, session>>
        /\ snd' = [snd EXCEPT !.pc = "send", !.frame = IF first THEN snd.item.group ELSE snd.frame]
        /\ prot' = IF first THEN snd.item.group ELSE prot
    BY DEF Protect
  <1>3. /\ snd \in [pc : {"idle", "popped", "send"}, item : Items \cup {NoItem}, frame : Groups, packets : Nat]
        /\ snd.item \in Items /\ snd.item \in Packets /\ Sending
    BY <1>2, LineTypes DEF SessionInv, Inv, TypeOK, Sending
  <1>4. /\ snd'.pc = "send" /\ snd'.item = snd.item /\ snd'.packets = snd.packets
        /\ snd'.frame = IF first THEN snd.item.group ELSE snd.frame
    BY <1>2, <1>3
  <1>5. Packets' \subseteq Packets /\ Sending'
    BY <1>2, <1>3, <1>4 DEF Packets, Queued, Sending
  <1>6. GroupsUsedOnce'
    <2>1. prot' < NextGroup
      BY <1>2, <1>3 DEF SessionInv, GroupsUsedOnce, VideoPackets
    <2>2. QED BY <1>2, <1>5, <2>1, SameGroups DEF SessionInv
  <1>7. CountedIsProtected'
    <2>1. CASE first
      BY <1>2, <1>4, <2>1 DEF CountedIsProtected
    <2>2. CASE ~first
      <3>1. snd.packets \in Nat
        BY <1>3
      <3>2. prot' = prot /\ snd'.frame = snd.frame
        BY <1>2, <1>4, <2>2
      <3>3. snd.item.stream = "Video" => snd.packets > 0
        BY <2>2, <3>1
      <3>4. QED BY <1>4, <3>2, <3>3 DEF SessionInv, CountedIsProtected
    <2>3. QED BY <2>1, <2>2
  <1>8. LineBounded'
    <2>1. Free' /\ Len(items') = Len(items) /\ TotalBytes(items') = TotalBytes(items)
          /\ WireBytes(snd'.item) = WireBytes(snd.item)
      BY <1>2, <1>4 DEF Free
    <2>2. QueueOpen' \/ HeldOpen' => QueueOpen \/ HeldOpen
      <3>1. CASE prot' = prot
        BY <1>2, <1>3, <1>4, <3>1 DEF QueueOpen, HeldOpen, IsProtected, Sending
      <3>2. CASE prot' # prot
        <4>1. prot' = snd.item.group
          BY <1>2, <3>2
        <4>2. ~IsProtected(snd.item)
          BY <3>2, <4>1 DEF IsProtected
        <4>3. QED BY <1>3, <4>2 DEF HeldOpen
      <3>3. QED BY <3>1, <3>2
    <2>3. QED BY <1>3, <1>5, <2>1, <2>2 DEF SessionInv, LineBounded
  <1>9. QED BY <1>1, <1>6, <1>7, <1>8 DEF SessionInv

\* The send thread is done with what it holds.
LEMMA HandsEmpty ==
    ASSUME SessionInv, Free, Free', Sending, ~Sending', UNCHANGED items,
           QueueOpen' => QueueOpen \/ HeldOpen
    PROVE  LineBounded'
  <1> DEFINE w == WireBytes(snd.item)
             total == TotalBytes(items)
  <1>1. Len(items) \in Nat /\ total \in Nat /\ w \in Nat
    BY LineTypes DEF SessionInv
  <1>2. QueueOpen' => Limits(Len(items) + 1, total + w)
    BY DEF SessionInv, LineBounded
  <1> HIDE DEF w, total
  <1>3. Len(items) + 1 \in Nat /\ total + w \in Nat /\ Len(items) <= Len(items) + 1 /\ total <= total + w
    BY <1>1
  <1>4. QueueOpen' => Limits(Len(items), total)
    BY <1>1, <1>2, <1>3, FewerWithinLimits
  <1>5. QED BY <1>4 DEF LineBounded, total

\* The marker that ends the protection is the last packet of its group.
LEMMA FlushFrameKeepsSession ==
    ASSUME SessionInv, Free, FlushFrame
    PROVE  SessionInv'
  <1>1. Inv'
    BY SendStepsKeep DEF SessionInv
  <1>2. /\ snd.pc = "popped" /\ snd.item.kind = "GroupEnd"
        /\ prot' = IF snd.packets > 0 /\ prot = snd.frame THEN NoGroup ELSE prot
        /\ snd' = [pc |-> "idle", item |-> NoItem, frame |-> 0, packets |-> 0]
        /\ UNCHANGED <<fec, items, bytes, loop, ctr, reset, session>>
    BY DEF FlushFrame
  <1>3. snd.item \in Items /\ snd.item \in Packets /\ Sending /\ ~Sending'
    BY <1>2, LineTypes DEF SessionInv, Sending
  <1>4. Packets' \subseteq Packets
    BY <1>2, <1>3 DEF Packets, Queued
  <1>5. GroupsUsedOnce'
    <2>1. NextGroup \in Nat
      BY DEF SessionInv, Inv, TypeOK, NextGroup, Groups
    <2>2. prot' < NextGroup
      BY <1>2, <2>1 DEF SessionInv, GroupsUsedOnce, NoGroup
    <2>3. QED BY <1>2, <1>4, <2>2, SameGroups DEF SessionInv
  <1>6. CountedIsProtected'
    BY <1>2 DEF CountedIsProtected
  <1>7. QueueOpen' => QueueOpen \/ HeldOpen
    <2>1. SUFFICES ASSUME NEW k \in 1 .. Len(items), ~QueueOpen, ~HeldOpen PROVE FALSE
      BY <1>2 DEF QueueOpen
    <2>2. /\ items[k].stream = "Video" /\ items[k].group = prot
          /\ snd.item.stream = "Video" /\ snd.item.group = prot
      BY <1>3, <2>1 DEF QueueOpen, HeldOpen, IsProtected
    <2>3. items[k] \in VideoPackets /\ snd.item \in VideoPackets /\ items[k] \in Items
      BY <1>3, <2>2, LineTypes DEF SessionInv, VideoPackets, Packets, Queued
    <2>4. items[k].frame = snd.item.frame
      BY <2>2, <2>3 DEF SessionInv, GroupsUsedOnce
    <2>5. Before(snd.item, items[k])
      BY <1>3, <2>2 DEF SessionInv, Inv, PacketsInOrder, Leads
    <2>6. snd.item.index = SourcePackets + ParityPackets
      BY <1>2, <1>3 DEF SessionInv, GroupsUsedOnce
    <2>7. items[k].index \in 0 .. SourcePackets + ParityPackets /\ items[k].frame \in Int
      BY <2>3 DEF Items
    <2>8. QED BY <2>4, <2>5, <2>6, <2>7, Constants DEF Before
  <1>8. LineBounded'
    BY <1>2, <1>3, <1>7, HandsEmpty DEF Free
  <1>9. QED BY <1>1, <1>5, <1>6, <1>8 DEF SessionInv

\* A packet sent or given up leaves.
LEMMA SentKeepsSession ==
    ASSUME SessionInv, Free, Sent \/ SendFailed
    PROVE  SessionInv'
  <1>1. Inv'
    BY SendStepsKeep DEF SessionInv
  <1>2. snd \in [pc : {"idle", "popped", "send"}, item : Items \cup {NoItem}, frame : Groups, packets : Nat]
    BY DEF SessionInv, Inv, TypeOK
  <1>3. snd.pc = "send" /\ UNCHANGED <<fec, items, bytes, prot, loop, ctr, reset, session>>
    BY DEF Sent, SendFailed, queueVars
  <1>4. /\ snd'.pc = "idle" /\ snd'.frame = snd.frame
        /\ snd'.packets > 0 => snd.packets > 0 \/ snd.item.stream = "Video"
    BY <1>2 DEF Sent, SendFailed
  <1>5. Sending /\ ~Sending' /\ Packets' \subseteq Packets
    BY <1>3, <1>4 DEF Sending, Packets, Queued
  <1>6. GroupsUsedOnce'
    BY <1>3, <1>5, SameGroups DEF SessionInv, GroupsUsedOnce
  <1>7. CountedIsProtected'
    BY <1>3, <1>4 DEF SessionInv, CountedIsProtected
  <1>8. QueueOpen' => QueueOpen
    BY <1>3 DEF QueueOpen, IsProtected
  <1>9. LineBounded'
    BY <1>3, <1>5, <1>8, HandsEmpty DEF Free
  <1>10. QED BY <1>1, <1>6, <1>7, <1>9 DEF SessionInv

\* A packet put back was on its way before.
LEMMA SendWouldBlockKeepsSession ==
    ASSUME SessionInv, Free, SendWouldBlock
    PROVE  SessionInv'
  <1>1. Inv'
    BY SendWouldBlockKeeps DEF SessionInv
  <1>2. /\ snd.pc = "send" /\ RequeueFront(snd.item)
        /\ snd' = [snd EXCEPT !.pc = "idle", !.item = NoItem]
        /\ UNCHANGED <<fec, prot, loop, ctr, reset, session>>
    BY DEF SendWouldBlock, RequeueFront
  <1>3. snd \in [pc : {"idle", "popped", "send"}, item : Items \cup {NoItem}, frame : Groups, packets : Nat]
    BY DEF SessionInv, Inv, TypeOK
  <1>4. Sending /\ snd.item \in Items /\ snd.item \in Packets
    BY <1>2, LineTypes DEF SessionInv, Sending
  <1>5. QueueOK /\ (snd.item.stream = "Video" => Leads(snd.item, items))
    BY <1>4 DEF SessionInv, Inv, TypeOK, PacketsInOrder, QueueOK
  <1>6. /\ Queued' = Queued \cup {snd.item} /\ Len(items') = Len(items) + 1
        /\ TotalBytes(items') = TotalBytes(items) + WireBytes(snd.item)
    BY <1>2, <1>4, <1>5, RequeueKeeps
  <1>7. snd'.pc = "idle" /\ snd'.frame = snd.frame /\ snd'.packets = snd.packets
    BY <1>2, <1>3
  <1>8. Packets' \subseteq Packets /\ ~Sending'
    BY <1>4, <1>6, <1>7 DEF Packets, Sending
  <1>9. GroupsUsedOnce'
    BY <1>2, <1>8, SameGroups DEF SessionInv, GroupsUsedOnce
  <1>10. CountedIsProtected'
    BY <1>2, <1>7 DEF SessionInv, CountedIsProtected
  <1>11. QueueOpen' => QueueOpen \/ HeldOpen
    <2>1. QueueOpen <=> \E i \in Queued : ~IsProtected(i)
      BY DEF QueueOpen, Queued
    <2>2. QueueOpen' => \E i \in Queued' : ~IsProtected(i)
      BY <1>2 DEF QueueOpen, Queued, IsProtected
    <2>3. QED BY <1>4, <1>6, <2>1, <2>2 DEF HeldOpen
  <1>12. LineBounded'
    <2>1. Free'
      BY <1>2 DEF Free
    <2>2. QueueOpen' => Limits(Len(items'), TotalBytes(items'))
      BY <1>4, <1>6, <1>11 DEF SessionInv, LineBounded
    <2>3. QED BY <1>8, <2>1, <2>2 DEF LineBounded
  <1>13. QED BY <1>1, <1>9, <1>10, <1>12 DEF SessionInv

\* The steps that leave the queue and the send thread alone.
LEMMA OtherStepsKeepSession ==
    ASSUME SessionInv, Inv', UNCHANGED <<items, prot, loop, snd, reset, session>>,
           NextGroup' = NextGroup, fec'.pc = "push" => fec'.group = ctr'.frame - 1
    PROVE  SessionInv'
  <1>1. Packets' = Packets /\ VideoPackets' = VideoPackets
    BY DEF Packets, VideoPackets, Queued, Sending
  <1>2. GroupsUsedOnce'
    BY <1>1 DEF SessionInv, GroupsUsedOnce
  <1>3. CountedIsProtected'
    BY DEF SessionInv, CountedIsProtected
  <1>4. /\ (Free' <=> Free) /\ (Sending' <=> Sending) /\ (QueueOpen' <=> QueueOpen) /\ (HeldOpen' <=> HeldOpen)
        /\ Protected' = Protected
    BY DEF Free, Sending, QueueOpen, HeldOpen, Protected, IsProtected
  <1>5. LineBounded'
    BY <1>4 DEF SessionInv, LineBounded
  <1>6. QED BY <1>2, <1>3, <1>5 DEF SessionInv

\* The invariant of a session holds at first.
LEMMA SessionInit == Init => SessionInv
  <1> SUFFICES ASSUME Init PROVE SessionInv
    OBVIOUS
  <1>1. Inv
    BY InvInit
  <1>2. /\ items = <<>> /\ prot = NoGroup /\ session = 0 /\ reset = "idle"
        /\ fec.pc = "idle" /\ ctr.frame = 0 /\ Free
        /\ snd.pc = "idle" /\ snd.packets = 0
    BY DEF Init, Free
  <1>3. 1 .. Len(items) = {} /\ ~Sending
    BY <1>2 DEF Sending
  <1>4. Packets = {} /\ VideoPackets = {} /\ ~QueueOpen
    BY <1>3 DEF Packets, VideoPackets, Queued, QueueOpen
  <1>5. GroupsUsedOnce
    BY <1>2, <1>4 DEF GroupsUsedOnce, NextGroup, NoGroup
  <1>6. CountedIsProtected
    BY <1>2 DEF CountedIsProtected
  <1>7. LineBounded
    BY <1>2, <1>3, <1>4 DEF LineBounded
  <1>8. QED BY <1>1, <1>5, <1>6, <1>7 DEF SessionInv

\* Every step of the only session keeps its invariant.
LEMMA SessionNext ==
    ASSUME OneSession
    PROVE  SessionInv /\ [Next]_vars => SessionInv'
  <1> SUFFICES ASSUME SessionInv, [Next]_vars PROVE SessionInv'
    OBVIOUS
  <1>0. Inv'
    BY InvNext DEF SessionInv
  <1>1. CASE QueueLoops
    BY <1>1, LoopsKeepSession
  <1>2. CASE Free /\ (\/ (\E stream \in Streams : PassReadyCheck(stream)) \/ AckReceived \/ PeerLost \/ SendH264Frame)
    <2>1. UNCHANGED <<fec, items, prot, loop, snd, ctr, reset, session>>
      BY <1>2 DEF PassReadyCheck, AckReceived, PeerLost, SendH264Frame, queueVars
    <2>2. NextGroup' = NextGroup /\ (fec'.pc = "push" => fec'.group = ctr'.frame - 1)
      BY <2>1 DEF NextGroup, SessionInv, GroupsUsedOnce
    <2>3. QED BY <1>0, <2>1, <2>2, OtherStepsKeepSession
  <1>3. CASE Free /\ (FecPopInput \/ FecNumberFrame)
    <2>1. UNCHANGED <<items, prot, loop, snd, reset, session>>
      BY <1>3 DEF FecPopInput, FecNumberFrame, queueVars
    <2>2. /\ fec \in [pc : {"idle", "number", "push"}, f : Frames \cup {NoFrame}, group : Groups]
          /\ ctr \in [frame : 0 .. MaxFrames, audio : 0 .. MaxAux, other : 0 .. MaxAux]
      BY DEF SessionInv, Inv, TypeOK
    <2>3. NextGroup' = NextGroup /\ (fec'.pc = "push" => fec'.group = ctr'.frame - 1)
      <3>1. CASE FecPopInput
        BY <2>2, <3>1 DEF FecPopInput, NextGroup
      <3>2. CASE FecNumberFrame
        BY <2>2, <3>2 DEF FecNumberFrame, NextGroup
      <3>3. QED BY <1>3, <3>1, <3>2
    <2>4. QED BY <1>0, <2>1, <2>3, OtherStepsKeepSession
  <1>4. CASE Free /\ FecPushFrame
    BY <1>4, FecPushFrameKeepsSession
  <1>5. CASE Free /\ (SendAudioPacket \/ SendRobotTelemetry)
    <2>1. PICK stream \in {"Audio", "Other"}, g \in 0 .. MaxAux : AuxPush(stream, g)
      BY <1>5, AuxIsPush DEF SessionInv, Inv
    <2>2. QED BY <1>5, <2>1, AuxPushKeepsSession
  <1>6. CASE Free /\ PopPrioritized
    <2>1. PICK k \in 1 .. Len(items) : Pops(k)
      BY <1>6, PopPops DEF SessionInv, Inv
    <2>2. QED BY <1>6, <2>1, PopsKeepSession
  <1>7. CASE Free /\ (Protect \/ FlushFrame \/ Sent \/ SendFailed \/ SendWouldBlock)
    BY <1>7, ProtectKeepsSession, FlushFrameKeepsSession, SentKeepsSession, SendWouldBlockKeepsSession
  <1>8. CASE ResetSession
    <2>1. reset = "idle" /\ session = 0 /\ MaxResets = 0
      BY DEF SessionInv, GroupsUsedOnce, OneSession
    <2>2. QED BY <1>8, <2>1 DEF ResetSession, ResetInput, ResetQueue, ResetHandshake, ResetCounters
  <1>9. CASE UNCHANGED vars
    <2>1. UNCHANGED <<fec, items, prot, loop, snd, ctr, reset, session>>
      BY <1>9 DEF vars, queueVars
    <2>2. NextGroup' = NextGroup /\ (fec'.pc = "push" => fec'.group = ctr'.frame - 1)
      BY <2>1 DEF NextGroup, SessionInv, GroupsUsedOnce
    <2>3. QED BY <1>0, <2>1, <2>2, OtherStepsKeepSession
  <1>10. QED
    BY <1>1, <1>2, <1>3, <1>4, <1>5, <1>6, <1>7, <1>8, <1>9 DEF Next, Producers, FecThread, SendThread

\* The invariant of a session holds throughout it.
LEMMA SessionAlways ==
    ASSUME OneSession
    PROVE  Spec => []SessionInv
  <1>1. Init => SessionInv
    BY SessionInit
  <1>2. SessionInv /\ [Next]_vars => SessionInv'
    BY SessionNext
  <1>3. QED BY <1>1, <1>2, PTL DEF Spec

\* In a session the queue keeps to its limits between two operations whatever
\* the socket refuses: the packet that is put back is the only one over them,
\* and only a protected group alone may exceed them.  With a reset this is not
\* so: a frame numbered before it may share its number with one after it.
THEOREM SessionWithinLimits ==
    ASSUME OneSession
    PROVE  Spec => []WithinLimits
  <1>1. SessionInv => WithinLimits
    <2> SUFFICES ASSUME SessionInv PROVE WithinLimits
      OBVIOUS
    <2> DEFINE w == WireBytes(snd.item)
               total == TotalBytes(items)
    <2>1. Len(items) \in Nat /\ total \in Nat /\ (Sending => w \in Nat) /\ DOMAIN items = 1 .. Len(items)
      BY LineTypes DEF SessionInv
    <2>2. Len(input) <= MaxInput
      BY DEF SessionInv, Inv, TypeOK
    <2>3. Free /\ QueueOpen /\ ~Sending => Limits(Len(items), total)
      BY DEF SessionInv, LineBounded
    <2>4. Free /\ QueueOpen /\ Sending => Limits(Len(items), total)
      <3>1. SUFFICES ASSUME Free, QueueOpen, Sending PROVE Limits(Len(items), total)
        OBVIOUS
      <3>2. Limits(Len(items) + 1, total + w)
        BY <3>1 DEF SessionInv, LineBounded
      <3> HIDE DEF w, total
      <3>3. Len(items) + 1 \in Nat /\ total + w \in Nat /\ Len(items) <= Len(items) + 1 /\ total <= total + w
        BY <2>1, <3>1
      <3>4. QED BY <2>1, <3>2, <3>3, FewerWithinLimits
    <2>5. QED BY <2>1, <2>2, <2>3, <2>4 DEF WithinLimits, QueueOpen, Limits
  <1>2. QED BY <1>1, SessionAlways, PTL

\* In a session no limit and no backlog takes a packet of the frame of which a
\* packet is already sent.
THEOREM SessionPartlySentKept ==
    ASSUME OneSession
    PROVE  Spec => PartlySentKept
  <1> DEFINE Kept == ~Free /\ snd.packets > 0 =>
                       \A k \in DOMAIN items :
                          items[k].stream = "Video" /\ items[k].group = snd.frame
                          => \E j \in DOMAIN items' : items'[j] = items[k]
  <1>1. SessionInv /\ [Next]_vars => Kept
    <2>1. SUFFICES ASSUME SessionInv, [Next]_vars, ~Free, snd.packets > 0, NEW k \in DOMAIN items,
                          items[k].stream = "Video", items[k].group = snd.frame
                   PROVE  \E j \in DOMAIN items' : items'[j] = items[k]
      OBVIOUS
    <2>2. QueueOK /\ DOMAIN items = 1 .. Len(items)
      BY <2>1 DEF SessionInv, Inv, TypeOK, PacketsInOrder, QueueOK
    <2>3. IsProtected(items[k])
      <3>1. prot = snd.frame /\ snd.frame \in Groups
        BY <2>1 DEF SessionInv, CountedIsProtected, Inv, TypeOK
      <3>2. snd.frame # NoGroup
        BY <3>1, Constants DEF Groups, NoGroup
      <3>3. QED BY <2>1, <3>1, <3>2 DEF IsProtected
    <2>4. CASE items' = items
      BY <2>4
    <2>5. CASE \E K \in SUBSET OpenPositions : Takes(K)
      <3>1. PICK K \in SUBSET OpenPositions : Takes(K)
        BY <2>5
      <3> DEFINE R == 1 .. Len(items) \ K
      <3>2. K \in SUBSET (1 .. Len(items)) /\ k \in R
        BY <2>2, <2>3 DEF OpenPositions
      <3>3. Thins(items', items, R, Enum(R)) /\ items' \in Seq(Items)
        BY <2>2, <3>1, <3>2, TakesKeeps DEF QueueOK
      <3> HIDE DEF R
      <3>4. PICK j \in 1 .. Len(items') : Enum(R)[j] = k
        BY <3>2, <3>3 DEF Thins
      <3>5. items'[j] = items[k] /\ j \in DOMAIN items'
        BY <3>3, <3>4 DEF Thins
      <3>6. QED BY <3>5
    <2>6. CASE QueueLoops
      BY <2>1, <2>4, <2>5, <2>6, LoopSteps DEF SessionInv, Inv
    <2>7. CASE UNCHANGED vars
      BY <2>4, <2>7 DEF vars, queueVars
    <2>8. QED BY <2>1, <2>6, <2>7 DEF Next
  <1>2. SessionInv /\ [Next]_vars => [Kept]_vars
    BY <1>1
  <1>3. QED BY <1>2, SessionAlways, PTL DEF Spec, PartlySentKept
=============================================================================
