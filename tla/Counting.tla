----------------------------- MODULE Counting ------------------------------
(***************************************************************************)
(* Lemmas that count what is on its way: the elements of a queue, and the  *)
(* goroutines that hold something, that lie in a given set.  The proofs    *)
(* about the flash sale rest on them.                                      *)
(***************************************************************************)
EXTENDS Integers, Sequences, FiniteSets, SequenceTheorems, FiniteSetTheorems, TLAPS

\* What appending to a queue and taking its first element yield.
LEMMA QueueFacts ==
    ASSUME NEW S, NEW q \in Seq(S)
    PROVE  /\ \A e \in S : /\ Append(q, e) \in Seq(S)
                           /\ Len(Append(q, e)) = Len(q) + 1
                           /\ \A i \in 1..Len(Append(q, e)) :
                                 \/ i \in 1..Len(q) /\ Append(q, e)[i] = q[i]
                                 \/ Append(q, e)[i] = e
           /\ q # <<>> => /\ Head(q) \in S /\ Head(q) = q[1] /\ 1 \in 1..Len(q)
                          /\ Tail(q) \in Seq(S)
                          /\ Len(Tail(q)) = Len(q) - 1
                          /\ \A i \in 1..Len(Tail(q)) :
                                i + 1 \in 1..Len(q) /\ Tail(q)[i] = q[i + 1]
           /\ Len(q) \in Nat
  OBVIOUS

\* A channel of capacity one.
LEMMA QueueOfOne ==
    ASSUME NEW S, NEW q \in Seq(S), q # <<>>, Len(q) <= 1
    PROVE  Len(q) = 1 /\ Head(q) = q[1] /\ Head(q) \in S /\ Tail(q) = <<>>
  <1>1. /\ Len(q) \in Nat \ {0} /\ Head(q) = q[1] /\ Head(q) \in S
        /\ Tail(q) \in Seq(S) /\ Len(Tail(q)) = Len(q) - 1
    OBVIOUS
  <1> DEFINE n == Len(q)
             t == Tail(q)
  <1>2. n \in Nat \ {0} /\ n <= 1 /\ Len(t) = n - 1 /\ t \in Seq(S)
    BY <1>1
  <1> HIDE DEF n, t
  <1>3. n = 1 /\ Len(t) = 0
    BY <1>2
  <1>4. t = <<>>
    BY <1>2, <1>3, EmptySeq
  <1>5. QED
    BY <1>1, <1>3, <1>4 DEF n, t

-----------------------------------------------------------------------------
\* The elements of a queue, the goroutines' hands and the single value that
\* lie in G.
CountIn(q, G) == Cardinality({i \in 1..Len(q) : q[i] \in G})
HeldIn(f, G)  == {v \in DOMAIN f : f[v] \in G}
Weight(x, G)  == IF x \in G THEN 1 ELSE 0

LEMMA WeightType == ASSUME NEW x, NEW G PROVE Weight(x, G) \in {0, 1}
  BY DEF Weight

LEMMA CountType ==
    ASSUME NEW S, NEW q \in Seq(S), NEW G
    PROVE  /\ IsFiniteSet({i \in 1..Len(q) : q[i] \in G})
           /\ CountIn(q, G) \in Nat
           /\ q = <<>> => CountIn(q, G) = 0
  <1> DEFINE I == {i \in 1..Len(q) : q[i] \in G}
  <1>1. IsFiniteSet(1..Len(q)) /\ I \in SUBSET (1..Len(q))
    BY FS_Interval
  <1>2. IsFiniteSet(I) /\ Cardinality(I) \in Nat
    BY <1>1, FS_Subset, FS_CardinalityType
  <1>3. q = <<>> => I = {}
    OBVIOUS
  <1>4. CountIn(q, G) = Cardinality(I)
    BY DEF CountIn
  <1> HIDE DEF I
  <1>5. q = <<>> => Cardinality(I) = 0
    BY <1>3, FS_EmptySet
  <1>6. QED
    BY <1>2, <1>4, <1>5 DEF I

LEMMA CountAppend ==
    ASSUME NEW S, NEW q \in Seq(S), NEW e \in S, NEW G
    PROVE  CountIn(Append(q, e), G) = CountIn(q, G) + Weight(e, G)
  <1> DEFINE I == {i \in 1..Len(q) : q[i] \in G}
             J == {i \in 1..Len(Append(q, e)) : Append(q, e)[i] \in G}
  <1>1. /\ Len(q) \in Nat
        /\ Len(Append(q, e)) = Len(q) + 1
        /\ Append(q, e)[Len(q) + 1] = e
        /\ \A i \in 1..Len(q) : Append(q, e)[i] = q[i]
    OBVIOUS
  <1>2. /\ CountIn(q, G) = Cardinality(I) /\ CountIn(Append(q, e), G) = Cardinality(J)
        /\ IsFiniteSet(I) /\ Cardinality(I) \in Nat
    BY CountType DEF CountIn
  <1> HIDE DEF I, J
  <1>3. CASE e \in G
    <2>1. Len(q) + 1 \notin I /\ J = I \cup {Len(q) + 1}
      BY <1>1, <1>3 DEF I, J
    <2>2. QED
      BY <1>2, <1>3, <2>1, FS_AddElement DEF Weight
  <1>4. CASE e \notin G
    <2>1. J = I
      BY <1>1, <1>4 DEF I, J
    <2>2. QED
      BY <1>2, <1>4, <2>1 DEF Weight
  <1>5. QED
    BY <1>3, <1>4

\* A queue without its i-th element holds that much less.
LEMMA CountRemove ==
    ASSUME NEW S, NEW q \in Seq(S), NEW i \in 1..Len(q), NEW G
    PROVE  LET r == SubSeq(q, 1, i - 1) \o SubSeq(q, i + 1, Len(q))
           IN  CountIn(r, G) + Weight(q[i], G) <= CountIn(q, G)
  <1> DEFINE r == SubSeq(q, 1, i - 1) \o SubSeq(q, i + 1, Len(q))
             I == {j \in 1..Len(q) : q[j] \in G}
             J == {j \in 1..Len(r) : r[j] \in G}
             f == [j \in J |-> IF j < i THEN j ELSE j + 1]
  <1>1. /\ Len(q) \in Nat /\ r \in Seq(S)
        /\ Len(r) = Len(q) - 1
        /\ \A j \in 1..Len(r) : r[j] = q[IF j < i THEN j ELSE j + 1]
    <2> DEFINE a == SubSeq(q, 1, i - 1)
               b == SubSeq(q, i + 1, Len(q))
    <2>1. /\ a \in Seq(S) /\ Len(a) = i - 1
          /\ \A j \in 1..(i - 1) : a[j] = q[j]
      BY SubSeqProperties
    <2>2. /\ b \in Seq(S) /\ Len(b) = Len(q) - i
          /\ \A j \in 1..(Len(q) - i) : b[j] = q[i + j]
      BY SubSeqProperties
    <2>3. /\ a \o b \in Seq(S) /\ Len(a \o b) = Len(a) + Len(b)
          /\ \A j \in 1..Len(a) + Len(b) :
                (a \o b)[j] = IF j <= Len(a) THEN a[j] ELSE b[j - Len(a)]
      BY <2>1, <2>2, ConcatProperties
    <2>4. r = a \o b
      OBVIOUS
    <2> HIDE DEF a, b, r
    <2>5. Len(q) \in Nat /\ r \in Seq(S) /\ Len(r) = Len(q) - 1
      <3>1. Len(q) \in Nat /\ i \in Int
        OBVIOUS
      <3>2. r \in Seq(S) /\ Len(r) = Len(a) + Len(b)
        BY <2>3, <2>4
      <3>3. Len(a) = i - 1 /\ Len(b) = Len(q) - i
        BY <2>1, <2>2
      <3>4. QED
        BY <3>1, <3>2, <3>3
    <2>6. ASSUME NEW j \in 1..Len(r) PROVE r[j] = q[IF j < i THEN j ELSE j + 1]
      <3>1. r[j] = IF j <= Len(a) THEN a[j] ELSE b[j - Len(a)]
        BY <2>1, <2>2, <2>3, <2>4, <2>5
      <3>2. CASE j < i
        <4>1. j \in 1..(i - 1) /\ j <= Len(a)
          BY <2>1, <2>5, <3>2
        <4>2. QED
          BY <2>1, <3>1, <3>2, <4>1
      <3>3. CASE ~(j < i)
        <4>1. /\ ~(j <= Len(a)) /\ j - Len(a) = j + 1 - i
              /\ j + 1 - i \in 1..(Len(q) - i)
          BY <2>1, <2>5, <3>3
        <4>2. b[j + 1 - i] = q[i + (j + 1 - i)]
          BY <2>2, <4>1
        <4>3. i + (j + 1 - i) = j + 1
          BY <2>5
        <4>4. QED
          BY <3>1, <3>3, <4>1, <4>2, <4>3
      <3>4. QED
        BY <3>2, <3>3
    <2>7. QED
      BY <2>5, <2>6
  <1>2. /\ CountIn(q, G) = Cardinality(I) /\ CountIn(r, G) = Cardinality(J)
        /\ IsFiniteSet(I) /\ Cardinality(I) \in Nat
        /\ IsFiniteSet(J) /\ Cardinality(J) \in Nat
    <2>1. CountIn(q, G) = Cardinality(I) /\ CountIn(r, G) = Cardinality(J)
      BY DEF CountIn
    <2>2. IsFiniteSet(I) /\ IsFiniteSet(J)
      BY <1>1, CountType
    <2>3. QED
      BY <2>1, <2>2, FS_CardinalityType
  <1> HIDE DEF r
  <1>3. Cardinality(J) <= Cardinality(I \ {i})
    <2>1. f \in Injection(J, I \ {i})
      <3>1. f \in [J -> I \ {i}]
        BY <1>1
      <3>2. \A j, k \in J : f[j] = f[k] => j = k
        BY <1>1
      <3>3. QED
        BY <3>1, <3>2 DEF Injection, IsInjective
    <2>2. IsFiniteSet(I \ {i})
      BY <1>2, FS_RemoveElement
    <2>3. QED
      BY <2>1, <2>2, FS_Injection
  <1>4. i \in I <=> q[i] \in G
    OBVIOUS
  <1> HIDE DEF I, J
  <1>5. Cardinality(I \ {i}) = IF i \in I THEN Cardinality(I) - 1 ELSE Cardinality(I)
    BY <1>2, FS_RemoveElement
  <1>6. Cardinality(J) + Weight(q[i], G) <= Cardinality(I)
    BY <1>2, <1>3, <1>4, <1>5 DEF Weight
  <1>7. QED
    BY <1>2, <1>6 DEF r

LEMMA CountTail ==
    ASSUME NEW S, NEW q \in Seq(S), q # <<>>, NEW G
    PROVE  CountIn(Tail(q), G) + Weight(Head(q), G) <= CountIn(q, G)
  <1>1. /\ 1 \in 1..Len(q) /\ Head(q) = q[1]
    OBVIOUS
  <1>2. Tail(q) = SubSeq(q, 1, 0) \o SubSeq(q, 2, Len(q))
    <2>1. SubSeq(q, 1, 0) = <<>>
      OBVIOUS
    <2>2. SubSeq(q, 2, Len(q)) = Tail(q)
      OBVIOUS
    <2>3. <<>> \o Tail(q) = Tail(q)
      OBVIOUS
    <2>4. QED
      BY <2>1, <2>2, <2>3
  <1>3. 1 - 1 = 0 /\ 1 + 1 = 2
    OBVIOUS
  <1>4. QED
    BY <1>1, <1>2, <1>3, CountRemove

\* A finite set that changes at most at v.
LEMMA SetChanges ==
    ASSUME NEW A, IsFiniteSet(A), NEW B, NEW v, B \ {v} = A \ {v}
    PROVE  /\ IsFiniteSet(B) /\ Cardinality(A) \in Nat /\ Cardinality(B) \in Nat
           /\ Cardinality(B) + Weight(v, A) = Cardinality(A) + Weight(v, B)
  <1>1. Cardinality(A) \in Nat
    BY FS_CardinalityType
  <1>2. CASE (v \in A) <=> (v \in B)
    <2>1. A = B
      BY <1>2
    <2>2. QED
      BY <1>1, <2>1, WeightType
  <1>3. CASE v \in A /\ v \notin B
    <2>1. B = A \ {v}
      BY <1>3
    <2>2. IsFiniteSet(B) /\ Cardinality(B) = Cardinality(A) - 1
      BY <1>3, <2>1, FS_RemoveElement
    <2>3. Cardinality(B) \in Nat
      BY <2>2, FS_CardinalityType
    <2>4. QED
      BY <1>1, <1>3, <2>2, <2>3 DEF Weight
  <1>4. CASE v \notin A /\ v \in B
    <2>1. B = A \cup {v}
      BY <1>4
    <2>2. IsFiniteSet(B) /\ Cardinality(B) = Cardinality(A) + 1
      BY <1>4, <2>1, FS_AddElement
    <2>3. QED
      BY <1>1, <1>4, <2>2 DEF Weight
  <1>5. QED
    BY <1>2, <1>3, <1>4

\* A goroutine that holds something else than before.
LEMMA HandChanges ==
    ASSUME NEW f, NEW g, IsFiniteSet(DOMAIN f), DOMAIN g = DOMAIN f,
           NEW v \in DOMAIN f, \A u \in DOMAIN f : u # v => g[u] = f[u], NEW G
    PROVE  /\ Cardinality(HeldIn(f, G)) \in Nat
           /\ Cardinality(HeldIn(g, G)) \in Nat
           /\ Cardinality(HeldIn(g, G)) + Weight(f[v], G)
                  = Cardinality(HeldIn(f, G)) + Weight(g[v], G)
  <1> DEFINE A == HeldIn(f, G)
             B == HeldIn(g, G)
  <1>1. IsFiniteSet(A)
    <2>1. A \subseteq DOMAIN f
      BY DEF HeldIn
    <2>2. QED
      BY <2>1, FS_Subset
  <1>2. B \ {v} = A \ {v}
    BY DEF HeldIn
  <1>3. Weight(v, A) = Weight(f[v], G) /\ Weight(v, B) = Weight(g[v], G)
    BY DEF HeldIn, Weight
  <1> HIDE DEF A, B
  <1>4. /\ Cardinality(A) \in Nat /\ Cardinality(B) \in Nat
        /\ Cardinality(B) + Weight(v, A) = Cardinality(A) + Weight(v, B)
    BY <1>1, <1>2, SetChanges
  <1>5. QED
    BY <1>3, <1>4 DEF A, B
=============================================================================
