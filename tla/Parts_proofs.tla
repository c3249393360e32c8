---------------------------- MODULE Parts_proofs ----------------------------
(***************************************************************************)
(* Proofs about the systems of the chapters before the flash sale: remote  *)
(* calls, sums, streams, gateways, the life of a service and its           *)
(* configuration, each for all values of its constants.                    *)
(***************************************************************************)
EXTENDS StringCalls, SumChain, StreamCalls, Gateways, ServiceLife, ConfigBus,
        Counting, WellFoundedInduction

-----------------------------------------------------------------------------
(* --------------------------- string services --------------------------- *)

\* What holds at the start of a loop and is kept by every round holds in the
\* end: G is the set of the rounds after which it does.
LEMMA LoopInduction ==
    ASSUME NEW N \in Nat, NEW G, 0 \in G,
           \A n \in 0 .. N : n < N /\ n \in G => n + 1 \in G
    PROVE  \A n \in 0 .. N : n \in G
  <1> DEFINE T == {n \in 0 .. N : n \notin G}
  <1>1. SUFFICES ASSUME T # {} PROVE FALSE
    OBVIOUS
  <1>2. T \in SUBSET Nat
    OBVIOUS
  <1>3. PICK k \in T : \A l \in T : <<l, k>> \notin OpToRel(<, Nat)
    BY <1>1, <1>2, WFMin, NatLessThanWellFounded
  <1>4. \A l \in T : ~ (l < k)
    BY <1>2, <1>3 DEF OpToRel
  <1>5. k \in 0 .. N /\ k # 0
    BY <1>3
  <1>6. k - 1 \in 0 .. N /\ k - 1 < N /\ k - 1 < k /\ (k - 1) + 1 = k
    BY <1>5
  <1>7. k - 1 \in G
    BY <1>4, <1>6
  <1> QED
    BY <1>3, <1>6, <1>7

\* The rounds of the loop over b, as a function from their number.
Round(a, b, res, n) == IF n = 0 THEN <<>>
                       ELSE IF b[n] \in Characters(a) THEN Append(res[n - 1], b[n])
                       ELSE res[n - 1]
Scans(a, b, N) == {res \in [0 .. N -> Seq(Chars)] :
                      \A n \in 0 .. N : res[n] = Round(a, b, res, n)}

\* The loop of Diff has rounds: the recursive function is well defined.
LEMMA LoopRuns ==
    ASSUME NEW a, NEW b \in Seq(Chars)
    PROVE  Scans(a, b, Len(b)) # {}
  <1> DEFINE G == {n \in 0 .. Len(b) : Scans(a, b, n) # {}}
  <1>0. Len(b) \in Nat
    OBVIOUS
  <1>1. 0 \in G
    <2> DEFINE f == [n \in 0 .. 0 |-> <<>>]
    <2>1. f \in [0 .. 0 -> Seq(Chars)]
      OBVIOUS
    <2>2. f \in Scans(a, b, 0)
      BY <2>1 DEF Scans, Round
    <2> QED
      BY <1>0, <2>2
  <1>2. ASSUME NEW n \in 0 .. Len(b), n < Len(b), n \in G
        PROVE  n + 1 \in G
    <2>1. PICK f : f \in Scans(a, b, n)
      BY <1>2
    <2>2. f \in [0 .. n -> Seq(Chars)] /\ \A i \in 0 .. n : f[i] = Round(a, b, f, i)
      BY <2>1 DEF Scans
    <2>3. /\ n \in Nat /\ n + 1 \in 0 .. Len(b) /\ b[n + 1] \in Chars
          /\ 0 .. n + 1 = (0 .. n) \cup {n + 1} /\ n \in 0 .. n /\ n + 1 \notin 0 .. n
          /\ (n + 1) - 1 = n
      BY <1>0, <1>2
    <2> DEFINE last == IF b[n + 1] \in Characters(a) THEN Append(f[n], b[n + 1]) ELSE f[n]
               g == [i \in 0 .. n + 1 |-> IF i = n + 1 THEN last ELSE f[i]]
    <2>4. last \in Seq(Chars)
      <3>1. f[n] \in Seq(Chars)
        BY <2>2, <2>3
      <3>2. Append(f[n], b[n + 1]) \in Seq(Chars)
        BY <3>1, <2>3
      <3> QED
        BY <3>1, <3>2
    <2> HIDE DEF last
    <2>5. g \in [0 .. n + 1 -> Seq(Chars)]
      BY <2>2, <2>3, <2>4
    <2>6. g[n + 1] = last /\ (\A i \in 0 .. n : g[i] = f[i])
      BY <2>3
    <2> HIDE DEF g
    <2>7. \A i \in 0 .. n : g[i] = Round(a, b, g, i)
      <3> SUFFICES ASSUME NEW i \in 0 .. n PROVE g[i] = Round(a, b, g, i)
        OBVIOUS
      <3>1. i = 0 \/ i - 1 \in 0 .. n
        BY <2>3
      <3>2. g[i] = f[i] /\ (i = 0 \/ g[i - 1] = f[i - 1])
        BY <3>1, <2>6
      <3>3. f[i] = Round(a, b, f, i)
        BY <2>2
      <3> QED
        BY <3>2, <3>3 DEF Round
    <2>8. g[n + 1] = Round(a, b, g, n + 1)
      <3>1. n + 1 # 0 /\ g[(n + 1) - 1] = f[n]
        BY <2>3, <2>6
      <3> QED
        BY <2>6, <3>1 DEF Round, last
    <2>9. g \in Scans(a, b, n + 1)
      BY <2>3, <2>5, <2>7, <2>8 DEF Scans
    <2> QED
      BY <2>3, <2>9
  <1>3. \A n \in 0 .. Len(b) : n \in G
    <2> HIDE DEF G
    <2> QED
      BY <1>0, <1>1, <1>2, LoopInduction
  <1> QED
    BY <1>0, <1>3

\* What Diff returns is what its loop has after the last round.
LEMMA CommonIsLast ==
    ASSUME NEW a, NEW b \in Seq(Chars)
    PROVE  \E res \in Scans(a, b, Len(b)) : Common(a, b) = res[Len(b)]
  <1> DEFINE N == Len(b)
             F(r) == [n \in 0 .. Len(b) |->
                        IF n = 0 THEN <<>>
                        ELSE IF b[n] \in Characters(a) THEN Append(r[n - 1], b[n])
                        ELSE r[n - 1]]
             c == CHOOSE r : r = F(r)
  <1>1. Len(b) \in Nat
    OBVIOUS
  <1>2. PICK f : f \in Scans(a, b, Len(b))
    BY LoopRuns
  <1>3. f = F(f)
    <2>1. f \in [0 .. Len(b) -> Seq(Chars)] /\ \A n \in 0 .. Len(b) : f[n] = Round(a, b, f, n)
      BY <1>2 DEF Scans
    <2> QED
      BY <2>1 DEF Round
  <1>4. c = F(c)
    <2> HIDE DEF F
    <2> QED
      BY <1>3
  <1>5. Common(a, b) = c[Len(b)]
    BY DEF Common
  <1> HIDE DEF c
  <1>6. \A n \in 0 .. Len(b) : c[n] = Round(a, b, c, n)
    BY <1>4 DEF Round
  <1>7. DOMAIN c = 0 .. Len(b)
    BY <1>4
  <1>8. \A n \in 0 .. Len(b) : c[n] \in Seq(Chars)
    <2> DEFINE G == {n \in 0 .. Len(b) : c[n] \in Seq(Chars)}
    <2>1. 0 \in G
      <3>1. 0 \in 0 .. Len(b) /\ <<>> \in Seq(Chars)
        BY <1>1
      <3>2. c[0] = <<>>
        BY <3>1, <1>6 DEF Round
      <3> QED
        BY <3>1, <3>2
    <2>2. ASSUME NEW n \in 0 .. Len(b), n < Len(b), n \in G PROVE n + 1 \in G
      <3>1. /\ n + 1 \in 0 .. Len(b) /\ n + 1 # 0 /\ (n + 1) - 1 = n /\ b[n + 1] \in Chars
            /\ c[n] \in Seq(Chars)
        BY <1>1, <2>2
      <3>2. c[n + 1] = IF b[n + 1] \in Characters(a) THEN Append(c[n], b[n + 1]) ELSE c[n]
        BY <1>6, <3>1 DEF Round
      <3>3. Append(c[n], b[n + 1]) \in Seq(Chars)
        BY <3>1
      <3> QED
        BY <3>1, <3>2, <3>3
    <2> HIDE DEF G
    <2>3. \A n \in 0 .. Len(b) : n \in G
      BY <1>1, <2>1, <2>2, LoopInduction
    <2> QED
      BY <2>3 DEF G
  <1>9. c = [n \in 0 .. Len(b) |-> c[n]]
    BY <1>4, <1>7
  <1>10. c \in [0 .. Len(b) -> Seq(Chars)]
    BY <1>8, <1>9
  <1> QED
    BY <1>5, <1>6, <1>10 DEF Scans

\* The positions of b up to n whose characters a contains, and the place of
\* each among them.
Picked(a, b, n)  == {i \in 1 .. n : b[i] \in Characters(a)}
Place(P, i)      == Cardinality({j \in P : j <= i})
Positions(s, c)  == {i \in DOMAIN s : s[i] = c}
UpTo(b, c, n)    == {i \in 1 .. n : b[i] = c}

\* After n rounds: the characters picked, in their order, each as often.
Gathered(a, b, d, n) ==
    /\ Len(d) = Cardinality(Picked(a, b, n))
    /\ \A i \in Picked(a, b, n) :
          /\ Place(Picked(a, b, n), i) \in 1 .. Len(d)
          /\ d[Place(Picked(a, b, n), i)] = b[i]
    /\ Characters(d) = Characters(a) \cap {b[i] : i \in 1 .. n}
    /\ \A c \in Characters(a) : Cardinality(Positions(d, c)) = Cardinality(UpTo(b, c, n))

LEMMA Appended ==
    ASSUME NEW d \in Seq(Chars), NEW e \in Chars
    PROVE  /\ Characters(Append(d, e)) = Characters(d) \cup {e}
           /\ Positions(Append(d, e), e) = Positions(d, e) \cup {Len(d) + 1}
           /\ \A c : c # e => Positions(Append(d, e), c) = Positions(d, c)
           /\ \A c : IsFiniteSet(Positions(d, c))
           /\ \A c : Len(d) + 1 \notin Positions(d, c)
  <1>1. /\ Len(d) \in Nat /\ DOMAIN d = 1 .. Len(d)
        /\ DOMAIN Append(d, e) = 1 .. (Len(d) + 1)
        /\ Append(d, e)[Len(d) + 1] = e
        /\ \A i \in 1 .. Len(d) : Append(d, e)[i] = d[i]
        /\ 1 .. (Len(d) + 1) = (1 .. Len(d)) \cup {Len(d) + 1}
        /\ Len(d) + 1 \notin 1 .. Len(d)
    OBVIOUS
  <1>2. \A c : IsFiniteSet(Positions(d, c))
    <2> SUFFICES ASSUME NEW c PROVE IsFiniteSet(Positions(d, c))
      OBVIOUS
    <2>1. Positions(d, c) \in SUBSET (1 .. Len(d)) /\ IsFiniteSet(1 .. Len(d))
      BY <1>1, FS_Interval DEF Positions
    <2> QED
      BY <2>1, FS_Subset
  <1> DEFINE s == Append(d, e)
             m == Len(d)
  <1>3. /\ m \in Nat /\ DOMAIN d = 1 .. m /\ DOMAIN s = (1 .. m) \cup {m + 1} /\ s[m + 1] = e
        /\ \A i \in 1 .. m : s[i] = d[i]
        /\ m + 1 \notin 1 .. m
    BY <1>1
  <1> HIDE DEF s, m
  <1>4. Characters(s) = Characters(d) \cup {e}
    BY <1>3 DEF Characters
  <1>5. Positions(s, e) = Positions(d, e) \cup {m + 1}
    BY <1>3 DEF Positions
  <1>6. \A c : c # e => Positions(s, c) = Positions(d, c)
    BY <1>3 DEF Positions
  <1>7. \A c : m + 1 \notin Positions(d, c)
    BY <1>3 DEF Positions
  <1> QED
    BY <1>2, <1>4, <1>5, <1>6, <1>7 DEF s, m

LEMMA LoopCollects ==
    ASSUME NEW a, NEW b \in Seq(Chars), NEW res \in Scans(a, b, Len(b))
    PROVE  Gathered(a, b, res[Len(b)], Len(b))
  <1> DEFINE G == {n \in 0 .. Len(b) : Gathered(a, b, res[n], n)}
  <1>1. /\ Len(b) \in Nat
        /\ \A n \in 0 .. Len(b) : res[n] \in Seq(Chars) /\ res[n] = Round(a, b, res, n)
    BY DEF Scans
  <1>2. 0 \in G
    <2>1. 0 \in 0 .. Len(b) /\ 1 .. 0 = {}
      BY <1>1
    <2>2. res[0] = <<>>
      BY <1>1, <2>1 DEF Round
    <2>3. Len(<<>>) = 0 /\ DOMAIN <<>> = {} /\ Cardinality({}) = 0
      BY FS_EmptySet
    <2>4. Picked(a, b, 0) = {}
      BY <2>1 DEF Picked
    <2>5. \A c : Positions(<<>>, c) = {} /\ UpTo(b, c, 0) = {}
      BY <2>1, <2>3 DEF Positions, UpTo
    <2>6. Characters(<<>>) = {} /\ {b[i] : i \in 1 .. 0} = {}
      BY <2>1, <2>3 DEF Characters
    <2>7. Gathered(a, b, <<>>, 0)
      BY <2>3, <2>4, <2>5, <2>6 DEF Gathered
    <2> QED
      BY <2>1, <2>2, <2>7
  <1>3. ASSUME NEW n \in 0 .. Len(b), n < Len(b), n \in G
        PROVE  n + 1 \in G
    <2> DEFINE d == res[n]
               e == b[n + 1]
               P == Picked(a, b, n)
               Q == Picked(a, b, n + 1)
    <2>1. /\ n \in Nat /\ n + 1 \in 0 .. Len(b) /\ e \in Chars /\ n + 1 # 0 /\ (n + 1) - 1 = n
          /\ 1 .. (n + 1) = (1 .. n) \cup {n + 1} /\ n + 1 \notin 1 .. n
          /\ n \in 0 .. Len(b)
      BY <1>1, <1>3
    <2>2. Gathered(a, b, d, n)
      BY <1>3
    <2>3. res[n + 1] = IF e \in Characters(a) THEN Append(d, e) ELSE d
      BY <1>1, <2>1 DEF Round
    <2>4. d \in Seq(Chars) /\ Len(d) \in Nat
      BY <1>1, <2>1
    <2>5. IsFiniteSet(1 .. n) /\ P \in SUBSET (1 .. n) /\ IsFiniteSet(P)
      <3>1. P \in SUBSET (1 .. n)
        BY DEF Picked
      <3>2. IsFiniteSet(1 .. n)
        BY <2>1, FS_Interval
      <3> HIDE DEF P
      <3> QED
        BY <3>1, <3>2, FS_Subset
    <2>6. \A c : IsFiniteSet(UpTo(b, c, n)) /\ n + 1 \notin UpTo(b, c, n)
      <3> SUFFICES ASSUME NEW c PROVE IsFiniteSet(UpTo(b, c, n)) /\ n + 1 \notin UpTo(b, c, n)
        OBVIOUS
      <3>1. UpTo(b, c, n) \in SUBSET (1 .. n)
        BY DEF UpTo
      <3> QED
        BY <3>1, <2>1, <2>5, FS_Subset
    <2>7. /\ \A c : c # e => UpTo(b, c, n + 1) = UpTo(b, c, n)
          /\ UpTo(b, e, n + 1) = UpTo(b, e, n) \cup {n + 1}
          /\ {b[i] : i \in 1 .. (n + 1)} = {b[i] : i \in 1 .. n} \cup {e}
      BY <2>1 DEF UpTo
    <2>8. CASE e \notin Characters(a)
      <3>1. Q = P
        BY <2>1, <2>8 DEF Picked
      <3>2. \A c \in Characters(a) : UpTo(b, c, n + 1) = UpTo(b, c, n)
        BY <2>7, <2>8
      <3>3. Characters(a) \cap {b[i] : i \in 1 .. (n + 1)} = Characters(a) \cap {b[i] : i \in 1 .. n}
        BY <2>7, <2>8
      <3>4. Gathered(a, b, d, n + 1)
        BY <2>2, <3>1, <3>2, <3>3 DEF Gathered
      <3> QED
        BY <2>1, <2>3, <2>8, <3>4
    <2>9. CASE e \in Characters(a)
      <3> DEFINE s == Append(d, e)
      <3>1. s \in Seq(Chars) /\ Len(s) = Len(d) + 1 /\ s[Len(d) + 1] = e
            /\ (\A i \in 1 .. Len(d) : s[i] = d[i])
        BY <2>1, <2>4
      <3>2. Q = P \cup {n + 1} /\ n + 1 \notin P
        BY <2>1, <2>5, <2>9 DEF Picked
      <3>3. Len(s) = Cardinality(Q) /\ Len(d) = Cardinality(P)
        <4>1. Cardinality(P \cup {n + 1}) = Cardinality(P) + 1
          BY <2>5, <3>2, FS_AddElement
        <4>2. Len(d) = Cardinality(P)
          BY <2>2 DEF Gathered
        <4> QED
          BY <3>1, <3>2, <4>1, <4>2
      <3>4. ASSUME NEW i \in Q
            PROVE  Place(Q, i) \in 1 .. Len(s) /\ s[Place(Q, i)] = b[i]
        <4>1. CASE i = n + 1
          <5>1. \A j \in Q : j <= n + 1
            BY <2>1, <2>5, <3>2
          <5>2. {j \in Q : j <= i} = Q
            BY <4>1, <5>1
          <5>3. Place(Q, i) = Len(d) + 1
            BY <5>2, <3>1, <3>3 DEF Place
          <5>4. Len(d) + 1 \in 1 .. Len(s)
            BY <2>4, <3>1
          <5> QED
            BY <4>1, <5>3, <5>4, <3>1
        <4>2. CASE i \in P
          <5>1. {j \in Q : j <= i} = {j \in P : j <= i}
            BY <2>1, <2>5, <3>2, <4>2
          <5>2. Place(Q, i) = Place(P, i)
            BY <5>1 DEF Place
          <5>3. Place(P, i) \in 1 .. Len(d) /\ d[Place(P, i)] = b[i]
            BY <2>2, <4>2 DEF Gathered
          <5>4. 1 .. Len(d) \subseteq 1 .. Len(s)
            BY <2>4, <3>1
          <5> QED
            BY <5>2, <5>3, <5>4, <3>1
        <4> QED
          BY <3>2, <4>1, <4>2
      <3>5. Characters(s) = Characters(a) \cap {b[i] : i \in 1 .. (n + 1)}
        <4>1. Characters(s) = Characters(d) \cup {e}
          BY <2>1, <2>4, Appended
        <4>2. Characters(d) = Characters(a) \cap {b[i] : i \in 1 .. n}
          BY <2>2 DEF Gathered
        <4> QED
          BY <4>1, <4>2, <2>7, <2>9
      <3>6. ASSUME NEW c \in Characters(a)
            PROVE  Cardinality(Positions(s, c)) = Cardinality(UpTo(b, c, n + 1))
        <4>1. Cardinality(Positions(d, c)) = Cardinality(UpTo(b, c, n))
          BY <2>2 DEF Gathered
        <4>2. CASE c # e
          <5>1. Positions(s, c) = Positions(d, c)
            BY <2>1, <2>4, <4>2, Appended
          <5> QED
            BY <4>1, <4>2, <5>1, <2>7
        <4>3. CASE c = e
          <5>1. /\ Positions(s, c) = Positions(d, c) \cup {Len(d) + 1}
                /\ IsFiniteSet(Positions(d, c)) /\ Len(d) + 1 \notin Positions(d, c)
            BY <2>1, <2>4, <4>3, Appended
          <5>2. Cardinality(Positions(d, c) \cup {Len(d) + 1}) = Cardinality(Positions(d, c)) + 1
            BY <5>1, FS_AddElement
          <5>3. Cardinality(UpTo(b, c, n) \cup {n + 1}) = Cardinality(UpTo(b, c, n)) + 1
            BY <2>6, FS_AddElement
          <5>4. UpTo(b, c, n + 1) = UpTo(b, c, n) \cup {n + 1}
            BY <2>7, <4>3
          <5> QED
            BY <4>1, <5>1, <5>2, <5>3, <5>4
        <4> QED
          BY <4>2, <4>3
      <3> HIDE DEF s, Q
      <3>7. Gathered(a, b, s, n + 1)
        BY <3>3, <3>4, <3>5, <3>6 DEF Gathered, Q
      <3> QED
        BY <2>1, <2>3, <2>9, <3>7 DEF s
    <2> QED
      BY <2>8, <2>9
  <1>4. \A n \in 0 .. Len(b) : n \in G
    <2> HIDE DEF G
    <2> QED
      BY <1>1, <1>2, <1>3, LoopInduction
  <1>5. Len(b) \in 0 .. Len(b)
    BY <1>1
  <1> QED
    BY <1>4, <1>5

LEMMA StringsAreSeqs == Strings \subseteq Seq(Chars)
  <1> SUFFICES ASSUME NEW s \in Strings PROVE s \in Seq(Chars)
    OBVIOUS
  <1>1. PICK n \in 0 .. MaxLen : s \in [1 .. n -> Chars]
    BY DEF Strings
  <1>2. n \in Nat
    BY <1>1, StringAssumption
  <1> QED
    BY <1>1, <1>2

\* d is what b has in common with a, in the order of b.
PartOf(a, b, d) ==
    /\ Characters(d) = Characters(a) \cap Characters(b)
    /\ \A c \in Characters(d) : Occurrences(c, d) = Occurrences(c, b)
    /\ \E pick \in SUBSET DOMAIN b :
          /\ Cardinality(pick) = Len(d)
          /\ \A i \in pick : b[i] = d[Cardinality({j \in pick : j <= i})]

LEMMA CommonCorrect ==
    ASSUME NEW a \in Seq(Chars), NEW b \in Seq(Chars)
    PROVE  PartOf(a, b, Common(a, b))
  <1> DEFINE d == Common(a, b)
  <1>1. PICK res \in Scans(a, b, Len(b)) : d = res[Len(b)]
    BY CommonIsLast
  <1>2. Gathered(a, b, d, Len(b))
    BY <1>1, LoopCollects
  <1>3. DOMAIN b = 1 .. Len(b)
    OBVIOUS
  <1> HIDE DEF d
  <1>4. Characters(d) = Characters(a) \cap Characters(b)
    <2>1. Characters(b) = {b[i] : i \in 1 .. Len(b)}
      BY <1>3 DEF Characters
    <2> QED
      BY <1>2, <2>1 DEF Gathered
  <1>5. ASSUME NEW c \in Characters(d) PROVE Occurrences(c, d) = Occurrences(c, b)
    <2>1. c \in Characters(a)
      BY <1>4, <1>5
    <2>2. Cardinality(Positions(d, c)) = Cardinality(UpTo(b, c, Len(b)))
      BY <1>2, <2>1 DEF Gathered
    <2>3. UpTo(b, c, Len(b)) = Positions(b, c)
      BY <1>3 DEF UpTo, Positions
    <2> QED
      BY <2>2, <2>3 DEF Occurrences, Positions
  <1>6. /\ Picked(a, b, Len(b)) \in SUBSET DOMAIN b
        /\ Cardinality(Picked(a, b, Len(b))) = Len(d)
        /\ \A i \in Picked(a, b, Len(b)) :
              b[i] = d[Cardinality({j \in Picked(a, b, Len(b)) : j <= i})]
    <2>1. Picked(a, b, Len(b)) \in SUBSET DOMAIN b
      BY <1>3 DEF Picked
    <2> QED
      BY <1>2, <2>1 DEF Gathered, Place
  <1> QED
    BY <1>4, <1>5, <1>6 DEF d, PartOf

\* Whatever the strings, Diff returns the common part of the two.
THEOREM DiffCorrect == \A q \in CallSet : CommonPart(q, Diff(q.a, q.b).val)
  <1> SUFFICES ASSUME NEW q \in CallSet PROVE CommonPart(q, Diff(q.a, q.b).val)
    OBVIOUS
  <1>1. q.a \in Seq(Chars) /\ q.b \in Seq(Chars)
    BY StringsAreSeqs DEF CallSet
  <1>2. CASE Len(q.a) >= Len(q.b)
    <2>1. Diff(q.a, q.b).val = Common(q.a, q.b) /\ Shorter(q) = q.b
      BY <1>2 DEF Diff, Good, Shorter
    <2>2. PartOf(q.a, q.b, Common(q.a, q.b))
      BY <1>1, CommonCorrect
    <2>3. CommonPart(q, Common(q.a, q.b))
      BY <2>1, <2>2 DEF CommonPart, PartOf
    <2> QED
      BY <2>1, <2>3
  <1>3. CASE ~ (Len(q.a) >= Len(q.b))
    <2>1. Diff(q.a, q.b).val = Common(q.b, q.a) /\ Shorter(q) = q.a
      BY <1>3 DEF Diff, Good, Shorter
    <2>2. PartOf(q.b, q.a, Common(q.b, q.a))
      BY <1>1, CommonCorrect
    <2>3. Characters(q.b) \cap Characters(q.a) = Characters(q.a) \cap Characters(q.b)
      OBVIOUS
    <2>4. CommonPart(q, Common(q.b, q.a))
      BY <2>1, <2>2, <2>3 DEF CommonPart, PartOf
    <2> QED
      BY <2>1, <2>4
  <1> QED
    BY <1>2, <1>3

\* What a service returns: the result, or that the concatenation is too long.
LEMMA ServiceTrue ==
    ASSUME NEW q \in CallSet, q.type # "Other"
    PROVE  LET r == StringService(q.type, q.a, q.b)
           IN  \/ r = Good(r.val) /\ IsResult(q, r.val)
               \/ r = Bad("ErrMaxSize") /\ TooLong(q)
  <1>1. q.type \in {"Concat", "Diff", "Health", "Other"}
    BY DEF CallSet
  <1>2. CASE q.type = "Concat"
    BY <1>2 DEF StringService, Concat, Good, Bad, IsResult, TooLong
  <1>3. CASE q.type = "Diff"
    <2>1. CommonPart(q, Diff(q.a, q.b).val)
      BY DiffCorrect
    <2>2. Diff(q.a, q.b) = Good(Diff(q.a, q.b).val)
      BY DEF Diff, Good
    <2>3. StringService(q.type, q.a, q.b) = Diff(q.a, q.b)
      BY <1>3 DEF StringService
    <2>4. IsResult(q, Diff(q.a, q.b).val)
      BY <1>3, <2>1 DEF IsResult
    <2> QED
      BY <2>2, <2>3, <2>4
  <1>4. CASE q.type = "Health"
    <2>1. StringService(q.type, q.a, q.b) = HealthCheck
      BY <1>4 DEF StringService
    <2>2. IsResult(q, HealthCheck.val) /\ HealthCheck = Good(HealthCheck.val)
      BY <1>4 DEF IsResult, HealthCheck, Good
    <2> QED
      BY <2>1, <2>2
  <1> QED
    BY <1>1, <1>2, <1>3, <1>4

\* What a server sends: a response without an error carries the result, or
\* nothing for a concatenation that is too long; svc1 sends the error's text.
Faithful(q, w) ==
    /\ w.code \in {"ok", "fault", "missing"}
    /\ w.code = "ok" => \/ IsResult(q, w.val)
                        \/ TooLong(q) /\ w.val = <<>> /\ q.stack # "svc1"
    /\ q.stack = "svc1" /\ w.code # "ok" => TooLong(q) /\ w.val = Text("ErrMaxSize")
    /\ q.stack = "use" /\ NoRoute(q) => w.code # "ok"

LEMMA ServedTrue == \A q \in CallSet : Faithful(q, Served(q))
  <1> SUFFICES ASSUME NEW q \in CallSet PROVE Faithful(q, Served(q))
    OBVIOUS
  <1> DEFINE r == StringService(q.type, q.a, q.b)
             e == Endpoint(q, r)
  <1>1. q.stack \in Stacks /\ q.type \in Operations(q.stack)
    BY DEF CallSet
  <1>2. q.type # "Other" => \/ r.err = "none" /\ r = Good(r.val) /\ IsResult(q, r.val)
                            \/ r.err # "none" /\ r = Bad("ErrMaxSize") /\ TooLong(q)
                               /\ r.val = <<>>
    BY ServiceTrue DEF Good, Bad
  <1>3. q.type \in {"Concat", "Diff", "Health", "Other"}
    BY DEF CallSet
  <1>4. CASE q.stack \in {"ch6", "ch9", "ch10", "use", "http12"}
    <2>1. Served(q) = HttpOp(q, e)
      BY <1>4 DEF Served, Ch6Http, Ch9Http, Ch10Http, Ch12Http, Ch6Endpoint, Ch9Endpoint,
                  Ch10Endpoint, Ch12Endpoint, Ch6Logging, Ch9Logging, Ch9Service, Ch10Service,
                  Ch12Logging, Ch12Service
    <2>2. CASE NoRoute(q)
      BY <1>4, <2>1, <2>2 DEF HttpOp, Faithful
    <2>3. CASE ~ NoRoute(q) /\ q.type = "Other"
      BY <1>4, <2>1, <2>3 DEF HttpOp, Faithful, Endpoint, Reply, Bad
    <2>4. CASE ~ NoRoute(q) /\ q.type # "Other"
      <3> HIDE DEF r
      <3>1. Served(q) = [code |-> "ok", val |-> r.val]
        BY <1>3, <2>1, <2>4 DEF HttpOp, Endpoint, Reply, Good
      <3>2. IsResult(q, r.val) \/ (TooLong(q) /\ r.val = <<>>)
        BY <1>2, <2>4
      <3> QED
        BY <1>4, <2>4, <3>1, <3>2 DEF Faithful
    <2> QED
      BY <2>2, <2>3, <2>4
  <1>5. CASE q.stack \in {"kit7", "kit12"}
    <2>1. q.type \in {"Concat", "Diff"}
      BY <1>1, <1>5 DEF Operations
    <2>2. Served(q) = Reply(e)
      BY <1>5 DEF Served, Kit7Grpc, Kit7Endpoint, Kit7Logging, Kit7Service, Ch12Grpc,
                  Ch12Endpoint, Ch12Logging, Ch12Service
    <2> HIDE DEF r
    <2>3. Served(q) = [code |-> "ok", val |-> r.val]
      BY <2>1, <2>2 DEF Endpoint, Reply, Good
    <2> QED
      BY <1>2, <1>5, <2>1, <2>3 DEF Faithful
  <1>6. CASE q.stack = "basic"
    <2>1. q.type # "Other"
      BY <1>1, <1>6 DEF Operations
    <2>2. Served(q) = Reply(r)
      BY <1>6 DEF Served, BasicRpc, BasicService
    <2> HIDE DEF r
    <2>3. \/ Served(q) = [code |-> "ok", val |-> r.val] /\ IsResult(q, r.val)
          \/ Served(q).code = "fault"
      BY <1>2, <2>1, <2>2 DEF Reply
    <2> QED
      BY <1>6, <2>3 DEF Faithful
  <1>7. CASE q.stack = "grpc7"
    <2>1. q.type # "Other"
      BY <1>1, <1>7 DEF Operations
    <2> HIDE DEF r
    <2>2. Served(q) = [code |-> "ok", val |-> r.val]
      BY <1>7 DEF Served, Grpc7, Grpc7Service, Reply, Good, r
    <2> QED
      BY <1>2, <1>7, <2>1, <2>2 DEF Faithful
  <1>8. CASE q.stack \in {"stream7", "svc1"}
    <2>1. q.type = "Concat"
      BY <1>1, <1>8 DEF Operations
    <2>2. r = Concat(q.a, q.b)
      BY <2>1 DEF StringService
    <2>3. q.stack = "stream7" => Served(q) = Reply(Good(r.val))
      BY <2>2 DEF Served, Stream7, Stream7Concat
    <2>4. q.stack = "svc1" => Served(q) = Reply(r)
      BY <2>2 DEF Served, Svc1Http, Svc1Concat
    <2> HIDE DEF r
    <2>5. CASE q.stack = "stream7"
      <3>1. Served(q) = [code |-> "ok", val |-> r.val]
        BY <2>3, <2>5 DEF Reply, Good
      <3> QED
        BY <1>2, <2>1, <2>5, <3>1 DEF Faithful
    <2>6. CASE q.stack = "svc1"
      <3>1. CASE r.err = "none"
        <4>1. Served(q) = [code |-> "ok", val |-> r.val]
          BY <2>4, <2>6, <3>1 DEF Reply
        <4> QED
          BY <1>2, <2>1, <2>6, <3>1, <4>1 DEF Faithful
      <3>2. CASE r.err # "none"
        <4>1. r.err = "ErrMaxSize" /\ TooLong(q)
          BY <1>2, <2>1, <3>2 DEF Bad
        <4>2. Served(q) = [code |-> "fault", val |-> Text("ErrMaxSize")]
          BY <2>4, <2>6, <3>2, <4>1 DEF Reply
        <4> QED
          BY <2>6, <4>1, <4>2 DEF Faithful
      <3> QED
        BY <3>1, <3>2
    <2> QED
      BY <1>8, <2>5, <2>6
  <1> QED
    BY <1>1, <1>4, <1>5, <1>6, <1>7, <1>8 DEF Stacks

Unlist == [code |-> "unlisted", val |-> <<>>]

\* What the caller makes of it when it is handed the end of the exchange.
LEMMA AnswerExplained ==
    ASSUME NEW q \in CallSet, NEW w,
           \/ w = Broken
           \/ Faithful(q, w)
           \/ q.stack = "use" /\ w = Unlist
    PROVE  LET r == Answer(q, w, "passed")
           IN  CASE r.kind = "value" ->
                       \/ IsResult(q, r.val)
                       \/ TooLong(q) /\ r.val = IF q.stack = "svc1" THEN Text("ErrMaxSize") ELSE <<>>
                       \/ q.stack = "use" /\ w.code \notin {"ok", "unlisted"} /\ r.val = <<>>
                       \/ q.stack = "basic" /\ q.type = "Diff" /\ w.code # "ok"
                 [] r.kind = "crash" -> w.code # "ok" \/ (q.stack = "kit7" /\ q.type = "Diff")
                 [] r.kind = "failure" -> w.code # "ok"
  <1> DEFINE r == Answer(q, w, "passed")
             Goal == \/ /\ r.kind = "value"
                        /\ \/ IsResult(q, r.val)
                           \/ TooLong(q) /\ r.val = IF q.stack = "svc1" THEN Text("ErrMaxSize") ELSE <<>>
                           \/ q.stack = "use" /\ w.code \notin {"ok", "unlisted"} /\ r.val = <<>>
                           \/ q.stack = "basic" /\ q.type = "Diff" /\ w.code # "ok"
                     \/ r.kind = "crash" /\ (w.code # "ok" \/ (q.stack = "kit7" /\ q.type = "Diff"))
                     \/ r.kind = "failure" /\ w.code # "ok"
  <1>0. SUFFICES Goal
    OBVIOUS
  <1>1. q.stack \in Stacks /\ q.type \in Operations(q.stack)
    BY DEF CallSet
  <1>2. /\ w.code = "ok" => \/ IsResult(q, w.val)
                            \/ TooLong(q) /\ w.val = <<>> /\ q.stack # "svc1"
        /\ q.stack = "svc1" /\ w.code \notin {"ok", "broken"} => TooLong(q) /\ w.val = Text("ErrMaxSize")
        /\ q.stack = "use" /\ NoRoute(q) => w.code # "ok"
    BY DEF Faithful, Broken, Unlist
  <1>3. CASE q.stack \in {"ch6", "ch9", "ch10", "http12"}
    <2>1. r = HttpCaller(w)
      BY <1>3 DEF Answer
    <2> HIDE DEF r
    <2>2. CASE w.code = "ok"
      <3>1. r.kind = "value" /\ r.val = w.val
        BY <2>1, <2>2 DEF HttpCaller, Value
      <3> QED
        BY <1>2, <1>3, <2>2, <3>1
    <2>3. CASE w.code # "ok"
      BY <2>1, <2>3 DEF HttpCaller, Failure
    <2> QED
      BY <2>2, <2>3
  <1>4. CASE q.stack = "use"
    <2>1. r = UseHttp(q, w, "passed")
      BY <1>4 DEF Answer
    <2> HIDE DEF r
    <2>2. CASE NoRoute(q)
      <3>1. r.kind = "failure" /\ w.code # "ok"
        BY <1>2, <1>4, <2>1, <2>2 DEF UseHttp, Failure
      <3> QED
        BY <3>1
    <2>3. CASE ~ NoRoute(q) /\ q.type = "Health"
      <3>1. r = Value(HealthCheck.val)
        BY <2>1, <2>3 DEF UseHttp, UseEndpoint, HealthCheck, Good, Reply, HttpCaller
      <3>2. IsResult(q, HealthCheck.val)
        BY <2>3 DEF IsResult
      <3>3. r.kind = "value" /\ r.val = HealthCheck.val
        BY <3>1 DEF Value
      <3> QED
        BY <3>2, <3>3
    <2>4. CASE ~ NoRoute(q) /\ q.type # "Health"
      <3>1. r = HttpCaller(Reply(UseStringService(w)))
        BY <2>1, <2>4 DEF UseHttp, UseEndpoint, Hystrix
      <3>2. CASE w.code = "ok"
        <4>1. r.kind = "value" /\ r.val = w.val
          BY <3>1, <3>2 DEF UseStringService, Good, Reply, HttpCaller, Value
        <4> QED
          BY <1>2, <1>4, <3>2, <4>1
      <3>3. CASE w.code = "unlisted"
        <4>1. r.kind = "failure"
          BY <3>1, <3>3 DEF UseStringService, Bad, Reply, HttpCaller, Failure
        <4> QED
          BY <3>3, <4>1
      <3>4. CASE w.code \notin {"ok", "unlisted"}
        <4>1. r.kind = "value" /\ r.val = <<>>
          BY <3>1, <3>4 DEF UseStringService, Good, Reply, HttpCaller, Value
        <4> QED
          BY <1>4, <3>4, <4>1
      <3> QED
        BY <3>2, <3>3, <3>4
    <2> QED
      BY <2>2, <2>3, <2>4
  <1>5. CASE q.stack = "basic"
    <2>1. q.type \in {"Concat", "Diff"}
      BY <1>1, <1>5 DEF Operations
    <2>2. r = BasicClient(q, w)
      BY <1>5 DEF Answer
    <2> HIDE DEF r
    <2>3. CASE w.code = "ok"
      <3>1. r.kind = "value" /\ r.val = w.val
        BY <2>2, <2>3 DEF BasicClient, Value
      <3> QED
        BY <1>2, <1>5, <2>3, <3>1
    <2>4. CASE w.code # "ok" /\ q.type = "Concat"
      <3>1. r.kind = "failure"
        BY <2>2, <2>4 DEF BasicClient, Failure
      <3> QED
        BY <2>4, <3>1
    <2>5. CASE w.code # "ok" /\ q.type = "Diff"
      <3>1. r.kind = "value"
        BY <2>2, <2>5 DEF BasicClient, Value
      <3> QED
        BY <1>5, <2>5, <3>1
    <2> QED
      BY <2>1, <2>3, <2>4, <2>5
  <1>6. CASE q.stack \in {"grpc7", "stream7", "kit7", "kit12"}
    <2>1. \/ w.code = "ok" /\ r = Value(w.val)
          \/ r = Crash /\ w.code # "ok"
          \/ r = Crash /\ q.stack = "kit7" /\ q.type = "Diff"
      BY <1>6 DEF Answer, Grpc7Client, Kit7Stub, Ch12Stub, Ch12Client, Ch12Codec, Good
    <2> HIDE DEF r
    <2>2. CASE w.code = "ok" /\ r = Value(w.val)
      <3>1. r.kind = "value" /\ r.val = w.val
        BY <2>2 DEF Value
      <3> QED
        BY <1>2, <1>6, <2>2, <3>1
    <2>3. CASE r = Crash /\ (w.code # "ok" \/ (q.stack = "kit7" /\ q.type = "Diff"))
      <3>1. r.kind = "crash"
        BY <2>3 DEF Crash
      <3> QED
        BY <2>3, <3>1
    <2> QED
      BY <2>1, <2>2, <2>3
  <1>7. CASE q.stack = "svc1"
    <2>1. r = Svc1ConcatClient(w)
      BY <1>7 DEF Answer
    <2> HIDE DEF r
    <2>2. CASE w.code = "broken"
      <3>1. r.kind = "failure"
        BY <2>1, <2>2 DEF Svc1ConcatClient, Failure
      <3> QED
        BY <2>2, <3>1
    <2>3. CASE w.code # "broken"
      <3>1. r.kind = "value" /\ r.val = w.val
        BY <2>1, <2>3 DEF Svc1ConcatClient, Value
      <3> QED
        BY <1>2, <1>7, <2>3, <3>1
    <2> QED
      BY <2>2, <2>3
  <1> QED
    BY <1>1, <1>3, <1>4, <1>5, <1>6, <1>7 DEF Stacks

\* What it is handed in any other case.
LEMMA GivenUp ==
    ASSUME NEW q \in CallSet, q.stack = "use", NEW w, NEW b \in {"refused", "late", "cut"},
           b # "cut" => Breakered(q)
    PROVE  Answer(q, w, b) = Failure
  <1>1. Answer(q, w, b) = UseHttp(q, w, b)
    BY DEF Answer
  <1>2. CASE b = "cut"
    BY <1>1, <1>2 DEF UseHttp
  <1>3. CASE b # "cut"
    <2>1. UseHttp(q, w, b) = HttpCaller(Reply(Hystrix(b, UseStringService(w))))
      BY <1>3 DEF UseHttp, UseEndpoint, Breakered
    <2>2. Hystrix(b, UseStringService(w)) \in {Bad("ErrCircuitOpen"), Bad("ErrTimeout")}
      BY <1>3 DEF Hystrix
    <2>3. HttpCaller(Reply(Hystrix(b, UseStringService(w)))) = Failure
      BY <2>2 DEF Bad, Reply, HttpCaller
    <2> QED
      BY <1>1, <2>1, <2>3
  <1> QED
    BY <1>2, <1>3

\* The inductive invariant: what is on the wire at each stage of the call,
\* and that a caller who gave up has its failure and keeps it.
CallInv ==
    /\ call \in CallSet
    /\ stage \in {"sent", "served", "broken", "done"}
    /\ inbound \in {"passed", "refused", "late", "cut"}
    /\ stage \in {"sent", "broken"} => wire = Broken
    /\ stage = "served" => Faithful(call, wire) \/ (call.stack = "use" /\ wire = Unlist)
    /\ inbound # "passed" => call.stack = "use" /\ answer = Failure
    /\ inbound \in {"refused", "late"} => Breakered(call)
    /\ inbound = "passed" /\ stage # "done" => answer = NoAnswer
    /\ AnswersExplained

\* A caller that is handed a value is handed the result of the operation,
\* except for the losses listed with the property; a crash follows a failed
\* exchange or is that of the Diff stub; a failure follows a failed exchange,
\* or the caller's connection to use-string broke, or its breaker refused
\* the call or did not wait: the layers of every chapter, the breaker among
\* them.
THEOREM CallersProved == CallSpec => []AnswersExplained
  <1>1. CallInit => CallInv
    BY DEF CallInit, CallInv, AnswersExplained, NoAnswer
  <1>2. CallInv /\ [CallNext]_callVars => CallInv'
    <2> SUFFICES ASSUME CallInv, [CallNext]_callVars PROVE CallInv'
      OBVIOUS
    \* What leaves the answer alone leaves the property alone.
    <2>0. ASSUME UNCHANGED <<call, answer, inbound>>, stage # "done"
          PROVE  AnswersExplained'
      <3>1. CASE inbound = "passed"
        BY <2>0, <3>1 DEF CallInv, AnswersExplained, NoAnswer
      <3>2. CASE inbound # "passed"
        BY <2>0, <3>2 DEF CallInv, AnswersExplained, Failure
      <3> QED
        BY <3>1, <3>2
    <2>1. CASE Serve
      <3>1. Faithful(call, Served(call))
        BY ServedTrue DEF CallInv
      <3>2. AnswersExplained'
        BY <2>0, <2>1 DEF Serve
      <3> QED
        BY <2>1, <3>1, <3>2 DEF Serve, CallInv
    <2>2. CASE Break
      <3>1. AnswersExplained'
        BY <2>0, <2>2 DEF Break
      <3> QED
        BY <2>2, <3>1 DEF Break, CallInv
    <2>3. CASE Unlisted
      <3>1. AnswersExplained'
        BY <2>0, <2>3 DEF Unlisted
      <3> QED
        BY <2>3, <3>1 DEF Unlisted, CallInv, Unlist, Breakered
    <2>4. CASE Receive
      <3>1. /\ call \in CallSet
            /\ \/ wire = Broken
               \/ Faithful(call, wire)
               \/ call.stack = "use" /\ wire = Unlist
        BY <2>4 DEF Receive, CallInv
      <3>2. /\ call' = call /\ wire' = wire /\ inbound' = inbound /\ stage' = "done"
            /\ answer' = Answer(call, wire, inbound)
        BY <2>4 DEF Receive
      <3>3. CASE inbound = "passed"
        <4>1. AnswersExplained'
          BY <3>1, <3>2, <3>3, AnswerExplained DEF AnswersExplained
        <4> QED
          BY <3>1, <3>2, <3>3, <4>1 DEF CallInv
      <3>4. CASE inbound # "passed"
        <4>1. answer' = Failure
          BY <3>1, <3>2, <3>4, GivenUp DEF CallInv
        <4>2. AnswersExplained'
          BY <3>2, <3>4, <4>1 DEF CallInv, AnswersExplained, Failure
        <4> QED
          BY <3>1, <3>2, <3>4, <4>1, <4>2 DEF CallInv
      <3> QED
        BY <3>3, <3>4
    <2>5. CASE Refuse
      <3>1. /\ call.stack = "use" /\ Breakered(call) /\ stage' = "done"
            /\ UNCHANGED <<call, wire>> /\ inbound' = "refused"
            /\ answer' = Answer(call, wire, "refused")
        BY <2>5 DEF Refuse, Breakered
      <3>2. answer' = Failure
        BY <3>1, GivenUp DEF CallInv
      <3>3. Breakered(call)'
        BY <3>1 DEF Breakered, NoRoute
      <3>4. answer'.kind = "failure" /\ inbound' = "refused"
        BY <3>1, <3>2 DEF Failure
      <3>5. AnswersExplained'
        BY <3>3, <3>4 DEF AnswersExplained
      <3> QED
        BY <3>1, <3>2, <3>3, <3>5 DEF CallInv
    <2>6. ASSUME NEW b \in {"late", "cut"}, GiveUp(b) PROVE CallInv'
      <3>1. /\ call.stack = "use" /\ (b = "late" => Breakered(call))
            /\ UNCHANGED <<call, stage, wire>> /\ inbound' = b
            /\ answer' = Answer(call, wire, b)
        BY <2>6 DEF GiveUp
      <3>2. answer' = Failure
        BY <3>1, GivenUp DEF CallInv
      <3>3. b = "late" => Breakered(call)'
        BY <3>1 DEF Breakered, NoRoute
      <3>4. AnswersExplained'
        BY <3>1, <3>2, <3>3 DEF AnswersExplained, Failure
      <3> QED
        BY <3>1, <3>2, <3>3, <3>4 DEF CallInv
    <2>7. CASE UNCHANGED callVars
      BY <2>7 DEF callVars, CallInv, AnswersExplained
    <2> QED
      BY <2>1, <2>2, <2>3, <2>4, <2>5, <2>6, <2>7 DEF CallNext
  <1>3. CallInv => AnswersExplained
    BY DEF CallInv
  <1> QED
    BY <1>1, <1>2, <1>3, PTL DEF CallSpec

-----------------------------------------------------------------------------
(* -------------------------------- sums --------------------------------- *)

LEMMA RemainderOfSmall ==
    ASSUME NEW x \in Nat, NEW m \in Nat \ {0}, x < m
    PROVE  x % m = x
  OBVIOUS

\* Inside the range nothing wraps.
LEMMA WrapInside ==
    ASSUME NEW n \in Int64
    PROVE  Wrap(n) = n
  <1> DEFINE m == 2 * (Int64Max + 1)
             x == n - Int64Min
  <1>1. m \in Nat \ {0} /\ x \in Nat /\ x < m
    BY Int64Assumption DEF Int64, Int64Min
  <1>2. x % m = x
    BY <1>1, RemainderOfSmall
  <1>3. Wrap(n) = x + Int64Min
    BY <1>2 DEF Wrap
  <1> QED
    BY <1>3, Int64Assumption DEF Int64, Int64Min

\* The two subtractions of the check do not wrap where they are used, and
\* what the check refuses is what does not fit (implementation.go Sum).
THEOREM OverflowsExact ==
    ASSUME NEW a \in Int64, NEW b \in Int64
    PROVE  Overflows(a, b) <=> a + b \notin Int64
  <1> USE Int64Assumption DEF Int64, Int64Min
  <1>1. CASE b > 0
    <2>1. Int64Max - b \in Int64
      BY <1>1
    <2>2. Wrap(Int64Max - b) = Int64Max - b
      BY <2>1, WrapInside
    <2> QED
      BY <1>1, <2>2 DEF Overflows
  <1>2. CASE b < 0
    <2>1. Int64Min - b \in Int64
      BY <1>2
    <2>2. Wrap(Int64Min - b) = Int64Min - b
      BY <2>1, WrapInside
    <2> QED
      BY <1>2, <2>2 DEF Overflows
  <1>3. CASE b = 0
    BY <1>3 DEF Overflows
  <1> QED
    BY <1>1, <1>2, <1>3

(* -------------------------------- texts -------------------------------- *)

LEMMA NumberIsNoWord ==
    ASSUME NEW n
    PROVE  Number(n) # NoNumber
  <1>1. DOMAIN Number(n) = {"num"} /\ DOMAIN NoNumber = {"word"}
    BY DEF Number, NoNumber
  <1>2. "num" # "word"
    OBVIOUS
  <1> QED
    BY <1>1, <1>2

LEMMA ParseNumber ==
    ASSUME NEW n \in Int64
    PROVE  Parse(Number(n)) = Parsed(n)
  BY NumberIsNoWord DEF Parse, Number

LEMMA ParseNoNumber == Parse(NoNumber) = Failed
  BY DEF Parse

\* What parses is a number of the range.
LEMMA ParsedText ==
    ASSUME NEW t \in Texts, Parse(t).ok
    PROVE  /\ t \in [num : Int64] /\ t.num \in Int64
           /\ Parse(t).n = t.num
  <1>1. t # NoNumber /\ t.num \in Int64
    BY DEF Parse, Failed
  <1>2. t \in [num : Numbers]
    BY <1>1 DEF Texts
  <1>3. t \in [num : Int64]
    BY <1>1, <1>2
  <1>4. Parse(t) = Parsed(t.num)
    BY <1>1 DEF Parse
  <1> QED
    BY <1>1, <1>3, <1>4 DEF Parsed

\* svc2 answers two numbers of the range with their sum or with a word.
LEMMA Svc2Answer ==
    ASSUME NEW a \in Int64, NEW b \in Int64
    PROVE  Svc2Handler(Number(a), Number(b)) =
               IF a + b \in Int64 THEN Number(a + b) ELSE NoNumber
  <1>1. Parse(Number(a)) = Parsed(a) /\ Parse(Number(b)) = Parsed(b)
    BY ParseNumber
  <1>2. Svc2Handler(Number(a), Number(b)) = Written(Sum(a, b))
    BY <1>1 DEF Svc2Handler, Parsed
  <1>3. CASE a + b \in Int64
    <2>1. ~Overflows(a, b)
      BY <1>3, OverflowsExact
    <2>2. Sum(a, b) = Parsed(a + b)
      BY <1>3, <2>1, WrapInside DEF Sum
    <2> QED
      BY <1>2, <1>3, <2>2 DEF Written, Parsed
  <1>4. CASE a + b \notin Int64
    <2>1. Overflows(a, b)
      BY <1>4, OverflowsExact
    <2> QED
      BY <1>2, <1>4, <2>1 DEF Sum, Written, Failed
  <1> QED
    BY <1>3, <1>4

\* Passing a body on does not change it.
LEMMA RelayKeeps ==
    /\ Written(Svc1Sum(Svc2Client(NoNumber))) = NoNumber
    /\ \A n \in Int64 : Written(Svc1Sum(Svc2Client(Number(n)))) = Number(n)
  BY ParseNumber, ParseNoNumber DEF Written, Svc1Sum, Svc2Client, Parsed, Failed

(* ------------------------------ invariant ------------------------------ *)

LEMMA SumInitially == SumInit => SumInv
  BY DEF SumInit, SumInv, SumTruthful

LEMMA SumStep == SumInv /\ [SumNext]_sumVars => SumInv'
  <1> SUFFICES ASSUME SumInv, [SumNext]_sumVars PROVE SumInv'
    OBVIOUS
  <1>1. CASE Svc1Handle
    BY <1>1 DEF Svc1Handle, SumInv, SumTruthful, Parses
  <1>2. CASE Svc2Handle
    <2> DEFINE a == Parse(query.a).n
               b == Parse(query.b).n
    <2>1. query.a \in Texts /\ query.b \in Texts /\ Parses
      BY <1>2 DEF Svc2Handle, SumInv
    <2>2. /\ a \in Int64 /\ b \in Int64
          /\ a = query.a.num /\ b = query.b.num
      BY <2>1, ParsedText DEF Parses
    <2>3. body' = IF a + b \in Int64 THEN Number(a + b) ELSE NoNumber
      BY <1>2, <2>2, Svc2Answer DEF Svc2Handle
    <2> HIDE DEF a, b
    <2>4. /\ body' = NoNumber \/ \E n \in Int64 : body' = Number(n)
          /\ body' # NoNumber => /\ body' = Number(query.a.num + query.b.num)
                                 /\ query.a.num + query.b.num \in Int64
      BY <2>2, <2>3
    <2> QED
      BY <1>2, <2>1, <2>4 DEF Svc2Handle, SumInv, SumTruthful, Parses
  <1>3. CASE Svc1Relay
    <2>1. body' = body
      BY <1>3, RelayKeeps DEF Svc1Relay, SumInv
    <2> QED
      BY <1>3, <2>1 DEF Svc1Relay, SumInv, SumTruthful, Parses
  <1>4. CASE Svc2Lost
    BY <1>4 DEF Svc2Lost, SumInv, SumTruthful, Parses
  <1>5. CASE Svc1Lost
    BY <1>5 DEF Svc1Lost, SumInv, SumTruthful, Parses, Failed
  <1>6. CASE ClientRead
    <2>1. CASE body = NoNumber
      BY <1>6, <2>1, ParseNoNumber
         DEF ClientRead, Svc1Client, SumInv, SumTruthful, Parses, Failed
    <2>2. CASE body # NoNumber
      <3> DEFINE s == query.a.num + query.b.num
      <3>1. /\ body = Number(s) /\ s \in Int64 /\ Parses
            /\ query.a \in Texts /\ query.b \in Texts
        BY <2>2 DEF SumInv
      <3>2. result' = Parsed(s)
        BY <1>6, <3>1, ParseNumber DEF ClientRead, Svc1Client
      <3>3. query.a \in [num : Int64] /\ query.b \in [num : Int64]
        BY <3>1, ParsedText DEF Parses
      <3>4. SumTruthful'
        BY <1>6, <3>1, <3>2, <3>3 DEF ClientRead, SumTruthful, Parsed
      <3> QED
        BY <1>6, <3>4 DEF ClientRead, SumInv, Parses
    <2> QED
      BY <2>1, <2>2
  <1>7. CASE UNCHANGED sumVars
    BY <1>7 DEF sumVars, SumInv, SumTruthful, Parses
  <1> QED
    BY <1>1, <1>2, <1>3, <1>4, <1>5, <1>6, <1>7 DEF SumNext

\* A sum that comes back is the sum, whatever the width of the integers.
THEOREM SumCorrect == SumSpec => []SumTruthful
  <1>1. SumInv => SumTruthful
    BY DEF SumInv
  <1> QED
    BY <1>1, SumInitially, SumStep, PTL DEF SumSpec

-----------------------------------------------------------------------------
(* ------------------------------- streams ------------------------------- *)

Words == Seq(Nat)

StreamTypes ==
    /\ rpc \in {"server", "client", "both"}
    /\ up \in Seq(Words) /\ down \in Seq(Words) /\ got \in Seq(Words)
    /\ sent \in Nat /\ params \in Words /\ broken \in BOOLEAN
    /\ client \in {"opening", "sending", "receiving", "stopped", "spinning", "crashed"}

\* The responses a server still has to deliver continue those received.
ServerInv ==
    rpc = "server" =>
        /\ sent <= Messages + 1
        /\ Len(got) + Len(down) <= sent
        /\ ~broken /\ client # "stopped" => Len(got) + Len(down) = sent
        /\ \A i \in 1 .. Len(got) : got[i] = Pair(0)
        /\ \A i \in 1 .. Len(down) :
               down[i] = IF Len(got) + i = Messages + 1 THEN EOF ELSE Pair(0)
        /\ client = "stopped" => Len(got) = Messages /\ sent = Messages + 1

\* The server has joined the first k pairs, the rest is on its way.
Collected(k) ==
    /\ Len(params) = 2 * k
    /\ \A j \in 1 .. 2 * k : params[j] = j \div 2
    /\ k + Len(up) <= Messages + 1
    /\ \A i \in 1 .. Len(up) :
           up[i] = IF k + i = Messages + 1 THEN EOF ELSE Pair(k + i - 1)
    /\ client # "receiving" =>
           /\ sent <= Messages /\ k + Len(up) <= sent /\ down = <<>>
           /\ ~broken => k + Len(up) = sent
    /\ got = <<>> /\ Len(down) <= 1
    /\ down # <<>> => up = <<>> /\ k = Messages /\ down[1] = params

CollectInv ==
    rpc = "client" =>
        /\ client \in {"opening", "sending", "receiving"} => \E k \in 0 .. Messages : Collected(k)
        /\ client = "stopped" => got = <<Joined>>

\* Of the two-sided stream at most one message is under way.
BothInv ==
    rpc = "both" =>
        /\ \A i \in 1 .. Len(got) : got[i] = Pair(i - 1)
        /\ client \in {"opening", "sending"} => up = <<>> /\ down = <<>> /\ sent = Len(got)
        /\ client = "receiving" =>
               /\ sent = Len(got) + 1 /\ Len(up) + Len(down) <= 1
               /\ \A i \in 1 .. Len(up) : up[i] = Pair(Len(got))
               /\ \A i \in 1 .. Len(down) : down[i] = Pair(Len(got))

StreamInv == StreamTypes /\ ServerInv /\ CollectInv /\ BothInv

LEMMA PairType == \A i \in Nat : Pair(i) \in Words /\ Pair(i) # EOF /\ EOF \in Words
  BY DEF Pair, EOF, Words

LEMMA Prefixes ==
    ASSUME NEW S, NEW q \in Seq(S), NEW n \in 0 .. Len(q)
    PROVE  /\ SubSeq(q, 1, n) \in Seq(S) /\ Len(SubSeq(q, 1, n)) = n
           /\ \A i \in 1 .. n : SubSeq(q, 1, n)[i] = q[i]
           /\ Len(q) \in Nat
  OBVIOUS

LEMMA StreamTypeStep == StreamTypes /\ [StreamNext]_streamVars => StreamTypes'
  <1> SUFFICES ASSUME StreamTypes, [StreamNext]_streamVars PROVE StreamTypes'
    OBVIOUS
  <1>0. Messages \in Nat \ {0}
    BY StreamAssumption
  <1> USE DEF StreamTypes
  <1>1. CASE Open \/ OpenFails
    BY <1>1 DEF Open, OpenFails
  <1>2. CASE ServerSend
    BY <1>2, QueueFacts, PairType DEF ServerSend
  <1>3. CASE ServerEnd
    BY <1>0, <1>3, QueueFacts, PairType DEF ServerEnd
  <1>4. CASE ClientSend
    BY <1>4, QueueFacts, PairType DEF ClientSend
  <1>5. CASE ClientClose
    BY <1>5, QueueFacts, PairType DEF ClientClose
  <1>6. CASE ServerCollect
    <2>1. Tail(up) \in Seq(Words) /\ Head(up) \in Words
      BY <1>6, QueueFacts DEF ServerCollect
    <2>2. params \o Head(up) \in Words /\ Append(down, params) \in Seq(Words)
      BY <2>1, QueueFacts DEF Words
    <2>3. QED
      BY <1>6, <2>1, <2>2 DEF ServerCollect
  <1>7. CASE BothSend
    <2>1. Append(up, Pair(sent)) \in Seq(Words)
      BY QueueFacts, PairType
    <2>2. CASE broken
      BY <1>7, <2>2 DEF BothSend
    <2>3. CASE ~broken
      BY <1>7, <2>1, <2>3 DEF BothSend
    <2>4. QED
      BY <2>2, <2>3
  <1>8. CASE BothServe
    BY <1>8, QueueFacts DEF BothServe
  <1>9. CASE ClientReceive
    <2>1. Tail(down) \in Seq(Words) /\ Append(got, Head(down)) \in Seq(Words)
      BY <1>9, QueueFacts DEF ClientReceive
    <2>2. QED
      BY <1>9, <2>1 DEF ClientReceive
  <1>10. CASE ClientError
    BY <1>10 DEF ClientError
  <1>11. CASE StreamBreak
    <2>1. PICK n \in 0 .. Len(down) : down' = SubSeq(down, 1, n)
      BY <1>11 DEF StreamBreak
    <2>2. <<>> \in Seq(Words)
      OBVIOUS
    <2>3. QED
      BY <1>11, <2>1, <2>2, Prefixes DEF StreamBreak
  <1>12. CASE UNCHANGED streamVars
    BY <1>12 DEF streamVars
  <1>13. QED
    BY <1>1, <1>2, <1>3, <1>4, <1>5, <1>6, <1>7, <1>8, <1>9, <1>10, <1>11, <1>12
       DEF StreamNext, StreamProgress

LEMMA ServerStreamStep ==
    StreamTypes /\ ServerInv /\ [StreamNext]_streamVars => ServerInv'
  <1> SUFFICES ASSUME StreamTypes, ServerInv, [StreamNext]_streamVars, rpc' = "server"
               PROVE  ServerInv'
    BY DEF ServerInv
  <1> DEFINE M == Messages + 1
             g == Len(got)
             d == Len(down)
             Rest(q, n) == \A i \in 1 .. Len(q) : q[i] = IF n + i = M THEN EOF ELSE Pair(0)
             Same(q) == \A i \in 1 .. Len(q) : q[i] = Pair(0)
  <1>0. Messages \in Nat \ {0} /\ M \in Nat
    BY StreamAssumption
  <1>1. rpc = "server"
    BY DEF StreamNext, StreamProgress, streamVars, Open, OpenFails, ServerSend, ServerEnd,
       ClientSend, ClientClose, ServerCollect, BothSend, BothServe, ClientReceive,
       ClientError, StreamBreak
  <1>2. Pair(0) # EOF /\ Pair(0) \in Words /\ EOF \in Words
    BY PairType
  <1>3. g \in Nat /\ d \in Nat /\ sent \in Nat
    BY DEF StreamTypes
  <1>4. /\ sent <= M /\ g + d <= sent
        /\ ~broken /\ client # "stopped" => g + d = sent
        /\ Same(got) /\ Rest(down, g)
        /\ client = "stopped" => g = Messages /\ sent = M
    BY <1>1 DEF ServerInv
  <1>5. ASSUME sent' <= M, Len(got') + Len(down') <= sent',
               ~broken' /\ client' # "stopped" => Len(got') + Len(down') = sent',
               Same(got'), Rest(down', Len(got')),
               client' = "stopped" => Len(got') = Messages /\ sent' = M
        PROVE  ServerInv'
    BY <1>5 DEF ServerInv
  <1>6. CASE UNCHANGED <<sent, got, down>> /\ client' # "stopped" /\ broken' = broken
                 /\ client # "stopped"
    BY <1>4, <1>5, <1>6
  <1>7. CASE Open \/ OpenFails \/ ClientError
    BY <1>1, <1>6, <1>7 DEF Open, OpenFails, ClientError
  <1>8. ASSUME NEW e \in Words, down' = Append(down, e), sent' = sent + 1, sent < M,
               e = IF sent + 1 = M THEN EOF ELSE Pair(0),
               ~broken, UNCHANGED <<client, got, broken>>
        PROVE  ServerInv'
    <2>1. client # "stopped" /\ g + d = sent
      <3> HIDE DEF M
      <3>1. QED
        BY <1>0, <1>3, <1>4, <1>8
    <2>2. /\ Len(down') = d + 1
          /\ \A i \in 1 .. Len(down') : \/ i \in 1 .. d /\ down'[i] = down[i]
                                        \/ i = d + 1 /\ down'[i] = e
      BY <1>8 DEF StreamTypes
    <2>3. Rest(down', g)
      <3> SUFFICES ASSUME NEW i \in 1 .. Len(down')
                   PROVE  down'[i] = IF g + i = M THEN EOF ELSE Pair(0)
        OBVIOUS
      <3>1. CASE i \in 1 .. d /\ down'[i] = down[i]
        BY <1>4, <3>1
      <3>2. CASE i = d + 1 /\ down'[i] = e
        <4>1. g + i = sent + 1
          BY <1>3, <2>1, <3>2
        <4> HIDE DEF M, g
        <4>2. QED
          BY <1>8, <3>2, <4>1
      <3>3. QED
        BY <2>2, <3>1, <3>2
    <2> HIDE DEF M, Rest, Same
    <2>4. /\ sent' <= M /\ Len(got') + Len(down') <= sent'
          /\ ~broken' /\ client' # "stopped" => Len(got') + Len(down') = sent'
      BY <1>0, <1>3, <1>8, <2>1, <2>2
    <2>5. QED
      BY <1>4, <1>5, <1>8, <2>1, <2>3, <2>4
  <1>9. CASE ServerSend
    BY <1>0, <1>2, <1>3, <1>8, <1>9 DEF ServerSend
  <1>10. CASE ServerEnd
    BY <1>0, <1>2, <1>3, <1>8, <1>10 DEF ServerEnd
  <1>11. CASE ClientReceive
    <2>1. /\ client = "receiving" /\ down # <<>> /\ down' = Tail(down)
          /\ UNCHANGED <<rpc, sent, broken>>
      BY <1>11 DEF ClientReceive
    <2>2. /\ Head(down) = down[1] /\ 1 \in 1 .. d /\ Len(down') = d - 1
          /\ \A i \in 1 .. Len(down') : i + 1 \in 1 .. d /\ down'[i] = down[i + 1]
      BY <2>1, QueueFacts DEF StreamTypes
    <2>3. Head(down) = IF g + 1 = M THEN EOF ELSE Pair(0)
      BY <1>4, <2>2
    <2>4. CASE Head(down) = EOF
      <3>1. client' = "stopped" /\ got' = got
        BY <1>11, <2>4 DEF ClientReceive
      <3>2. g + 1 = M
        BY <1>2, <2>3, <2>4
      <3>3. g = Messages /\ d = 1 /\ sent = M
        BY <1>0, <1>3, <1>4, <2>2, <3>2
      <3>4. Len(down') = 0
        BY <2>2, <3>3
      <3>5. Rest(down', g) /\ Same(got')
        BY <1>4, <3>1, <3>4
      <3>6. sent' = M /\ Len(got') = Messages
        BY <2>1, <3>1, <3>3
      <3>7. Len(got') + Len(down') <= M
        BY <1>0, <3>4, <3>6
      <3>8. sent' <= M /\ Len(got') + Len(down') <= sent'
        BY <1>0, <3>6, <3>7
      <3> HIDE DEF M, Rest, Same
      <3>9. QED
        BY <1>5, <2>1, <3>1, <3>3, <3>5, <3>6, <3>8
    <2>5. CASE Head(down) # EOF
      <3>1. client' = "receiving" /\ got' = Append(got, Pair(0))
        BY <1>11, <1>1, <2>3, <2>5 DEF ClientReceive
      <3>2. /\ Len(got') = g + 1
            /\ \A i \in 1 .. Len(got') : \/ i \in 1 .. g /\ got'[i] = got[i]
                                         \/ got'[i] = Pair(0)
        BY <3>1, <1>2, QueueFacts DEF StreamTypes
      <3>3. Same(got')
        BY <1>4, <3>2
      <3>4. Rest(down', Len(got'))
        <4> SUFFICES ASSUME NEW i \in 1 .. Len(down')
                     PROVE  down'[i] = IF g + 1 + i = M THEN EOF ELSE Pair(0)
          BY <3>2
        <4>1. /\ i + 1 \in 1 .. d /\ down'[i] = down[i + 1]
          BY <2>2
        <4>2. down[i + 1] = IF g + (i + 1) = M THEN EOF ELSE Pair(0)
          BY <1>4, <4>1
        <4>3. g + (i + 1) = g + 1 + i
          BY <1>3
        <4>4. QED
          BY <4>1, <4>2, <4>3
      <3>5. Len(got') + Len(down') = g + d
        BY <1>3, <2>2, <3>2
      <3> HIDE DEF M, Rest, Same, g, d
      <3>6. QED
        BY <1>4, <1>5, <2>1, <3>1, <3>3, <3>4, <3>5
    <2>6. QED
      BY <2>4, <2>5
  <1>12. CASE StreamBreak
    <2>1. PICK n \in 0 .. d : down' = SubSeq(down, 1, n)
      BY <1>12 DEF StreamBreak
    <2>2. Len(down') = n /\ \A i \in 1 .. n : down'[i] = down[i]
      BY <2>1, Prefixes DEF StreamTypes
    <2>3. broken' = TRUE /\ client # "stopped" /\ UNCHANGED <<rpc, sent, client, got>>
      BY <1>12 DEF StreamBreak
    <2>4. Rest(down', g)
      BY <1>3, <1>4, <2>1, <2>2
    <2> HIDE DEF M, Rest, Same
    <2>5. Len(got') + Len(down') <= sent'
      BY <1>3, <1>4, <2>1, <2>2, <2>3
    <2>6. QED
      BY <1>4, <1>5, <2>3, <2>4, <2>5
  <1>13. CASE UNCHANGED streamVars
    BY <1>13 DEF streamVars, ServerInv
  <1>14. QED
    BY <1>1, <1>7, <1>9, <1>10, <1>11, <1>12, <1>13 DEF StreamNext, StreamProgress,
       ClientSend, ClientClose, ServerCollect, BothSend, BothServe

\* What the server has once it has taken the end of the client's stream.
LEMMA AllCollected ==
    ASSUME params \in Words, Collected(Messages)
    PROVE  params = Joined /\ params # EOF
  <1>1. Messages \in Nat \ {0}
    BY StreamAssumption
  <1>2. Len(params) = 2 * Messages /\ \A j \in 1 .. 2 * Messages : params[j] = j \div 2
    BY DEF Collected
  <1>3. params = Joined
    BY <1>1, <1>2 DEF Joined, Words
  <1>4. QED
    BY <1>1, <1>2, <1>3 DEF EOF

LEMMA JoinOne ==
    ASSUME NEW k \in Nat, params \in Words, Len(params) = 2 * k,
           \A j \in 1 .. 2 * k : params[j] = j \div 2
    PROVE  LET q == params \o Pair(k) IN
           Len(q) = 2 * (k + 1) /\ \A j \in 1 .. 2 * (k + 1) : q[j] = j \div 2
  <1> DEFINE q == params \o <<k, k + 1>>
  <1>1. /\ Len(q) = 2 * k + 2 /\ q[2 * k + 1] = k /\ q[2 * k + 2] = k + 1
        /\ \A j \in 1 .. 2 * k : q[j] = params[j]
    BY DEF Words
  <1>2. (2 * k + 1) \div 2 = k /\ (2 * k + 2) \div 2 = k + 1
    OBVIOUS
  <1>3. \A j \in 1 .. 2 * (k + 1) : j \in 1 .. 2 * k \/ j = 2 * k + 1 \/ j = 2 * k + 2
    OBVIOUS
  <1> HIDE DEF q
  <1>4. Len(q) = 2 * (k + 1) /\ \A j \in 1 .. 2 * (k + 1) : q[j] = j \div 2
    BY <1>1, <1>2, <1>3
  <1>5. QED
    BY <1>4 DEF q, Pair

LEMMA CollectStreamStep ==
    StreamTypes /\ CollectInv /\ [StreamNext]_streamVars => CollectInv'
  <1> SUFFICES ASSUME StreamTypes, CollectInv, [StreamNext]_streamVars, rpc' = "client"
               PROVE  CollectInv'
    BY DEF CollectInv
  <1> DEFINE Open3 == client \in {"opening", "sending", "receiving"}
  <1>0. Messages \in Nat \ {0}
    BY StreamAssumption
  <1>1. rpc = "client"
    BY DEF StreamNext, StreamProgress, streamVars, Open, OpenFails, ServerSend, ServerEnd,
       ClientSend, ClientClose, ServerCollect, BothSend, BothServe, ClientReceive,
       ClientError, StreamBreak
  <1>3. CASE OpenFails \/ ClientError
    BY <1>1, <1>3 DEF OpenFails, ClientError, CollectInv
  <1>4. CASE UNCHANGED streamVars
    <2>1. \A k \in 0 .. Messages : Collected(k)' <=> Collected(k)
      BY <1>4 DEF streamVars, Collected
    <2>2. QED
      BY <1>1, <1>4, <2>1 DEF streamVars, CollectInv
  <1>5. ASSUME UNCHANGED got, client' = client, ~Open3 PROVE CollectInv'
    BY <1>1, <1>5 DEF CollectInv
  <1>6. ASSUME Open3, NEW k \in 0 .. Messages, Collected(k),
               Open \/ ClientSend \/ ClientClose \/ ServerCollect \/ ClientReceive \/ StreamBreak
        PROVE  CollectInv'
    <2>1. /\ k \in Nat /\ k <= Messages /\ Len(up) \in Nat /\ Len(down) \in Nat /\ sent \in Nat
      BY <1>0, <1>6 DEF StreamTypes
    <2>2. /\ Len(params) = 2 * k
          /\ \A j \in 1 .. 2 * k : params[j] = j \div 2
          /\ k + Len(up) <= Messages + 1
          /\ \A i \in 1 .. Len(up) :
                 up[i] = IF k + i = Messages + 1 THEN EOF ELSE Pair(k + i - 1)
          /\ client # "receiving" =>
                 /\ sent <= Messages /\ k + Len(up) <= sent /\ down = <<>>
                 /\ ~broken => k + Len(up) = sent
          /\ got = <<>> /\ Len(down) <= 1
          /\ down # <<>> => up = <<>> /\ k = Messages /\ down[1] = params
      BY <1>6 DEF Collected
    <2>3. CASE Open
      <3>1. Collected(k)' /\ client' \in {"opening", "sending", "receiving"}
        BY <1>1, <2>2, <2>3 DEF Open, Collected
      <3>2. QED
        BY <1>6, <3>1 DEF CollectInv
    <2>4. ASSUME NEW e \in Words, UNCHANGED <<rpc, down, params, broken, got>>,
                 client # "receiving", client' \in {"sending", "receiving"},
                 up' = IF broken THEN up ELSE Append(up, e),
                 e = IF sent = Messages THEN EOF ELSE Pair(sent),
                 (sent' <= Messages /\ sent' = sent + 1) \/ client' = "receiving"
          PROVE  CollectInv'
      <3>1. k + Len(up) <= sent /\ sent <= Messages /\ (~broken => k + Len(up) = sent)
        BY <2>2, <2>4
      <3>2. CASE broken
        <4>1. up' = up /\ (client' # "receiving" => sent' <= Messages /\ k + Len(up') <= sent')
          BY <2>1, <2>4, <3>1, <3>2
        <4>2. Collected(k)'
          BY <2>2, <2>4, <3>2, <4>1 DEF Collected
        <4>3. QED
          BY <2>4, <4>2 DEF CollectInv
      <3>3. CASE ~broken
        <4>1. /\ up' = Append(up, e) /\ Len(up') = Len(up) + 1
              /\ \A i \in 1 .. Len(up') : \/ i \in 1 .. Len(up) /\ up'[i] = up[i]
                                          \/ i = Len(up) + 1 /\ up'[i] = e
          BY <2>4, <3>3 DEF StreamTypes
        <4>2. \A i \in 1 .. Len(up') :
                 up'[i] = IF k + i = Messages + 1 THEN EOF ELSE Pair(k + i - 1)
          <5> SUFFICES ASSUME NEW i \in 1 .. Len(up')
                       PROVE  up'[i] = IF k + i = Messages + 1 THEN EOF ELSE Pair(k + i - 1)
            OBVIOUS
          <5>1. CASE i \in 1 .. Len(up) /\ up'[i] = up[i]
            BY <2>2, <5>1
          <5>2. CASE i = Len(up) + 1 /\ up'[i] = e
            <6>1. k + i = sent + 1 /\ k + i - 1 = sent
              BY <2>1, <3>1, <3>3, <5>2
            <6>2. k + i = Messages + 1 <=> sent = Messages
              BY <1>0, <2>1, <6>1
            <6>3. QED
              BY <2>4, <5>2, <6>1, <6>2
          <5>3. QED
            BY <4>1, <5>1, <5>2
        <4>3. k + Len(up') <= Messages + 1
          BY <1>0, <2>1, <3>1, <3>3, <4>1
        <4>4. client' # "receiving" => sent' <= Messages /\ k + Len(up') = sent'
          BY <2>1, <2>4, <3>1, <3>3, <4>1
        <4>5. down = <<>>
          BY <2>2, <2>4
        <4>6. k + Len(up') \in Nat
          BY <2>1, <4>1
        <4>7. Collected(k)'
          BY <2>1, <2>2, <2>4, <4>2, <4>3, <4>4, <4>5, <4>6 DEF Collected
        <4>8. QED
          BY <2>4, <4>7 DEF CollectInv
      <3>4. QED
        BY <3>2, <3>3
    <2>5. CASE ClientSend
      <3>1. sent # Messages /\ sent' = sent + 1 /\ sent' <= Messages
        BY <1>0, <2>1, <2>5 DEF ClientSend
      <3>2. Pair(sent) \in Words
        BY <2>1, PairType
      <3>3. QED
        BY <2>4, <2>5, <3>1, <3>2 DEF ClientSend
    <2>6. CASE ClientClose
      BY <2>4, <2>6, PairType DEF ClientClose
    <2>7. CASE ServerCollect
      <3>1. /\ ~broken /\ up # <<>> /\ up' = Tail(up)
            /\ UNCHANGED <<rpc, sent, broken, client, got>>
        BY <2>7 DEF ServerCollect
      <3>2. /\ Head(up) = up[1] /\ 1 \in 1 .. Len(up) /\ Len(up') = Len(up) - 1
            /\ \A i \in 1 .. Len(up') : i + 1 \in 1 .. Len(up) /\ up'[i] = up[i + 1]
        BY <3>1, QueueFacts DEF StreamTypes
      <3>3. Head(up) = IF k + 1 = Messages + 1 THEN EOF ELSE Pair(k)
        BY <2>1, <2>2, <3>2
      <3>4. down = <<>>
        BY <2>2, <3>1
      <3>5. CASE k + 1 = Messages + 1
        <4>1. k = Messages /\ Len(up) = 1 /\ Len(up') = 0
          BY <1>0, <2>1, <2>2, <3>2, <3>5
        <4>2. client = "receiving"
          BY <1>0, <2>1, <2>2, <4>1
        <4>3. down' = Append(down, params) /\ params' = params
          BY <2>7, <3>3, <3>5 DEF ServerCollect
        <4>4. Len(down') = 1 /\ down'[1] = params
          BY <3>4, <4>3
        <4>5. up' = <<>>
          BY <3>1, <4>1, EmptySeq DEF StreamTypes
        <4>6. Collected(k)'
          <5>1. k + Len(up') <= Messages + 1
            BY <1>0, <4>1
          <5>2. \A i \in 1 .. Len(up') :
                   up'[i] = IF k + i = Messages + 1 THEN EOF ELSE Pair(k + i - 1)
            BY <4>1
          <5>3. Len(down') <= 1
            BY <4>4
          <5>4. QED
            BY <2>2, <3>1, <4>1, <4>2, <4>3, <4>4, <4>5, <5>1, <5>2, <5>3 DEF Collected
        <4>7. QED
          BY <4>2, <4>6, <3>1 DEF CollectInv
      <3>6. CASE k + 1 # Messages + 1
        <4>1. k + 1 \in 0 .. Messages
          BY <1>0, <2>1, <3>6
        <4>2. params' = params \o Pair(k) /\ down' = down
          BY <2>1, <2>7, <3>3, <3>6, PairType DEF ServerCollect
        <4>3. Len(params') = 2 * (k + 1) /\ \A j \in 1 .. 2 * (k + 1) : params'[j] = j \div 2
          BY <2>1, <2>2, <4>2, JoinOne DEF StreamTypes
        <4>4. \A i \in 1 .. Len(up') :
                 up'[i] = IF (k + 1) + i = Messages + 1 THEN EOF ELSE Pair((k + 1) + i - 1)
          <5> SUFFICES ASSUME NEW i \in 1 .. Len(up')
                       PROVE  up'[i] = IF (k + 1) + i = Messages + 1 THEN EOF
                                       ELSE Pair((k + 1) + i - 1)
            OBVIOUS
          <5>1. i + 1 \in 1 .. Len(up) /\ up'[i] = up[i + 1]
            BY <3>2
          <5>2. up[i + 1] = IF k + (i + 1) = Messages + 1 THEN EOF ELSE Pair(k + (i + 1) - 1)
            BY <2>2, <5>1
          <5>3. k + (i + 1) = (k + 1) + i
            BY <2>1
          <5>4. QED
            BY <5>1, <5>2, <5>3
        <4>5. (k + 1) + Len(up') = k + Len(up)
          BY <2>1, <3>2
        <4>6. Collected(k + 1)'
          BY <2>2, <3>1, <3>4, <4>2, <4>3, <4>4, <4>5 DEF Collected
        <4>7. QED
          BY <1>6, <3>1, <4>1, <4>6 DEF CollectInv
      <3>7. QED
        BY <3>5, <3>6
    <2>8. CASE ClientReceive
      <3>1. down # <<>> /\ client = "receiving"
        BY <2>8 DEF ClientReceive
      <3>2. Head(down) = params
        BY <2>2, <3>1, QueueFacts DEF StreamTypes
      <3>3. params = Joined /\ params # EOF
        BY <1>6, <2>2, <3>1, AllCollected DEF StreamTypes
      <3>4. client' = "stopped" /\ got' = Append(got, Joined)
        BY <1>1, <2>8, <3>2, <3>3 DEF ClientReceive
      <3>5. QED
        BY <2>2, <3>4 DEF CollectInv
    <2>9. CASE StreamBreak
      <3>1. PICK n \in 0 .. Len(down) : down' = SubSeq(down, 1, n)
        BY <2>9 DEF StreamBreak
      <3>2. Len(down') = n /\ (\A i \in 1 .. n : down'[i] = down[i]) /\ down' \in Seq(Words)
        BY <3>1, Prefixes DEF StreamTypes
      <3>3. broken' = TRUE /\ up' = <<>> /\ UNCHANGED <<rpc, sent, client, got, params>>
        BY <2>9 DEF StreamBreak
      <3>4. down = <<>> => down' = <<>>
        BY <3>1, <3>2
      <3>5. down' # <<>> => down # <<>> /\ down'[1] = params
        BY <2>1, <2>2, <3>1, <3>2, <3>4
      <3>6. Len(down') <= 1
        BY <2>1, <2>2, <3>1, <3>2
      <3>7. k <= Messages + 1 /\ (client # "receiving" => k <= sent)
        BY <1>0, <2>1, <2>2
      <3>8. Len(up') = 0 /\ k + Len(up') = k
        BY <2>1, <3>3
      <3>9. Collected(k)'
        BY <2>2, <3>3, <3>4, <3>5, <3>6, <3>7, <3>8 DEF Collected
      <3>10. QED
        BY <1>6, <3>3, <3>9 DEF CollectInv
    <2>10. QED
      BY <1>6, <2>3, <2>5, <2>6, <2>7, <2>8, <2>9
  <1>7. ASSUME ~Open3,
               Open \/ ClientSend \/ ClientClose \/ ServerCollect \/ ClientReceive \/ StreamBreak
        PROVE  CollectInv'
    BY <1>5, <1>7 DEF Open, ClientSend, ClientClose, ServerCollect, ClientReceive, StreamBreak
  <1>8. Open3 => \E k \in 0 .. Messages : Collected(k)
    BY <1>1 DEF CollectInv
  <1>9. ASSUME Open \/ ClientSend \/ ClientClose \/ ServerCollect \/ ClientReceive \/ StreamBreak
        PROVE  CollectInv'
    BY <1>6, <1>7, <1>8, <1>9
  <1>10. QED
    BY <1>1, <1>3, <1>4, <1>9 DEF StreamNext, StreamProgress, ServerSend, ServerEnd,
       BothSend, BothServe

LEMMA OnlyOne == \A m, n \in Nat : (m + n <= 1 \/ n + m <= 1) /\ m # 0 => m = 1 /\ n = 0
  OBVIOUS

LEMMA BothStreamStep ==
    StreamTypes /\ BothInv /\ [StreamNext]_streamVars => BothInv'
  <1> SUFFICES ASSUME StreamTypes, BothInv, [StreamNext]_streamVars, rpc' = "both"
               PROVE  BothInv'
    BY DEF BothInv
  <1> DEFINE g == Len(got)
             At(q) == \A i \in 1 .. Len(q) : q[i] = Pair(g)
  <1>1. rpc = "both"
    BY DEF StreamNext, StreamProgress, streamVars, Open, OpenFails, ServerSend, ServerEnd,
       ClientSend, ClientClose, ServerCollect, BothSend, BothServe, ClientReceive,
       ClientError, StreamBreak
  <1>2. /\ \A i \in 1 .. g : got[i] = Pair(i - 1)
        /\ client \in {"opening", "sending"} => up = <<>> /\ down = <<>> /\ sent = g
        /\ client = "receiving" =>
               sent = g + 1 /\ Len(up) + Len(down) <= 1 /\ At(up) /\ At(down)
    BY <1>1 DEF BothInv
  <1>3. g \in Nat /\ sent \in Nat /\ Len(up) \in Nat /\ Len(down) \in Nat
    BY DEF StreamTypes
  <1>4. CASE Open \/ OpenFails \/ ClientError
    BY <1>1, <1>2, <1>4 DEF Open, OpenFails, ClientError, BothInv
  <1>5. ASSUME got' = got, sent' = g + 1, Len(up') + Len(down') <= 1, At(up'), At(down'),
               client' = "receiving"
        PROVE  BothInv'
    BY <1>2, <1>5 DEF BothInv
  <1>6. CASE BothSend
    <2>1. CASE broken
      BY <1>2, <1>6, <2>1 DEF BothSend, BothInv
    <2>2. CASE ~broken
      <3>1. /\ client' = "receiving" /\ up' = Append(up, Pair(sent)) /\ sent' = sent + 1
            /\ got' = got /\ down' = down /\ up = <<>> /\ down = <<>> /\ sent = g
        BY <1>2, <1>6, <2>2 DEF BothSend
      <3>2. Len(up') = 1 /\ up'[1] = Pair(g) /\ Len(down') = 0
        BY <3>1
      <3>3. At(up') /\ At(down') /\ Len(up') + Len(down') <= 1
        BY <3>2
      <3>4. QED
        BY <1>5, <3>1, <3>3
    <2>3. QED
      BY <2>1, <2>2
  <1>7. CASE BothServe
    <2>1. /\ up # <<>> /\ up' = Tail(up) /\ down' = Append(down, Head(up))
          /\ UNCHANGED <<sent, client, got>>
      BY <1>7 DEF BothServe
    <2>2. CASE client = "receiving"
      <3>1. Len(up) \in Nat \ {0}
        BY <2>1, EmptySeq DEF StreamTypes
      <3>2. Len(up) = 1 /\ Len(down) = 0
        BY <1>2, <1>3, <2>2, <3>1, OnlyOne
      <3>3. down = <<>> /\ Head(up) = up[1] /\ up[1] = Pair(g)
        BY <1>2, <2>1, <2>2, <3>2, EmptySeq DEF StreamTypes
      <3>4. up' = <<>> /\ Len(down') = 1 /\ down'[1] = Pair(g)
        BY <2>1, <3>2, <3>3, QueueOfOne DEF StreamTypes
      <3>5. At(up') /\ At(down') /\ Len(up') + Len(down') <= 1
        BY <3>4
      <3>6. QED
        BY <1>2, <1>5, <2>1, <2>2, <3>5
    <2>3. CASE client # "receiving"
      BY <1>2, <2>1, <2>3 DEF BothInv
    <2>4. QED
      BY <2>2, <2>3
  <1>8. CASE ClientReceive
    <2>1. client = "receiving" /\ down # <<>> /\ down' = Tail(down) /\ UNCHANGED <<sent, up>>
      BY <1>8 DEF ClientReceive
    <2>2. Len(down) \in Nat \ {0}
      BY <2>1, EmptySeq DEF StreamTypes
    <2>3. Len(down) = 1 /\ Len(up) = 0
      <3> DEFINE m == Len(down)
                 n == Len(up)
      <3>1. m \in Nat /\ n \in Nat /\ n + m <= 1 /\ m # 0
        BY <1>2, <1>3, <2>1, <2>2
      <3> HIDE DEF m, n
      <3>2. m = 1 /\ n = 0
        BY <3>1, OnlyOne
      <3>3. QED
        BY <3>2 DEF m, n
    <2>4. up' = <<>> /\ down' = <<>> /\ Head(down) = Pair(g)
      BY <1>2, <2>1, <2>3, EmptySeq, QueueOfOne DEF StreamTypes
    <2>5. client' = "sending" /\ got' = Append(got, Pair(g))
      BY <1>1, <1>3, <1>8, <2>4, PairType DEF ClientReceive
    <2>6. /\ Len(got') = g + 1
          /\ \A i \in 1 .. Len(got') : \/ i \in 1 .. g /\ got'[i] = got[i]
                                       \/ i = g + 1 /\ got'[i] = Pair(g)
      BY <2>5 DEF StreamTypes
    <2>7. \A i \in 1 .. Len(got') : got'[i] = Pair(i - 1)
      <3> SUFFICES ASSUME NEW i \in 1 .. Len(got') PROVE got'[i] = Pair(i - 1)
        OBVIOUS
      <3>1. CASE i \in 1 .. g /\ got'[i] = got[i]
        BY <1>2, <3>1
      <3>2. CASE i = g + 1 /\ got'[i] = Pair(g)
        <4>1. i - 1 = g
          BY <1>3, <3>2
        <4>2. QED
          BY <3>2, <4>1
      <3>3. QED
        BY <2>6, <3>1, <3>2
    <2>8. QED
      BY <1>2, <2>1, <2>4, <2>5, <2>6, <2>7 DEF BothInv
  <1>9. CASE StreamBreak
    <2>1. PICK n \in 0 .. Len(down) : down' = SubSeq(down, 1, n)
      BY <1>9 DEF StreamBreak
    <2>2. Len(down') = n /\ \A i \in 1 .. n : down'[i] = down[i]
      BY <2>1, Prefixes DEF StreamTypes
    <2>3. up' = <<>> /\ UNCHANGED <<sent, client, got>>
          /\ client \in {"opening", "sending", "receiving"}
      BY <1>9 DEF StreamBreak
    <2>4. CASE client = "receiving"
      <3>1. At(up') /\ At(down') /\ Len(up') + Len(down') <= 1
        BY <1>2, <1>3, <2>1, <2>2, <2>3, <2>4
      <3>2. QED
        BY <1>2, <1>5, <2>3, <2>4, <3>1
    <2>5. CASE client # "receiving"
      <3>1. down = <<>> /\ down' = <<>>
        BY <1>2, <2>1, <2>3, <2>5
      <3>2. QED
        BY <1>2, <2>3, <2>5, <3>1 DEF BothInv
    <2>6. QED
      BY <2>4, <2>5
  <1>10. CASE UNCHANGED streamVars
    BY <1>10 DEF streamVars, BothInv
  <1>11. QED
    BY <1>1, <1>4, <1>6, <1>7, <1>8, <1>9, <1>10 DEF StreamNext, StreamProgress, ServerSend,
       ServerEnd, ClientSend, ClientClose, ServerCollect

LEMMA StreamStart == StreamInit => StreamInv
  <1> SUFFICES ASSUME StreamInit PROVE StreamInv
    OBVIOUS
  <1>1. Messages \in Nat \ {0}
    BY StreamAssumption
  <1>2. StreamTypes
    <2>1. <<>> \in Seq(Words) /\ <<>> \in Words
      BY DEF Words
    <2>2. QED
      BY <2>1 DEF StreamInit, StreamTypes
  <1>3. ServerInv /\ BothInv
    BY <1>1 DEF StreamInit, ServerInv, BothInv
  <1>4. Collected(0)
    BY <1>1 DEF StreamInit, Collected
  <1>5. CollectInv
    BY <1>1, <1>4 DEF StreamInit, CollectInv
  <1>6. QED
    BY <1>2, <1>3, <1>5 DEF StreamInv

LEMMA StreamMeans == StreamInv => StreamsWhole
  <1> SUFFICES ASSUME StreamInv PROVE StreamsWhole
    OBVIOUS
  <1>1. Messages \in Nat \ {0} /\ got \in Seq(Words)
    BY StreamAssumption DEF StreamInv, StreamTypes
  <1>2. ASSUME client = "stopped", rpc = "server" PROVE got = [i \in 1 .. Messages |-> Pair(0)]
    <2>1. Len(got) = Messages /\ \A i \in 1 .. Len(got) : got[i] = Pair(0)
      BY <1>2 DEF StreamInv, ServerInv
    <2>2. QED
      BY <1>1, <2>1
  <1>3. client = "stopped" /\ rpc = "client" => got = <<Joined>>
    BY DEF StreamInv, CollectInv
  <1>4. rpc = "both" => \A i \in DOMAIN got : got[i] = Pair(i - 1)
    BY <1>1 DEF StreamInv, BothInv
  <1>5. QED
    BY <1>2, <1>3, <1>4 DEF StreamsWhole

\* A client of any of the three streams that stopped without a failure has
\* received everything, once and in order, whatever the number of messages
\* and wherever the connection broke.
THEOREM StreamsProved == StreamSpec => []StreamsWhole
  <1>1. StreamInv /\ [StreamNext]_streamVars => StreamInv'
    BY StreamTypeStep, ServerStreamStep, CollectStreamStep, BothStreamStep DEF StreamInv
  <1>2. QED
    BY StreamStart, <1>1, StreamMeans, PTL DEF StreamSpec

-----------------------------------------------------------------------------
(* ------------------------------ gateways ------------------------------- *)

Plain  == {"ch9", "ch12"}
Voices == [by : {"handler", "proxy"}, of : Requests]

GateTypes ==
    /\ kind \in Plain \cup Breakers
    /\ pc \in [Requests -> {"new", "proxying", "filter", "lookup", "configure", "store", "do",
                            "waiting", "fallback", "done"}]
    /\ run \in [Requests -> {"none", "discover", "connect", "body", "ok", "failed"}]
    /\ late \in [Requests -> BOOLEAN]
    /\ out \in [Requests -> Seq(Voices)]
    /\ known \in BOOLEAN /\ configured \in Nat
    /\ alive \in BOOLEAN

\* In a plain gateway the proxy is the handler: it is the only voice.
PlainInv ==
    kind \in Plain =>
        /\ alive
        /\ \A r \in Requests :
              /\ ~late[r] /\ pc[r] \in {"new", "proxying", "done"}
              /\ Running(r) => pc[r] = "proxying"
              /\ \A v : Speaks(r, v) => v = Voice("proxy", r)

\* Behind a breaker a run outlives the wait for it only when it is late, and
\* the handler speaks when it is done.
Behind(r) ==
    /\ pc[r] \in {"new", "filter", "lookup", "configure", "store", "do"} => run[r] = "none"
    /\ Running(r) => pc[r] = "waiting" \/ (late[r] /\ pc[r] \in {"fallback", "done"})
    /\ pc[r] = "fallback" => late[r] \/ run[r] \in {"none", "failed"}
    /\ Speaks(r, Voice("proxy", r)) /\ ~late[r] /\ alive => run[r] \in {"body", "ok"}
    /\ Speaks(r, Voice("handler", r)) => pc[r] = "done"
    /\ Speaks(r, Voice("proxy", r)) /\ Speaks(r, Voice("handler", r)) => late[r]
    /\ run[r] = "body" => Len(out[r]) > 0 \/ late[r]
Strangers(r) ==
    \A s \in Requests \ {r} : Speaks(r, Voice("proxy", s)) => late[s] /\ pc[s] = "done"
BreakerInv ==
    kind \in Breakers => \A r \in Requests : Behind(r) /\ Strangers(r)

\* A command of chapter 10 is configured by the first holder of the mutex.
ConfigInv ==
    /\ known => configured > 0
    /\ \A r \in Requests : pc[r] \in {"store", "do", "waiting", "fallback"} => configured > 0
    /\ kind = "ch10" => configured <= 1 /\ (configured = 1 => known \/ lock # "free")
    /\ kind = "ch10" => \A r \in Requests : pc[r] = "store" => lock = r /\ ~known

EndInv ==
    ~alive /\ kind \in Breakers =>
        \/ \E r \in Requests : Perilous(r)
        \/ kind = "ch10" /\ \E r, s \in Requests : Clash(r, s)

GateInv == GateTypes /\ PlainInv /\ BreakerInv /\ ConfigInv /\ EndInv

LEMMA Spoken ==
    ASSUME GateTypes, NEW r \in Requests, NEW v \in Voices,
           out'[r] = Append(out[r], v), \A s \in Requests \ {r} : out'[s] = out[s]
    PROVE  /\ Append(out[r], v) \in Seq(Voices)
           /\ \A w : Speaks(r, w)' <=> Speaks(r, w) \/ w = v
           /\ \A s \in Requests \ {r} : \A w : Speaks(s, w)' <=> Speaks(s, w)
           /\ Len(out'[r]) > 0
  <1>1. out[r] \in Seq(Voices)
    BY DEF GateTypes
  <1>2. /\ Append(out[r], v) \in Seq(Voices) /\ Len(out[r]) \in Nat
        /\ DOMAIN out[r] = 1 .. Len(out[r])
        /\ Len(Append(out[r], v)) = Len(out[r]) + 1
        /\ DOMAIN Append(out[r], v) = 1 .. Len(out[r]) + 1
        /\ \A i \in 1 .. Len(out[r]) : Append(out[r], v)[i] = out[r][i]
        /\ Append(out[r], v)[Len(out[r]) + 1] = v
    BY <1>1
  <1>3. \A w : Speaks(r, w)' <=> Speaks(r, w) \/ w = v
    <2> DEFINE q == out[r]
               n == Len(q)
               p == Append(q, v)
    <2>1. /\ n \in Nat /\ DOMAIN q = 1 .. n /\ DOMAIN p = 1 .. n + 1 /\ p[n + 1] = v
          /\ \A i \in 1 .. n : p[i] = q[i]
      BY <1>2
    <2>2. \A i \in 1 .. n + 1 : i \in 1 .. n \/ i = n + 1
      BY <2>1
    <2>3. n + 1 \in 1 .. n + 1 /\ \A i \in 1 .. n : i \in 1 .. n + 1
      BY <2>1
    <2>4. out'[r] = p
      OBVIOUS
    <2> HIDE DEF n, p
    <2>5. \A w : (\E i \in DOMAIN p : p[i] = w) <=> (\E i \in DOMAIN q : q[i] = w) \/ w = v
      BY <2>1, <2>2, <2>3
    <2>6. QED
      BY <2>4, <2>5 DEF Speaks
  <1>4. \A s \in Requests \ {r} : \A w : Speaks(s, w)' <=> Speaks(s, w)
    BY DEF Speaks
  <1>5. QED
    BY <1>2, <1>3, <1>4

LEMMA Silent ==
    ASSUME UNCHANGED out
    PROVE  \A s \in Requests : \A w : Speaks(s, w)' <=> Speaks(s, w)
  BY DEF Speaks

LEMMA VoiceType ==
    \A r \in Requests : Voice("handler", r) \in Voices /\ Voice("proxy", r) \in Voices
  BY DEF Voice, Voices

LEMMA GateTypeStep == GateTypes /\ [GateNext]_gateVars => GateTypes'
  <1> SUFFICES ASSUME GateTypes, [GateNext]_gateVars PROVE GateTypes'
    OBVIOUS
  <1>1. CASE UNCHANGED gateVars
    BY <1>1 DEF gateVars, GateTypes
  <1>2. ASSUME NEW r \in Requests, Arrive(r) \/ HandlerStep(r) \/ ProxyStep(r)
        PROVE  GateTypes'
    <2>1. ASSUME NEW s \in Requests, NEW v \in Voices PROVE Append(out[s], v) \in Seq(Voices)
      BY <2>1 DEF GateTypes
    <2>2. ASSUME NEW s \in Requests, NEW by \in {"handler", "proxy"}, NEW t \in Requests,
                 out' = [out EXCEPT ![s] = Append(@, Voice(by, t))]
          PROVE  out' \in [Requests -> Seq(Voices)]
      <3>1. Voice(by, t) \in Voices
        BY VoiceType
      <3>2. Append(out[s], Voice(by, t)) \in Seq(Voices)
        BY <2>1, <3>1
      <3>3. QED
        BY <2>2, <3>2 DEF GateTypes
    <2>3. ASSUME NEW by \in {"handler", "proxy"}, Say(r, by)
          PROVE  out' \in [Requests -> Seq(Voices)]
      BY <2>2, <2>3 DEF Say
    <2>4. out \in [Requests -> Seq(Voices)]
      BY DEF GateTypes
    <2>5. CASE Arrive(r)
      <3>1. out' \in [Requests -> Seq(Voices)]
        BY <2>3, <2>4, <2>5 DEF Arrive, PlainArrive, Ch10Arrive, Ch13Arrive, Paths, Match
      <3>2. pc' \in [Requests -> {"new", "proxying", "filter", "lookup", "configure", "store",
                                  "do", "waiting", "fallback", "done"}]
        BY <2>5 DEF Arrive, PlainArrive, Ch10Arrive, Ch13Arrive, Paths, Match, Goto, GateTypes
      <3>3. run' \in [Requests -> {"none", "discover", "connect", "body", "ok", "failed"}]
        BY <2>5 DEF Arrive, PlainArrive, Ch10Arrive, Ch13Arrive, GateTypes
      <3>4. QED
        BY <2>5, <3>1, <3>2, <3>3 DEF Arrive, GateTypes
    <2>6. CASE Filter(r)
      <3>1. out' \in [Requests -> Seq(Voices)]
        BY <2>3, <2>4, <2>6 DEF Filter
      <3>2. QED
        BY <2>6, <3>1 DEF Filter, Goto, GateTypes
    <2>7. CASE Lookup(r)
      BY <2>7 DEF Lookup, Goto, GateTypes
    <2>8. CASE Ch10Configure(r) \/ Ch13Configure(r) \/ Store(r)
      <3>1. pc' \in [Requests -> {"new", "proxying", "filter", "lookup", "configure", "store",
                                  "do", "waiting", "fallback", "done"}]
        <4>1. \E l \in {"do", "store"} : Goto(r, l)
          BY <2>8 DEF Ch10Configure, Ch13Configure, Store
        <4>2. QED
          BY <4>1 DEF Goto, GateTypes
      <3>2. configured' \in {configured, configured + 1} /\ configured \in Nat
        BY <2>8 DEF Ch10Configure, Ch13Configure, Store, GateTypes
      <3>3. configured' \in Nat
        BY <3>2
      <3>4. known' \in {known, TRUE} /\ UNCHANGED <<kind, run, late, out, alive>>
        BY <2>8 DEF Ch10Configure, Ch13Configure, Store
      <3>5. QED
        BY <3>1, <3>3, <3>4 DEF GateTypes
    <2>9. CASE Do(r) \/ Timeout(r) \/ RunEnded(r)
      BY <2>9 DEF Do, Timeout, RunEnded, Goto, GateTypes
    <2>10. CASE Fallback(r)
      <3>1. out' \in [Requests -> Seq(Voices)]
        BY <2>3, <2>10 DEF Fallback
      <3>2. QED
        BY <2>10, <3>1 DEF Fallback, Goto, GateTypes
    <2>11. ASSUME RunFails(r) PROVE /\ out' \in [Requests -> Seq(Voices)]
                                    /\ UNCHANGED <<kind, late, known, configured, lock, alive>>
                                          => GateTypes'
      <3>1. out' \in [Requests -> Seq(Voices)]
        BY <2>3, <2>4, <2>11 DEF RunFails
      <3>2. QED
        BY <2>11, <3>1 DEF RunFails, Goto, GateTypes
    <2>12. CASE Discover(r)
      <3>1. CASE RunFails(r)
        BY <2>11, <2>12, <3>1 DEF Discover
      <3>2. CASE run' = [run EXCEPT ![r] = "connect"] /\ UNCHANGED <<pc, out>>
        BY <2>12, <3>2 DEF Discover, GateTypes
      <3>3. QED
        BY <2>12, <3>1, <3>2 DEF Discover
    <2>13. CASE ConnectFails(r)
      BY <2>11, <2>13 DEF ConnectFails
    <2>14. ASSUME Write(r) PROVE out' \in [Requests -> Seq(Voices)] /\ alive' \in BOOLEAN
      <3>1. alive \in BOOLEAN /\ late[r] \in BOOLEAN
        BY DEF GateTypes
      <3>2. CASE Engaged(r)
        BY <2>3, <2>14, <3>1, <3>2 DEF Write
      <3>3. CASE ~Engaged(r) /\ UNCHANGED <<out, alive>>
        BY <2>4, <3>1, <3>3
      <3>4. ASSUME NEW s \in Requests, out' = [out EXCEPT ![s] = Append(@, Voice("proxy", r))],
                   UNCHANGED alive
            PROVE  out' \in [Requests -> Seq(Voices)] /\ alive' \in BOOLEAN
        BY <2>2, <3>1, <3>4
      <3>5. CASE alive' = FALSE /\ UNCHANGED out
        BY <2>4, <3>5
      <3>6. QED
        BY <2>14, <3>2, <3>3, <3>4, <3>5 DEF Write
    <2>15. CASE CopyHead(r) \/ CopyBody(r)
      <3>1. out' \in [Requests -> Seq(Voices)] /\ alive' \in BOOLEAN
        BY <2>14, <2>15 DEF CopyHead, CopyBody
      <3>2. QED
        BY <2>15, <3>1 DEF CopyHead, CopyBody, Goto, GateTypes
    <2>16. CASE BodyBreaks(r)
      BY <2>16 DEF BodyBreaks, Goto, GateTypes
    <2>17. QED
      BY <1>2, <2>5, <2>6, <2>7, <2>8, <2>9, <2>10, <2>12, <2>13, <2>15, <2>16
         DEF HandlerStep, ProxyStep
  <1>3. QED
    BY <1>1, <1>2 DEF GateNext

LEMMA PlainStep == GateTypes /\ PlainInv /\ [GateNext]_gateVars => PlainInv'
  <1> SUFFICES ASSUME GateTypes, PlainInv, [GateNext]_gateVars, kind' \in Plain PROVE PlainInv'
    BY DEF PlainInv
  <1>1. kind \in Plain /\ kind \notin Breakers /\ kind \in {"ch9", "ch12"}
    BY DEF GateNext, gateVars, Arrive, HandlerStep, ProxyStep, Filter, Lookup, Ch10Configure,
       Ch13Configure, Store, Do, Timeout, RunEnded, Fallback, Discover, ConnectFails,
       CopyHead, CopyBody, BodyBreaks, Plain, Breakers
  <1>2. /\ alive
        /\ \A s \in Requests : /\ ~late[s] /\ pc[s] \in {"new", "proxying", "done"}
                               /\ Running(s) => pc[s] = "proxying"
                               /\ \A v : Speaks(s, v) => v = Voice("proxy", s)
    BY <1>1 DEF PlainInv
  <1>3. CASE UNCHANGED gateVars
    <2>1. \A s \in Requests : \A w : Speaks(s, w)' <=> Speaks(s, w)
      BY <1>3, Silent DEF gateVars
    <2>2. QED
      BY <1>2, <1>3, <2>1 DEF gateVars, PlainInv, Running
  <1>4. ASSUME NEW r \in Requests, Arrive(r) \/ HandlerStep(r) \/ ProxyStep(r)
        PROVE  PlainInv'
    <2>1. ASSUME alive', late' = late, out' = out \/ Say(r, "proxy"),
                 \A s \in Requests \ {r} : pc'[s] = pc[s] /\ run'[s] = run[s],
                 \/ pc'[r] = "proxying" \/ (pc'[r] = "done" /\ run'[r] \in {"ok", "failed"})
          PROVE  PlainInv'
      <3>1. \A s \in Requests : \A v : Speaks(s, v)' => v = Voice("proxy", s)
        <4>1. CASE out' = out
          BY <1>2, <4>1, Silent
        <4>2. CASE Say(r, "proxy")
          <5>1. out'[r] = Append(out[r], Voice("proxy", r)) /\ \A s \in Requests \ {r} : out'[s] = out[s]
            BY <4>2 DEF Say, GateTypes
          <5>2. /\ \A w : Speaks(r, w)' <=> Speaks(r, w) \/ w = Voice("proxy", r)
                /\ \A s \in Requests \ {r} : \A w : Speaks(s, w)' <=> Speaks(s, w)
            BY <5>1, Spoken, VoiceType
          <5>3. QED
            BY <1>2, <5>2
        <4>3. QED
          BY <2>1, <4>1, <4>2
      <3>2. \A s \in Requests : /\ ~late'[s] /\ pc'[s] \in {"new", "proxying", "done"}
                                /\ Running(s)' => pc'[s] = "proxying"
        BY <1>2, <2>1 DEF Running
      <3>3. QED
        BY <2>1, <3>1, <3>2 DEF PlainInv
    <2>2. CASE Arrive(r)
      <3>1. PlainArrive(r)
        BY <1>1, <2>2 DEF Arrive, Ch10Arrive, Ch13Arrive
      <3>2. QED
        BY <1>2, <2>1, <2>2, <3>1 DEF Arrive, PlainArrive, Goto, GateTypes
    <2>3. CASE HandlerStep(r)
      BY <1>2, <2>3 DEF HandlerStep, Filter, Lookup, Ch10Configure, Ch13Configure, Store, Do,
         Timeout, RunEnded, Fallback
    <2>4. CASE ProxyStep(r)
      <3>1. Running(r) /\ pc[r] = "proxying" /\ ~late[r] /\ Engaged(r)
        BY <1>2, <2>4 DEF ProxyStep, Discover, ConnectFails, CopyHead, CopyBody, BodyBreaks,
           Running, Engaged
      <3>2. CASE Discover(r) \/ ConnectFails(r)
        <4>1. UNCHANGED <<late, alive>>
          BY <3>2 DEF Discover, ConnectFails
        <4>2. CASE RunFails(r)
          BY <1>1, <1>2, <2>1, <4>1, <4>2 DEF RunFails, Goto, GateTypes
        <4>3. CASE run' = [run EXCEPT ![r] = "connect"] /\ UNCHANGED <<pc, out>>
          BY <1>2, <2>1, <3>1, <4>1, <4>3 DEF GateTypes
        <4>4. QED
          BY <3>2, <4>2, <4>3 DEF Discover, ConnectFails
      <3>3. CASE CopyHead(r)
        <4>1. Say(r, "proxy") /\ alive'
          BY <3>1, <3>3 DEF CopyHead, Write
        <4>2. QED
          BY <1>2, <2>1, <3>1, <3>3, <4>1 DEF CopyHead, GateTypes
      <3>4. CASE CopyBody(r)
        <4>1. Say(r, "proxy") /\ alive'
          BY <3>1, <3>4 DEF CopyBody, Write
        <4>2. QED
          BY <1>1, <1>2, <2>1, <3>1, <3>4, <4>1 DEF CopyBody, Goto, GateTypes
      <3>5. CASE BodyBreaks(r)
        BY <1>1, <1>2, <2>1, <3>1, <3>5 DEF BodyBreaks, Goto, GateTypes
      <3>6. QED
        BY <2>4, <3>2, <3>3, <3>4, <3>5 DEF ProxyStep
    <2>5. QED
      BY <1>4, <2>2, <2>3, <2>4
  <1>5. QED
    BY <1>3, <1>4 DEF GateNext

\* What the step of one request leaves alone.
LEMMA GateFrame ==
    ASSUME GateTypes, alive, NEW r \in Requests, Arrive(r) \/ HandlerStep(r) \/ ProxyStep(r)
    PROVE  /\ kind' = kind
           /\ \A s \in Requests \ {r} : pc'[s] = pc[s] /\ run'[s] = run[s] /\ late'[s] = late[s]
           /\ late[r] => late'[r]
           /\ pc[r] = "done" => pc'[r] = "done"
  <1>1. CASE Arrive(r)
    BY <1>1 DEF Arrive, PlainArrive, Ch10Arrive, Ch13Arrive, Paths, Match, Goto, GateTypes
  <1>2. CASE Filter(r) \/ Lookup(r) \/ Ch10Configure(r) \/ Ch13Configure(r) \/ Store(r)
    BY <1>2 DEF Filter, Lookup, Ch10Configure, Ch13Configure, Store, Goto, GateTypes
  <1>3. CASE Do(r) \/ Timeout(r) \/ RunEnded(r) \/ Fallback(r)
    BY <1>3 DEF Do, Timeout, RunEnded, Fallback, Goto, GateTypes
  <1>4. CASE ProxyStep(r)
    BY <1>4 DEF ProxyStep, Discover, ConnectFails, CopyHead, CopyBody, BodyBreaks, RunFails, Goto,
       GateTypes
  <1>5. QED
    BY <1>1, <1>2, <1>3, <1>4 DEF HandlerStep

LEMMA BreakerStep == GateTypes /\ BreakerInv /\ [GateNext]_gateVars => BreakerInv'
  <1> SUFFICES ASSUME GateTypes, BreakerInv, [GateNext]_gateVars, kind' \in Breakers
               PROVE  BreakerInv'
    BY DEF BreakerInv
  <1>1. CASE UNCHANGED gateVars
    <2>1. \A s \in Requests : \A w : Speaks(s, w)' <=> Speaks(s, w)
      BY <1>1, Silent DEF gateVars
    <2>2. kind \in Breakers
      BY <1>1 DEF gateVars
    <2>3. \A s \in Requests : Behind(s) /\ Strangers(s)
      BY <2>2 DEF BreakerInv
    <2>4. \A s \in Requests : Behind(s)' /\ Strangers(s)'
      BY <1>1, <2>1, <2>3 DEF gateVars, Behind, Strangers, Running
    <2>5. QED
      BY <2>4 DEF BreakerInv
  <1>2. ASSUME NEW r \in Requests, alive, Arrive(r) \/ HandlerStep(r) \/ ProxyStep(r)
        PROVE  BreakerInv'
    <2> DEFINE P == Speaks(r, Voice("proxy", r))
               H == Speaks(r, Voice("handler", r))
    <2>1. /\ kind' = kind
          /\ \A s \in Requests \ {r} : pc'[s] = pc[s] /\ run'[s] = run[s] /\ late'[s] = late[s]
          /\ late[r] => late'[r]
          /\ pc[r] = "done" => pc'[r] = "done"
      BY <1>2, GateFrame
    <2>2. kind \in Breakers /\ kind \notin {"ch9", "ch12"}
      BY <2>1 DEF Breakers
    <2>3. \A s \in Requests : Behind(s) /\ Strangers(s)
      BY <2>2 DEF BreakerInv
    <2>4. /\ pc[r] \in {"new", "filter", "lookup", "configure", "store", "do"} => run[r] = "none"
          /\ Running(r) => pc[r] = "waiting" \/ (late[r] /\ pc[r] \in {"fallback", "done"})
          /\ pc[r] = "fallback" => late[r] \/ run[r] \in {"none", "failed"}
          /\ P /\ ~late[r] => run[r] \in {"body", "ok"}
          /\ H => pc[r] = "done"
          /\ P /\ H => late[r]
          /\ run[r] = "body" => Len(out[r]) > 0 \/ late[r]
      BY <1>2, <2>3 DEF Behind
    <2>5. /\ Voice("handler", r) # Voice("proxy", r)
          /\ \A s \in Requests \ {r} : /\ Voice("proxy", r) # Voice("proxy", s)
                                       /\ Voice("proxy", r) # Voice("handler", s)
                                       /\ Voice("handler", r) # Voice("handler", s)
          /\ \A s \in Requests : Voice("handler", r) # Voice("proxy", s)
      BY DEF Voice
    <2>6. ASSUME \A s \in Requests : \A w : Speaks(s, w)' =>
                    \/ Speaks(s, w)
                    \/ s = r /\ w = Voice("handler", r)
                    \/ w = Voice("proxy", r) /\ (s = r \/ (late[r] /\ pc[r] = "done")),
                 \A s \in Requests \ {r} : Len(out[s]) > 0 => Len(out'[s]) > 0,
                 Behind(r)'
          PROVE  BreakerInv'
      <3>1. ASSUME NEW s \in Requests PROVE Strangers(s)'
        <4> SUFFICES ASSUME NEW t \in Requests \ {s}, Speaks(s, Voice("proxy", t))'
                     PROVE  late'[t] /\ pc'[t] = "done"
          BY DEF Strangers
        <4>1. CASE Speaks(s, Voice("proxy", t))
          <5>1. late[t] /\ pc[t] = "done"
            BY <2>3, <4>1 DEF Strangers
          <5>2. QED
            BY <2>1, <5>1
        <4>2. CASE Voice("proxy", t) = Voice("proxy", r) /\ (s = r \/ (late[r] /\ pc[r] = "done"))
          BY <2>1, <2>5, <4>2
        <4>3. QED
          BY <2>5, <2>6, <4>1, <4>2
      <3>2. ASSUME NEW s \in Requests \ {r} PROVE Behind(s)'
        <4>1. /\ Speaks(s, Voice("proxy", s))' => Speaks(s, Voice("proxy", s))
              /\ Speaks(s, Voice("handler", s))' => Speaks(s, Voice("handler", s))
          BY <2>5, <2>6
        <4>2. Behind(s)
          BY <2>3
        <4>3. QED
          BY <1>2, <2>1, <2>6, <4>1, <4>2 DEF Behind, Running
      <3>3. QED
        BY <2>6, <3>1, <3>2 DEF BreakerInv
    <2>7. ASSUME UNCHANGED out, Behind(r)' PROVE BreakerInv'
      BY <2>6, <2>7, Silent
    <2>8. ASSUME NEW by \in {"handler", "proxy"}, Say(r, by), Behind(r)' PROVE BreakerInv'
      <3>1. /\ \A w : Speaks(r, w)' <=> Speaks(r, w) \/ w = Voice(by, r)
            /\ \A s \in Requests \ {r} : \A w : Speaks(s, w)' <=> Speaks(s, w)
            /\ \A s \in Requests \ {r} : out'[s] = out[s]
        BY <2>8, Spoken, VoiceType DEF Say, GateTypes
      <3>2. QED
        BY <2>6, <2>8, <3>1
    <2>9. ASSUME UNCHANGED <<run, late>>, Say(r, "handler"), pc'[r] = "done",
                 ~Running(r) \/ late[r], P => late[r], run[r] # "body" \/ late[r]
          PROVE  BreakerInv'
      <3>1. P' => P
        BY <2>5, <2>9, Spoken, VoiceType DEF Say, GateTypes
      <3>2. Behind(r)'
        BY <2>4, <2>9, <3>1 DEF Behind, Running
      <3>3. QED
        BY <2>8, <2>9, <3>2
    <2>10. CASE Arrive(r)
      <3>1. pc[r] = "new" /\ run[r] = "none" /\ ~H /\ (P => late[r]) /\ ~Running(r)
            /\ UNCHANGED <<late, run>>
        BY <2>2, <2>4, <2>10 DEF Arrive, PlainArrive, Ch10Arrive, Ch13Arrive, Running
      <3>2. CASE Say(r, "handler") /\ pc'[r] = "done"
        BY <2>9, <3>1, <3>2
      <3>3. CASE UNCHANGED out /\ pc'[r] \in {"done", "lookup", "filter"}
        <4>1. (P <=> P') /\ (H <=> H')
          BY <3>3, Silent
        <4>2. Behind(r)'
          BY <3>1, <3>3, <4>1 DEF Behind, Running
        <4>3. QED
          BY <2>7, <3>3, <4>2
      <3>4. QED
        BY <2>2, <2>10, <3>2, <3>3 DEF Arrive, PlainArrive, Ch10Arrive, Ch13Arrive, Paths, Match,
           Goto, GateTypes
    <2>11. CASE Filter(r)
      <3>1. run[r] = "none" /\ ~H /\ (P => late[r]) /\ ~Running(r) /\ UNCHANGED <<late, run>>
        BY <2>4, <2>11 DEF Filter, Running
      <3>2. CASE Say(r, "handler") /\ pc'[r] = "done"
        BY <2>9, <3>1, <3>2
      <3>3. CASE UNCHANGED out /\ pc'[r] = "lookup"
        <4>1. (P <=> P') /\ (H <=> H')
          BY <3>3, Silent
        <4>2. Behind(r)'
          BY <3>1, <3>3, <4>1 DEF Behind, Running
        <4>3. QED
          BY <2>7, <3>3, <4>2
      <3>4. QED
        BY <2>11, <3>2, <3>3 DEF Filter, Goto, GateTypes
    <2>12. CASE Lookup(r) \/ Ch10Configure(r) \/ Ch13Configure(r) \/ Store(r)
      <3>1. run[r] = "none" /\ ~H /\ (P => late[r]) /\ UNCHANGED <<late, run, out>>
        BY <2>4, <2>12 DEF Lookup, Ch10Configure, Ch13Configure, Store
      <3>2. pc'[r] \in {"do", "configure", "store"}
        BY <2>12 DEF Lookup, Ch10Configure, Ch13Configure, Store, Goto, GateTypes
      <3>3. (P <=> P') /\ (H <=> H')
        BY <3>1, Silent
      <3>4. Behind(r)'
        BY <3>1, <3>2, <3>3 DEF Behind, Running
      <3>5. QED
        BY <2>7, <3>1, <3>4
    <2>13. CASE Do(r)
      <3>1. run[r] = "none" /\ ~H /\ (P => late[r]) /\ UNCHANGED <<late, out>>
        BY <2>4, <2>13 DEF Do
      <3>2. \/ pc'[r] = "waiting" /\ run'[r] = "discover"
            \/ pc'[r] = "fallback" /\ run'[r] = "none"
        BY <2>13, <3>1 DEF Do, Goto, GateTypes
      <3>3. (P <=> P') /\ (H <=> H')
        BY <3>1, Silent
      <3>4. Behind(r)'
        BY <3>1, <3>2, <3>3 DEF Behind, Running
      <3>5. QED
        BY <2>7, <3>1, <3>4
    <2>14. CASE Timeout(r)
      <3>1. UNCHANGED <<out, run>> /\ pc'[r] = "fallback" /\ late'[r] /\ pc[r] = "waiting"
        BY <2>14 DEF Timeout, Goto, GateTypes
      <3>2. (P <=> P') /\ (H <=> H')
        BY <3>1, Silent
      <3>3. Behind(r)'
        BY <2>4, <3>1, <3>2 DEF Behind, Running
      <3>4. QED
        BY <2>7, <3>1, <3>3
    <2>15. CASE RunEnded(r)
      <3>1. /\ UNCHANGED <<out, run, late, alive>> /\ run[r] \in {"ok", "failed"} /\ pc[r] = "waiting"
            /\ pc'[r] = IF run[r] = "ok" THEN "done" ELSE "fallback"
        BY <2>15 DEF RunEnded, Goto, GateTypes
      <3>2. (P <=> P') /\ (H <=> H')
        BY <3>1, Silent
      <3>3. Behind(r)'
        BY <2>4, <3>1, <3>2 DEF Behind, Running
      <3>4. QED
        BY <2>7, <3>1, <3>3
    <2>16. CASE Fallback(r)
      <3>1. /\ UNCHANGED <<run, late>> /\ Say(r, "handler") /\ pc'[r] = "done" /\ pc[r] = "fallback"
        BY <2>16 DEF Fallback, Goto, GateTypes
      <3>2. late[r] \/ run[r] \in {"none", "failed"}
        BY <2>4, <3>1
      <3>3. QED
        BY <2>4, <2>9, <3>1, <3>2 DEF Running
    <2>17. CASE Discover(r) \/ ConnectFails(r)
      <3>1. /\ UNCHANGED <<out, late, pc, alive>> /\ run[r] \in {"discover", "connect"}
            /\ run'[r] \in {"connect", "failed"}
        BY <2>2, <2>17 DEF Discover, ConnectFails, RunFails, GateTypes
      <3>2. (P <=> P') /\ (H <=> H')
        BY <3>1, Silent
      <3>3. Behind(r)'
        BY <2>4, <3>1, <3>2 DEF Behind, Running
      <3>4. QED
        BY <2>7, <3>1, <3>3
    <2>18. CASE CopyHead(r) \/ CopyBody(r)
      <3>1. /\ Write(r) /\ UNCHANGED <<late, pc>> /\ Running(r)
            /\ run'[r] \in {"body", "ok"}
        BY <2>2, <2>18 DEF CopyHead, CopyBody, Running, GateTypes
      <3>2. CASE Engaged(r)
        <4>1. Say(r, "proxy") /\ ~H
          BY <2>4, <3>1, <3>2 DEF Write, Engaged
        <4>2. (H' => H) /\ Len(out'[r]) > 0
          BY <2>5, <4>1, Spoken, VoiceType DEF Say, GateTypes
        <4>3. Behind(r)'
          BY <2>4, <3>1, <4>1, <4>2 DEF Behind, Running
        <4>4. QED
          BY <2>8, <4>1, <4>3
      <3>3. CASE ~Engaged(r)
        <4>1. pc[r] = "done" /\ late[r]
          BY <2>4, <3>1, <3>3 DEF Engaged
        <4>2. Behind(r)'
          BY <3>1, <4>1 DEF Behind, Running
        <4>3. CASE UNCHANGED out
          BY <2>7, <4>2, <4>3
        <4>4. ASSUME NEW s \in Requests, out' = [out EXCEPT ![s] = Append(@, Voice("proxy", r))]
              PROVE  BreakerInv'
          <5>1. /\ out'[s] = Append(out[s], Voice("proxy", r))
                /\ \A t \in Requests \ {s} : out'[t] = out[t]
            BY <4>4 DEF GateTypes
          <5>2. /\ \A w : Speaks(s, w)' <=> Speaks(s, w) \/ w = Voice("proxy", r)
                /\ \A t \in Requests \ {s} : \A w : Speaks(t, w)' <=> Speaks(t, w)
                /\ Len(out'[s]) > 0
            BY <5>1, Spoken, VoiceType
          <5>3. QED
            BY <2>6, <4>1, <4>2, <5>1, <5>2
        <4>5. QED
          BY <3>1, <3>3, <4>3, <4>4 DEF Write
      <3>4. QED
        BY <3>2, <3>3
    <2>19. CASE BodyBreaks(r)
      <3>1. /\ UNCHANGED <<out, late, pc>> /\ run[r] = "body" /\ run'[r] = "failed" /\ ~alive'
        BY <2>2, <2>19 DEF BodyBreaks, GateTypes
      <3>2. (P <=> P') /\ (H <=> H')
        BY <3>1, Silent
      <3>3. Behind(r)'
        BY <2>4, <3>1, <3>2 DEF Behind, Running
      <3>4. QED
        BY <2>7, <3>1, <3>3
    <2>20. QED
      BY <1>2, <2>10, <2>11, <2>12, <2>13, <2>14, <2>15, <2>16, <2>17, <2>18, <2>19
         DEF HandlerStep, ProxyStep
  <1>3. QED
    BY <1>1, <1>2 DEF GateNext

LEMMA ConfigStep == GateTypes /\ PlainInv /\ ConfigInv /\ [GateNext]_gateVars => ConfigInv'
  <1> SUFFICES ASSUME GateTypes, PlainInv, ConfigInv, [GateNext]_gateVars PROVE ConfigInv'
    OBVIOUS
  <1>1. CASE UNCHANGED gateVars
    BY <1>1 DEF gateVars, ConfigInv
  <1>2. ASSUME NEW r \in Requests, Arrive(r) \/ HandlerStep(r) \/ ProxyStep(r)
        PROVE  ConfigInv'
    <2>1. /\ known => configured > 0
          /\ \A s \in Requests : pc[s] \in {"store", "do", "waiting", "fallback"} => configured > 0
          /\ kind = "ch10" => configured <= 1 /\ (configured = 1 => known \/ lock # "free")
          /\ kind = "ch10" => \A s \in Requests : pc[s] = "store" => lock = s /\ ~known
          /\ configured \in Nat /\ \A s \in Requests : s # "free"
      BY RequestsAssumption DEF ConfigInv, GateTypes
    <2>2. ASSUME UNCHANGED <<kind, known, configured, lock>>,
                 \A s \in Requests \ {r} : pc'[s] = pc[s],
                 pc'[r] \in {"store", "do", "waiting", "fallback"} =>
                     known \/ pc[r] \in {"store", "do", "waiting", "fallback"},
                 pc'[r] = "store" => pc[r] = "store"
          PROVE  ConfigInv'
      BY <2>1, <2>2 DEF ConfigInv
    <2>3. CASE Arrive(r)
      BY <2>2, <2>3 DEF Arrive, PlainArrive, Ch10Arrive, Ch13Arrive, Paths, Match, Goto, GateTypes
    <2>4. CASE Filter(r) \/ Lookup(r)
      BY <2>2, <2>4 DEF Filter, Lookup, Goto, GateTypes
    <2>5. CASE Do(r) \/ Timeout(r) \/ RunEnded(r) \/ Fallback(r)
      BY <2>2, <2>5 DEF Do, Timeout, RunEnded, Fallback, Goto, GateTypes
    <2>6. CASE ProxyStep(r)
      <3>1. pc' = pc \/ Goto(r, "done")
        BY <2>6 DEF ProxyStep, Discover, ConnectFails, CopyHead, CopyBody, BodyBreaks, RunFails
      <3>2. UNCHANGED <<kind, known, configured, lock>>
        BY <2>6 DEF ProxyStep, Discover, ConnectFails, CopyHead, CopyBody, BodyBreaks
      <3>3. QED
        BY <2>2, <3>1, <3>2 DEF Goto, GateTypes
    <2>7. CASE Ch10Configure(r)
      <3>1. CASE known
        BY <2>2, <2>7, <3>1 DEF Ch10Configure, Goto, GateTypes
      <3>2. CASE ~known
        <4>1. configured = 0
          BY <2>1, <2>7, <3>2 DEF Ch10Configure
        <4>2. configured' = 1 /\ lock' = r /\ UNCHANGED <<kind, known>>
          BY <2>7, <3>2, <4>1 DEF Ch10Configure
        <4>3. \A s \in Requests : pc'[s] = "store" => s = r
          BY <2>1, <2>7, <3>2 DEF Ch10Configure, Goto, GateTypes
        <4>4. QED
          BY <2>1, <3>2, <4>2, <4>3 DEF ConfigInv
      <3>3. QED
        BY <3>1, <3>2
    <2>8. CASE Ch13Configure(r)
      <3>1. configured' = configured + 1 /\ UNCHANGED <<kind, known>> /\ kind = "ch13"
        BY <2>8 DEF Ch13Configure
      <3>2. configured' > 0
        BY <2>1, <3>1
      <3>3. QED
        BY <3>1, <3>2 DEF ConfigInv
    <2>9. CASE Store(r)
      <3>1. known' /\ UNCHANGED <<kind, configured>> /\ configured > 0
        BY <2>1, <2>9 DEF Store
      <3>2. kind = "ch10" => \A s \in Requests : pc'[s] # "store"
        BY <2>1, <2>9 DEF Store, Goto, GateTypes
      <3>3. QED
        BY <2>1, <3>1, <3>2 DEF ConfigInv
    <2>10. QED
      BY <1>2, <2>3, <2>4, <2>5, <2>6, <2>7, <2>8, <2>9 DEF HandlerStep
  <1>3. QED
    BY <1>1, <1>2 DEF GateNext

LEMMA EndStep ==
    GateTypes /\ BreakerInv /\ ConfigInv /\ EndInv /\ [GateNext]_gateVars => EndInv'
  <1> SUFFICES ASSUME GateTypes, BreakerInv, ConfigInv, EndInv, [GateNext]_gateVars,
                      ~alive', kind' \in Breakers
               PROVE  EndInv'
    BY DEF EndInv
  <1>1. CASE UNCHANGED gateVars
    BY <1>1 DEF gateVars, EndInv, Perilous, Clash
  <1>2. ASSUME NEW r \in Requests, alive, Arrive(r) \/ HandlerStep(r) \/ ProxyStep(r)
        PROVE  EndInv'
    <2>1. kind \in Breakers /\ kind' = kind /\ (late[r] => late'[r])
      BY <1>2, GateFrame
    <2>2. Behind(r)
      BY <2>1 DEF BreakerInv
    <2>3. CASE Lookup(r)
      <3>1. PICK s \in Requests : kind = "ch10" /\ pc[s] = "store"
        BY <1>2, <2>3 DEF Lookup
      <3>2. lock = s /\ ~known /\ lock' = lock /\ known' = known
        BY <2>3, <3>1 DEF Lookup, ConfigInv
      <3>3. pc'[s] = "store" /\ pc'[r] = "configure"
        BY <2>3, <3>1, <3>2 DEF Lookup, Goto, GateTypes
      <3>4. Clash(r, s)'
        BY <3>2, <3>3 DEF Clash
      <3>5. QED
        BY <2>1, <3>1, <3>4 DEF EndInv
    <2>4. CASE CopyHead(r) \/ CopyBody(r)
      <3>1. /\ Write(r) /\ UNCHANGED late /\ Running(r) /\ run'[r] \in {"body", "ok"}
        BY <2>4 DEF CopyHead, CopyBody, Running, GateTypes
      <3>2. late[r]
        <4>1. CASE Engaged(r)
          BY <1>2, <3>1, <4>1 DEF Write
        <4>2. CASE ~Engaged(r)
          BY <2>2, <3>1, <4>2 DEF Behind, Engaged
        <4>3. QED
          BY <4>1, <4>2
      <3>3. QED
        BY <3>1, <3>2 DEF EndInv, Perilous
    <2>5. CASE BodyBreaks(r)
      <3>1. run[r] = "body" /\ run'[r] = "failed" /\ UNCHANGED <<late, out>>
        BY <2>5 DEF BodyBreaks, GateTypes
      <3>2. Len(out[r]) > 0 \/ late[r]
        BY <2>2, <3>1 DEF Behind
      <3>3. QED
        BY <3>1, <3>2 DEF EndInv, Perilous
    <2>6. CASE Arrive(r) \/ Discover(r) \/ ConnectFails(r)
      BY <1>2, <2>6 DEF Arrive, Discover, ConnectFails
    <2>7. ~(HandlerStep(r) /\ ~Lookup(r))
      BY <1>2 DEF HandlerStep, Filter, Ch10Configure, Ch13Configure, Store, Do, Timeout, RunEnded,
         Fallback
    <2>8. QED
      BY <1>2, <2>3, <2>4, <2>5, <2>6, <2>7 DEF ProxyStep
  <1>3. QED
    BY <1>1, <1>2 DEF GateNext

LEMMA GateStart == GateInit => GateInv
  <1> SUFFICES ASSUME GateInit PROVE GateInv
    OBVIOUS
  <1>1. GateTypes
    <2>1. <<>> \in Seq(Voices)
      OBVIOUS
    <2>2. QED
      BY <2>1 DEF GateInit, GateTypes, Plain
  <1>2. \A r \in Requests : \A v : ~Speaks(r, v)
    BY DEF GateInit, Speaks
  <1>3. PlainInv /\ BreakerInv
    BY <1>2 DEF GateInit, PlainInv, BreakerInv, Behind, Strangers, Running
  <1>4. ConfigInv /\ EndInv
    BY DEF GateInit, ConfigInv, EndInv
  <1>5. QED
    BY <1>1, <1>3, <1>4 DEF GateInv

LEMMA GateStep == GateInv /\ [GateNext]_gateVars => GateInv'
  BY GateTypeStep, PlainStep, BreakerStep, ConfigStep, EndStep DEF GateInv

LEMMA GateMeans == GateInv => OneVoice /\ Isolation
  <1> SUFFICES ASSUME GateInv PROVE OneVoice /\ Isolation
    OBVIOUS
  <1>1. kind \in Plain \/ kind \in Breakers
    BY DEF GateInv, GateTypes
  <1>2. OneVoice
    <2> SUFFICES ASSUME NEW r \in Requests
                 PROVE  /\ Speaks(r, Voice("proxy", r)) /\ Speaks(r, Voice("handler", r))
                               => late[r] /\ kind \in Breakers
                        /\ \A s \in Foreign(r) : late[s] /\ pc[s] = "done" /\ kind \in Breakers
      BY DEF OneVoice
    <2>1. CASE kind \in Plain
      <3>1. \A v : Speaks(r, v) => v = Voice("proxy", r)
        BY <2>1 DEF GateInv, PlainInv
      <3>2. /\ Voice("handler", r) # Voice("proxy", r)
            /\ \A s \in Requests \ {r} : Voice("proxy", s) # Voice("proxy", r)
        BY DEF Voice
      <3>3. QED
        BY <3>1, <3>2 DEF Foreign
    <2>2. CASE kind \in Breakers
      <3>1. Behind(r) /\ Strangers(r)
        BY <2>2 DEF GateInv, BreakerInv
      <3>2. QED
        BY <2>2, <3>1 DEF Behind, Strangers, Foreign
    <2>3. QED
      BY <1>1, <2>1, <2>2
  <1>3. Isolation
    BY <1>1 DEF GateInv, PlainInv, ConfigInv, EndInv, Isolation, Plain
  <1>4. QED
    BY <1>2, <1>3

\* For any number of requests, at each of the four gateways: a response has
\* one voice, its own; only a proxy run that was given up adds to another.
THEOREM OneVoiceProved == GateSpec => []OneVoice
  BY GateStart, GateStep, GateMeans, PTL DEF GateSpec

\* For any number of requests: what may end the process of a gateway, and
\* that a command is configured before use, in chapter 10 exactly once.
THEOREM IsolationProved == GateSpec => []Isolation
  BY GateStart, GateStep, GateMeans, PTL DEF GateSpec

-----------------------------------------------------------------------------
(* -------------------------- entries in Consul -------------------------- *)

LifeTypes ==
    /\ sameId \in BOOLEAN /\ deregistered \in BOOLEAN /\ lateEntry \in BOOLEAN
    /\ request \subseteq Ids
    /\ entry \in [Ids -> {"absent", "critical", "passing"}]

\* A process with one id never sends another one, and what it has
\* deregistered only comes back with a registration that arrives later.
LifeInv ==
    /\ LifeTypes
    /\ sameId => request \subseteq {"first"} /\ entry["second"] = "absent"
    /\ sameId /\ deregistered /\ entry["first"] # "absent" => lateEntry

LEMMA LifeStart == LifeInit => LifeInv
  BY DEF LifeInit, LifeInv, LifeTypes, Ids

LEMMA LifeStep == LifeInv /\ [LifeNext]_lifeVars => LifeInv'
  <1> SUFFICES ASSUME LifeInv, [LifeNext]_lifeVars PROVE LifeInv'
    OBVIOUS
  <1> USE DEF LifeInv, LifeTypes, Ids
  <1>1. CASE UNCHANGED <<sameId, request, entry, deregistered, lateEntry>>
    BY <1>1
  <1>2. CASE SendRegister
    BY <1>2 DEF SendRegister, SecondId
  <1>3. ASSUME NEW i \in Ids, Register(i) PROVE LifeInv'
    BY <1>3 DEF Register
  <1>4. ASSUME NEW i \in Ids, RegisterFails(i) PROVE LifeInv'
    <2>1. PICK applied \in BOOLEAN :
             /\ entry' = IF applied THEN [entry EXCEPT ![i] = "critical"] ELSE entry
             /\ lateEntry' = (lateEntry \/ (applied /\ deregistered))
      BY <1>4 DEF RegisterFails
    <2>2. /\ i \in request /\ request' = request \ {i}
          /\ UNCHANGED <<sameId, deregistered>>
      BY <1>4 DEF RegisterFails
    <2>3. CASE applied
      BY <2>1, <2>2, <2>3
    <2>4. CASE ~applied
      BY <2>1, <2>2, <2>4
    <2>5. QED
      BY <2>3, <2>4
  <1>5. ASSUME NEW t \in Tasks, Listen(t) PROVE LifeInv'
    BY <1>1, <1>5 DEF Listen
  <1>6. ASSUME NEW t \in Tasks, MainReceives(t) PROVE LifeInv'
    BY <1>1, <1>6 DEF MainReceives
  <1>7. CASE Deregister
    <2>1. PICK ok \in BOOLEAN :
             /\ deregistered' = ok
             /\ entry' = IF ok /\ sameId THEN [entry EXCEPT !["first"] = "absent"] ELSE entry
      BY <1>7 DEF Deregister
    <2>2. UNCHANGED <<sameId, request, lateEntry>>
      BY <1>7 DEF Deregister
    <2>3. CASE ok /\ sameId
      BY <2>1, <2>2, <2>3
    <2>4. CASE ~(ok /\ sameId)
      BY <2>1, <2>2, <2>4
    <2>5. QED
      BY <2>3, <2>4
  <1>8. CASE Signal \/ Killed
    BY <1>1, <1>8 DEF Signal, Killed
  <1>9. ASSUME NEW i \in Ids, CheckPass(i) \/ CheckFail(i) \/ Reap(i) PROVE LifeInv'
    <2>1. UNCHANGED <<sameId, request, deregistered, lateEntry>>
      BY <1>9 DEF CheckPass, CheckFail, Reap
    <2>2. CASE CheckPass(i)
      BY <2>1, <2>2 DEF CheckPass
    <2>3. CASE CheckFail(i)
      BY <2>1, <2>3 DEF CheckFail
    <2>4. CASE Reap(i)
      <3>1. entry' = [entry EXCEPT ![i] = "absent"]
        BY <2>4 DEF Reap
      <3>2. QED
        BY <2>1, <3>1
    <2>5. QED
      BY <1>9, <2>2, <2>3, <2>4
  <1>10. CASE UNCHANGED lifeVars
    BY <1>1, <1>10 DEF lifeVars
  <1>11. QED
    BY <1>2, <1>3, <1>4, <1>5, <1>6, <1>7, <1>8, <1>9, <1>10 DEF LifeNext, LifeProgress

\* After a deregistration that was answered without an error an entry is
\* left, or comes back, only with a random id or a registration that was
\* still on its way.
THEOREM OutlivedProved == LifeSpec => []OutlivedExplained
  <1>1. LifeInv => OutlivedExplained
    BY DEF LifeInv, LifeTypes, OutlivedExplained, Ids
  <1>2. QED
    BY <1>1, LifeStart, LifeStep, PTL DEF LifeSpec

-----------------------------------------------------------------------------
(* ---------------------------- configuration ---------------------------- *)

Destination == Apps \cup {Everybody}

BusTypes ==
    /\ version \in Nat
    /\ busQueue \in Seq(Destination)
    /\ inbox \in [Nodes -> Seq(Destination)]
    /\ announced \in [Apps -> Nat] /\ \A a \in Apps : announced[a] <= version
    /\ viper \in [Nodes -> Int] /\ first \in [Nodes -> Int] /\ again \in [Nodes -> Int]
    /\ DOMAIN phase = Nodes /\ DOMAIN listener = Nodes /\ DOMAIN missed = Nodes

\* Only a node that consumes has something to acknowledge, and a reload is
\* for the head of the inbox or for an event the broker has taken back.
Consumes ==
    \A n \in Nodes : /\ inbox[n] # <<>> => listener[n] = "consuming"
                     /\ again[n] # NoFetch => inbox[n] # <<>> \/ listener[n] = "closed"

Due(s, n) == \E k \in DOMAIN s : Means(s[k], n)

\* What will still be handled; the event of a reload under way is not.
Rest(n)   == IF again[n] # NoFetch /\ inbox[n] # <<>> THEN Tail(inbox[n]) ELSE inbox[n]
Coming(n) == \/ Due(busQueue, n) \/ Due(Rest(n), n)
             \/ \E m \in Nodes \ {n} : Due(inbox[m], n)

\* A node has what was last announced, or will load it, or will be told, or
\* there is a reason.
Accounted(n) ==
    \/ viper[n] >= announced[AppOf[n]]
    \/ missed[n] # No
    \/ Coming(n)
    \/ again[n] # NoFetch /\ again[n] >= announced[AppOf[n]]
    \/ phase[n] = "loading" /\ (first[n] = NoFetch \/ first[n] >= announced[AppOf[n]])

BusInv == BusTypes /\ Consumes /\ \A n \in Nodes : Runs(n) => Accounted(n)

(* ------------------------------- sequences ----------------------------- *)

LEMMA DueAppend ==
    ASSUME NEW s \in Seq(Destination), NEW d \in Destination, NEW n
    PROVE  /\ Append(s, d) \in Seq(Destination)
           /\ Due(s, n) => Due(Append(s, d), n)
           /\ Means(d, n) => Due(Append(s, d), n)
  <1>1. /\ Append(s, d) \in Seq(Destination)
        /\ \A k \in DOMAIN s : k \in DOMAIN Append(s, d) /\ Append(s, d)[k] = s[k]
        /\ Len(s) + 1 \in DOMAIN Append(s, d) /\ Append(s, d)[Len(s) + 1] = d
    OBVIOUS
  <1> QED
    BY <1>1 DEF Due

LEMMA DueTail ==
    ASSUME NEW s \in Seq(Destination), s # <<>>, NEW n
    PROVE  /\ Tail(s) \in Seq(Destination) /\ Head(s) \in Destination
           /\ Due(s, n) => Means(Head(s), n) \/ Due(Tail(s), n)
  <1>1. /\ Tail(s) \in Seq(Destination) /\ Head(s) \in Destination
        /\ \A k \in DOMAIN s : k # 1 => k - 1 \in DOMAIN Tail(s) /\ Tail(s)[k - 1] = s[k]
        /\ Head(s) = s[1]
    OBVIOUS
  <1>2. ASSUME NEW k \in DOMAIN s, Means(s[k], n), ~Means(Head(s), n) PROVE Due(Tail(s), n)
    <2>1. k # 1
      BY <1>1, <1>2
    <2> QED
      BY <1>1, <1>2, <2>1 DEF Due
  <1> QED
    BY <1>1, <1>2 DEF Due

LEMMA DueConcat ==
    ASSUME NEW s \in Seq(Destination), NEW t \in Seq(Destination), NEW n
    PROVE  /\ s \o t \in Seq(Destination)
           /\ Due(s, n) \/ Due(t, n) => Due(s \o t, n)
  <1>1. /\ s \o t \in Seq(Destination)
        /\ \A k \in DOMAIN s : k \in DOMAIN (s \o t) /\ (s \o t)[k] = s[k]
        /\ \A k \in DOMAIN t : Len(s) + k \in DOMAIN (s \o t) /\ (s \o t)[Len(s) + k] = t[k]
    OBVIOUS
  <1> QED
    BY <1>1 DEF Due

LEMMA RestDue ==
    ASSUME BusTypes, NEW n \in Nodes
    PROVE  /\ Rest(n) \in Seq(Destination)
           /\ Due(Rest(n), n) => Due(inbox[n], n)
  <1>1. inbox[n] \in Seq(Destination)
    BY DEF BusTypes
  <1>2. CASE again[n] # NoFetch /\ inbox[n] # <<>>
    <2>1. /\ Tail(inbox[n]) \in Seq(Destination)
          /\ \A k \in DOMAIN Tail(inbox[n]) : /\ k + 1 \in DOMAIN inbox[n]
                                              /\ Tail(inbox[n])[k] = inbox[n][k + 1]
      BY <1>1, <1>2
    <2> QED
      BY <1>2, <2>1 DEF Rest, Due
  <1>3. CASE ~(again[n] # NoFetch /\ inbox[n] # <<>>)
    BY <1>1, <1>3 DEF Rest
  <1> QED
    BY <1>2, <1>3

(* -------------------------------- events ------------------------------- *)

LEMMA AnnounceKeeps ==
    ASSUME BusInv, NEW d \in Destination, Announce(d)
    PROVE  BusInv'
  <1> USE DEF BusInv
  <1>1. /\ announced' = [a \in Apps |-> IF d \in {Everybody, a} THEN version ELSE announced[a]]
        /\ busQueue' = IF Declared THEN Append(busQueue, d) ELSE busQueue
        /\ missed' = [n \in Nodes |-> IF ~Declared /\ Means(d, n) /\ Runs(n)
                                      THEN First(missed[n], "lost") ELSE missed[n]]
        /\ UNCHANGED <<version, phase, listener, first, inbox, again, viper>>
    BY DEF Announce
  <1>2. BusTypes' /\ Consumes'
    BY <1>1, DueAppend DEF BusTypes, Consumes
  <1>3. ASSUME NEW n \in Nodes, Runs(n)' PROVE Accounted(n)'
    <2>1. Runs(n) /\ Accounted(n) /\ busQueue \in Seq(Destination) /\ AppOf[n] \in Apps
      BY <1>1, <1>3, BusAssumption DEF Runs, BusTypes
    <2>2. CASE Means(d, n) /\ Declared
      <3>1. Due(busQueue', n)
        BY <1>1, <2>1, <2>2, DueAppend
      <3> QED
        BY <3>1 DEF Accounted, Coming, Due
    <2>3. CASE Means(d, n) /\ ~Declared
      <3>1. missed'[n] # No
        BY <1>1, <2>1, <2>3 DEF First, No
      <3> QED
        BY <3>1 DEF Accounted
    <2>4. CASE ~Means(d, n)
      <3>1. announced'[AppOf[n]] = announced[AppOf[n]] /\ missed'[n] = missed[n]
        BY <1>1, <2>1, <2>4 DEF Means
      <3>2. Due(busQueue, n) => Due(busQueue', n)
        BY <1>1, <2>1, DueAppend
      <3>3. Coming(n) => Coming(n)'
        BY <1>1, <3>2 DEF Coming, Rest, Due
      <3> QED
        BY <1>1, <2>1, <3>1, <3>3 DEF Accounted
    <2> QED
      BY <2>2, <2>3, <2>4
  <1> QED
    BY <1>2, <1>3

LEMMA DeliverKeeps ==
    ASSUME BusInv, NEW n \in Nodes, Deliver(n)
    PROVE  BusInv'
  <1> USE DEF BusInv
  <1>1. /\ listener[n] = "consuming" /\ busQueue # <<>>
        /\ inbox' = [inbox EXCEPT ![n] = Append(@, Head(busQueue))]
        /\ busQueue' = Tail(busQueue)
        /\ UNCHANGED <<version, phase, listener, first, again, viper, announced, missed>>
    BY DEF Deliver
  <1>2. /\ busQueue \in Seq(Destination) /\ inbox[n] \in Seq(Destination)
        /\ Head(busQueue) \in Destination /\ busQueue' \in Seq(Destination)
        /\ inbox'[n] = Append(inbox[n], Head(busQueue)) /\ inbox'[n] \in Seq(Destination)
        /\ \A m \in Nodes \ {n} : inbox'[m] = inbox[m]
    BY <1>1, DueTail, DueAppend DEF BusTypes
  <1>3. BusTypes'
    BY <1>1, <1>2 DEF BusTypes
  <1>4. inbox'[n] # <<>> /\ again' = again /\ listener' = listener
    BY <1>1, <1>2
  <1>5. Consumes'
    BY <1>1, <1>2, <1>4 DEF Consumes
  <1>6. again[n] # NoFetch => inbox[n] # <<>>
    BY <1>1 DEF Consumes
  <1>7. ASSUME NEW m \in Nodes, Coming(m) PROVE Coming(m)'
    <2>1. Due(busQueue, m) => Means(Head(busQueue), m) \/ Due(busQueue', m)
      BY <1>1, <1>2, DueTail
    <2>2. CASE m = n
      <3>1. /\ Due(Rest(n), n) => Due(Rest(n)', n)
            /\ Means(Head(busQueue), n) => Due(Rest(n)', n)
        <4>1. CASE again[n] = NoFetch
          <5>1. Rest(n) = inbox[n] /\ Rest(n)' = Append(inbox[n], Head(busQueue))
            BY <1>2, <1>4, <4>1 DEF Rest
          <5> QED
            BY <1>2, <5>1, DueAppend
        <4>2. CASE again[n] # NoFetch
          <5>1. inbox[n] # <<>> /\ Rest(n) = Tail(inbox[n])
            BY <1>6, <4>2 DEF Rest
          <5>2. Rest(n)' = Tail(Append(inbox[n], Head(busQueue)))
            BY <1>2, <1>4, <4>2 DEF Rest
          <5>3. Tail(Append(inbox[n], Head(busQueue))) = Append(Tail(inbox[n]), Head(busQueue))
            BY <1>2, <5>1
          <5>4. Tail(inbox[n]) \in Seq(Destination)
            BY <1>2, <5>1, DueTail
          <5> QED
            BY <1>2, <5>1, <5>2, <5>3, <5>4, DueAppend
        <4> QED
          BY <4>1, <4>2
      <3>2. \A k \in Nodes \ {n} : Due(inbox[k], n) => Due(inbox'[k], n)
        BY <1>2
      <3> QED
        BY <1>7, <2>1, <2>2, <3>1, <3>2 DEF Coming, Due, Means
    <2>3. CASE m # n
      <3>1. Rest(m)' = Rest(m)
        BY <1>1, <1>2, <2>3 DEF Rest
      <3>2. /\ Due(inbox[n], m) => Due(inbox'[n], m)
            /\ Means(Head(busQueue), m) => Due(inbox'[n], m)
        BY <1>2, DueAppend
      <3>3. \A k \in Nodes \ {m} : Due(inbox[k], m) => Due(inbox'[k], m)
        BY <1>2, <3>2
      <3> QED
        BY <1>7, <2>1, <2>3, <3>1, <3>2, <3>3 DEF Coming, Due, Means
    <2> QED
      BY <2>2, <2>3
  <1>8. \A m \in Nodes : Runs(m)' => Accounted(m)'
    BY <1>1, <1>7 DEF Runs, Accounted
  <1> QED
    BY <1>3, <1>5, <1>8

\* The broker takes back what a node has not acknowledged.
LEMMA TakenBack ==
    ASSUME BusTypes, NEW n \in Nodes,
           busQueue' = inbox[n] \o busQueue, inbox' = [inbox EXCEPT ![n] = <<>>]
    PROVE  /\ busQueue' \in Seq(Destination) /\ inbox' \in [Nodes -> Seq(Destination)]
           /\ \A m \in Nodes : again'[m] = again[m] /\ Coming(m) => Coming(m)'
           /\ \A m \in Nodes \ {n} : inbox'[m] = inbox[m]
           /\ inbox'[n] = <<>>
  <1>1. /\ busQueue \in Seq(Destination) /\ inbox[n] \in Seq(Destination)
        /\ \A m \in Nodes \ {n} : inbox'[m] = inbox[m]
        /\ inbox'[n] = <<>>
        /\ inbox' \in [Nodes -> Seq(Destination)]
    BY DEF BusTypes
  <1>2. \A m \in Nodes : Due(busQueue, m) \/ Due(inbox[n], m) => Due(busQueue', m)
    BY <1>1, DueConcat
  <1>3. ASSUME NEW m \in Nodes, again'[m] = again[m], Coming(m) PROVE Coming(m)'
    <2>1. CASE m = n
      BY <1>1, <1>2, <1>3, <2>1, RestDue DEF Coming, Due, Means
    <2>2. CASE m # n
      <3>1. Rest(m)' = Rest(m)
        BY <1>1, <1>3, <2>2 DEF Rest
      <3> QED
        BY <1>1, <1>2, <1>3, <2>2, <3>1 DEF Coming, Due, Means
    <2> QED
      BY <2>1, <2>2
  <1> QED
    BY <1>1, <1>3, DueConcat

LEMMA ConnectionLostKeeps ==
    ASSUME BusInv, NEW n \in Nodes, ConnectionLost(n)
    PROVE  BusInv'
  <1> USE DEF BusInv
  <1>1. /\ listener' = [listener EXCEPT ![n] = "closed"]
        /\ busQueue' = inbox[n] \o busQueue
        /\ inbox' = [inbox EXCEPT ![n] = <<>>]
        /\ UNCHANGED <<version, phase, first, again, viper, announced, missed>>
    BY DEF ConnectionLost
  <1>2. BusTypes'
    BY <1>1, TakenBack DEF BusTypes
  <1>3. Consumes'
    BY <1>1 DEF Consumes, BusTypes
  <1>4. \A m \in Nodes : Runs(m)' => Accounted(m)'
    BY <1>1, TakenBack DEF Runs, Accounted
  <1> QED
    BY <1>2, <1>3, <1>4

LEMMA FatalKeeps ==
    ASSUME BusInv, NEW n \in Nodes, Fatal(n)
    PROVE  BusInv'
  <1> USE DEF BusInv
  <1>1. /\ phase' = [phase EXCEPT ![n] = "dead"]
        /\ busQueue' = inbox[n] \o busQueue
        /\ inbox' = [inbox EXCEPT ![n] = <<>>]
        /\ again' = [again EXCEPT ![n] = NoFetch]
        /\ viper' = [viper EXCEPT ![n] = 0] /\ missed' = [missed EXCEPT ![n] = No]
        /\ first' = [first EXCEPT ![n] = NoFetch]
        /\ UNCHANGED <<version, listener, announced>>
    BY DEF Fatal
  <1>2. BusTypes'
    BY <1>1, TakenBack DEF BusTypes, NoFetch
  <1>3. Consumes'
    BY <1>1 DEF Consumes, BusTypes
  <1>4. ASSUME NEW m \in Nodes, Runs(m)' PROVE Accounted(m)'
    <2>1. m # n
      BY <1>1, <1>4 DEF Runs, BusTypes
    <2>2. /\ Runs(m) /\ again'[m] = again[m] /\ viper'[m] = viper[m] /\ missed'[m] = missed[m]
          /\ first'[m] = first[m] /\ phase'[m] = phase[m]
      BY <1>1, <1>4, <2>1 DEF Runs, BusTypes
    <2>3. Accounted(m) /\ (Coming(m) => Coming(m)')
      BY <1>1, <2>2, TakenBack
    <2> QED
      BY <1>1, <2>2, <2>3 DEF Accounted
  <1> QED
    BY <1>2, <1>3, <1>4

(* ------------------------------ the start ------------------------------ *)

LEMMA StartKeeps ==
    ASSUME BusInv, NEW n \in Nodes, InitFetch(n) \/ Sub(n) \/ NewConsumer(n) \/ Change
    PROVE  BusInv'
  <1> USE DEF BusInv
  <1>1. CASE InitFetch(n)
    <2>1. /\ first' = [first EXCEPT ![n] = version]
          /\ UNCHANGED <<version, busQueue, phase, listener, inbox, again, viper, announced, missed>>
      BY <1>1 DEF InitFetch
    <2>2. BusTypes' /\ Consumes'
      BY <2>1 DEF BusTypes, Consumes
    <2>3. announced[AppOf[n]] <= version
      BY BusAssumption DEF BusTypes
    <2>4. \A m \in Nodes : Runs(m)' => Accounted(m)'
      BY <2>1, <2>3 DEF Runs, Accounted, Coming, Rest, Due, Means, BusTypes
    <2> QED
      BY <2>2, <2>4
  <1>2. CASE Sub(n)
    <2>1. /\ phase[n] = "loaded" /\ phase' = [phase EXCEPT ![n] = "up"]
          /\ UNCHANGED <<version, busQueue, listener, first, inbox, again, viper, announced, missed>>
      BY <1>2 DEF Sub
    <2>2. BusTypes' /\ Consumes'
      BY <2>1 DEF BusTypes, Consumes
    <2>3. \A m \in Nodes : Runs(m)' => Accounted(m)'
      BY <2>1 DEF Runs, Accounted, Coming, Rest, Due, Means, BusTypes
    <2> QED
      BY <2>2, <2>3
  <1>3. CASE NewConsumer(n)
    <2>1. /\ listener[n] = "dialing" /\ listener' = [listener EXCEPT ![n] = "consuming"]
          /\ UNCHANGED <<version, busQueue, phase, first, inbox, again, viper, announced, missed>>
      BY <1>3 DEF NewConsumer
    <2>2. BusTypes' /\ Consumes'
      BY <2>1 DEF BusTypes, Consumes
    <2>3. \A m \in Nodes : Runs(m)' => Accounted(m)'
      BY <2>1 DEF Runs, Accounted, Coming, Rest, Due, Means
    <2> QED
      BY <2>2, <2>3
  <1>4. CASE Change
    <2>1. /\ version' = version + 1
          /\ UNCHANGED <<busQueue, phase, listener, first, inbox, again, viper, announced, missed>>
      BY <1>4 DEF Change
    <2>2. BusTypes' /\ Consumes'
      BY <2>1 DEF BusTypes, Consumes
    <2>3. \A m \in Nodes : Runs(m)' => Accounted(m)'
      BY <2>1 DEF Runs, Accounted, Coming, Rest, Due, Means
    <2> QED
      BY <2>2, <2>3
  <1> QED
    BY <1>1, <1>2, <1>3, <1>4

\* Whatever a node loads, it has what was announced to it or a reason, if it
\* had either of them before or loads what was announced.
LEMMA LoadAccounts ==
    ASSUME BusTypes, NEW n \in Nodes, NEW v \in Int, NEW reasons,
           Load(n, v), reasons = Reasons(n, v),
           \/ viper[n] >= announced[AppOf[n]] \/ missed[n] # No \/ v >= announced[AppOf[n]]
    PROVE  viper'[n] >= announced[AppOf[n]] \/ reasons[n] # No
  <1> DEFINE a == announced[AppOf[n]]
  <1>1. a \in Nat /\ viper[n] \in Int /\ viper'[n] = v /\ n \in DOMAIN missed
    BY BusAssumption DEF BusTypes, Load
  <1>2. reasons[n] = CASE v >= a -> No
                       [] v < viper[n] -> First(missed[n], "overtaken")
                       [] OTHER -> missed[n]
    BY <1>1 DEF Reasons
  <1> HIDE DEF a
  <1>3. CASE v >= a
    BY <1>1, <1>3 DEF a
  <1>4. CASE ~(v >= a) /\ v < viper[n]
    BY <1>2, <1>4 DEF First, No
  <1>5. CASE ~(v >= a) /\ ~(v < viper[n])
    <2>1. missed[n] # No
      BY <1>1, <1>5 DEF a
    <2> QED
      BY <1>2, <1>5, <2>1
  <1> QED
    BY <1>3, <1>4, <1>5

LEMMA LoadKeeps ==
    ASSUME BusTypes, NEW n \in Nodes, NEW v \in Int, Load(n, v)
    PROVE  /\ viper' \in [Nodes -> Int] /\ \A m \in Nodes \ {n} : viper'[m] = viper[m]
           /\ DOMAIN Reasons(n, v) = Nodes
           /\ \A m \in Nodes \ {n} : Reasons(n, v)[m] = missed[m]
  BY DEF BusTypes, Load, Reasons

LEMMA InitLoadKeeps ==
    ASSUME BusInv, NEW n \in Nodes, InitLoad(n)
    PROVE  BusInv'
  <1> USE DEF BusInv
  <1>1. /\ phase[n] = "loading" /\ first[n] # NoFetch
        /\ phase' = [phase EXCEPT ![n] = "loaded"] /\ first' = [first EXCEPT ![n] = NoFetch]
        /\ Load(n, first[n]) /\ missed' = Reasons(n, first[n])
        /\ UNCHANGED <<version, busQueue, listener, inbox, again, announced>>
    BY DEF InitLoad
  <1>2. first[n] \in Int
    BY DEF BusTypes
  <1>3. BusTypes' /\ Consumes'
    BY <1>1, <1>2, LoadKeeps DEF BusTypes, Consumes, NoFetch
  <1>4. Runs(n) /\ Accounted(n)
    BY <1>1 DEF Runs
  <1>5. \A m \in Nodes : Coming(m)' <=> Coming(m)
    BY <1>1 DEF Coming, Rest, Due, Means
  <1>6. Accounted(n)'
    <2>1. CASE Coming(n) \/ (again[n] # NoFetch /\ again[n] >= announced[AppOf[n]])
      BY <1>1, <1>5, <2>1 DEF Accounted
    <2>2. CASE \/ viper[n] >= announced[AppOf[n]] \/ missed[n] # No
               \/ first[n] >= announced[AppOf[n]]
      <3>1. viper'[n] >= announced[AppOf[n]] \/ missed'[n] # No
        BY <1>1, <1>2, <2>2, LoadAccounts
      <3> QED
        BY <1>1, <3>1 DEF Accounted
    <2> QED
      BY <1>1, <1>4, <2>1, <2>2 DEF Accounted
  <1>7. ASSUME NEW m \in Nodes \ {n}, Runs(m)' PROVE Accounted(m)'
    <2>1. /\ phase'[m] = phase[m] /\ first'[m] = first[m]
          /\ viper'[m] = viper[m] /\ missed'[m] = missed[m]
      BY <1>1, <1>2, LoadKeeps DEF BusTypes
    <2> QED
      BY <1>1, <1>5, <1>7, <2>1 DEF Runs, Accounted
  <1> QED
    BY <1>3, <1>6, <1>7

(* ----------------------------- the listener ---------------------------- *)

\* A node acknowledges the event at its head: for everybody else it meant,
\* there is a reason or another event to come.
LEMMA Acknowledged ==
    ASSUME BusTypes, NEW n \in Nodes, inbox[n] # <<>>, Ack(n), UNCHANGED busQueue
    PROVE  /\ inbox' \in [Nodes -> Seq(Destination)] /\ inbox'[n] = Tail(inbox[n])
           /\ \A m \in Nodes \ {n} : inbox'[m] = inbox[m]
           /\ Head(inbox[n]) \in Destination
           /\ \A m \in Nodes \ {n} : again'[m] = again[m] /\ Coming(m) =>
                                       Means(Head(inbox[n]), m) \/ Coming(m)'
           /\ again'[n] = again[n] /\ again[n] = NoFetch /\ Coming(n) =>
                                       Means(Head(inbox[n]), n) \/ Coming(n)'
           /\ again'[n] = NoFetch /\ again[n] # NoFetch /\ Coming(n) => Coming(n)'
  <1>1. inbox[n] \in Seq(Destination) /\ inbox' = [inbox EXCEPT ![n] = Tail(inbox[n])]
    BY DEF BusTypes, Ack
  <1>2. /\ inbox' \in [Nodes -> Seq(Destination)] /\ inbox'[n] = Tail(inbox[n])
        /\ Head(inbox[n]) \in Destination
        /\ \A m \in Nodes \ {n} : inbox'[m] = inbox[m]
        /\ \A m \in Nodes : Due(inbox[n], m) => Means(Head(inbox[n]), m) \/ Due(inbox'[n], m)
    BY <1>1, DueTail DEF BusTypes
  <1>3. ASSUME NEW m \in Nodes \ {n}, again'[m] = again[m], Coming(m), ~Means(Head(inbox[n]), m)
        PROVE  Coming(m)'
    <2>1. Rest(m)' = Rest(m)
      BY <1>2, <1>3 DEF Rest
    <2>2. \A k \in Nodes \ {m} : Due(inbox[k], m) => Due(inbox'[k], m)
      BY <1>2, <1>3
    <2> QED
      BY <1>3, <2>1, <2>2 DEF Coming, Due, Means
  <1>4. ASSUME again'[n] = NoFetch PROVE Rest(n)' = Tail(inbox[n])
    BY <1>2, <1>4 DEF Rest
  <1>5. \A k \in Nodes \ {n} : Due(inbox[k], n) => Due(inbox'[k], n)
    BY <1>2
  <1>6. ASSUME again'[n] = again[n], again[n] = NoFetch, Coming(n), ~Means(Head(inbox[n]), n)
        PROVE  Coming(n)'
    <2>1. Rest(n) = inbox[n]
      BY <1>6 DEF Rest
    <2> QED
      BY <1>2, <1>4, <1>5, <1>6, <2>1 DEF Coming, Due, Means
  <1>7. ASSUME again'[n] = NoFetch, again[n] # NoFetch, Coming(n) PROVE Coming(n)'
    <2>1. Rest(n) = Tail(inbox[n])
      BY <1>7 DEF Rest
    <2> QED
      BY <1>4, <1>5, <1>7, <2>1 DEF Coming, Due, Means
  <1> QED
    BY <1>2, <1>3, <1>6, <1>7

\* Somebody else's event: whoever runs and is meant has a reason from now on.
LEMMA OthersAccounted ==
    ASSUME BusInv, NEW n \in Nodes, inbox[n] # <<>>, Ack(n), NEW seen, DOMAIN seen = Nodes,
           missed' = Others(n, seen), \A m \in Nodes \ {n} : seen[m] = missed[m],
           \A m \in Nodes \ {n} : viper'[m] = viper[m] /\ again'[m] = again[m],
           UNCHANGED <<busQueue, phase, first, announced>>
    PROVE  /\ DOMAIN missed' = Nodes /\ missed'[n] = seen[n]
           /\ \A m \in Nodes \ {n} : Runs(m)' => Accounted(m)'
  <1>1. /\ DOMAIN missed' = Nodes /\ missed'[n] = seen[n]
        /\ \A m \in Nodes \ {n} :
              missed'[m] = IF Runs(m) /\ Means(Head(inbox[n]), m) THEN First(missed[m], "taken") ELSE missed[m]
    BY DEF Others
  <1>2. ASSUME NEW m \in Nodes \ {n}, Runs(m)' PROVE Accounted(m)'
    <2>1. Runs(m) /\ Accounted(m)
      BY <1>2 DEF Runs, BusInv
    <2>2. CASE Means(Head(inbox[n]), m)
      <3>1. missed'[m] # No
        BY <1>1, <2>1, <2>2 DEF First, No
      <3> QED
        BY <3>1 DEF Accounted
    <2>3. CASE ~Means(Head(inbox[n]), m)
      <3>1. missed'[m] = missed[m]
        BY <1>1, <2>3
      <3>2. Coming(m) => Coming(m)'
        BY <2>3, Acknowledged DEF BusInv
      <3> QED
        BY <2>1, <3>1, <3>2 DEF Accounted
    <2> QED
      BY <2>2, <2>3
  <1> QED
    BY <1>1, <1>2

\* What all ends of handling have in common: the head is acknowledged, and
\* everybody else is accounted for.
LEMMA AckKeeps ==
    ASSUME BusInv, NEW n \in Nodes, inbox[n] # <<>>, Ack(n), NEW seen, DOMAIN seen = Nodes,
           missed' = Others(n, seen), \A m \in Nodes \ {n} : seen[m] = missed[m],
           viper' \in [Nodes -> Int], \A m \in Nodes \ {n} : viper'[m] = viper[m],
           again' = [again EXCEPT ![n] = NoFetch],
           UNCHANGED <<version, busQueue, phase, listener, first, announced>>,
           Accounted(n)'
    PROVE  BusInv'
  <1> USE DEF BusInv
  <1>1. \A m \in Nodes \ {n} : again'[m] = again[m]
    BY DEF BusTypes
  <1>2. /\ DOMAIN missed' = Nodes
        /\ \A m \in Nodes \ {n} : Runs(m)' => Accounted(m)'
    BY <1>1, OthersAccounted
  <1>3. /\ inbox' \in [Nodes -> Seq(Destination)]
        /\ \A m \in Nodes \ {n} : inbox'[m] = inbox[m]
    BY Acknowledged
  <1>4. BusTypes'
    <2>1. again' \in [Nodes -> Int]
      BY DEF BusTypes, NoFetch
    <2> QED
      BY <1>2, <1>3, <2>1 DEF BusTypes
  <1>5. Consumes'
    BY <1>1, <1>3 DEF Consumes, BusTypes
  <1> QED
    BY <1>2, <1>4, <1>5

LEMMA IgnoreKeeps ==
    ASSUME BusInv, NEW n \in Nodes, Ignore(n)
    PROVE  BusInv'
  <1> USE DEF BusInv
  <1> DEFINE seen == [missed EXCEPT ![n] = IF Head(inbox[n]) = Everybody THEN First(@, "not named") ELSE @]
  <1>1. /\ Runs(n) /\ inbox[n] # <<>> /\ again[n] = NoFetch /\ ~Names(n) /\ Ack(n)
        /\ missed' = Others(n, seen)
        /\ UNCHANGED <<version, busQueue, phase, listener, first, again, viper, announced>>
    BY DEF Ignore, Handling
  <1>2. DOMAIN seen = Nodes /\ \A m \in Nodes \ {n} : seen[m] = missed[m]
    BY DEF BusTypes
  <1>3. missed'[n] = seen[n]
    BY <1>1, <1>2 DEF Others
  <1>4. again' = [again EXCEPT ![n] = NoFetch]
    BY <1>1 DEF BusTypes
  <1>5. Accounted(n)'
    <2>1. CASE Head(inbox[n]) = Everybody
      <3>1. missed'[n] # No
        BY <1>3, <2>1 DEF First, No, BusTypes
      <3> QED
        BY <3>1 DEF Accounted
    <2>2. CASE Head(inbox[n]) # Everybody
      <3>1. Head(inbox[n]) \in Apps /\ ~Means(Head(inbox[n]), n)
        <4>1. Head(inbox[n]) \in Destination
          BY <1>1, Acknowledged
        <4> QED
          BY <1>1, <2>2, <4>1, BusAssumption DEF Destination, Names, Means
      <3>2. Coming(n) => Coming(n)'
        BY <1>1, <3>1, Acknowledged
      <3>3. missed'[n] = missed[n]
        BY <1>3, <2>2 DEF BusTypes
      <3> QED
        BY <1>1, <3>2, <3>3 DEF Accounted
    <2> QED
      BY <2>1, <2>2
  <1> HIDE DEF seen
  <1> QED
    BY <1>1, <1>2, <1>4, <1>5, AckKeeps DEF BusTypes

LEMMA RefetchKeeps ==
    ASSUME BusInv, NEW n \in Nodes, Refetch(n)
    PROVE  BusInv'
  <1> USE DEF BusInv
  <1>1. /\ inbox[n] # <<>> /\ again' = [again EXCEPT ![n] = version]
        /\ UNCHANGED <<version, busQueue, phase, listener, first, inbox, viper, announced, missed>>
    BY DEF Refetch, Handling
  <1>2. BusTypes' /\ Consumes'
    BY <1>1 DEF BusTypes, Consumes
  <1>3. Accounted(n)'
    <2>1. version \in Nat /\ announced[AppOf[n]] <= version /\ again'[n] = version
      BY <1>1, BusAssumption DEF BusTypes
    <2> QED
      BY <1>1, <2>1 DEF Accounted, NoFetch
  <1>4. ASSUME NEW m \in Nodes \ {n}, Runs(m)' PROVE Accounted(m)'
    <2>1. again'[m] = again[m]
      BY <1>1 DEF BusTypes
    <2>2. Coming(m)' <=> Coming(m)
      BY <1>1, <2>1 DEF Coming, Rest, Due, Means
    <2> QED
      BY <1>1, <1>4, <2>1, <2>2 DEF Runs, Accounted
  <1> QED
    BY <1>2, <1>3, <1>4

LEMMA ReloadFailsKeeps ==
    ASSUME BusInv, NEW n \in Nodes, ReloadFails(n)
    PROVE  BusInv'
  <1> USE DEF BusInv
  <1> DEFINE seen == [missed EXCEPT ![n] = First(@, "failed")]
  <1>1. /\ inbox[n] # <<>> /\ again[n] = NoFetch /\ Ack(n)
        /\ missed' = Others(n, seen)
        /\ UNCHANGED <<version, busQueue, phase, listener, first, again, announced>>
    BY DEF ReloadFails, Handling
  <1>2. PICK v \in {0, viper[n]} : viper' = [viper EXCEPT ![n] = v]
    BY DEF ReloadFails
  <1>3. viper' \in [Nodes -> Int] /\ \A m \in Nodes \ {n} : viper'[m] = viper[m]
    BY <1>2 DEF BusTypes
  <1>4. DOMAIN seen = Nodes /\ \A m \in Nodes \ {n} : seen[m] = missed[m]
    BY DEF BusTypes
  <1>5. again' = [again EXCEPT ![n] = NoFetch]
    BY <1>1 DEF BusTypes
  <1>6. missed'[n] # No
    BY <1>1 DEF Others, First, No, BusTypes
  <1>7. Accounted(n)'
    BY <1>6 DEF Accounted
  <1> HIDE DEF seen
  <1> QED
    BY <1>1, <1>3, <1>4, <1>5, <1>7, AckKeeps

LEMMA ReloadKeeps ==
    ASSUME BusInv, NEW n \in Nodes, Reload(n)
    PROVE  BusInv'
  <1> USE DEF BusInv
  <1> DEFINE seen == Reasons(n, again[n])
  <1>1. /\ Runs(n) /\ again[n] # NoFetch /\ again' = [again EXCEPT ![n] = NoFetch]
        /\ Load(n, again[n])
        /\ UNCHANGED <<version, busQueue, phase, listener, first, announced>>
    BY DEF Reload
  <1>2. again[n] \in Int /\ again'[n] = NoFetch /\ \A m \in Nodes \ {n} : again'[m] = again[m]
    BY <1>1 DEF BusTypes
  <1>3. /\ viper' \in [Nodes -> Int] /\ \A m \in Nodes \ {n} : viper'[m] = viper[m]
        /\ DOMAIN seen = Nodes /\ \A m \in Nodes \ {n} : seen[m] = missed[m]
    BY <1>1, <1>2, LoadKeeps
  <1>4. ASSUME missed'[n] = seen[n], Coming(n) => Coming(n)' PROVE Accounted(n)'
    <2>1. CASE \/ viper[n] >= announced[AppOf[n]] \/ missed[n] # No
               \/ again[n] >= announced[AppOf[n]]
      <3>1. viper'[n] >= announced[AppOf[n]] \/ seen[n] # No
        BY <1>1, <1>2, <2>1, LoadAccounts
      <3> HIDE DEF seen
      <3> QED
        BY <1>1, <1>4, <3>1 DEF Accounted
    <2>2. CASE Coming(n) \/ (phase[n] = "loading" /\ (first[n] = NoFetch \/ first[n] >= announced[AppOf[n]]))
      BY <1>1, <1>4, <2>2 DEF Accounted
    <2> QED
      BY <1>1, <2>1, <2>2 DEF Accounted
  <1>5. CASE inbox[n] = <<>>
    <2>1. missed' = seen /\ UNCHANGED inbox
      BY <1>5 DEF Reload
    <2>2. \A m \in Nodes : Coming(m)' <=> Coming(m)
      <3>1. \A m \in Nodes : Rest(m)' = Rest(m)
        BY <1>2, <1>5, <2>1 DEF Rest
      <3> QED
        BY <1>1, <2>1, <3>1 DEF Coming, Due, Means
    <2>3. Accounted(n)'
      BY <1>4, <2>1, <2>2
    <2>4. BusTypes' /\ Consumes'
      <3>1. again' \in [Nodes -> Int]
        BY <1>1 DEF BusTypes, NoFetch
      <3>2. BusTypes'
        BY <1>1, <1>3, <2>1, <3>1 DEF BusTypes
      <3> HIDE DEF seen
      <3>3. Consumes'
        BY <1>1, <1>2, <2>1 DEF Consumes
      <3> QED
        BY <3>2, <3>3
    <2>5. ASSUME NEW m \in Nodes \ {n}, Runs(m)' PROVE Accounted(m)'
      <3>1. missed'[m] = missed[m]
        BY <1>3, <2>1
      <3> QED
        BY <1>1, <1>2, <1>3, <2>2, <2>5, <3>1 DEF Runs, Accounted
    <2> QED
      BY <2>3, <2>4, <2>5
  <1>6. CASE inbox[n] # <<>>
    <2>1. missed' = Others(n, seen) /\ Ack(n)
      BY <1>6 DEF Reload
    <2>2. missed'[n] = seen[n]
      BY <1>3, <2>1 DEF Others
    <2>3. Coming(n) => Coming(n)'
      BY <1>1, <1>2, <1>6, <2>1, Acknowledged
    <2>4. Accounted(n)'
      BY <1>4, <2>2, <2>3
    <2> HIDE DEF seen
    <2> QED
      BY <1>1, <1>3, <1>6, <2>1, <2>4, AckKeeps
  <1> QED
    BY <1>5, <1>6

(* ------------------------------- theorem ------------------------------- *)

LEMMA BusInitially == BusInit => BusInv
  <1> SUFFICES ASSUME BusInit PROVE BusInv
    OBVIOUS
  <1>1. BusTypes
    BY BusAssumption DEF BusInit, BusTypes, NoFetch
  <1>2. Consumes
    BY DEF BusInit, Consumes
  <1>3. \A n \in Nodes : Accounted(n)
    BY DEF BusInit, Accounted
  <1> QED
    BY <1>1, <1>2, <1>3 DEF BusInv

LEMMA BusStep == BusInv /\ [BusNext]_busVars => BusInv'
  <1> SUFFICES ASSUME BusInv, [BusNext]_busVars PROVE BusInv'
    OBVIOUS
  <1>1. CASE Change
    <2>1. CASE Nodes = {}
      BY <1>1, <2>1 DEF Change, BusInv, BusTypes, Consumes
    <2>2. CASE Nodes # {}
      BY <1>1, <2>2, StartKeeps
    <2> QED
      BY <2>1, <2>2
  <1>2. CASE \E d \in Destination : Announce(d)
    BY <1>2, AnnounceKeeps
  <1>3. ASSUME NEW n \in Nodes,
               \/ Fatal(n) \/ InitFetch(n) \/ InitLoad(n) \/ Sub(n)
               \/ NewConsumer(n) \/ ConnectionLost(n) \/ BusProgress(n)
        PROVE  BusInv'
    BY <1>3, FatalKeeps, StartKeeps, InitLoadKeeps, ConnectionLostKeeps, DeliverKeeps,
       IgnoreKeeps, RefetchKeeps, ReloadFailsKeeps, ReloadKeeps DEF BusProgress
  <1>4. CASE UNCHANGED busVars
    BY <1>4 DEF busVars, BusInv, BusTypes, Consumes, Runs, Accounted, Coming, Rest, Due, Means
  <1> QED
    BY <1>1, <1>2, <1>3, <1>4 DEF BusNext, Destination

\* However changes, events, loads, lost connections and ends of processes
\* meet: an instance that is behind and will not be told has one of the five
\* reasons (conf.go:32-71, events.go:129-144).
THEOREM StalenessProved == BusSpec => []StaleExplained
  <1>1. BusInv => StaleExplained
    <2> SUFFICES ASSUME BusInv, NEW n \in Nodes,
                        phase[n] = "up", ~Awaits(n), again[n] = NoFetch
                 PROVE  viper[n] >= announced[AppOf[n]] \/ missed[n] # No
      BY DEF StaleExplained
    <2>1. Accounted(n)
      BY DEF BusInv, Runs
    <2>2. ~Coming(n)
      BY DEF Coming, Rest, Due, Awaits
    <2> QED
      BY <2>1, <2>2 DEF Accounted
  <1> QED
    BY <1>1, BusInitially, BusStep, PTL DEF BusSpec
=============================================================================
