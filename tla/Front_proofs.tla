---------------------------- MODULE Front_proofs ----------------------------
(***************************************************************************)
(* Proofs about what a purchase has to pass in sk-app: the access limits,  *)
(* for any users, addresses, times and limits, and the verdicts on         *)
(* products with what sk-admin shows of their activities, for any offers.  *)
(***************************************************************************)
EXTENDS AntiSpam, AdminFront, Counting

-----------------------------------------------------------------------------
(* ---------------------------- access limits ---------------------------- *)

SpamTypes ==
    /\ userLimitMap \in [Users \cup Addrs -> Limit]
    /\ ipLimitMap \in [Addrs -> Limit]
    /\ accesses \in Seq(Access)

\* The counted and the accepted requests of an address from the k-th on that
\* claim a time in T, and their numbers.
Hits(a, T, k) == {i \in k .. Len(accesses) : /\ accesses[i].addr = a /\ accesses[i].time \in T
                                             /\ accesses[i].user \notin blackList.ids}
Wins(a, T, k) == {i \in k .. Len(accesses) : /\ accesses[i].addr = a /\ accesses[i].time \in T
                                             /\ accesses[i].ok}
HitCount(a, T, k) == Cardinality(Hits(a, T, k))
WinCount(a, T, k) == Cardinality(Wins(a, T, k))

Onward(x)  == {y \in Nat : y >= x}
Seen(a, x) == x = 0 \/ \E i \in From(a) : accesses[i].time = x

\* What a counter with count n and time x says, in any order of the times ...
LateAt(a, n, x) ==
    \A i \in Hits(a, Nat, 1) :
        /\ accesses[i].time <= x + 60
        /\ (\A j \in From(a) : accesses[j].time <= accesses[i].time)
               => HitCount(a, Nat, i) <= n /\ WinCount(a, Nat, i) <= IPMinAccessLimit
\* ... and while the requests of the address are handled in order.
SecondAt(a, n, x) ==
    /\ Seen(a, x) /\ \A i \in Hits(a, Nat, 1) : accesses[i].time <= x
    /\ n = HitCount(a, {x}, 1)
    /\ \A t \in Times : WinCount(a, {t}, 1) <= IPSecAccessLimit
MinuteAt(a, n, x) ==
    /\ Seen(a, x)
    /\ n = HitCount(a, Onward(x), 1)
    /\ WinCount(a, Onward(x), 1) <= IPMinAccessLimit
    /\ WinCount(a, (x - 60) .. (x - 1), 1) <= IPMinAccessLimit
    /\ \A t \in Times : WinCount(a, t .. t + 60, 1) <= 2 * IPMinAccessLimit

LimitInv(a) ==
    \E l \in Limit :
        /\ ipLimitMap[a] = l
        /\ LateAt(a, l.min.count, l.min.curTime)
        /\ InOrder(a) => /\ SecondAt(a, l.sec.count, l.sec.curTime)
                         /\ MinuteAt(a, l.min.count, l.min.curTime)
CleanInv == /\ \A u \in Users : userLimitMap[u] = FreshLimit
            /\ \A i \in 1 .. Len(accesses) :
                  accesses[i].ok => /\ accesses[i].user \notin blackList.ids
                                    /\ accesses[i].addr \notin blackList.ips

SpamInv == SpamTypes /\ CleanInv /\ \A a \in Addrs : LimitInv(a)

-----------------------------------------------------------------------------
LEMMA HitsType ==
    ASSUME SpamTypes, NEW a, NEW T, NEW k \in Nat
    PROVE  /\ IsFiniteSet(Hits(a, T, k)) /\ HitCount(a, T, k) \in Nat
           /\ IsFiniteSet(Wins(a, T, k)) /\ WinCount(a, T, k) \in Nat
  <1>1. Len(accesses) \in Nat
    BY DEF SpamTypes
  <1>2. IsFiniteSet(k .. Len(accesses))
    BY <1>1, FS_Interval
  <1>3. Hits(a, T, k) \in SUBSET (k .. Len(accesses)) /\ Wins(a, T, k) \in SUBSET (k .. Len(accesses))
    BY DEF Hits, Wins
  <1>4. IsFiniteSet(Hits(a, T, k)) /\ IsFiniteSet(Wins(a, T, k))
    BY <1>2, <1>3, FS_Subset
  <1>5. QED
    BY <1>4, FS_CardinalityType DEF HitCount, WinCount

\* Only counted requests are accepted.
LEMMA WinsAreHits ==
    ASSUME SpamTypes, CleanInv, NEW a, NEW T, NEW k \in Nat \ {0}
    PROVE  Wins(a, T, k) \subseteq Hits(a, T, k) /\ WinCount(a, T, k) <= HitCount(a, T, k)
  <1>1. Len(accesses) \in Nat
    BY DEF SpamTypes
  <1>2. Wins(a, T, k) \in SUBSET Hits(a, T, k)
    BY <1>1 DEF Wins, Hits, CleanInv
  <1>3. QED
    BY <1>2, HitsType, FS_Subset DEF HitCount, WinCount

FewerWins == \A a, T : \A k \in Nat \ {0} : WinCount(a, T, k) <= HitCount(a, T, k)

LEMMA WinsFewer == SpamTypes /\ CleanInv => FewerWins
  BY WinsAreHits DEF FewerWins

LEMMA WinsFewerNext == SpamTypes' /\ CleanInv' => FewerWins'
  BY WinsFewer, PTL

\* The accepted requests of two periods are no fewer than those of a period
\* they cover.
LEMMA WinsCovered ==
    ASSUME SpamTypes, NEW a, NEW T, NEW U, NEW V,
           \A i \in Wins(a, T, 1) : accesses[i].time \in U \cup V
    PROVE  WinCount(a, T, 1) <= WinCount(a, U, 1) + WinCount(a, V, 1)
  <1> DEFINE A == Wins(a, U, 1)
             B == Wins(a, V, 1)
  <1>1. Wins(a, T, 1) \in SUBSET (A \cup B)
    BY DEF Wins
  <1>2. IsFiniteSet(A) /\ IsFiniteSet(B) /\ IsFiniteSet(A \cap B)
        /\ Cardinality(A) \in Nat /\ Cardinality(B) \in Nat
    <2>1. IsFiniteSet(A) /\ IsFiniteSet(B) /\ Cardinality(A) \in Nat /\ Cardinality(B) \in Nat
      BY HitsType DEF WinCount
    <2>2. QED
      BY <2>1, FS_Intersection
  <1>3. /\ IsFiniteSet(A \cup B)
        /\ Cardinality(A \cup B) = Cardinality(A) + Cardinality(B) - Cardinality(A \cap B)
    BY <1>2, FS_Union
  <1>4. Cardinality(A \cap B) \in Nat /\ Cardinality(Wins(a, T, 1)) \in Nat
        /\ Cardinality(Wins(a, T, 1)) <= Cardinality(A \cup B)
    <2>1. Cardinality(A \cap B) \in Nat
      BY <1>2, FS_CardinalityType
    <2>2. Cardinality(Wins(a, T, 1)) <= Cardinality(A \cup B)
      BY <1>1, <1>3, FS_Subset
    <2>3. Cardinality(Wins(a, T, 1)) \in Nat
      BY HitsType DEF WinCount
    <2>4. QED
      BY <2>1, <2>2, <2>3
  <1> DEFINE x == Cardinality(A)
             y == Cardinality(B)
             z == Cardinality(A \cap B)
             v == Cardinality(A \cup B)
             w == Cardinality(Wins(a, T, 1))
  <1>5. x \in Nat /\ y \in Nat /\ z \in Nat /\ w \in Nat /\ v = x + y - z /\ w <= v
    BY <1>2, <1>3, <1>4
  <1>6. WinCount(a, T, 1) = w /\ WinCount(a, U, 1) = x /\ WinCount(a, V, 1) = y
    BY DEF WinCount
  <1> HIDE DEF x, y, z, v, w
  <1>7. QED
    BY <1>5, <1>6

Covering ==
    \A a, T, U, V :
        /\ WinCount(a, T, 1) \in Nat /\ WinCount(a, U, 1) \in Nat /\ WinCount(a, V, 1) \in Nat
        /\ T \subseteq U \cup V => WinCount(a, T, 1) <= WinCount(a, U, 1) + WinCount(a, V, 1)

LEMMA Covers == SpamTypes => Covering
  <1> SUFFICES ASSUME SpamTypes, NEW a, NEW T, NEW U, NEW V
               PROVE  /\ /\ WinCount(a, T, 1) \in Nat /\ WinCount(a, U, 1) \in Nat
                         /\ WinCount(a, V, 1) \in Nat
                      /\ T \subseteq U \cup V
                           => WinCount(a, T, 1) <= WinCount(a, U, 1) + WinCount(a, V, 1)
    BY DEF Covering
  <1>1. WinCount(a, T, 1) \in Nat /\ WinCount(a, U, 1) \in Nat /\ WinCount(a, V, 1) \in Nat
    BY HitsType
  <1>2. ASSUME T \subseteq U \cup V
        PROVE  WinCount(a, T, 1) <= WinCount(a, U, 1) + WinCount(a, V, 1)
    <2>1. \A i \in Wins(a, T, 1) : accesses[i].time \in U \cup V
      BY <1>2 DEF Wins
    <2>2. QED
      BY <2>1, WinsCovered
  <1>3. QED
    BY <1>1, <1>2

LEMMA CoversNext == SpamTypes' => Covering'
  BY Covers, PTL

LEMMA NoWins ==
    ASSUME SpamTypes, NEW a, NEW T, NEW k \in Nat
    PROVE  /\ Hits(a, T, k) = {} => HitCount(a, T, k) = 0
           /\ Wins(a, T, k) = {} => WinCount(a, T, k) = 0
  BY FS_EmptySet DEF HitCount, WinCount

-----------------------------------------------------------------------------
(* A request is judged.                                                    *)

LEMMA AccessGrows ==
    ASSUME SpamTypes, NEW r \in Access, accesses' = Append(accesses, r)
    PROVE  LET n == Len(accesses) IN
           /\ n \in Nat /\ Len(accesses') = n + 1 /\ accesses'[n + 1] = r
           /\ \A i \in 1 .. n : accesses'[i] = accesses[i] /\ accesses[i] \in Access
           /\ accesses' \in Seq(Access)
           /\ \A i \in 1 .. n + 1 : i \in 1 .. n \/ i = n + 1
           /\ n + 1 \notin 1 .. n /\ n + 1 \in 1 .. n + 1 /\ 1 .. n \subseteq 1 .. n + 1
  BY DEF SpamTypes

LEMMA HitsGrow ==
    ASSUME SpamTypes, NEW r \in Access, accesses' = Append(accesses, r), UNCHANGED blackList,
           NEW a, NEW T, NEW k \in 1 .. Len(accesses) + 1
    PROVE  /\ IF r.addr = a /\ r.time \in T /\ r.user \notin blackList.ids
              THEN /\ Hits(a, T, k)' = Hits(a, T, k) \cup {Len(accesses) + 1}
                   /\ HitCount(a, T, k)' = HitCount(a, T, k) + 1
              ELSE Hits(a, T, k)' = Hits(a, T, k) /\ HitCount(a, T, k)' = HitCount(a, T, k)
           /\ IF r.addr = a /\ r.time \in T /\ r.ok
              THEN /\ Wins(a, T, k)' = Wins(a, T, k) \cup {Len(accesses) + 1}
                   /\ WinCount(a, T, k)' = WinCount(a, T, k) + 1
              ELSE Wins(a, T, k)' = Wins(a, T, k) /\ WinCount(a, T, k)' = WinCount(a, T, k)
           /\ HitCount(a, T, k) \in Nat /\ WinCount(a, T, k) \in Nat
  <1> DEFINE n == Len(accesses)
  <1>1. /\ n \in Nat /\ Len(accesses') = n + 1 /\ accesses'[n + 1] = r
        /\ \A i \in 1 .. n : accesses'[i] = accesses[i]
    BY AccessGrows
  <1>2. k \in 1 .. n + 1
    OBVIOUS
  <1>3. k \in Nat
    BY <1>1, <1>2
  <1>4. /\ \A i \in k .. n + 1 : i = n + 1 \/ (i \in k .. n /\ i \in 1 .. n)
        /\ \A i \in k .. n : i \in 1 .. n /\ i \in k .. n + 1
        /\ n + 1 \in k .. n + 1 /\ n + 1 \notin k .. n
    BY <1>1, <1>2
  <1>5. n + 1 \notin Hits(a, T, k) /\ n + 1 \notin Wins(a, T, k)
    BY <1>4 DEF Hits, Wins
  <1>6. /\ IsFiniteSet(Hits(a, T, k)) /\ HitCount(a, T, k) \in Nat
        /\ IsFiniteSet(Wins(a, T, k)) /\ WinCount(a, T, k) \in Nat
    BY <1>3, HitsType
  <1> DEFINE hit == r.addr = a /\ r.time \in T /\ r.user \notin blackList.ids
             win == r.addr = a /\ r.time \in T /\ r.ok
  <1>7. Hits(a, T, k)' = IF hit THEN Hits(a, T, k) \cup {n + 1} ELSE Hits(a, T, k)
    <2>1. \A i : i \in Hits(a, T, k)' <=>
                    i \in k .. n + 1 /\ accesses'[i].addr = a /\ accesses'[i].time \in T
                       /\ accesses'[i].user \notin blackList.ids
      BY <1>1 DEF Hits
    <2>2. \A i : i \in Hits(a, T, k) <=>
                    i \in k .. n /\ accesses[i].addr = a /\ accesses[i].time \in T
                       /\ accesses[i].user \notin blackList.ids
      BY DEF Hits
    <2>3. n + 1 \in Hits(a, T, k)' <=> hit
      BY <1>1, <1>4, <2>1
    <2>4. \A i \in k .. n : i \in Hits(a, T, k)' <=> i \in Hits(a, T, k)
      BY <1>1, <1>4, <2>1, <2>2
    <2>5. \A i : i \in Hits(a, T, k)' => i = n + 1 \/ i \in k .. n
      BY <1>4, <2>1
    <2>6. \A i : i \in Hits(a, T, k) => i \in k .. n
      BY <2>2
    <2> HIDE DEF n, hit
    <2>7. \A i : i \in Hits(a, T, k)' <=> i \in Hits(a, T, k) \/ (i = n + 1 /\ hit)
      BY <1>5, <2>3, <2>4, <2>5, <2>6 DEF n
    <2>8. QED
      BY <2>7
  <1>8. Wins(a, T, k)' = IF win THEN Wins(a, T, k) \cup {n + 1} ELSE Wins(a, T, k)
    <2>1. \A i : i \in Wins(a, T, k)' <=>
                    i \in k .. n + 1 /\ accesses'[i].addr = a /\ accesses'[i].time \in T
                       /\ accesses'[i].ok
      BY <1>1 DEF Wins
    <2>2. \A i : i \in Wins(a, T, k) <=>
                    i \in k .. n /\ accesses[i].addr = a /\ accesses[i].time \in T
                       /\ accesses[i].ok
      BY DEF Wins
    <2>3. n + 1 \in Wins(a, T, k)' <=> win
      BY <1>1, <1>4, <2>1
    <2>4. \A i \in k .. n : i \in Wins(a, T, k)' <=> i \in Wins(a, T, k)
      BY <1>1, <1>4, <2>1, <2>2
    <2>5. \A i : i \in Wins(a, T, k)' => i = n + 1 \/ i \in k .. n
      BY <1>4, <2>1
    <2>6. \A i : i \in Wins(a, T, k) => i \in k .. n
      BY <2>2
    <2> HIDE DEF n, win
    <2>7. \A i : i \in Wins(a, T, k)' <=> i \in Wins(a, T, k) \/ (i = n + 1 /\ win)
      BY <1>5, <2>3, <2>4, <2>5, <2>6 DEF n
    <2>8. QED
      BY <2>7
  <1>9. Cardinality(Hits(a, T, k) \cup {n + 1}) = Cardinality(Hits(a, T, k)) + 1
    BY <1>5, <1>6, FS_AddElement
  <1>10. Cardinality(Wins(a, T, k) \cup {n + 1}) = Cardinality(Wins(a, T, k)) + 1
    BY <1>5, <1>6, FS_AddElement
  <1>11. QED
    BY <1>6, <1>7, <1>8, <1>9, <1>10 DEF HitCount, WinCount

\* An address that asks in order asks last at the latest time.
LEMMA InOrderStep ==
    ASSUME SpamTypes, NEW r \in Access, accesses' = Append(accesses, r), NEW a
    PROVE  /\ From(a)' = IF r.addr = a THEN From(a) \cup {Len(accesses) + 1} ELSE From(a)
           /\ \A i \in From(a) : i \in 1 .. Len(accesses) /\ accesses'[i] = accesses[i]
           /\ InOrder(a)' => /\ InOrder(a)
                             /\ r.addr = a => \A i \in From(a) : accesses[i].time <= r.time
  <1> DEFINE n == Len(accesses)
  <1>1. /\ n \in Nat /\ Len(accesses') = n + 1 /\ accesses'[n + 1] = r
        /\ \A i \in 1 .. n : accesses'[i] = accesses[i]
        /\ \A i \in 1 .. n + 1 : i \in 1 .. n \/ i = n + 1
        /\ n + 1 \in 1 .. n + 1 /\ 1 .. n \subseteq 1 .. n + 1
    BY AccessGrows
  <1>2. \A i : i \in From(a) <=> i \in 1 .. n /\ accesses[i].addr = a
    BY DEF From
  <1>3. \A i : i \in From(a)' <=> i \in 1 .. n + 1 /\ accesses'[i].addr = a
    BY <1>1 DEF From
  <1>4. \A i \in 1 .. n : i < n + 1
    BY <1>1
  <1> HIDE DEF n
  <1>5. n + 1 \in From(a)' <=> r.addr = a
    BY <1>1, <1>3
  <1>6. \A i \in 1 .. n : i \in From(a)' <=> i \in From(a)
    BY <1>1, <1>2, <1>3
  <1>7. \A i : i \in From(a)' <=> i \in From(a) \/ (i = n + 1 /\ r.addr = a)
    BY <1>1, <1>2, <1>3, <1>5, <1>6
  <1>8. From(a)' = IF r.addr = a THEN From(a) \cup {n + 1} ELSE From(a)
    BY <1>7
  <1>9. ASSUME InOrder(a)'
        PROVE  InOrder(a) /\ (r.addr = a => \A i \in From(a) : accesses[i].time <= r.time)
    <2>1. \A i, j \in From(a)' : i < j => accesses'[i].time <= accesses'[j].time
      BY <1>9 DEF InOrder
    <2>2. \A i, j \in From(a) : i < j => accesses[i].time <= accesses[j].time
      BY <1>1, <1>2, <1>7, <2>1
    <2>3. ASSUME r.addr = a, NEW i \in From(a) PROVE accesses[i].time <= r.time
      <3>1. i \in From(a)' /\ n + 1 \in From(a)' /\ i < n + 1 /\ accesses'[i] = accesses[i]
        BY <1>1, <1>2, <1>4, <1>7, <2>3
      <3>2. QED
        BY <1>1, <2>1, <3>1
    <2>4. QED
      BY <2>2, <2>3 DEF InOrder
  <1>10. QED
    BY <1>1, <1>2, <1>8, <1>9 DEF n

LEMMA TimesNat ==
    /\ \A r \in Access : r.time \in Nat /\ r.time \in Times
    /\ IPSecAccessLimit \in Nat /\ IPMinAccessLimit \in Nat
  BY AccessAssumption DEF Access

\* The claims of an address stay when only others are counted.
LEMMA QuietStep ==
    ASSUME SpamTypes, NEW r \in Access, accesses' = Append(accesses, r), UNCHANGED blackList,
           NEW a, r.addr # a \/ (r.user \in blackList.ids /\ ~r.ok),
           ipLimitMap'[a] = ipLimitMap[a], LimitInv(a)
    PROVE  LimitInv(a)'
  <1>1. PICK l \in Limit :
           /\ ipLimitMap[a] = l
           /\ LateAt(a, l.min.count, l.min.curTime)
           /\ InOrder(a) => /\ SecondAt(a, l.sec.count, l.sec.curTime)
                            /\ MinuteAt(a, l.min.count, l.min.curTime)
    BY DEF LimitInv
  <1>2. PICK m \in Nat, x \in Nat, n \in Nat, y \in Nat :
           l.min.count = m /\ l.min.curTime = x /\ l.sec.count = n /\ l.sec.curTime = y
    BY DEF Limit, Counter
  <1>3. /\ From(a) \subseteq From(a)'
        /\ \A i \in From(a) : i \in 1 .. Len(accesses) /\ accesses'[i] = accesses[i]
        /\ InOrder(a)' => InOrder(a)
    BY InOrderStep
  <1>4. Len(accesses) \in Nat
    BY AccessGrows
  <1>5. \A T : \A k \in 1 .. Len(accesses) + 1 :
           /\ Hits(a, T, k)' = Hits(a, T, k) /\ HitCount(a, T, k)' = HitCount(a, T, k)
           /\ WinCount(a, T, k)' = WinCount(a, T, k)
    BY HitsGrow
  <1>6. 1 \in 1 .. Len(accesses) + 1 /\ \A i \in 1 .. Len(accesses) : i \in 1 .. Len(accesses) + 1
    BY <1>4
  <1>7. \A i \in Hits(a, Nat, 1) : i \in From(a)
    BY DEF Hits, From
  <1>8. LateAt(a, m, x)'
    <2>1. LateAt(a, m, x)
      BY <1>1, <1>2
    <2> SUFFICES ASSUME NEW i \in Hits(a, Nat, 1)'
                 PROVE  /\ accesses'[i].time <= x + 60
                        /\ (\A j \in From(a)' : accesses'[j].time <= accesses'[i].time)
                              => /\ HitCount(a, Nat, i)' <= m
                                 /\ WinCount(a, Nat, i)' <= IPMinAccessLimit
      BY DEF LateAt
    <2>2. i \in Hits(a, Nat, 1) /\ i \in From(a) /\ i \in 1 .. Len(accesses) + 1
          /\ accesses'[i] = accesses[i]
      BY <1>3, <1>5, <1>6, <1>7
    <2>3. HitCount(a, Nat, i)' = HitCount(a, Nat, i) /\ WinCount(a, Nat, i)' = WinCount(a, Nat, i)
      BY <1>5, <2>2
    <2>4. (\A j \in From(a)' : accesses'[j].time <= accesses'[i].time)
             => (\A j \in From(a) : accesses[j].time <= accesses[i].time)
      BY <1>3, <2>2
    <2>5. QED
      BY <2>1, <2>2, <2>3, <2>4 DEF LateAt
  <1>9. ASSUME NEW z, Seen(a, z) PROVE Seen(a, z)'
    BY <1>3, <1>9 DEF Seen
  <1>10. ASSUME InOrder(a)' PROVE SecondAt(a, n, y)' /\ MinuteAt(a, m, x)'
    <2>1. SecondAt(a, n, y) /\ MinuteAt(a, m, x)
      BY <1>1, <1>2, <1>3, <1>10
    <2>2. \A i \in Hits(a, Nat, 1)' : i \in Hits(a, Nat, 1) /\ accesses'[i] = accesses[i]
      BY <1>3, <1>5, <1>6, <1>7
    <2>3. \A T : HitCount(a, T, 1)' = HitCount(a, T, 1) /\ WinCount(a, T, 1)' = WinCount(a, T, 1)
      BY <1>5, <1>6
    <2>4. SecondAt(a, n, y)'
      BY <1>9, <2>1, <2>2, <2>3 DEF SecondAt
    <2>5. MinuteAt(a, m, x)'
      BY <1>9, <2>1, <2>3 DEF MinuteAt
    <2>6. QED
      BY <2>4, <2>5
  <1>11. QED
    BY <1>1, <1>2, <1>8, <1>10 DEF LimitInv

LEMMA JudgeLate ==
    ASSUME SpamTypes, CleanInv, CleanInv', SpamTypes',
           NEW r \in Access, accesses' = Append(accesses, r), UNCHANGED blackList,
           r.user \notin blackList.ids, NEW n \in Nat, NEW x \in Nat, LateAt(r.addr, n, x),
           NEW m \in Nat, NEW y \in Nat,
           IF r.time - x > 60 THEN m = 1 /\ y = r.time ELSE m = n + 1 /\ y = x,
           r.ok => m <= IPMinAccessLimit
    PROVE  LateAt(r.addr, m, y)'
  <1> DEFINE a == r.addr
             k == Len(accesses) + 1
  <1>1. r.time \in Nat /\ IPMinAccessLimit \in Nat /\ k \in Nat \ {0} /\ accesses'[k] = r
        /\ Len(accesses) \in Nat
    BY TimesNat, AccessGrows
  <1> SUFFICES ASSUME NEW i \in Hits(a, Nat, 1)'
               PROVE  /\ accesses'[i].time <= y + 60
                      /\ (\A j \in From(a)' : accesses'[j].time <= accesses'[i].time)
                            => HitCount(a, Nat, i)' <= m /\ WinCount(a, Nat, i)' <= IPMinAccessLimit
    BY DEF LateAt
  <1>2. \A j \in 1 .. k : /\ HitCount(a, Nat, j)' = HitCount(a, Nat, j) + 1
                          /\ r.ok => WinCount(a, Nat, j)' = WinCount(a, Nat, j) + 1
                          /\ ~r.ok => WinCount(a, Nat, j)' = WinCount(a, Nat, j)
                          /\ HitCount(a, Nat, j) \in Nat /\ WinCount(a, Nat, j) \in Nat
    BY <1>1, HitsGrow
  <1>3. Hits(a, Nat, 1)' = Hits(a, Nat, 1) \cup {k}
    <2>1. 1 \in 1 .. Len(accesses) + 1
      BY <1>1
    <2>2. QED
      BY <1>1, <2>1, HitsGrow
  <1>4. /\ From(a)' = From(a) \cup {k}
        /\ \A j \in From(a) : j \in 1 .. Len(accesses) /\ accesses'[j] = accesses[j]
    BY InOrderStep
  <1>5. \A j \in 1 .. k : WinCount(a, Nat, j)' <= HitCount(a, Nat, j)'
    <2>1. \A j \in 1 .. k : j \in Nat \ {0}
      BY <1>1
    <2>2. QED
      BY <2>1, WinsFewerNext DEF FewerWins
  <1>6. m >= 1
    BY <1>1
  <1>7. CASE i = k
    <2>1. accesses'[i].time = r.time /\ r.time <= y + 60
      BY <1>1, <1>7
    <2>2. HitCount(a, Nat, i) = 0 /\ WinCount(a, Nat, i) = 0
      <3>1. Hits(a, Nat, i) = {} /\ Wins(a, Nat, i) = {}
        BY <1>1, <1>7 DEF Hits, Wins
      <3>2. QED
        BY <1>1, <1>7, <3>1, NoWins
    <2>3. i \in 1 .. k
      BY <1>1, <1>7
    <2>4. /\ HitCount(a, Nat, i)' = 1 /\ WinCount(a, Nat, i)' <= 1
          /\ ~r.ok => WinCount(a, Nat, i)' = 0
      BY <1>2, <1>5, <2>2, <2>3
    <2>5. HitCount(a, Nat, i)' <= m /\ WinCount(a, Nat, i)' <= IPMinAccessLimit
      <3> DEFINE h == HitCount(a, Nat, i)'
                 w == WinCount(a, Nat, i)'
      <3>1. h = 1 /\ w <= 1 /\ (~r.ok => w = 0) /\ (w = 0 \/ w = 1)
        BY <1>2, <2>2, <2>3, <2>4
      <3> HIDE DEF h, w
      <3>2. h <= m /\ w <= IPMinAccessLimit
        BY <1>1, <1>6, <3>1
      <3>3. QED
        BY <3>2 DEF h, w
    <2>6. QED
      BY <2>1, <2>5
  <1>8. CASE i \in Hits(a, Nat, 1)
    <2>1. i \in From(a) /\ accesses'[i] = accesses[i] /\ i \in 1 .. k /\ accesses[i].time \in Nat
      <3>1. i \in From(a)
        BY <1>8 DEF Hits, From
      <3>2. i \in 1 .. Len(accesses) /\ accesses'[i] = accesses[i]
        BY <1>4, <3>1
      <3>3. accesses[i].time \in Nat
        BY <1>8 DEF Hits
      <3>4. QED
        BY <1>1, <3>1, <3>2, <3>3
    <2>2. accesses[i].time <= x + 60 /\ x <= y
      BY <1>1, <1>8 DEF LateAt
    <2>3. ASSUME \A j \in From(a)' : accesses'[j].time <= accesses'[i].time
          PROVE  HitCount(a, Nat, i)' <= m /\ WinCount(a, Nat, i)' <= IPMinAccessLimit
      <3>1. /\ \A j \in From(a) : accesses[j].time <= accesses[i].time
            /\ r.time <= accesses[i].time
        BY <1>1, <1>4, <2>1, <2>3
      <3>2. HitCount(a, Nat, i) <= n /\ WinCount(a, Nat, i) <= IPMinAccessLimit
        BY <1>8, <3>1 DEF LateAt
      <3>3. m = n + 1
        BY <1>1, <2>1, <2>2, <3>1
      <3>4. /\ HitCount(a, Nat, i)' = HitCount(a, Nat, i) + 1
            /\ r.ok => WinCount(a, Nat, i)' = WinCount(a, Nat, i) + 1
            /\ ~r.ok => WinCount(a, Nat, i)' = WinCount(a, Nat, i)
            /\ HitCount(a, Nat, i) \in Nat /\ WinCount(a, Nat, i) \in Nat
            /\ WinCount(a, Nat, i)' <= HitCount(a, Nat, i)'
        BY <1>2, <1>5, <2>1
      <3> DEFINE h  == HitCount(a, Nat, i)
                 w  == WinCount(a, Nat, i)
                 hh == HitCount(a, Nat, i)'
                 ww == WinCount(a, Nat, i)'
      <3>5. /\ h <= n /\ w <= IPMinAccessLimit /\ hh = h + 1 /\ h \in Nat /\ w \in Nat
            /\ (r.ok /\ ww = w + 1) \/ (~r.ok /\ ww = w)
        BY <3>2, <3>4
      <3>6. ww <= hh
        BY <3>4
      <3> HIDE DEF h, w, hh, ww
      <3>7. hh <= m /\ ww <= IPMinAccessLimit
        BY <1>1, <3>3, <3>5, <3>6
      <3>8. QED
        BY <3>7 DEF hh, ww
    <2>4. accesses'[i].time <= y + 60
      BY <2>1, <2>2
    <2>5. QED
      BY <2>3, <2>4
  <1>9. QED
    BY <1>3, <1>7, <1>8

LEMMA JudgeSecond ==
    ASSUME SpamTypes, CleanInv, CleanInv', SpamTypes',
           NEW r \in Access, accesses' = Append(accesses, r), UNCHANGED blackList,
           r.user \notin blackList.ids, InOrder(r.addr)',
           NEW n \in Nat, NEW x \in Nat, SecondAt(r.addr, n, x),
           NEW m \in Nat,
           IF x # r.time THEN m = 1 ELSE m = n + 1,
           r.ok => m <= IPSecAccessLimit
    PROVE  SecondAt(r.addr, m, r.time)'
  <1> DEFINE a == r.addr
             k == Len(accesses) + 1
  <1>1. r.time \in Nat /\ r.time \in Times /\ IPSecAccessLimit \in Nat /\ k \in Nat \ {0}
        /\ accesses'[k] = r
    BY TimesNat, AccessGrows
  <1>2. /\ Seen(a, x) /\ \A i \in Hits(a, Nat, 1) : accesses[i].time <= x
        /\ n = HitCount(a, {x}, 1)
        /\ \A t \in Times : WinCount(a, {t}, 1) <= IPSecAccessLimit
    BY DEF SecondAt
  <1>3. 1 \in 1 .. Len(accesses) + 1
    BY <1>1
  <1>4. /\ From(a)' = From(a) \cup {k}
        /\ \A i \in From(a) : i \in 1 .. Len(accesses) /\ accesses'[i] = accesses[i]
        /\ \A i \in From(a) : accesses[i].time <= r.time
    BY InOrderStep
  <1>5. /\ Hits(a, Nat, 1)' = Hits(a, Nat, 1) \cup {k}
        /\ \A i \in Hits(a, Nat, 1) : i \in From(a)
    <2>1. Hits(a, Nat, 1)' = Hits(a, Nat, 1) \cup {k}
      BY <1>1, <1>3, HitsGrow
    <2>2. QED
      BY <2>1 DEF Hits, From
  <1>6. Seen(a, r.time)'
    BY <1>1, <1>4 DEF Seen
  <1>7. \A i \in Hits(a, Nat, 1)' : accesses'[i].time <= r.time
    <2>1. r.time <= r.time
      BY <1>1
    <2>2. QED
      BY <1>1, <1>4, <1>5, <2>1
  <1>8. m = HitCount(a, {r.time}, 1)'
    <2>1. HitCount(a, {r.time}, 1)' = HitCount(a, {r.time}, 1) + 1
      BY <1>3, HitsGrow
    <2>2. CASE x = r.time
      BY <1>2, <2>1, <2>2
    <2>3. CASE x # r.time
      <3>1. x < r.time
        BY <1>1, <1>2, <1>4, <2>3 DEF Seen
      <3>2. Hits(a, {r.time}, 1) = {}
        <4> SUFFICES ASSUME NEW i \in Hits(a, {r.time}, 1) PROVE FALSE
          OBVIOUS
        <4>1. accesses[i].time = r.time /\ i \in Hits(a, Nat, 1)
          BY <1>1 DEF Hits
        <4>2. QED
          BY <1>1, <1>2, <3>1, <4>1
      <3>3. HitCount(a, {r.time}, 1) = 0
        BY <3>2, NoWins
      <3>4. QED
        BY <2>1, <2>3, <3>3
    <2>4. QED
      BY <2>2, <2>3
  <1>9. ASSUME NEW t \in Times PROVE WinCount(a, {t}, 1)' <= IPSecAccessLimit
    <2>1. CASE r.ok /\ t = r.time
      <3>1. WinCount(a, {t}, 1)' <= HitCount(a, {t}, 1)'
        BY WinsFewerNext DEF FewerWins
      <3>2. HitCount(a, {t}, 1)' <= IPSecAccessLimit
        BY <1>8, <2>1
      <3>3. WinCount(a, {t}, 1)' \in Nat /\ HitCount(a, {t}, 1)' \in Nat
        BY <1>3, HitsGrow
      <3>4. QED
        BY <1>1, <3>1, <3>2, <3>3
    <2>2. CASE ~(r.ok /\ t = r.time)
      <3>1. WinCount(a, {t}, 1)' = WinCount(a, {t}, 1)
        BY <1>3, <2>2, HitsGrow
      <3>2. QED
        BY <1>2, <3>1
    <2>3. QED
      BY <2>1, <2>2
  <1>10. QED
    BY <1>6, <1>7, <1>8, <1>9 DEF SecondAt

\* The periods that the new request belongs to meet the window it is counted
\* in and the minute before that.
LEMMA Periods ==
    ASSUME SpamTypes', NEW a, NEW x \in Nat, NEW t \in Nat, t >= x - 60,
           WinCount(a, Onward(x), 1)' <= IPMinAccessLimit,
           WinCount(a, (x - 60) .. (x - 1), 1)' <= IPMinAccessLimit
    PROVE  WinCount(a, t .. t + 60, 1)' <= 2 * IPMinAccessLimit
  <1> DEFINE U == Onward(x)
             V == (x - 60) .. (x - 1)
             T == t .. t + 60
             p == WinCount(a, T, 1)'
             q == WinCount(a, U, 1)'
             s == WinCount(a, V, 1)'
  <1>1. T \subseteq U \cup V
    BY DEF Onward
  <1> HIDE DEF U, V, T
  <1>2. p \in Nat /\ q \in Nat /\ s \in Nat /\ p <= q + s
    BY <1>1, CoversNext DEF Covering
  <1>3. q <= IPMinAccessLimit /\ s <= IPMinAccessLimit
    BY DEF U, V
  <1> HIDE DEF p, q, s
  <1>4. p <= 2 * IPMinAccessLimit
    BY <1>2, <1>3, TimesNat
  <1>5. QED
    BY <1>4 DEF p, T

LEMMA JudgeMinute ==
    ASSUME SpamTypes, CleanInv, CleanInv', SpamTypes',
           NEW r \in Access, accesses' = Append(accesses, r), UNCHANGED blackList,
           r.user \notin blackList.ids, InOrder(r.addr)',
           NEW n \in Nat, NEW x \in Nat, LateAt(r.addr, n, x), MinuteAt(r.addr, n, x),
           NEW m \in Nat, NEW y \in Nat,
           IF r.time - x > 60 THEN m = 1 /\ y = r.time ELSE m = n + 1 /\ y = x,
           r.ok => m <= IPMinAccessLimit
    PROVE  MinuteAt(r.addr, m, y)'
  <1> DEFINE a == r.addr
             k == Len(accesses) + 1
  <1>1. r.time \in Nat /\ IPMinAccessLimit \in Nat /\ k \in Nat \ {0} /\ accesses'[k] = r
    BY TimesNat, AccessGrows
  <1>2. /\ Seen(a, x)
        /\ n = HitCount(a, Onward(x), 1)
        /\ WinCount(a, Onward(x), 1) <= IPMinAccessLimit
        /\ WinCount(a, (x - 60) .. (x - 1), 1) <= IPMinAccessLimit
        /\ \A t \in Times : WinCount(a, t .. t + 60, 1) <= 2 * IPMinAccessLimit
    BY DEF MinuteAt
  <1>3. 1 \in 1 .. Len(accesses) + 1
    BY <1>1
  <1>4. /\ From(a)' = From(a) \cup {k}
        /\ \A i \in From(a) : i \in 1 .. Len(accesses) /\ accesses'[i] = accesses[i]
        /\ \A i \in From(a) : accesses[i].time <= r.time
    BY InOrderStep
  <1>5. x <= r.time /\ x <= y /\ y <= r.time /\ r.time <= y + 60
    <2>1. x <= r.time
      BY <1>1, <1>2, <1>4 DEF Seen
    <2>2. r.time \in Nat
      BY <1>1
    <2>3. QED
      BY <2>1, <2>2
  <1>6. Seen(a, y)'
    <2>1. CASE y = r.time
      BY <1>1, <1>4, <2>1 DEF Seen
    <2>2. CASE y = x
      BY <1>2, <1>4, <2>2 DEF Seen
    <2>3. QED
      BY <2>1, <2>2
  <1>7. r.time \in Onward(y) /\ r.time \notin (y - 60) .. (y - 1)
    BY <1>1, <1>5 DEF Onward
  <1>8. m = HitCount(a, Onward(y), 1)'
    <2>1. HitCount(a, Onward(y), 1)' = HitCount(a, Onward(y), 1) + 1
      BY <1>3, <1>7, HitsGrow
    <2>2. CASE m = n + 1 /\ y = x
      BY <1>2, <2>1, <2>2
    <2>3. CASE m = 1 /\ y = r.time /\ r.time - x > 60
      <3>1. Hits(a, Onward(y), 1) = {}
        <4> SUFFICES ASSUME NEW i \in Hits(a, Onward(y), 1) PROVE FALSE
          OBVIOUS
        <4>1. accesses[i].time \in Nat /\ accesses[i].time >= y /\ i \in Hits(a, Nat, 1)
          BY DEF Hits, Onward
        <4>2. accesses[i].time <= x + 60
          BY <4>1 DEF LateAt
        <4>3. QED
          BY <1>1, <2>3, <4>1, <4>2
      <3>2. HitCount(a, Onward(y), 1) = 0
        BY <3>1, NoWins
      <3>3. QED
        BY <2>1, <2>3, <3>2
    <2>4. QED
      BY <2>2, <2>3
  <1>9. WinCount(a, Onward(y), 1)' <= IPMinAccessLimit
    <2>1. WinCount(a, Onward(y), 1)' <= HitCount(a, Onward(y), 1)'
      BY WinsFewerNext DEF FewerWins
    <2>2. WinCount(a, Onward(y), 1)' \in Nat /\ WinCount(a, Onward(y), 1) \in Nat
      <3>1. WinCount(a, Onward(y), 1) \in Nat
        BY <1>3, HitsGrow
      <3>2. QED
        BY <3>1, CoversNext DEF Covering
    <2>3. CASE r.ok
      BY <1>1, <1>8, <2>1, <2>2, <2>3
    <2>4. CASE ~r.ok
      <3>1. WinCount(a, Onward(y), 1)' = WinCount(a, Onward(y), 1)
        BY <1>3, <2>4, HitsGrow
      <3>2. CASE y = x
        BY <1>2, <3>1, <3>2
      <3>3. CASE m = 1
        <4>1. WinCount(a, Onward(y), 1) <= HitCount(a, Onward(y), 1)
          BY WinsFewer DEF FewerWins
        <4>2. HitCount(a, Onward(y), 1)' = HitCount(a, Onward(y), 1) + 1
              /\ HitCount(a, Onward(y), 1) \in Nat
          BY <1>3, <1>7, HitsGrow
        <4>3. WinCount(a, Onward(y), 1) = 0
          BY <1>8, <2>2, <3>3, <4>1, <4>2
        <4>4. QED
          BY <1>1, <3>1, <4>3
      <3>4. QED
        BY <3>2, <3>3
    <2>5. QED
      BY <2>3, <2>4
  <1>10. WinCount(a, (y - 60) .. (y - 1), 1)' <= IPMinAccessLimit
    <2>1. WinCount(a, (y - 60) .. (y - 1), 1)' = WinCount(a, (y - 60) .. (y - 1), 1)
      BY <1>3, <1>7, HitsGrow
    <2>2. CASE y = x
      BY <1>2, <2>1, <2>2
    <2>3. CASE y = r.time /\ r.time - x > 60
      <3>1. (y - 60) .. (y - 1) \subseteq Onward(x) \cup {}
        BY <1>1, <2>3 DEF Onward
      <3>2. /\ WinCount(a, (y - 60) .. (y - 1), 1) \in Nat
            /\ WinCount(a, Onward(x), 1) \in Nat
            /\ WinCount(a, (y - 60) .. (y - 1), 1) <= WinCount(a, Onward(x), 1) + WinCount(a, {}, 1)
        BY <3>1, Covers DEF Covering
      <3>3. WinCount(a, {}, 1) = 0
        <4>1. Wins(a, {}, 1) = {}
          BY DEF Wins
        <4>2. QED
          BY <4>1, NoWins
      <3> DEFINE p == WinCount(a, (y - 60) .. (y - 1), 1)
                 q == WinCount(a, Onward(x), 1)
      <3>4. p \in Nat /\ q \in Nat /\ p <= q + 0 /\ q <= IPMinAccessLimit
        BY <1>2, <3>2, <3>3
      <3> HIDE DEF p, q
      <3>5. p <= IPMinAccessLimit
        BY <1>1, <3>4
      <3>6. QED
        BY <2>1, <3>5 DEF p
    <2>4. QED
      BY <2>2, <2>3
  <1>11. ASSUME NEW t \in Times PROVE WinCount(a, t .. t + 60, 1)' <= 2 * IPMinAccessLimit
    <2>1. CASE r.time \notin t .. t + 60
      <3> DEFINE T == t .. t + 60
      <3>1. r.time \notin T
        BY <2>1
      <3> HIDE DEF T
      <3>2. WinCount(a, T, 1)' = WinCount(a, T, 1)
        BY <1>3, <3>1, HitsGrow
      <3>3. QED
        BY <1>2, <3>2 DEF T
    <2>2. CASE r.time \in t .. t + 60
      <3>1. t \in Nat
        BY AccessAssumption
      <3>2. t >= y - 60
        BY <1>1, <1>5, <2>2, <3>1
      <3>3. QED
        BY <1>9, <1>10, <3>1, <3>2, Periods
    <2>3. QED
      BY <2>1, <2>2
  <1>12. QED
    BY <1>6, <1>8, <1>9, <1>10, <1>11 DEF MinuteAt

-----------------------------------------------------------------------------
LEMMA CountersType ==
    /\ FreshLimit \in Limit
    /\ \A l \in Limit, t \in Nat : CountIp(l, t) \in Limit /\ CountUser(l, t) \in Limit
  <1>1. \A c \in Counter, t \in Nat : SecCount(c, t) \in Counter /\ MinCount(c, t) \in Counter
    BY DEF Counter, SecCount, MinCount
  <1>2. QED
    BY <1>1 DEF FreshLimit, Limit, Counter, CountIp, CountUser

LEMMA SpamStart == Init => SpamInv
  <1> SUFFICES ASSUME Init PROVE SpamInv
    OBVIOUS
  <1>1. SpamTypes
    BY CountersType DEF Init, SpamTypes
  <1>2. CleanInv
    BY DEF Init, CleanInv
  <1>3. Len(accesses) = 0
    BY DEF Init
  <1>4. ASSUME NEW a \in Addrs PROVE LimitInv(a)
    <2>1. \A T, k : k \in Nat \ {0} => Hits(a, T, k) = {} /\ Wins(a, T, k) = {}
      BY <1>3 DEF Hits, Wins
    <2>2. \A T : HitCount(a, T, 1) = 0 /\ WinCount(a, T, 1) = 0
      BY <1>1, <2>1, NoWins
    <2>3. LateAt(a, 0, 0)
      BY <2>1 DEF LateAt
    <2>4. SecondAt(a, 0, 0) /\ MinuteAt(a, 0, 0)
      BY <2>1, <2>2, TimesNat DEF SecondAt, MinuteAt, Seen
    <2>5. ipLimitMap[a] = FreshLimit
      BY DEF Init
    <2>6. QED
      BY <2>3, <2>4, <2>5, CountersType DEF LimitInv, FreshLimit
  <1>5. QED
    BY <1>1, <1>2, <1>4 DEF SpamInv

\* What each kind of request does.
LEMMA SpamActs ==
    ASSUME SpamTypes, Next
    PROVE  \E r \in Access :
              /\ r.user \in Users /\ r.addr \in Addrs /\ r.time \in Nat
              /\ accesses' = Append(accesses, r) /\ UNCHANGED blackList
              /\ \/ r.user \in blackList.ids /\ ~r.ok /\ UNCHANGED <<userLimitMap, ipLimitMap>>
                 \/ /\ r.user \notin blackList.ids
                    /\ r.ok <=> /\ r.addr \notin blackList.ips
                                /\ ~Excessive(CountUser(UserEntry(r.user), r.time),
                                              CountIp(ipLimitMap[r.addr], r.time))
                    /\ userLimitMap' = [userLimitMap EXCEPT
                           ![r.addr] = CountUser(UserEntry(r.user), r.time)]
                    /\ ipLimitMap' = [ipLimitMap EXCEPT
                           ![r.addr] = CountIp(ipLimitMap[r.addr], r.time)]
  <1>1. PICK c \in Clients, t \in Times : RefuseUser(c[1], c[2], t) \/ Judge(c[1], c[2], t)
    BY DEF Next
  <1>2. c[1] \in Users /\ c[2] \in Addrs /\ t \in Nat
    BY AccessAssumption
  <1>3. ASSUME NEW ok \in BOOLEAN
        PROVE  [user |-> c[1], addr |-> c[2], time |-> t, ok |-> ok] \in Access
    BY <1>2 DEF Access
  <1>4. CASE RefuseUser(c[1], c[2], t)
    <2> DEFINE r == [user |-> c[1], addr |-> c[2], time |-> t, ok |-> FALSE]
    <2>1. r \in Access
      BY <1>3
    <2>2. /\ r.user = c[1] /\ r.addr = c[2] /\ r.time = t /\ ~r.ok
          /\ accesses' = Append(accesses, r)
      BY <1>4 DEF RefuseUser, Record
    <2>3. r.user \in blackList.ids /\ UNCHANGED <<userLimitMap, ipLimitMap, blackList>>
      BY <1>4 DEF RefuseUser
    <2> HIDE DEF r
    <2>4. QED
      BY <1>2, <2>1, <2>2, <2>3
  <1>5. CASE Judge(c[1], c[2], t)
    <2> DEFINE user == CountUser(UserEntry(c[1]), t)
               ip   == CountIp(ipLimitMap[c[2]], t)
               ok   == c[2] \notin blackList.ips /\ ~Excessive(user, ip)
               r    == [user |-> c[1], addr |-> c[2], time |-> t, ok |-> ok]
    <2>1. ok \in BOOLEAN
      OBVIOUS
    <2>2. /\ c[1] \notin blackList.ids
          /\ userLimitMap' = [userLimitMap EXCEPT ![c[2]] = user]
          /\ ipLimitMap' = [ipLimitMap EXCEPT ![c[2]] = ip]
          /\ accesses' = Append(accesses, r) /\ UNCHANGED blackList
      BY <1>5 DEF Judge, Record
    <2> HIDE DEF ok
    <2>3. r \in Access
      BY <1>3, <2>1
    <2>4. r.user = c[1] /\ r.addr = c[2] /\ r.time = t /\ (r.ok <=> ok)
      BY <2>1
    <2> HIDE DEF r
    <2>5. QED
      BY <1>2, <2>2, <2>3, <2>4 DEF ok
  <1>6. QED
    BY <1>1, <1>4, <1>5

LEMMA SpamTypeStep == SpamTypes /\ Next => SpamTypes'
  <1> SUFFICES ASSUME SpamTypes, Next PROVE SpamTypes'
    OBVIOUS
  <1>1. PICK r \in Access :
           /\ r.user \in Users /\ r.addr \in Addrs /\ r.time \in Nat
           /\ accesses' = Append(accesses, r)
           /\ \/ UNCHANGED <<userLimitMap, ipLimitMap>>
              \/ /\ userLimitMap' = [userLimitMap EXCEPT
                        ![r.addr] = CountUser(UserEntry(r.user), r.time)]
                 /\ ipLimitMap' = [ipLimitMap EXCEPT
                        ![r.addr] = CountIp(ipLimitMap[r.addr], r.time)]
    BY SpamActs
  <1>2. CountUser(UserEntry(r.user), r.time) \in Limit /\ CountIp(ipLimitMap[r.addr], r.time) \in Limit
    BY <1>1, CountersType DEF SpamTypes, UserEntry
  <1>3. accesses' \in Seq(Access)
    BY <1>1, AccessGrows
  <1>4. QED
    BY <1>1, <1>2, <1>3 DEF SpamTypes

LEMMA CleanStep == SpamTypes /\ CleanInv /\ Next => CleanInv'
  <1> SUFFICES ASSUME SpamTypes, CleanInv, Next PROVE CleanInv'
    OBVIOUS
  <1>1. PICK r \in Access :
           /\ r.user \in Users /\ r.addr \in Addrs
           /\ accesses' = Append(accesses, r) /\ UNCHANGED blackList
           /\ r.ok => r.user \notin blackList.ids /\ r.addr \notin blackList.ips
           /\ \/ UNCHANGED userLimitMap
              \/ userLimitMap' = [userLimitMap EXCEPT
                        ![r.addr] = CountUser(UserEntry(r.user), r.time)]
    BY SpamActs
  <1>2. \A u \in Users : userLimitMap'[u] = userLimitMap[u]
    BY <1>1, AccessAssumption DEF SpamTypes
  <1>3. LET n == Len(accesses) IN
           /\ Len(accesses') = n + 1 /\ accesses'[n + 1] = r
           /\ \A i \in 1 .. n : accesses'[i] = accesses[i]
           /\ \A i \in 1 .. n + 1 : i \in 1 .. n \/ i = n + 1
    BY <1>1, AccessGrows
  <1>4. ASSUME NEW i \in 1 .. Len(accesses'), accesses'[i].ok
        PROVE  accesses'[i].user \notin blackList'.ids /\ accesses'[i].addr \notin blackList'.ips
    <2>1. CASE i \in 1 .. Len(accesses)
      BY <1>1, <1>3, <1>4, <2>1 DEF CleanInv
    <2>2. CASE i = Len(accesses) + 1
      BY <1>1, <1>3, <1>4, <2>2
    <2>3. QED
      BY <1>3, <1>4, <2>1, <2>2
  <1>5. QED
    BY <1>2, <1>4 DEF CleanInv

LEMMA LimitStep ==
    ASSUME SpamTypes, CleanInv, SpamTypes', CleanInv', \A b \in Addrs : LimitInv(b), Next,
           NEW a \in Addrs
    PROVE  LimitInv(a)'
  <1>1. PICK r \in Access :
           /\ r.user \in Users /\ r.addr \in Addrs /\ r.time \in Nat
           /\ accesses' = Append(accesses, r) /\ UNCHANGED blackList
           /\ \/ r.user \in blackList.ids /\ ~r.ok /\ UNCHANGED ipLimitMap
              \/ /\ r.user \notin blackList.ids
                 /\ r.ok => ~Excessive(CountUser(UserEntry(r.user), r.time),
                                       CountIp(ipLimitMap[r.addr], r.time))
                 /\ ipLimitMap' = [ipLimitMap EXCEPT
                        ![r.addr] = CountIp(ipLimitMap[r.addr], r.time)]
    BY SpamActs
  <1>2. CASE r.addr # a \/ (r.user \in blackList.ids /\ ~r.ok)
    <2>1. ipLimitMap'[a] = ipLimitMap[a]
      BY <1>1, <1>2 DEF SpamTypes
    <2>2. QED
      BY <1>1, <1>2, <2>1, QuietStep
  <1>3. CASE r.addr = a /\ r.user \notin blackList.ids
    <2>1. PICK l \in Limit :
             /\ ipLimitMap[a] = l
             /\ LateAt(a, l.min.count, l.min.curTime)
             /\ InOrder(a) => /\ SecondAt(a, l.sec.count, l.sec.curTime)
                              /\ MinuteAt(a, l.min.count, l.min.curTime)
      BY DEF LimitInv
    <2>2. PICK n \in Nat, x \in Nat, ns \in Nat, xs \in Nat :
             /\ l.min.count = n /\ l.min.curTime = x
             /\ l.sec.count = ns /\ l.sec.curTime = xs
      BY DEF Limit, Counter
    <2>3. PICK k \in Limit : k = CountIp(l, r.time)
      BY <1>1, CountersType
    <2>4. PICK m \in Nat, y \in Nat, ms \in Nat, ys \in Nat :
             /\ k.min.count = m /\ k.min.curTime = y
             /\ k.sec.count = ms /\ k.sec.curTime = ys
      BY DEF Limit, Counter
    <2>5. l \in [sec : [count : Nat, curTime : Nat], min : [count : Nat, curTime : Nat]]
      BY DEF Limit, Counter
    <2>6. /\ IF r.time - x > 60 THEN m = 1 /\ y = r.time ELSE m = n + 1 /\ y = x
          /\ IF xs # r.time THEN ms = 1 ELSE ms = ns + 1
          /\ ys = r.time
      <3>1. k.min = MinCount(l.min, r.time) /\ k.sec = SecCount(l.sec, r.time)
        BY <2>3 DEF CountIp
      <3>2. /\ IF r.time - x > 60 THEN k.min.count = 1 /\ k.min.curTime = r.time
               ELSE k.min.count = n + 1 /\ k.min.curTime = x
        BY <2>2, <2>5, <3>1 DEF MinCount
      <3>3. /\ IF xs # r.time THEN k.sec.count = 1 ELSE k.sec.count = ns + 1
            /\ k.sec.curTime = r.time
        BY <2>2, <2>5, <3>1 DEF SecCount
      <3>4. QED
        BY <2>4, <3>2, <3>3
    <2>7. r.ok => ms <= IPSecAccessLimit /\ m <= IPMinAccessLimit
      BY <1>1, <1>3, <2>1, <2>3, <2>4, TimesNat DEF Excessive
    <2>8. ipLimitMap'[a] = k
      BY <1>1, <1>3, <2>1, <2>3 DEF SpamTypes
    <2>9. LateAt(a, n, x)
      BY <2>1, <2>2
    <2>10. LateAt(a, m, y)'
      BY <1>1, <1>3, <2>6, <2>7, <2>9, JudgeLate
    <2>11. ASSUME InOrder(a)' PROVE SecondAt(a, ms, ys)' /\ MinuteAt(a, m, y)'
      <3>1. InOrder(a)
        BY <1>1, <2>11, InOrderStep
      <3>2. SecondAt(a, ns, xs) /\ MinuteAt(a, n, x)
        BY <2>1, <2>2, <3>1
      <3>3. SecondAt(a, ms, r.time)'
        BY <1>1, <1>3, <2>6, <2>7, <2>11, <3>2, JudgeSecond
      <3>4. MinuteAt(a, m, y)'
        BY <1>1, <1>3, <2>6, <2>7, <2>9, <2>11, <3>2, JudgeMinute
      <3>5. QED
        BY <2>6, <3>3, <3>4
    <2>12. QED
      BY <2>4, <2>8, <2>10, <2>11 DEF LimitInv
  <1>4. QED
    BY <1>1, <1>2, <1>3

LEMMA SpamStep == SpamInv /\ [Next]_accessVars => SpamInv'
  <1> SUFFICES ASSUME SpamInv, [Next]_accessVars PROVE SpamInv'
    OBVIOUS
  <1>1. CASE Next
    <2>1. SpamTypes' /\ CleanInv'
      BY <1>1, SpamTypeStep, CleanStep DEF SpamInv
    <2>2. QED
      BY <1>1, <2>1, LimitStep DEF SpamInv
  <1>2. CASE UNCHANGED accessVars
    <2>1. SpamTypes' /\ CleanInv'
      BY <1>2 DEF accessVars, SpamInv, SpamTypes, CleanInv
    <2>2. /\ \A a, T, k : Hits(a, T, k)' = Hits(a, T, k) /\ Wins(a, T, k)' = Wins(a, T, k)
          /\ \A a : From(a)' = From(a)
      BY <1>2 DEF accessVars, Hits, Wins, From
    <2>3. /\ \A a, T, k : /\ HitCount(a, T, k)' = HitCount(a, T, k)
                          /\ WinCount(a, T, k)' = WinCount(a, T, k)
          /\ \A a : InOrder(a)' <=> InOrder(a)
          /\ \A a, x : Seen(a, x)' <=> Seen(a, x)
      BY <1>2, <2>2 DEF accessVars, HitCount, WinCount, InOrder, Seen
    <2>4. ASSUME NEW a, NEW n, NEW x
          PROVE  /\ LateAt(a, n, x)' <=> LateAt(a, n, x)
                 /\ SecondAt(a, n, x)' <=> SecondAt(a, n, x)
                 /\ MinuteAt(a, n, x)' <=> MinuteAt(a, n, x)
      <3>1. accesses' = accesses
        BY <1>2 DEF accessVars
      <3>2. LateAt(a, n, x)' <=> LateAt(a, n, x)
        BY <2>2, <2>3, <3>1 DEF LateAt
      <3>3. SecondAt(a, n, x)' <=> SecondAt(a, n, x)
        BY <2>2, <2>3, <3>1 DEF SecondAt
      <3>4. MinuteAt(a, n, x)' <=> MinuteAt(a, n, x)
        BY <2>3 DEF MinuteAt
      <3>5. QED
        BY <3>2, <3>3, <3>4
    <2>5. \A a \in Addrs : LimitInv(a)'
      BY <1>2, <2>3, <2>4 DEF accessVars, LimitInv, SpamInv
    <2>6. QED
      BY <2>1, <2>5 DEF SpamInv
  <1>3. QED
    BY <1>1, <1>2

\* The sets the properties speak of.
LEMMA TheSets ==
    ASSUME NEW a, NEW from, NEW to
    PROVE  /\ Accepted(During(a, from, to)) = Wins(a, from .. to, 1)
           /\ Counted(During(a, from, to)) = Hits(a, from .. to, 1)
  BY DEF Accepted, Counted, During, From, Wins, Hits

LEMMA TheRest ==
    ASSUME SpamTypes, NEW a
    PROVE  /\ Counted(From(a)) = Hits(a, Nat, 1)
           /\ \A i \in 1 .. Len(accesses) : Accepted({j \in From(a) : j >= i}) = Wins(a, Nat, i)
  <1>1. Len(accesses) \in Nat /\ \A i \in 1 .. Len(accesses) : accesses[i].time \in Nat
    BY TimesNat DEF SpamTypes
  <1>2. Counted(From(a)) = Hits(a, Nat, 1)
    BY <1>1 DEF Counted, From, Hits
  <1>3. ASSUME NEW i \in 1 .. Len(accesses)
        PROVE  Accepted({j \in From(a) : j >= i}) = Wins(a, Nat, i)
    BY <1>1 DEF Accepted, From, Wins
  <1>4. QED
    BY <1>2, <1>3

LEMMA SpamMeans == SpamInv => Rations
  <1> SUFFICES ASSUME SpamInv, NEW a \in Addrs
               PROVE  /\ InOrder(a) => \A t \in Times :
                           /\ Cardinality(Accepted(During(a, t, t))) <= IPSecAccessLimit
                           /\ Cardinality(Accepted(During(a, t, t + 60))) <= 2 * IPMinAccessLimit
                      /\ \A i \in Counted(From(a)) :
                           (\A j \in From(a) : accesses[j].time <= accesses[i].time)
                             => Cardinality(Accepted({j \in From(a) : j >= i})) <= IPMinAccessLimit
    BY DEF Rations, SecondRation, MinuteRation, LateRation
  <1>1. SpamTypes
    BY DEF SpamInv
  <1>2. PICK l \in Limit :
           /\ LateAt(a, l.min.count, l.min.curTime)
           /\ InOrder(a) => /\ SecondAt(a, l.sec.count, l.sec.curTime)
                            /\ MinuteAt(a, l.min.count, l.min.curTime)
    BY DEF SpamInv, LimitInv
  <1>3. ASSUME InOrder(a), NEW t \in Times
        PROVE  /\ Cardinality(Accepted(During(a, t, t))) <= IPSecAccessLimit
               /\ Cardinality(Accepted(During(a, t, t + 60))) <= 2 * IPMinAccessLimit
    <2>1. t \in Int /\ t + 60 \in Int /\ t .. t = {t}
      BY AccessAssumption
    <2>2. Accepted(During(a, t, t)) = Wins(a, {t}, 1)
          /\ Accepted(During(a, t, t + 60)) = Wins(a, t .. t + 60, 1)
      <3>1. Accepted(During(a, t, t)) = Wins(a, t .. t, 1)
        BY TheSets
      <3>2. Accepted(During(a, t, t + 60)) = Wins(a, t .. t + 60, 1)
        BY TheSets
      <3>3. QED
        BY <2>1, <3>1, <3>2
    <2>3. QED
      BY <1>2, <1>3, <2>2 DEF SecondAt, MinuteAt, WinCount
  <1>4. ASSUME NEW i \in Counted(From(a)),
               \A j \in From(a) : accesses[j].time <= accesses[i].time
        PROVE  Cardinality(Accepted({j \in From(a) : j >= i})) <= IPMinAccessLimit
    <2>1. /\ Counted(From(a)) = Hits(a, Nat, 1)
          /\ \A j \in 1 .. Len(accesses) : Accepted({jj \in From(a) : jj >= j}) = Wins(a, Nat, j)
      BY <1>1, TheRest
    <2>2. i \in 1 .. Len(accesses) /\ i \in Hits(a, Nat, 1)
      BY <2>1 DEF Hits
    <2>3. WinCount(a, Nat, i) <= IPMinAccessLimit
      BY <1>2, <1>4, <2>2 DEF LateAt
    <2>4. QED
      BY <2>1, <2>2, <2>3 DEF WinCount
  <1>5. QED
    BY <1>3, <1>4

\* Whatever the limits, the black lists and the times the clients claim: what
\* an observer of the accepted requests of an address may rely on, per second
\* and per minute when they are handled in order, and per minute after the
\* latest time when they are not.
THEOREM RationsProved == Spec => []Rations
  BY SpamStart, SpamStep, SpamMeans, PTL DEF Spec

-----------------------------------------------------------------------------
\* The limits of a user let the two counts of one request pass; with smaller
\* ones everybody is refused for ever.
TwoCountsPass == UserSecAccessLimit >= 1 /\ UserMinAccessLimit >= 2

\* The counted requests of a up to the i-th that claim a time of the period.
Before(a, from, to, i) == {j \in Counted(During(a, from, to)) : j <= i}
Reason(i, a, t) ==
    \/ Cardinality(Before(a, t, t, i)) > IPSecAccessLimit
    \/ Cardinality(Before(a, t - 60, t, i)) > IPMinAccessLimit
Just(i, u, a, t, ok) ==
    IF u \in blackList.ids \/ a \in blackList.ips THEN ~ok
    ELSE ok \/ (InOrder(a) => Reason(i, a, t))

LEMMA JustMeans ==
    Justified <=> \A i \in 1 .. Len(accesses) :
        Just(i, accesses[i].user, accesses[i].addr, accesses[i].time, accesses[i].ok)
  BY DEF Justified, Just, Reason, Before

LEMMA BeforeStays ==
    ASSUME SpamTypes, NEW r \in Access, accesses' = Append(accesses, r), UNCHANGED blackList,
           NEW a, NEW from, NEW to, NEW i \in 1 .. Len(accesses)
    PROVE  Before(a, from, to, i)' = Before(a, from, to, i)
  <1> DEFINE n == Len(accesses)
  <1>1. /\ n \in Nat /\ Len(accesses') = n + 1
        /\ \A j \in 1 .. n : accesses'[j] = accesses[j]
    BY AccessGrows
  <1>2. \A j : j \in Before(a, from, to, i)' <=>
            /\ j \in 1 .. n + 1 /\ j <= i /\ accesses'[j].addr = a
            /\ accesses'[j].time \in from .. to /\ accesses'[j].user \notin blackList.ids
    BY <1>1 DEF Before, Counted, During, From
  <1>3. \A j : j \in Before(a, from, to, i) <=>
            /\ j \in 1 .. n /\ j <= i /\ accesses[j].addr = a
            /\ accesses[j].time \in from .. to /\ accesses[j].user \notin blackList.ids
    BY DEF Before, Counted, During, From
  <1>4. \A j : j \in 1 .. n + 1 /\ j <= i <=> j \in 1 .. n /\ j <= i
    BY <1>1
  <1> HIDE DEF n
  <1>5. \A j : j \in Before(a, from, to, i)' <=> j \in Before(a, from, to, i)
    BY <1>1, <1>2, <1>3, <1>4
  <1>6. QED
    BY <1>5

\* At the end everything is before.
LEMMA BeforeAll ==
    ASSUME SpamTypes, NEW a, NEW from, NEW to
    PROVE  Before(a, from, to, Len(accesses)) = Hits(a, from .. to, 1)
  BY DEF Before, Counted, During, From, Hits, SpamTypes

\* The counters of an address in order are explained by its requests.
Explained ==
    \A a \in Addrs, n \in Nat, x \in Nat, t \in Nat, N \in Nat : N = Len(accesses) =>
        /\ SecondAt(a, n, t) => n <= Cardinality(Before(a, t, t, N))
        /\ MinuteAt(a, n, x) /\ (\A i \in From(a) : accesses[i].time <= t) /\ t - x <= 60
              => n <= Cardinality(Before(a, t - 60, t, N))

LEMMA Explains == SpamTypes => Explained
  <1> SUFFICES ASSUME SpamTypes, NEW a \in Addrs, NEW n \in Nat, NEW x \in Nat, NEW t \in Nat,
                      NEW N \in Nat, N = Len(accesses)
               PROVE  /\ SecondAt(a, n, t) => n <= Cardinality(Before(a, t, t, N))
                      /\ MinuteAt(a, n, x) /\ (\A i \in From(a) : accesses[i].time <= t)
                             /\ t - x <= 60
                           => n <= Cardinality(Before(a, t - 60, t, N))
    BY DEF Explained
  <1>1. ASSUME SecondAt(a, n, t) PROVE n <= Cardinality(Before(a, t, t, N))
    <2>1. Before(a, t, t, N) = Hits(a, {t}, 1)
      <3>1. Before(a, t, t, N) = Hits(a, t .. t, 1)
        BY BeforeAll
      <3>2. t .. t = {t}
        OBVIOUS
      <3>3. QED
        BY <3>1, <3>2
    <2>2. n = Cardinality(Hits(a, {t}, 1))
      BY <1>1 DEF SecondAt, HitCount
    <2>3. n = Cardinality(Before(a, t, t, N))
      BY <2>1, <2>2
    <2>4. QED
      BY <2>3
  <1>2. ASSUME MinuteAt(a, n, x), \A i \in From(a) : accesses[i].time <= t, t - x <= 60
        PROVE  n <= Cardinality(Before(a, t - 60, t, N))
    <2>1. Before(a, t - 60, t, N) = Hits(a, (t - 60) .. t, 1)
      BY BeforeAll
    <2>2. Hits(a, Onward(x), 1) \in SUBSET Hits(a, (t - 60) .. t, 1)
      <3> SUFFICES ASSUME NEW i \in Hits(a, Onward(x), 1) PROVE i \in Hits(a, (t - 60) .. t, 1)
        OBVIOUS
      <3>1. accesses[i].time \in Nat /\ accesses[i].time >= x /\ i \in From(a)
        BY DEF Hits, Onward, From
      <3>2. accesses[i].time \in (t - 60) .. t
        BY <1>2, <3>1
      <3>3. QED
        BY <3>2 DEF Hits
    <2>3. IsFiniteSet(Hits(a, (t - 60) .. t, 1))
      BY HitsType
    <2>4. Cardinality(Hits(a, Onward(x), 1)) <= Cardinality(Hits(a, (t - 60) .. t, 1))
      BY <2>2, <2>3, FS_Subset
    <2>5. n = Cardinality(Hits(a, Onward(x), 1))
      BY <1>2 DEF MinuteAt, HitCount
    <2>6. n <= Cardinality(Hits(a, (t - 60) .. t, 1))
      BY <2>4, <2>5
    <2>7. QED
      BY <2>1, <2>6
  <1>3. QED
    BY <1>1, <1>2

LEMMA ExplainsNext == SpamTypes' => Explained'
  BY Explains, PTL

\* They are finitely many.
BeforeFinite == \A a, from, to, i : Cardinality(Before(a, from, to, i)) \in Nat

LEMMA BeforeNumber == SpamTypes => BeforeFinite
  <1> SUFFICES ASSUME SpamTypes, NEW a, NEW from, NEW to, NEW i
               PROVE  Cardinality(Before(a, from, to, i)) \in Nat
    BY DEF BeforeFinite
  <1>1. Before(a, from, to, i) \in SUBSET Hits(a, from .. to, 1)
    BY TheSets DEF Before
  <1>2. IsFiniteSet(Before(a, from, to, i))
    BY <1>1, HitsType, FS_Subset
  <1>3. QED
    BY <1>2, FS_CardinalityType

LEMMA BeforeCounts == SpamTypes' => BeforeFinite'
  BY BeforeNumber, PTL

\* A request of a user that was never counted passes the user's limits.
LEMMA UserPasses ==
    ASSUME TwoCountsPass, NEW t \in Nat, NEW k \in Limit,
           Excessive(CountUser(FreshLimit, t), k)
    PROVE  k.sec.count > IPSecAccessLimit \/ k.min.count > IPMinAccessLimit
  <1> DEFINE c == SecCount(SecCount(FreshLimit.sec, t), t)
  <1>1. SecCount(FreshLimit.sec, t) = [count |-> 1, curTime |-> t]
    BY DEF SecCount, FreshLimit
  <1>2. c.count = 2
    BY <1>1 DEF SecCount
  <1>3. CountUser(FreshLimit, t).sec.count = 2
    BY <1>2 DEF CountUser, FreshLimit
  <1>4. /\ UserSecAccessLimit \in Nat /\ UserMinAccessLimit \in Nat
        /\ UserSecAccessLimit >= 1 /\ UserMinAccessLimit >= 2
    BY AccessAssumption DEF TwoCountsPass
  <1>5. ~(CountUser(FreshLimit, t).sec.count - 1 > UserSecAccessLimit)
        /\ ~(CountUser(FreshLimit, t).sec.count > UserMinAccessLimit)
    BY <1>3, <1>4
  <1>6. QED
    BY <1>5 DEF Excessive

LEMMA JustifiedStep ==
    TwoCountsPass /\ SpamInv /\ SpamInv' /\ Justified /\ [Next]_accessVars => Justified'
  <1> SUFFICES ASSUME TwoCountsPass, SpamInv, SpamInv', Justified, [Next]_accessVars
               PROVE  Justified'
    OBVIOUS
  <1>1. SpamTypes /\ CleanInv /\ SpamTypes' /\ CleanInv' /\ \A a \in Addrs : LimitInv(a)'
    BY DEF SpamInv
  <1>2. (\A i \in 1 .. Len(accesses) :
            Just(i, accesses[i].user, accesses[i].addr, accesses[i].time, accesses[i].ok))'
           => Justified'
    BY JustMeans, PTL
  <1>3. ASSUME \A i \in 1 .. Len(accesses') : \A u, a, t, ok :
                  accesses'[i].user = u /\ accesses'[i].addr = a /\ accesses'[i].time = t
                      /\ accesses'[i].ok = ok => Just(i, u, a, t, ok)'
        PROVE  Justified'
    BY <1>2, <1>3
  <1>4. CASE Next
    <2>1. PICK r \in Access :
             /\ r.user \in Users /\ r.addr \in Addrs /\ r.time \in Nat
             /\ accesses' = Append(accesses, r) /\ UNCHANGED blackList
             /\ \/ r.user \in blackList.ids /\ ~r.ok /\ UNCHANGED ipLimitMap
                \/ /\ r.user \notin blackList.ids
                   /\ r.ok <=> /\ r.addr \notin blackList.ips
                               /\ ~Excessive(CountUser(UserEntry(r.user), r.time),
                                             CountIp(ipLimitMap[r.addr], r.time))
                   /\ ipLimitMap' = [ipLimitMap EXCEPT
                          ![r.addr] = CountIp(ipLimitMap[r.addr], r.time)]
      BY <1>1, <1>4, SpamActs
    <2>2. PICK n \in Nat : n = Len(accesses)
      BY <1>1, <2>1, AccessGrows
    <2>3. /\ Len(accesses') = n + 1 /\ accesses'[n + 1] = r
          /\ \A i \in 1 .. n : accesses'[i] = accesses[i] /\ accesses[i] \in Access
          /\ \A i \in 1 .. n + 1 : i \in 1 .. n \/ i = n + 1
      BY <1>1, <2>1, <2>2, AccessGrows
    <2>4. ASSUME NEW i \in 1 .. n, NEW u, NEW a, NEW t, NEW ok, Just(i, u, a, t, ok)
          PROVE  Just(i, u, a, t, ok)'
      <3>1. /\ Before(a, t, t, i)' = Before(a, t, t, i)
            /\ Before(a, t - 60, t, i)' = Before(a, t - 60, t, i)
        BY <1>1, <2>1, <2>2, BeforeStays
      <3>2. InOrder(a)' => InOrder(a)
        BY <1>1, <2>1, InOrderStep
      <3>3. QED
        BY <2>1, <2>4, <3>1, <3>2 DEF Just, Reason
    <2>5. ASSUME NEW i \in 1 .. n, NEW u, NEW a, NEW t, NEW ok,
                 accesses'[i].user = u, accesses'[i].addr = a, accesses'[i].time = t,
                 accesses'[i].ok = ok
          PROVE  Just(i, u, a, t, ok)'
      <3>1. Just(i, u, a, t, ok)
        BY <2>2, <2>3, <2>5, JustMeans
      <3>2. QED
        BY <2>4, <3>1
    <2>6. Just(n + 1, r.user, r.addr, r.time, r.ok)'
      <3>1. CASE r.user \in blackList.ids \/ r.addr \in blackList.ips
        BY <2>1, <3>1 DEF Just
      <3>2. CASE ~(r.user \in blackList.ids \/ r.addr \in blackList.ips) /\ r.ok
        BY <2>1, <3>2 DEF Just
      <3>3. CASE ~(r.user \in blackList.ids \/ r.addr \in blackList.ips) /\ ~r.ok
        <4> SUFFICES ASSUME InOrder(r.addr)' PROVE Reason(n + 1, r.addr, r.time)'
          BY <2>1, <3>3 DEF Just
        <4>1. PICK k \in Limit :
                 /\ ipLimitMap'[r.addr] = k
                 /\ InOrder(r.addr)' => /\ SecondAt(r.addr, k.sec.count, k.sec.curTime)'
                                        /\ MinuteAt(r.addr, k.min.count, k.min.curTime)'
          BY <1>1, <2>1 DEF LimitInv
        <4>2. PICK m \in Nat, y \in Nat, ms \in Nat, ys \in Nat :
                 k.min.count = m /\ k.min.curTime = y /\ k.sec.count = ms /\ k.sec.curTime = ys
          BY DEF Limit, Counter
        <4>3. PICK l \in Limit : l = ipLimitMap[r.addr]
          BY <1>1, <2>1 DEF SpamTypes
        <4>4. k = CountIp(l, r.time)
          BY <1>1, <2>1, <3>3, <4>1, <4>3 DEF SpamTypes
        <4>5. ys = r.time /\ r.time - y <= 60
          <5>1. k.min = MinCount(l.min, r.time) /\ k.sec = SecCount(l.sec, r.time)
            BY <4>4 DEF CountIp
          <5>2. l.min \in [count : Nat, curTime : Nat] /\ l.sec \in [count : Nat, curTime : Nat]
            BY DEF Limit, Counter
          <5>3. k.sec.curTime = r.time
            BY <5>1, <5>2 DEF SecCount
          <5>4. r.time - k.min.curTime <= 60
            BY <2>1, <5>1, <5>2 DEF MinCount
          <5>5. QED
            BY <4>2, <5>3, <5>4
        <4>6. ms > IPSecAccessLimit \/ m > IPMinAccessLimit
          <5>1. Excessive(CountUser(FreshLimit, r.time), k)
            BY <1>1, <2>1, <3>3, <4>3, <4>4 DEF UserEntry, CleanInv
          <5>2. QED
            BY <2>1, <4>2, <5>1, UserPasses
        <4>7. SecondAt(r.addr, ms, r.time)' /\ MinuteAt(r.addr, m, y)'
          BY <4>1, <4>2, <4>5
        <4>8. \A i \in From(r.addr)' : accesses'[i].time <= r.time
          BY <1>1, <2>1, <2>2, <2>3, InOrderStep
        <4>9. n + 1 \in Nat /\ n + 1 = Len(accesses')
          BY <2>3
        <4>10. /\ ms <= Cardinality(Before(r.addr, r.time, r.time, n + 1))'
               /\ m <= Cardinality(Before(r.addr, r.time - 60, r.time, n + 1))'
          <5>1. Explained'
            BY <1>1, ExplainsNext
          <5>2. \A N \in Nat : N = Len(accesses') =>
                   /\ ms <= Cardinality(Before(r.addr, r.time, r.time, N)')
                   /\ m <= Cardinality(Before(r.addr, r.time - 60, r.time, N)')
            BY <2>1, <4>5, <4>7, <4>8, <5>1 DEF Explained
          <5>3. QED
            BY <4>9, <5>2
        <4>11. /\ Cardinality(Before(r.addr, r.time, r.time, n + 1))' \in Nat
               /\ Cardinality(Before(r.addr, r.time - 60, r.time, n + 1))' \in Nat
          BY <1>1, BeforeCounts DEF BeforeFinite
        <4>12. QED
          BY <4>6, <4>10, <4>11, TimesNat DEF Reason
      <3>4. QED
        BY <3>1, <3>2, <3>3
    <2>7. QED
      BY <1>3, <2>2, <2>3, <2>5, <2>6
  <1>5. CASE UNCHANGED accessVars
    BY <1>5 DEF accessVars, Justified, InOrder, Counted, During, From
  <1>6. QED
    BY <1>4, <1>5

\* Provided that the limits of a user let the two counts of one request pass:
\* nobody is refused without cause, in any mix of users, addresses and times.
THEOREM JustifiedProved == ASSUME TwoCountsPass PROVE Spec => []Justified
  <1>1. Init => Justified
    BY DEF Init, Justified
  <1>2. SpamInv /\ SpamInv' /\ Justified /\ [Next]_accessVars => Justified'
    BY JustifiedStep
  <1>3. QED
    BY <1>1, <1>2, SpamStart, SpamStep, PTL DEF Spec

-----------------------------------------------------------------------------
(* ------------------------- verdicts and lists -------------------------- *)

\* Every verdict that was given is one SecInfoById gives at its moment.
ToldTrue ==
    /\ clock \in Nat
    /\ offer \in [Items -> Offers \cup {Absent}]
    /\ DOMAIN told = Items
    /\ \A i \in Items : \A v \in told[i] :
          \E t \in Nat, retry \in BOOLEAN : v = Verdict(i, t, retry)

\* What the conditions of SecInfoById, each overwriting those before it,
\* come to.
LEMMA VerdictMeans ==
    ASSUME offer \in [Items -> Offers \cup {Absent}],
           NEW i \in Items, NEW t \in Nat, NEW retry \in BOOLEAN, NEW v,
           v = Verdict(i, t, retry)
    PROVE  /\ v.at = t
           /\ v.code \in {"Success", "NotStart", "AlreadyEnd"} =>
                 /\ offer[i] # Absent /\ offer[i].start \in Nat /\ offer[i].end \in Nat
           /\ v.code = "Success" =>
                 /\ offer[i].status = "Normal"
                 /\ t \in offer[i].start .. offer[i].end
                 /\ v.start <=> t # offer[i].start
           /\ v.code = "NotStart" => t < offer[i].start /\ t <= offer[i].end
           /\ v.code = "AlreadyEnd" => t > offer[i].end
  <1>1. CASE offer[i] = Absent
    BY <1>1 DEF Verdict
  <1>2. CASE offer[i] # Absent
    <2>1. /\ offer[i] \in Offer
          /\ offer[i].start \in Nat /\ offer[i].end \in Nat
          /\ offer[i].status \in {"Normal", "SaleOut", "ForceSaleOut"}
      BY <1>2, FrontAssumption DEF Offer
    <2> DEFINE code == Code(offer[i], t, retry)
    <2> DEFINE given == [code |-> code, at |-> t,
                         start |-> code = "Success" /\ t > offer[i].start,
                         end |-> code = "AlreadyEnd"]
    <2>2. v = given
      BY <1>2 DEF Verdict
    <2>3. /\ code = "Success" => /\ offer[i].status = "Normal"
                                 /\ t \in offer[i].start .. offer[i].end
          /\ code = "NotStart" => t < offer[i].start /\ t <= offer[i].end
          /\ code = "AlreadyEnd" => t > offer[i].end
      BY <2>1 DEF Code
    <2> HIDE DEF code
    <2>4. given.code = code /\ given.at = t /\ (given.start <=> code = "Success" /\ t > offer[i].start)
      OBVIOUS
    <2> HIDE DEF given
    <2>5. v.code = code /\ v.at = t /\ (v.start <=> code = "Success" /\ t > offer[i].start)
      BY <2>2, <2>4, Zenon
    <2>6. v.code = "Success" => (v.start <=> t # offer[i].start)
      BY <2>1, <2>3, <2>5
    <2> QED
      BY <1>2, <2>1, <2>3, <2>5, <2>6
  <1> QED
    BY <1>1, <1>2

LEMMA ToldInitially == FrontInit => ToldTrue
  BY DEF FrontInit, ToldTrue

LEMMA ToldStep == ToldTrue /\ [FrontNext]_frontVars => ToldTrue'
  <1> SUFFICES ASSUME ToldTrue, [FrontNext]_frontVars PROVE ToldTrue'
    OBVIOUS
  <1>1. ASSUME UNCHANGED offer PROVE \A i, t, retry : Verdict(i, t, retry)' = Verdict(i, t, retry)
    BY <1>1 DEF Verdict
  <1>2. ASSUME UNCHANGED <<offer, told>>, clock' \in Nat PROVE ToldTrue'
    BY <1>1, <1>2 DEF ToldTrue
  <1>3. CASE Tick
    BY <1>2, <1>3 DEF Tick, ToldTrue
  <1>4. CASE Refused \/ Undecoded \/ Test \/ Health
    BY <1>2, <1>4 DEF Refused, Undecoded, Test, Health, ToldTrue
  <1>5. ASSUME NEW i \in Items, Info(i) PROVE ToldTrue'
    BY <1>2, <1>5 DEF Info, ToldTrue
  <1>6. ASSUME NEW i \in Items, Kill(i) PROVE ToldTrue'
    <2>1. PICK retry \in BOOLEAN : told' = [told EXCEPT ![i] = @ \cup Timed(Verdict(i, clock, retry))]
      BY <1>6 DEF Kill, Draws
    <2>2. UNCHANGED <<clock, offer>>
      BY <1>6 DEF Kill
    <2> QED
      BY <1>1, <2>1, <2>2 DEF ToldTrue, Timed
  <1>7. ASSUME NEW after \in SUBSET Items, List(after) PROVE ToldTrue'
    <2> DEFINE at(i) == IF i \in after THEN clock + 1 ELSE clock
    <2>1. PICK unlucky : told' = [i \in Items |-> told[i] \cup Timed(Verdict(i, at(i), i \in unlucky))]
      BY <1>7 DEF List
    <2>2. UNCHANGED offer /\ clock' \in Nat
      BY <1>7 DEF List, ToldTrue
    <2>3. \A i \in Items : at(i) \in Nat /\ (i \in unlucky) \in BOOLEAN
      BY DEF ToldTrue
    <2> HIDE DEF at
    <2>4. ASSUME NEW i \in Items, NEW v \in told'[i]
          PROVE  \E t \in Nat, retry \in BOOLEAN : v = Verdict(i, t, retry)
      BY <2>1, <2>3 DEF ToldTrue, Timed
    <2> QED
      BY <1>1, <2>1, <2>2, <2>4 DEF ToldTrue
  <1>8. CASE UNCHANGED frontVars
    BY <1>2, <1>8 DEF frontVars, ToldTrue
  <1> QED
    BY <1>3, <1>4, <1>5, <1>6, <1>7, <1>8 DEF FrontNext

LEMMA ToldInOrder == ToldTrue => SaleInOrder
  <1> SUFFICES ASSUME ToldTrue, NEW i \in Items, NEW v \in told[i], NEW w \in told[i]
               PROVE  /\ v.code = "Success" =>
                            /\ offer[i] # Absent /\ offer[i].status = "Normal"
                            /\ v.at \in offer[i].start .. offer[i].end
                            /\ v.start <=> v.at # offer[i].start
                      /\ v.code = "NotStart" /\ w.code \in {"Success", "AlreadyEnd"} => v.at < w.at
                      /\ v.code = "Success" /\ w.code = "AlreadyEnd" => v.at < w.at
    BY DEF SaleInOrder
  <1>1. PICK t \in Nat, r \in BOOLEAN : v = Verdict(i, t, r)
    BY DEF ToldTrue
  <1>2. PICK u \in Nat, s \in BOOLEAN : w = Verdict(i, u, s)
    BY DEF ToldTrue
  <1>3. offer \in [Items -> Offers \cup {Absent}]
    BY DEF ToldTrue
  <1>4. /\ v.at = t
        /\ v.code \in {"Success", "NotStart", "AlreadyEnd"} =>
              /\ offer[i] # Absent /\ offer[i].start \in Nat /\ offer[i].end \in Nat
        /\ v.code = "Success" =>
              /\ offer[i].status = "Normal"
              /\ t \in offer[i].start .. offer[i].end
              /\ v.start <=> t # offer[i].start
        /\ v.code = "NotStart" => t < offer[i].start /\ t <= offer[i].end
    BY <1>1, <1>3, VerdictMeans
  <1>5. /\ w.at = u
        /\ w.code = "Success" => u \in offer[i].start .. offer[i].end
        /\ w.code = "AlreadyEnd" => u > offer[i].end
    BY <1>2, <1>3, VerdictMeans
  <1> QED
    BY <1>4, <1>5

\* Whoever asks, by whichever route: let through only in the window, "not
\* started" only before, "already ended" only after.
THEOREM SaleOrdered == FrontSpec => []SaleInOrder
  BY ToldInitially, ToldStep, ToldInOrder, PTL DEF FrontSpec

(* ---------------------------- beside sk-admin -------------------------- *)

\* Every row a list showed was judged by the end of the offer sk-app has.
ShownTrue ==
    /\ activities \in Seq(Row)
    /\ \A k \in DOMAIN activities : activities[k].sold =>
          offer[activities[k].item] # Absent /\ activities[k].end = offer[activities[k].item].end
    /\ DOMAIN shown = Items
    /\ \A i \in Items : \A s \in shown[i] :
          /\ offer[i] # Absent
          /\ \E t \in Nat : s.at = t /\ s.status = StatusOf(offer[i], t)

LEMMA DayInitially == DayInit => ToldTrue /\ ShownTrue
  <1> SUFFICES ASSUME DayInit PROVE ShownTrue
    BY ToldInitially DEF DayInit
  <1>1. IsFiniteSet(OnSale)
    BY AdminAssumption, FS_Subset DEF OnSale
  <1>2. Cardinality(OnSale) \in Nat
    BY <1>1, FS_CardinalityType
  <1>3. offer \in [Items -> Offers \cup {Absent}] /\ shown = [i \in Items |-> {}]
    BY DEF DayInit, FrontInit, AdminInit
  <1>4. \A i \in OnSale : i \in Items /\ offer[i] # Absent /\ offer[i].end \in 0 .. Horizon
    BY <1>3, FrontAssumption DEF OnSale, Offer
  <1>5. PICK order \in [1 .. Cardinality(OnSale) -> OnSale] :
           activities = [k \in DOMAIN order |-> [item |-> order[k], end |-> offer[order[k]].end, sold |-> TRUE]]
    BY DEF DayInit, AdminInit
  <1>6. activities \in [1 .. Cardinality(OnSale) -> Row]
    BY <1>4, <1>5 DEF Row
  <1>7. activities \in Seq(Row)
    BY <1>2, <1>6
  <1>8. \A k \in DOMAIN activities : /\ activities[k].item \in OnSale
                                    /\ activities[k].end = offer[activities[k].item].end
    BY <1>5
  <1> QED
    BY <1>3, <1>4, <1>7, <1>8 DEF ShownTrue

LEMMA AdminStep == ToldTrue /\ ShownTrue /\ AdminNext => ToldTrue' /\ ShownTrue'
  <1> SUFFICES ASSUME ToldTrue, ShownTrue, AdminNext PROVE ToldTrue' /\ ShownTrue'
    OBVIOUS
  <1>1. UNCHANGED <<offer, told>> /\ clock' \in Nat
    <2>1. ASSUME AdminRest PROVE UNCHANGED <<offer, told>> /\ clock' \in Nat
      BY <2>1 DEF AdminRest, ToldTrue
    <2>2. ASSUME NEW k \in 0 .. Len(activities), ListActivities(k)
          PROVE  UNCHANGED <<offer, told>> /\ clock' \in Nat
      BY <2>2 DEF ListActivities, ToldTrue
    <2>3. AdminRest \/ \E k \in 0 .. Len(activities) : ListActivities(k)
      BY DEF AdminNext, AdminRefused, AdminUndecoded, AdminHealth, CreateProduct, CreateActivity,
             ListFails, ListProducts
    <2> QED
      BY <2>1, <2>2, <2>3
  <1>2. ToldTrue'
    BY <1>1 DEF ToldTrue, Verdict
  <1>3. ASSUME UNCHANGED <<activities, shown>> PROVE ShownTrue'
    BY <1>1, <1>3 DEF ShownTrue
  <1>4. ASSUME AdminRefused \/ AdminUndecoded \/ AdminHealth \/ CreateProduct \/ ListFails \/ ListProducts
        PROVE  ShownTrue'
    BY <1>3, <1>4 DEF AdminRefused, AdminUndecoded, AdminHealth, CreateProduct, ListFails, ListProducts, adminVars
  <1>5. ASSUME NEW i \in Items, NEW end \in Ends, CreateActivity(i, end) PROVE ShownTrue'
    <2> DEFINE row == [item |-> i, end |-> end, sold |-> FALSE]
    <2>1. row \in Row /\ ~row.sold
      BY AdminAssumption DEF Row
    <2>2. activities' \in {activities, Append(activities, row)} /\ UNCHANGED shown
      BY <1>5 DEF CreateActivity, InsertActivity
    <2> HIDE DEF row
    <2>3. /\ Append(activities, row) \in Seq(Row)
          /\ \A k \in DOMAIN Append(activities, row) :
                \/ k \in DOMAIN activities /\ Append(activities, row)[k] = activities[k]
                \/ Append(activities, row)[k] = row
      BY <2>1 DEF ShownTrue
    <2>4. CASE activities' = Append(activities, row)
      BY <1>1, <2>1, <2>2, <2>3, <2>4 DEF ShownTrue, StatusOf
    <2> QED
      BY <1>3, <2>2, <2>4
  <1>6. ASSUME NEW k \in 0 .. Len(activities), ListActivities(k) PROVE ShownTrue'
    <2> DEFINE at(r) == IF r <= k THEN clock + 1 ELSE clock
    <2> DEFINE seen == [r \in DOMAIN activities |-> [status |-> StatusOf(activities[r], at(r)), at |-> at(r)]]
    <2>1. /\ shown' = [i \in Items |-> shown[i] \cup
                      {seen[r] : r \in {q \in DOMAIN activities : activities[q].sold /\ activities[q].item = i}}]
          /\ UNCHANGED activities
      BY <1>6 DEF ListActivities
    <2>2. \A r \in DOMAIN activities :
             at(r) \in Nat /\ seen[r].at = at(r) /\ seen[r].status = StatusOf(activities[r], at(r))
      BY DEF ToldTrue
    <2> HIDE DEF at, seen
    <2>3. ASSUME NEW i \in Items, NEW s \in shown'[i]
          PROVE  offer[i] # Absent /\ \E t \in Nat : s.at = t /\ s.status = StatusOf(offer[i], t)
      <3>1. CASE s \in shown[i]
        BY <3>1 DEF ShownTrue
      <3>2. CASE s \notin shown[i]
        <4>1. PICK r \in DOMAIN activities : s = seen[r] /\ activities[r].sold /\ activities[r].item = i
          BY <2>1, <3>2
        <4>2. offer[i] # Absent /\ activities[r].end = offer[i].end
          BY <4>1 DEF ShownTrue
        <4> QED
          BY <2>2, <4>1, <4>2 DEF StatusOf
      <3> QED
        BY <3>1, <3>2
    <2> QED
      BY <1>1, <2>1, <2>3 DEF ShownTrue, StatusOf
  <1> QED
    BY <1>2, <1>4, <1>5, <1>6 DEF AdminNext

LEMMA DayStep == ToldTrue /\ ShownTrue /\ [DayNext]_<<frontVars, adminVars>> => ToldTrue' /\ ShownTrue'
  <1> SUFFICES ASSUME ToldTrue, ShownTrue, [DayNext]_<<frontVars, adminVars>> PROVE ToldTrue' /\ ShownTrue'
    OBVIOUS
  <1>1. CASE FrontTurn
    <2>1. UNCHANGED <<activities, shown>> /\ FrontNext
      BY <1>1 DEF FrontTurn
    <2>2. UNCHANGED offer
      BY <2>1 DEF FrontNext, Tick, Refused, Undecoded, Test, Health, Info, Kill, List
    <2> QED
      BY <2>1, <2>2, ToldStep DEF ShownTrue
  <1>2. CASE AdminNext
    BY <1>2, AdminStep
  <1>3. CASE UNCHANGED <<frontVars, adminVars>>
    BY <1>3, ToldStep DEF frontVars, adminVars, ShownTrue
  <1> QED
    BY <1>1, <1>2, <1>3 DEF DayNext

\* What sk-admin shows of an activity and what sk-app says of it never
\* contradict each other about its end.
THEOREM PagesProved == DaySpec => []PagesAgree
  <1>1. ToldTrue /\ ShownTrue => PagesAgree
    <2> SUFFICES ASSUME ToldTrue, ShownTrue, NEW i \in Items, NEW s \in shown[i], NEW v \in told[i]
                 PROVE  /\ s.status = "normal" /\ v.code = "AlreadyEnd" => s.at < v.at
                        /\ s.status = "ended" /\ v.code \in {"Success", "NotStart"} => v.at < s.at
      BY DEF PagesAgree
    <2>1. PICK t \in Nat, r \in BOOLEAN : v = Verdict(i, t, r)
      BY DEF ToldTrue
    <2>2. PICK u \in Nat : s.at = u /\ s.status = StatusOf(offer[i], u)
      BY DEF ShownTrue
    <2>3. offer \in [Items -> Offers \cup {Absent}]
      BY DEF ToldTrue
    <2>4. /\ v.at = t
          /\ v.code \in {"Success", "NotStart", "AlreadyEnd"} => offer[i].end \in Nat
          /\ v.code \in {"Success", "NotStart"} => t <= offer[i].end
          /\ v.code = "AlreadyEnd" => t > offer[i].end
      BY <2>1, <2>3, VerdictMeans
    <2> QED
      BY <2>2, <2>4 DEF StatusOf
  <1> QED
    BY <1>1, DayInitially, DayStep, PTL DEF DaySpec
=============================================================================
