-------------------------- MODULE Registry_proofs ---------------------------
(***************************************************************************)
(* Proofs about what services learn from a registry: the product list in   *)
(* ZooKeeper, for any number of overlapping calls of CreateActivity and of *)
(* services that load it, and the instances in Consul, for any number of   *)
(* instances and of concurrent calls of DiscoverServices.                  *)
(***************************************************************************)
EXTENDS SecCatalog, Discovery, SequenceTheorems, WellFoundedInduction, TLAPS

-----------------------------------------------------------------------------
(* -------------------------- the product list --------------------------- *)

(* Lemmas about the operators *)

LEMMA RangeFacts ==
    ASSUME NEW q \in Seq(Activities), NEW e \in Activities
    PROVE  /\ Range(q) \subseteq Activities
           /\ Range(<<>>) = {}
           /\ Append(q, e) \in Seq(Activities) /\ <<e>> \in Seq(Activities)
           /\ Range(Append(q, e)) = Range(q) \cup {e}
           /\ Range(<<e>>) = {e}
  <1>1. Range(q) \subseteq Activities /\ Range(<<>>) = {}
    BY DEF Range
  <1>2. Range(Append(q, e)) = Range(q) \cup {e}
    <2>1. DOMAIN Append(q, e) = 1..(Len(q) + 1) /\ DOMAIN q = 1..Len(q)
      OBVIOUS
    <2>2. /\ \A i \in 1..Len(q) : Append(q, e)[i] = q[i]
          /\ Append(q, e)[Len(q) + 1] = e
      OBVIOUS
    <2>3. 1..(Len(q) + 1) = 1..Len(q) \cup {Len(q) + 1}
      OBVIOUS
    <2>4. QED
      BY <2>1, <2>2, <2>3 DEF Range
  <1>3. Range(<<e>>) = {e}
    BY DEF Range
  <1>4. QED
    BY <1>1, <1>2, <1>3

\* A nonempty set of indices of a sequence has a greatest element.
LEMMA LastIndex ==
    ASSUME NEW n \in Nat, NEW I \in SUBSET (1..n), I # {}
    PROVE  \E i \in I : \A j \in I : j <= i
  <1> DEFINE T == {k \in Nat : n - k \in I}
  <1>1. T \subseteq Nat /\ T # {}
    <2>1. PICK i \in I : TRUE
      OBVIOUS
    <2>2. n - i \in Nat /\ n - (n - i) = i
      OBVIOUS
    <2>3. QED
      BY <2>1, <2>2
  <1> HIDE DEF T
  <1>2. PICK k \in T : \A l \in T : <<l, k>> \notin OpToRel(<, Nat)
    BY <1>1, WFMin, NatLessThanWellFounded
  <1>3. \A l \in T : ~(l < k)
    BY <1>1, <1>2 DEF OpToRel
  <1>4. \A j \in I : j <= n - k
    <2> SUFFICES ASSUME NEW j \in I, ~(j <= n - k) PROVE FALSE
      OBVIOUS
    <2>1. n - j \in T /\ k \in Nat
      BY DEF T
    <2>2. n - j < k
      BY <2>1
    <2>3. QED
      BY <1>3, <2>1, <2>2
  <1>5. n - k \in I
    BY DEF T
  <1>6. QED
    BY <1>4, <1>5

\* updateSecProductInfo invents nothing.
LEMMA CatalogOfList ==
    ASSUME NEW l \in Seq(Activities), NEW p \in Products
    PROVE  CatalogOf(l)[p] \in Range(l) \cup {NoActivity}
  <1>1. CASE Indices(l, p) = {}
    BY <1>1 DEF CatalogOf
  <1>2. CASE Indices(l, p) # {}
    <2>1. Indices(l, p) \in SUBSET (1..Len(l)) /\ Len(l) \in Nat
      BY DEF Indices
    <2>2. \E i \in Indices(l, p) : \A j \in Indices(l, p) : j <= i
      BY <1>2, <2>1, LastIndex
    <2> DEFINE last == CHOOSE i \in Indices(l, p) : \A j \in Indices(l, p) : j <= i
    <2>3. last \in 1..Len(l)
      BY <2>1, <2>2
    <2>4. CatalogOf(l)[p] = l[last]
      BY <1>2 DEF CatalogOf
    <2> HIDE DEF last
    <2>5. l[last] \in Range(l)
      BY <2>3 DEF Range
    <2>6. QED
      BY <2>4, <2>5
  <1>3. QED
    BY <1>1, <1>2

-----------------------------------------------------------------------------
(* Type correctness *)

\* Every variable of the product list and of its readers and writers keeps
\* its type; a znode that does not exist has no data.
THEOREM CatalogTypeCorrect == Spec => []CatalogTypeOK
  <1> USE DEF znode, call, history, Goto
  <1>1. Init => CatalogTypeOK
    <2>1. <<>> \in Seq(Activities)
      OBVIOUS
    <2>2. QED
      BY <2>1 DEF Init, CatalogTypeOK, Places, NothingSold
  <1>2. CatalogTypeOK /\ [Next]_catalogVars => CatalogTypeOK'
    <2> SUFFICES ASSUME CatalogTypeOK, [Next]_catalogVars PROVE CatalogTypeOK'
      OBVIOUS
    <2>1. ASSUME NEW a \in Activities, InsertRow(a) PROVE CatalogTypeOK'
      BY <2>1 DEF InsertRow, CatalogTypeOK, Places
    <2>2. ASSUME NEW a \in Activities, InsertFail(a) PROVE CatalogTypeOK'
      BY <2>2 DEF InsertFail, CatalogTypeOK, Places
    <2>3. ASSUME NEW a \in Activities, ReadList(a) PROVE CatalogTypeOK'
      <3>1. Append(data, a) \in Seq(Activities)
        BY RangeFacts DEF CatalogTypeOK
      <3>2. QED
        BY <2>3, <3>1 DEF ReadList, CatalogTypeOK, Places
    <2>4. ASSUME NEW a \in Activities, ReadListFail(a) PROVE CatalogTypeOK'
      <3>1. <<a>> \in Seq(Activities)
        BY RangeFacts DEF CatalogTypeOK
      <3>2. QED
        BY <2>4, <3>1 DEF ReadListFail, CatalogTypeOK, Places
    <2>5. ASSUME NEW a \in Activities, TestExists(a) PROVE CatalogTypeOK'
      BY <2>5 DEF TestExists, CatalogTypeOK, Places
    <2>6. ASSUME NEW a \in Activities, SetList(a) \/ CreateList(a)
          PROVE  CatalogTypeOK'
      <3>1. Range(list[a]) \subseteq Activities /\ list[a] \in Seq(Activities)
        BY RangeFacts DEF CatalogTypeOK
      <3>2. CASE SetList(a)
        BY <3>1, <3>2 DEF SetList, Publish, CatalogTypeOK, Places
      <3>3. CASE CreateList(a)
        BY <3>1, <3>3 DEF CreateList, Publish, CatalogTypeOK, Places
      <3>4. QED
        BY <2>6, <3>2, <3>3
    <2>7. ASSUME NEW a \in Activities, WriteFail(a) PROVE CatalogTypeOK'
      BY <2>7 DEF WriteFail, CatalogTypeOK, Places
    <2>8. ASSUME NEW s \in Services, LoadSecConf(s) PROVE CatalogTypeOK'
      <3>1. CatalogOf(data) \in [Products -> Activities \cup {NoActivity}]
        <4>1. data \in Seq(Activities) /\ Range(data) \subseteq Activities
          BY DEF CatalogTypeOK, Range
        <4>2. \A p \in Products : CatalogOf(data)[p] \in Range(data) \cup {NoActivity}
          BY <4>1, CatalogOfList
        <4>3. QED
          BY <4>1, <4>2 DEF CatalogOf
      <3>2. NothingSold \in [Products -> Activities \cup {NoActivity}]
        BY DEF NothingSold
      <3>3. QED
        BY <2>8, <3>1, <3>2 DEF LoadSecConf, CatalogTypeOK
    <2>9. CASE UNCHANGED catalogVars
      BY <2>9 DEF catalogVars, CatalogTypeOK
    <2>10. QED
      BY <2>1, <2>2, <2>3, <2>4, <2>5, <2>6, <2>7, <2>8, <2>9 DEF Next, CreateStep
  <1>3. QED
    BY <1>1, <1>2, PTL DEF Spec

-----------------------------------------------------------------------------
(* Nothing is published or sold without a row in the database *)

\* Lists in the hands of calls, too, only hold activities with a row.
ListsBacked ==
    /\ Range(data) \subseteq rows
    /\ published \subseteq rows
    /\ \A a \in Activities : /\ Range(list[a]) \subseteq rows
                             /\ pc[a] = "read" => a \in rows
    /\ \A s \in Services : Sold(s) \subseteq rows

\* The insert precedes the publication: whatever is published or on sale has
\* its row in the database.
THEOREM PublishedBacked == Spec => []EntriesBacked
  <1> USE DEF znode, call, history, Goto
  <1>1. Init => ListsBacked
    BY DEF Init, ListsBacked, Sold, NothingSold, Range
  <1>2. CatalogTypeOK /\ ListsBacked /\ [Next]_catalogVars => ListsBacked'
    <2> SUFFICES ASSUME CatalogTypeOK, ListsBacked, [Next]_catalogVars
                 PROVE  ListsBacked'
      OBVIOUS
    <2>1. ASSUME NEW a \in Activities, InsertRow(a) PROVE ListsBacked'
      BY <2>1 DEF InsertRow, ListsBacked, CatalogTypeOK, Sold
    <2>2. ASSUME NEW a \in Activities,
                 InsertFail(a) \/ TestExists(a) \/ WriteFail(a)
          PROVE  ListsBacked'
      BY <2>2 DEF InsertFail, TestExists, WriteFail, ListsBacked, CatalogTypeOK, Sold
    <2>3. ASSUME NEW a \in Activities, ReadList(a) \/ ReadListFail(a)
          PROVE  ListsBacked'
      <3>1. Range(list'[a]) \subseteq rows
        <4>1. data \in Seq(Activities) /\ a \in rows
          BY <2>3 DEF ReadList, ReadListFail, ListsBacked, CatalogTypeOK
        <4>2. list'[a] = Append(data, a) \/ list'[a] = <<a>>
          BY <2>3 DEF ReadList, ReadListFail, CatalogTypeOK
        <4>3. Range(Append(data, a)) = Range(data) \cup {a} /\ Range(<<a>>) = {a}
          BY <4>1, RangeFacts
        <4>4. QED
          BY <4>1, <4>2, <4>3 DEF ListsBacked
      <3>2. QED
        BY <2>3, <3>1 DEF ReadList, ReadListFail, ListsBacked, CatalogTypeOK, Sold
    <2>4. ASSUME NEW a \in Activities, SetList(a) \/ CreateList(a)
          PROVE  ListsBacked'
      BY <2>4 DEF SetList, CreateList, Publish, ListsBacked, CatalogTypeOK, Sold
    <2>5. ASSUME NEW s \in Services, LoadSecConf(s) PROVE ListsBacked'
      <3>1. data \in Seq(Activities)
        BY DEF CatalogTypeOK
      <3>2. Range(CatalogOf(data)) \subseteq Range(data) \cup {NoActivity}
        BY <3>1, CatalogOfList DEF CatalogOf, Range
      <3>3. Range(NothingSold) \subseteq {NoActivity}
        BY DEF Range, NothingSold
      <3>4. \A t \in Services : Sold(t)' \subseteq rows
        BY <2>5, <3>2, <3>3 DEF LoadSecConf, ListsBacked, CatalogTypeOK, Sold
      <3>5. QED
        BY <2>5, <3>4 DEF LoadSecConf, ListsBacked
    <2>6. CASE UNCHANGED catalogVars
      BY <2>6 DEF catalogVars, ListsBacked, Sold
    <2>7. QED
      BY <2>1, <2>2, <2>3, <2>4, <2>5, <2>6 DEF Next, CreateStep
  <1>3. ListsBacked => EntriesBacked
    BY DEF ListsBacked, EntriesBacked
  <1>4. QED
    BY <1>1, <1>2, <1>3, CatalogTypeCorrect, PTL DEF Spec

-----------------------------------------------------------------------------
(* Overlapping calls do not undo each other *)

\* While the znode has not been set, the list of a call that has read it
\* still holds everything in it: the only write such a call must fear, a
\* Set, moves the version past the one it will present.
ReadersCurrent ==
    \A a \in Activities :
        readOk[a] /\ pc[a] \in {"exists", "set", "create"} =>
            /\ exists
            /\ version = 0 => Range(data) \subseteq Range(list[a])

\* Unless a call overwrites the list after a failed read, an activity that
\* was once published stays published.
THEOREM PublishedStays == Spec => []NothingLost
  <1> USE DEF znode, call, history, Goto
  <1>1. Init => ReadersCurrent /\ NothingLost
    BY DEF Init, ReadersCurrent, NothingLost
  <1>2. CatalogTypeOK /\ ReadersCurrent /\ NothingLost /\ [Next]_catalogVars
            => ReadersCurrent' /\ NothingLost'
    <2> SUFFICES ASSUME CatalogTypeOK, ReadersCurrent, NothingLost,
                        [Next]_catalogVars
                 PROVE  ReadersCurrent' /\ NothingLost'
      OBVIOUS
    <2>1. ASSUME NEW a \in Activities, InsertRow(a) \/ InsertFail(a) \/ WriteFail(a)
          PROVE  ReadersCurrent' /\ NothingLost'
      BY <2>1 DEF InsertRow, InsertFail, WriteFail, ReadersCurrent, NothingLost,
                  CatalogTypeOK
    <2>2. ASSUME NEW a \in Activities, ReadList(a)
          PROVE  ReadersCurrent' /\ NothingLost'
      <3>1. Range(data) \subseteq Range(list'[a])
        <4>1. data \in Seq(Activities) /\ list'[a] = Append(data, a)
          BY <2>2 DEF ReadList, CatalogTypeOK
        <4>2. Range(Append(data, a)) = Range(data) \cup {a}
          BY <4>1, RangeFacts
        <4>3. QED
          BY <4>1, <4>2
      <3>2. QED
        BY <2>2, <3>1 DEF ReadList, ReadersCurrent, NothingLost, CatalogTypeOK
    <2>3. ASSUME NEW a \in Activities, ReadListFail(a)
          PROVE  ReadersCurrent' /\ NothingLost'
      BY <2>3 DEF ReadListFail, ReadersCurrent, NothingLost, CatalogTypeOK
    <2>4. ASSUME NEW a \in Activities, TestExists(a)
          PROVE  ReadersCurrent' /\ NothingLost'
      BY <2>4 DEF TestExists, ReadersCurrent, NothingLost, CatalogTypeOK
    <2>5. ASSUME NEW a \in Activities, SetList(a)
          PROVE  ReadersCurrent' /\ NothingLost'
      <3>1. version' = 1 /\ exists' = exists
        BY <2>5 DEF SetList
      <3>2. ReadersCurrent'
        BY <2>5, <3>1 DEF SetList, Publish, ReadersCurrent, CatalogTypeOK
      <3>3. ASSUME blind' = {} PROVE blind = {} /\ readOk[a]
        BY <2>5, <3>3 DEF SetList
      <3>4. ASSUME blind' = {} PROVE published' \subseteq Range(data')
        <4>1. Range(data) \subseteq Range(list[a])
          BY <2>5, <3>3, <3>4 DEF SetList, ReadersCurrent
        <4>2. QED
          BY <2>5, <3>3, <3>4, <4>1 DEF SetList, Publish, NothingLost
      <3>5. QED
        BY <3>2, <3>4 DEF NothingLost
    <2>6. ASSUME NEW a \in Activities, CreateList(a)
          PROVE  ReadersCurrent' /\ NothingLost'
      <3>1. data = <<>> /\ Range(data) = {}
        BY <2>6 DEF CreateList, CatalogTypeOK, Range
      <3>2. ReadersCurrent'
        BY <2>6 DEF CreateList, Publish, ReadersCurrent, CatalogTypeOK
      <3>3. NothingLost'
        BY <2>6, <3>1 DEF CreateList, Publish, NothingLost
      <3>4. QED
        BY <3>2, <3>3
    <2>7. ASSUME NEW s \in Services, LoadSecConf(s)
          PROVE  ReadersCurrent' /\ NothingLost'
      BY <2>7 DEF LoadSecConf, ReadersCurrent, NothingLost
    <2>8. CASE UNCHANGED catalogVars
      BY <2>8 DEF catalogVars, ReadersCurrent, NothingLost
    <2>9. QED
      BY <2>1, <2>2, <2>3, <2>4, <2>5, <2>6, <2>7, <2>8 DEF Next, CreateStep
  <1>3. QED
    BY <1>1, <1>2, CatalogTypeCorrect, PTL DEF Spec

-----------------------------------------------------------------------------
(* What a service sells is the list as it was at one moment *)

\* l begins with k.
Begins(k, l) == Len(k) <= Len(l) /\ \A i \in 1..Len(k) : l[i] = k[i]

\* The catalogue c has the last terms of each product in the first n entries.
TermsOf(c, l, n) ==
    \A p \in Products :
        IF \A i \in 1..n : ProductOf[l[i]] # p
        THEN c[p] = NoActivity
        ELSE \E i \in 1..n :
                 /\ ProductOf[l[i]] = p /\ c[p] = l[i]
                 /\ \A j \in 1..n : j > i => ProductOf[l[j]] # p

\* As ReadersCurrent, with the order of the entries.
ReadersExtend ==
    \A a \in Activities :
        readOk[a] /\ pc[a] \in {"exists", "set", "create"} =>
            /\ exists
            /\ version = 0 => Begins(data, list[a])

\* Loading takes the last terms of the whole list.
LEMMA CatalogIsTerms ==
    ASSUME NEW l \in Seq(Activities)
    PROVE  TermsOf(CatalogOf(l), l, Len(l))
  <1> SUFFICES ASSUME NEW p \in Products
               PROVE  IF \A i \in 1..Len(l) : ProductOf[l[i]] # p
                      THEN CatalogOf(l)[p] = NoActivity
                      ELSE \E i \in 1..Len(l) :
                               /\ ProductOf[l[i]] = p /\ CatalogOf(l)[p] = l[i]
                               /\ \A j \in 1..Len(l) : j > i => ProductOf[l[j]] # p
    BY DEF TermsOf
  <1>1. CASE Indices(l, p) = {}
    BY <1>1 DEF CatalogOf, Indices
  <1>2. CASE Indices(l, p) # {}
    <2>1. Indices(l, p) \in SUBSET (1..Len(l)) /\ Len(l) \in Nat
      BY DEF Indices
    <2>2. \E i \in Indices(l, p) : \A j \in Indices(l, p) : j <= i
      BY <1>2, <2>1, LastIndex
    <2> DEFINE last == CHOOSE i \in Indices(l, p) : \A j \in Indices(l, p) : j <= i
    <2>3. last \in Indices(l, p) /\ \A j \in Indices(l, p) : j <= last
      BY <2>2
    <2>4. CatalogOf(l)[p] = l[last]
      BY <1>2 DEF CatalogOf
    <2> HIDE DEF last
    <2>5. last \in 1..Len(l) /\ ProductOf[l[last]] = p
      BY <2>3 DEF Indices
    <2>6. ASSUME NEW j \in 1..Len(l), j > last PROVE ProductOf[l[j]] # p
      <3>1. j \notin Indices(l, p)
        BY <2>1, <2>3, <2>5, <2>6
      <3>2. QED
        BY <3>1 DEF Indices
    <2>7. QED
      BY <2>4, <2>5, <2>6
  <1>3. QED
    BY <1>1, <1>2

\* No terms are those of an empty beginning.
LEMMA NothingIsTerms ==
    ASSUME NEW l
    PROVE  TermsOf(NothingSold, l, 0)
  BY DEF TermsOf, NothingSold

\* A longer list has the same beginnings.
LEMMA TermsKept ==
    ASSUME NEW k \in Seq(Activities), NEW l \in Seq(Activities), Begins(k, l),
           NEW n \in 0..Len(k), NEW c, TermsOf(c, k, n)
    PROVE  n \in 0..Len(l) /\ TermsOf(c, l, n)
  <1>1. Len(k) \in Nat /\ Len(l) \in Nat /\ Len(k) <= Len(l)
    BY DEF Begins
  <1>2. n \in 0..Len(l)
    BY <1>1
  <1>3. \A i \in 1..n : i \in 1..Len(k) /\ l[i] = k[i]
    BY <1>1 DEF Begins
  <1>4. QED
    BY <1>2, <1>3 DEF TermsOf

\* Unless a call overwrites the list after a failed read, every service
\* sells the list as it was at one moment, for any number of calls and
\* services and however they interleave.
THEOREM SnapshotProved == Spec => []SnapshotOfList
  <1> USE DEF znode, call, history, Goto
  <1> DEFINE Snapshots == blind = {} =>
                 \A s \in Services : \E n \in 0..Len(data) : TermsOf(catalog[s], data, n)
  <1>1. Init => ReadersExtend /\ Snapshots
    <2> SUFFICES ASSUME Init PROVE ReadersExtend /\ Snapshots
      OBVIOUS
    <2>1. ReadersExtend
      BY DEF Init, ReadersExtend
    <2>2. ASSUME NEW s \in Services PROVE \E n \in 0..Len(data) : TermsOf(catalog[s], data, n)
      <3>1. catalog[s] = NothingSold /\ 0 \in 0..Len(data)
        BY DEF Init
      <3>2. QED
        BY <3>1, NothingIsTerms
    <2>3. QED
      BY <2>1, <2>2
  <1>2. CatalogTypeOK /\ ReadersExtend /\ Snapshots /\ [Next]_catalogVars
            => ReadersExtend' /\ Snapshots'
    <2> SUFFICES ASSUME CatalogTypeOK, ReadersExtend, Snapshots, [Next]_catalogVars
                 PROVE  ReadersExtend' /\ Snapshots'
      OBVIOUS
    <2>0. data \in Seq(Activities) /\ list \in [Activities -> Seq(Activities)]
      BY DEF CatalogTypeOK
    <2>1. ASSUME NEW a \in Activities, InsertRow(a) \/ InsertFail(a) \/ WriteFail(a) \/ TestExists(a) \/ ReadListFail(a)
          PROVE  ReadersExtend' /\ Snapshots'
      <3>1. UNCHANGED <<data, exists, version, catalog, blind>>
        BY <2>1 DEF InsertRow, InsertFail, WriteFail, TestExists, ReadListFail
      <3>2. ReadersExtend'
        BY <2>1, <3>1 DEF InsertRow, InsertFail, WriteFail, TestExists, ReadListFail, ReadersExtend, CatalogTypeOK
      <3>3. QED
        BY <3>1, <3>2
    <2>2. ASSUME NEW a \in Activities, ReadList(a) PROVE ReadersExtend' /\ Snapshots'
      <3>1. Begins(data, list'[a]) /\ exists
        <4>1. list'[a] = Append(data, a)
          BY <2>0, <2>2 DEF ReadList
        <4>2. QED
          BY <2>0, <2>2, <4>1 DEF ReadList, Begins
      <3>2. ReadersExtend'
        BY <2>2, <3>1 DEF ReadList, ReadersExtend, CatalogTypeOK
      <3>3. QED
        BY <2>2, <3>2 DEF ReadList
    <2>3. ASSUME NEW a \in Activities, SetList(a) PROVE ReadersExtend' /\ Snapshots'
      <3>1. version' = 1 /\ exists' = exists /\ data' = list[a] /\ UNCHANGED <<catalog, list, readOk>>
        BY <2>3 DEF SetList, Publish
      <3>2. ReadersExtend'
        BY <2>3, <3>1 DEF SetList, Publish, ReadersExtend, CatalogTypeOK
      <3>3. ASSUME blind' = {}, NEW s \in Services
            PROVE  \E n \in 0..Len(data') : TermsOf(catalog'[s], data', n)
        <4>1. blind = {} /\ readOk[a]
          BY <2>3, <3>3 DEF SetList
        <4>2. Begins(data, list[a])
          BY <2>3, <4>1 DEF SetList, ReadersExtend
        <4>3. PICK n \in 0..Len(data) : TermsOf(catalog[s], data, n)
          BY <4>1
        <4>4. n \in 0..Len(list[a]) /\ TermsOf(catalog[s], list[a], n)
          BY <2>0, <4>2, <4>3, TermsKept
        <4>5. QED
          BY <3>1, <4>4
      <3>4. QED
        BY <3>2, <3>3
    <2>4. ASSUME NEW a \in Activities, CreateList(a) PROVE ReadersExtend' /\ Snapshots'
      <3>1. data = <<>> /\ data' = list[a] /\ UNCHANGED <<catalog, blind>>
        BY <2>4 DEF CreateList, Publish, CatalogTypeOK
      <3>2. ReadersExtend'
        BY <2>4 DEF CreateList, Publish, ReadersExtend, CatalogTypeOK
      <3>3. Begins(data, list[a])
        BY <2>0, <3>1 DEF Begins
      <3>4. ASSUME blind' = {}, NEW s \in Services
            PROVE  \E n \in 0..Len(data') : TermsOf(catalog'[s], data', n)
        <4>1. PICK n \in 0..Len(data) : TermsOf(catalog[s], data, n)
          BY <3>1, <3>4
        <4>2. n \in 0..Len(list[a]) /\ TermsOf(catalog[s], list[a], n)
          BY <2>0, <3>3, <4>1, TermsKept
        <4>3. QED
          BY <3>1, <4>2
      <3>5. QED
        BY <3>2, <3>4
    <2>5. ASSUME NEW t \in Services, LoadSecConf(t) PROVE ReadersExtend' /\ Snapshots'
      <3>1. ReadersExtend'
        BY <2>5 DEF LoadSecConf, ReadersExtend
      <3>2. ASSUME blind' = {}, NEW s \in Services
            PROVE  \E n \in 0..Len(data') : TermsOf(catalog'[s], data', n)
        <4>1. blind = {} /\ data' = data
          BY <2>5, <3>2 DEF LoadSecConf
        <4>2. \/ catalog'[s] = catalog[s]
              \/ catalog'[s] = CatalogOf(data)
              \/ catalog'[s] = NothingSold
          BY <2>5 DEF LoadSecConf, CatalogTypeOK
        <4>3. Len(data) \in Nat /\ 0 \in 0..Len(data) /\ Len(data) \in 0..Len(data)
          BY <2>0
        <4>4. TermsOf(CatalogOf(data), data, Len(data)) /\ TermsOf(NothingSold, data, 0)
          BY <2>0, CatalogIsTerms, NothingIsTerms
        <4>5. \E n \in 0..Len(data) : TermsOf(catalog[s], data, n)
          BY <4>1
        <4>6. \E n \in 0..Len(data) : TermsOf(catalog'[s], data, n)
          BY <4>2, <4>3, <4>4, <4>5
        <4>7. QED
          BY <4>1, <4>6
      <3>3. QED
        BY <3>1, <3>2
    <2>6. CASE UNCHANGED catalogVars
      BY <2>6 DEF catalogVars, ReadersExtend
    <2>7. QED
      BY <2>1, <2>2, <2>3, <2>4, <2>5, <2>6 DEF Next, CreateStep
  <1>3. Snapshots => SnapshotOfList
    BY DEF SnapshotOfList, TermsOf
  <1>4. QED
    BY <1>1, <1>2, <1>3, CatalogTypeCorrect, PTL DEF Spec

-----------------------------------------------------------------------------
(* -------------------------- service instances -------------------------- *)

LEMMA ListsDiffer == \A L \in SUBSET Instances : L # NoList
  BY DiscoveryAssumption DEF NoList

\* A caller that stores has a list to store.
Answers == \A c \in Callers : at[c] = "storing" => fetched[c] \in SUBSET Instances

\* Type correctness of the cache, its lock, its watch and Consul; the lock is
\* held by exactly the caller that is between Lock and its return.
THEOREM DiscoveryTypeCorrect == DiscoverySpec => [](DiscoveryTypeOK /\ Answers)
  <1> USE DEF consul, callers, watch, Proceed, Unlock, Report
  <1>1. DiscoveryInit => DiscoveryTypeOK /\ Answers
    <2> SUFFICES ASSUME DiscoveryInit PROVE DiscoveryTypeOK /\ Answers
      OBVIOUS
    <2>1. NoList \in Lists /\ starts \in 0..MaxStarts
      BY DiscoveryAssumption DEF DiscoveryInit, Lists
    <2>2. instancesMap = NoList /\ handling = NoList
      BY DEF DiscoveryInit
    <2>3. fetched \in [Callers -> Lists] /\ at \in [Callers -> CallerPlaces]
      BY <2>1 DEF DiscoveryInit, CallerPlaces
    <2>4. \A c \in Callers : mutex # c /\ at[c] = "idle"
      BY DiscoveryAssumption DEF DiscoveryInit
    <2>5. /\ process \in [Instances -> {"new", "up", "down"}]
          /\ health \in [Instances -> Healths]
      BY DEF DiscoveryInit, Healths
    <2>6. mutex = NoCaller /\ watches = 0 /\ news = FALSE /\ overtaken = FALSE
      BY DEF DiscoveryInit
    <2>7. QED
      BY <2>1, <2>2, <2>3, <2>4, <2>5, <2>6 DEF DiscoveryTypeOK, Answers
  <1>2. DiscoveryTypeOK /\ Answers /\ [DiscoveryNext]_discoveryVars
            => DiscoveryTypeOK' /\ Answers'
    <2> SUFFICES ASSUME DiscoveryTypeOK, Answers, [DiscoveryNext]_discoveryVars
                 PROVE  DiscoveryTypeOK' /\ Answers'
      OBVIOUS
    <2> USE DEF DiscoveryTypeOK, Answers
    <2>1. ASSUME NEW i \in Instances, ProcessStep(i)
          PROVE  DiscoveryTypeOK' /\ Answers'
      <3>1. starts < MaxStarts => starts + 1 \in 0..MaxStarts
        BY DiscoveryAssumption
      <3>2. QED
        BY <2>1, <3>1 DEF ProcessStep, Start, Stop, Vanish, Healths
    <2>2. ASSUME NEW i \in Instances, ConsulStep(i)
          PROVE  DiscoveryTypeOK' /\ Answers'
      BY <2>2 DEF ConsulStep, CheckPass, CheckFail, Reap, Healths
    <2>3. ASSUME NEW c \in Callers, Miss(c) \/ Lock(c) \/ FoundLater(c)
          PROVE  DiscoveryTypeOK' /\ Answers'
      BY <2>3, DiscoveryAssumption DEF Miss, Lock, FoundLater, CallerPlaces
    <2>4. ASSUME NEW c \in Callers, StartWatch(c) \/ Ask(c)
          PROVE  DiscoveryTypeOK' /\ Answers'
      <3>1. CASE StartWatch(c)
        BY <3>1 DEF StartWatch, CallerPlaces
      <3>2. CASE Ask(c)
        <4>1. Registered \in SUBSET Instances /\ Registered \in Lists
          BY DEF Registered, Lists
        <4>2. fetched' \in [Callers -> Lists] /\ fetched'[c] = Registered
          BY <3>2, <4>1 DEF Ask
        <4>3. QED
          BY <3>2, <4>1, <4>2 DEF Ask, CallerPlaces
      <3>3. QED
        BY <2>4, <3>1, <3>2
    <2>5. ASSUME NEW c \in Callers, AskFail(c) \/ Store(c)
          PROVE  DiscoveryTypeOK' /\ Answers'
      BY <2>5, DiscoveryAssumption DEF AskFail, Store, CallerPlaces, Lists
    <2>6. CASE WatchStep
      BY <2>6 DEF WatchStep, WatchPoll, WatchStore, Lists, Passing
    <2>7. CASE UNCHANGED discoveryVars
      BY <2>7 DEF discoveryVars
    <2>8. QED
      BY <2>1, <2>2, <2>3, <2>4, <2>5, <2>6, <2>7 DEF DiscoveryNext, CallerStep
  <1>3. QED
    BY <1>1, <1>2, PTL DEF DiscoverySpec

-----------------------------------------------------------------------------
(* One watch, and what it guarantees *)

Asking == {c \in Callers : at[c] \in {"asking", "storing"}}

\* The watch exists as soon as a list or a first call does, and while there
\* is no list the call that has started it is still under way: so a second
\* call cannot start another one under the lock.
WatchInv ==
    /\ watches <= 1
    /\ watches = 0 => /\ instancesMap = NoList /\ handling = NoList
                      /\ Asking = {} /\ ~overtaken
    /\ watches > 0 /\ instancesMap = NoList => Asking # {}
    /\ overtaken => instancesMap # NoList /\ Asking = {}

\* What the watch is about to store is current unless Consul has changed.
HandlingCurrent ==
    watches > 0 /\ ~news /\ handling # NoList => handling = Passing

CacheInv == WatchInv /\ HandlingCurrent /\ FreshOrOvertaken

LEMMA CacheInvStep ==
    DiscoveryTypeOK /\ Answers /\ CacheInv /\ [DiscoveryNext]_discoveryVars => CacheInv'
  <1> USE DEF consul, callers, watch, Proceed, Unlock, Report
  <1> SUFFICES ASSUME DiscoveryTypeOK, Answers, CacheInv, [DiscoveryNext]_discoveryVars
               PROVE  CacheInv'
    OBVIOUS
  <1> USE DEF DiscoveryTypeOK, Answers, CacheInv, WatchInv, HandlingCurrent,
              FreshOrOvertaken
  <1>1. ASSUME NEW i \in Instances, ProcessStep(i) PROVE CacheInv'
    <2>1. /\ instancesMap' = instancesMap /\ handling' = handling
          /\ watches' = watches /\ overtaken' = overtaken /\ Asking' = Asking
          /\ news' \/ (news' = news /\ Passing' = Passing)
      BY <1>1 DEF ProcessStep, Start, Stop, Vanish, Asking, Passing
    <2>2. QED
      BY <2>1
  <1>2. ASSUME NEW i \in Instances, ConsulStep(i) PROVE CacheInv'
    <2>1. /\ instancesMap' = instancesMap /\ handling' = handling
          /\ watches' = watches /\ overtaken' = overtaken /\ Asking' = Asking
          /\ news'
      BY <1>2 DEF ConsulStep, CheckPass, CheckFail, Reap, Asking
    <2>2. QED
      BY <2>1
  <1>3. ASSUME NEW c \in Callers, Miss(c) \/ Lock(c) \/ FoundLater(c)
        PROVE  CacheInv'
    <2>1. /\ UNCHANGED <<instancesMap, handling, watches, overtaken, news>>
          /\ Asking' = Asking /\ Passing' = Passing
      BY <1>3 DEF Miss, Lock, FoundLater, Asking, Passing
    <2>2. QED
      BY <2>1
  <1>4. ASSUME NEW c \in Callers, StartWatch(c) PROVE CacheInv'
    <2>1. Asking = {}
      BY <1>4 DEF StartWatch, Asking
    <2>2. watches = 0
      BY <1>4, <2>1 DEF StartWatch
    <2>3. c \in Asking' /\ watches' = 1 /\ news' /\ ~overtaken'
      BY <1>4, <2>2 DEF StartWatch, Asking
    <2>4. QED
      BY <1>4, <2>3
  <1>5. ASSUME NEW c \in Callers, Ask(c) PROVE CacheInv'
    <2>1. Asking' = Asking /\ Passing' = Passing
      BY <1>5 DEF Ask, Asking, Passing
    <2>2. QED
      BY <1>5, <2>1 DEF Ask
  <1>6. ASSUME NEW c \in Callers, AskFail(c) \/ Store(c) PROVE CacheInv'
    <2>1. c \in Asking /\ Asking' = {} /\ Passing' = Passing
      BY <1>6 DEF AskFail, Store, Asking, Passing
    <2>2. PICK L \in SUBSET Instances :
              instancesMap' = L /\ overtaken' = (instancesMap \notin {NoList, L})
      BY <1>6 DEF AskFail, Store
    <2>3. UNCHANGED <<watches, news, handling>>
      BY <1>6 DEF AskFail, Store
    <2>4. instancesMap' # NoList /\ watches > 0 /\ ~overtaken
      BY <2>1, <2>2, ListsDiffer
    <2>5. Passing # NoList
      BY ListsDiffer DEF Passing
    <2>6. WatchInv' /\ HandlingCurrent'
      BY <2>1, <2>2, <2>3, <2>4
    <2>7. FreshOrOvertaken'
      BY <2>1, <2>2, <2>3, <2>4, <2>5
    <2>8. QED
      BY <2>6, <2>7
  <1>7. CASE WatchPoll
    <2>1. Passing # NoList
      BY ListsDiffer DEF Passing
    <2>2. handling' = Passing /\ Passing' = Passing /\ Asking' = Asking /\ watches > 0
      BY <1>7 DEF WatchPoll, Passing, Asking
    <2>3. QED
      BY <1>7, <2>1, <2>2 DEF WatchPoll
  <1>8. CASE WatchStore
    <2>1. Passing' = Passing /\ Asking' = Asking /\ watches > 0
      BY <1>8 DEF WatchStore, Passing, Asking
    <2>2. QED
      BY <1>8, <2>1 DEF WatchStore
  <1>9. CASE UNCHANGED discoveryVars
    <2>1. Passing' = Passing /\ Asking' = Asking
      BY <1>9 DEF discoveryVars, Passing, Asking
    <2>2. QED
      BY <1>9, <2>1 DEF discoveryVars
  <1>10. QED
    BY <1>1, <1>2, <1>3, <1>4, <1>5, <1>6, <1>7, <1>8, <1>9
       DEF DiscoveryNext, CallerStep, WatchStep

LEMMA CacheInvariant == DiscoverySpec => []CacheInv
  <1>1. DiscoveryInit => CacheInv
    BY DEF DiscoveryInit, CacheInv, WatchInv, HandlingCurrent, FreshOrOvertaken, Asking
  <1>2. QED
    BY <1>1, CacheInvStep, DiscoveryTypeCorrect, PTL DEF DiscoverySpec

\* However many calls miss the cache at once, one watch is started.
THEOREM WatchedOnce == DiscoverySpec => []OneWatch
  <1>1. CacheInv => OneWatch
    BY DEF CacheInv, WatchInv, OneWatch
  <1>2. QED
    BY <1>1, CacheInvariant, PTL

\* A cache the watch has caught up with is current or was overtaken by the
\* answer of the first call.
THEOREM CacheFresh == DiscoverySpec => []FreshOrOvertaken
  <1>1. CacheInv => FreshOrOvertaken
    BY DEF CacheInv
  <1>2. QED
    BY <1>1, CacheInvariant, PTL
=============================================================================
