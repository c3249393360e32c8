------------------------ MODULE SecKillCore_proofs -------------------------
(***************************************************************************)
(* Proofs about the sk-core service, for any number of goroutines, users   *)
(* and products.                                                           *)
(***************************************************************************)
EXTENDS SecKillCore, Counting, FiniteSetTheorems, TLAPS

-----------------------------------------------------------------------------
(* Type correctness *)

LEMMA TypeInit == Init => TypeOK
  <1> SUFFICES ASSUME Init PROVE TypeOK
    OBVIOUS
  <1>1. /\ <<>> \in Seq(Request) /\ <<>> \in Seq(Result) /\ Len(<<>>) = 0
    OBVIOUS
  <1>2. QED
    BY <1>1, BoundsAssumption DEF Init, FreshMemory, TypeOK, PCs, Codes

\* What a non-empty queue yields.
LEMMA HeadTail ==
    ASSUME NEW S, NEW q \in Seq(S), q # <<>>
    PROVE  /\ Head(q) \in S
           /\ Tail(q) \in Seq(S)
           /\ Len(Tail(q)) = Len(q) - 1
           /\ Len(q) \in Nat \ {0}
  OBVIOUS

LEMMA AppendBounded ==
    ASSUME NEW S, NEW q \in Seq(S), NEW e \in S
    PROVE  /\ Append(q, e) \in Seq(S)
           /\ Len(Append(q, e)) = Len(q) + 1
           /\ Len(q) \in Nat
  OBVIOUS

\* A handler at work holds a request.
LEMMA HandlerHasRequest ==
    ASSUME TypeOK, NEW h \in Handlers, pc[h] # "idle"
    PROVE  /\ req[h] \in Request
           /\ req[h].user \in Users
           /\ req[h].product \in Products
           /\ code[h] \in Codes => ResultOf(h) \in Result
  BY DEF TypeOK, Request, Result, ResultOf

\* The comparisons are total: what is not below the bound has reached it.
LEMMA Comparisons ==
    ASSUME TypeOK, NEW u \in Users, NEW p \in Products
    PROVE  /\ StockLeft(p) <=> sold[p] < Total[p]
           /\ ~StockLeft(p) <=> sold[p] >= Total[p]
           /\ LimitReached(u, p) <=> history[u][p] >= OnePersonBuyLimit[p]
           /\ ~LimitReached(u, p) <=> history[u][p] < OnePersonBuyLimit[p]
  <1>1. /\ sold[p] \in Nat /\ Total[p] \in Nat
        /\ history[u][p] \in Nat /\ OnePersonBuyLimit[p] \in Nat
    BY StockAssumption DEF TypeOK
  <1>2. QED
    BY <1>1 DEF StockLeft, LimitReached

LEMMA TypeReader ==
    ASSUME TypeOK, NEW r \in Readers, ReaderStep(r)
    PROVE  TypeOK'
  <1> USE DEF queues, chans, ends, frame, catalog, ledger
  <1>1. CASE ReaderPop(r)
    <2>1. Head(proxy2layer) \in Request /\ Tail(proxy2layer) \in Seq(Request)
      BY <1>1, HeadTail DEF ReaderPop, TypeOK
    <2>2. QED
      BY <1>1, <2>1 DEF ReaderPop, TypeOK
  <1>2. CASE ReaderSend(r)
    <2>1. reading[r] \in Request
      BY <1>2 DEF ReaderSend, TypeOK
    <2>2. /\ Append(read2handle, reading[r]) \in Seq(Request)
          /\ Len(Append(read2handle, reading[r])) <= ChanCap
      BY <1>2, <2>1, AppendBounded, BoundsAssumption DEF ReaderSend, Room, TypeOK
    <2>3. QED
      BY <1>2, <2>2 DEF ReaderSend, TypeOK
  <1>3. CASE ReaderDrop(r)
    BY <1>3 DEF ReaderDrop, TypeOK
  <1>4. QED
    BY <1>1, <1>2, <1>3 DEF ReaderStep

LEMMA TypeWriter ==
    ASSUME TypeOK, NEW w \in Writers, WriterStep(w)
    PROVE  TypeOK'
  <1> USE DEF queues, chans, ends, frame, catalog, ledger
  <1>1. CASE WriterReceive(w)
    <2>1. /\ Head(handle2write) \in Result /\ Tail(handle2write) \in Seq(Result)
          /\ Len(Tail(handle2write)) <= ChanCap
      BY <1>1, HeadTail, BoundsAssumption DEF WriterReceive, TypeOK
    <2>2. QED
      BY <1>1, <2>1 DEF WriterReceive, TypeOK
  <1>2. CASE WriterPush(w)
    <2>1. Append(layer2proxy, writing[w]) \in Seq(Result)
      BY <1>2, AppendBounded DEF WriterPush, TypeOK
    <2>2. QED
      BY <1>2, <2>1 DEF WriterPush, TypeOK
  <1>3. CASE WriterFail(w)
    BY <1>3 DEF WriterFail, TypeOK
  <1>4. QED
    BY <1>1, <1>2, <1>3 DEF WriterStep

LEMMA TypeHandler ==
    ASSUME TypeOK, NEW h \in Handlers, HandlerStep(h)
    PROVE  TypeOK'
  <1> USE DEF queues, chans, ends, frame, catalog, ledger
  <1>1. CASE HandlerReceive(h)
    <2>1. /\ Head(read2handle) \in Request /\ Tail(read2handle) \in Seq(Request)
          /\ Len(Tail(read2handle)) <= ChanCap
      BY <1>1, HeadTail, BoundsAssumption DEF HandlerReceive, TypeOK
    <2>2. QED
      BY <1>1, <2>1 DEF HandlerReceive, TypeOK, PCs
  <1>2. CASE Lookup(h)
    BY <1>2 DEF Lookup, Refuse, Goto, TypeOK, PCs, Codes
  <1>3. CASE CheckHistory(h)
    BY <1>3 DEF CheckHistory, LimitReached, Refuse, Goto, TypeOK, PCs, Codes
  <1>4. CASE CheckStock(h)
    BY <1>4 DEF CheckStock, StockLeft, Refuse, Goto, TypeOK, PCs, Codes
  <1>5. CASE MarkSoldout(h)
    BY <1>5 DEF MarkSoldout, Refuse, TypeOK, PCs, Codes
  <1>6. CASE RecordHistory(h)
    <2>1. req[h].user \in Users /\ req[h].product \in Products
      BY <1>6, HandlerHasRequest DEF RecordHistory
    <2>2. history' \in [Users -> [Products -> Nat]]
      BY <1>6, <2>1 DEF RecordHistory, TypeOK
    <2>3. QED
      BY <1>6, <2>2 DEF RecordHistory, Goto, TypeOK, PCs
  <1>7. CASE CountSale(h)
    <2>1. req[h].product \in Products
      BY <1>7, HandlerHasRequest DEF CountSale
    <2>2. sold' \in [Products -> Nat] /\ everSold' \in [Products -> Nat]
      BY <1>7, <2>1 DEF CountSale, TypeOK
    <2>3. QED
      BY <1>7, <2>2 DEF CountSale, TypeOK, PCs, Codes
  <1>8. CASE HandlerSend(h)
    <2>1. ResultOf(h) \in Result
      BY <1>8, HandlerHasRequest DEF HandlerSend, TypeOK
    <2>2. /\ Append(handle2write, ResultOf(h)) \in Seq(Result)
          /\ Len(Append(handle2write, ResultOf(h))) <= ChanCap
      BY <1>8, <2>1, AppendBounded, BoundsAssumption DEF HandlerSend, Room, TypeOK
    <2>3. QED
      BY <1>8, <2>2 DEF HandlerSend, TypeOK, PCs, Codes
  <1>9. CASE HandlerDrop(h)
    BY <1>9 DEF HandlerDrop, TypeOK, PCs, Codes
  <1>10. QED
    BY <1>1, <1>2, <1>3, <1>4, <1>5, <1>6, <1>7, <1>8, <1>9 DEF HandlerStep

LEMMA TypeStep == TypeOK /\ [Next]_vars => TypeOK'
  <1> SUFFICES ASSUME TypeOK, [Next]_vars PROVE TypeOK'
    OBVIOUS
  <1> USE DEF queues, chans, ends, frame, catalog, ledger
  <1>1. ASSUME NEW list \in {Listed, {}}, LoadSecConf(list) PROVE TypeOK'
    BY <1>1 DEF LoadSecConf, TypeOK
  <1>2. ASSUME NEW r \in Readers, ReaderStep(r) PROVE TypeOK'
    BY <1>2, TypeReader
  <1>3. ASSUME NEW h \in Handlers, HandlerStep(h) PROVE TypeOK'
    BY <1>3, TypeHandler
  <1>4. ASSUME NEW w \in Writers, WriterStep(w) PROVE TypeOK'
    BY <1>4, TypeWriter
  <1>5. CASE Restart
    <2>1. <<>> \in Seq(Request) /\ <<>> \in Seq(Result) /\ Len(<<>>) = 0
      OBVIOUS
    <2>2. QED
      BY <1>5, <2>1, BoundsAssumption DEF Restart, FreshMemory, TypeOK, PCs, Codes
  <1>6. ASSUME NEW u \in Users, NEW p \in Products, Arrive(u, p) PROVE TypeOK'
    <2>1. Append(proxy2layer, [user |-> u, product |-> p]) \in Seq(Request)
      BY AppendBounded DEF TypeOK, Request
    <2>2. QED
      BY <1>6, <2>1 DEF Arrive, TypeOK
  <1>7. CASE Collect
    <2>1. Tail(layer2proxy) \in Seq(Result)
      BY <1>7, HeadTail DEF Collect, TypeOK
    <2>2. QED
      BY <1>7, <2>1 DEF Collect, TypeOK
  <1>8. CASE UNCHANGED vars
    BY <1>8 DEF vars, TypeOK
  <1>9. QED
    BY <1>1, <1>2, <1>3, <1>4, <1>5, <1>6, <1>7, <1>8 DEF Next, CoreNext, EnvNext

\* Every variable keeps its type in every behaviour of the service.
THEOREM TypeCorrect == Spec => []TypeOK
  BY TypeInit, TypeStep, PTL DEF Spec

-----------------------------------------------------------------------------
(* The oversell margin *)

\* A set of handlers is no larger than a superset of it, nor than Handlers.
LEMMA HandlerSets ==
    ASSUME NEW S \in SUBSET Handlers, NEW T \in SUBSET S
    PROVE  /\ IsFiniteSet(S)
           /\ Cardinality(T) \in Nat /\ Cardinality(S) \in Nat
           /\ Cardinality(Handlers) \in Nat /\ Cardinality(Handlers) >= 1
           /\ Cardinality(T) <= Cardinality(S)
           /\ Cardinality(S) <= Cardinality(Handlers)
  <1>1. IsFiniteSet(Handlers) /\ Handlers # {}
    BY HandlersAssumption
  <1>2. IsFiniteSet(S) /\ Cardinality(S) <= Cardinality(Handlers)
    BY <1>1, FS_Subset
  <1>3. IsFiniteSet(T) /\ Cardinality(T) <= Cardinality(S)
    BY <1>2, FS_Subset
  <1>4. /\ Cardinality(T) \in Nat /\ Cardinality(S) \in Nat
        /\ Cardinality(Handlers) \in Nat
    BY <1>1, <1>2, <1>3, FS_CardinalityType
  <1>5. Cardinality(Handlers) # 0
    BY <1>1, FS_EmptySet
  <1>6. QED
    BY <1>2, <1>3, <1>4, <1>5

\* What a step can do to the handlers past the stock check: nothing but
\* lose some, gain one while units are left, or turn one into a sale.
PastShrinks(p) == sold'[p] = sold[p] /\ Past(p)' \subseteq Past(p)
PastGrows(p)   == sold'[p] = sold[p] /\ sold[p] < Total[p]
PastSells(p)   == \E h \in Past(p) : /\ sold'[p] = sold[p] + 1
                                     /\ Past(p)' = Past(p) \ {h}
PastForgets(p) == sold'[p] = 0 /\ Past(p)' = {}

LEMMA PastHandler ==
    ASSUME TypeOK, NEW h \in Handlers, HandlerStep(h), NEW p \in Products
    PROVE  PastShrinks(p) \/ PastGrows(p) \/ PastSells(p)
  <1> USE DEF ledger
  <1>1. CASE HandlerReceive(h)
    BY <1>1 DEF HandlerReceive, PastShrinks, Past, TypeOK
  <1>2. CASE Lookup(h)
    BY <1>2 DEF Lookup, Refuse, Goto, PastShrinks, Past, TypeOK
  <1>3. CASE CheckHistory(h)
    BY <1>3 DEF CheckHistory, LimitReached, Refuse, Goto, PastShrinks, Past, TypeOK
  <1>4. CASE CheckStock(h)
    <2>1. CASE req[h].product = p /\ sold[p] < Total[p]
      BY <1>4, <2>1 DEF CheckStock, StockLeft, PastGrows
    <2>2. CASE req[h].product = p /\ ~(sold[p] < Total[p])
      BY <1>4, <2>2 DEF CheckStock, StockLeft, Refuse, Goto, PastShrinks, Past, TypeOK
    <2>3. CASE req[h].product # p
      BY <1>4, <2>3 DEF CheckStock, StockLeft, Refuse, Goto, PastShrinks, Past, TypeOK
    <2>4. QED
      BY <2>1, <2>2, <2>3
  <1>5. CASE MarkSoldout(h)
    BY <1>5 DEF MarkSoldout, Refuse, PastShrinks, Past, TypeOK
  <1>6. CASE RecordHistory(h)
    BY <1>6 DEF RecordHistory, Goto, PastShrinks, Past, TypeOK
  <1>7. CASE CountSale(h)
    <2>1. CASE req[h].product = p
      BY <1>7, <2>1 DEF CountSale, PastSells, Past, TypeOK
    <2>2. CASE req[h].product # p
      BY <1>7, <2>2 DEF CountSale, PastShrinks, Past, TypeOK
    <2>3. QED
      BY <2>1, <2>2
  <1>8. CASE HandlerSend(h)
    BY <1>8 DEF HandlerSend, PastShrinks, Past, TypeOK
  <1>9. CASE HandlerDrop(h)
    BY <1>9 DEF HandlerDrop, PastShrinks, Past, TypeOK
  <1>10. QED
    BY <1>1, <1>2, <1>3, <1>4, <1>5, <1>6, <1>7, <1>8, <1>9 DEF HandlerStep

\* Only handlers and a restart touch the ledgers and the handlers' frames.
LEMMA OtherSteps ==
    ASSUME [Next]_vars
    PROVE  \/ \E h \in Handlers : HandlerStep(h)
           \/ Restart
           \/ UNCHANGED <<frame, ledger, status, restarts>>
  <1> USE DEF queues, chans, ends, frame, catalog, ledger
  <1>1. CASE \E list \in {Listed, {}} : LoadSecConf(list)
    BY <1>1 DEF LoadSecConf
  <1>2. CASE \E r \in Readers : ReaderStep(r)
    BY <1>2 DEF ReaderStep, ReaderPop, ReaderSend, ReaderDrop
  <1>3. CASE \E w \in Writers : WriterStep(w)
    BY <1>3 DEF WriterStep, WriterReceive, WriterPush, WriterFail
  <1>4. CASE EnvNext
    BY <1>4 DEF EnvNext, Arrive, Collect
  <1>5. CASE UNCHANGED vars
    BY <1>5 DEF vars
  <1>6. QED
    BY <1>1, <1>2, <1>3, <1>4, <1>5 DEF Next, CoreNext

LEMMA PastStep ==
    ASSUME TypeOK, [Next]_vars, NEW p \in Products
    PROVE  \/ PastShrinks(p) \/ PastGrows(p) \/ PastSells(p)
           \/ Restart /\ PastForgets(p)
  <1>1. CASE \E h \in Handlers : HandlerStep(h)
    BY <1>1, PastHandler
  <1>2. CASE Restart
    BY <1>2 DEF Restart, FreshMemory, PastForgets, Past
  <1>3. CASE UNCHANGED <<frame, ledger, status, restarts>>
    BY <1>3 DEF frame, ledger, PastShrinks, Past
  <1>4. QED
    BY <1>1, <1>2, <1>3, OtherSteps

LEMMA OversellInit == Init => OversellBound
  <1> SUFFICES ASSUME Init, NEW p \in Products
               PROVE  sold[p] + Cardinality(Past(p))
                        <= Total[p] + Cardinality(Handlers) - 1
    BY DEF OversellBound
  <1>1. sold[p] = 0 /\ Past(p) = {}
    BY DEF Init, FreshMemory, Past
  <1>2. Total[p] \in Nat
    BY StockAssumption
  <1>3. QED
    BY <1>1, <1>2, FS_EmptySet, HandlerSets

LEMMA OversellStep == TypeOK /\ OversellBound /\ [Next]_vars => OversellBound'
  <1> SUFFICES ASSUME TypeOK, OversellBound, [Next]_vars, NEW p \in Products
               PROVE  sold'[p] + Cardinality(Past(p)')
                        <= Total[p] + Cardinality(Handlers) - 1
    BY DEF OversellBound
  <1>1. /\ Total[p] \in Nat /\ sold[p] \in Nat
        /\ sold[p] + Cardinality(Past(p)) <= Total[p] + Cardinality(Handlers) - 1
    BY StockAssumption DEF TypeOK, OversellBound
  <1>2. Past(p) \in SUBSET Handlers /\ Past(p)' \in SUBSET Handlers
    BY DEF Past
  <1>3. CASE PastShrinks(p)
    <2>1. Cardinality(Past(p)') <= Cardinality(Past(p))
      BY <1>2, <1>3, HandlerSets DEF PastShrinks
    <2>2. Cardinality(Past(p)') \in Nat /\ Cardinality(Past(p)) \in Nat
          /\ Cardinality(Handlers) \in Nat
      BY <1>2, HandlerSets
    <2>3. QED
      BY <1>1, <1>3, <2>1, <2>2 DEF PastShrinks
  <1>4. CASE PastGrows(p)
    <2>1. /\ Cardinality(Past(p)') <= Cardinality(Handlers)
          /\ Cardinality(Past(p)') \in Nat /\ Cardinality(Handlers) \in Nat
      BY <1>2, HandlerSets
    <2>2. QED
      BY <1>1, <1>4, <2>1 DEF PastGrows
  <1>5. CASE PastSells(p)
    <2>1. PICK h \in Past(p) : /\ sold'[p] = sold[p] + 1
                               /\ Past(p)' = Past(p) \ {h}
      BY <1>5 DEF PastSells
    <2>2. IsFiniteSet(Past(p)) /\ Cardinality(Past(p)) \in Nat
          /\ Cardinality(Handlers) \in Nat
      BY <1>2, HandlerSets
    <2>3. Cardinality(Past(p)') = Cardinality(Past(p)) - 1
      BY <2>1, <2>2, FS_RemoveElement
    <2>4. QED
      BY <1>1, <2>1, <2>2, <2>3
  <1>6. CASE PastForgets(p)
    <2>1. /\ Cardinality(Past(p)') = 0
          /\ Cardinality(Handlers) \in Nat /\ Cardinality(Handlers) >= 1
      BY <1>6, FS_EmptySet, HandlerSets DEF PastForgets
    <2>2. QED
      BY <1>1, <1>6, <2>1 DEF PastForgets
  <1>7. QED
    BY <1>3, <1>4, <1>5, <1>6, PastStep

\* The check-then-act on the stock oversells by at most one unit per
\* additional handler, whatever the number of handlers, users and products.
THEOREM OversellSafe == Spec => []OversellBound
  <1>1. Init => TypeOK /\ OversellBound
    BY TypeInit, OversellInit
  <1>2. TypeOK /\ OversellBound /\ [Next]_vars => (TypeOK /\ OversellBound)'
    BY TypeStep, OversellStep
  <1>3. QED
    BY <1>1, <1>2, PTL DEF Spec

\* With a single handler (CoreHandleGoroutineNum = 1) the comment on Total
\* holds as it stands: no product is oversold.
THEOREM SingleHandlerExact ==
    ASSUME Cardinality(Handlers) = 1
    PROVE  Spec => []NoOversell
  <1>1. TypeOK /\ OversellBound => NoOversell
    <2> SUFFICES ASSUME TypeOK, OversellBound, NEW p \in Products
                 PROVE  sold[p] <= Total[p]
      BY DEF NoOversell
    <2>1. Cardinality(Past(p)) \in Nat
      BY HandlerSets DEF Past
    <2>2. sold[p] \in Nat /\ Total[p] \in Nat
      BY StockAssumption DEF TypeOK
    <2>3. QED
      BY <2>1, <2>2 DEF OversellBound
  <1>2. QED
    BY <1>1, TypeCorrect, OversellSafe, PTL

-----------------------------------------------------------------------------
(* The purchase limit of one user *)

LimitShrinks(u, p) == /\ history'[u][p] = history[u][p]
                      /\ Unrecorded(u, p)' \subseteq Unrecorded(u, p)
LimitGrows(u, p)   == /\ history'[u][p] = history[u][p]
                      /\ history[u][p] < OnePersonBuyLimit[p]
LimitRecords(u, p) == \E h \in Unrecorded(u, p) :
                          /\ history'[u][p] = history[u][p] + 1
                          /\ Unrecorded(u, p)' = Unrecorded(u, p) \ {h}
LimitForgets(u, p) == history'[u][p] = 0 /\ Unrecorded(u, p)' = {}

LEMMA LimitHandler ==
    ASSUME TypeOK, NEW h \in Handlers, HandlerStep(h),
           NEW u \in Users, NEW p \in Products
    PROVE  LimitShrinks(u, p) \/ LimitGrows(u, p) \/ LimitRecords(u, p)
  <1> USE DEF ledger
  <1>1. CASE HandlerReceive(h)
    BY <1>1 DEF HandlerReceive, LimitShrinks, Unrecorded, TypeOK
  <1>2. CASE Lookup(h)
    BY <1>2 DEF Lookup, Refuse, Goto, LimitShrinks, Unrecorded, TypeOK
  <1>3. CASE CheckHistory(h)
    <2>1. CASE /\ req[h].user = u /\ req[h].product = p
               /\ history[u][p] < OnePersonBuyLimit[p]
      BY <1>3, <2>1 DEF CheckHistory, LimitReached, LimitGrows
    <2>2. CASE /\ req[h].user = u /\ req[h].product = p
               /\ ~(history[u][p] < OnePersonBuyLimit[p])
      BY <1>3, <2>2, Comparisons
         DEF CheckHistory, Refuse, Goto, LimitShrinks, Unrecorded, TypeOK
    <2>3. CASE ~(req[h].user = u /\ req[h].product = p)
      BY <1>3, <2>3 DEF CheckHistory, LimitReached, Refuse, Goto, LimitShrinks, Unrecorded, TypeOK
    <2>4. QED
      BY <2>1, <2>2, <2>3
  <1>4. CASE CheckStock(h)
    BY <1>4 DEF CheckStock, StockLeft, Refuse, Goto, LimitShrinks, Unrecorded, TypeOK
  <1>5. CASE MarkSoldout(h)
    BY <1>5 DEF MarkSoldout, Refuse, LimitShrinks, Unrecorded, TypeOK
  <1>6. CASE RecordHistory(h)
    <2>1. req[h].user \in Users /\ req[h].product \in Products
      BY <1>6, HandlerHasRequest DEF RecordHistory
    <2>2. CASE req[h].user = u /\ req[h].product = p
      <3>1. history'[u][p] = history[u][p] + 1
        BY <1>6, <2>1, <2>2 DEF RecordHistory, TypeOK
      <3>2. h \in Unrecorded(u, p) /\ Unrecorded(u, p)' = Unrecorded(u, p) \ {h}
        BY <1>6, <2>2 DEF RecordHistory, Goto, Unrecorded, TypeOK
      <3>3. QED
        BY <3>1, <3>2 DEF LimitRecords
    <2>3. CASE ~(req[h].user = u /\ req[h].product = p)
      <3>1. history'[u][p] = history[u][p]
        BY <1>6, <2>1, <2>3 DEF RecordHistory, TypeOK
      <3>2. Unrecorded(u, p)' \subseteq Unrecorded(u, p)
        BY <1>6, <2>3 DEF RecordHistory, Goto, Unrecorded, TypeOK
      <3>3. QED
        BY <3>1, <3>2 DEF LimitShrinks
    <2>4. QED
      BY <2>2, <2>3
  <1>7. CASE CountSale(h)
    BY <1>7 DEF CountSale, LimitShrinks, Unrecorded, TypeOK
  <1>8. CASE HandlerSend(h)
    BY <1>8 DEF HandlerSend, LimitShrinks, Unrecorded, TypeOK
  <1>9. CASE HandlerDrop(h)
    BY <1>9 DEF HandlerDrop, LimitShrinks, Unrecorded, TypeOK
  <1>10. QED
    BY <1>1, <1>2, <1>3, <1>4, <1>5, <1>6, <1>7, <1>8, <1>9 DEF HandlerStep

LEMMA LimitCases ==
    ASSUME TypeOK, [Next]_vars, NEW u \in Users, NEW p \in Products
    PROVE  \/ LimitShrinks(u, p) \/ LimitGrows(u, p) \/ LimitRecords(u, p)
           \/ LimitForgets(u, p)
  <1>1. CASE \E h \in Handlers : HandlerStep(h)
    BY <1>1, LimitHandler
  <1>2. CASE Restart
    BY <1>2 DEF Restart, FreshMemory, LimitForgets, Unrecorded
  <1>3. CASE UNCHANGED <<frame, ledger, status, restarts>>
    BY <1>3 DEF frame, ledger, LimitShrinks, Unrecorded
  <1>4. QED
    BY <1>1, <1>2, <1>3, OtherSteps

LEMMA LimitInit == Init => LimitBound
  <1> SUFFICES ASSUME Init, NEW u \in Users, NEW p \in Products
               PROVE  history[u][p] + Cardinality(Unrecorded(u, p))
                        <= OnePersonBuyLimit[p] + Cardinality(Handlers) - 1
    BY DEF LimitBound
  <1>1. history[u][p] = 0 /\ Unrecorded(u, p) = {}
    BY DEF Init, FreshMemory, Unrecorded
  <1>2. OnePersonBuyLimit[p] \in Nat
    BY StockAssumption
  <1>3. QED
    BY <1>1, <1>2, FS_EmptySet, HandlerSets

LEMMA LimitStep == TypeOK /\ LimitBound /\ [Next]_vars => LimitBound'
  <1> SUFFICES ASSUME TypeOK, LimitBound, [Next]_vars,
                      NEW u \in Users, NEW p \in Products
               PROVE  history'[u][p] + Cardinality(Unrecorded(u, p)')
                        <= OnePersonBuyLimit[p] + Cardinality(Handlers) - 1
    BY DEF LimitBound
  <1>1. /\ OnePersonBuyLimit[p] \in Nat /\ history[u][p] \in Nat
        /\ history[u][p] + Cardinality(Unrecorded(u, p))
             <= OnePersonBuyLimit[p] + Cardinality(Handlers) - 1
    BY StockAssumption DEF TypeOK, LimitBound
  <1>2. /\ Unrecorded(u, p) \in SUBSET Handlers
        /\ Unrecorded(u, p)' \in SUBSET Handlers
    BY DEF Unrecorded
  <1>3. /\ Cardinality(Unrecorded(u, p)') <= Cardinality(Handlers)
        /\ Cardinality(Unrecorded(u, p)') \in Nat
        /\ Cardinality(Unrecorded(u, p)) \in Nat
        /\ Cardinality(Handlers) \in Nat /\ Cardinality(Handlers) >= 1
        /\ IsFiniteSet(Unrecorded(u, p))
    BY <1>2, HandlerSets
  <1>4. CASE LimitShrinks(u, p)
    <2>1. Cardinality(Unrecorded(u, p)') <= Cardinality(Unrecorded(u, p))
      BY <1>2, <1>4, HandlerSets DEF LimitShrinks
    <2>2. QED
      BY <1>1, <1>3, <1>4, <2>1 DEF LimitShrinks
  <1>5. CASE LimitGrows(u, p)
    BY <1>1, <1>3, <1>5 DEF LimitGrows
  <1>6. CASE LimitRecords(u, p)
    <2>1. PICK h \in Unrecorded(u, p) :
              /\ history'[u][p] = history[u][p] + 1
              /\ Unrecorded(u, p)' = Unrecorded(u, p) \ {h}
      BY <1>6 DEF LimitRecords
    <2>2. Cardinality(Unrecorded(u, p)') = Cardinality(Unrecorded(u, p)) - 1
      BY <1>3, <2>1, FS_RemoveElement
    <2>3. QED
      BY <1>1, <1>3, <2>1, <2>2
  <1>7. CASE LimitForgets(u, p)
    <2>1. Cardinality(Unrecorded(u, p)') = 0
      BY <1>7, FS_EmptySet DEF LimitForgets
    <2>2. QED
      BY <1>1, <1>3, <1>7, <2>1 DEF LimitForgets
  <1>8. QED
    BY <1>4, <1>5, <1>6, <1>7, LimitCases

\* The check-then-act on the history lets a user exceed OnePersonBuyLimit by
\* at most one unit per additional handler.
THEOREM LimitSafe == Spec => []LimitBound
  <1>1. Init => TypeOK /\ LimitBound
    BY TypeInit, LimitInit
  <1>2. TypeOK /\ LimitBound /\ [Next]_vars => (TypeOK /\ LimitBound)'
    BY TypeStep, LimitStep
  <1>3. QED
    BY <1>1, <1>2, PTL DEF Spec

-----------------------------------------------------------------------------
(* The ledger sk-core promises *)

\* A handler about to mark a product has seen its count at Total.
MarkJustified ==
    \A h \in Handlers :
        pc[h] = "mark" => sold[req[h].product] >= Total[req[h].product]

LEMMA MarkStep == TypeOK /\ MarkJustified /\ [Next]_vars => MarkJustified'
  <1> SUFFICES ASSUME TypeOK, MarkJustified, [Next]_vars,
                      NEW g \in Handlers, pc'[g] = "mark"
               PROVE  sold'[req'[g].product] >= Total[req'[g].product]
    BY DEF MarkJustified
  <1> USE DEF ledger
  <1>1. ASSUME NEW h \in Handlers, HandlerStep(h)
        PROVE  sold'[req'[g].product] >= Total[req'[g].product]
    <2>1. CASE HandlerReceive(h)
      BY <2>1 DEF HandlerReceive, MarkJustified, TypeOK
    <2>2. CASE Lookup(h)
      BY <2>2 DEF Lookup, Refuse, Goto, MarkJustified, TypeOK
    <2>3. CASE CheckHistory(h)
      BY <2>3 DEF CheckHistory, LimitReached, Refuse, Goto, MarkJustified, TypeOK
    <2>4. CASE CheckStock(h)
      <3>1. req[h].user \in Users /\ req[h].product \in Products
        BY <2>4, HandlerHasRequest DEF CheckStock
      <3>2. ~StockLeft(req[h].product)
              => sold[req[h].product] >= Total[req[h].product]
        BY <3>1, Comparisons
      <3>3. QED
        BY <2>4, <3>2 DEF CheckStock, Refuse, Goto, MarkJustified, TypeOK
    <2>5. CASE MarkSoldout(h)
      BY <2>5 DEF MarkSoldout, Refuse, MarkJustified, TypeOK
    <2>6. CASE RecordHistory(h)
      BY <2>6 DEF RecordHistory, Goto, MarkJustified, TypeOK
    <2>7. CASE CountSale(h)
      <3>1. g # h /\ pc[g] = "mark" /\ req'[g] = req[g]
        BY <2>7 DEF CountSale, TypeOK
      <3>2. req[g].product \in Products /\ req[h].product \in Products
        BY <2>7, <3>1, HandlerHasRequest DEF CountSale
      <3>3. /\ sold[req[g].product] >= Total[req[g].product]
            /\ sold[req[g].product] \in Nat /\ Total[req[g].product] \in Nat
        BY <3>1, <3>2, StockAssumption DEF MarkJustified, TypeOK
      <3>4. \/ sold'[req[g].product] = sold[req[g].product]
            \/ sold'[req[g].product] = sold[req[g].product] + 1
        BY <2>7, <3>2 DEF CountSale, TypeOK
      <3>5. QED
        BY <3>1, <3>3, <3>4
    <2>8. CASE HandlerSend(h)
      BY <2>8 DEF HandlerSend, MarkJustified, TypeOK
    <2>9. CASE HandlerDrop(h)
      BY <2>9 DEF HandlerDrop, MarkJustified, TypeOK
    <2>10. QED
      BY <1>1, <2>1, <2>2, <2>3, <2>4, <2>5, <2>6, <2>7, <2>8, <2>9 DEF HandlerStep
  <1>2. CASE Restart
    BY <1>2 DEF Restart, FreshMemory
  <1>3. CASE UNCHANGED <<frame, ledger, status, restarts>>
    BY <1>3 DEF frame, MarkJustified
  <1>4. QED
    BY <1>1, <1>2, <1>3, OtherSteps

LEMMA LedgerStep ==
    TypeOK /\ OversellBound /\ MarkJustified /\ [Next]_vars
      => [Ledger!Next]_<<sold, {p \in Products : status[p] = "Soldout"}, restarts>>
  <1> DEFINE closed == {p \in Products : status[p] = "Soldout"}
  <1> SUFFICES ASSUME TypeOK, OversellBound, MarkJustified, [Next]_vars
               PROVE  \/ Ledger!Next
                      \/ UNCHANGED <<sold, closed, restarts>>
    OBVIOUS
  <1> USE DEF ledger, catalog
  <1>1. ASSUME NEW h \in Handlers, HandlerStep(h)
        PROVE  Ledger!Next \/ UNCHANGED <<sold, closed, restarts>>
    <2>1. CASE MarkSoldout(h)
      <3>1. PICK p \in Products : p = req[h].product
        BY <2>1, HandlerHasRequest DEF MarkSoldout
      <3>2. sold[p] >= Total[p]
        BY <2>1, <3>1 DEF MarkSoldout, MarkJustified
      <3>3. closed' = closed \cup {p}
        BY <2>1, <3>1 DEF MarkSoldout, TypeOK
      <3>4. Ledger!Close(p)
        BY <2>1, <3>2, <3>3 DEF MarkSoldout, Ledger!Close
      <3>5. QED
        BY <3>4 DEF Ledger!Next
    <2>2. CASE CountSale(h)
      <3>1. PICK p \in Products : p = req[h].product
        BY <2>2, HandlerHasRequest DEF CountSale
      <3>2. h \in Past(p)
        BY <2>2, <3>1 DEF CountSale, Past
      <3>3. /\ IsFiniteSet(Past(p))
            /\ Cardinality(Past(p)) \in Nat /\ Cardinality(Handlers) \in Nat
        BY HandlerSets DEF Past
      <3>4. Cardinality(Past(p)) # 0
        BY <3>2, <3>3, FS_EmptySet
      <3>5. sold[p] \in Nat /\ Total[p] \in Nat
        BY StockAssumption DEF TypeOK
      <3>6. sold[p] < Total[p] + (Cardinality(Handlers) - 1)
        BY <3>3, <3>4, <3>5 DEF OversellBound
      <3>7. closed' = closed /\ restarts' = restarts
        BY <2>2 DEF CountSale
      <3>8. Ledger!Sell(p)
        BY <2>2, <3>1, <3>6, <3>7 DEF CountSale, Ledger!Sell
      <3>9. QED
        BY <3>8 DEF Ledger!Next
    <2>3. CASE /\ ~MarkSoldout(h) /\ ~CountSale(h)
      <3>1. sold' = sold /\ status' = status /\ restarts' = restarts
        BY <1>1, <2>3 DEF HandlerStep, HandlerReceive, Lookup, CheckHistory,
           CheckStock, RecordHistory, HandlerSend, HandlerDrop
      <3>2. QED
        BY <3>1
    <2>4. QED
      BY <2>1, <2>2, <2>3
  <1>2. CASE Restart
    <2>1. /\ sold' = [p \in Products |-> 0] /\ closed' = {}
          /\ restarts < MaxRestarts /\ restarts' = restarts + 1
      BY <1>2 DEF Restart, FreshMemory
    <2>2. QED
      BY <2>1 DEF Ledger!Next, Ledger!Forget
  <1>3. CASE UNCHANGED <<frame, ledger, status, restarts>>
    BY <1>3
  <1>4. QED
    BY <1>1, <1>2, <1>3, OtherSteps

\* sk-core implements the ledger it promises: its goroutines, channels and
\* timeouts only ever sell within the margin, close exhausted products, or
\* change nothing a buyer can see.
THEOREM ImplementsLedger == Spec => LedgerSpec
  <1>1. Init => TypeOK /\ OversellBound /\ MarkJustified
    <2>1. Init => MarkJustified
      BY DEF Init, FreshMemory, MarkJustified
    <2>2. QED
      BY <2>1, TypeInit, OversellInit
  <1>2. TypeOK /\ OversellBound /\ MarkJustified /\ [Next]_vars
          => (TypeOK /\ OversellBound /\ MarkJustified)'
    BY TypeStep, OversellStep, MarkStep
  <1>3. Init => Ledger!Init
    BY DEF Init, FreshMemory, Ledger!Init
  <1>4. QED
    BY <1>1, <1>2, <1>3, LedgerStep, PTL DEF Spec, LedgerSpec, Ledger!Spec

-----------------------------------------------------------------------------
(* Sold-out answers *)

LEMMA SoldGrows ==
    ASSUME TypeOK, [Next]_vars, NEW p \in Products
    PROVE  /\ sold[p] \in Nat /\ Total[p] \in Nat
           /\ Restart \/ sold'[p] = sold[p] \/ sold'[p] = sold[p] + 1
  <1>1. sold[p] \in Nat /\ Total[p] \in Nat
    BY StockAssumption DEF TypeOK
  <1>2. QED
    BY <1>1, PastStep DEF PastShrinks, PastGrows, PastSells

\* A place that says sold out got it from another one, or from the count.
LEMMA SoldoutLearned ==
    ASSUME TypeOK, [Next]_vars, ~Restart, NEW p \in Products, SoldoutKnown(p)'
    PROVE  SoldoutKnown(p) \/ sold[p] >= Total[p]
  <1> USE DEF queues, chans, ends, frame, catalog, ledger
  <1>1. ASSUME NEW h \in Handlers, HandlerStep(h)
        PROVE  SoldoutKnown(p) \/ sold[p] >= Total[p]
    <2>1. CASE HandlerReceive(h)
      BY <2>1 DEF HandlerReceive, SoldoutKnown, TypeOK
    <2>2. CASE Lookup(h)
      BY <2>2 DEF Lookup, Refuse, Goto, SoldoutKnown, TypeOK
    <2>3. CASE CheckHistory(h)
      BY <2>3 DEF CheckHistory, LimitReached, Refuse, Goto, SoldoutKnown, TypeOK
    <2>4. CASE CheckStock(h)
      <3>1. req[h].user \in Users
        BY <2>4, HandlerHasRequest DEF CheckStock
      <3>2. ~StockLeft(p) => sold[p] >= Total[p]
        BY <3>1, Comparisons
      <3>3. QED
        BY <2>4, <3>2 DEF CheckStock, Refuse, Goto, SoldoutKnown, TypeOK
    <2>5. CASE MarkSoldout(h)
      BY <2>5 DEF MarkSoldout, Refuse, SoldoutKnown, TypeOK
    <2>6. CASE RecordHistory(h)
      BY <2>6 DEF RecordHistory, Goto, SoldoutKnown, TypeOK
    <2>7. CASE CountSale(h)
      BY <2>7 DEF CountSale, SoldoutKnown, TypeOK
    <2>8. CASE HandlerSend(h)
      <3>1. ResultOf(h) \in Result
        BY <2>8, HandlerHasRequest DEF HandlerSend, TypeOK
      <3>2. \A i \in 1..Len(handle2write') :
                \/ i \in 1..Len(handle2write) /\ handle2write'[i] = handle2write[i]
                \/ handle2write'[i] = ResultOf(h)
        BY <2>8, <3>1 DEF HandlerSend, TypeOK
      <3>3. QED
        BY <2>8, <3>2 DEF HandlerSend, ResultOf, SoldoutKnown, TypeOK
    <2>9. CASE HandlerDrop(h)
      BY <2>9 DEF HandlerDrop, SoldoutKnown, TypeOK
    <2>10. QED
      BY <1>1, <2>1, <2>2, <2>3, <2>4, <2>5, <2>6, <2>7, <2>8, <2>9 DEF HandlerStep
  <1>2. ASSUME NEW w \in Writers, WriterStep(w)
        PROVE  SoldoutKnown(p) \/ sold[p] >= Total[p]
    <2>1. CASE WriterReceive(w)
      <3>1. /\ 1 \in 1..Len(handle2write)
            /\ Head(handle2write) = handle2write[1]
            /\ \A i \in 1..Len(handle2write') :
                   /\ i + 1 \in 1..Len(handle2write)
                   /\ handle2write'[i] = handle2write[i + 1]
        BY <2>1 DEF WriterReceive, TypeOK
      <3>2. QED
        BY <2>1, <3>1 DEF WriterReceive, SoldoutKnown, TypeOK
    <2>2. CASE WriterPush(w)
      BY <2>2 DEF WriterPush, SoldoutKnown, TypeOK
    <2>3. CASE WriterFail(w)
      BY <2>3 DEF WriterFail, SoldoutKnown, TypeOK
    <2>4. QED
      BY <1>2, <2>1, <2>2, <2>3 DEF WriterStep
  <1>3. CASE UNCHANGED <<handle2write, writing, frame, status>>
    BY <1>3 DEF SoldoutKnown
  <1>4. CASE \E list \in {Listed, {}} : LoadSecConf(list)
    BY <1>3, <1>4 DEF LoadSecConf
  <1>5. CASE \E r \in Readers : ReaderStep(r)
    BY <1>3, <1>5 DEF ReaderStep, ReaderPop, ReaderSend, ReaderDrop
  <1>6. CASE EnvNext
    BY <1>3, <1>6 DEF EnvNext, Arrive, Collect
  <1>7. CASE UNCHANGED vars
    BY <1>3, <1>7 DEF vars
  <1>8. QED
    BY <1>1, <1>2, <1>4, <1>5, <1>6, <1>7 DEF Next, CoreNext

LEMMA SoldoutStep == TypeOK /\ SoldoutTruthful /\ [Next]_vars => SoldoutTruthful'
  <1> SUFFICES ASSUME TypeOK, SoldoutTruthful, [Next]_vars,
                      NEW p \in Products, SoldoutKnown(p)'
               PROVE  sold'[p] >= Total[p]
    BY DEF SoldoutTruthful
  <1>1. CASE Restart
    BY <1>1 DEF Restart, FreshMemory, SoldoutKnown
  <1>2. CASE ~Restart
    <2>1. sold[p] >= Total[p]
      BY <1>2, SoldoutLearned DEF SoldoutTruthful
    <2>2. QED
      BY <1>2, <2>1, SoldGrows
  <1>3. QED
    BY <1>1, <1>2

\* No sold-out answer is ever produced while units are left.
THEOREM SoldoutSafe == Spec => []SoldoutTruthful
  <1>1. Init => SoldoutTruthful
    BY DEF Init, FreshMemory, SoldoutTruthful, SoldoutKnown
  <1>2. TypeOK /\ SoldoutTruthful /\ [Next]_vars => SoldoutTruthful'
    BY SoldoutStep
  <1>3. QED
    BY <1>1, <1>2, TypeInit, TypeStep, PTL DEF Spec

-----------------------------------------------------------------------------
(* Sales across restarts *)

\* Units sold by earlier incarnations: one full margin for each of them.
EarlierSales ==
    \A p \in Products :
        everSold[p] - sold[p] <= restarts * (Total[p] + Cardinality(Handlers) - 1)

LEMMA EarlierStep ==
    TypeOK /\ OversellBound /\ EarlierSales /\ [Next]_vars => EarlierSales'
  <1> SUFFICES ASSUME TypeOK, OversellBound, EarlierSales, [Next]_vars,
                      NEW p \in Products
               PROVE  everSold'[p] - sold'[p]
                        <= restarts' * (Total[p] + Cardinality(Handlers) - 1)
    BY DEF EarlierSales
  <1> DEFINE K == Total[p] + Cardinality(Handlers) - 1
  <1>1. /\ sold[p] \in Nat /\ everSold[p] \in Nat /\ restarts \in Nat
        /\ K \in Nat
    <2>1. Cardinality(Handlers) \in Nat /\ Cardinality(Handlers) >= 1
      BY HandlerSets
    <2>2. QED
      BY <2>1, StockAssumption, BoundsAssumption DEF TypeOK
  <1>2. everSold[p] - sold[p] <= restarts * K
    BY DEF EarlierSales
  <1> USE DEF ledger
  <1>3. ASSUME NEW h \in Handlers, HandlerStep(h)
        PROVE  everSold'[p] - sold'[p] <= restarts' * K
    <2>1. restarts' = restarts
      BY <1>3 DEF HandlerStep, HandlerReceive, Lookup, CheckHistory, CheckStock,
         MarkSoldout, RecordHistory, CountSale, HandlerSend, HandlerDrop
    <2>2. everSold'[p] - sold'[p] = everSold[p] - sold[p]
      <3>1. CASE CountSale(h)
        <4>1. /\ sold' = [sold EXCEPT ![req[h].product] = @ + 1]
              /\ everSold' = [everSold EXCEPT ![req[h].product] = @ + 1]
              /\ req[h].product \in Products
          BY <3>1, HandlerHasRequest DEF CountSale
        <4>2. QED
          BY <1>1, <4>1 DEF TypeOK
      <3>2. CASE ~CountSale(h)
        BY <1>3, <3>2 DEF HandlerStep, HandlerReceive, Lookup, CheckHistory,
           CheckStock, MarkSoldout, RecordHistory, HandlerSend, HandlerDrop
      <3>3. QED
        BY <3>1, <3>2
    <2>3. QED
      BY <1>2, <2>1, <2>2
  <1>4. CASE Restart
    <2>1. Cardinality(Past(p)) \in Nat
      BY HandlerSets DEF Past
    <2>2. sold[p] <= K
      <3>1. sold[p] + Cardinality(Past(p)) <= K
        BY DEF OversellBound
      <3>2. QED
        BY <1>1, <2>1, <3>1
    <2>3. everSold[p] <= restarts * K + K
      <3>1. restarts * K \in Nat
        BY <1>1
      <3>2. QED
        BY <1>1, <1>2, <2>2, <3>1
    <2>4. restarts' * K = restarts * K + K
      BY <1>1, <1>4 DEF Restart
    <2>5. everSold'[p] - sold'[p] = everSold[p]
      BY <1>1, <1>4 DEF Restart, FreshMemory
    <2>6. QED
      BY <2>3, <2>4, <2>5
  <1>5. CASE UNCHANGED <<frame, ledger, status, restarts>>
    BY <1>2, <1>5
  <1>6. QED
    BY <1>3, <1>4, <1>5, OtherSteps

\* Restarts put the stock on sale again, but never more than the margin of
\* one incarnation each.
THEOREM ResaleSafe == Spec => []ResaleBound
  <1>1. Init => EarlierSales
    <2> SUFFICES ASSUME Init, NEW p \in Products
                 PROVE  everSold[p] - sold[p]
                          <= restarts * (Total[p] + Cardinality(Handlers) - 1)
      BY DEF EarlierSales
    <2>1. /\ everSold[p] = 0 /\ sold[p] = 0 /\ restarts = 0
      BY DEF Init, FreshMemory
    <2>2. Total[p] + Cardinality(Handlers) - 1 \in Int
      BY StockAssumption, HandlerSets
    <2>3. QED
      BY <2>1, <2>2
  <1>2. TypeOK /\ OversellBound /\ EarlierSales => ResaleBound
    <2> SUFFICES ASSUME TypeOK, OversellBound, EarlierSales, NEW p \in Products
                 PROVE  everSold[p]
                          <= (restarts + 1) * (Total[p] + Cardinality(Handlers) - 1)
      BY DEF ResaleBound
    <2> DEFINE K == Total[p] + Cardinality(Handlers) - 1
    <2>1. /\ Cardinality(Past(p)) \in Nat /\ Cardinality(Handlers) \in Nat
          /\ sold[p] + Cardinality(Past(p)) <= K
      BY HandlerSets DEF OversellBound, Past
    <2>2. /\ sold[p] \in Nat /\ everSold[p] \in Nat /\ restarts \in Nat
          /\ K \in Int
      BY <2>1, StockAssumption, BoundsAssumption DEF TypeOK
    <2>3. everSold[p] - sold[p] <= restarts * K
      BY DEF EarlierSales
    <2>4. (restarts + 1) * K = restarts * K + K /\ restarts * K \in Int
      BY <2>2
    <2> HIDE DEF K
    <2>5. everSold[p] <= (restarts + 1) * K
      BY <2>1, <2>2, <2>3, <2>4
    <2>6. QED
      BY <2>5 DEF K
  <1>3. QED
    BY <1>1, <1>2, TypeInit, TypeStep, OversellInit, OversellStep, EarlierStep,
       PTL DEF Spec

-----------------------------------------------------------------------------
(* Successes on their way to a buyer.  G is any set of successes: all for a *)
(* product, or all for a user and a product.                                *)

Wins     == {res \in Result : res.code = "Succ"}
Token(h) == [user |-> req[h].user, product |-> req[h].product, code |-> "Succ"]

Answering(G) == {h \in Handlers : pc[h] = "reply" /\ ResultOf(h) \in G}
Booking(G)  == {h \in Handlers : pc[h] = "count" /\ Token(h) \in G}

InFlight(G) == Cardinality(Answering(G)) + CountIn(handle2write, G)
               + Cardinality(HeldIn(writing, G)) + CountIn(layer2proxy, G)

LEMMA InFlightTypes ==
    ASSUME TypeOK, NEW G
    PROVE  /\ IsFiniteSet(Answering(G)) /\ Cardinality(Answering(G)) \in Nat
           /\ CountIn(handle2write, G) \in Nat
           /\ Cardinality(HeldIn(writing, G)) \in Nat
           /\ CountIn(layer2proxy, G) \in Nat
           /\ InFlight(G) \in Nat
  <1>1. Answering(G) \subseteq Handlers
    BY DEF Answering
  <1>2. HeldIn(writing, G) \subseteq Writers
    BY DEF HeldIn, TypeOK
  <1>3. /\ IsFiniteSet(Answering(G)) /\ Cardinality(Answering(G)) \in Nat
        /\ Cardinality(HeldIn(writing, G)) \in Nat
    BY <1>1, <1>2, HandlersAssumption, WritersAssumption, FS_Subset, FS_CardinalityType
  <1>4. CountIn(handle2write, G) \in Nat /\ CountIn(layer2proxy, G) \in Nat
    BY CountType DEF TypeOK
  <1>5. QED
    BY <1>3, <1>4 DEF InFlight

\* A writer that holds x instead of what it held.
LEMMA WritingChanges ==
    ASSUME TypeOK, NEW w \in Writers, NEW x, NEW G,
           writing' = [writing EXCEPT ![w] = x]
    PROVE  /\ Cardinality(HeldIn(writing, G)) \in Nat
           /\ Cardinality(HeldIn(writing', G)) \in Nat
           /\ Cardinality(HeldIn(writing', G)) + Weight(writing[w], G)
                  = Cardinality(HeldIn(writing, G)) + Weight(x, G)
  <1>1. /\ DOMAIN writing = Writers /\ DOMAIN writing' = Writers
        /\ IsFiniteSet(Writers) /\ writing'[w] = x
        /\ \A v \in Writers : v # w => writing'[v] = writing[v]
    BY WritersAssumption DEF TypeOK
  <1> DEFINE f == writing
             g == writing'
  <1> HIDE DEF f, g
  <1>2. /\ IsFiniteSet(DOMAIN f) /\ DOMAIN g = DOMAIN f /\ w \in DOMAIN f
        /\ \A v \in DOMAIN f : v # w => g[v] = f[v]
    BY <1>1 DEF f, g
  <1>3. /\ Cardinality(HeldIn(f, G)) \in Nat
        /\ Cardinality(HeldIn(g, G)) \in Nat
        /\ Cardinality(HeldIn(g, G)) + Weight(f[w], G)
               = Cardinality(HeldIn(f, G)) + Weight(g[w], G)
    BY <1>2, HandChanges
  <1>4. QED
    BY <1>1, <1>3 DEF f, g

LEMMA HandlerFlight ==
    ASSUME TypeOK, NEW h \in Handlers, HandlerStep(h), NEW G \in SUBSET Wins
    PROVE  /\ InFlight(G)' \in Nat
           /\ ~CountSale(h) => InFlight(G)' <= InFlight(G)
           /\ CountSale(h) => InFlight(G)' = InFlight(G) + Weight(Token(h), G)
  <1> USE DEF queues, chans, ends, frame, catalog, ledger
  <1> DEFINE A == Answering(G)
             B == Answering(G)'
             q == CountIn(handle2write, G)
             r == CountIn(handle2write', G)
             x == Cardinality(HeldIn(writing, G)) + CountIn(layer2proxy, G)
  <1>1. UNCHANGED <<writing, layer2proxy>>
    BY DEF HandlerStep, HandlerReceive, Lookup, CheckHistory, CheckStock, MarkSoldout,
       RecordHistory, CountSale, HandlerSend, HandlerDrop
  <1>2. \A g \in Handlers : g # h => /\ pc'[g] = pc[g] /\ req'[g] = req[g]
                                     /\ code'[g] = code[g]
    BY DEF HandlerStep, HandlerReceive, Lookup, CheckHistory, CheckStock, MarkSoldout,
       RecordHistory, CountSale, HandlerSend, HandlerDrop, Refuse, Goto, TypeOK
  <1>3. B \ {h} = A \ {h}
    BY <1>2 DEF Answering, ResultOf
  <1>4. /\ h \in A <=> pc[h] = "reply" /\ ResultOf(h) \in G
        /\ h \in B <=> pc'[h] = "reply" /\ ResultOf(h)' \in G
    BY DEF Answering
  <1>5. /\ q \in Nat /\ x \in Nat
        /\ InFlight(G) = Cardinality(A) + q + x
        /\ r \in Nat => InFlight(G)' = Cardinality(B) + r + x
    <2>1. Cardinality(B) \in Nat
      <3>1. B \subseteq Handlers
        BY DEF Answering
      <3>2. QED
        BY <3>1, HandlersAssumption, FS_Subset, FS_CardinalityType
    <2>2. /\ Cardinality(A) \in Nat /\ q \in Nat
          /\ Cardinality(HeldIn(writing, G)) \in Nat /\ CountIn(layer2proxy, G) \in Nat
          /\ InFlight(G) = Cardinality(A) + q + Cardinality(HeldIn(writing, G))
                           + CountIn(layer2proxy, G)
      BY InFlightTypes DEF InFlight
    <2>3. InFlight(G)' = Cardinality(B) + r + Cardinality(HeldIn(writing, G))
                         + CountIn(layer2proxy, G)
      BY <1>1 DEF InFlight
    <2> HIDE DEF A, B, q, r
    <2>4. QED
      BY <2>1, <2>2, <2>3
  <1>6. IsFiniteSet(A)
    BY InFlightTypes
  <1>7. CASE HandlerSend(h)
    <2>1. /\ pc[h] = "reply" /\ pc'[h] # "reply"
          /\ handle2write' = Append(handle2write, ResultOf(h))
      BY <1>7 DEF HandlerSend, TypeOK
    <2>2. ResultOf(h) \in Result
      BY <2>1, HandlerHasRequest DEF TypeOK
    <2>3. r = q + Weight(ResultOf(h), G)
      BY <2>1, <2>2, CountAppend DEF TypeOK
    <2>4. /\ Weight(h, A) = Weight(ResultOf(h), G) /\ Weight(h, B) = 0
          /\ Weight(h, A) \in Nat
      BY <1>4, <2>1 DEF Weight
    <2>5. ~CountSale(h)
      BY <2>1 DEF CountSale
    <2> HIDE DEF A, B, q, r, x
    <2>6. /\ Cardinality(A) \in Nat /\ Cardinality(B) \in Nat
          /\ Cardinality(B) + Weight(h, A) = Cardinality(A) + Weight(h, B)
      BY <1>3, <1>6, SetChanges
    <2>7. QED
      BY <1>5, <2>3, <2>4, <2>5, <2>6
  <1>8. CASE CountSale(h)
    <2>1. /\ pc[h] = "count" /\ pc'[h] = "reply" /\ ResultOf(h)' = Token(h)
          /\ handle2write' = handle2write
      BY <1>8 DEF CountSale, ResultOf, Token, TypeOK
    <2>2. Weight(h, A) = 0 /\ Weight(h, B) = Weight(Token(h), G) /\ r = q
      BY <1>4, <2>1 DEF Weight
    <2> HIDE DEF A, B, q, r, x
    <2>3. /\ Cardinality(A) \in Nat /\ Cardinality(B) \in Nat
          /\ Cardinality(B) + Weight(h, A) = Cardinality(A) + Weight(h, B)
      BY <1>3, <1>6, SetChanges
    <2>4. QED
      BY <1>5, <1>8, <2>2, <2>3, WeightType
  <1>9. CASE ~HandlerSend(h) /\ ~CountSale(h)
    <2>1. pc'[h] = "reply" => code'[h] # "Succ"
      BY <1>9 DEF HandlerStep, HandlerReceive, Lookup, CheckHistory, CheckStock,
         MarkSoldout, RecordHistory, HandlerDrop, Refuse, Goto, TypeOK
    <2>2. h \notin B
      BY <1>4, <2>1 DEF ResultOf, Wins
    <2>3. handle2write' = handle2write
      BY <1>9 DEF HandlerStep, HandlerReceive, Lookup, CheckHistory, CheckStock,
         MarkSoldout, RecordHistory, HandlerDrop
    <2>4. Weight(h, A) \in Nat /\ Weight(h, B) = 0 /\ r = q
      BY <2>2, <2>3 DEF Weight
    <2> HIDE DEF A, B, q, r, x
    <2>5. /\ Cardinality(A) \in Nat /\ Cardinality(B) \in Nat
          /\ Cardinality(B) + Weight(h, A) = Cardinality(A) + Weight(h, B)
      BY <1>3, <1>6, SetChanges
    <2>6. QED
      BY <1>5, <1>9, <2>4, <2>5
  <1>10. QED
    BY <1>7, <1>8, <1>9

LEMMA WriterFlight ==
    ASSUME TypeOK, NEW w \in Writers, WriterStep(w), NEW G \in SUBSET Wins
    PROVE  InFlight(G)' \in Nat /\ InFlight(G)' <= InFlight(G)
  <1> USE DEF queues, chans, ends, frame, catalog, ledger
  <1> DEFINE a == Cardinality(Answering(G))
             q == CountIn(handle2write, G)
             r == CountIn(handle2write', G)
             u == Cardinality(HeldIn(writing, G))
             v == Cardinality(HeldIn(writing', G))
             x == CountIn(layer2proxy, G)
             y == CountIn(layer2proxy', G)
  <1>1. Answering(G)' = Answering(G)
    BY DEF WriterStep, WriterReceive, WriterPush, WriterFail, Answering, ResultOf
  <1>2. /\ a \in Nat /\ q \in Nat /\ u \in Nat /\ x \in Nat
        /\ InFlight(G) = a + q + u + x
    BY InFlightTypes DEF InFlight
  <1>3. InFlight(G)' = a + r + v + y
    BY <1>1 DEF InFlight
  <1>4. Weight(NoRes, G) = 0
    BY NoneAssumption DEF Wins, Weight
  <1>5. CASE WriterReceive(w)
    <2> DEFINE res == Head(handle2write)
    <2>1. /\ handle2write # <<>> /\ handle2write' = Tail(handle2write)
          /\ writing[w] = NoRes /\ writing' = [writing EXCEPT ![w] = res]
          /\ layer2proxy' = layer2proxy
      BY <1>5 DEF WriterReceive
    <2>2. r + Weight(res, G) <= q
      BY <2>1, CountTail DEF TypeOK
    <2>3. r \in Nat
      <3>1. Tail(handle2write) \in Seq(Result)
        BY <2>1, HeadTail DEF TypeOK
      <3>2. QED
        BY <2>1, <3>1, CountType
    <2>4. v \in Nat /\ v + Weight(writing[w], G) = u + Weight(res, G)
      <3> HIDE DEF res
      <3>1. QED
        BY <2>1, WritingChanges
    <2>5. y = x /\ Weight(writing[w], G) = 0 /\ Weight(res, G) \in Nat
      BY <1>4, <2>1, WeightType
    <2> HIDE DEF a, q, r, u, v, x, y, res
    <2>6. QED
      BY <1>2, <1>3, <2>2, <2>3, <2>4, <2>5
  <1>6. CASE WriterPush(w)
    <2> DEFINE res == writing[w]
    <2>1. /\ writing' = [writing EXCEPT ![w] = NoRes] /\ res \in Result
          /\ handle2write' = handle2write /\ layer2proxy' = Append(layer2proxy, res)
      BY <1>6 DEF WriterPush, TypeOK
    <2>2. y = x + Weight(res, G)
      BY <2>1, CountAppend DEF TypeOK
    <2>3. v \in Nat /\ v + Weight(res, G) = u + Weight(NoRes, G)
      BY <2>1, WritingChanges
    <2>4. r = q /\ Weight(res, G) \in Nat
      BY <2>1, WeightType
    <2> HIDE DEF a, q, r, u, v, x, y, res
    <2>5. QED
      BY <1>2, <1>3, <1>4, <2>2, <2>3, <2>4
  <1>7. CASE WriterFail(w)
    <2>1. /\ writing' = [writing EXCEPT ![w] = NoRes]
          /\ handle2write' = handle2write /\ layer2proxy' = layer2proxy
      BY <1>7 DEF WriterFail
    <2>2. v \in Nat /\ v + Weight(writing[w], G) = u + Weight(NoRes, G)
      BY <2>1, WritingChanges
    <2>3. r = q /\ y = x /\ Weight(writing[w], G) \in Nat
      BY <2>1, WeightType
    <2> HIDE DEF a, q, r, u, v, x, y
    <2>4. QED
      BY <1>2, <1>3, <1>4, <2>2, <2>3
  <1>8. QED
    BY <1>5, <1>6, <1>7 DEF WriterStep

\* A restart forgets the successes in memory, not those in redis.
LEMMA RestartFlight ==
    ASSUME TypeOK, Restart, NEW G \in SUBSET Wins
    PROVE  InFlight(G)' \in Nat /\ InFlight(G)' <= InFlight(G)
  <1> USE DEF queues
  <1>1. /\ Answering(G)' = {} /\ HeldIn(writing', G) = {}
        /\ handle2write' = <<>> /\ layer2proxy' = layer2proxy
    BY NoneAssumption DEF Restart, FreshMemory, Answering, HeldIn, Wins
  <1>2. CountIn(<<>>, G) = 0
    <2>1. <<>> \in Seq(Result)
      OBVIOUS
    <2>2. QED
      BY <2>1, CountType
  <1>3. InFlight(G)' = CountIn(layer2proxy, G)
    <2>1. InFlight(G)' = Cardinality({}) + CountIn(<<>>, G) + Cardinality({})
                         + CountIn(layer2proxy, G)
      BY <1>1 DEF InFlight
    <2>2. CountIn(layer2proxy, G) \in Nat /\ Cardinality({}) = 0
      BY InFlightTypes, FS_EmptySet
    <2>3. QED
      BY <1>2, <2>1, <2>2
  <1>4. QED
    BY <1>3, InFlightTypes DEF InFlight

\* The other service takes results from redis.
LEMMA TakenFlight ==
    ASSUME TypeOK, UNCHANGED <<frame, handle2write, writing>>,
           layer2proxy # <<>>, layer2proxy' = Tail(layer2proxy), NEW G
    PROVE  /\ InFlight(G)' \in Nat
           /\ InFlight(G)' + Weight(Head(layer2proxy), G) <= InFlight(G)
  <1> DEFINE a == Cardinality(Answering(G)) + CountIn(handle2write, G)
                  + Cardinality(HeldIn(writing, G))
             x == CountIn(layer2proxy, G)
             y == CountIn(layer2proxy', G)
  <1>1. Answering(G)' = Answering(G)
    BY DEF frame, Answering, ResultOf
  <1>2. a \in Nat /\ x \in Nat /\ InFlight(G) = a + x
    BY InFlightTypes DEF InFlight
  <1>3. InFlight(G)' = a + y
    BY <1>1 DEF InFlight
  <1>4. y \in Nat
    <2>1. Tail(layer2proxy) \in Seq(Result)
      BY HeadTail DEF TypeOK
    <2>2. QED
      BY <2>1, CountType
  <1>5. y + Weight(Head(layer2proxy), G) <= x
    BY CountTail DEF TypeOK
  <1>6. Weight(Head(layer2proxy), G) \in Nat
    BY WeightType
  <1> HIDE DEF a, x, y
  <1>7. QED
    BY <1>2, <1>3, <1>4, <1>5, <1>6

LEMMA ElsewhereFlight ==
    ASSUME TypeOK, UNCHANGED <<frame, handle2write, writing, layer2proxy>>, NEW G
    PROVE  InFlight(G)' = InFlight(G) /\ InFlight(G)' \in Nat
  <1>1. Answering(G)' = Answering(G)
    BY DEF frame, Answering, ResultOf
  <1>2. InFlight(G)' = InFlight(G)
    BY <1>1 DEF InFlight
  <1>3. QED
    BY <1>2, InFlightTypes

\* No step of sk-core or of its environment makes a success without a sale.
LEMMA SuccessConserved ==
    ASSUME TypeOK, [Next]_vars, NEW G \in SUBSET Wins
    PROVE  /\ InFlight(G)' \in Nat
           /\ \/ /\ InFlight(G)' <= InFlight(G)
                 /\ everSold' = everSold
              \/ \E h \in Handlers : /\ CountSale(h)
                                     /\ InFlight(G)' = InFlight(G) + Weight(Token(h), G)
  <1> USE DEF queues, chans, ends, frame, catalog, ledger
  <1> DEFINE C == /\ InFlight(G)' \in Nat
                  /\ \/ InFlight(G)' <= InFlight(G) /\ everSold' = everSold
                     \/ \E h \in Handlers :
                           /\ CountSale(h)
                           /\ InFlight(G)' = InFlight(G) + Weight(Token(h), G)
  <1>0. ASSUME UNCHANGED <<frame, handle2write, writing, layer2proxy, everSold>> PROVE C
    <2>1. InFlight(G) \in Nat /\ InFlight(G)' = InFlight(G)
      BY <1>0, ElsewhereFlight
    <2>2. QED
      BY <1>0, <2>1
  <1>1. ASSUME NEW h \in Handlers, HandlerStep(h) PROVE C
    <2>1. ~CountSale(h) => everSold' = everSold
      BY <1>1 DEF HandlerStep, HandlerReceive, Lookup, CheckHistory, CheckStock,
         MarkSoldout, RecordHistory, HandlerSend, HandlerDrop
    <2>2. QED
      BY <1>1, <2>1, HandlerFlight
  <1>2. ASSUME NEW w \in Writers, WriterStep(w) PROVE C
    <2>1. everSold' = everSold
      BY <1>2 DEF WriterStep, WriterReceive, WriterPush, WriterFail
    <2>2. QED
      BY <1>2, <2>1, WriterFlight
  <1>3. ASSUME NEW r \in Readers, ReaderStep(r) PROVE C
    BY <1>0, <1>3 DEF ReaderStep, ReaderPop, ReaderSend, ReaderDrop
  <1>4. ASSUME NEW list \in {Listed, {}}, LoadSecConf(list) PROVE C
    BY <1>0, <1>4 DEF LoadSecConf
  <1>5. ASSUME Restart PROVE C
    BY <1>5, RestartFlight DEF Restart
  <1>6. ASSUME NEW u \in Users, NEW q \in Products, Arrive(u, q) PROVE C
    BY <1>0, <1>6 DEF Arrive
  <1>7. ASSUME Collect PROVE C
    <2>1. /\ InFlight(G)' \in Nat
          /\ InFlight(G)' + Weight(Head(layer2proxy), G) <= InFlight(G)
      BY <1>7, TakenFlight DEF Collect
    <2>2. InFlight(G) \in Nat /\ Weight(Head(layer2proxy), G) \in Nat
      BY InFlightTypes, WeightType
    <2>3. everSold' = everSold
      BY <1>7 DEF Collect
    <2>4. QED
      BY <2>1, <2>2, <2>3
  <1>8. ASSUME UNCHANGED vars PROVE C
    BY <1>0, <1>8 DEF vars
  <1> HIDE DEF C
  <1>9. C
    BY <1>1, <1>2, <1>3, <1>4, <1>5, <1>6, <1>7, <1>8 DEF Next, CoreNext, EnvNext
  <1>10. QED
    BY <1>9 DEF C

\* The successes for one product.
For(p) == {res \in Wins : res.product = p}

LEMMA ForProduct ==
    ASSUME TypeOK, NEW p
    PROVE  SuccessesInFlight(p) = InFlight(For(p))
  <1>1. \A res \in Result : IsSuccess(res, p) <=> res \in For(p)
    BY DEF IsSuccess, For, Wins
  <1>2. Replying(p) = Answering(For(p))
    <2>1. \A h \in Handlers : pc[h] = "reply" => ResultOf(h) \in Result
      BY HandlerHasRequest DEF TypeOK
    <2>2. QED
      BY <1>1, <2>1 DEF Replying, Answering
  <1>3. Pushing(p) = HeldIn(writing, For(p))
    <2>1. NoRes \notin For(p)
      BY NoneAssumption DEF For, Wins
    <2>2. QED
      BY <1>1, <2>1 DEF Pushing, HeldIn, TypeOK
  <1>4. \A q \in Seq(Result) : Successes(q, p) = CountIn(q, For(p))
    <2> SUFFICES ASSUME NEW q \in Seq(Result)
                 PROVE  Successes(q, p) = CountIn(q, For(p))
      OBVIOUS
    <2>1. \A i \in 1..Len(q) : q[i] \in Result
      OBVIOUS
    <2>2. {i \in 1..Len(q) : IsSuccess(q[i], p)} = {i \in 1..Len(q) : q[i] \in For(p)}
      BY <1>1, <2>1
    <2>3. QED
      BY <2>2 DEF Successes, CountIn
  <1>5. /\ Successes(handle2write, p) = CountIn(handle2write, For(p))
        /\ Successes(layer2proxy, p) = CountIn(layer2proxy, For(p))
    BY <1>4 DEF TypeOK
  <1>6. QED
    BY <1>2, <1>3, <1>5 DEF SuccessesInFlight, InFlight

LEMMA NothingInFlight ==
    ASSUME Init, NEW G \in SUBSET Wins
    PROVE  InFlight(G) = 0
  <1>1. /\ Answering(G) = {} /\ HeldIn(writing, G) = {}
        /\ handle2write = <<>> /\ layer2proxy = <<>>
    BY NoneAssumption DEF Init, FreshMemory, Answering, HeldIn, Wins
  <1>2. CountIn(handle2write, G) = 0 /\ CountIn(layer2proxy, G) = 0
    <2>1. TypeOK
      BY TypeInit
    <2>2. QED
      BY <1>1, <2>1, CountType DEF TypeOK
  <1>3. QED
    BY <1>1, <1>2, FS_EmptySet DEF InFlight

\* The sale that CountSale counts is the one its result is about.
LEMMA SaleCounted ==
    ASSUME TypeOK, NEW h \in Handlers, CountSale(h), NEW p \in Products
    PROVE  everSold'[p] = everSold[p] + Weight(Token(h), For(p))
  <1>1. /\ req[h].product \in Products /\ Token(h) \in Wins
        /\ Token(h).product = req[h].product
    <2>1. req[h] \in Request
      BY HandlerHasRequest DEF CountSale
    <2>2. QED
      BY <2>1 DEF Token, Wins, Result, Request, Codes
  <1>2. Weight(Token(h), For(p)) = IF req[h].product = p THEN 1 ELSE 0
    BY <1>1 DEF Weight, For
  <1>3. QED
    BY <1>1, <1>2 DEF CountSale, TypeOK

\* However results are dropped, lost on the way to redis or forgotten by a
\* restart, every success under way belongs to a counted sale of its own.
THEOREM SuccessesProved == Spec => []SuccessBacked
  <1> DEFINE Backed == \A p \in Products : InFlight(For(p)) <= everSold[p]
  <1>1. Init => Backed
    <2> SUFFICES ASSUME Init, NEW p \in Products PROVE InFlight(For(p)) <= everSold[p]
      OBVIOUS
    <2>1. For(p) \in SUBSET Wins /\ everSold[p] = 0
      BY DEF For, Init
    <2>2. QED
      BY <2>1, NothingInFlight
  <1>2. TypeOK /\ Backed /\ [Next]_vars => Backed'
    <2> SUFFICES ASSUME TypeOK, TypeOK', Backed, [Next]_vars, NEW p \in Products
                 PROVE  InFlight(For(p))' <= everSold'[p]
      BY TypeStep
    <2> DEFINE G == For(p)
    <2>1. G \in SUBSET Wins
      BY DEF For
    <2>2. /\ InFlight(G) \in Nat /\ everSold[p] \in Nat /\ everSold'[p] \in Nat
          /\ InFlight(G) <= everSold[p]
      BY InFlightTypes DEF TypeOK
    <2>3. InFlight(G)' \in Nat
      BY <2>1, SuccessConserved
    <2>4. CASE InFlight(G)' <= InFlight(G) /\ everSold' = everSold
      BY <2>2, <2>3, <2>4
    <2>5. ASSUME NEW h \in Handlers, CountSale(h),
                 InFlight(G)' = InFlight(G) + Weight(Token(h), G)
          PROVE  InFlight(G)' <= everSold'[p]
      <3>1. everSold'[p] = everSold[p] + Weight(Token(h), G)
        BY <2>5, SaleCounted
      <3>2. Weight(Token(h), G) \in Nat
        BY WeightType
      <3>3. QED
        BY <2>2, <2>5, <3>1, <3>2
    <2>6. QED
      BY <2>1, <2>4, <2>5, SuccessConserved
  <1>3. TypeOK /\ Backed => SuccessBacked
    BY ForProduct DEF SuccessBacked
  <1> HIDE DEF Backed
  <1>4. QED
    BY <1>1, <1>2, <1>3, TypeInit, TypeStep, PTL DEF Spec

-----------------------------------------------------------------------------
(* The two ledgers *)

\* LedgersAgree speaks of cardinalities, so finiteness comes with it: only
\* finitely many purchases have been made, however many users there are.
LedgerInv == LedgersAgree /\ \A p \in Products : IsFiniteSet(Bought(p))

LEMMA BoughtMembers ==
    ASSUME NEW p
    PROVE  \A x : x \in Bought(p) <=> \E u \in Users : \E n \in 1..history[u][p] : x = <<u, n>>
  BY DEF Bought

\* One more purchase in a history is one more element.
LEMMA BoughtGrows ==
    ASSUME TypeOK, NEW u \in Users, NEW p \in Products,
           history' = [history EXCEPT ![u][p] = @ + 1]
    PROVE  /\ \E x : x \notin Bought(p) /\ Bought(p)' = Bought(p) \cup {x}
           /\ \A q \in Products \ {p} : Bought(q)' = Bought(q)
  <1>1. /\ history \in [Users -> [Products -> Nat]]
        /\ history'[u][p] = history[u][p] + 1
        /\ \A v \in Users, q \in Products : v # u \/ q # p => history'[v][q] = history[v][q]
    BY DEF TypeOK
  <1>2. \A q \in Products \ {p} : Bought(q)' = Bought(q)
    BY <1>1 DEF Bought
  <1> DEFINE x == <<u, history[u][p] + 1>>
  <1>3. x \notin Bought(p)
    <2>1. history[u][p] + 1 \notin 1..history[u][p]
      BY <1>1
    <2>2. QED
      BY <2>1, BoughtMembers
  <1>4. Bought(p)' = Bought(p) \cup {x}
    <2>1. \A v \in Users : v # u => 1..history'[v][p] = 1..history[v][p]
      BY <1>1
    <2>2. 1..history'[u][p] = (1..history[u][p]) \cup {history[u][p] + 1}
      BY <1>1
    <2>3. \A y : y \in Bought(p)' <=> \E v \in Users : \E n \in 1..history'[v][p] : y = <<v, n>>
      BY DEF Bought
    <2>4. \A y : y \in Bought(p)' <=> y \in Bought(p) \/ y = x
      BY <2>1, <2>2, <2>3, BoughtMembers
    <2>5. QED
      BY <2>4
  <1>5. QED
    BY <1>2, <1>3, <1>4

LEMMA AgreeHandler ==
    ASSUME TypeOK, LedgerInv, NEW h \in Handlers, HandlerStep(h), NEW p \in Products
    PROVE  /\ IsFiniteSet(Bought(p)')
           /\ Cardinality(Bought(p)') = sold'[p] + Cardinality(Uncounted(p)')
  <1> USE DEF queues, chans, ends, frame, catalog, ledger
  <1>1. /\ IsFiniteSet(Bought(p))
        /\ Cardinality(Bought(p)) = sold[p] + Cardinality(Uncounted(p))
        /\ sold[p] \in Nat
    BY DEF LedgerInv, LedgersAgree, TypeOK
  <1>2. IsFiniteSet(Uncounted(p)) /\ Cardinality(Uncounted(p)) \in Nat
    BY HandlerSets DEF Uncounted
  <1>3. CASE UNCHANGED <<history, sold>> /\ Uncounted(p)' = Uncounted(p)
    BY <1>1, <1>3 DEF Bought
  <1>4. CASE HandlerReceive(h)
    BY <1>3, <1>4 DEF HandlerReceive, Uncounted, TypeOK
  <1>5. CASE Lookup(h)
    BY <1>3, <1>5 DEF Lookup, Refuse, Goto, Uncounted, TypeOK
  <1>6. CASE CheckHistory(h)
    BY <1>3, <1>6 DEF CheckHistory, LimitReached, Refuse, Goto, Uncounted, TypeOK
  <1>7. CASE CheckStock(h)
    BY <1>3, <1>7 DEF CheckStock, StockLeft, Refuse, Goto, Uncounted, TypeOK
  <1>8. CASE MarkSoldout(h)
    BY <1>3, <1>8 DEF MarkSoldout, Refuse, Uncounted, TypeOK
  <1>9. CASE RecordHistory(h)
    <2>1. PICK u \in Users, q \in Products : u = req[h].user /\ q = req[h].product
      BY <1>9, HandlerHasRequest DEF RecordHistory
    <2>2. /\ \E x : x \notin Bought(q) /\ Bought(q)' = Bought(q) \cup {x}
          /\ \A d \in Products \ {q} : Bought(d)' = Bought(d)
      BY <1>9, <2>1, BoughtGrows DEF RecordHistory
    <2>3. CASE q = p
      <3>1. h \notin Uncounted(p) /\ Uncounted(p)' = Uncounted(p) \cup {h}
        BY <1>9, <2>1, <2>3 DEF RecordHistory, Goto, Uncounted, TypeOK
      <3>2. Cardinality(Uncounted(p)') = Cardinality(Uncounted(p)) + 1
        BY <1>2, <3>1, FS_AddElement
      <3>3. IsFiniteSet(Bought(p)') /\ Cardinality(Bought(p)') = Cardinality(Bought(p)) + 1
        <4>1. PICK x : x \notin Bought(p) /\ Bought(p)' = Bought(p) \cup {x}
          BY <2>2, <2>3
        <4>2. QED
          BY <1>1, <4>1, FS_AddElement
      <3>4. sold' = sold
        BY <1>9 DEF RecordHistory
      <3>5. QED
        BY <1>1, <1>2, <3>2, <3>3, <3>4
    <2>4. CASE q # p
      <3>1. Uncounted(p)' = Uncounted(p) /\ Bought(p)' = Bought(p) /\ sold' = sold
        BY <1>9, <2>1, <2>2, <2>4 DEF RecordHistory, Goto, Uncounted, TypeOK
      <3>2. QED
        BY <1>1, <3>1
    <2>5. QED
      BY <2>3, <2>4
  <1>10. CASE CountSale(h)
    <2>1. Bought(p)' = Bought(p)
      BY <1>10 DEF CountSale, Bought
    <2>2. CASE req[h].product = p
      <3>1. /\ h \in Uncounted(p) /\ Uncounted(p)' = Uncounted(p) \ {h}
            /\ sold'[p] = sold[p] + 1
        BY <1>10, <2>2 DEF CountSale, Uncounted, TypeOK
      <3>2. Cardinality(Uncounted(p)') = Cardinality(Uncounted(p)) - 1
        BY <1>2, <3>1, FS_RemoveElement
      <3>3. QED
        BY <1>1, <1>2, <2>1, <3>1, <3>2
    <2>3. CASE req[h].product # p
      <3>1. Uncounted(p)' = Uncounted(p) /\ sold'[p] = sold[p]
        BY <1>10, <2>3 DEF CountSale, Uncounted, TypeOK
      <3>2. QED
        BY <1>1, <2>1, <3>1
    <2>4. QED
      BY <2>2, <2>3
  <1>11. CASE HandlerSend(h)
    BY <1>3, <1>11 DEF HandlerSend, Uncounted, TypeOK
  <1>12. CASE HandlerDrop(h)
    BY <1>3, <1>12 DEF HandlerDrop, Uncounted, TypeOK
  <1>13. QED
    BY <1>4, <1>5, <1>6, <1>7, <1>8, <1>9, <1>10, <1>11, <1>12 DEF HandlerStep

\* Empty ledgers agree.
LEMMA AgreeFresh ==
    ASSUME NEW p \in Products, history = [u \in Users |-> [q \in Products |-> 0]],
           sold = [q \in Products |-> 0], pc = [h \in Handlers |-> "idle"]
    PROVE  /\ IsFiniteSet(Bought(p))
           /\ Cardinality(Bought(p)) = sold[p] + Cardinality(Uncounted(p))
  <1>1. Bought(p) = {} /\ Uncounted(p) = {} /\ sold[p] = 0
    BY DEF Bought, Uncounted
  <1>2. QED
    BY <1>1, FS_EmptySet

LEMMA AgreeStep == TypeOK /\ LedgerInv /\ [Next]_vars => LedgerInv'
  <1> SUFFICES ASSUME TypeOK, LedgerInv, [Next]_vars, NEW p \in Products
               PROVE  /\ IsFiniteSet(Bought(p)')
                      /\ Cardinality(Bought(p)') = sold'[p] + Cardinality(Uncounted(p)')
    BY DEF LedgerInv, LedgersAgree
  <1>1. CASE \E h \in Handlers : HandlerStep(h)
    BY <1>1, AgreeHandler
  <1>2. CASE Restart
    <2>1. Bought(p)' = {} /\ Uncounted(p)' = {} /\ sold'[p] = 0
      BY <1>2 DEF Restart, FreshMemory, Bought, Uncounted
    <2>2. QED
      BY <2>1, FS_EmptySet
  <1>3. CASE UNCHANGED <<frame, ledger, status, restarts>>
    BY <1>3 DEF frame, ledger, LedgerInv, LedgersAgree, Bought, Uncounted
  <1>4. QED
    BY <1>1, <1>2, <1>3, OtherSteps

\* The histories of all users add up to the product's count and the handlers
\* between the two calls, in every interleaving of any number of handlers.
THEOREM LedgersProved == Spec => []LedgersAgree
  <1>1. Init => LedgerInv
    BY AgreeFresh DEF Init, FreshMemory, LedgerInv, LedgersAgree
  <1>2. LedgerInv => LedgersAgree
    BY DEF LedgerInv
  <1>3. QED
    BY <1>1, <1>2, AgreeStep, TypeInit, TypeStep, PTL DEF Spec
=============================================================================
