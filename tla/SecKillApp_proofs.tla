------------------------- MODULE SecKillApp_proofs -------------------------
(***************************************************************************)
(* Proofs about the request path of sk-app, for any number of calls,       *)
(* goroutines, users and products.                                         *)
(***************************************************************************)
EXTENDS SecKillApp, Counting, SequenceTheorems, FiniteSetTheorems, TLAPS

-----------------------------------------------------------------------------
(* Type correctness *)

LEMMA WithoutType ==
    ASSUME NEW S, NEW q \in Seq(S), NEW i \in 1..Len(q)
    PROVE  Without(q, i) \in Seq(S) /\ q[i] \in S
  <1>1. SubSeq(q, 1, i - 1) \in Seq(S)
    BY SubSeqProperties
  <1>2. SubSeq(q, i + 1, Len(q)) \in Seq(S)
    BY SubSeqProperties
  <1>3. QED
    BY <1>1, <1>2, ConcatProperties DEF Without

LEMMA AppTypeInit == AppInit => AppTypeOK
  <1> SUFFICES ASSUME AppInit PROVE AppTypeOK
    OBVIOUS
  <1>1. /\ <<>> \in Seq(Request) /\ <<>> \in Seq(Result) /\ <<>> \in Seq(Calls)
        /\ Len(<<>>) = 0
    OBVIOUS
  <1>2. QED
    BY <1>1, AppBoundsAssumption DEF AppInit, AppTypeOK, Places, Outcomes

LEMMA AppTypeCall ==
    ASSUME AppTypeOK, NEW c \in Calls, CallStep(c)
    PROVE  AppTypeOK'
  <1> USE DEF queues, callers, readers, Move
  <1>0. KeyOf[c] \in Request
    BY CallsAssumption
  <1>1. CASE CallRefused(c)
    BY <1>1 DEF CallRefused, AppTypeOK, Places, Outcomes
  <1>2. CASE CallAdmitted(c)
    BY <1>2 DEF CallAdmitted, AppTypeOK, Places
  <1>3. CASE CallRegister(c)
    BY <1>0, <1>3 DEF CallRegister, AppTypeOK, Places
  <1>4. CASE CallEnqueue(c)
    <2>1. /\ Append(secReqChan, c) \in Seq(Calls)
          /\ Len(Append(secReqChan, c)) <= ReqCap
      BY <1>4, QueueFacts, AppBoundsAssumption DEF CallEnqueue, AppTypeOK
    <2>2. QED
      BY <1>4, <2>1 DEF CallEnqueue, AppTypeOK, Places
  <1>5. CASE CallTimeout(c)
    BY <1>5 DEF CallTimeout, AppTypeOK, Places, Outcomes
  <1>6. CASE CallReceive(c)
    <2>1. /\ Head(buf[c]) \in Result /\ Tail(buf[c]) \in Seq(Result)
          /\ Len(Tail(buf[c])) <= 1
      BY <1>6, QueueFacts DEF CallReceive, AppTypeOK
    <2>2. Head(buf[c]).code \in Outcomes
      BY <2>1 DEF Result, Outcomes
    <2>3. buf' \in [Calls -> Seq(Result)] /\ \A d \in Calls : Len(buf'[d]) <= 1
      BY <1>6, <2>1 DEF CallReceive, AppTypeOK
    <2>4. QED
      BY <1>6, <2>2, <2>3 DEF CallReceive, AppTypeOK, Places
  <1>7. CASE CallCleanup(c)
    BY <1>0, <1>7 DEF CallCleanup, AppTypeOK, Places
  <1>8. QED
    BY <1>1, <1>2, <1>3, <1>4, <1>5, <1>6, <1>7 DEF CallStep

LEMMA AppTypeWrite ==
    ASSUME AppTypeOK, NEW w \in AppWriters, WriteStep(w)
    PROVE  AppTypeOK'
  <1> USE DEF queues, callers, readers
  <1>1. CASE WriteTake(w)
    <2>1. /\ Head(secReqChan) \in Calls /\ Tail(secReqChan) \in Seq(Calls)
          /\ Len(Tail(secReqChan)) <= ReqCap
      BY <1>1, QueueFacts, AppBoundsAssumption DEF WriteTake, AppTypeOK
    <2>2. QED
      BY <1>1, <2>1 DEF WriteTake, AppTypeOK
  <1>2. CASE WritePush(w)
    <2>1. Append(proxy2layer, KeyOf[sending[w]]) \in Seq(Request)
      <3>1. KeyOf[sending[w]] \in Request
        BY <1>2, CallsAssumption DEF WritePush, AppTypeOK
      <3>2. QED
        BY <3>1, QueueFacts DEF AppTypeOK
    <2>2. QED
      BY <1>2, <2>1 DEF WritePush, AppTypeOK
  <1>3. CASE WriteFail(w)
    BY <1>3 DEF WriteFail, AppTypeOK
  <1>4. QED
    BY <1>1, <1>2, <1>3 DEF WriteStep

LEMMA AppTypeRead ==
    ASSUME AppTypeOK, NEW r \in AppReaders, ReadStep(r),
           target[r] # NoCall => popped[r] # NoRes
    PROVE  AppTypeOK'
  <1> USE DEF queues, callers, readers
  <1>1. CASE ReadPop(r)
    <2>1. Head(layer2proxy) \in Result /\ Tail(layer2proxy) \in Seq(Result)
      BY <1>1, QueueFacts DEF ReadPop, AppTypeOK
    <2>2. QED
      BY <1>1, <2>1 DEF ReadPop, AppTypeOK
  <1>2. CASE ReadLookup(r)
    <2>1. KeyOfResult(popped[r]) \in Request
      BY <1>2 DEF ReadLookup, AppTypeOK, KeyOfResult, Result, Request
    <2>2. userConnMap[KeyOfResult(popped[r])] \in Calls
      BY <1>2, <2>1 DEF ReadLookup, AppTypeOK
    <2>3. QED
      BY <1>2, <2>2 DEF ReadLookup, AppTypeOK
  <1>3. CASE ReadDrop(r)
    BY <1>3 DEF ReadDrop, AppTypeOK
  <1>4. CASE ReadDeliver(r)
    <2>1. target[r] \in Calls /\ popped[r] \in Result
      BY <1>4 DEF ReadDeliver, AppTypeOK
    <2>2. /\ Append(buf[target[r]], popped[r]) \in Seq(Result)
          /\ Len(Append(buf[target[r]], popped[r])) = 1
      <3>1. buf[target[r]] = <<>>
        BY <1>4 DEF ReadDeliver
      <3>2. QED
        BY <2>1, <3>1
    <2>3. buf' \in [Calls -> Seq(Result)] /\ \A d \in Calls : Len(buf'[d]) <= 1
      BY <1>4, <2>1, <2>2 DEF ReadDeliver, AppTypeOK
    <2>4. QED
      BY <1>4, <2>3 DEF ReadDeliver, AppTypeOK
  <1>5. QED
    BY <1>1, <1>2, <1>3, <1>4 DEF ReadStep

LEMMA AppTypeEnv ==
    ASSUME AppTypeOK, ForeignPop \/ CoreStep
    PROVE  AppTypeOK'
  <1> USE DEF queues, callers, readers
  <1>1. CASE ForeignPop
    <2>1. Tail(layer2proxy) \in Seq(Result)
      BY <1>1, QueueFacts DEF ForeignPop, AppTypeOK
    <2>2. QED
      BY <1>1, <2>1 DEF ForeignPop, AppTypeOK
  <1>2. ASSUME NEW i \in 1..Len(proxy2layer), CoreLose(i) PROVE AppTypeOK'
    <2>1. Without(proxy2layer, i) \in Seq(Request)
      BY WithoutType DEF AppTypeOK
    <2>2. QED
      BY <1>2, <2>1 DEF CoreLose, AppTypeOK
  <1>3. ASSUME NEW i \in 1..Len(proxy2layer), NEW code \in Codes, CoreAnswer(i, code)
        PROVE  AppTypeOK'
    <2>1. /\ Without(proxy2layer, i) \in Seq(Request)
          /\ proxy2layer[i] \in Request
      BY WithoutType DEF AppTypeOK
    <2> DEFINE res == [user |-> proxy2layer[i].user,
                       product |-> proxy2layer[i].product, code |-> code]
    <2>2. res \in Result
      BY <2>1 DEF Request, Result
    <2>3. Append(layer2proxy, res) \in Seq(Result)
      BY <2>2, QueueFacts DEF AppTypeOK
    <2>4. QED
      BY <1>3, <2>1, <2>3 DEF CoreAnswer, AppTypeOK
  <1>4. QED
    BY <1>1, <1>2, <1>3 DEF CoreStep

-----------------------------------------------------------------------------
(* Delivery and the connection map *)

\* KeyedDelivery and NoLeakedEntry are inductive together with the types: a
\* lookup finds only calls of that key.
AppInv == AppTypeOK /\ KeyedDelivery /\ NoLeakedEntry

LEMMA DeliverStep == AppInv /\ [Next]_appVars => AppInv'
  <1> SUFFICES ASSUME AppTypeOK, KeyedDelivery, NoLeakedEntry, [Next]_appVars
               PROVE  AppInv'
    BY DEF AppInv
  <1> USE DEF queues, callers, readers, Move
  <1>1. ASSUME NEW c \in Calls, CallStep(c) PROVE AppInv'
    <2>1. AppTypeOK'
      BY <1>1, AppTypeCall
    <2>2. KeyedDelivery'
      <3>1. CASE CallReceive(c)
        <4>1. \A i \in 1..Len(Tail(buf[c])) :
                 i + 1 \in 1..Len(buf[c]) /\ Tail(buf[c])[i] = buf[c][i + 1]
          BY <3>1, QueueFacts DEF CallReceive, AppTypeOK
        <4>2. QED
          BY <3>1, <4>1 DEF CallReceive, KeyedDelivery, AppTypeOK
      <3>2. CASE ~CallReceive(c)
        <4>1. UNCHANGED <<buf, popped, target>>
          BY <1>1, <3>2 DEF CallStep, CallRefused, CallAdmitted, CallRegister,
             CallEnqueue, CallTimeout, CallCleanup
        <4>2. QED
          BY <4>1 DEF KeyedDelivery
      <3>3. QED
        BY <3>1, <3>2
    <2>3. NoLeakedEntry'
      <3>0. KeyOf[c] \in Request
        BY CallsAssumption
      <3>1. CASE CallRefused(c)
        BY <3>1 DEF CallRefused, NoLeakedEntry, AppTypeOK
      <3>2. CASE CallAdmitted(c)
        BY <3>2 DEF CallAdmitted, NoLeakedEntry, AppTypeOK
      <3>3. CASE CallRegister(c)
        BY <3>0, <3>3 DEF CallRegister, NoLeakedEntry, AppTypeOK
      <3>4. CASE CallEnqueue(c)
        BY <3>4 DEF CallEnqueue, NoLeakedEntry, AppTypeOK
      <3>5. CASE CallTimeout(c)
        BY <3>5 DEF CallTimeout, NoLeakedEntry, AppTypeOK
      <3>6. CASE CallReceive(c)
        BY <3>6 DEF CallReceive, NoLeakedEntry, AppTypeOK
      <3>7. CASE CallCleanup(c)
        BY <3>0, <3>7 DEF CallCleanup, NoLeakedEntry, AppTypeOK
      <3>8. QED
        BY <1>1, <3>1, <3>2, <3>3, <3>4, <3>5, <3>6, <3>7 DEF CallStep
    <2>4. QED
      BY <2>1, <2>2, <2>3 DEF AppInv
  <1>2. ASSUME NEW w \in AppWriters, WriteStep(w) PROVE AppInv'
    <2>1. AppTypeOK'
      BY <1>2, AppTypeWrite
    <2>2. UNCHANGED <<userConnMap, buf, at, popped, target>>
      BY <1>2 DEF WriteStep, WriteTake, WritePush, WriteFail
    <2>3. QED
      BY <2>1, <2>2 DEF AppInv, KeyedDelivery, NoLeakedEntry
  <1>3. ASSUME NEW r \in AppReaders, ReadStep(r) PROVE AppInv'
    <2>1. AppTypeOK'
      BY <1>3, AppTypeRead DEF KeyedDelivery
    <2>2. NoLeakedEntry'
      <3>1. UNCHANGED <<userConnMap, at>>
        BY <1>3 DEF ReadStep, ReadPop, ReadLookup, ReadDrop, ReadDeliver
      <3>2. QED
        BY <3>1 DEF NoLeakedEntry
    <2>3. KeyedDelivery'
      <3>1. CASE ReadPop(r)
        <4>1. target[r] = NoCall
          BY <3>1 DEF ReadPop, KeyedDelivery
        <4>2. QED
          BY <3>1, <4>1 DEF ReadPop, KeyedDelivery, AppTypeOK
      <3>2. CASE ReadLookup(r)
        <4>1. KeyOfResult(popped[r]) \in Request
          BY <3>2 DEF ReadLookup, AppTypeOK, KeyOfResult, Result, Request
        <4>2. KeyOf[userConnMap[KeyOfResult(popped[r])]] = KeyOfResult(popped[r])
          BY <3>2, <4>1 DEF ReadLookup, NoLeakedEntry
        <4>3. QED
          BY <3>2, <4>2 DEF ReadLookup, KeyedDelivery, AppTypeOK
      <3>3. CASE ReadDrop(r)
        BY <3>3 DEF ReadDrop, KeyedDelivery, AppTypeOK
      <3>4. CASE ReadDeliver(r)
        <4>1. target[r] \in Calls /\ KeyOfResult(popped[r]) = KeyOf[target[r]]
          BY <3>4 DEF ReadDeliver, KeyedDelivery, AppTypeOK
        <4>2. \A i \in 1..Len(Append(buf[target[r]], popped[r])) :
                  Append(buf[target[r]], popped[r])[i] = popped[r]
          BY <3>4 DEF ReadDeliver
        <4>3. \A d \in Calls : \A i \in 1..Len(buf'[d]) :
                  KeyOfResult(buf'[d][i]) = KeyOf[d]
          BY <3>4, <4>1, <4>2 DEF ReadDeliver, KeyedDelivery, AppTypeOK
        <4>4. \A s \in AppReaders : target'[s] # NoCall =>
                  popped'[s] # NoRes /\ KeyOfResult(popped'[s]) = KeyOf[target'[s]]
          BY <3>4 DEF ReadDeliver, KeyedDelivery, AppTypeOK
        <4>5. QED
          BY <4>3, <4>4 DEF KeyedDelivery
      <3>5. QED
        BY <1>3, <3>1, <3>2, <3>3, <3>4 DEF ReadStep
    <2>4. QED
      BY <2>1, <2>2, <2>3 DEF AppInv
  <1>4. CASE ForeignPop \/ CoreStep
    <2>1. AppTypeOK'
      BY <1>4, AppTypeEnv
    <2>2. UNCHANGED <<userConnMap, buf, at, popped, target>>
      BY <1>4 DEF ForeignPop, CoreStep, CoreLose, CoreAnswer
    <2>3. QED
      BY <2>1, <2>2 DEF AppInv, KeyedDelivery, NoLeakedEntry
  <1>5. CASE UNCHANGED appVars
    BY <1>5 DEF appVars, AppInv, AppTypeOK, KeyedDelivery, NoLeakedEntry
  <1>6. QED
    BY <1>1, <1>2, <1>3, <1>4, <1>5 DEF Next, AppNext

LEMMA AppInvariant == Spec => []AppInv
  <1>1. AppInit => AppInv
    <2>1. AppInit => KeyedDelivery /\ NoLeakedEntry
      BY DEF AppInit, KeyedDelivery, NoLeakedEntry
    <2>2. QED
      BY <2>1, AppTypeInit DEF AppInv
  <1>2. QED
    BY <1>1, DeliverStep, PTL DEF Spec

\* Every variable of the request path keeps its type; in particular no
\* channel ever holds more than its capacity.
THEOREM AppTypeCorrect == Spec => []AppTypeOK
  BY AppInvariant, PTL DEF AppInv

\* However calls of one user overlap, replace and delete each other's
\* entries, a result only reaches a call for the user and product it is about.
THEOREM DeliveryKeyed == Spec => []KeyedDelivery
  BY AppInvariant, PTL DEF AppInv

\* UserConnMap only holds channels of calls that are still under way, each
\* under its own key.
THEOREM NoEntryLeaks == Spec => []NoLeakedEntry
  BY AppInvariant, PTL DEF AppInv

-----------------------------------------------------------------------------
(* What the goroutines hold *)

LEMMA CountWithout ==
    ASSUME NEW S, NEW q \in Seq(S), NEW i \in 1..Len(q), NEW G
    PROVE  CountIn(Without(q, i), G) + Weight(q[i], G) <= CountIn(q, G)
  BY CountRemove DEF Without

LEMMA WriterChanges ==
    ASSUME AppTypeOK, NEW w \in AppWriters, NEW x, NEW G,
           sending' = [sending EXCEPT ![w] = x]
    PROVE  /\ Cardinality(HeldIn(sending, G)) \in Nat
           /\ Cardinality(HeldIn(sending', G)) \in Nat
           /\ Cardinality(HeldIn(sending', G)) + Weight(sending[w], G)
                  = Cardinality(HeldIn(sending, G)) + Weight(x, G)
  <1>1. /\ DOMAIN sending = AppWriters /\ DOMAIN sending' = AppWriters
        /\ IsFiniteSet(AppWriters) /\ sending'[w] = x
        /\ \A u \in AppWriters : u # w => sending'[u] = sending[u]
    BY AppGoroutinesAssumption DEF AppTypeOK
  <1> DEFINE f == sending
             g == sending'
  <1> HIDE DEF f, g
  <1>2. /\ Cardinality(HeldIn(f, G)) \in Nat
        /\ Cardinality(HeldIn(g, G)) \in Nat
        /\ Cardinality(HeldIn(g, G)) + Weight(f[w], G)
               = Cardinality(HeldIn(f, G)) + Weight(g[w], G)
    <2>1. /\ IsFiniteSet(DOMAIN f) /\ DOMAIN g = DOMAIN f /\ w \in DOMAIN f
          /\ \A u \in DOMAIN f : u # w => g[u] = f[u]
      BY <1>1 DEF f, g
    <2>2. QED
      BY <2>1, HandChanges
  <1>3. QED
    BY <1>1, <1>2 DEF f, g

LEMMA ReaderChanges ==
    ASSUME AppTypeOK, NEW r \in AppReaders, NEW x, NEW G,
           popped' = [popped EXCEPT ![r] = x]
    PROVE  /\ Cardinality(HeldIn(popped, G)) \in Nat
           /\ Cardinality(HeldIn(popped', G)) \in Nat
           /\ Cardinality(HeldIn(popped', G)) + Weight(popped[r], G)
                  = Cardinality(HeldIn(popped, G)) + Weight(x, G)
  <1>1. /\ DOMAIN popped = AppReaders /\ DOMAIN popped' = AppReaders
        /\ IsFiniteSet(AppReaders) /\ popped'[r] = x
        /\ \A u \in AppReaders : u # r => popped'[u] = popped[u]
    BY AppGoroutinesAssumption DEF AppTypeOK
  <1> DEFINE f == popped
             g == popped'
  <1> HIDE DEF f, g
  <1>2. /\ Cardinality(HeldIn(f, G)) \in Nat
        /\ Cardinality(HeldIn(g, G)) \in Nat
        /\ Cardinality(HeldIn(g, G)) + Weight(f[r], G)
               = Cardinality(HeldIn(f, G)) + Weight(g[r], G)
    <2>1. /\ IsFiniteSet(DOMAIN f) /\ DOMAIN g = DOMAIN f /\ r \in DOMAIN f
          /\ \A u \in DOMAIN f : u # r => g[u] = f[u]
      BY <1>1 DEF f, g
    <2>2. QED
      BY <2>1, HandChanges
  <1>3. QED
    BY <1>1, <1>2 DEF f, g

-----------------------------------------------------------------------------
(* Every request in flight is one call's.  A call becomes entered when it   *)
(* sends its request to SecReqChan (or is refused) and stays so; what is    *)
(* anywhere between SecReqChan and the channels of the calls for one key    *)
(* never exceeds the entered calls of that key.  Calls need not be finite:  *)
(* that the entered calls are so is part of the invariant.                  *)

Mine(k)  == {c \in Calls : KeyOf[c] = k}
About(k) == {res \in Result : KeyOfResult(res) = k}
Early    == {"new", "register", "enqueue"}

Filled(b, k)  == {c \in Mine(k) : b[c] # <<>>}
Entered(a, k) == {c \in Mine(k) : a[c] \notin Early}

Asked(k)     == CountIn(secReqChan, Mine(k))
                + Cardinality(HeldIn(sending, Mine(k)))
                + CountIn(proxy2layer, {k})
Replied(k)   == CountIn(layer2proxy, About(k))
                + Cardinality(HeldIn(popped, About(k)))
Delivered(k) == Cardinality(Filled(buf, k))

FlowOf(k) ==
    /\ IsFiniteSet(Entered(at, k))
    /\ IsFiniteSet(Filled(buf, k))
    /\ Asked(k) + Replied(k) + Delivered(k) <= Cardinality(Entered(at, k))

Flow == \A k \in Request : FlowOf(k)

LEMMA FlowTypes ==
    ASSUME AppTypeOK, NEW k, FlowOf(k)
    PROVE  /\ CountIn(secReqChan, Mine(k)) \in Nat
           /\ Cardinality(HeldIn(sending, Mine(k))) \in Nat
           /\ CountIn(proxy2layer, {k}) \in Nat
           /\ CountIn(layer2proxy, About(k)) \in Nat
           /\ Cardinality(HeldIn(popped, About(k))) \in Nat
           /\ Cardinality(Filled(buf, k)) \in Nat
           /\ Cardinality(Entered(at, k)) \in Nat
  <1>1. /\ CountIn(secReqChan, Mine(k)) \in Nat
        /\ CountIn(proxy2layer, {k}) \in Nat
        /\ CountIn(layer2proxy, About(k)) \in Nat
    BY CountType DEF AppTypeOK
  <1>2. HeldIn(sending, Mine(k)) \subseteq AppWriters
    BY DEF HeldIn, AppTypeOK
  <1>3. HeldIn(popped, About(k)) \subseteq AppReaders
    BY DEF HeldIn, AppTypeOK
  <1>4. /\ IsFiniteSet(HeldIn(sending, Mine(k)))
        /\ IsFiniteSet(HeldIn(popped, About(k)))
    BY <1>2, <1>3, FS_Subset, AppGoroutinesAssumption
  <1>5. QED
    BY <1>1, <1>4, FS_CardinalityType DEF FlowOf

\* A call that moves: it enters when it leaves the early places.
LEMMA EnteredChanges ==
    ASSUME AppTypeOK, NEW k, NEW c \in Calls, NEW place \in Places,
           IsFiniteSet(Entered(at, k)), at[c] \notin Early => place \notin Early
    PROVE  LET a == [at EXCEPT ![c] = place]
           IN  /\ IsFiniteSet(Entered(a, k))
               /\ Cardinality(Entered(a, k)) \in Nat
               /\ Cardinality(Entered(a, k)) >= Cardinality(Entered(at, k))
               /\ at[c] \in Early /\ place \notin Early =>
                     Cardinality(Entered(a, k))
                         = Cardinality(Entered(at, k)) + Weight(c, Mine(k))
  <1> DEFINE a == [at EXCEPT ![c] = place]
             A == Entered(at, k)
             B == Entered(a, k)
  <1>1. a[c] = place /\ \A d \in Calls : d # c => a[d] = at[d]
    BY DEF AppTypeOK
  <1> HIDE DEF a
  <1>2. B \ {c} = A \ {c}
    BY <1>1 DEF Entered, Mine
  <1>3. c \in A => c \in B
    BY <1>1 DEF Entered, Mine
  <1>4. at[c] \in Early /\ place \notin Early =>
           c \notin A /\ (c \in B <=> c \in Mine(k))
    BY <1>1 DEF Entered
  <1>5. IsFiniteSet(A)
    OBVIOUS
  <1> HIDE DEF A, B
  <1>6. /\ IsFiniteSet(B) /\ Cardinality(A) \in Nat /\ Cardinality(B) \in Nat
        /\ Cardinality(B) + Weight(c, A) = Cardinality(A) + Weight(c, B)
    BY <1>2, <1>5, SetChanges
  <1>7. Cardinality(B) >= Cardinality(A)
    BY <1>3, <1>6 DEF Weight
  <1>8. at[c] \in Early /\ place \notin Early =>
           Cardinality(B) = Cardinality(A) + Weight(c, Mine(k))
    BY <1>4, <1>6 DEF Weight
  <1>9. QED
    BY <1>6, <1>7, <1>8 DEF A, B, a

LEMMA FilledChanges ==
    ASSUME AppTypeOK, NEW k, NEW c \in Calls, NEW q, IsFiniteSet(Filled(buf, k))
    PROVE  LET b == [buf EXCEPT ![c] = q]
           IN  /\ IsFiniteSet(Filled(b, k))
               /\ Cardinality(Filled(b, k)) \in Nat
               /\ q = <<>> => Cardinality(Filled(b, k)) <= Cardinality(Filled(buf, k))
               /\ q # <<>> /\ buf[c] = <<>> =>
                     Cardinality(Filled(b, k))
                         = Cardinality(Filled(buf, k)) + Weight(c, Mine(k))
  <1> DEFINE b == [buf EXCEPT ![c] = q]
             A == Filled(buf, k)
             B == Filled(b, k)
  <1>1. b[c] = q /\ \A d \in Calls : d # c => b[d] = buf[d]
    BY DEF AppTypeOK
  <1> HIDE DEF b
  <1>2. B \ {c} = A \ {c}
    BY <1>1 DEF Filled, Mine
  <1>3. q = <<>> => c \notin B
    BY <1>1 DEF Filled
  <1>4. q # <<>> /\ buf[c] = <<>> => c \notin A /\ (c \in B <=> c \in Mine(k))
    BY <1>1 DEF Filled
  <1>5. IsFiniteSet(A)
    OBVIOUS
  <1> HIDE DEF A, B
  <1>6. /\ IsFiniteSet(B) /\ Cardinality(A) \in Nat /\ Cardinality(B) \in Nat
        /\ Cardinality(B) + Weight(c, A) = Cardinality(A) + Weight(c, B)
    BY <1>2, <1>5, SetChanges
  <1>7. q = <<>> => Cardinality(B) <= Cardinality(A)
    BY <1>3, <1>6 DEF Weight
  <1>8. q # <<>> /\ buf[c] = <<>> =>
           Cardinality(B) = Cardinality(A) + Weight(c, Mine(k))
    BY <1>4, <1>6 DEF Weight
  <1>9. QED
    BY <1>6, <1>7, <1>8 DEF A, B, b

-----------------------------------------------------------------------------
LEMMA FlowCall ==
    ASSUME AppTypeOK, NEW k \in Request, FlowOf(k), NEW c \in Calls, CallStep(c)
    PROVE  FlowOf(k)'
  <1> USE DEF queues, callers, readers, Move
  <1>0. /\ IsFiniteSet(Entered(at, k))
        /\ IsFiniteSet(Filled(buf, k))
        /\ Asked(k) + Replied(k) + Delivered(k) <= Cardinality(Entered(at, k))
    BY DEF FlowOf
  <1>1. CASE CallEnqueue(c)
    <2> DEFINE E == Cardinality(Entered(at, k))
               F == Cardinality(Entered(at', k))
               q == CountIn(secReqChan, Mine(k))
               r == CountIn(secReqChan', Mine(k))
               x == Cardinality(HeldIn(sending, Mine(k))) + CountIn(proxy2layer, {k})
                    + Replied(k) + Delivered(k)
    <2>1. /\ IsFiniteSet(Entered(at', k)) /\ F \in Nat
          /\ F = E + Weight(c, Mine(k))
      BY <1>0, <1>1, EnteredChanges DEF CallEnqueue, Places, Early
    <2>2. r = q + Weight(c, Mine(k))
      BY <1>1, CountAppend DEF CallEnqueue, AppTypeOK
    <2>3. /\ UNCHANGED <<sending, proxy2layer, buf>>
          /\ Replied(k)' = Replied(k) /\ Delivered(k)' = Delivered(k)
      BY <1>1 DEF CallEnqueue, Replied, Delivered
    <2>4. E \in Nat /\ q \in Nat /\ x \in Nat /\ q + x <= E
      BY <1>0, FlowTypes DEF Asked, Replied, Delivered
    <2>5. /\ (Asked(k) + Replied(k) + Delivered(k))'
                = r + Cardinality(HeldIn(sending, Mine(k))) + CountIn(proxy2layer, {k})
                  + Replied(k) + Delivered(k)
      BY <2>3 DEF Asked
    <2>6. (Asked(k) + Replied(k) + Delivered(k))' = r + x
      BY <2>2, <2>5, FlowTypes, WeightType DEF Replied, Delivered
    <2>7. r + x <= F
      <3> HIDE DEF E, F, q, r, x
      <3>1. QED
        BY <2>1, <2>2, <2>4, WeightType
    <2>8. IsFiniteSet(Filled(buf', k))
      BY <1>0, <2>3
    <2>9. QED
      BY <2>1, <2>6, <2>7, <2>8 DEF FlowOf
  <1>2. CASE CallReceive(c)
    <2>1. /\ IsFiniteSet(Entered(at', k)) /\ Cardinality(Entered(at', k)) \in Nat
          /\ Cardinality(Entered(at', k)) >= Cardinality(Entered(at, k))
      BY <1>0, <1>2, EnteredChanges DEF CallReceive, Places, Early
    <2>2. Tail(buf[c]) = <<>>
      BY <1>2 DEF CallReceive, AppTypeOK
    <2>3. /\ IsFiniteSet(Filled(buf', k)) /\ Cardinality(Filled(buf', k)) \in Nat
          /\ Cardinality(Filled(buf', k)) <= Cardinality(Filled(buf, k))
      BY <1>0, <1>2, <2>2, FilledChanges DEF CallReceive
    <2>4. Asked(k)' = Asked(k) /\ Replied(k)' = Replied(k)
      BY <1>2 DEF CallReceive, Asked, Replied
    <2>5. Delivered(k)' <= Delivered(k) /\ Delivered(k)' \in Nat
      BY <2>3 DEF Delivered
    <2>6. Asked(k) \in Nat /\ Replied(k) \in Nat /\ Delivered(k) \in Nat
          /\ Cardinality(Entered(at, k)) \in Nat
      BY FlowTypes DEF Asked, Replied, Delivered
    <2>7. Asked(k)' + Replied(k)' + Delivered(k)' <= Cardinality(Entered(at', k))
      BY <1>0, <2>1, <2>4, <2>5, <2>6
    <2>8. QED
      BY <2>1, <2>3, <2>7 DEF FlowOf
  <1>3. CASE ~CallEnqueue(c) /\ ~CallReceive(c)
    <2>1. UNCHANGED <<secReqChan, sending, proxy2layer, layer2proxy, popped, buf>>
      BY <1>3 DEF CallStep, CallRefused, CallAdmitted, CallRegister, CallTimeout,
         CallCleanup
    <2>2. PICK place \in Places : /\ at' = [at EXCEPT ![c] = place]
                                  /\ at[c] \notin Early => place \notin Early
      BY <1>3 DEF CallStep, CallRefused, CallAdmitted, CallRegister, CallTimeout,
         CallCleanup, Places, Early
    <2>3. /\ IsFiniteSet(Entered(at', k)) /\ Cardinality(Entered(at', k)) \in Nat
          /\ Cardinality(Entered(at', k)) >= Cardinality(Entered(at, k))
      BY <1>0, <2>2, EnteredChanges
    <2>4. /\ Asked(k)' = Asked(k) /\ Replied(k)' = Replied(k)
          /\ Delivered(k)' = Delivered(k)
      BY <2>1 DEF Asked, Replied, Delivered
    <2>5. Asked(k) \in Nat /\ Replied(k) \in Nat /\ Delivered(k) \in Nat
          /\ Cardinality(Entered(at, k)) \in Nat
      BY FlowTypes DEF Asked, Replied, Delivered
    <2>6. Asked(k)' + Replied(k)' + Delivered(k)' <= Cardinality(Entered(at', k))
      BY <1>0, <2>3, <2>4, <2>5
    <2>7. IsFiniteSet(Filled(buf', k))
      BY <1>0, <2>1
    <2>8. QED
      BY <2>3, <2>6, <2>7 DEF FlowOf
  <1>4. QED
    BY <1>1, <1>2, <1>3

\* A step of a writer, a reader or the environment: at stays, and the load
\* does not grow.
LEMMA FlowPassed ==
    ASSUME AppTypeOK, NEW k \in Request, FlowOf(k), at' = at,
           IsFiniteSet(Filled(buf', k)),
           Asked(k)' + Replied(k)' + Delivered(k)'
               <= Asked(k) + Replied(k) + Delivered(k),
           Asked(k)' + Replied(k)' + Delivered(k)' \in Nat
    PROVE  FlowOf(k)'
  <1>1. /\ Asked(k) + Replied(k) + Delivered(k) \in Nat
        /\ Cardinality(Entered(at, k)) \in Nat
    BY FlowTypes DEF Asked, Replied, Delivered
  <1>2. /\ IsFiniteSet(Entered(at', k))
        /\ Asked(k) + Replied(k) + Delivered(k) <= Cardinality(Entered(at', k))
    BY DEF FlowOf
  <1>3. Asked(k)' + Replied(k)' + Delivered(k)' <= Cardinality(Entered(at', k))
    BY <1>1, <1>2
  <1>4. QED
    BY <1>2, <1>3 DEF FlowOf

LEMMA FlowWrite ==
    ASSUME AppTypeOK, NEW k \in Request, FlowOf(k), NEW w \in AppWriters, WriteStep(w)
    PROVE  FlowOf(k)'
  <1> USE DEF queues, callers, readers
  <1> DEFINE h == Cardinality(HeldIn(sending, Mine(k)))
             g == Cardinality(HeldIn(sending', Mine(k)))
             q == CountIn(secReqChan, Mine(k))
             p == CountIn(proxy2layer, {k})
  <1>1. /\ UNCHANGED <<at, buf, layer2proxy, popped>>
        /\ IsFiniteSet(Filled(buf', k))
        /\ Replied(k)' = Replied(k) /\ Delivered(k)' = Delivered(k)
    <2>1. UNCHANGED <<at, buf, layer2proxy, popped>>
      BY DEF WriteStep, WriteTake, WritePush, WriteFail
    <2>2. QED
      BY <2>1 DEF FlowOf, Replied, Delivered
  <1>2. /\ h \in Nat /\ q \in Nat /\ p \in Nat
        /\ Replied(k) \in Nat /\ Delivered(k) \in Nat
    BY FlowTypes DEF Replied, Delivered
  <1>3. NoCall \notin Mine(k) /\ Weight(NoCall, Mine(k)) = 0
    BY AppNoneAssumption DEF Mine, Weight
  <1>4. Asked(k)' <= Asked(k) /\ Asked(k)' \in Nat
    <2>1. CASE WriteTake(w)
      <3> DEFINE c == Head(secReqChan)
                 r == CountIn(secReqChan', Mine(k))
      <3>1. /\ sending' = [sending EXCEPT ![w] = c] /\ sending[w] = NoCall
            /\ secReqChan # <<>> /\ secReqChan' = Tail(secReqChan)
            /\ proxy2layer' = proxy2layer
        BY <2>1 DEF WriteTake
      <3>2. g \in Nat /\ g + Weight(sending[w], Mine(k)) = h + Weight(c, Mine(k))
        <4> HIDE DEF c
        <4>1. QED
          BY <3>1, WriterChanges
      <3>3. r + Weight(c, Mine(k)) <= q
        BY <3>1, CountTail DEF AppTypeOK
      <3>4. r \in Nat
        <4>1. Tail(secReqChan) \in Seq(Calls)
          BY <3>1, QueueFacts DEF AppTypeOK
        <4>2. QED
          BY <3>1, <4>1, CountType
      <3>5. Asked(k)' = r + g + p /\ Asked(k) = q + h + p
        BY <3>1 DEF Asked
      <3> HIDE DEF c, r, g, h, p, q
      <3>6. Weight(sending[w], Mine(k)) = 0 /\ Weight(c, Mine(k)) \in Nat
        BY <1>3, <3>1, WeightType
      <3>7. QED
        BY <1>2, <3>2, <3>3, <3>4, <3>5, <3>6
    <2>2. CASE WritePush(w)
      <3> DEFINE c == sending[w]
                 r == CountIn(proxy2layer', {k})
      <3>1. /\ sending' = [sending EXCEPT ![w] = NoCall]
            /\ proxy2layer' = Append(proxy2layer, KeyOf[c])
            /\ secReqChan' = secReqChan
            /\ c \in Calls /\ KeyOf[c] \in Request
        BY <2>2, CallsAssumption DEF WritePush, AppTypeOK
      <3>2. g \in Nat /\ g + Weight(c, Mine(k)) = h + Weight(NoCall, Mine(k))
        BY <3>1, WriterChanges
      <3>3. r = p + Weight(KeyOf[c], {k})
        BY <3>1, CountAppend DEF AppTypeOK
      <3>4. Weight(KeyOf[c], {k}) = Weight(c, Mine(k)) /\ Weight(c, Mine(k)) \in Nat
        BY <3>1 DEF Weight, Mine
      <3>5. Asked(k)' = q + g + r /\ Asked(k) = q + h + p
        BY <3>1 DEF Asked
      <3> HIDE DEF c, r, g, h, p, q
      <3>6. QED
        BY <1>2, <1>3, <3>2, <3>3, <3>4, <3>5
    <2>3. CASE WriteFail(w)
      <3>1. /\ sending' = [sending EXCEPT ![w] = NoCall]
            /\ UNCHANGED <<secReqChan, proxy2layer>>
        BY <2>3 DEF WriteFail
      <3>2. g \in Nat /\ g + Weight(sending[w], Mine(k)) = h + Weight(NoCall, Mine(k))
        BY <3>1, WriterChanges
      <3>3. Asked(k)' = q + g + p /\ Asked(k) = q + h + p
        BY <3>1 DEF Asked
      <3>4. Weight(sending[w], Mine(k)) \in Nat
        BY WeightType
      <3> HIDE DEF g, h, p, q
      <3>5. QED
        BY <1>2, <1>3, <3>2, <3>3, <3>4
    <2>4. QED
      BY <2>1, <2>2, <2>3 DEF WriteStep
  <1>5. /\ Asked(k)' + Replied(k)' + Delivered(k)'
               <= Asked(k) + Replied(k) + Delivered(k)
        /\ Asked(k)' + Replied(k)' + Delivered(k)' \in Nat
    <2>1. Asked(k) \in Nat
      BY <1>2 DEF Asked
    <2>2. QED
      BY <1>1, <1>2, <1>4, <2>1
  <1>6. QED
    BY <1>1, <1>5, FlowPassed

LEMMA FlowRead ==
    ASSUME AppTypeOK, KeyedDelivery, NEW k \in Request, FlowOf(k),
           NEW v \in AppReaders, ReadStep(v)
    PROVE  FlowOf(k)'
  <1> USE DEF queues, callers, readers
  <1> DEFINE h == Cardinality(HeldIn(popped, About(k)))
             g == Cardinality(HeldIn(popped', About(k)))
             q == CountIn(layer2proxy, About(k))
             d == Delivered(k)
  <1>1. at' = at /\ Asked(k)' = Asked(k)
    BY DEF ReadStep, ReadPop, ReadLookup, ReadDrop, ReadDeliver, Asked
  <1>2. h \in Nat /\ q \in Nat /\ d \in Nat /\ Asked(k) \in Nat
    BY FlowTypes DEF Asked, Delivered
  <1>3. Weight(NoRes, About(k)) = 0
    BY AppNoneAssumption DEF About, Weight
  <1>4. Replied(k) = q + h
    BY DEF Replied
  <1>5. /\ Replied(k)' + Delivered(k)' <= Replied(k) + Delivered(k)
        /\ Replied(k)' + Delivered(k)' \in Nat
        /\ IsFiniteSet(Filled(buf', k))
    <2>1. CASE ReadPop(v)
      <3> DEFINE res == Head(layer2proxy)
                 r == CountIn(layer2proxy', About(k))
      <3>1. /\ popped' = [popped EXCEPT ![v] = res] /\ popped[v] = NoRes
            /\ layer2proxy # <<>> /\ layer2proxy' = Tail(layer2proxy)
            /\ buf' = buf
        BY <2>1 DEF ReadPop
      <3>2. g \in Nat /\ g + Weight(popped[v], About(k)) = h + Weight(res, About(k))
        <4> HIDE DEF res
        <4>1. QED
          BY <3>1, ReaderChanges
      <3>3. r + Weight(res, About(k)) <= q
        BY <3>1, CountTail DEF AppTypeOK
      <3>4. r \in Nat
        <4>1. Tail(layer2proxy) \in Seq(Result)
          BY <3>1, QueueFacts DEF AppTypeOK
        <4>2. QED
          BY <3>1, <4>1, CountType
      <3>5. Replied(k)' = r + g /\ Delivered(k)' = d
        BY <3>1 DEF Replied, Delivered
      <3>6. IsFiniteSet(Filled(buf', k))
        BY <3>1 DEF FlowOf
      <3> HIDE DEF res, r, g, h, q, d
      <3>7. Weight(popped[v], About(k)) = 0 /\ Weight(res, About(k)) \in Nat
        BY <1>3, <3>1, WeightType
      <3>8. r + g <= q + h /\ r + g \in Nat
        BY <1>2, <3>2, <3>3, <3>4, <3>7
      <3>9. QED
        BY <1>2, <1>4, <3>5, <3>6, <3>8 DEF d
    <2>2. CASE ReadLookup(v)
      <3>1. Replied(k)' = Replied(k) /\ Delivered(k)' = d /\ buf' = buf
        BY <2>2 DEF ReadLookup, Replied, Delivered
      <3>2. QED
        BY <1>2, <1>4, <3>1 DEF FlowOf
    <2>3. CASE ReadDrop(v)
      <3>1. /\ popped' = [popped EXCEPT ![v] = NoRes]
            /\ UNCHANGED <<layer2proxy, buf>>
        BY <2>3 DEF ReadDrop
      <3>2. g \in Nat /\ g + Weight(popped[v], About(k)) = h + Weight(NoRes, About(k))
        BY <3>1, ReaderChanges
      <3>3. Replied(k)' = q + g /\ Delivered(k)' = d
        BY <3>1 DEF Replied, Delivered
      <3>4. IsFiniteSet(Filled(buf', k))
        BY <3>1 DEF FlowOf
      <3>5. Weight(popped[v], About(k)) \in Nat
        BY WeightType
      <3> HIDE DEF g, h, q, d
      <3>6. q + g <= q + h /\ q + g \in Nat
        BY <1>2, <1>3, <3>2, <3>5
      <3>7. QED
        BY <1>2, <1>4, <3>3, <3>4, <3>6 DEF d
    <2>4. CASE ReadDeliver(v)
      <3> DEFINE c == target[v]
                 res == popped[v]
                 s == Append(buf[c], res)
                 e == Cardinality(Filled(buf', k))
      <3>1. /\ popped' = [popped EXCEPT ![v] = NoRes]
            /\ buf' = [buf EXCEPT ![c] = s]
            /\ layer2proxy' = layer2proxy
            /\ c \in Calls /\ res \in Result /\ KeyOfResult(res) = KeyOf[c]
            /\ buf[c] = <<>>
        BY <2>4 DEF ReadDeliver, KeyedDelivery, AppTypeOK
      <3>2. s # <<>>
        BY <3>1
      <3>3. IsFiniteSet(Filled(buf, k))
        BY DEF FlowOf
      <3>4. /\ IsFiniteSet(Filled(buf', k)) /\ e \in Nat
            /\ e = Cardinality(Filled(buf, k)) + Weight(c, Mine(k))
        <4> HIDE DEF s, c
        <4>1. QED
          BY <3>1, <3>2, <3>3, FilledChanges
      <3>5. g \in Nat /\ g + Weight(res, About(k)) = h + Weight(NoRes, About(k))
        BY <3>1, ReaderChanges
      <3>6. Weight(res, About(k)) = Weight(c, Mine(k)) /\ Weight(c, Mine(k)) \in Nat
        BY <3>1 DEF Weight, Mine, About
      <3>7. Replied(k)' = q + g /\ Delivered(k)' = e
            /\ d = Cardinality(Filled(buf, k))
        BY <3>1 DEF Replied, Delivered
      <3>8. q + g + e = q + h + d /\ q + g + e \in Nat
        <4> HIDE DEF c, res, s, e, g, h, q, d
        <4>1. QED
          BY <1>2, <1>3, <3>4, <3>5, <3>6, <3>7
      <3>9. QED
        BY <1>2, <1>4, <3>4, <3>7, <3>8
    <2>5. QED
      BY <2>1, <2>2, <2>3, <2>4 DEF ReadStep
  <1>6. /\ Asked(k)' + Replied(k)' + Delivered(k)'
               <= Asked(k) + Replied(k) + Delivered(k)
        /\ Asked(k)' + Replied(k)' + Delivered(k)' \in Nat
    <2>1. Replied(k)' \in Nat /\ Delivered(k)' \in Nat
      <3>1. AppTypeOK'
        BY AppTypeRead DEF KeyedDelivery
      <3>2. Delivered(k)' \in Nat
        BY <1>5, FS_CardinalityType DEF Delivered
      <3>3. CountIn(layer2proxy', About(k)) \in Nat
        BY <3>1, CountType DEF AppTypeOK
      <3>4. HeldIn(popped', About(k)) \subseteq AppReaders
        BY <3>1 DEF HeldIn, AppTypeOK
      <3>5. Cardinality(HeldIn(popped', About(k))) \in Nat
        BY <3>4, FS_Subset, FS_CardinalityType, AppGoroutinesAssumption
      <3>6. QED
        BY <3>2, <3>3, <3>5 DEF Replied
    <2>2. Replied(k) \in Nat
      BY <1>2, <1>4
    <2>3. QED
      BY <1>1, <1>2, <1>5, <2>1, <2>2
  <1>7. QED
    BY <1>1, <1>5, <1>6, FlowPassed

LEMMA FlowEnv ==
    ASSUME AppTypeOK, NEW k \in Request, FlowOf(k), ForeignPop \/ CoreStep
    PROVE  FlowOf(k)'
  <1> USE DEF queues, callers, readers
  <1> DEFINE p == CountIn(proxy2layer, {k})
             q == CountIn(layer2proxy, About(k))
             s == CountIn(proxy2layer', {k})
             t == CountIn(layer2proxy', About(k))
             x == CountIn(secReqChan, Mine(k)) + Cardinality(HeldIn(sending, Mine(k)))
             y == Cardinality(HeldIn(popped, About(k))) + Delivered(k)
  <1>1. /\ UNCHANGED <<at, buf, secReqChan, sending, popped>>
        /\ IsFiniteSet(Filled(buf', k))
    <2>1. UNCHANGED <<at, buf, secReqChan, sending, popped>>
      BY DEF ForeignPop, CoreStep, CoreLose, CoreAnswer
    <2>2. QED
      BY <2>1 DEF FlowOf
  <1>2. p \in Nat /\ q \in Nat /\ x \in Nat /\ y \in Nat
    BY FlowTypes DEF Delivered
  <1>3. s \in Nat /\ t \in Nat
    <2>1. AppTypeOK'
      BY AppTypeEnv
    <2>2. QED
      BY <2>1, CountType DEF AppTypeOK
  <1>4. s + t <= p + q
    <2>1. CASE ForeignPop
      <3>1. /\ layer2proxy # <<>> /\ layer2proxy' = Tail(layer2proxy)
            /\ proxy2layer' = proxy2layer
        BY <2>1 DEF ForeignPop
      <3>2. t + Weight(Head(layer2proxy), About(k)) <= q
        BY <3>1, CountTail DEF AppTypeOK
      <3>3. Weight(Head(layer2proxy), About(k)) \in Nat /\ s = p
        BY <3>1, WeightType
      <3> HIDE DEF p, q, s, t
      <3>4. QED
        BY <1>2, <1>3, <3>2, <3>3
    <2>2. ASSUME NEW i \in 1..Len(proxy2layer), CoreLose(i) PROVE s + t <= p + q
      <3>1. proxy2layer' = Without(proxy2layer, i) /\ layer2proxy' = layer2proxy
        BY <2>2 DEF CoreLose
      <3>2. s + Weight(proxy2layer[i], {k}) <= p
        BY <3>1, CountWithout DEF AppTypeOK
      <3>3. Weight(proxy2layer[i], {k}) \in Nat /\ t = q
        BY <3>1, WeightType
      <3> HIDE DEF p, q, s, t
      <3>4. QED
        BY <1>2, <1>3, <3>2, <3>3
    <2>3. ASSUME NEW i \in 1..Len(proxy2layer), NEW code \in Codes,
                 CoreAnswer(i, code)
          PROVE  s + t <= p + q
      <3> DEFINE req == proxy2layer[i]
                 res == [user |-> req.user, product |-> req.product, code |-> code]
      <3>1. /\ proxy2layer' = Without(proxy2layer, i)
            /\ layer2proxy' = Append(layer2proxy, res)
        BY <2>3 DEF CoreAnswer
      <3>2. req \in Request
        BY WithoutType DEF AppTypeOK
      <3>3. res \in Result /\ KeyOfResult(res) = req
        BY <3>2 DEF Request, Result, KeyOfResult
      <3> HIDE DEF res
      <3>4. s + Weight(req, {k}) <= p
        BY <3>1, CountWithout DEF AppTypeOK
      <3>5. t = q + Weight(res, About(k))
        BY <3>1, <3>3, CountAppend DEF AppTypeOK
      <3>6. Weight(req, {k}) = Weight(res, About(k)) /\ Weight(req, {k}) \in Nat
        BY <3>3 DEF Weight, About
      <3> HIDE DEF p, q, s, t, req
      <3>7. QED
        BY <1>2, <1>3, <3>4, <3>5, <3>6
    <2>4. QED
      BY <2>1, <2>2, <2>3 DEF CoreStep
  <1>5. /\ Asked(k) + Replied(k) + Delivered(k) = x + y + (p + q)
        /\ Asked(k)' + Replied(k)' + Delivered(k)' = x + y + (s + t)
    <2>1. Asked(k) = x + p /\ Asked(k)' = x + s
      BY <1>1 DEF Asked
    <2>2. /\ Replied(k) = q + Cardinality(HeldIn(popped, About(k)))
          /\ Replied(k)' = t + Cardinality(HeldIn(popped, About(k)))
          /\ Delivered(k)' = Delivered(k)
      BY <1>1 DEF Replied, Delivered
    <2>3. Cardinality(HeldIn(popped, About(k))) \in Nat /\ Delivered(k) \in Nat
      BY FlowTypes DEF Delivered
    <2> HIDE DEF x, p, q, s, t
    <2>4. QED
      BY <1>2, <1>3, <2>1, <2>2, <2>3
  <1> HIDE DEF p, q, s, t, x, y
  <1>6. /\ Asked(k)' + Replied(k)' + Delivered(k)'
               <= Asked(k) + Replied(k) + Delivered(k)
        /\ Asked(k)' + Replied(k)' + Delivered(k)' \in Nat
    BY <1>2, <1>3, <1>4, <1>5
  <1>7. QED
    BY <1>1, <1>6, FlowPassed

LEMMA FlowInit == AppInit => Flow
  <1> SUFFICES ASSUME AppInit, NEW k \in Request PROVE FlowOf(k)
    BY DEF Flow
  <1>1. AppTypeOK
    BY AppTypeInit
  <1>2. /\ CountIn(secReqChan, Mine(k)) = 0 /\ CountIn(proxy2layer, {k}) = 0
        /\ CountIn(layer2proxy, About(k)) = 0
    BY <1>1, CountType DEF AppInit, AppTypeOK
  <1>3. HeldIn(sending, Mine(k)) = {} /\ HeldIn(popped, About(k)) = {}
    BY AppNoneAssumption DEF AppInit, HeldIn, Mine, About
  <1>4. Filled(buf, k) = {} /\ Entered(at, k) = {}
    BY DEF AppInit, Filled, Entered, Mine, Early
  <1>5. QED
    BY <1>2, <1>3, <1>4, FS_EmptySet DEF FlowOf, Asked, Replied, Delivered

LEMMA FlowStep == AppInv /\ Flow /\ [Next]_appVars => Flow'
  <1> SUFFICES ASSUME AppTypeOK, KeyedDelivery, Flow, [Next]_appVars,
                      NEW k \in Request
               PROVE  FlowOf(k)'
    BY DEF AppInv, Flow
  <1>1. FlowOf(k)
    BY DEF Flow
  <1>2. CASE \E c \in Calls : CallStep(c)
    BY <1>1, <1>2, FlowCall
  <1>3. CASE \E w \in AppWriters : WriteStep(w)
    BY <1>1, <1>3, FlowWrite
  <1>4. CASE \E r \in AppReaders : ReadStep(r)
    BY <1>1, <1>4, FlowRead
  <1>5. CASE ForeignPop \/ CoreStep
    BY <1>1, <1>5, FlowEnv
  <1>6. CASE UNCHANGED appVars
    BY <1>1, <1>6 DEF appVars, queues, callers, readers, FlowOf, Asked, Replied, Delivered
  <1>7. QED
    BY <1>2, <1>3, <1>4, <1>5, <1>6 DEF Next, AppNext

-----------------------------------------------------------------------------
(* Who evicts whom                                                          *)

RefusedDone == \A c \in Calls : outcome[c] = "Refused" => at[c] = "done"

EvictInv == RefusedDone /\ EvictedByTwin

LEMMA EvictCall ==
    ASSUME AppInv, EvictInv, NEW d \in Calls, CallStep(d)
    PROVE  EvictInv'
  <1> USE DEF queues, callers, readers, Move
  <1>0. AppTypeOK /\ NoLeakedEntry /\ RefusedDone /\ EvictedByTwin
    BY DEF AppInv, EvictInv
  <1>1. RefusedDone'
    <2>1. CASE CallReceive(d)
      <3>1. Head(buf[d]) \in Result
        BY <1>0, <2>1 DEF CallReceive, AppTypeOK
      <3>2. Head(buf[d]).code # "Refused"
        BY <3>1, AppCodesAssumption DEF Result
      <3>3. QED
        BY <1>0, <2>1, <3>2 DEF CallReceive, RefusedDone, AppTypeOK
    <2>2. CASE ~CallReceive(d)
      BY <1>0, <2>2 DEF CallStep, CallRefused, CallAdmitted, CallRegister,
         CallEnqueue, CallTimeout, CallCleanup, RefusedDone, AppTypeOK
    <2>3. QED
      BY <2>1, <2>2
  <1>2. ASSUME NEW c \in Calls, at'[c] \in {"enqueue", "wait"},
               userConnMap'[KeyOf[c]] # c
        PROVE  \E e \in Twins(c) : \/ userConnMap'[KeyOf[c]] = e
                                   \/ at'[e] = "done" /\ outcome'[e] # "Refused"
    <2>0. KeyOf[c] \in Request /\ KeyOf[d] \in Request
      BY CallsAssumption
    <2>1. CASE CallRegister(d)
      <3>1. CASE KeyOf[d] = KeyOf[c]
        <4>1. userConnMap'[KeyOf[c]] = d
          BY <1>0, <2>0, <2>1, <3>1 DEF CallRegister, AppTypeOK
        <4>2. d \in Twins(c)
          BY <1>2, <3>1, <4>1 DEF Twins
        <4>3. QED
          BY <4>1, <4>2
      <3>2. CASE KeyOf[d] # KeyOf[c]
        <4>1. /\ userConnMap'[KeyOf[c]] = userConnMap[KeyOf[c]]
              /\ at'[c] = at[c] /\ outcome' = outcome
              /\ \A e \in Calls : at[e] = "done" => at'[e] = "done"
          BY <1>0, <2>0, <2>1, <3>2 DEF CallRegister, AppTypeOK
        <4>2. PICK e \in Twins(c) : \/ userConnMap[KeyOf[c]] = e
                                    \/ at[e] = "done" /\ outcome[e] # "Refused"
          BY <1>0, <1>2, <4>1 DEF EvictedByTwin
        <4>3. QED
          BY <4>1, <4>2 DEF Twins
      <3>3. QED
        BY <3>1, <3>2
    <2>2. CASE CallCleanup(d)
      <3>1. d # c /\ at'[c] = at[c] /\ outcome' = outcome
        BY <1>0, <1>2, <2>2 DEF CallCleanup, AppTypeOK
      <3>2. CASE KeyOf[d] = KeyOf[c]
        <4>1. d \in Twins(c) /\ at'[d] = "done" /\ outcome[d] # "Refused"
          BY <1>0, <2>2, <3>1, <3>2 DEF CallCleanup, AppTypeOK, RefusedDone, Twins
        <4>2. QED
          BY <3>1, <4>1
      <3>3. CASE KeyOf[d] # KeyOf[c]
        <4>1. /\ userConnMap'[KeyOf[c]] = userConnMap[KeyOf[c]]
              /\ \A e \in Calls : at[e] = "done" => at'[e] = "done"
          BY <1>0, <2>0, <2>2, <3>3 DEF CallCleanup, AppTypeOK
        <4>2. PICK e \in Twins(c) : \/ userConnMap[KeyOf[c]] = e
                                    \/ at[e] = "done" /\ outcome[e] # "Refused"
          BY <1>0, <1>2, <3>1, <4>1 DEF EvictedByTwin
        <4>3. QED
          BY <3>1, <4>1, <4>2 DEF Twins
      <3>4. QED
        BY <3>2, <3>3
    <2>3. CASE ~CallRegister(d) /\ ~CallCleanup(d)
      <3>1. /\ userConnMap' = userConnMap
            /\ at[c] \in {"enqueue", "wait"}
            /\ \A e \in Calls : at[e] = "done" =>
                   at'[e] = "done" /\ outcome'[e] = outcome[e]
        BY <1>0, <1>2, <2>3 DEF CallStep, CallRefused, CallAdmitted, CallEnqueue,
           CallTimeout, CallReceive, AppTypeOK
      <3>2. PICK e \in Twins(c) : \/ userConnMap[KeyOf[c]] = e
                                  \/ at[e] = "done" /\ outcome[e] # "Refused"
        BY <1>0, <1>2, <3>1 DEF EvictedByTwin
      <3>3. QED
        BY <3>1, <3>2 DEF Twins
    <2>4. QED
      BY <2>1, <2>2, <2>3
  <1>3. EvictedByTwin'
    BY <1>2 DEF EvictedByTwin, Twins
  <1>4. QED
    BY <1>1, <1>3 DEF EvictInv

LEMMA EvictStep == AppInv /\ EvictInv /\ [Next]_appVars => EvictInv'
  <1> SUFFICES ASSUME AppInv, EvictInv, [Next]_appVars PROVE EvictInv'
    OBVIOUS
  <1>1. CASE \E c \in Calls : CallStep(c)
    BY <1>1, EvictCall
  <1>2. CASE UNCHANGED <<userConnMap, at, outcome>>
    BY <1>2 DEF EvictInv, RefusedDone, EvictedByTwin, Twins
  <1>3. QED
    BY <1>1, <1>2 DEF Next, AppNext, WriteStep, ReadStep, ForeignPop, CoreStep,
       WriteTake, WritePush, WriteFail, ReadPop, ReadLookup, ReadDrop, ReadDeliver,
       CoreLose, CoreAnswer, queues, callers, readers, appVars

LEMMA AppFlowInvariant == Spec => [](AppInv /\ Flow /\ EvictInv)
  <1>1. AppInit => EvictInv
    BY DEF AppInit, EvictInv, RefusedDone, EvictedByTwin
  <1>2. QED
    BY <1>1, FlowInit, FlowStep, EvictStep, AppInvariant, PTL DEF Spec

-----------------------------------------------------------------------------
\* Two results for one key take two calls.
LEMMA TwoResults ==
    ASSUME AppTypeOK, NEW k \in Request, FlowOf(k), NEW c \in Mine(k),
           Entered(at, k) \subseteq {c}
    PROVE  Len(buf[c]) + ResultsFor(k) <= 1
  <1>0. c \in Calls /\ Len(buf[c]) \in Nat /\ Len(buf[c]) <= 1
    <2>1. c \in Calls /\ buf[c] \in Seq(Result) /\ Len(buf[c]) <= 1
      BY DEF AppTypeOK, Mine
    <2>2. Len(buf[c]) \in Nat
      BY <2>1, QueueFacts
    <2>3. QED
      BY <2>1, <2>2
  <1>1. Cardinality(Entered(at, k)) <= 1
    <2>1. IsFiniteSet({c}) /\ Cardinality({c}) = 1
      BY FS_Singleton
    <2>2. QED
      BY <2>1, FS_Subset
  <1>2. Len(buf[c]) <= Delivered(k)
    <2>1. Len(buf[c]) = 0 \/ Len(buf[c]) = 1
      <3> DEFINE n == Len(buf[c])
      <3>1. n \in Nat /\ n <= 1
        BY <1>0
      <3> HIDE DEF n
      <3>2. n = 0 \/ n = 1
        BY <3>1
      <3>3. QED
        BY <3>2 DEF n
    <2>2. Delivered(k) \in Nat
      BY FlowTypes DEF Delivered
    <2>3. CASE Len(buf[c]) = 0
      BY <2>2, <2>3
    <2>4. CASE Len(buf[c]) = 1
      <3>1. buf[c] # <<>>
        <4>1. Len(<<>>) = 0
          OBVIOUS
        <4>2. QED
          BY <2>4, <4>1
      <3>2. c \in Filled(buf, k) /\ IsFiniteSet(Filled(buf, k))
        BY <3>1 DEF Filled, FlowOf
      <3>3. Cardinality(Filled(buf, k)) # 0
        BY <3>2, FS_EmptySet
      <3>4. QED
        BY <2>2, <2>4, <3>3 DEF Delivered
    <2>5. QED
      BY <2>1, <2>3, <2>4
  <1>3. ResultsFor(k) = Replied(k)
    <2>1. {i \in 1..Len(layer2proxy) : KeyOfResult(layer2proxy[i]) = k}
             = {i \in 1..Len(layer2proxy) : layer2proxy[i] \in About(k)}
      <3>1. \A i \in 1..Len(layer2proxy) : layer2proxy[i] \in Result
        BY DEF AppTypeOK
      <3>2. QED
        BY <3>1 DEF About
    <2>2. {r \in AppReaders : popped[r] # NoRes /\ KeyOfResult(popped[r]) = k}
             = HeldIn(popped, About(k))
      BY AppNoneAssumption DEF AppTypeOK, About, HeldIn
    <2>3. QED
      BY <2>1, <2>2 DEF ResultsFor, Replied, CountIn
  <1>4. Asked(k) \in Nat /\ Replied(k) \in Nat /\ Delivered(k) \in Nat
    BY FlowTypes DEF Asked, Replied, Delivered
  <1>5. Cardinality(Entered(at, k)) \in Nat
    BY FlowTypes
  <1>6. Asked(k) + Replied(k) + Delivered(k) <= Cardinality(Entered(at, k))
    BY DEF FlowOf
  <1>7. QED
    BY <1>0, <1>1, <1>2, <1>3, <1>4, <1>5, <1>6

LEMMA JamTakesTwin ==
    ASSUME AppTypeOK, KeyedDelivery, Flow
    PROVE  JammedByTwin
  <1> SUFFICES ASSUME NEW r \in AppReaders, target[r] # NoCall, buf[target[r]] # <<>>,
                      \A d \in Twins(target[r]) : at[d] \in Early
               PROVE  FALSE
    BY DEF JammedByTwin, Early
  <1> DEFINE c == target[r]
             k == KeyOf[c]
  <1>1. /\ c \in Calls /\ k \in Request
        /\ popped[r] \in Result /\ KeyOfResult(popped[r]) = k
    BY CallsAssumption DEF AppTypeOK, KeyedDelivery
  <1>2. FlowOf(k)
    BY <1>1 DEF Flow
  <1>3. c \in Mine(k) /\ Entered(at, k) \subseteq {c}
    BY <1>1 DEF Mine, Entered, Twins
  <1>4. Len(buf[c]) + ResultsFor(k) <= 1
    BY <1>1, <1>2, <1>3, TwoResults
  <1>5. Len(buf[c]) \in Nat /\ Len(buf[c]) # 0
    BY <1>1 DEF AppTypeOK
  <1>6. ResultsFor(k) \in Nat /\ ResultsFor(k) # 0
    <2> DEFINE R == {s \in AppReaders : popped[s] # NoRes /\ KeyOfResult(popped[s]) = k}
               I == {i \in 1..Len(layer2proxy) : KeyOfResult(layer2proxy[i]) = k}
    <2>1. r \in R /\ IsFiniteSet(R) /\ IsFiniteSet(I)
      <3>1. R \subseteq AppReaders /\ I \subseteq 1..Len(layer2proxy)
            /\ IsFiniteSet(1..Len(layer2proxy))
        BY FS_Interval DEF AppTypeOK
      <3>2. r \in R
        BY <1>1, AppNoneAssumption
      <3>3. QED
        BY <3>1, <3>2, FS_Subset, AppGoroutinesAssumption
    <2>2. ResultsFor(k) = Cardinality(I) + Cardinality(R)
      BY DEF ResultsFor
    <2> HIDE DEF R, I
    <2>3. Cardinality(I) \in Nat /\ Cardinality(R) \in Nat /\ Cardinality(R) # 0
      BY <2>1, FS_CardinalityType, FS_EmptySet
    <2>4. QED
      BY <2>2, <2>3
  <1>7. QED
    BY <1>4, <1>5, <1>6

\* Calls for one user and product disturb each other in two ways only, and
\* nobody else can: a call loses its entry to a twin that registered after it
\* or went out before it, and a ReadHandle goroutine jams only on a second
\* result that a twin asked for.
THEOREM OnlyTwinsDisturb == Spec => []TwinsOnly
  <1>1. AppInv /\ Flow /\ EvictInv => TwinsOnly
    BY JamTakesTwin DEF AppInv, EvictInv, TwinsOnly
  <1>2. QED
    BY <1>1, AppFlowInvariant, PTL

\* A call that has its key to itself meets at most one result, and its
\* channel is registered as long as it waits.
THEOREM ResultsAlone == Spec => []OneResultPerKey
  <1>1. ASSUME AppInv, Flow, EvictInv, NEW c \in Calls, Twins(c) = {}
        PROVE  /\ Len(buf[c]) + ResultsFor(KeyOf[c]) <= 1
               /\ at[c] \in {"enqueue", "wait"} => userConnMap[KeyOf[c]] = c
    <2>1. AppTypeOK /\ KeyOf[c] \in Request /\ FlowOf(KeyOf[c])
      BY <1>1, CallsAssumption DEF AppInv, Flow
    <2>2. c \in Mine(KeyOf[c]) /\ Entered(at, KeyOf[c]) \subseteq {c}
      BY <1>1 DEF Mine, Entered, Twins
    <2>3. Len(buf[c]) + ResultsFor(KeyOf[c]) <= 1
      BY <2>1, <2>2, TwoResults
    <2>4. at[c] \in {"enqueue", "wait"} => userConnMap[KeyOf[c]] = c
      BY <1>1 DEF EvictInv, EvictedByTwin
    <2>5. QED
      BY <2>3, <2>4
  <1>2. AppInv /\ Flow /\ EvictInv => OneResultPerKey
    BY <1>1 DEF OneResultPerKey
  <1>3. QED
    BY <1>2, AppFlowInvariant, PTL
=============================================================================
