----------------------- MODULE SecKillSystem_proofs ------------------------
(***************************************************************************)
(* Proofs about the flash sale end to end, for any number of calls,        *)
(* goroutines, users and products: sk-app is a proper environment of       *)
(* sk-core, and what the calls are told is backed by the ledgers.          *)
(***************************************************************************)
EXTENDS SecKillSystem, SecKillCore_proofs

-----------------------------------------------------------------------------
(* sk-app as the environment of sk-core *)

\* A step of the whole is a step of sk-core or of the environment SecKillCore
\* assumes: WriteHandle pushes a request, ReadHandle pops a result, and no
\* other step of sk-app is visible to sk-core.
LEMMA SystemStep == App!AppTypeOK /\ [SysNext]_sysVars => [Next]_vars
  <1> SUFFICES ASSUME App!AppTypeOK, [SysNext]_sysVars PROVE [Next]_vars
    OBVIOUS
  <1> USE DEF App!queues, App!callers, App!readers, coreOnly
  <1>1. CASE CoreNext
    BY <1>1 DEF Next
  <1>2. ASSUME UNCHANGED coreOnly, UNCHANGED queues PROVE UNCHANGED vars
    BY <1>2 DEF vars
  <1>3. ASSUME NEW c \in Calls, App!CallStep(c), UNCHANGED coreOnly PROVE UNCHANGED vars
    BY <1>2, <1>3 DEF App!CallStep, App!CallRefused, App!CallAdmitted, App!CallRegister,
       App!CallEnqueue, App!CallTimeout, App!CallReceive, App!CallCleanup, queues
  <1>4. ASSUME NEW w \in AppWriters, App!WriteStep(w), UNCHANGED coreOnly
        PROVE  Next \/ UNCHANGED vars
    <2>1. CASE App!WritePush(w)
      <3>1. KeyOf[sending[w]] \in Request
        BY <2>1, CallsAssumption DEF App!WritePush, App!AppTypeOK
      <3>2. PICK u \in Users, p \in Products : KeyOf[sending[w]] = [user |-> u, product |-> p]
        BY <3>1 DEF Request
      <3>3. Arrive(u, p)
        BY <1>4, <2>1, <3>2 DEF App!WritePush, Arrive
      <3>4. QED
        BY <3>3 DEF Next, EnvNext
    <2>2. CASE App!WriteTake(w) \/ App!WriteFail(w)
      BY <1>2, <1>4, <2>2 DEF App!WriteTake, App!WriteFail, queues
    <2>3. QED
      BY <1>4, <2>1, <2>2 DEF App!WriteStep
  <1>5. ASSUME layer2proxy # <<>>, layer2proxy' = Tail(layer2proxy),
               proxy2layer' = proxy2layer, UNCHANGED coreOnly
        PROVE  Next
    BY <1>5 DEF Next, EnvNext, Collect
  <1>6. ASSUME NEW r \in AppReaders, App!ReadStep(r), UNCHANGED coreOnly
        PROVE  Next \/ UNCHANGED vars
    <2>1. CASE App!ReadPop(r)
      BY <1>5, <1>6, <2>1 DEF App!ReadPop
    <2>2. CASE App!ReadLookup(r) \/ App!ReadDrop(r) \/ App!ReadDeliver(r)
      BY <1>2, <1>6, <2>2 DEF App!ReadLookup, App!ReadDrop, App!ReadDeliver, queues
    <2>3. QED
      BY <1>6, <2>1, <2>2 DEF App!ReadStep
  <1>7. CASE App!ForeignPop /\ UNCHANGED coreOnly
    BY <1>5, <1>7 DEF App!ForeignPop
  <1>8. CASE UNCHANGED sysVars
    BY <1>8 DEF sysVars
  <1>9. QED
    BY <1>1, <1>3, <1>4, <1>6, <1>7, <1>8 DEF SysNext, App!AppNext

-----------------------------------------------------------------------------
(* The request path keeps its types and hands results to the right calls    *)
(* whatever sk-core does with the two lists.                                *)

LEMMA AppTypeCall ==
    ASSUME App!AppTypeOK, NEW c \in Calls, App!CallStep(c)
    PROVE  App!AppTypeOK'
  <1> USE DEF App!queues, App!callers, App!readers, App!Move
  <1>0. KeyOf[c] \in App!Request
    BY CallsAssumption DEF Request, App!Request
  <1>1. CASE App!CallRefused(c)
    BY <1>1 DEF App!CallRefused, App!AppTypeOK, App!Places, App!Outcomes
  <1>2. CASE App!CallAdmitted(c)
    BY <1>2 DEF App!CallAdmitted, App!AppTypeOK, App!Places
  <1>3. CASE App!CallRegister(c)
    BY <1>0, <1>3 DEF App!CallRegister, App!AppTypeOK, App!Places
  <1>4. CASE App!CallEnqueue(c)
    <2>1. /\ Append(secReqChan, c) \in Seq(Calls)
          /\ Len(Append(secReqChan, c)) <= ReqCap
      BY <1>4, QueueFacts, AppBoundsAssumption DEF App!CallEnqueue, App!AppTypeOK
    <2>2. QED
      BY <1>4, <2>1 DEF App!CallEnqueue, App!AppTypeOK, App!Places
  <1>5. CASE App!CallTimeout(c)
    BY <1>5 DEF App!CallTimeout, App!AppTypeOK, App!Places, App!Outcomes
  <1>6. CASE App!CallReceive(c)
    <2>1. /\ Head(buf[c]) \in App!Result /\ Tail(buf[c]) \in Seq(App!Result)
          /\ Len(Tail(buf[c])) <= 1
      BY <1>6, QueueFacts DEF App!CallReceive, App!AppTypeOK
    <2>2. Head(buf[c]).code \in App!Outcomes
      BY <2>1 DEF App!Result, App!Outcomes
    <2>3. buf' \in [Calls -> Seq(App!Result)] /\ \A d \in Calls : Len(buf'[d]) <= 1
      BY <1>6, <2>1 DEF App!CallReceive, App!AppTypeOK
    <2>4. QED
      BY <1>6, <2>2, <2>3 DEF App!CallReceive, App!AppTypeOK, App!Places
  <1>7. CASE App!CallCleanup(c)
    BY <1>0, <1>7 DEF App!CallCleanup, App!AppTypeOK, App!Places
  <1>8. QED
    BY <1>1, <1>2, <1>3, <1>4, <1>5, <1>6, <1>7 DEF App!CallStep

LEMMA AppTypeWrite ==
    ASSUME App!AppTypeOK, NEW w \in AppWriters, App!WriteStep(w)
    PROVE  App!AppTypeOK'
  <1> USE DEF App!queues, App!callers, App!readers
  <1>1. CASE App!WriteTake(w)
    <2>1. /\ Head(secReqChan) \in Calls /\ Tail(secReqChan) \in Seq(Calls)
          /\ Len(Tail(secReqChan)) <= ReqCap
      BY <1>1, QueueFacts, AppBoundsAssumption DEF App!WriteTake, App!AppTypeOK
    <2>2. QED
      BY <1>1, <2>1 DEF App!WriteTake, App!AppTypeOK
  <1>2. CASE App!WritePush(w)
    <2>1. Append(proxy2layer, KeyOf[sending[w]]) \in Seq(App!Request)
      <3>1. KeyOf[sending[w]] \in App!Request
        BY <1>2, CallsAssumption DEF App!WritePush, App!AppTypeOK, Request, App!Request
      <3>2. QED
        BY <3>1, QueueFacts DEF App!AppTypeOK
    <2>2. QED
      BY <1>2, <2>1 DEF App!WritePush, App!AppTypeOK
  <1>3. CASE App!WriteFail(w)
    BY <1>3 DEF App!WriteFail, App!AppTypeOK
  <1>4. QED
    BY <1>1, <1>2, <1>3 DEF App!WriteStep

LEMMA AppTypeRead ==
    ASSUME App!AppTypeOK, NEW r \in AppReaders, App!ReadStep(r),
           target[r] # NoCall => popped[r] # NoRes
    PROVE  App!AppTypeOK'
  <1> USE DEF App!queues, App!callers, App!readers
  <1>1. CASE App!ReadPop(r)
    <2>1. Head(layer2proxy) \in App!Result /\ Tail(layer2proxy) \in Seq(App!Result)
      BY <1>1, QueueFacts DEF App!ReadPop, App!AppTypeOK
    <2>2. QED
      BY <1>1, <2>1 DEF App!ReadPop, App!AppTypeOK
  <1>2. CASE App!ReadLookup(r)
    <2>1. App!KeyOfResult(popped[r]) \in App!Request
      BY <1>2 DEF App!ReadLookup, App!AppTypeOK, App!KeyOfResult, App!Result, App!Request
    <2>2. userConnMap[App!KeyOfResult(popped[r])] \in Calls
      BY <1>2, <2>1 DEF App!ReadLookup, App!AppTypeOK
    <2>3. QED
      BY <1>2, <2>2 DEF App!ReadLookup, App!AppTypeOK
  <1>3. CASE App!ReadDrop(r)
    BY <1>3 DEF App!ReadDrop, App!AppTypeOK
  <1>4. CASE App!ReadDeliver(r)
    <2>1. target[r] \in Calls /\ popped[r] \in App!Result
      BY <1>4 DEF App!ReadDeliver, App!AppTypeOK
    <2>2. /\ Append(buf[target[r]], popped[r]) \in Seq(App!Result)
          /\ Len(Append(buf[target[r]], popped[r])) = 1
      <3>1. buf[target[r]] = <<>>
        BY <1>4 DEF App!ReadDeliver
      <3>2. QED
        BY <2>1, <3>1
    <2>3. buf' \in [Calls -> Seq(App!Result)] /\ \A d \in Calls : Len(buf'[d]) <= 1
      BY <1>4, <2>1, <2>2 DEF App!ReadDeliver, App!AppTypeOK
    <2>4. QED
      BY <1>4, <2>3 DEF App!ReadDeliver, App!AppTypeOK
  <1>5. QED
    BY <1>1, <1>2, <1>3, <1>4 DEF App!ReadStep

AppInv == App!AppTypeOK /\ App!KeyedDelivery /\ App!NoLeakedEntry

LEMMA DeliverStep == AppInv /\ TypeOK' /\ [SysNext]_sysVars => AppInv'
  <1> SUFFICES ASSUME App!AppTypeOK, App!KeyedDelivery, App!NoLeakedEntry,
                      TypeOK', [SysNext]_sysVars
               PROVE  AppInv'
    BY DEF AppInv
  <1> USE DEF App!queues, App!callers, App!readers, App!Move
  <1>1. ASSUME NEW c \in Calls, App!CallStep(c) PROVE AppInv'
    <2>1. App!AppTypeOK'
      BY <1>1, AppTypeCall
    <2>2. App!KeyedDelivery'
      <3>1. CASE App!CallReceive(c)
        <4>1. \A i \in 1..Len(Tail(buf[c])) :
                 i + 1 \in 1..Len(buf[c]) /\ Tail(buf[c])[i] = buf[c][i + 1]
          BY <3>1, QueueFacts DEF App!CallReceive, App!AppTypeOK
        <4>2. QED
          BY <3>1, <4>1 DEF App!CallReceive, App!KeyedDelivery, App!AppTypeOK
      <3>2. CASE ~App!CallReceive(c)
        <4>1. UNCHANGED <<buf, popped, target>>
          BY <1>1, <3>2 DEF App!CallStep, App!CallRefused, App!CallAdmitted, App!CallRegister,
             App!CallEnqueue, App!CallTimeout, App!CallCleanup
        <4>2. QED
          BY <4>1 DEF App!KeyedDelivery
      <3>3. QED
        BY <3>1, <3>2
    <2>3. App!NoLeakedEntry'
      <3>0. KeyOf[c] \in App!Request
        BY CallsAssumption DEF Request, App!Request
      <3>1. CASE App!CallRefused(c)
        BY <3>1 DEF App!CallRefused, App!NoLeakedEntry, App!AppTypeOK
      <3>2. CASE App!CallAdmitted(c)
        BY <3>2 DEF App!CallAdmitted, App!NoLeakedEntry, App!AppTypeOK
      <3>3. CASE App!CallRegister(c)
        BY <3>0, <3>3 DEF App!CallRegister, App!NoLeakedEntry, App!AppTypeOK
      <3>4. CASE App!CallEnqueue(c)
        BY <3>4 DEF App!CallEnqueue, App!NoLeakedEntry, App!AppTypeOK
      <3>5. CASE App!CallTimeout(c)
        BY <3>5 DEF App!CallTimeout, App!NoLeakedEntry, App!AppTypeOK
      <3>6. CASE App!CallReceive(c)
        BY <3>6 DEF App!CallReceive, App!NoLeakedEntry, App!AppTypeOK
      <3>7. CASE App!CallCleanup(c)
        BY <3>0, <3>7 DEF App!CallCleanup, App!NoLeakedEntry, App!AppTypeOK
      <3>8. QED
        BY <1>1, <3>1, <3>2, <3>3, <3>4, <3>5, <3>6, <3>7 DEF App!CallStep
    <2>4. QED
      BY <2>1, <2>2, <2>3 DEF AppInv
  <1>2. ASSUME NEW w \in AppWriters, App!WriteStep(w) PROVE AppInv'
    <2>1. App!AppTypeOK'
      BY <1>2, AppTypeWrite
    <2>2. UNCHANGED <<userConnMap, buf, at, popped, target>>
      BY <1>2 DEF App!WriteStep, App!WriteTake, App!WritePush, App!WriteFail
    <2>3. QED
      BY <2>1, <2>2 DEF AppInv, App!KeyedDelivery, App!NoLeakedEntry
  <1>3. ASSUME NEW r \in AppReaders, App!ReadStep(r) PROVE AppInv'
    <2>1. App!AppTypeOK'
      BY <1>3, AppTypeRead DEF App!KeyedDelivery
    <2>2. App!NoLeakedEntry'
      <3>1. UNCHANGED <<userConnMap, at>>
        BY <1>3 DEF App!ReadStep, App!ReadPop, App!ReadLookup, App!ReadDrop, App!ReadDeliver
      <3>2. QED
        BY <3>1 DEF App!NoLeakedEntry
    <2>3. App!KeyedDelivery'
      <3>1. CASE App!ReadPop(r)
        <4>1. target[r] = NoCall
          BY <3>1 DEF App!ReadPop, App!KeyedDelivery
        <4>2. QED
          BY <3>1, <4>1 DEF App!ReadPop, App!KeyedDelivery, App!AppTypeOK
      <3>2. CASE App!ReadLookup(r)
        <4>1. App!KeyOfResult(popped[r]) \in App!Request
          BY <3>2 DEF App!ReadLookup, App!AppTypeOK, App!KeyOfResult, App!Result, App!Request
        <4>2. KeyOf[userConnMap[App!KeyOfResult(popped[r])]] = App!KeyOfResult(popped[r])
          BY <3>2, <4>1 DEF App!ReadLookup, App!NoLeakedEntry
        <4>3. QED
          BY <3>2, <4>2 DEF App!ReadLookup, App!KeyedDelivery, App!AppTypeOK
      <3>3. CASE App!ReadDrop(r)
        BY <3>3 DEF App!ReadDrop, App!KeyedDelivery, App!AppTypeOK
      <3>4. CASE App!ReadDeliver(r)
        <4>1. target[r] \in Calls /\ App!KeyOfResult(popped[r]) = KeyOf[target[r]]
          BY <3>4 DEF App!ReadDeliver, App!KeyedDelivery, App!AppTypeOK
        <4>2. \A i \in 1..Len(Append(buf[target[r]], popped[r])) :
                  Append(buf[target[r]], popped[r])[i] = popped[r]
          BY <3>4 DEF App!ReadDeliver
        <4>3. \A d \in Calls : \A i \in 1..Len(buf'[d]) :
                  App!KeyOfResult(buf'[d][i]) = KeyOf[d]
          BY <3>4, <4>1, <4>2 DEF App!ReadDeliver, App!KeyedDelivery, App!AppTypeOK
        <4>4. \A s \in AppReaders : target'[s] # NoCall =>
                  popped'[s] # NoRes /\ App!KeyOfResult(popped'[s]) = KeyOf[target'[s]]
          BY <3>4 DEF App!ReadDeliver, App!KeyedDelivery, App!AppTypeOK
        <4>5. QED
          BY <4>3, <4>4 DEF App!KeyedDelivery
      <3>5. QED
        BY <1>3, <3>1, <3>2, <3>3, <3>4 DEF App!ReadStep
    <2>4. QED
      BY <2>1, <2>2, <2>3 DEF AppInv
  <1>4. ASSUME \/ App!ForeignPop
               \/ UNCHANGED appOnly
        PROVE  AppInv'
    <2>1. UNCHANGED <<secReqChan, userConnMap, buf, at, outcome, sending, popped, target>>
      BY <1>4 DEF App!ForeignPop, appOnly
    <2>2. proxy2layer' \in Seq(App!Request) /\ layer2proxy' \in Seq(App!Result)
      BY DEF TypeOK, Request, Result, App!Request, App!Result
    <2>3. App!AppTypeOK'
      BY <2>1, <2>2 DEF App!AppTypeOK
    <2>4. App!KeyedDelivery' /\ App!NoLeakedEntry'
      BY <2>1 DEF App!KeyedDelivery, App!NoLeakedEntry
    <2>5. QED
      BY <2>3, <2>4 DEF AppInv
  <1>5. QED
    BY <1>1, <1>2, <1>3, <1>4 DEF SysNext, App!AppNext, sysVars

LEMMA SysInvariant == SysSpec => [](TypeOK /\ AppInv)
  <1>1. SysInit => TypeOK /\ AppInv
    <2> SUFFICES ASSUME SysInit PROVE TypeOK /\ AppInv
      OBVIOUS
    <2>1. TypeOK
      BY TypeInit DEF SysInit
    <2>2. /\ <<>> \in Seq(App!Request) /\ <<>> \in Seq(App!Result) /\ <<>> \in Seq(Calls)
          /\ Len(<<>>) = 0
      OBVIOUS
    <2>3. App!AppTypeOK
      BY <2>2, AppBoundsAssumption
         DEF SysInit, App!AppInit, App!AppTypeOK, App!Places, App!Outcomes
    <2>4. App!KeyedDelivery /\ App!NoLeakedEntry
      BY DEF SysInit, App!AppInit, App!KeyedDelivery, App!NoLeakedEntry
    <2>5. QED
      BY <2>1, <2>3, <2>4 DEF AppInv
  <1>2. TypeOK /\ AppInv /\ [SysNext]_sysVars => (TypeOK /\ AppInv)'
    <2>1. TypeOK /\ AppInv /\ [SysNext]_sysVars => TypeOK'
      BY SystemStep, TypeStep DEF AppInv
    <2>2. QED
      BY <2>1, DeliverStep
  <1>3. QED
    BY <1>1, <1>2, PTL DEF SysSpec

\* Put together with sk-app, sk-core does nothing that its own specification
\* does not allow: whatever is proved of SecKillCore!Spec holds end to end.
THEOREM SystemImplementsCore == SysSpec => Spec
  <1>1. SysInit => Init
    BY DEF SysInit
  <1>2. TypeOK /\ AppInv /\ [SysNext]_sysVars => [Next]_vars
    BY SystemStep DEF AppInv
  <1>3. QED
    BY <1>1, <1>2, SysInvariant, PTL DEF SysSpec, Spec

\* What holds of sk-core alone holds of it in the system, whatever sk-app
\* sends: the bounds on sales, the ledgers and what "sold out" means.
THEOREM SystemKeepsBounds ==
    SysSpec => [](OversellBound /\ LimitBound /\ ResaleBound /\ LedgersAgree /\ SoldoutTruthful)
  BY SystemImplementsCore, OversellSafe, LimitSafe, ResaleSafe, LedgersProved, SoldoutSafe, PTL

\* End to end, too, a result only reaches a call for the user and product it
\* is about, and no entry of UserConnMap outlives its call.
THEOREM SystemDelivers == SysSpec => [](App!KeyedDelivery /\ App!NoLeakedEntry)
  BY SysInvariant, PTL DEF AppInv

-----------------------------------------------------------------------------
(* Successes that sk-app holds: told to a call, in a call's channel, or in  *)
(* the hand of a ReadHandle goroutine.  Calls need not be finite, those     *)
(* with a success are.                                                      *)

Receipt(c) == [user |-> KeyOf[c].user, product |-> KeyOf[c].product,
               code |-> outcome[c]]

ToldOf(G) == {c \in Calls : Receipt(c) \in G}
Doors(G)  == {c \in Calls : \E i \in 1..Len(buf[c]) : buf[c][i] \in G}

Few(G)   == IsFiniteSet(ToldOf(G)) /\ IsFiniteSet(Doors(G))
Reach(G) == Cardinality(ToldOf(G)) + Cardinality(Doors(G))
            + Cardinality(HeldIn(popped, G))

LEMMA ReachTypes ==
    ASSUME AppInv, NEW G, Few(G)
    PROVE  /\ Cardinality(ToldOf(G)) \in Nat /\ Cardinality(Doors(G)) \in Nat
           /\ Cardinality(HeldIn(popped, G)) \in Nat
           /\ Reach(G) \in Nat
  <1>1. HeldIn(popped, G) \subseteq AppReaders
    BY DEF HeldIn, AppInv, App!AppTypeOK
  <1>2. /\ Cardinality(ToldOf(G)) \in Nat /\ Cardinality(Doors(G)) \in Nat
        /\ Cardinality(HeldIn(popped, G)) \in Nat
    BY <1>1, FS_Subset, FS_CardinalityType, AppGoroutinesAssumption DEF Few
  <1>3. QED
    BY <1>2 DEF Reach

\* A reader of sk-app that holds x instead of what it held.
LEMMA PoppedChanges ==
    ASSUME AppInv, NEW r \in AppReaders, NEW x, NEW G,
           popped' = [popped EXCEPT ![r] = x]
    PROVE  /\ Cardinality(HeldIn(popped, G)) \in Nat
           /\ Cardinality(HeldIn(popped', G)) \in Nat
           /\ Cardinality(HeldIn(popped', G)) + Weight(popped[r], G)
                  = Cardinality(HeldIn(popped, G)) + Weight(x, G)
  <1>1. /\ DOMAIN popped = AppReaders /\ DOMAIN popped' = AppReaders
        /\ IsFiniteSet(AppReaders) /\ popped'[r] = x
        /\ \A v \in AppReaders : v # r => popped'[v] = popped[v]
    BY AppGoroutinesAssumption DEF AppInv, App!AppTypeOK
  <1> DEFINE f == popped
             g == popped'
  <1> HIDE DEF f, g
  <1>2. /\ IsFiniteSet(DOMAIN f) /\ DOMAIN g = DOMAIN f /\ r \in DOMAIN f
        /\ \A v \in DOMAIN f : v # r => g[v] = f[v]
    BY <1>1 DEF f, g
  <1>3. /\ Cardinality(HeldIn(f, G)) \in Nat
        /\ Cardinality(HeldIn(g, G)) \in Nat
        /\ Cardinality(HeldIn(g, G)) + Weight(f[r], G)
               = Cardinality(HeldIn(f, G)) + Weight(g[r], G)
    BY <1>2, HandChanges
  <1>4. QED
    BY <1>1, <1>3 DEF f, g

\* What a step of sk-app promises about the successes of G.
Passes(G) == /\ Few(G)'
             /\ Reach(G)' \in Nat /\ InFlight(G)' \in Nat
             /\ Reach(G)' + InFlight(G)' <= Reach(G) + InFlight(G)

LEMMA CallPasses ==
    ASSUME TypeOK, AppInv, NEW c \in Calls, App!CallStep(c), UNCHANGED coreOnly,
           NEW G \in SUBSET Wins, Few(G)
    PROVE  Passes(G)
  <1> USE DEF App!queues, App!callers, App!readers, App!Move, coreOnly
  <1> DEFINE A == ToldOf(G)
             B == ToldOf(G)'
             C == Doors(G)
             D == Doors(G)'
             x == Cardinality(HeldIn(popped, G))
             y == InFlight(G)
  <1>1. UNCHANGED <<popped, layer2proxy, frame, handle2write, writing>>
    BY DEF App!CallStep, App!CallRefused, App!CallAdmitted, App!CallRegister,
       App!CallEnqueue, App!CallTimeout, App!CallReceive, App!CallCleanup, chans, ends
  <1>2. InFlight(G)' = y /\ y \in Nat
    <2>1. InFlight(G)' = InFlight(G) /\ InFlight(G)' \in Nat
      BY <1>1, ElsewhereFlight
    <2>2. QED
      BY <2>1
  <1>3. \A d \in Calls : d # c => outcome'[d] = outcome[d] /\ buf'[d] = buf[d]
    BY DEF App!CallStep, App!CallRefused, App!CallAdmitted, App!CallRegister,
       App!CallEnqueue, App!CallTimeout, App!CallReceive, App!CallCleanup, AppInv,
       App!AppTypeOK
  <1>4. B \ {c} = A \ {c} /\ D \ {c} = C \ {c}
    BY <1>3 DEF ToldOf, Doors, Receipt
  <1>5. IsFiniteSet(A) /\ IsFiniteSet(C) /\ x \in Nat
    BY ReachTypes DEF Few
  <1>6. Weight(c, B) + Weight(c, D) <= Weight(c, A) + Weight(c, C)
    <2>1. CASE App!CallReceive(c)
      <3> DEFINE res == Head(buf[c])
      <3>1. /\ buf[c] # <<>> /\ buf[c] \in Seq(Result) /\ Len(buf[c]) <= 1
            /\ buf'[c] = Tail(buf[c]) /\ outcome'[c] = res.code
        BY <2>1 DEF App!CallReceive, AppInv, App!AppTypeOK, App!Result, Result
      <3>2. /\ Len(buf[c]) = 1 /\ res = buf[c][1] /\ res \in Result /\ buf'[c] = <<>>
        BY <3>1, QueueOfOne
      <3>3. App!KeyOfResult(res) = KeyOf[c]
        BY <3>2 DEF AppInv, App!KeyedDelivery
      <3>4. KeyOf[c] \in Request
        BY CallsAssumption
      <3>5. Receipt(c)' = res
        BY <3>1, <3>2, <3>3, <3>4 DEF Receipt, App!KeyOfResult, Request, Result
      <3>6. c \in B => c \in C
        BY <3>2, <3>5 DEF ToldOf, Doors
      <3>7. c \notin D
        BY <3>2 DEF Doors
      <3> HIDE DEF A, B, C, D
      <3>8. QED
        BY <3>6, <3>7 DEF Weight
    <2>2. CASE ~App!CallReceive(c)
      <3>1. buf' = buf
        BY <2>2 DEF App!CallStep, App!CallRefused, App!CallAdmitted, App!CallRegister,
           App!CallEnqueue, App!CallTimeout, App!CallCleanup
      <3>2. outcome'[c] = outcome[c] \/ outcome'[c] # "Succ"
        BY <2>2 DEF App!CallStep, App!CallRefused, App!CallAdmitted, App!CallRegister,
           App!CallEnqueue, App!CallTimeout, App!CallCleanup, AppInv, App!AppTypeOK
      <3>3. c \in B => c \in A
        BY <3>2 DEF ToldOf, Receipt, Wins
      <3>4. c \in D <=> c \in C
        BY <3>1 DEF Doors
      <3> HIDE DEF A, B, C, D
      <3>5. QED
        BY <3>3, <3>4 DEF Weight
    <2>3. QED
      BY <2>1, <2>2
  <1>7. Few(G)' <=> IsFiniteSet(B) /\ IsFiniteSet(D)
    BY DEF Few
  <1>8. /\ Reach(G) = Cardinality(A) + Cardinality(C) + x
        /\ Reach(G)' = Cardinality(B) + Cardinality(D) + x
    BY <1>1 DEF Reach
  <1>9. Passes(G) <=> /\ Few(G)'
                      /\ Reach(G)' \in Nat /\ InFlight(G)' \in Nat
                      /\ Reach(G)' + InFlight(G)' <= Reach(G) + InFlight(G)
    BY DEF Passes
  <1> HIDE DEF A, B, C, D, x
  <1>10. /\ IsFiniteSet(B) /\ Cardinality(A) \in Nat /\ Cardinality(B) \in Nat
         /\ Cardinality(B) + Weight(c, A) = Cardinality(A) + Weight(c, B)
    BY <1>4, <1>5, SetChanges
  <1>11. /\ IsFiniteSet(D) /\ Cardinality(C) \in Nat /\ Cardinality(D) \in Nat
         /\ Cardinality(D) + Weight(c, C) = Cardinality(C) + Weight(c, D)
    BY <1>4, <1>5, SetChanges
  <1>12. /\ Weight(c, A) \in Nat /\ Weight(c, B) \in Nat
         /\ Weight(c, C) \in Nat /\ Weight(c, D) \in Nat
    BY WeightType
  <1>13. Reach(G)' <= Reach(G) /\ Reach(G)' \in Nat /\ Reach(G) \in Nat
    BY <1>5, <1>6, <1>8, <1>10, <1>11, <1>12
  <1>14. QED
    BY <1>2, <1>7, <1>9, <1>10, <1>11, <1>13

LEMMA WritePasses ==
    ASSUME TypeOK, AppInv, NEW w \in AppWriters, App!WriteStep(w), UNCHANGED coreOnly,
           NEW G \in SUBSET Wins, Few(G)
    PROVE  Passes(G)
  <1> USE DEF App!queues, App!callers, App!readers, coreOnly
  <1>1. UNCHANGED <<popped, buf, outcome, layer2proxy, frame, handle2write, writing>>
    BY DEF App!WriteStep, App!WriteTake, App!WritePush, App!WriteFail, chans, ends
  <1>2. InFlight(G)' = InFlight(G) /\ InFlight(G)' \in Nat
    BY <1>1, ElsewhereFlight
  <1>3. ToldOf(G)' = ToldOf(G) /\ Doors(G)' = Doors(G)
    BY <1>1 DEF ToldOf, Doors, Receipt
  <1>4. Few(G)' /\ Reach(G)' = Reach(G)
    BY <1>1, <1>3 DEF Few, Reach
  <1>5. Reach(G) \in Nat
    BY ReachTypes
  <1>6. QED
    BY <1>2, <1>4, <1>5 DEF Passes

LEMMA ReadPasses ==
    ASSUME TypeOK, AppInv, NEW r \in AppReaders, App!ReadStep(r), UNCHANGED coreOnly,
           NEW G \in SUBSET Wins, Few(G)
    PROVE  Passes(G)
  <1> USE DEF App!queues, App!callers, App!readers, coreOnly
  <1> DEFINE a == Cardinality(ToldOf(G))
             b == Cardinality(Doors(G))
             h == Cardinality(HeldIn(popped, G))
             g == Cardinality(HeldIn(popped', G))
             y == InFlight(G)
  <1>1. /\ UNCHANGED <<outcome, frame, handle2write, writing>>
        /\ ToldOf(G)' = ToldOf(G)
    BY DEF App!ReadStep, App!ReadPop, App!ReadLookup, App!ReadDrop, App!ReadDeliver,
       chans, ends, ToldOf, Receipt
  <1>2. /\ a \in Nat /\ b \in Nat /\ h \in Nat /\ y \in Nat
        /\ Reach(G) = a + b + h
    BY ReachTypes, InFlightTypes DEF Reach
  <1>3. Weight(NoRes, G) = 0
    BY NoneAssumption DEF Wins, Weight
  <1>4. layer2proxy' = layer2proxy => InFlight(G)' = y
    BY <1>1, ElsewhereFlight
  <1>5. buf' = buf => /\ Doors(G)' = Doors(G)
                      /\ Few(G)' /\ Reach(G)' = a + b + g
    BY <1>1 DEF Doors, Few, Reach
  <1>6. CASE App!ReadPop(r)
    <2> DEFINE res == Head(layer2proxy)
    <2>1. /\ popped' = [popped EXCEPT ![r] = res] /\ popped[r] = NoRes
          /\ layer2proxy # <<>> /\ layer2proxy' = Tail(layer2proxy)
          /\ buf' = buf
      BY <1>6 DEF App!ReadPop
    <2>2. g \in Nat /\ g + Weight(popped[r], G) = h + Weight(res, G)
      <3> HIDE DEF res
      <3>1. QED
        BY <2>1, PoppedChanges
    <2>3. InFlight(G)' \in Nat /\ InFlight(G)' + Weight(res, G) <= y
      BY <1>1, <2>1, TakenFlight
    <2>4. Weight(popped[r], G) = 0 /\ Weight(res, G) \in Nat
      BY <1>3, <2>1, WeightType
    <2> HIDE DEF a, b, h, g, y, res
    <2>5. Few(G)' /\ Reach(G)' = a + b + g
      BY <1>5, <2>1
    <2>6. Reach(G)' \in Nat /\ Reach(G)' + InFlight(G)' <= Reach(G) + y
      BY <1>2, <2>2, <2>3, <2>4, <2>5
    <2>7. QED
      BY <2>3, <2>5, <2>6 DEF Passes, y
  <1>7. CASE App!ReadLookup(r)
    <2>1. popped' = popped /\ layer2proxy' = layer2proxy /\ buf' = buf
      BY <1>7 DEF App!ReadLookup
    <2>2. Few(G)' /\ Reach(G)' = Reach(G) /\ InFlight(G)' = y
      BY <1>2, <1>4, <1>5, <2>1
    <2>3. Reach(G) \in Nat
      BY ReachTypes
    <2>4. QED
      BY <1>2, <2>2, <2>3 DEF Passes
  <1>8. CASE App!ReadDrop(r)
    <2>1. /\ popped' = [popped EXCEPT ![r] = NoRes]
          /\ layer2proxy' = layer2proxy /\ buf' = buf
      BY <1>8 DEF App!ReadDrop
    <2>2. g \in Nat /\ g + Weight(popped[r], G) = h + Weight(NoRes, G)
      BY <2>1, PoppedChanges
    <2>3. Weight(popped[r], G) \in Nat
      BY WeightType
    <2>4. Few(G)' /\ Reach(G)' = a + b + g /\ InFlight(G)' = y
      BY <1>4, <1>5, <2>1
    <2> HIDE DEF a, b, h, g, y
    <2>5. Reach(G)' \in Nat /\ Reach(G)' + InFlight(G)' <= Reach(G) + y
      BY <1>2, <1>3, <2>2, <2>3, <2>4
    <2>6. QED
      BY <1>2, <2>4, <2>5 DEF Passes, y
  <1>9. CASE App!ReadDeliver(r)
    <2> DEFINE c == target[r]
               res == popped[r]
               C == Doors(G)
               D == Doors(G)'
    <2>1. /\ popped' = [popped EXCEPT ![r] = NoRes] /\ layer2proxy' = layer2proxy
          /\ c \in Calls /\ res \in Result /\ buf[c] = <<>>
          /\ buf' = [buf EXCEPT ![c] = Append(buf[c], res)]
      BY <1>9 DEF App!ReadDeliver, AppInv, App!KeyedDelivery, App!AppTypeOK, App!Result,
         Result
    <2>2. /\ buf'[c] = Append(<<>>, res)
          /\ \A d \in Calls : d # c => buf'[d] = buf[d]
      BY <2>1 DEF AppInv, App!AppTypeOK
    <2>3. D \ {c} = C \ {c}
      BY <2>2 DEF Doors
    <2>4. Weight(c, C) = 0 /\ Weight(c, D) = Weight(res, G)
      <3>1. c \notin C
        BY <2>1 DEF Doors
      <3>2. Len(Append(<<>>, res)) = 1 /\ Append(<<>>, res)[1] = res
        OBVIOUS
      <3>3. c \in D <=> res \in G
        BY <2>1, <2>2, <3>2 DEF Doors
      <3> HIDE DEF c, res, C, D
      <3>4. QED
        BY <3>1, <3>3 DEF Weight
    <2>5. g \in Nat /\ g + Weight(res, G) = h + Weight(NoRes, G)
      BY <2>1, PoppedChanges
    <2>6. /\ IsFiniteSet(C) /\ b = Cardinality(C)
          /\ Reach(G)' = a + Cardinality(D) + g
          /\ Few(G)' <=> IsFiniteSet(D)
      BY <1>1 DEF Few, Reach
    <2>7. InFlight(G)' = y /\ Weight(res, G) \in Nat
      BY <1>4, <2>1, WeightType
    <2> HIDE DEF a, b, h, g, y, c, res, C, D
    <2>8. /\ IsFiniteSet(D) /\ Cardinality(D) \in Nat
          /\ Cardinality(D) + Weight(c, C) = Cardinality(C) + Weight(c, D)
      BY <2>3, <2>6, SetChanges
    <2>9. Reach(G)' \in Nat /\ Reach(G)' + InFlight(G)' <= Reach(G) + y
      BY <1>2, <1>3, <2>4, <2>5, <2>6, <2>7, <2>8
    <2>10. QED
      BY <1>2, <2>6, <2>7, <2>8, <2>9 DEF Passes, y
  <1>10. QED
    BY <1>6, <1>7, <1>8, <1>9 DEF App!ReadStep

\* Nothing sk-app does makes a success.
LEMMA AppPasses ==
    ASSUME TypeOK, AppInv, App!AppNext, UNCHANGED coreOnly,
           NEW G \in SUBSET Wins, Few(G)
    PROVE  Passes(G)
  <1>1. CASE App!ForeignPop
    <2>1. /\ UNCHANGED <<popped, buf, outcome, frame, handle2write, writing>>
          /\ layer2proxy # <<>> /\ layer2proxy' = Tail(layer2proxy)
      BY <1>1 DEF App!ForeignPop, App!callers, App!readers, coreOnly, chans, ends
    <2>2. /\ InFlight(G)' \in Nat
          /\ InFlight(G)' + Weight(Head(layer2proxy), G) <= InFlight(G)
      BY <2>1, TakenFlight
    <2>3. ToldOf(G)' = ToldOf(G) /\ Doors(G)' = Doors(G)
      BY <2>1 DEF ToldOf, Doors, Receipt
    <2>4. Few(G)' /\ Reach(G)' = Reach(G)
      BY <2>1, <2>3 DEF Few, Reach
    <2>5. Reach(G) \in Nat /\ InFlight(G) \in Nat /\ Weight(Head(layer2proxy), G) \in Nat
      BY ReachTypes, InFlightTypes, WeightType
    <2>6. QED
      BY <2>2, <2>4, <2>5 DEF Passes
  <1>2. QED
    BY <1>1, CallPasses, WritePasses, ReadPasses DEF App!AppNext

LEMMA CoreReach ==
    ASSUME AppInv, UNCHANGED appOnly, NEW G, Few(G)
    PROVE  Few(G)' /\ Reach(G)' = Reach(G) /\ Reach(G) \in Nat
  <1>1. ToldOf(G)' = ToldOf(G) /\ Doors(G)' = Doors(G)
    BY DEF appOnly, ToldOf, Doors, Receipt
  <1>2. Few(G)' /\ Reach(G)' = Reach(G)
    BY <1>1 DEF appOnly, Few, Reach
  <1>3. QED
    BY <1>2, ReachTypes

LEMMA NobodyTold ==
    ASSUME SysInit, NEW G \in SUBSET Wins
    PROVE  Few(G) /\ Reach(G) = 0 /\ InFlight(G) = 0
  <1>1. ToldOf(G) = {} /\ Doors(G) = {} /\ HeldIn(popped, G) = {}
    BY NoneAssumption
       DEF SysInit, App!AppInit, ToldOf, Doors, Receipt, HeldIn, Wins
  <1>2. InFlight(G) = 0
    BY NothingInFlight DEF SysInit
  <1>3. QED
    BY <1>1, <1>2, FS_EmptySet DEF Few, Reach

-----------------------------------------------------------------------------
(* Every success for a product is backed by a sale                          *)

BackedInv == \A p \in Products : /\ Few(For(p))
                                 /\ Reach(For(p)) + InFlight(For(p)) <= everSold[p]

LEMMA BackedInit == SysInit => BackedInv
  <1> SUFFICES ASSUME SysInit, NEW p \in Products
               PROVE  Few(For(p)) /\ Reach(For(p)) + InFlight(For(p)) <= everSold[p]
    BY DEF BackedInv
  <1>1. For(p) \in SUBSET Wins /\ everSold[p] = 0
    BY DEF For, SysInit, Init
  <1>2. QED
    BY <1>1, NobodyTold

LEMMA BackedStep ==
    TypeOK /\ AppInv /\ BackedInv /\ [SysNext]_sysVars => BackedInv'
  <1> SUFFICES ASSUME TypeOK, TypeOK', AppInv, BackedInv, [SysNext]_sysVars,
                      NEW p \in Products
               PROVE  /\ Few(For(p))'
                      /\ Reach(For(p))' + InFlight(For(p))' <= everSold'[p]
    BY SystemStep, TypeStep DEF BackedInv, AppInv
  <1> DEFINE G == For(p)
  <1>1. G \in SUBSET Wins
    BY DEF For
  <1>2. Few(G) /\ Reach(G) + InFlight(G) <= everSold[p]
    BY DEF BackedInv
  <1>3. /\ Reach(G) \in Nat /\ InFlight(G) \in Nat
        /\ everSold[p] \in Nat /\ everSold'[p] \in Nat
    BY <1>2, ReachTypes, InFlightTypes DEF TypeOK
  <1>4. CASE App!AppNext /\ UNCHANGED coreOnly
    <2>1. Passes(G)
      BY <1>1, <1>2, <1>4, AppPasses
    <2>2. everSold' = everSold
      BY <1>4 DEF coreOnly, ledger
    <2> HIDE DEF G
    <2>3. Few(G)' /\ Reach(G)' + InFlight(G)' <= everSold'[p]
      BY <1>2, <1>3, <2>1, <2>2 DEF Passes
    <2>4. QED
      BY <2>3 DEF G
  <1>5. ASSUME [Next]_vars, UNCHANGED appOnly
        PROVE  Few(G)' /\ Reach(G)' + InFlight(G)' <= everSold'[p]
    <2>1. Few(G)' /\ Reach(G)' = Reach(G)
      BY <1>2, <1>5, CoreReach
    <2>2. InFlight(G)' \in Nat
      BY <1>1, <1>5, SuccessConserved
    <2>3. CASE InFlight(G)' <= InFlight(G) /\ everSold' = everSold
      <3> HIDE DEF G
      <3>1. QED
        BY <1>2, <1>3, <2>1, <2>2, <2>3
    <2>4. ASSUME NEW h \in Handlers, CountSale(h),
                 InFlight(G)' = InFlight(G) + Weight(Token(h), G)
          PROVE  Reach(G)' + InFlight(G)' <= everSold'[p]
      <3>1. everSold'[p] = everSold[p] + Weight(Token(h), G)
        BY <2>4, SaleCounted
      <3>2. Weight(Token(h), G) \in Nat
        BY WeightType
      <3> HIDE DEF G
      <3>3. QED
        BY <1>2, <1>3, <2>1, <2>2, <2>4, <3>1, <3>2
    <2>5. QED
      BY <1>1, <1>5, <2>1, <2>3, <2>4, SuccessConserved
  <1>6. QED
    BY <1>4, <1>5 DEF SysNext, Next, sysVars

LEMMA BackedMeans == TypeOK /\ AppInv /\ BackedInv => TokensBacked
  <1> SUFFICES ASSUME TypeOK, AppInv, BackedInv, NEW p \in Products
               PROVE  Cardinality(Buyers(p)) + Cardinality(Winners(p))
                      + Cardinality(Bearers(p)) + SuccessesInFlight(p) <= everSold[p]
    BY DEF TokensBacked
  <1>1. \A res \in Result : IsSuccess(res, p) <=> res \in For(p)
    BY DEF IsSuccess, For, Wins
  <1>2. Buyers(p) = ToldOf(For(p))
    <2>1. \A c \in Calls : KeyOf[c] \in Request
      BY CallsAssumption
    <2>2. QED
      BY <2>1 DEF Buyers, ToldOf, Receipt, For, Wins, Request, Result, Codes
  <1>3. Winners(p) = Doors(For(p))
    <2>1. \A c \in Calls : \A i \in 1..Len(buf[c]) : buf[c][i] \in Result
      <3> SUFFICES ASSUME NEW c \in Calls, NEW i \in 1..Len(buf[c])
                   PROVE  buf[c][i] \in Result
        OBVIOUS
      <3>1. buf[c] \in Seq(Result)
        BY DEF AppInv, App!AppTypeOK, App!Result, Result
      <3>2. QED
        BY <3>1
    <2>2. QED
      BY <1>1, <2>1 DEF Winners, Doors
  <1>4. Bearers(p) = HeldIn(popped, For(p))
    <2>1. popped \in [AppReaders -> Result \cup {NoRes}]
      BY DEF AppInv, App!AppTypeOK, App!Result, Result
    <2>2. NoRes \notin For(p)
      BY NoneAssumption DEF For, Wins
    <2>3. QED
      BY <1>1, <2>1, <2>2 DEF Bearers, HeldIn
  <1>5. SuccessesInFlight(p) = InFlight(For(p))
    BY ForProduct
  <1>6. QED
    BY <1>2, <1>3, <1>4, <1>5 DEF BackedInv, Reach

\* Across both services and both lists no sale is reported twice: the calls
\* told "succeeded" for a product and the successes still under way never
\* outnumber the units sold, for any number of calls and goroutines.
THEOREM TokensBackedProved == SysSpec => []TokensBacked
  BY BackedInit, BackedStep, BackedMeans, SysInvariant, PTL DEF SysSpec

-----------------------------------------------------------------------------
(* Every success for a user and a product is in the user's history          *)

Paid(k) == {res \in Wins : res.user = k.user /\ res.product = k.product}

PaidInv ==
    restarts = 0 =>
        \A k \in Request :
            Reach(Paid(k)) + InFlight(Paid(k)) + Cardinality(Booking(Paid(k)))
                <= history[k.user][k.product]

LEMMA BookingType ==
    ASSUME NEW G
    PROVE  IsFiniteSet(Booking(G)) /\ Cardinality(Booking(G)) \in Nat
  <1>1. Booking(G) \subseteq Handlers
    BY DEF Booking
  <1>2. QED
    BY <1>1, HandlersAssumption, FS_Subset, FS_CardinalityType

LEMMA PaidFew == BackedInv => \A k \in Request : Few(Paid(k))
  <1> SUFFICES ASSUME BackedInv, NEW k \in Request PROVE Few(Paid(k))
    OBVIOUS
  <1>1. Few(For(k.product))
    BY DEF BackedInv, Request
  <1>2. Paid(k) \subseteq For(k.product)
    BY DEF Paid, For
  <1>3. /\ ToldOf(Paid(k)) \subseteq ToldOf(For(k.product))
        /\ Doors(Paid(k)) \subseteq Doors(For(k.product))
    BY <1>2 DEF ToldOf, Doors
  <1>4. QED
    BY <1>1, <1>3, FS_Subset DEF Few

\* What a step without restart does to the histories and to the handlers
\* between the two ledgers.
Books(h, k)  == /\ RecordHistory(h)
                /\ history'[k.user][k.product]
                       = history[k.user][k.product] + Weight(Token(h), Paid(k))
                /\ Cardinality(Booking(Paid(k)))'
                       = Cardinality(Booking(Paid(k))) + Weight(Token(h), Paid(k))
Counts(h, k) == /\ CountSale(h)
                /\ history' = history
                /\ Cardinality(Booking(Paid(k)))' + Weight(Token(h), Paid(k))
                       = Cardinality(Booking(Paid(k)))

LEMMA BookingHandler ==
    ASSUME TypeOK, NEW h \in Handlers, HandlerStep(h), NEW k \in Request
    PROVE  \/ Books(h, k) \/ Counts(h, k)
           \/ /\ ~CountSale(h) /\ history' = history
              /\ Booking(Paid(k))' = Booking(Paid(k))
  <1> USE DEF queues, chans, ends, frame, catalog, ledger
  <1> DEFINE G == Paid(k)
             A == Booking(G)
             B == Booking(G)'
  <1>1. \A g \in Handlers : g # h => pc'[g] = pc[g] /\ req'[g] = req[g]
    BY DEF HandlerStep, HandlerReceive, Lookup, CheckHistory, CheckStock, MarkSoldout,
       RecordHistory, CountSale, HandlerSend, HandlerDrop, Refuse, Goto, TypeOK
  <1>2. B \ {h} = A \ {h}
    BY <1>1 DEF Booking, Token
  <1>3. IsFiniteSet(A)
    BY BookingType
  <1>4. CASE RecordHistory(h)
    <2>1. /\ pc[h] = "record" /\ pc'[h] = "count" /\ Token(h)' = Token(h)
          /\ req[h] \in Request
      BY <1>4, HandlerHasRequest DEF RecordHistory, Goto, Token, TypeOK
    <2>2. Weight(h, A) = 0 /\ Weight(h, B) = Weight(Token(h), G)
      BY <2>1 DEF Weight, Booking
    <2>3. Cardinality(B) = Cardinality(A) + Weight(Token(h), G)
      <3> HIDE DEF A, B, G
      <3>1. /\ Cardinality(A) \in Nat /\ Cardinality(B) \in Nat
            /\ Cardinality(B) + Weight(h, A) = Cardinality(A) + Weight(h, B)
        BY <1>2, <1>3, SetChanges
      <3>2. QED
        BY <2>2, <3>1
    <2>4. history'[k.user][k.product]
             = history[k.user][k.product] + Weight(Token(h), G)
      <3>1. PICK u \in Users, q \in Products : u = req[h].user /\ q = req[h].product
        BY <2>1 DEF Request
      <3>2. history' = [history EXCEPT ![u][q] = @ + 1]
        BY <1>4, <3>1 DEF RecordHistory
      <3>3. Token(h) \in Wins /\ Token(h).user = u /\ Token(h).product = q
        BY <3>1 DEF Token, Wins, Result, Codes
      <3>4. Weight(Token(h), G) = IF k.user = u /\ k.product = q THEN 1 ELSE 0
        BY <3>3 DEF Weight, Paid
      <3>5. k.user \in Users /\ k.product \in Products
        BY DEF Request
      <3>6. CASE k.user = u /\ k.product = q
        BY <3>2, <3>4, <3>5, <3>6 DEF TypeOK
      <3>7. CASE ~(k.user = u /\ k.product = q)
        <4>1. /\ history'[k.user][k.product] = history[k.user][k.product]
              /\ history[k.user][k.product] \in Nat
          BY <3>2, <3>5, <3>7 DEF TypeOK
        <4>2. QED
          BY <3>4, <3>7, <4>1
      <3>8. QED
        BY <3>6, <3>7
    <2>5. QED
      BY <1>4, <2>3, <2>4 DEF Books
  <1>5. CASE CountSale(h)
    <2>1. pc[h] = "count" /\ pc'[h] = "reply" /\ history' = history
      BY <1>5 DEF CountSale, TypeOK
    <2>2. Weight(h, A) = Weight(Token(h), G) /\ Weight(h, B) = 0
      BY <2>1 DEF Weight, Booking
    <2>3. Cardinality(B) + Weight(Token(h), G) = Cardinality(A)
      <3> HIDE DEF A, B, G
      <3>1. /\ Cardinality(A) \in Nat /\ Cardinality(B) \in Nat
            /\ Cardinality(B) + Weight(h, A) = Cardinality(A) + Weight(h, B)
        BY <1>2, <1>3, SetChanges
      <3>2. QED
        BY <2>2, <3>1, WeightType
    <2>4. QED
      BY <1>5, <2>1, <2>3 DEF Counts
  <1>6. CASE ~RecordHistory(h) /\ ~CountSale(h)
    <2>1. history' = history /\ pc[h] # "count" /\ pc'[h] # "count"
      BY <1>6 DEF HandlerStep, HandlerReceive, Lookup, CheckHistory, CheckStock,
         MarkSoldout, HandlerSend, HandlerDrop, Refuse, Goto, TypeOK
    <2>2. B = A
      BY <1>2, <2>1 DEF Booking
    <2>3. QED
      BY <1>6, <2>1, <2>2
  <1>7. QED
    BY <1>4, <1>5, <1>6

LEMMA BookingStep ==
    ASSUME TypeOK, [Next]_vars, ~Restart, NEW k \in Request
    PROVE  \/ \E h \in Handlers : HandlerStep(h) /\ (Books(h, k) \/ Counts(h, k))
           \/ /\ ~\E h \in Handlers : CountSale(h)
              /\ history' = history
              /\ Booking(Paid(k))' = Booking(Paid(k))
           \/ UNCHANGED <<frame, ledger>>
  <1>1. ASSUME NEW h \in Handlers, HandlerStep(h),
               ~Books(h, k), ~Counts(h, k)
        PROVE  /\ ~\E g \in Handlers : CountSale(g)
               /\ history' = history
               /\ Booking(Paid(k))' = Booking(Paid(k))
    <2>1. ~CountSale(h) /\ history' = history /\ Booking(Paid(k))' = Booking(Paid(k))
      BY <1>1, BookingHandler
    <2>2. everSold' = everSold
      BY <1>1, <2>1 DEF HandlerStep, HandlerReceive, Lookup, CheckHistory, CheckStock,
         MarkSoldout, RecordHistory, HandlerSend, HandlerDrop, ledger
    <2>3. ASSUME NEW g \in Handlers, CountSale(g) PROVE FALSE
      <3>1. /\ req[g].product \in Products
            /\ everSold'[req[g].product] = everSold[req[g].product] + 1
            /\ everSold[req[g].product] \in Nat
        BY <2>3, HandlerHasRequest DEF CountSale, TypeOK
      <3>2. QED
        BY <2>2, <3>1
    <2>4. QED
      BY <2>1, <2>3
  <1>2. QED
    BY <1>1, OtherSteps

LEMMA NoRestartYet ==
    ASSUME TypeOK, [Next]_vars, restarts' = 0
    PROVE  ~Restart /\ restarts = 0
  <1>1. restarts \in Nat
    BY BoundsAssumption DEF TypeOK
  <1>2. ~Restart
    BY <1>1 DEF Restart
  <1>3. restarts' = restarts
    BY <1>2, OtherSteps DEF HandlerStep, HandlerReceive, Lookup, CheckHistory,
       CheckStock, MarkSoldout, RecordHistory, CountSale, HandlerSend, HandlerDrop
  <1>4. QED
    BY <1>2, <1>3

LEMMA PaidStep ==
    TypeOK /\ AppInv /\ BackedInv /\ PaidInv /\ [SysNext]_sysVars => PaidInv'
  <1> SUFFICES ASSUME TypeOK, AppInv, BackedInv, PaidInv, [SysNext]_sysVars,
                      restarts' = 0, NEW k \in Request
               PROVE  Reach(Paid(k))' + InFlight(Paid(k))' + Cardinality(Booking(Paid(k)))'
                          <= history'[k.user][k.product]
    BY DEF PaidInv
  <1> DEFINE G == Paid(k)
             n == history[k.user][k.product]
             m == history'[k.user][k.product]
             b == Cardinality(Booking(G))
             d == Cardinality(Booking(G))'
  <1>0. [Next]_vars
    BY SystemStep DEF AppInv
  <1>1. ~Restart /\ restarts = 0
    BY <1>0, NoRestartYet
  <1>2. G \in SUBSET Wins
    BY DEF Paid
  <1>3. Few(G) /\ Reach(G) + InFlight(G) + b <= n
    BY <1>1, PaidFew DEF PaidInv
  <1>4. /\ Reach(G) \in Nat /\ InFlight(G) \in Nat /\ b \in Nat
    BY <1>3, ReachTypes, InFlightTypes, BookingType
  <1>5. n \in Nat
    <2>1. k.user \in Users /\ k.product \in Products
      BY DEF Request
    <2>2. QED
      BY <2>1 DEF TypeOK
  <1>6. CASE App!AppNext /\ UNCHANGED coreOnly
    <2>1. Passes(G)
      BY <1>2, <1>3, <1>6, AppPasses
    <2>2. m = n /\ Booking(G)' = Booking(G)
      BY <1>6 DEF coreOnly, ledger, frame, Booking, Token
    <2>3. d = b
      BY <2>2
    <2> HIDE DEF G, m, n, b, d
    <2>4. Reach(G)' + InFlight(G)' + d <= m
      BY <1>3, <1>4, <1>5, <2>1, <2>2, <2>3 DEF Passes
    <2>5. QED
      BY <2>4 DEF G, m, d
  <1>7. CASE UNCHANGED appOnly
    <2>1. Reach(G)' = Reach(G)
      BY <1>3, <1>7, CoreReach
    <2>2. InFlight(G)' \in Nat
      BY <1>0, <1>2, SuccessConserved
    <2>3. ASSUME NEW h \in Handlers, HandlerStep(h), Books(h, k)
          PROVE  Reach(G)' + InFlight(G)' + d <= m
      <3>1. m = n + Weight(Token(h), G) /\ d = b + Weight(Token(h), G)
        BY <2>3 DEF Books
      <3>2. ~CountSale(h)
        BY <2>3 DEF Books, RecordHistory, CountSale
      <3>3. InFlight(G)' <= InFlight(G)
        BY <1>2, <2>3, <3>2, HandlerFlight
      <3>4. Weight(Token(h), G) \in Nat
        BY WeightType
      <3> HIDE DEF G, m, n, b, d
      <3>5. QED
        BY <1>3, <1>4, <1>5, <2>1, <2>2, <3>1, <3>3, <3>4
    <2>4. ASSUME NEW h \in Handlers, HandlerStep(h), Counts(h, k)
          PROVE  Reach(G)' + InFlight(G)' + d <= m
      <3>1. m = n /\ d + Weight(Token(h), G) = b
        BY <2>4 DEF Counts
      <3>2. InFlight(G)' = InFlight(G) + Weight(Token(h), G)
        BY <1>2, <2>4, HandlerFlight DEF Counts
      <3>3. Weight(Token(h), G) \in Nat
        BY WeightType
      <3>4. d \in Nat
        <4>1. Booking(G)' \subseteq Handlers
          BY DEF Booking
        <4>2. QED
          BY <4>1, HandlersAssumption, FS_Subset, FS_CardinalityType
      <3> HIDE DEF G, m, n, b, d
      <3>5. QED
        BY <1>3, <1>4, <1>5, <2>1, <3>1, <3>2, <3>3, <3>4
    <2>5. ASSUME ~\E h \in Handlers : CountSale(h), history' = history,
                 Booking(G)' = Booking(G)
          PROVE  Reach(G)' + InFlight(G)' + d <= m
      <3>1. InFlight(G)' <= InFlight(G)
        BY <1>0, <1>2, <2>5, SuccessConserved
      <3>2. m = n /\ d = b
        BY <2>5
      <3> HIDE DEF G, m, n, b, d
      <3>3. QED
        BY <1>3, <1>4, <1>5, <2>1, <2>2, <3>1, <3>2
    <2>6. ASSUME UNCHANGED <<frame, ledger>>
          PROVE  Reach(G)' + InFlight(G)' + d <= m
      <3>1. history' = history /\ Booking(G)' = Booking(G)
        BY <2>6 DEF frame, ledger, Booking, Token
      <3>2. ASSUME NEW h \in Handlers, CountSale(h) PROVE FALSE
        BY <2>6, <3>2 DEF CountSale, frame, TypeOK
      <3>3. QED
        BY <2>5, <3>1, <3>2
    <2>7. QED
      BY <1>0, <1>1, <2>3, <2>4, <2>5, <2>6, BookingStep
  <1>8. QED
    BY <1>6, <1>7 DEF SysNext, sysVars

LEMMA PaidMeans ==
    TypeOK /\ AppInv /\ BackedInv /\ PaidInv /\ restarts = 0 =>
        \A k \in Request :
            Cardinality({c \in Calls : Told(k, c)}) <= history[k.user][k.product]
  <1> SUFFICES ASSUME TypeOK, AppInv, BackedInv, PaidInv, restarts = 0, NEW k \in Request
               PROVE  Cardinality({c \in Calls : Told(k, c)}) <= history[k.user][k.product]
    OBVIOUS
  <1> DEFINE G == Paid(k)
             n == history[k.user][k.product]
  <1>1. {c \in Calls : Told(k, c)} = ToldOf(G)
    <2>1. \A c \in Calls : KeyOf[c] \in Request
      BY CallsAssumption
    <2>2. QED
      BY <2>1 DEF Told, ToldOf, Receipt, Paid, Wins, Request, Result, Codes
  <1>2. /\ Cardinality(ToldOf(G)) \in Nat /\ Cardinality(Doors(G)) \in Nat
        /\ Cardinality(HeldIn(popped, G)) \in Nat
        /\ InFlight(G) \in Nat /\ Cardinality(Booking(G)) \in Nat
    BY PaidFew, ReachTypes, InFlightTypes, BookingType
  <1>3. /\ Reach(G) + InFlight(G) + Cardinality(Booking(G)) <= n
        /\ Reach(G) = Cardinality(ToldOf(G)) + Cardinality(Doors(G))
                      + Cardinality(HeldIn(popped, G))
    BY DEF PaidInv, Reach
  <1>4. n \in Nat
    <2>1. k.user \in Users /\ k.product \in Products
      BY DEF Request
    <2>2. QED
      BY <2>1 DEF TypeOK
  <1> HIDE DEF G, n
  <1>5. Cardinality(ToldOf(G)) <= n
    BY <1>2, <1>3, <1>4
  <1>6. QED
    BY <1>1, <1>5 DEF n

LEMMA PaidInit == SysInit => PaidInv
  <1> SUFFICES ASSUME SysInit, NEW k \in Request
               PROVE  Reach(Paid(k)) + InFlight(Paid(k)) + Cardinality(Booking(Paid(k)))
                          <= history[k.user][k.product]
    BY DEF PaidInv
  <1>1. Reach(Paid(k)) = 0 /\ InFlight(Paid(k)) = 0
    BY NobodyTold DEF Paid
  <1>2. Booking(Paid(k)) = {}
    BY DEF SysInit, Init, FreshMemory, Booking
  <1>3. history[k.user][k.product] = 0
    BY DEF SysInit, Init, FreshMemory, Request
  <1>4. QED
    BY <1>1, <1>2, <1>3, FS_EmptySet

-----------------------------------------------------------------------------
(* Every refusal for a reason is true of the ledgers                        *)

Verdicts == {res \in Result : res.code \in {"AlreadyBuy", "Soldout"}}

Holds(res) ==
    /\ res.code = "AlreadyBuy" =>
           history[res.user][res.product] >= OnePersonBuyLimit[res.product]
    /\ res.code = "Soldout" => sold[res.product] >= Total[res.product]

\* The places in sk-core and in redis, and those in sk-app, that show res.
Around(res) ==
    \/ \E h \in Handlers : pc[h] = "reply" /\ ResultOf(h) = res
    \/ \E i \in 1..Len(handle2write) : handle2write[i] = res
    \/ \E w \in Writers : writing[w] = res
    \/ \E i \in 1..Len(layer2proxy) : layer2proxy[i] = res

Shown(res) ==
    \/ \E r \in AppReaders : popped[r] = res
    \/ \E c \in Calls : \E i \in 1..Len(buf[c]) : buf[c][i] = res
    \/ \E c \in Calls : Receipt(c) = res

HonestInv ==
    restarts = 0 => \A res \in Verdicts : Around(res) \/ Shown(res) => Holds(res)

\* Both ledgers only grow, so a verdict once true stays true.
LEMMA HoldsOn ==
    ASSUME TypeOK, [Next]_vars, ~Restart, NEW res \in Result, Holds(res)
    PROVE  Holds(res)'
  <1> DEFINE u == res.user
             p == res.product
             k == [user |-> u, product |-> p]
  <1>1. u \in Users /\ p \in Products /\ k \in Request /\ k.user = u /\ k.product = p
    BY DEF Result, Request
  <1>2. /\ history[u][p] \in Nat /\ OnePersonBuyLimit[p] \in Nat
        /\ sold[p] \in Nat /\ Total[p] \in Nat
    BY <1>1, StockAssumption DEF TypeOK
  <1>3. sold'[p] >= sold[p]
    BY <1>1, <1>2, SoldGrows
  <1>4. history'[u][p] >= history[u][p]
    <2>1. ASSUME NEW h \in Handlers, Books(h, k)
          PROVE  history'[u][p] >= history[u][p]
      <3>1. history'[u][p] = history[u][p] + Weight(Token(h), Paid(k))
        BY <1>1, <2>1 DEF Books
      <3>2. Weight(Token(h), Paid(k)) \in Nat
        BY WeightType
      <3>3. QED
        BY <1>2, <3>1, <3>2
    <2>2. CASE history' = history
      BY <1>2, <2>2
    <2>3. (\E h \in Handlers : Books(h, k)) \/ history' = history
      BY <1>1, BookingStep DEF Counts, ledger
    <2>4. QED
      BY <2>1, <2>2, <2>3
  <1>5. /\ history'[u][p] \in Nat /\ sold'[p] \in Nat
    <2>1. TypeOK'
      BY TypeStep
    <2>2. QED
      BY <1>1, <2>1 DEF TypeOK
  <1>6. /\ res.code = "AlreadyBuy" => history[u][p] >= OnePersonBuyLimit[p]
        /\ res.code = "Soldout" => sold[p] >= Total[p]
    BY DEF Holds
  <1>7. /\ res.code = "AlreadyBuy" => history'[u][p] >= OnePersonBuyLimit[p]
        /\ res.code = "Soldout" => sold'[p] >= Total[p]
    <2> HIDE DEF u, p
    <2>1. QED
      BY <1>2, <1>3, <1>4, <1>5, <1>6
  <1>8. QED
    BY <1>7 DEF Holds

\* A handler only refuses for a reason it has just read in a ledger, or in
\* the sold-out mark.
LEMMA VerdictHandler ==
    ASSUME TypeOK, SoldoutTruthful, NEW h \in Handlers, HandlerStep(h),
           NEW res \in Verdicts, Around(res)'
    PROVE  Around(res) \/ Holds(res)
  <1> USE DEF queues, chans, ends, frame, catalog, ledger
  <1>1. \A g \in Handlers : g # h =>
            pc'[g] = pc[g] /\ req'[g] = req[g] /\ code'[g] = code[g]
    BY DEF HandlerStep, HandlerReceive, Lookup, CheckHistory, CheckStock, MarkSoldout,
       RecordHistory, CountSale, HandlerSend, HandlerDrop, Refuse, Goto, TypeOK
  <1>2. writing' = writing /\ layer2proxy' = layer2proxy
    BY DEF HandlerStep, HandlerReceive, Lookup, CheckHistory, CheckStock, MarkSoldout,
       RecordHistory, CountSale, HandlerSend, HandlerDrop
  <1>3. CASE HandlerSend(h)
    <2>1. pc'[h] = "idle" /\ pc[h] = "reply"
      BY <1>3 DEF HandlerSend, TypeOK
    <2>2. ResultOf(h) \in Result
      BY <2>1, HandlerHasRequest DEF TypeOK
    <2>3. \A i \in 1..Len(handle2write') :
              \/ i \in 1..Len(handle2write) /\ handle2write'[i] = handle2write[i]
              \/ handle2write'[i] = ResultOf(h)
      BY <1>3, <2>2, QueueFacts DEF HandlerSend, TypeOK
    <2>4. QED
      BY <1>1, <1>2, <2>1, <2>3 DEF Around, ResultOf
  <1>4. ASSUME ~HandlerSend(h), ~Around(res) PROVE Holds(res)
    <2>1. handle2write' = handle2write
      BY <1>4 DEF HandlerStep, HandlerReceive, Lookup, CheckHistory, CheckStock,
         MarkSoldout, RecordHistory, CountSale, HandlerDrop
    <2>2. pc'[h] = "reply" /\ ResultOf(h)' = res
      BY <1>1, <1>2, <1>4, <2>1 DEF Around, ResultOf
    <2>3. PICK u \in Users, p \in Products : u = req'[h].user /\ p = req'[h].product
      BY <2>2 DEF ResultOf, Verdicts, Result
    <2>4. res.user = u /\ res.product = p /\ res.code = code'[h]
      BY <2>2, <2>3 DEF ResultOf
    <2>5. /\ StockLeft(p) <=> sold[p] < Total[p]
          /\ ~StockLeft(p) <=> sold[p] >= Total[p]
          /\ LimitReached(u, p) <=> history[u][p] >= OnePersonBuyLimit[p]
      BY Comparisons
    <2>6. code'[h] \in {"AlreadyBuy", "Soldout"}
      BY <2>4 DEF Verdicts
    <2>7. CASE Lookup(h)
      <3>1. status[p] = "Soldout" /\ code'[h] = "Soldout"
        BY <2>2, <2>3, <2>6, <2>7 DEF Lookup, Refuse, Goto, TypeOK
      <3>2. sold[p] >= Total[p]
        BY <3>1 DEF SoldoutTruthful, SoldoutKnown
      <3>3. QED
        BY <2>4, <3>1, <3>2 DEF Holds
    <2>8. CASE CheckHistory(h)
      <3>1. LimitReached(u, p) /\ code'[h] = "AlreadyBuy"
        BY <2>2, <2>3, <2>8 DEF CheckHistory, Refuse, Goto, TypeOK
      <3>2. QED
        BY <2>4, <2>5, <3>1 DEF Holds
    <2>9. CASE CheckStock(h)
      BY <2>2, <2>6, <2>9 DEF CheckStock, Refuse, Goto, TypeOK
    <2>10. CASE MarkSoldout(h)
      <3>1. pc[h] = "mark" /\ req[h].product = p /\ code'[h] = "Soldout"
        BY <2>3, <2>10 DEF MarkSoldout, Refuse, TypeOK
      <3>2. sold[p] >= Total[p]
        BY <3>1 DEF SoldoutTruthful, SoldoutKnown
      <3>3. QED
        BY <2>4, <3>1, <3>2 DEF Holds
    <2>11. CASE HandlerReceive(h) \/ RecordHistory(h) \/ HandlerDrop(h)
      BY <2>2, <2>11 DEF HandlerReceive, RecordHistory, HandlerDrop, Goto, TypeOK
    <2>12. CASE CountSale(h)
      BY <2>6, <2>12 DEF CountSale, TypeOK
    <2>13. QED
      BY <1>4, <2>7, <2>8, <2>9, <2>10, <2>11, <2>12 DEF HandlerStep
  <1>5. QED
    BY <1>3, <1>4

LEMMA VerdictCore ==
    ASSUME TypeOK, SoldoutTruthful, CoreNext, ~Restart,
           NEW res \in Verdicts, Around(res)'
    PROVE  Around(res) \/ Holds(res)
  <1> USE DEF queues, chans, ends, frame, catalog, ledger
  <1>1. CASE UNCHANGED <<frame, handle2write, writing, layer2proxy>>
    BY <1>1 DEF Around, ResultOf
  <1>2. ASSUME NEW list \in {Listed, {}}, LoadSecConf(list) PROVE Around(res)
    BY <1>2 DEF LoadSecConf, Around, ResultOf
  <1>3. ASSUME NEW r \in Readers, ReaderStep(r) PROVE Around(res)
    BY <1>3 DEF ReaderStep, ReaderPop, ReaderSend, ReaderDrop, Around, ResultOf
  <1>4. ASSUME NEW w \in Writers, WriterStep(w) PROVE Around(res)
    <2>0. UNCHANGED frame
      BY <1>4 DEF WriterStep, WriterReceive, WriterPush, WriterFail
    <2>1. CASE WriterReceive(w)
      <3>1. /\ 1 \in 1..Len(handle2write)
            /\ Head(handle2write) = handle2write[1]
            /\ \A i \in 1..Len(handle2write') :
                   /\ i + 1 \in 1..Len(handle2write)
                   /\ handle2write'[i] = handle2write[i + 1]
        BY <2>1, QueueFacts DEF WriterReceive, TypeOK
      <3>2. \A v \in Writers : writing'[v] = writing[v] \/ writing'[v] = Head(handle2write)
        BY <2>1 DEF WriterReceive, TypeOK
      <3>3. layer2proxy' = layer2proxy
        BY <2>1 DEF WriterReceive
      <3>4. QED
        BY <2>0, <3>1, <3>2, <3>3 DEF Around, ResultOf
    <2>2. CASE WriterPush(w)
      <3>1. \A i \in 1..Len(layer2proxy') :
                \/ i \in 1..Len(layer2proxy) /\ layer2proxy'[i] = layer2proxy[i]
                \/ layer2proxy'[i] = writing[w]
        <4>1. writing[w] \in Result
          BY <2>2 DEF WriterPush, TypeOK
        <4>2. QED
          BY <2>2, <4>1, QueueFacts DEF WriterPush, TypeOK
      <3>2. \A v \in Writers : writing'[v] = writing[v] \/ writing'[v] = NoRes
        BY <2>2 DEF WriterPush, TypeOK
      <3>3. handle2write' = handle2write /\ res # NoRes
        BY <2>2, NoneAssumption DEF WriterPush, Verdicts
      <3>4. QED
        BY <2>0, <3>1, <3>2, <3>3 DEF Around, ResultOf
    <2>3. CASE WriterFail(w)
      <3>1. \A v \in Writers : writing'[v] = writing[v] \/ writing'[v] = NoRes
        BY <2>3 DEF WriterFail, TypeOK
      <3>2. handle2write' = handle2write /\ layer2proxy' = layer2proxy /\ res # NoRes
        BY <2>3, NoneAssumption DEF WriterFail, Verdicts
      <3>3. QED
        BY <2>0, <3>1, <3>2 DEF Around, ResultOf
    <2>4. QED
      BY <1>4, <2>1, <2>2, <2>3 DEF WriterStep
  <1>5. QED
    BY <1>2, <1>3, <1>4, VerdictHandler DEF CoreNext

\* sk-app only repeats what it has been told.
LEMMA VerdictApp ==
    ASSUME TypeOK, AppInv, App!AppNext, UNCHANGED coreOnly,
           NEW res \in Verdicts, Around(res)' \/ Shown(res)'
    PROVE  Around(res) \/ Shown(res)
  <1> USE DEF App!queues, App!callers, App!readers, App!Move, coreOnly
  <1>0. UNCHANGED <<frame, handle2write, writing>> /\ res # NoRes
    BY NoneAssumption DEF chans, ends, Verdicts
  <1>1. ASSUME layer2proxy # <<>>, layer2proxy' = Tail(layer2proxy)
        PROVE  /\ Around(res)' => Around(res)
               /\ Head(layer2proxy) = res => Around(res)
    <2>1. /\ 1 \in 1..Len(layer2proxy) /\ Head(layer2proxy) = layer2proxy[1]
          /\ \A i \in 1..Len(layer2proxy') :
                 /\ i + 1 \in 1..Len(layer2proxy)
                 /\ layer2proxy'[i] = layer2proxy[i + 1]
      BY <1>1, QueueFacts DEF TypeOK
    <2>2. QED
      BY <1>0, <2>1 DEF Around, ResultOf, frame
  <1>2. layer2proxy' = layer2proxy => (Around(res)' => Around(res))
    BY <1>0 DEF Around, ResultOf, frame
  <1>3. UNCHANGED <<popped, buf, outcome>> => (Shown(res)' => Shown(res))
    BY DEF Shown, Receipt
  <1>4. ASSUME NEW c \in Calls, App!CallStep(c) PROVE Around(res) \/ Shown(res)
    <2>1. popped' = popped /\ layer2proxy' = layer2proxy
      BY <1>4 DEF App!CallStep, App!CallRefused, App!CallAdmitted, App!CallRegister,
         App!CallEnqueue, App!CallTimeout, App!CallReceive, App!CallCleanup
    <2>2. CASE App!CallReceive(c)
      <3> DEFINE top == Head(buf[c])
      <3>1. /\ buf[c] # <<>> /\ buf[c] \in Seq(Result) /\ Len(buf[c]) <= 1
            /\ buf' = [buf EXCEPT ![c] = Tail(buf[c])]
            /\ outcome' = [outcome EXCEPT ![c] = top.code]
        BY <2>2 DEF App!CallReceive, AppInv, App!AppTypeOK, App!Result, Result
      <3>2. /\ 1 \in 1..Len(buf[c]) /\ top = buf[c][1] /\ top \in Result
            /\ Tail(buf[c]) = <<>>
        BY <3>1, QueueOfOne
      <3>3. App!KeyOfResult(top) = KeyOf[c]
        BY <3>2 DEF AppInv, App!KeyedDelivery
      <3>4. Receipt(c)' = top
        <4>1. KeyOf[c] \in Request /\ outcome'[c] = top.code
          BY <3>1, CallsAssumption DEF AppInv, App!AppTypeOK
        <4>2. QED
          BY <3>2, <3>3, <4>1 DEF Receipt, App!KeyOfResult, Request, Result
      <3>5. \A d \in Calls : d # c => buf'[d] = buf[d] /\ Receipt(d)' = Receipt(d)
        BY <3>1 DEF Receipt, AppInv, App!AppTypeOK
      <3>6. buf'[c] = <<>>
        BY <3>1, <3>2 DEF AppInv, App!AppTypeOK
      <3> HIDE DEF top
      <3>7. Shown(res)' => Shown(res)
        BY <2>1, <3>2, <3>4, <3>5, <3>6 DEF Shown
      <3>8. QED
        BY <1>2, <2>1, <3>7
    <2>3. CASE ~App!CallReceive(c)
      <3>1. buf' = buf
        BY <1>4, <2>3 DEF App!CallStep, App!CallRefused, App!CallAdmitted,
           App!CallRegister, App!CallEnqueue, App!CallTimeout, App!CallCleanup
      <3>2. \A d \in Calls : outcome'[d] = outcome[d] \/ outcome'[d] \in {"Refused", "Timeout"}
        BY <1>4, <2>3 DEF App!CallStep, App!CallRefused, App!CallAdmitted,
           App!CallRegister, App!CallEnqueue, App!CallTimeout, App!CallCleanup, AppInv,
           App!AppTypeOK
      <3>3. \A d \in Calls : Receipt(d)' = res => Receipt(d) = res
        BY <3>2 DEF Receipt, Verdicts
      <3>4. Shown(res)' => Shown(res)
        BY <2>1, <3>1, <3>3 DEF Shown
      <3>5. QED
        BY <1>2, <2>1, <3>4
    <2>4. QED
      BY <2>2, <2>3
  <1>5. ASSUME NEW w \in AppWriters, App!WriteStep(w) PROVE Around(res) \/ Shown(res)
    BY <1>2, <1>3, <1>5 DEF App!WriteStep, App!WriteTake, App!WritePush, App!WriteFail
  <1>6. ASSUME NEW r \in AppReaders, App!ReadStep(r) PROVE Around(res) \/ Shown(res)
    <2>1. outcome' = outcome
      BY <1>6 DEF App!ReadStep, App!ReadPop, App!ReadLookup, App!ReadDrop, App!ReadDeliver
    <2>2. CASE App!ReadPop(r)
      <3>1. /\ layer2proxy # <<>> /\ layer2proxy' = Tail(layer2proxy) /\ buf' = buf
            /\ \A s \in AppReaders :
                   popped'[s] = popped[s] \/ popped'[s] = Head(layer2proxy)
        BY <2>2 DEF App!ReadPop, AppInv, App!AppTypeOK
      <3>2. QED
        BY <1>1, <2>1, <3>1 DEF Shown, Receipt
    <2>3. CASE App!ReadLookup(r)
      BY <1>2, <1>3, <2>3 DEF App!ReadLookup
    <2>4. CASE App!ReadDrop(r)
      <3>1. /\ layer2proxy' = layer2proxy /\ buf' = buf
            /\ \A s \in AppReaders : popped'[s] = popped[s] \/ popped'[s] = NoRes
        BY <2>4 DEF App!ReadDrop, AppInv, App!AppTypeOK
      <3>2. QED
        BY <1>0, <1>2, <2>1, <3>1 DEF Shown, Receipt
    <2>5. CASE App!ReadDeliver(r)
      <3>1. /\ layer2proxy' = layer2proxy /\ target[r] \in Calls
            /\ buf[target[r]] = <<>>
            /\ \A s \in AppReaders : popped'[s] = popped[s] \/ popped'[s] = NoRes
            /\ buf'[target[r]] = Append(<<>>, popped[r])
            /\ \A c \in Calls : c # target[r] => buf'[c] = buf[c]
        BY <2>5 DEF App!ReadDeliver, AppInv, App!AppTypeOK
      <3>2. \A i \in 1..Len(Append(<<>>, popped[r])) : Append(<<>>, popped[r])[i] = popped[r]
        OBVIOUS
      <3>3. QED
        BY <1>0, <1>2, <2>1, <3>1, <3>2 DEF Shown, Receipt
    <2>6. QED
      BY <1>6, <2>2, <2>3, <2>4, <2>5 DEF App!ReadStep
  <1>7. ASSUME App!ForeignPop PROVE Around(res) \/ Shown(res)
    BY <1>1, <1>3, <1>7 DEF App!ForeignPop
  <1>8. QED
    BY <1>4, <1>5, <1>6, <1>7 DEF App!AppNext

LEMMA HonestStep ==
    TypeOK /\ AppInv /\ SoldoutTruthful /\ HonestInv /\ [SysNext]_sysVars => HonestInv'
  <1> SUFFICES ASSUME TypeOK, AppInv, SoldoutTruthful, HonestInv, [SysNext]_sysVars,
                      restarts' = 0, NEW res \in Verdicts, Around(res)' \/ Shown(res)'
               PROVE  Holds(res)'
    BY DEF HonestInv
  <1>0. [Next]_vars
    BY SystemStep DEF AppInv
  <1>1. ~Restart /\ restarts = 0
    BY <1>0, NoRestartYet
  <1>2. Around(res) \/ Shown(res) \/ Holds(res)
    <2>1. CASE CoreNext /\ UNCHANGED appOnly
      <3>1. Shown(res)' => Shown(res)
        BY <2>1 DEF appOnly, Shown, Receipt
      <3>2. QED
        BY <1>1, <2>1, <3>1, VerdictCore
    <2>2. CASE App!AppNext /\ UNCHANGED coreOnly
      BY <2>2, VerdictApp
    <2>3. CASE UNCHANGED sysVars
      BY <2>3 DEF sysVars, vars, appOnly, queues, chans, ends, frame, Around, ResultOf,
         Shown, Receipt
    <2>4. QED
      BY <2>1, <2>2, <2>3 DEF SysNext
  <1>3. Holds(res)
    BY <1>1, <1>2 DEF HonestInv
  <1>4. QED
    BY <1>0, <1>1, <1>3, HoldsOn DEF Verdicts

LEMMA HonestMeans ==
    TypeOK /\ AppInv /\ HonestInv /\ restarts = 0 =>
        \A c \in Calls :
            LET u == KeyOf[c].user  p == KeyOf[c].product IN
            /\ outcome[c] = "AlreadyBuy" => history[u][p] >= OnePersonBuyLimit[p]
            /\ outcome[c] = "Soldout" => sold[p] >= Total[p]
  <1> SUFFICES ASSUME HonestInv, restarts = 0, NEW c \in Calls,
                      outcome[c] \in {"AlreadyBuy", "Soldout"}
               PROVE  Holds(Receipt(c))
    BY DEF Holds, Receipt
  <1>1. KeyOf[c] \in Request
    BY CallsAssumption
  <1>2. Receipt(c) \in Verdicts
    BY <1>1 DEF Receipt, Verdicts, Result, Request, Codes
  <1>3. Shown(Receipt(c))
    BY DEF Shown
  <1>4. QED
    BY <1>2, <1>3 DEF HonestInv

\* Until sk-core is restarted, everything a call is told is true of the
\* ledgers: every success is in the user's history, "already bought" and
\* "sold out" are said when the limits are reached.  The ledgers change
\* meanwhile and any number of calls, goroutines and results are under way.
THEOREM AnswersProved == SysSpec => []AnswersTrue
  <1> DEFINE I == BackedInv /\ PaidInv /\ SoldoutTruthful /\ HonestInv
  <1>1. SysInit => I
    <2> SUFFICES ASSUME SysInit PROVE I
      OBVIOUS
    <2>1. SoldoutTruthful
      BY DEF SysInit, Init, FreshMemory, SoldoutTruthful, SoldoutKnown
    <2>2. HonestInv
      <3> SUFFICES ASSUME NEW res \in Verdicts, Around(res) \/ Shown(res) PROVE FALSE
        BY DEF HonestInv
      <3>1. ~Around(res)
        BY NoneAssumption DEF SysInit, Init, FreshMemory, Around, Verdicts
      <3>2. ~Shown(res)
        BY NoneAssumption DEF SysInit, App!AppInit, Shown, Receipt, Verdicts
      <3>3. QED
        BY <3>1, <3>2
    <2>3. QED
      BY <2>1, <2>2, BackedInit, PaidInit
  <1>2. TypeOK /\ AppInv /\ I /\ [SysNext]_sysVars => I'
    <2>1. TypeOK /\ AppInv /\ SoldoutTruthful /\ [SysNext]_sysVars => SoldoutTruthful'
      BY SystemStep, SoldoutStep DEF AppInv
    <2>2. QED
      BY <2>1, BackedStep, PaidStep, HonestStep
  <1>3. TypeOK /\ AppInv /\ I => AnswersTrue
    BY PaidMeans, HonestMeans DEF AnswersTrue
  <1> HIDE DEF I
  <1>4. QED
    BY <1>1, <1>2, <1>3, SysInvariant, PTL DEF SysSpec
=============================================================================
