---------------------------- MODULE SecKillCore ----------------------------
(***************************************************************************)
(* The sk-core service of the flash sale: the goroutines that              *)
(* srv_redis.RunProcess starts.                                            *)
(*                                                                         *)
(*   redis proxy2layer --> Readers --> Read2HandleChan --> Handlers        *)
(*                                                             |           *)
(*   redis layer2proxy <-- Writers <-- Handle2WriteChan <------+           *)
(*                                                                         *)
(* Handlers run HandleSeckill concurrently: RWSecProductLock is only ever  *)
(* taken for reading, so the two checks (history, stock) and the two       *)
(* updates (history, count) are four separately locked steps.  The stock   *)
(* count, the histories and both channels live in memory only; the redis   *)
(* lists outlive a restart.                                                *)
(*                                                                         *)
(* Wall-clock comparisons are nondeterministic choices: a request may or   *)
(* may not be older than MaxRequestWaitTimeout, and a select may take its  *)
(* ticker case although the channel has room (both are then ready).        *)
(***************************************************************************)
EXTENDS Integers, Sequences, FiniteSets

CONSTANTS
    Readers,            \* CoreReadRedisGoroutineNum goroutines HandleReader
    Handlers,           \* CoreHandleGoroutineNum goroutines HandleUser
    Writers,            \* CoreWriteRedisGoroutineNum goroutines HandleWrite
    Users,              \* user ids found in requests
    Products,           \* product ids found in requests
    Listed,             \* products in the znode /product
    Total,              \* SecProductInfoConf.Total
    OnePersonBuyLimit,  \* SecProductInfoConf.OnePersonBuyLimit
    Rationed,           \* products whose BuyRate is below 0.1
    ChanCap,            \* capacity of both channels (1024 in the code)
    QueueBound,         \* bound on both redis lists (none in the code)
    MaxRestarts,        \* bound on the restarts of the process
    NoReq, NoRes        \* nothing in hand

ASSUME HandlersAssumption == IsFiniteSet(Handlers) /\ Handlers # {}
ASSUME WritersAssumption == IsFiniteSet(Writers)
ASSUME StockAssumption == /\ Listed \subseteq Products
                          /\ Rationed \subseteq Products
                          /\ Total \in [Products -> Nat]
                          /\ OnePersonBuyLimit \in [Products -> Nat]
ASSUME BoundsAssumption == /\ ChanCap \in Nat \ {0}
                           /\ QueueBound \in Nat
                           /\ MaxRestarts \in Nat

Request == [user : Users, product : Products]

\* "Unset" is the zero Code of a fresh SecResult.
Codes == {"Unset", "NotFound", "Soldout", "AlreadyBuy", "Retry", "Succ"}

Result == [user : Users, product : Products, code : Codes]

ASSUME NoneAssumption == NoReq \notin Request /\ NoRes \notin Result

VARIABLES
    proxy2layer,   \* redis list of requests, oldest first
    layer2proxy,   \* redis list of results, oldest first
    read2handle,   \* Read2HandleChan
    handle2write,  \* Handle2WriteChan
    reading,       \* the request a reader has popped and not yet passed on
    writing,       \* the result a writer has received and not yet pushed
    pc,            \* where in HandleUser / HandleSeckill a handler is
    req,           \* the request a handler works on
    code,          \* the code of the result it will send
    loading,       \* loadSecConf has not finished yet
    infoMap,       \* keys of SecProductInfoMap
    status,        \* SecProductInfoMap[p].Status
    history,       \* HistoryMap[u].History[p]
    sold,          \* ProductCountMgr.productCount[p]
    everSold,      \* history variable: sales counted by all incarnations
    restarts       \* history variable: restarts so far

queues   == <<proxy2layer, layer2proxy>>
chans    == <<read2handle, handle2write>>
ends     == <<reading, writing>>
frame    == <<pc, req, code>>
catalog  == <<loading, infoMap, status>>
ledger   == <<history, sold, everSold>>
vars     == <<queues, chans, ends, frame, catalog, ledger, restarts>>

PCs == {"idle", "lookup", "history", "stock", "mark", "record", "count", "reply"}

TypeOK ==
    /\ proxy2layer \in Seq(Request)
    /\ layer2proxy \in Seq(Result)
    /\ read2handle \in Seq(Request) /\ Len(read2handle) <= ChanCap
    /\ handle2write \in Seq(Result) /\ Len(handle2write) <= ChanCap
    /\ reading \in [Readers -> Request \cup {NoReq}]
    /\ writing \in [Writers -> Result \cup {NoRes}]
    /\ pc \in [Handlers -> PCs]
    /\ req \in [Handlers -> Request \cup {NoReq}]
    /\ \A h \in Handlers : pc[h] # "idle" => req[h] \in Request
    /\ code \in [Handlers -> Codes]
    /\ loading \in BOOLEAN
    /\ infoMap \in {{}, Listed}
    /\ status \in [Products -> {"Normal", "Soldout"}]
    /\ history \in [Users -> [Products -> Nat]]
    /\ sold \in [Products -> Nat]
    /\ everSold \in [Products -> Nat]
    /\ restarts \in 0..MaxRestarts

-----------------------------------------------------------------------------
(* The memory of a process that has just started (setup.InitZk has         *)
(* launched loadSecConf on a goroutine of its own, RunProcess the others). *)
FreshMemory ==
    [ read2handle  |-> <<>>,
      handle2write |-> <<>>,
      reading      |-> [r \in Readers |-> NoReq],
      writing      |-> [w \in Writers |-> NoRes],
      pc           |-> [h \in Handlers |-> "idle"],
      req          |-> [h \in Handlers |-> NoReq],
      code         |-> [h \in Handlers |-> "Unset"],
      status       |-> [p \in Products |-> "Normal"],
      history      |-> [u \in Users |-> [p \in Products |-> 0]],
      sold         |-> [p \in Products |-> 0] ]

Init ==
    /\ proxy2layer = <<>>
    /\ layer2proxy = <<>>
    /\ read2handle = FreshMemory.read2handle
    /\ handle2write = FreshMemory.handle2write
    /\ reading = FreshMemory.reading
    /\ writing = FreshMemory.writing
    /\ pc = FreshMemory.pc
    /\ req = FreshMemory.req
    /\ code = FreshMemory.code
    /\ loading = TRUE
    /\ infoMap = {}
    /\ status = FreshMemory.status
    /\ history = FreshMemory.history
    /\ sold = FreshMemory.sold
    /\ everSold = [p \in Products |-> 0]
    /\ restarts = 0

-----------------------------------------------------------------------------
(* loadSecConf: one conn.Get, then updateSecProductInfo.  A failed Get     *)
(* leaves the map empty and is never retried; so does bad JSON.            *)
LoadSecConf(list) ==
    /\ loading
    /\ list \in {Listed, {}}
    /\ infoMap' = list
    /\ loading' = FALSE
    /\ UNCHANGED <<queues, chans, ends, frame, status, ledger, restarts>>

-----------------------------------------------------------------------------
\* A send on a buffered channel does not block.
Room(chan) == Len(chan) < ChanCap

-----------------------------------------------------------------------------
(* HandleReader *)

\* BRPOP: an idle reader takes the oldest request (a request leaves redis
\* for good here; malformed JSON is dropped like an expired request).
ReaderPop(r) ==
    /\ reading[r] = NoReq
    /\ proxy2layer # <<>>
    /\ reading' = [reading EXCEPT ![r] = Head(proxy2layer)]
    /\ proxy2layer' = Tail(proxy2layer)
    /\ UNCHANGED <<layer2proxy, chans, writing, frame, catalog, ledger, restarts>>

\* The request is young enough and Read2HandleChan has room.
ReaderSend(r) ==
    /\ reading[r] # NoReq
    /\ Room(read2handle)
    /\ read2handle' = Append(read2handle, reading[r])
    /\ reading' = [reading EXCEPT ![r] = NoReq]
    /\ UNCHANGED <<queues, handle2write, writing, frame, catalog, ledger, restarts>>

\* The request is older than MaxRequestWaitTimeout, or the send timed out:
\* it is logged and forgotten, nobody is told.
ReaderDrop(r) ==
    /\ reading[r] # NoReq
    /\ reading' = [reading EXCEPT ![r] = NoReq]
    /\ UNCHANGED <<queues, chans, writing, frame, catalog, ledger, restarts>>

-----------------------------------------------------------------------------
(* HandleUser and HandleSeckill *)

HandlerReceive(h) ==
    /\ pc[h] = "idle"
    /\ read2handle # <<>>
    /\ req' = [req EXCEPT ![h] = Head(read2handle)]
    /\ read2handle' = Tail(read2handle)
    /\ pc' = [pc EXCEPT ![h] = "lookup"]
    /\ UNCHANGED <<queues, handle2write, ends, code, catalog, ledger, restarts>>

\* Handler h leaves HandleSeckill early with result code c.
Refuse(h, c) ==
    /\ code' = [code EXCEPT ![h] = c]
    /\ pc' = [pc EXCEPT ![h] = "reply"]

Goto(h, l) ==
    /\ pc' = [pc EXCEPT ![h] = l]
    /\ UNCHANGED code

\* SecProductInfoMap lookup and the unsynchronised read of product.Status.
Lookup(h) ==
    LET p == req[h].product IN
    /\ pc[h] = "lookup"
    /\ \/ p \notin infoMap /\ Refuse(h, "NotFound")
       \/ p \in infoMap /\ status[p] = "Soldout" /\ Refuse(h, "Soldout")
       \/ p \in infoMap /\ status[p] # "Soldout" /\ Goto(h, "history")
    /\ UNCHANGED <<queues, chans, ends, req, catalog, ledger, restarts>>

\* The two comparisons of HandleSeckill with the configured quantities (the
\* variants are used to test the properties).
LimitReachedLate(u, p) == history[u][p] > OnePersonBuyLimit[p]
LimitReached(u, p) == history[u][p] >= OnePersonBuyLimit[p]

StockLeftLate(p)  == sold[p] <= Total[p]
StockLeftEarly(p) == sold[p] + 1 < Total[p]
StockLeft(p) == sold[p] < Total[p]

\* GetProductBuyCount, under HistoryMapLock; compared after the unlock.
CheckHistory(h) ==
    LET u == req[h].user
        p == req[h].product IN
    /\ pc[h] = "history"
    /\ \/ LimitReached(u, p) /\ Refuse(h, "AlreadyBuy")
       \/ ~LimitReached(u, p) /\ Goto(h, "stock")
    /\ UNCHANGED <<queues, chans, ends, req, catalog, ledger, restarts>>

\* ProductCountMgr.Count, under its own lock, and the BuyRate test.
CheckStock(h) ==
    LET p == req[h].product IN
    /\ pc[h] = "stock"
    /\ \/ ~StockLeft(p) /\ Goto(h, "mark")
       \/ StockLeft(p) /\ p \in Rationed /\ Refuse(h, "Retry")
       \/ StockLeft(p) /\ p \notin Rationed /\ Goto(h, "record")
    /\ UNCHANGED <<queues, chans, ends, req, catalog, ledger, restarts>>

\* product.Status = ProductStatusSoldout: a plain store, racing with the
\* read in Lookup.  A step of its own: until it is visible other handlers
\* read the old value.
MarkSoldout(h) ==
    /\ pc[h] = "mark"
    /\ status' = [status EXCEPT ![req[h].product] = "Soldout"]
    /\ Refuse(h, "Soldout")
    /\ UNCHANGED <<queues, chans, ends, req, loading, infoMap, ledger, restarts>>

\* Variant: ProductCountMgr.Add is forgotten.
RecordHistoryOnly(h) ==
    /\ pc[h] = "record"
    /\ history' = [history EXCEPT ![req[h].user][req[h].product] = @ + 1]
    /\ Refuse(h, "Succ")
    /\ UNCHANGED <<queues, chans, ends, req, catalog, sold, everSold, restarts>>

\* userHistory.Add
RecordHistory(h) ==
    /\ pc[h] = "record"
    /\ history' = [history EXCEPT ![req[h].user][req[h].product] = @ + 1]
    /\ Goto(h, "count")
    /\ UNCHANGED <<queues, chans, ends, req, catalog, sold, everSold, restarts>>

\* ProductCountMgr.Add, and the token is filled in.
CountSale(h) ==
    /\ pc[h] = "count"
    /\ sold' = [sold EXCEPT ![req[h].product] = @ + 1]
    /\ everSold' = [everSold EXCEPT ![req[h].product] = @ + 1]
    /\ code' = [code EXCEPT ![h] = "Succ"]
    /\ pc' = [pc EXCEPT ![h] = "reply"]
    /\ UNCHANGED <<queues, chans, ends, req, catalog, history, restarts>>

ResultOf(h) == [user |-> req[h].user, product |-> req[h].product, code |-> code[h]]

\* Variant: the result is sent again after a send that succeeded.
HandlerResend(h) ==
    /\ pc[h] = "reply"
    /\ Room(handle2write)
    /\ handle2write' = Append(handle2write, ResultOf(h))
    /\ UNCHANGED <<queues, read2handle, ends, frame, catalog, ledger, restarts>>

HandlerSend(h) ==
    /\ pc[h] = "reply"
    /\ Room(handle2write)
    /\ handle2write' = Append(handle2write, ResultOf(h))
    /\ pc' = [pc EXCEPT ![h] = "idle"]
    /\ req' = [req EXCEPT ![h] = NoReq]
    /\ code' = [code EXCEPT ![h] = "Unset"]
    /\ UNCHANGED <<queues, read2handle, ends, catalog, ledger, restarts>>

\* SendToWriteChanTimeout: the result is lost, the sale stays recorded.
HandlerDrop(h) ==
    /\ pc[h] = "reply"
    /\ pc' = [pc EXCEPT ![h] = "idle"]
    /\ req' = [req EXCEPT ![h] = NoReq]
    /\ code' = [code EXCEPT ![h] = "Unset"]
    /\ UNCHANGED <<queues, chans, ends, catalog, ledger, restarts>>

-----------------------------------------------------------------------------
(* HandleWrite and sendToRedis *)

WriterReceive(w) ==
    /\ writing[w] = NoRes
    /\ handle2write # <<>>
    /\ writing' = [writing EXCEPT ![w] = Head(handle2write)]
    /\ handle2write' = Tail(handle2write)
    /\ UNCHANGED <<queues, read2handle, reading, frame, catalog, ledger, restarts>>

WriterPush(w) ==
    /\ writing[w] # NoRes
    /\ Len(layer2proxy) < QueueBound
    /\ layer2proxy' = Append(layer2proxy, writing[w])
    /\ writing' = [writing EXCEPT ![w] = NoRes]
    /\ UNCHANGED <<proxy2layer, chans, reading, frame, catalog, ledger, restarts>>

\* LPUSH failed: logged, the result is lost.
WriterFail(w) ==
    /\ writing[w] # NoRes
    /\ writing' = [writing EXCEPT ![w] = NoRes]
    /\ UNCHANGED <<queues, chans, reading, frame, catalog, ledger, restarts>>

-----------------------------------------------------------------------------
(* The process stops (signal or crash) and is started again: everything    *)
(* SecLayerCtx holds is new, the redis lists are as they were.             *)
Restart ==
    /\ restarts < MaxRestarts
    /\ restarts' = restarts + 1
    /\ read2handle' = FreshMemory.read2handle
    /\ handle2write' = FreshMemory.handle2write
    /\ reading' = FreshMemory.reading
    /\ writing' = FreshMemory.writing
    /\ pc' = FreshMemory.pc
    /\ req' = FreshMemory.req
    /\ code' = FreshMemory.code
    /\ loading' = TRUE
    /\ infoMap' = {}
    /\ status' = FreshMemory.status
    /\ history' = FreshMemory.history
    /\ sold' = FreshMemory.sold
    /\ UNCHANGED <<queues, everSold>>

-----------------------------------------------------------------------------
(* The environment, sk-app: WriteHandle pushes requests, ReadHandle pops   *)
(* results.  SecKillSystem replaces it by the model of sk-app.             *)
Arrive(u, p) ==
    /\ Len(proxy2layer) < QueueBound
    /\ proxy2layer' = Append(proxy2layer, [user |-> u, product |-> p])
    /\ UNCHANGED <<layer2proxy, chans, ends, frame, catalog, ledger, restarts>>

Collect ==
    /\ layer2proxy # <<>>
    /\ layer2proxy' = Tail(layer2proxy)
    /\ UNCHANGED <<proxy2layer, chans, ends, frame, catalog, ledger, restarts>>

-----------------------------------------------------------------------------
ReaderStep(r)  == ReaderPop(r) \/ ReaderSend(r) \/ ReaderDrop(r)

HandlerStep(h) == \/ HandlerReceive(h) \/ Lookup(h) \/ CheckHistory(h)
                  \/ CheckStock(h) \/ MarkSoldout(h) \/ RecordHistory(h)
                  \/ CountSale(h) \/ HandlerSend(h) \/ HandlerDrop(h)

WriterStep(w)  == WriterReceive(w) \/ WriterPush(w) \/ WriterFail(w)

CoreNext ==
    \/ \E list \in {Listed, {}} : LoadSecConf(list)
    \/ \E r \in Readers : ReaderStep(r)
    \/ \E h \in Handlers : HandlerStep(h)
    \/ \E w \in Writers : WriterStep(w)
    \/ Restart

EnvNext == (\E u \in Users, p \in Products : Arrive(u, p)) \/ Collect

Next == CoreNext \/ EnvNext

Spec == Init /\ [][Next]_vars

-----------------------------------------------------------------------------
(* Properties *)

\* Handlers that have passed the stock check for p and not counted the sale.
Past(p) == {h \in Handlers : pc[h] \in {"record", "count"} /\ req[h].product = p}

\* Handlers that have passed the history check of u for p and not recorded
\* the purchase.
Unrecorded(u, p) ==
    {h \in Handlers : /\ pc[h] \in {"stock", "record"}
                      /\ req[h].user = u /\ req[h].product = p}

\* Check-then-act on the stock (user_skill.go 74-91): concurrent handlers
\* may oversell a product, but by at most one unit per additional handler,
\* and the units they are about to count are within that bound already.
OversellBound ==
    \A p \in Products :
        sold[p] + Cardinality(Past(p)) <= Total[p] + Cardinality(Handlers) - 1

\* Check-then-act on the history (user_skill.go 58-90): a user exceeds
\* OnePersonBuyLimit by at most one unit per additional handler.
LimitBound ==
    \A u \in Users, p \in Products :
        history[u][p] + Cardinality(Unrecorded(u, p))
            <= OnePersonBuyLimit[p] + Cardinality(Handlers) - 1

\* The purchases of p the histories hold: the first, the second, ... of
\* every user.
Bought(p) == UNION {{u} \X (1..history[u][p]) : u \in Users}

\* Handlers between the two calls that record a sale of p.
Uncounted(p) == {h \in Handlers : pc[h] = "count" /\ req[h].product = p}

\* The two ledgers written by separate calls (90 and 91) never diverge by
\* more than the handlers between the calls: the histories of all users add
\* up to the count.
LedgersAgree ==
    \A p \in Products :
        Cardinality(Bought(p)) = sold[p] + Cardinality(Uncounted(p))

\* The places in memory that say that p is sold out.
SoldoutKnown(p) ==
    \/ status[p] = "Soldout"
    \/ \E h \in Handlers : /\ pc[h] \in {"mark", "reply"} /\ req[h].product = p
                           /\ pc[h] = "reply" => code[h] = "Soldout"
    \/ \E i \in 1..Len(handle2write) : /\ handle2write[i].product = p
                                       /\ handle2write[i].code = "Soldout"
    \/ \E w \in Writers : /\ writing[w] # NoRes
                          /\ writing[w].product = p
                          /\ writing[w].code = "Soldout"

\* Nobody is told that a product is sold out, and no product is marked so
\* (78), while units are left: wherever a sold-out answer is in memory, the
\* count has reached Total.
SoldoutTruthful == \A p \in Products : SoldoutKnown(p) => sold[p] >= Total[p]

IsSuccess(res, p) == res.product = p /\ res.code = "Succ"

Successes(seq, p) == Cardinality({i \in 1..Len(seq) : IsSuccess(seq[i], p)})

\* Who holds a success for p: handlers about to send it, writers about to
\* push it.
Replying(p) == {h \in Handlers : pc[h] = "reply" /\ IsSuccess(ResultOf(h), p)}
Pushing(p)  == {w \in Writers : writing[w] # NoRes /\ IsSuccess(writing[w], p)}

SuccessesInFlight(p) ==
    Cardinality(Replying(p)) + Successes(handle2write, p)
    + Cardinality(Pushing(p)) + Successes(layer2proxy, p)

\* Every token on its way to a buyer is backed by a sale of its own that has
\* been counted, across drops, failed pushes and restarts.
SuccessBacked == \A p \in Products : SuccessesInFlight(p) <= everSold[p]

\* The stock count lives in memory (product_count.go 8-18): each restart
\* puts at most Total plus the oversell margin on sale once more.
ResaleBound ==
    \A p \in Products :
        everSold[p] <= (restarts + 1) * (Total[p] + Cardinality(Handlers) - 1)

Quiescent ==
    /\ proxy2layer = <<>> /\ read2handle = <<>> /\ handle2write = <<>>
    /\ \A r \in Readers : reading[r] = NoReq
    /\ \A h \in Handlers : pc[h] = "idle"
    /\ \A w \in Writers : writing[w] = NoRes

\* What sk-core promises: a ledger with a bounded oversell margin.
Ledger == INSTANCE SecKillLedger
            WITH Margin <- Cardinality(Handlers) - 1,
                 closed <- {p \in Products : status[p] = "Soldout"},
                 epoch  <- restarts

\* The concurrent handlers implement that ledger: each of their steps sells
\* one unit within the margin, closes an exhausted product, or is invisible.
LedgerSpec == Ledger!Spec

\* "Total: total quantity of the product" (ConfigProperty.go 102), taken at
\* its word.
NoOversell == \A p \in Products : sold[p] <= Total[p]
=============================================================================
