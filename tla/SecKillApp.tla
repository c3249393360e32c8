---------------------------- MODULE SecKillApp -----------------------------
(***************************************************************************)
(* The request path of sk-app, the HTTP entry of the flash sale.           *)
(*                                                                         *)
(* A call is one execution of SkAppService.SecKill, on a goroutine of its  *)
(* own: it registers a result channel of capacity one under the key        *)
(* "user_product" in UserConnMap, hands the request to SecReqChan and      *)
(* waits.  WriteHandle goroutines move requests to the redis list          *)
(* proxy2layer; ReadHandle goroutines pop results from layer2proxy, look   *)
(* the key up under UserConnMapLock and send on the channel found after    *)
(* they have released the lock.  Everybody who asks for one product as one *)
(* user shares one key: later calls replace the channel of earlier ones,   *)
(* and every call deletes the key when it ends.                            *)
(*                                                                         *)
(* A call is identified with the channel it makes.  What AntiSpam and      *)
(* SecInfoById decide is a choice here (module AntiSpam has the former).   *)
(* req.CloseNotify is never set (json:"-"), a nil channel is never ready,  *)
(* so that case of the select does not occur.                              *)
(***************************************************************************)
EXTENDS Integers, Sequences, FiniteSets

CONSTANTS
    Calls,          \* executions of SecKill
    AppWriters,     \* AppWriteToHandleGoroutineNum goroutines WriteHandle
    AppReaders,     \* AppReadFromHandleGoroutineNum goroutines ReadHandle
    Users, Products,
    KeyOf,          \* the user and product of a call: userKey
    Codes,          \* codes of results of sk-core
    ReqCap,         \* capacity of SecReqChan (1024 in the code)
    QueueBound,     \* bound on both redis lists (none in the code)
    NoCall, NoRes

Request == [user : Users, product : Products]
Result  == [user : Users, product : Products, code : Codes]

ASSUME CallsAssumption == KeyOf \in [Calls -> Request]
ASSUME AppBoundsAssumption == ReqCap \in Nat \ {0} /\ QueueBound \in Nat
ASSUME AppGoroutinesAssumption == IsFiniteSet(AppWriters) /\ IsFiniteSet(AppReaders)
ASSUME AppCodesAssumption == Codes \cap {"None", "Refused", "Timeout"} = {}
ASSUME AppNoneAssumption == NoCall \notin Calls /\ NoRes \notin Result

VARIABLES
    proxy2layer,   \* redis list of requests, oldest first
    layer2proxy,   \* redis list of results, oldest first
    secReqChan,    \* SecReqChan: the calls whose requests wait in it
    userConnMap,   \* UserConnMap: key -> the call whose channel is registered
    buf,           \* contents of each call's ResultChan
    at,            \* where in SecKill a call is
    outcome,       \* what the call returns
    sending,       \* the call whose request a writer holds
    popped,        \* the result a reader has popped
    target         \* the channel a reader has found and is sending on

queues  == <<proxy2layer, layer2proxy>>
callers == <<buf, at, outcome>>
readers == <<popped, target>>
appVars == <<queues, secReqChan, userConnMap, callers, sending, readers>>

Places == {"new", "register", "enqueue", "wait", "cleanup", "done"}
Outcomes == Codes \cup {"None", "Refused", "Timeout"}

AppTypeOK ==
    /\ proxy2layer \in Seq(Request)
    /\ layer2proxy \in Seq(Result)
    /\ secReqChan \in Seq(Calls) /\ Len(secReqChan) <= ReqCap
    /\ userConnMap \in [Request -> Calls \cup {NoCall}]
    /\ buf \in [Calls -> Seq(Result)] /\ \A c \in Calls : Len(buf[c]) <= 1
    /\ at \in [Calls -> Places]
    /\ outcome \in [Calls -> Outcomes]
    /\ sending \in [AppWriters -> Calls \cup {NoCall}]
    /\ popped \in [AppReaders -> Result \cup {NoRes}]
    /\ target \in [AppReaders -> Calls \cup {NoCall}]

AppInit ==
    /\ proxy2layer = <<>>
    /\ layer2proxy = <<>>
    /\ secReqChan = <<>>
    /\ userConnMap = [k \in Request |-> NoCall]
    /\ buf = [c \in Calls |-> <<>>]
    /\ at = [c \in Calls |-> "new"]
    /\ outcome = [c \in Calls |-> "None"]
    /\ sending = [w \in AppWriters |-> NoCall]
    /\ popped = [r \in AppReaders |-> NoRes]
    /\ target = [r \in AppReaders |-> NoCall]

-----------------------------------------------------------------------------
(* SecKill *)

Move(c, place) == at' = [at EXCEPT ![c] = place]

\* AntiSpam or SecInfoById returns an error.
CallRefused(c) ==
    /\ at[c] = "new"
    /\ Move(c, "done")
    /\ outcome' = [outcome EXCEPT ![c] = "Refused"]
    /\ UNCHANGED <<queues, secReqChan, userConnMap, buf, sending, readers>>

CallAdmitted(c) ==
    /\ at[c] = "new"
    /\ Move(c, "register")
    /\ UNCHANGED <<queues, secReqChan, userConnMap, buf, outcome, sending, readers>>

\* UserConnMap[userKey] = ResultChan, whatever is registered there.
CallRegister(c) ==
    /\ at[c] = "register"
    /\ userConnMap' = [userConnMap EXCEPT ![KeyOf[c]] = c]
    /\ Move(c, "enqueue")
    /\ UNCHANGED <<queues, secReqChan, buf, outcome, sending, readers>>

\* SecReqChan <- req: no timeout, the ticker starts afterwards.
CallEnqueue(c) ==
    /\ at[c] = "enqueue"
    /\ Len(secReqChan) < ReqCap
    /\ secReqChan' = Append(secReqChan, c)
    /\ Move(c, "wait")
    /\ UNCHANGED <<queues, userConnMap, buf, outcome, sending, readers>>

\* Variant: the timeout returns without the deferred clean-up.
CallTimeoutNoDefer(c) ==
    /\ at[c] = "wait"
    /\ outcome' = [outcome EXCEPT ![c] = "Timeout"]
    /\ Move(c, "done")
    /\ UNCHANGED <<queues, secReqChan, userConnMap, buf, sending, readers>>

\* Variant: the ticker never fires.
CallNoTimeout(c) == FALSE /\ UNCHANGED appVars

\* AppWaitResultTimeout.  Also possible when a result is in the channel:
\* both cases of the select are ready then.
CallTimeout(c) ==
    /\ at[c] = "wait"
    /\ outcome' = [outcome EXCEPT ![c] = "Timeout"]
    /\ Move(c, "cleanup")
    /\ UNCHANGED <<queues, secReqChan, userConnMap, buf, sending, readers>>

CallReceive(c) ==
    /\ at[c] = "wait"
    /\ buf[c] # <<>>
    /\ outcome' = [outcome EXCEPT ![c] = Head(buf[c]).code]
    /\ buf' = [buf EXCEPT ![c] = Tail(@)]
    /\ Move(c, "cleanup")
    /\ UNCHANGED <<queues, secReqChan, userConnMap, sending, readers>>

\* Variant: every key of the user is deleted.
CallCleanupUser(c) ==
    /\ at[c] = "cleanup"
    /\ userConnMap' = [k \in Request |-> IF k.user = KeyOf[c].user THEN NoCall
                                         ELSE userConnMap[k]]
    /\ Move(c, "done")
    /\ UNCHANGED <<queues, secReqChan, buf, outcome, sending, readers>>

\* The deferred delete(UserConnMap, userKey), whoever is registered there.
CallCleanup(c) ==
    /\ at[c] = "cleanup"
    /\ userConnMap' = [userConnMap EXCEPT ![KeyOf[c]] = NoCall]
    /\ Move(c, "done")
    /\ UNCHANGED <<queues, secReqChan, buf, outcome, sending, readers>>

-----------------------------------------------------------------------------
(* WriteHandle *)

WriteTake(w) ==
    /\ sending[w] = NoCall
    /\ secReqChan # <<>>
    /\ sending' = [sending EXCEPT ![w] = Head(secReqChan)]
    /\ secReqChan' = Tail(secReqChan)
    /\ UNCHANGED <<queues, userConnMap, callers, readers>>

\* Variant: the request is pushed again.
WritePushTwice(w) ==
    /\ sending[w] # NoCall
    /\ Len(proxy2layer) < QueueBound
    /\ proxy2layer' = Append(proxy2layer, KeyOf[sending[w]])
    /\ UNCHANGED <<layer2proxy, secReqChan, userConnMap, callers, sending, readers>>

WritePush(w) ==
    /\ sending[w] # NoCall
    /\ Len(proxy2layer) < QueueBound
    /\ proxy2layer' = Append(proxy2layer, KeyOf[sending[w]])
    /\ sending' = [sending EXCEPT ![w] = NoCall]
    /\ UNCHANGED <<layer2proxy, secReqChan, userConnMap, callers, readers>>

\* LPUSH (or json.Marshal) failed: logged, the request is lost.
WriteFail(w) ==
    /\ sending[w] # NoCall
    /\ sending' = [sending EXCEPT ![w] = NoCall]
    /\ UNCHANGED <<queues, secReqChan, userConnMap, callers, readers>>

-----------------------------------------------------------------------------
(* ReadHandle *)

ReadPop(r) ==
    /\ popped[r] = NoRes
    /\ layer2proxy # <<>>
    /\ popped' = [popped EXCEPT ![r] = Head(layer2proxy)]
    /\ layer2proxy' = Tail(layer2proxy)
    /\ UNCHANGED <<proxy2layer, secReqChan, userConnMap, callers, sending, target>>

KeyOfResult(res) == [user |-> res.user, product |-> res.product]

\* Variant: keyed by user alone, any registered channel of the user will do.
ReadLookupByUser(r) ==
    /\ popped[r] # NoRes /\ target[r] = NoCall
    /\ \E k \in Request : /\ k.user = popped[r].user /\ userConnMap[k] # NoCall
                          /\ target' = [target EXCEPT ![r] = userConnMap[k]]
    /\ UNCHANGED <<queues, secReqChan, userConnMap, callers, sending, popped>>

\* The lookup, under UserConnMapLock.
ReadLookup(r) ==
    /\ popped[r] # NoRes /\ target[r] = NoCall
    /\ userConnMap[KeyOfResult(popped[r])] # NoCall
    /\ target' = [target EXCEPT ![r] = userConnMap[KeyOfResult(popped[r])]]
    /\ UNCHANGED <<queues, secReqChan, userConnMap, callers, sending, popped>>

\* "user not found": the result is dropped.
ReadDrop(r) ==
    /\ popped[r] # NoRes /\ target[r] = NoCall
    /\ userConnMap[KeyOfResult(popped[r])] = NoCall
    /\ popped' = [popped EXCEPT ![r] = NoRes]
    /\ UNCHANGED <<queues, secReqChan, userConnMap, callers, sending, target>>

\* resultChan <- result: blocks while the buffer is full, for ever if the
\* call behind it has returned.
ReadDeliver(r) ==
    /\ target[r] # NoCall
    /\ buf[target[r]] = <<>>
    /\ buf' = [buf EXCEPT ![target[r]] = Append(@, popped[r])]
    /\ popped' = [popped EXCEPT ![r] = NoRes]
    /\ target' = [target EXCEPT ![r] = NoCall]
    /\ UNCHANGED <<queues, secReqChan, userConnMap, at, outcome, sending>>

-----------------------------------------------------------------------------
(* The environment: sk-core answers a request with some code or loses it,  *)
(* in any order (its handlers run concurrently); another sk-app process    *)
(* behind the gateway pops a result of this one, knows no such user and    *)
(* drops it.  SecKillSystem replaces the former by the model of sk-core.   *)

Without(q, i) == SubSeq(q, 1, i - 1) \o SubSeq(q, i + 1, Len(q))

CoreAnswer(i, code) ==
    /\ Len(layer2proxy) < QueueBound
    /\ layer2proxy' = Append(layer2proxy, [user |-> proxy2layer[i].user,
                                           product |-> proxy2layer[i].product,
                                           code |-> code])
    /\ proxy2layer' = Without(proxy2layer, i)
    /\ UNCHANGED <<secReqChan, userConnMap, callers, sending, readers>>

CoreLose(i) ==
    /\ proxy2layer' = Without(proxy2layer, i)
    /\ UNCHANGED <<layer2proxy, secReqChan, userConnMap, callers, sending, readers>>

ForeignPop ==
    /\ layer2proxy # <<>>
    /\ layer2proxy' = Tail(layer2proxy)
    /\ UNCHANGED <<proxy2layer, secReqChan, userConnMap, callers, sending, readers>>

CoreStep == \E i \in 1..Len(proxy2layer) :
                CoreLose(i) \/ \E code \in Codes : CoreAnswer(i, code)

-----------------------------------------------------------------------------
CallStep(c) == \/ CallRefused(c) \/ CallAdmitted(c) \/ CallRegister(c)
               \/ CallEnqueue(c) \/ CallTimeout(c) \/ CallReceive(c)
               \/ CallCleanup(c)

WriteStep(w) == WriteTake(w) \/ WritePush(w) \/ WriteFail(w)

ReadStep(r) == ReadPop(r) \/ ReadLookup(r) \/ ReadDrop(r) \/ ReadDeliver(r)

AppNext ==
    \/ \E c \in Calls : CallStep(c)
    \/ \E w \in AppWriters : WriteStep(w)
    \/ \E r \in AppReaders : ReadStep(r)
    \/ ForeignPop

Next == AppNext \/ CoreStep

Spec == AppInit /\ [][Next]_appVars

(* The Go scheduler is fair to goroutines.  Senders blocked on a channel   *)
(* are queued in order, so a call blocked on SecReqChan gets its turn      *)
(* however often others take the room: strong fairness for CallEnqueue.    *)
AppFairness ==
    /\ \A c \in Calls : /\ WF_appVars(at[c] # "new" /\ CallStep(c))
                        /\ SF_appVars(CallEnqueue(c))
    /\ \A w \in AppWriters : WF_appVars(WriteStep(w))
    /\ \A r \in AppReaders : WF_appVars(ReadStep(r))

FairSpec == Spec /\ AppFairness

-----------------------------------------------------------------------------
(* Properties *)

Twins(c) == {d \in Calls \ {c} : KeyOf[d] = KeyOf[c]}

\* A result is only ever handed to a call for the user and product it is
\* about, although the channel is looked up in one critical section
\* (redis_proc.go 55-57), used after it (64) and replaced or deleted by
\* other calls in between (service.go 75, 86).
KeyedDelivery ==
    /\ \A c \in Calls : \A i \in 1..Len(buf[c]) : KeyOfResult(buf[c][i]) = KeyOf[c]
    /\ \A r \in AppReaders : target[r] # NoCall =>
           popped[r] # NoRes /\ KeyOfResult(popped[r]) = KeyOf[target[r]]

\* No entry of UserConnMap outlives its call (service.go 83-88): every way
\* out of SecKill after the registration removes the key.
NoLeakedEntry ==
    \A k \in Request : userConnMap[k] # NoCall =>
        /\ KeyOf[userConnMap[k]] = k
        /\ at[userConnMap[k]] \in {"enqueue", "wait", "cleanup"}

\* A call that waits can be found by ReadHandle unless another call for the
\* same user and product has replaced it or, on its way out, deleted its
\* entry (service.go 75 and 86 do not compare channels).
EvictedByTwin ==
    \A c \in Calls :
        at[c] \in {"enqueue", "wait"} /\ userConnMap[KeyOf[c]] # c =>
            \E d \in Twins(c) : \/ userConnMap[KeyOf[c]] = d
                                \/ at[d] = "done" /\ outcome[d] # "Refused"

\* Results on their way to a call's key.
ResultsFor(k) ==
    Cardinality({i \in 1..Len(layer2proxy) : KeyOfResult(layer2proxy[i]) = k})
    + Cardinality({r \in AppReaders : popped[r] # NoRes /\ KeyOfResult(popped[r]) = k})

\* A ReadHandle goroutine is lost for ever (redis_proc.go 64) only when it
\* holds a second result for the key of a call that has ended: it takes
\* another call for the same user and product to jam it.
JammedByTwin ==
    \A r \in AppReaders :
        /\ target[r] # NoCall
        /\ buf[target[r]] # <<>>
        => \E d \in Twins(target[r]) : at[d] \notin {"new", "register", "enqueue"}

\* Only calls for one user and product disturb each other, in these two ways.
TwinsOnly == EvictedByTwin /\ JammedByTwin

\* With one call per user and product, results never meet: a call's key has
\* at most one result anywhere, and its channel is registered while it waits.
OneResultPerKey ==
    \A c \in Calls : Twins(c) = {} =>
        /\ Len(buf[c]) + ResultsFor(KeyOf[c]) <= 1
        /\ at[c] \in {"enqueue", "wait"} => userConnMap[KeyOf[c]] = c

\* A ReadHandle goroutine that pops a result for a key only one call has is
\* never lost: it comes back for the next result, whatever times out and
\* however other keys are shared.
ReadersSurvive ==
    \A r \in AppReaders, k \in Request :
        Cardinality({c \in Calls : KeyOf[c] = k}) <= 1
            => (popped[r] # NoRes /\ KeyOfResult(popped[r]) = k) ~> popped[r] = NoRes
=============================================================================
