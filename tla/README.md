# Verification of micro-go-book in TLA+

This directory models the programs of the repository: the flash sale system of
`src/ch13-seckill`, which is the largest, and the services, gateways, clients, authorisation
server and configuration clients of the chapters before it (`ch6` to `ch12`). The modules are
written from the Go code; line by line references are in `PROJECT.json` ("map"). TLC checks
small instances, TLAPS proves central properties for every value of the constants.

## 1. The systems

```
              +--------- Consul ---------+          (registration, discovery)
              |                          |
 client --> gateway --> sk-app --redis: proxy2layer--> sk-core
              |            ^  <--redis: layer2proxy--     |
              |            |                              |
              +-> oauth    +------- znode /product -------+
                    |                     ^
                  user-service        sk-admin --> MySQL
```

| Component | State it keeps | Operations | What is hard | What makes it correct |
|---|---|---|---|---|
| **sk-core** (`sk-core/service/srv_redis`, `srv_product`, `srv_user`, `setup`) | two channels, product map with `Status`, `ProductCountMgr`, `HistoryMap` - all in memory | reader goroutines pop requests, handler goroutines run `HandleSeckill`, writer goroutines push results | every lock protects one access only: check and update are separate critical sections; sends time out; the product map is loaded by a goroutine nobody waits for; a restart forgets all | bounded overselling and bounded excess over the purchase limit; both ledgers agree; sold out is true when it is said; no token without a sale |
| **sk-app request path** (`sk-app/service/service.go`, `srv_redis/redis_proc.go`) | `SecReqChan`, `UserConnMap`, one result channel per call | `SecKill`, `WriteHandle`, `ReadHandle` | calls of one user for one product share a key; the channel is used after the lock is released; a timeout races with an answer; a send without a timeout | answers go to the right user and product; entries do not leak; readers survive; calls return |
| **sk-app access limits** (`sk-app/service/srv_limit`, `setup/redis.go`) | counters per user and address, black lists | `AntiSpam`, `loadBlackList` | the clock is the client's; fixed windows; late return; a load that fails half way | rations per second and minute; no refusal without cause |
| **sk-app queries** (`sk-app/service/service.go`, `transport`, `plugins`) | product map, two token buckets | health, info, list, verdict before a sale | boundaries of the window; later conditions overwrite earlier ones; the second turns inside a list | verdicts fit the window and each other |
| **sk-admin** (`sk-admin/service`, `transport`, `model`) | tables `activity` and `product`, a token bucket | create, list | judges the end of an activity by itself, beside sk-app; statements that fail after they were carried out | its list and sk-app never contradict each other |
| **activity publication** (`sk-admin/service/activity.go`, `sk-app/setup/zk.go`, `sk-core/setup/zk.go`) | znode `/product`, product map of each service | `syncToZk`, `loadSecConf` | read-append-write without a lock over ZooKeeper; ignored errors; services read once | published entries are backed by rows and stay published; a service sells a snapshot |
| **registration and discovery** (`pkg/discover`) | Consul's catalogue, `instancesMap`, a mutex, a watch goroutine | `Register`, `DeRegister`, `DiscoverServices`, `plan.Handler` | first call and watch store concurrently; a failed query caches an empty list; processes vanish | one watch per service; the cache follows Consul; calls return |
| **oauth-service**, **ch11 authorisation server** | none: tokens carry their contents; a token bucket | password and refresh grants, check, protected resources | every operation parses its token twice, the clock moving on between; removal operations of the store do nothing; shadowed errors | what is accepted descends from a login and was good |
| **gateways** of ch9, ch10, ch12, ch13 | map of known commands, circuits, response writers | filter, configure, discover, proxy, fallback | the proxy outlives the time limit of its command; map read outside its mutex; panics in a goroutine of the library | one voice per response; every request answered; one request does not end the others |
| **string, sum and stream services** of ch6 - ch12 with their clients | none | `Concat`, `Diff`, `Sum`, streams over HTTP, net/rpc, gRPC, go-kit | a failure passes through three to five layers, each of which may lose it; a breaker answers for an exchange that is still going on | a caller is handed the result or learns that there is none |
| **life of a process** (the `main` of every program that registers or is a gateway, the registrars) | goroutines, an error channel, the entry in Consul | start, register, listen, signal, deregister | registration runs beside the signal handler; failures panic, exit or are only logged; two ids | Consul is right in the end |
| **configuration refresh** (`ch8-config`) | viper, a queue shared by all instances | load, refresh on an event, acknowledge | an event reaches one instance of all; two loads side by side; acknowledged whether it worked or not | what is stale has a reason; every event is acknowledged |
| user-service, load balancing, configuration loading, decorators, language, web and storage examples | - | - | - | see section 7 |

How they interact: sk-app and sk-core communicate only through two redis lists.
Requests go through `SecReqChan`, `WriteHandle`, `proxy2layer`, a reader, a channel, a
handler, a channel, a writer, `layer2proxy`, `ReadHandle` and the result channel of the
call. Every hop may lose the message and no hop repeats it. sk-app and sk-core get
the products from one znode that sk-admin writes. Gateway and RPC clients find
instances through `pkg/discover`. The gateway asks oauth-service about tokens, oauth-service asks
user-service about passwords.

`PROJECT.json` lists all components, and under "hazards" the places where
this code is exposed to interleavings, stale values, lost messages, restarts and
boundaries, with the properties that cover each.

## 2. Modules

| Module | What it is | Checked by | Proved |
|---|---|---|---|
| `SecKillLedger` | abstract specification: sell one unit within a margin, close, forget | `core_races` | - |
| `SecKillCore` | sk-core; refines `SecKillLedger` | `core_races`, `core_oversell` | `SecKillCore_proofs` |
| `SecKillApp` | sk-app's request path | `app_twins` | `SecKillApp_proofs` |
| `SecKillSystem` | `SecKillApp` and `SecKillCore` over shared redis lists | `system_answers`, `system_returns` | `SecKillSystem_proofs` |
| `AntiSpam` | sk-app's access limits and black lists | `spam_limits` | `Front_proofs` |
| `SaleFront` | sk-app's routes, token buckets and verdicts | `spam_limits` | `Front_proofs` |
| `AdminFront` | sk-admin's routes and tables, beside `SaleFront` | `spam_limits` | `Front_proofs` |
| `SecCatalog` | activity publication | `catalog_races`, `catalog_update` | `Registry_proofs` |
| `Discovery` | registration and discovery | `discovery` | `Registry_proofs` |
| `TokenGrants` | both authorisation servers, with a clock | `tokens`, `token_reuse` | `TokenGrants_proofs` |
| `Gateways` | the four gateways | `parts` | `Parts_proofs` |
| `StringCalls` | the string services, layer by layer, and their callers | `parts` | `Parts_proofs` |
| `SumChain` | the three traced services of ch12 that add numbers | `parts` | `Parts_proofs` |
| `StreamCalls` | the streams of ch7 | `parts` | `Parts_proofs` |
| `ServiceLife` | the life of every service process and of its entry in Consul | `parts` | `Parts_proofs` |
| `ConfigBus` | configuration refresh of ch8 | `parts` | `Parts_proofs` |

`MC*` modules give the constants of TLC runs; `*_proofs` modules extend one or more models that
do not share names and hold their theorems; `Counting` holds the lemmas about queues and counts that several of
them cite. No module declares a RECURSIVE operator. `MCParts` and `MCAntiSpam` put modules
that share no state side by side: the variable `subject` picks the one that takes the steps
of a behaviour, the others stay in one initial state. They check as much as a run for each would.

What only TLC checks is listed at the end of section 5; what is not modelled, in section 7.

## 3. How the models correspond to the code

**`SecKillCore`.** A reader, handler or writer goroutine is a process; a handler's
`pc` is its place in `HandleUser` / `HandleSeckill`. Each critical section is one action:
`Lookup` (product map and the unlocked read of `Status`), `CheckHistory`, `CheckStock`,
`MarkSoldout` (the unlocked write of `Status`), `RecordHistory`, `CountSale`.
`RWSecProductLock` is only ever taken for reading and excludes nobody, so it is not
modelled. `HandlerSend` / `HandlerDrop` are the two cases of the select. `ReaderDrop`
stands for an expired request, a malformed one and a send that timed out. `LoadSecConf`
may happen at any time and may leave the map empty. `Restart` resets what is in memory
and keeps the redis lists. Time is abstracted: whether a request is too old, or a ticker
fires first, is a choice. `BuyRate` is compared
with the constant 0.1 (`user_skill.go:82-85`; the random number is commented out), so a product is either
never or always refused at that point: `Rationed`. The token's text is left out: a success is a token.

**`SecKillApp`.** A call of `SecKill` is identified with the channel it makes.
`CallRegister`, `CallEnqueue`, `CallTimeout` / `CallReceive` and the deferred `CallCleanup` are its
steps. `ReadLookup` (under the lock) and `ReadDeliver` (the send, after it) are separate
actions. `CoreAnswer` / `CoreLose` are the environment of the module; `ForeignPop` is another sk-app
process that takes a result of this one. `SecKillSystem` replaces the environment by
`SecKillCore`.

**`AntiSpam`.** One action per outcome of the function (`RefuseUser`, `Judge`): counters
are changed in one critical section and compared after it with local values.
`Loaded` is what `loadBlackList` can leave behind: both lists, the first one only, or none, since a failure at
the first skips the second; an entry that is no user id is passed over.
`anti_spam.go:51` indexes a map of integers with a string, which does not type-check; the module
takes the statements literally, so the entry is never found under the user id and the
counters of a user start afresh with every request. Line 55 counts in the second counter
where its comment says minute; the model counts as the line does.

**`SaleFront`, `AdminFront`.** One action per route and outcome. `Code` is `SecInfoById`: its
conditions are tried in order and each overwrites the code of those before. A list takes the
time for every product anew, so `List(after)` lets the second turn between any two. The token
buckets are counters that a second refills by one (queries, administration) or wholly (sales: a token every 100
microseconds). In `AdminFront` a statement that fails may have been carried out. `told` and `shown` are
histories: what was said of a product, and when. `CreateActivity` does not insert the status of
an activity, so all that a list can show is whether it has ended (`StatusOf`).

**`SecCatalog`.** A call of `CreateActivity` moves through insert, read, exists, set or
create. `SetList` succeeds only when the znode's version is 0, because `flags` (0) is passed
where the client takes the expected version. Errors of the read mean an empty list,
errors of the write mean success for the caller, as in the code.

**`Discovery`.** One service name. `instancesMap` is a set of instances or "no list";
`Miss`, `Lock`, `FoundLater`, `StartWatch`, `Ask`, `AskFail`, `Store` are the steps of
`DiscoverServices`, `WatchPoll` and `WatchStore` those of the watch goroutine. Consul's checks
(`CheckPass`, `CheckFail`, `Reap`) are external, restricted to what the registration asks
for: a check every 15 seconds, removal after 30 seconds critical. The intermediate store of an
empty list in line 124 is followed by another store of an empty list and is not a step of its own.

**`TokenGrants`.** A token is its place in the sequence `signed` of all tokens ever signed, with its claims:
details, expiry and the refresh token it came from. Anything else a caller may present is 0. An
operation reads its token twice (`Reads`, then `ReadsDetails`), and `Tick` may come in between. The two
copies of the token service are the same text; `chapter` picks users, clients, endpoints and limiter. The
authorities of chapter 13 are empty (`Details`), as the user service returns none.

**`Gateways`.** `pc` is the place of a handler, `run` that of the proxy, in the handler's own
goroutine (chapters 9 and 12) or in one of hystrix's (10 and 13). `Timeout` leaves the run
behind with the response writer. `out` holds whose words a response got. The map of commands is
read outside the mutex in chapter 10 (`Lookup`, `Store`) and is a `sync.Map` in chapter 13. A
`panic` of the proxy ends the process when it runs in hystrix's goroutine, and only the request otherwise. The
filter's call of oauth-service may fail in every way it can. Discovery may return any instance or none.

**`StringCalls`.** One operator per layer of each copy: service, middleware, endpoint, encoder, client stub. A
call is served (`Serve`), breaks (`Break`) or finds no instance (`Unlisted`), and its caller ends
with a value, a failure it can see, or a crash. In front of `UseStringService` stands go-kit's `Hystrix`
(`use-string-service/main.go:50`, the operations only): it may refuse the call (`Refuse`), or its time limit may pass
before the exchange is over (`GiveUp("late")`); `GiveUp("cut")` is the loss of the caller's own connection.
The exchange then goes on and its result is dropped. `inbound` says which of these happened. **`SumChain`** follows the two numbers as text through three
processes; `Wrap` is Go's arithmetic of int64. **`StreamCalls`** has the two FIFO directions of a stream, which
may break at any time after which what was sent may still be read.

**`ServiceLife`.** A program is its registrar, its servers and its health check (`Programs`, one
per `main` that registers or is a gateway). Each goroutine sends its error on an unbuffered channel (`task`), main receives the
first (`MainReceives`), deregisters and returns. A registration on its way (`request`) is applied
when it arrives, even after its sender ended.

**`ConfigBus`.** `first` is what the load of the init function has fetched, `again` what the one of the listener
has: the two run side by side and whichever ends last is what viper keeps (`Load`). `Deliver` hands an
event of the common queue to any one consumer. An event is acknowledged whatever became of its reload
(`ReloadFails`); a lost connection gives back what was not acknowledged (`ConnectionLost`).

## 4. What the runs check

| Run | Instance | What it shows |
|---|---|---|
| `core_races` | 2 handlers, 2 users, 2 products with one unit each, one of them rationed, 1 restart, at most 3 requests and results under way | all interleavings of check and update: overselling and excess purchases are bounded by the number of handlers less one, the ledgers agree, sold out is never said too early, no token without a counted sale, resale bounded per incarnation, refinement of `SecKillLedger` |
| `core_oversell` (violated) | 2 handlers | `Total` as its comment reads does not hold: 2 units of 1 are sold |
| `app_twins` | 3 calls, two of them twins, 2 readers | keyed delivery, no leaks; evictions and lost readers only through twins; readers come back unless jammed so |
| `system_answers` | 3 calls of one key, 2 handlers, 1 restart | what callers are told is true of the ledgers; no sale is reported twice |
| `system_returns` | 2 calls, 1 restart, fairness | calls return and sk-core comes to rest although any hop may lose messages |
| `catalog_races` | 3 overlapping calls, 2 products, 2 services, failures | rows back what is published; overlapping calls do not undo each other; services hold snapshots of the list |
| `catalog_update` (violated) | calls one at a time, no failure | "create or update" does not hold: a created activity never reaches the list |
| `spam_limits` | 5 requests, 5 times, 3 clients; beside it 2 products, 3 kinds of offers, 4 seconds, 2 rows | second, minute and late rations, every refusal justified; verdicts in order; the lists of sk-admin and the verdicts of sk-app agree |
| `discovery` | 2 instances, 2 callers, 3 starts | one watch; fresh cache; settles; calls return |
| `tokens` | 2 handlers, 2 users, 1 client, 4 tokens, times 0 to 3 | what is accepted descends from a login; the empty answer has one cause; lineage is sound |
| `token_reuse` (violated) | 6 tokens | "the used refresh token is removed" does not hold: it is exchanged twice |
| `parts` | strings up to 2 characters over 2, limit 3; integers of 3 bits; 3 messages; 2 requests at each gateway; all 16 programs; 2 instances of 2 applications, 2 versions, 2 events | `AnswersExplained`, `SumTruthful`, `StreamsWhole`, `StreamsEnd`, `OneVoice`, `Isolation`, `Answered`, `OutlivedExplained`, `ListedInTheEnd`, `StaleExplained`, `Drained` |

Bounds and why they are enough:

- Two handlers are the smallest number that overlap; the margin is `Handlers - 1`, so one
  unit shows it being reached. The theorems remove the bound on handlers, users,
  products and stock. `MaxUnderWay` (3) limits the requests and results in all hops together: two in
  handlers and one more that waits.
- `ChanCap`, `ReqCap` and `QueueBound` of 1 or 2 make every send meet a full buffer. The code
  has 1024 and no limit; a full redis list does not occur there, and a bound on it only removes
  behaviours in which a writer would not wait. The proofs use any capacity.
- One restart suffices to have results of two incarnations together; `ResaleBound` is
  proved for any number.
- Three calls: two twins, and one that must not be affected by them (`app_twins`); with all three under
  one key, a call may be evicted by one twin and have its answer taken by another
  (`system_answers`).
- Three activities, two of one product: a third write meets a znode that has been set, and
  the last entry of a product has a predecessor.
- Access times are not negative. The client could send a negative one; the fresh minute counter, whose window starts at 0,
  then counts every time before 0 as one window, and `Justified` would need that exception.
- Times 30, 60, 61, 62, 91: both sides of the inclusive bound of a minute window, counted from the
  fresh counter and from a later anchor; five requests exceed each limit (1 and 2) twice. One black-listed
  entry is no user id.
- Four seconds put every request before, at, between and after both ends of a window; offers are open, end before they start,
  or are sold out, and one is scarce. Bursts of 1 make every limiter refuse.
- An access token lives 1 second and a refresh token 2, so each can expire between the two readings, and an
  access token before the refresh token it came with. Four tokens are a login and one refresh; six are two.
- 3-bit integers with requests from -6 to 6 hold every kind of pair, overflowing in either direction, and
  texts that do not fit; `SumCorrect` holds for every width.
- A length limit of 3 with two strings up to 2 is exceeded, met and undercut.
- Two requests suffice for a late proxy to meet another request; two instances of two applications whose
  names contain each other, for an event that the wrong one takes.
- Two instances, one with a configured id that can come back and one with a random id
  that leaves an entry behind; three starts let the former restart.

Where a run says `CHECK_DEADLOCK FALSE` the number of calls, requests, events or starts is bounded and the
system comes to rest, or (`app_twins`) a reader may be stuck for ever, which is the
subject of `TwinsOnly`.

Every property has a mutant in `PROJECT.json`, a changed definition (the operators commented
"Variant") under which TLC finds it violated.

### Fairness

- Goroutines: weak fairness for each, since the Go scheduler runs every runnable
  goroutine. The fairness is of the whole goroutine, never of one case of a select: a run in
  which every send times out is fair.
- `CallEnqueue` and `Lock` have strong fairness. Senders blocked on a channel are served in order,
  and a `sync.Mutex` goes to a waiter that has starved for a millisecond.
- No fairness for the start of calls, restarts, processes that come and go, signals, failures,
  connections that break, configuration changes and the environment of `SecKillApp`.
- Consul's checks have weak fairness: their interval is 15 seconds. In `ServiceLife` the check of a program whose health route
  is rate limited may turn out either way each time, so its success is not assumed.
- In `Gateways` the handlers are fair, hystrix's timer among them; nothing is assumed of the instance a proxy talks to.
- In `ConfigBus` the client library goes on delivering and the listener handling (`BusProgress`); a request to
  the config server ends, well or not.

## 5. What is proved

Every invariant a passing run checks is proved for all values of the constants, except
where the last paragraph says otherwise.

**sk-core** (`SecKillCore_proofs`)

| Theorem | Property | Argument |
|---|---|---|
| `TypeCorrect` | - | one lemma per kind of goroutine |
| `OversellSafe` | `OversellBound` | inductive as it stands, because it counts handlers past the check with the units sold: a handler that passes found `sold < Total`, and the others are at most `Handlers - 1` (lemmas `HandlerSets`, `PastHandler`, `PastStep`) |
| `SingleHandlerExact` | `NoOversell` | `OversellBound` with `Cardinality(Handlers) = 1` |
| `LimitSafe` | `LimitBound` | as for `OversellBound`, per user, counting handlers past the history check |
| `SoldoutSafe` | `SoldoutTruthful` | the property speaks of all places in memory a sold-out answer can be in; a step either learns it from a count at `Total` or moves it on, and counts only grow between restarts (`SoldoutLearned`, `SoldGrows`) |
| `ResaleSafe` | `ResaleBound` | strengthened by `EarlierSales`: what earlier incarnations sold is within one margin each |
| `SuccessesProved` | `SuccessBacked` | counts the successes at every hop (`InFlight`): each step moves at most one from a place to the next, and only the step that counts the sale makes one. Drops, failed pushes and restarts only lose some |
| `LedgersProved` | `LedgersAgree` | strengthened by finiteness (`LedgerInv`): the histories are compared as one set `Bought`, which is finite although the set of users need not be, so a purchase adds one pair and no sum over users is taken |
| `ImplementsLedger` | `LedgerSpec` | with `OversellBound` and `MarkJustified` every step is a step of the ledger or a stutter |

**sk-app and the system** (`SecKillApp_proofs`, `SecKillSystem_proofs`)

| Theorem | Property | Argument |
|---|---|---|
| `AppTypeCorrect`, `DeliveryKeyed`, `NoEntryLeaks` | -, `KeyedDelivery`, `NoLeakedEntry` | one inductive invariant `AppInv`: a reader's target has the key of its result because entries of the map only refer to calls of that key |
| `OnlyTwinsDisturb`, `ResultsAlone` | `TwinsOnly`, `OneResultPerKey` | strengthened by `Flow`: the request a call has sent, wherever it is, and the results for its key together are at most one per call, counted through all hops per key; and by `EvictInv`: a lost entry has a twin that took it |
| `SystemImplementsCore`, `SystemKeepsBounds` | - | every step of the system is a step of `SecKillCore` or a stutter, so its theorems hold end to end. `AppInv` gives the types of what sk-app puts into the lists they share |
| `SystemDelivers` | - | `AppInv` with the answers of the real sk-core in place of any |
| `TokensBackedProved` | `TokensBacked` | continues the count of `SuccessesProved` into sk-app (`Reach`): a result that is popped, delivered and received leaves one place for the next; calls need not be finite, those with a success are |
| `AnswersProved` | `AnswersTrue` | `PaidInv`: per user and product, the calls told of a success and the successes on their way are at most the purchases in the history; `HonestInv`: every refusal on its way is true of the ledgers, which only grow |

**Access limits, verdicts and lists** (`Front_proofs`)

| Theorem | Property | Argument |
|---|---|---|
| `RationsProved` | `Rations` | `SpamInv`: per address, the two counters hold how many requests fell in their window (`SecondAt`, `MinuteAt`, and `LateAt` for times out of order), so a request that was accepted was within the limit of its window, and a minute meets at most two windows |
| `JustifiedProved` | `Justified` | the same, read the other way. Hypothesis `TwoCountsPass`: the user's limits are at least 1 and 2, as one request counts twice in the same counter (`anti_spam.go` 54 and 55). With smaller values in the configuration the code refuses everybody and `Justified` is false |
| `SaleOrdered` | `SaleInOrder` | strengthened by `ToldTrue`: every verdict in the history is what `SecInfoById` gives at its time, so the order of two follows from the window |
| `PagesProved` | `PagesAgree` | `ToldTrue` with `ShownTrue`: every row shown was judged by the end of the offer sk-app has, at the time noted |

**Product list and service instances** (`Registry_proofs`)

| Theorem | Property | Argument |
|---|---|---|
| `CatalogTypeCorrect` | - | - |
| `PublishedBacked` | `EntriesBacked` | strengthened by `ListsBacked`: the list in each call's hand is backed too |
| `PublishedStays` | `NothingLost` | strengthened by `ReadersCurrent`: while the version is 0, whatever a successful read returned still covers the znode |
| `SnapshotProved` | `SnapshotOfList` | strengthened by `ReadersExtend`: while the version is 0, the list in a reader's hand begins with the znode's, so a write keeps every beginning a service may have loaded |
| `DiscoveryTypeCorrect` | - | includes that the lock is held exactly inside the critical section |
| `WatchedOnce` | `OneWatch` | strengthened by `WatchInv`: with a watch but no list, the call that started it is still inside |
| `CacheFresh` | `FreshOrOvertaken` | strengthened by `HandlingCurrent`: the list in the watch's hand is current unless there is news |

**Tokens** (`TokenGrants_proofs`)

| Theorem | Property | Argument |
|---|---|---|
| `DescentProved`, `AcceptedProved`, `EmptyProved` | `DescentSound`, `AcceptedTruthful`, `EmptyExplained` | one inductive invariant `GrantInv`: the details of every signed token are those of a login (`LoginsTrue`), and a token in an operation's hand was good when the operation took it (`HoldsGood`), which is what the second reading can rely on |

**The systems of the earlier chapters** (`Parts_proofs`)

| Theorem | Property | Argument |
|---|---|---|
| `DiffCorrect` | - | induction on the rounds of the loop of `Diff`, done as a smallest counterexample (`LoopInduction`): the recursive function exists (`LoopRuns`), and after n rounds it has collected the common characters of the first n, in order, each as often (`Gathered`) |
| `CallersProved` | `AnswersExplained` | `CallInv`: what is on the wire at each stage is the result or one of the named losses (`Faithful`, one case per stack in `ServedTrue`), and so is what each client makes of it (`AnswerExplained`); a caller the breaker refused or stopped waiting for has its failure and keeps it (`GivenUp`) |
| `OverflowsExact` | - | the two comparisons of `Overflows` refuse exactly the pairs whose sum leaves the range; their own arithmetic does not wrap |
| `SumCorrect` | `SumTruthful` | strengthened by `SumInv`: a number in flight is the exact sum of two numbers that parsed |
| `StreamsProved` | `StreamsWhole` | `StreamInv`: what was received, followed by what is still in the queues, is what was sent, position by position, for each of the three streams |
| `OneVoiceProved`, `IsolationProved` | `OneVoice`, `Isolation` | `GateInv`: a run that is still going belongs to a handler that waits for it or was given up, it writes only in its own request's name, a command is known before it is used, and who writes the map of chapter 10 holds its mutex |
| `OutlivedProved` | `OutlivedExplained` | `LifeInv`: what becomes of a registration that is on its way |
| `StalenessProved` | `StaleExplained` | inductive invariant `BusInv`, of which `Accounted` is the heart: an instance behind what was announced still has an event coming, a load under way with a newer answer, or a noted reason |

Assumptions: those named in the modules. They are finite sets of goroutines (`Handlers`,
which is not empty, `Writers`, `AppWriters`, `AppReaders`) and of products on sale (`Items`); natural numbers
for totals, limits, bursts and capacities; `Messages` positive (a client that sends nothing is not in the code);
values for "nothing" outside the sets they extend, and codes of results other than the outcomes `SecKill`
makes itself. In `SecKillSystem` the assumptions of `SecKillApp` are repeated for its instance. Nothing bounds the
sets of users, products, calls, activities, services, instances, callers, addresses, requests and events. One theorem
has a hypothesis of its own (`JustifiedProved`).

Only model-checked: all liveness (`ReadersSurvive`, `SystemReturns`, `Settles`, `CallsReturn`, `StreamsEnd`,
`Answered`, `ListedInTheEnd`, `Drained`), which is out of the prover's reach: it has no rules for fairness and
ENABLED. The three properties of the runs that expect a violation are false and have no theorem, but for
`NoOversell` with one handler.

## 6. Where the code and its comments disagree

1. `core_oversell`: `HandleSeckill` compares the count with `Total`
   (`user_skill.go:76`) and counts the sale later (91), each under a lock of its own. Two handlers sell two
   units of a product with `Total = 1`, which `ConfigProperty.go:102` documents as the total
   quantity. `OversellSafe` bounds the damage by the number of handlers less one, and
   `SingleHandlerExact` shows that one handler goroutine avoids it.
2. `catalog_update`: `syncToZk` says "create or update" (`activity.go:112`). The update passes 0 as the
   expected version, so it fails from the second one on; the error is printed and
   `CreateActivity` reports success. `NothingLost` is the other side of it: the same version test
   keeps overlapping calls from undoing each other.
3. `token_reuse`: `RefreshAccessToken` says that it removes the refresh token it has used
   (`token_service.go:241`); the store's `RemoveRefreshToken` is empty (342-344), so the token is exchanged
   again. `DescentSound` is what still holds of the tokens that come of it.

Not counted as findings, but visible in the models:

- a failed read makes `syncToZk` replace the whole list (`blind` in `SecCatalog`);
- the first call of `DiscoverServices` can overwrite a newer list of the watch (`overtaken` in `Discovery`);
- after a restart of sk-core the stock is for sale again (`ResaleBound`);
- a second call under one key can jam a `ReadHandle` goroutine (`JammedByTwin`, a part of `TwinsOnly`);
- a failed load of the first black list skips the second (`Loaded` in `AntiSpam`);
- sk-admin stores no status of an activity, so its list shows every one that has not ended as normal, sold out or not (`StatusOf` in `AdminFront`);
- in the first second of a window a sale is let through and shown as not started (`Verdict` in `SaleFront`);
- an exchanged refresh token that expires between its two readings yields an answer with neither token nor error (`EmptyExplained`);
- the exceptions `AnswersExplained` names: errors that endpoints drop, "" for a failed exchange, a stub that can never return, a failure for an exchange that the breaker did not wait for and that was served;
- the client of the server's stream may go on for ever when the stream fails in the middle (`StreamsEnd`);
- a proxy that was given up writes into a response that has been answered (`OneVoice`), and may end the process; in chapter 10 so may a read of the map of commands beside the first request for a service (`Isolation`);
- an instance whose id is drawn at random deregisters another id than the one it registered (`OutlivedExplained`);
- an event for all applications refreshes none, and an event reaches one instance, which need not be one it is for (`StaleExplained`).

## 7. What is not modelled, and why

- **Load balancing.** The programs construct `RandomLoadBalance` only: any instance may be chosen, which the models allow.
  Nothing calls the weighted round robin.
- **Logging and metrics decorators, spans and tags.** They forward every call and keep no state of a service.
- **The connection of the RPC decorator.** Each call dials one and nobody closes it; the models do not count connections.
- **User service.** Its own HTTP route is the call that `TokenGrants` makes of it over gRPC; its process is in `ServiceLife`.
- **Discovery clients of the chapters before 13.** `DiscoverServices` of chapter 6 is the ancestor of the one `Discovery` models;
  `Register` and `DeRegister` are in `ServiceLife`. `my_discover_client.go` is not used.
- **The black list goroutines of sk-app and the etcd variants.** Commented out or not called.
- **`Resume` of chapter 8.** It is filled once at start; what `/resumes` shows of it is as old as the process. Only viper is modelled.
- **Configuration loading** of chapter 13: read once, no behaviour after that; its values are constants of the models.
- **Generated protocol buffers**, which make up about a tenth of the lines, and the wrappers of database, redis and ZooKeeper clients.
- **The `main`s of ch12's `zipkin-go`.** They register nowhere and end with their listener or command; what they compute is in `SumChain` and `StringCalls`.
- **Language, web and storage examples** (chapters 3 to 5, `common`): small independent programs that show a feature each.

Abstractions to keep in mind: sk-app and sk-admin read one clock in `AdminFront`; statistics that open a circuit
are hystrix's, so a circuit is open or not at any time; a token's signature cannot be forged; text is a
model value unless a property is about it.
