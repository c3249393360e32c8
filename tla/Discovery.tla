----------------------------- MODULE Discovery ------------------------------
(***************************************************************************)
(* Service registration and discovery: what the gateway and the RPC        *)
(* clients know about the instances of one service.                        *)
(*                                                                         *)
(* A process registers with Consul when it starts and deregisters when it  *)
(* is told to stop, under an instance id that is configured or, if none    *)
(* is, drawn at random on each of the two occasions.  Consul checks its    *)
(* health and removes it when it has been critical for 30 seconds.         *)
(*                                                                         *)
(* DiscoverServices answers from instancesMap.  The first call for a       *)
(* service starts, under a mutex, a goroutine that watches it in Consul    *)
(* and stores every change; the call itself asks Consul as well and stores *)
(* the answer without looking what the watch has stored meanwhile.         *)
(*                                                                         *)
(* Consul (health checks, removal, blocking queries) is external and       *)
(* modelled as far as the code uses it.  A query of the watch that fails   *)
(* is repeated by the library: nothing happens here.                       *)
(***************************************************************************)
EXTENDS Integers, FiniteSets

CONSTANTS
    Instances,      \* instance ids of the service
    Named,          \* those that are configured
    Callers,        \* goroutines that call DiscoverServices
    MaxStarts,      \* bound on the starts of processes
    NoInstance, NoCaller

\* No list is cached.
NoList == {NoInstance}

ASSUME DiscoveryAssumption == /\ Named \subseteq Instances
                              /\ MaxStarts \in Nat
                              /\ NoInstance \notin Instances
                              /\ NoCaller \notin Callers

VARIABLES
    process,        \* state of the process behind an instance id
    health,         \* its entry in Consul
    starts,         \* processes started so far
    instancesMap,   \* the cached list of the service
    mutex,          \* the caller that holds the lock
    at,             \* where in DiscoverServices a caller is
    fetched,        \* the answer to the query of a caller
    watches,        \* watch goroutines started
    news,           \* Consul has changed since the watch asked last
    handling,       \* the list the watch is about to store
    overtaken       \* history variable: a list of the watch has been
                    \* overwritten by the older answer of a call

consul  == <<process, health, starts>>
callers == <<mutex, at, fetched>>
watch   == <<watches, news, handling>>
discoveryVars == <<consul, instancesMap, callers, watch, overtaken>>

Healths      == {"absent", "critical", "passing"}
CallerPlaces == {"idle", "locking", "locked", "asking", "storing"}
Lists        == (SUBSET Instances) \cup {NoList}

DiscoveryTypeOK ==
    /\ process \in [Instances -> {"new", "up", "down"}]
    /\ health \in [Instances -> Healths]
    /\ starts \in 0..MaxStarts
    /\ instancesMap \in Lists
    /\ mutex \in Callers \cup {NoCaller}
    /\ at \in [Callers -> CallerPlaces]
    /\ \A c \in Callers : at[c] \in {"locked", "asking", "storing"} <=> mutex = c
    /\ fetched \in [Callers -> Lists]
    /\ watches \in Nat
    /\ news \in BOOLEAN
    /\ handling \in Lists
    /\ overtaken \in BOOLEAN

DiscoveryInit ==
    /\ process = [i \in Instances |-> "new"]
    /\ health = [i \in Instances |-> "absent"]
    /\ starts = 0
    /\ instancesMap = NoList
    /\ mutex = NoCaller
    /\ at = [c \in Callers |-> "idle"]
    /\ fetched = [c \in Callers |-> NoList]
    /\ watches = 0
    /\ news = FALSE
    /\ handling = NoList
    /\ overtaken = FALSE

-----------------------------------------------------------------------------
(* Processes and Consul *)

Report(i, h) ==
    /\ health' = [health EXCEPT ![i] = h]
    /\ news' = TRUE

\* Register: a new entry is critical until its first check.  A random id is
\* never drawn twice.
Start(i) ==
    /\ process[i] = "new" \/ (process[i] = "down" /\ i \in Named)
    /\ starts < MaxStarts
    /\ starts' = starts + 1
    /\ process' = [process EXCEPT ![i] = "up"]
    /\ Report(i, "critical")
    /\ UNCHANGED <<instancesMap, callers, watches, handling, overtaken>>

\* Deregister with the configured id.
Stop(i) ==
    /\ process[i] = "up"
    /\ i \in Named
    /\ process' = [process EXCEPT ![i] = "down"]
    /\ Report(i, "absent")
    /\ UNCHANGED <<starts, instancesMap, callers, watches, handling, overtaken>>

\* The process crashes, its Deregister fails, or it draws another id than
\* the one it is registered under: the entry stays.
Vanish(i) ==
    /\ process[i] = "up"
    /\ process' = [process EXCEPT ![i] = "down"]
    /\ UNCHANGED <<health, starts, instancesMap, callers, watch, overtaken>>

CheckPass(i) ==
    /\ process[i] = "up" /\ health[i] = "critical"
    /\ Report(i, "passing")
    /\ UNCHANGED <<process, starts, instancesMap, callers, watches, handling, overtaken>>

\* Variant: registered without a health check.
NoCheck(i) == FALSE /\ UNCHANGED discoveryVars

CheckFail(i) ==
    /\ process[i] = "down" /\ health[i] = "passing"
    /\ Report(i, "critical")
    /\ UNCHANGED <<process, starts, instancesMap, callers, watches, handling, overtaken>>

\* DeregisterCriticalServiceAfter
Reap(i) ==
    /\ process[i] = "down" /\ health[i] = "critical"
    /\ Report(i, "absent")
    /\ UNCHANGED <<process, starts, instancesMap, callers, watches, handling, overtaken>>

Registered == {i \in Instances : health[i] # "absent"}
Passing    == {i \in Instances : health[i] = "passing"}

-----------------------------------------------------------------------------
(* DiscoverServices *)

Proceed(c, place) == at' = [at EXCEPT ![c] = place]

Unlock(c) == mutex' = NoCaller /\ Proceed(c, "idle")

\* Not cached (a call that finds a list returns it and changes nothing).
Miss(c) ==
    /\ at[c] = "idle"
    /\ instancesMap = NoList
    /\ Proceed(c, "locking")
    /\ UNCHANGED <<consul, instancesMap, mutex, fetched, watch, overtaken>>

Lock(c) ==
    /\ at[c] = "locking"
    /\ mutex = NoCaller
    /\ mutex' = c
    /\ Proceed(c, "locked")
    /\ UNCHANGED <<consul, instancesMap, fetched, watch, overtaken>>

\* Somebody else has stored a list while this call waited for the lock.
FoundLater(c) ==
    /\ at[c] = "locked"
    /\ instancesMap # NoList
    /\ Unlock(c)
    /\ UNCHANGED <<consul, instancesMap, fetched, watch, overtaken>>

\* Variant: the second look at the cache is missing.
StartWatchUnchecked(c) ==
    /\ at[c] = "locked"
    /\ watches' = watches + 1
    /\ news' = TRUE
    /\ Proceed(c, "asking")
    /\ UNCHANGED <<consul, instancesMap, mutex, fetched, handling, overtaken>>

\* The watch goroutine is started; its first query returns at once.
StartWatch(c) ==
    /\ at[c] = "locked"
    /\ instancesMap = NoList
    /\ watches' = watches + 1
    /\ news' = TRUE
    /\ Proceed(c, "asking")
    /\ UNCHANGED <<consul, instancesMap, mutex, fetched, handling, overtaken>>

\* client.Service without the filter for passing instances.
Ask(c) ==
    /\ at[c] = "asking"
    /\ fetched' = [fetched EXCEPT ![c] = Registered]
    /\ Proceed(c, "storing")
    /\ UNCHANGED <<consul, instancesMap, mutex, watch, overtaken>>

\* Variant: an early return that keeps the lock.
AskFailLocked(c) ==
    /\ at[c] = "asking"
    /\ instancesMap' = {}
    /\ Proceed(c, "idle")
    /\ UNCHANGED <<consul, mutex, fetched, watch, overtaken>>

\* The query fails: no instances are cached for the service.
AskFail(c) ==
    /\ at[c] = "asking"
    /\ instancesMap' = {}
    /\ overtaken' = (instancesMap \notin {NoList, {}})
    /\ Unlock(c)
    /\ UNCHANGED <<consul, fetched, watch>>

Store(c) ==
    /\ at[c] = "storing"
    /\ instancesMap' = fetched[c]
    /\ overtaken' = (instancesMap \notin {NoList, fetched[c]})
    /\ fetched' = [fetched EXCEPT ![c] = NoList]
    /\ Unlock(c)
    /\ UNCHANGED <<consul, watch>>

-----------------------------------------------------------------------------
(* plan.Run and plan.Handler *)

\* The blocking query returns.
WatchPoll ==
    /\ watches > 0
    /\ news
    /\ handling = NoList
    /\ handling' = Passing
    /\ news' = FALSE
    /\ UNCHANGED <<consul, instancesMap, callers, watches, overtaken>>

\* Variant: an empty list is ignored.
WatchStoreNonempty ==
    /\ handling # NoList
    /\ instancesMap' = IF handling = {} THEN instancesMap ELSE handling
    /\ overtaken' = FALSE
    /\ handling' = NoList
    /\ UNCHANGED <<consul, callers, watches, news>>

WatchStore ==
    /\ handling # NoList
    /\ instancesMap' = handling
    /\ overtaken' = FALSE
    /\ handling' = NoList
    /\ UNCHANGED <<consul, callers, watches, news>>

-----------------------------------------------------------------------------
ProcessStep(i) == Start(i) \/ Stop(i) \/ Vanish(i)
ConsulStep(i)  == CheckPass(i) \/ CheckFail(i) \/ Reap(i)
CallerStep(c)  == \/ Lock(c) \/ FoundLater(c) \/ StartWatch(c)
                  \/ Ask(c) \/ AskFail(c) \/ Store(c)
WatchStep      == WatchPoll \/ WatchStore

DiscoveryNext == \/ \E i \in Instances : ProcessStep(i) \/ ConsulStep(i)
                 \/ \E c \in Callers : Miss(c) \/ CallerStep(c)
                 \/ WatchStep

DiscoverySpec == DiscoveryInit /\ [][DiscoveryNext]_discoveryVars

(* Consul checks every 15 seconds and removes what stays critical; the Go  *)
(* scheduler is fair to the watch goroutine and to callers, and a          *)
(* sync.Mutex hands itself to a waiter that has starved.                   *)
DiscoveryFairness ==
    /\ \A i \in Instances : WF_discoveryVars(ConsulStep(i))
    /\ \A c \in Callers : /\ WF_discoveryVars(CallerStep(c))
                          /\ SF_discoveryVars(Lock(c))
    /\ WF_discoveryVars(WatchStep)

FairSpec == DiscoverySpec /\ DiscoveryFairness

-----------------------------------------------------------------------------
(* Properties *)

\* A service is watched by one goroutine at most, however many calls miss
\* the cache at the same time (kit_consul_client.go 94-106).
OneWatch == watches <= 1

\* Between two steps the cache never lags behind the watch without a reason:
\* when the watch has nothing left to deliver, the cached list is the set of
\* passing instances, unless the first call has overwritten a newer list of
\* the watch with its own answer (146, 154).
FreshOrOvertaken ==
    watches > 0 /\ ~news /\ handling = NoList
        => instancesMap = Passing \/ overtaken

\* When processes stop coming and going, exactly those that are up are
\* discovered in the end, also if the first query failed or a process could
\* not deregister the id it was registered under; unless the first call has
\* overwritten a newer list, which stays until Consul changes again.
Running == {i \in Instances : process[i] = "up"}

Settles == <>[](instancesMap \in {NoList, Running} \/ overtaken)

\* Every call that has missed the cache returns.
CallsReturn == \A c \in Callers : at[c] = "locking" ~> at[c] = "idle"
=============================================================================
