----------------------------- MODULE ConfigBus ------------------------------
(***************************************************************************)
(* Chapter 8: instances load their configuration from a config server when *)
(* they start and again for every refresh event of the message bus.  The   *)
(* init function starts the listener before it has loaded anything, so the *)
(* first load and those of the listener run side by side and meet in the   *)
(* one viper.  All instances of all applications consume from one queue:   *)
(* an event reaches one of them, whoever it is for.                        *)
(*                                                                         *)
(* An event carries a destination: an application, or Everybody, whose     *)
(* wildcard contains the name of no application.                           *)
(*                                                                         *)
(* A configuration is known by its version; 0 is the empty one, which      *)
(* ReadConfig leaves behind when the answer does not parse.                *)
(***************************************************************************)
EXTENDS Integers, Sequences, FiniteSets

CONSTANTS Nodes, Apps, AppOf,       \* instances and the application of each
          Contained,                \* the applications whose name an application's contains
          Everybody,                \* the destination of an event for all
          MaxVersion, MaxEvents

ASSUME BusAssumption == /\ AppOf \in [Nodes -> Apps]
                        /\ Contained \in [Apps -> SUBSET Apps] /\ \A a \in Apps : a \in Contained[a]
                        /\ Everybody \notin Apps
                        /\ MaxVersion \in Nat /\ MaxEvents \in Nat

VARIABLES version,      \* of the config server
          events,       \* events published so far
          busQueue,     \* the queue: the destination of each event
          phase,        \* loading, loaded, up or dead
          listener,     \* dialing, consuming or closed
          first,        \* what the load of init has fetched
          inbox,        \* delivered and not acknowledged; the head is handled
          again,        \* what the reload for the head has fetched
          viper,        \* the configuration an instance has
          announced,    \* history: the version last announced to an app
          missed        \* history: why a node is behind that version, if it is
busVars == <<version, events, busQueue, phase, listener, first, inbox, again, viper, announced, missed>>

NoFetch == -1
No == "no reason"
Means(d, n) == d \in {Everybody, AppOf[n]}

\* init starts the listener beside the first load; how far apart they and
\* the nodes get is left to the steps.
BusInit ==
    /\ version = 1 /\ events = 0 /\ busQueue = <<>>
    /\ phase = [n \in Nodes |-> "loading"] /\ listener = [n \in Nodes |-> "dialing"]
    /\ first = [n \in Nodes |-> NoFetch] /\ again = [n \in Nodes |-> NoFetch]
    /\ inbox = [n \in Nodes |-> <<>>]
    /\ viper = [n \in Nodes |-> 0]
    /\ announced = [a \in Apps |-> 0]
    /\ missed = [n \in Nodes |-> No]

Runs(n) == phase[n] \in {"loading", "loaded", "up"}

\* Variant: only the first answer is read into viper.
LoadOnce(n, v) == viper' = [viper EXCEPT ![n] = IF @ = 0 THEN v ELSE @]
\* A load ends: what was fetched replaces what viper has, be it older.  There
\* is no reason to be behind any more when it is what was last announced.
Load(n, v) == viper' = [viper EXCEPT ![n] = v]
First(why, next) == IF why = No THEN next ELSE why
Reasons(n, v) == [missed EXCEPT ![n] = CASE v >= announced[AppOf[n]] -> No
                                         [] v < viper[n] -> First(@, "overtaken")
                                         [] OTHER -> @]

(* ------------------------ config server and broker --------------------- *)

Change == /\ version < MaxVersion
          /\ version' = version + 1
          /\ UNCHANGED <<events, busQueue, phase, listener, first, inbox, again, viper, announced, missed>>

\* The queue exists from the first consumer on; before that an event is lost.
Declared == \E n \in Nodes : listener[n] \in {"consuming", "closed"}
Announce(d) ==
    /\ events < MaxEvents /\ events' = events + 1
    /\ announced' = [a \in Apps |-> IF d \in {Everybody, a} THEN version ELSE announced[a]]
    /\ busQueue' = IF Declared THEN Append(busQueue, d) ELSE busQueue
    /\ missed' = [n \in Nodes |-> IF ~Declared /\ Means(d, n) /\ Runs(n) THEN First(missed[n], "lost") ELSE missed[n]]
    /\ UNCHANGED <<version, phase, listener, first, inbox, again, viper>>

Deliver(n) ==
    /\ Runs(n) /\ listener[n] = "consuming" /\ busQueue # <<>>
    /\ inbox' = [inbox EXCEPT ![n] = Append(@, Head(busQueue))]
    /\ busQueue' = Tail(busQueue)
    /\ UNCHANGED <<version, events, phase, listener, first, again, viper, announced, missed>>

\* The connection breaks: the broker takes back what is not acknowledged,
\* handle ends, and nobody dials again.
ConnectionLost(n) ==
    /\ Runs(n) /\ listener[n] = "consuming"
    /\ listener' = [listener EXCEPT ![n] = "closed"]
    /\ busQueue' = inbox[n] \o busQueue
    /\ inbox' = [inbox EXCEPT ![n] = <<>>]
    /\ UNCHANGED <<version, events, phase, first, again, viper, announced, missed>>

(* --------------------------------- init -------------------------------- *)

\* log.Fatal, the panic of sub without the key it looks for, or the runtime
\* that finds viper's map read while a reload writes it: what the node had
\* not acknowledged returns to the queue.
Fatal(n) ==
    /\ \/ listener[n] = "dialing" /\ Runs(n)
       \/ phase[n] = "loading" /\ first[n] = NoFetch
       \/ phase[n] = "loaded" /\ viper[n] = 0
       \/ phase[n] = "up" /\ again[n] # NoFetch
    /\ phase' = [phase EXCEPT ![n] = "dead"]
    /\ busQueue' = inbox[n] \o busQueue
    /\ inbox' = [inbox EXCEPT ![n] = <<>>]
    /\ again' = [again EXCEPT ![n] = NoFetch]
    /\ viper' = [viper EXCEPT ![n] = 0] /\ missed' = [missed EXCEPT ![n] = No]
    /\ first' = [first EXCEPT ![n] = NoFetch]
    /\ UNCHANGED <<version, events, listener, announced>>

InitFetch(n) ==
    /\ phase[n] = "loading" /\ first[n] = NoFetch
    /\ first' = [first EXCEPT ![n] = version]
    /\ UNCHANGED <<version, events, busQueue, phase, listener, inbox, again, viper, announced, missed>>
InitLoad(n) ==
    /\ phase[n] = "loading" /\ first[n] # NoFetch
    /\ phase' = [phase EXCEPT ![n] = "loaded"] /\ first' = [first EXCEPT ![n] = NoFetch]
    /\ Load(n, first[n]) /\ missed' = Reasons(n, first[n])
    /\ UNCHANGED <<version, events, busQueue, listener, inbox, again, announced>>
\* Resume is filled once, from what viper has at this moment.
Sub(n) ==
    /\ phase[n] = "loaded" /\ viper[n] # 0
    /\ phase' = [phase EXCEPT ![n] = "up"]
    /\ UNCHANGED <<version, events, busQueue, listener, first, inbox, again, viper, announced, missed>>

(* ----------------------------- the listener ---------------------------- *)

NewConsumer(n) ==
    /\ Runs(n) /\ listener[n] = "dialing"
    /\ listener' = [listener EXCEPT ![n] = "consuming"]
    /\ UNCHANGED <<version, events, busQueue, phase, first, inbox, again, viper, announced, missed>>

Handling(n) == Runs(n) /\ inbox[n] # <<>> /\ again[n] = NoFetch
Ack(n) == inbox' = [inbox EXCEPT ![n] = Tail(@)]

\* The destination contains the consumer tag, which is the application.
Names(n) == Head(inbox[n]) \in Apps /\ AppOf[n] \in Contained[Head(inbox[n])]

\* Nobody but this node sees the event at its head.
Others(n, seen) == [m \in Nodes |-> IF m # n /\ Runs(m) /\ Means(Head(inbox[n]), m) THEN First(seen[m], "taken") ELSE seen[m]]

\* Somebody else's event, or one for everybody: acknowledged, and lost for
\* whom it means.
Ignore(n) ==
    /\ Handling(n) /\ ~Names(n) /\ Ack(n)
    /\ missed' = Others(n, [missed EXCEPT ![n] = IF Head(inbox[n]) = Everybody THEN First(@, "not named") ELSE @])
    /\ UNCHANGED <<version, events, busQueue, phase, listener, first, again, viper, announced>>

Refetch(n) ==
    /\ Handling(n) /\ Names(n)
    /\ again' = [again EXCEPT ![n] = version]
    /\ UNCHANGED <<version, events, busQueue, phase, listener, first, inbox, viper, announced, missed>>

\* Variant: an event whose reload failed goes back to the queue.
ReloadFailsKept(n) ==
    /\ Handling(n) /\ Names(n) /\ Ack(n)
    /\ \E v \in {0, viper[n]} : viper' = [viper EXCEPT ![n] = v]
    /\ busQueue' = Append(busQueue, Head(inbox[n]))
    /\ missed' = [missed EXCEPT ![n] = First(@, "failed")]
    /\ UNCHANGED <<version, events, phase, listener, first, again, announced>>
\* The request fails and viper keeps what it has, or the answer does not
\* parse and viper is left empty; the event is acknowledged all the same.
ReloadFails(n) ==
    /\ Handling(n) /\ Names(n) /\ Ack(n)
    /\ \E v \in {0, viper[n]} : viper' = [viper EXCEPT ![n] = v]
    /\ missed' = Others(n, [missed EXCEPT ![n] = First(@, "failed")])
    /\ UNCHANGED <<version, events, busQueue, phase, listener, first, again, announced>>

\* The reload ends; after a lost connection there is nothing to acknowledge.
Reload(n) ==
    /\ Runs(n) /\ again[n] # NoFetch
    /\ again' = [again EXCEPT ![n] = NoFetch]
    /\ Load(n, again[n])
    /\ IF inbox[n] = <<>> THEN missed' = Reasons(n, again[n]) /\ UNCHANGED inbox
       ELSE missed' = Others(n, Reasons(n, again[n])) /\ Ack(n)
    /\ UNCHANGED <<version, events, busQueue, phase, listener, first, announced>>

BusProgress(n) == Deliver(n) \/ Ignore(n) \/ Refetch(n) \/ ReloadFails(n) \/ Reload(n)
BusNext == \/ Change \/ (\E d \in Apps \cup {Everybody} : Announce(d))
           \/ \E n \in Nodes : \/ Fatal(n) \/ InitFetch(n) \/ InitLoad(n) \/ Sub(n)
                               \/ NewConsumer(n) \/ ConnectionLost(n) \/ BusProgress(n)
BusSpec == BusInit /\ [][BusNext]_busVars /\ WF_busVars(\E n \in Nodes : BusProgress(n))

(* ------------------------------ properties ----------------------------- *)

\* A node that listens and has nothing left to do has the version that was
\* last announced to its application, or one of five things happened: the
\* event came before there was a queue, another node took it, it was for
\* everybody and so named nobody, its reload failed, or of two loads the one
\* with the older answer ended last (conf.go:32-71, events.go:129-144).
Awaits(n) == \/ \E k \in DOMAIN busQueue : Means(busQueue[k], n)
             \/ \E m \in Nodes : \E k \in DOMAIN inbox[m] : Means(inbox[m][k], n)
StaleExplained ==
    \A n \in Nodes :
        phase[n] = "up" /\ listener[n] = "consuming" /\ ~Awaits(n) /\ again[n] = NoFetch
            => viper[n] >= announced[AppOf[n]] \/ missed[n] # No

\* Every event is acknowledged in the end, whoever it is for and whether its
\* reload succeeds, as long as somebody listens (events.go:129-144).
Drained ==
    []<>(\/ busQueue = <<>> /\ \A n \in Nodes : inbox[n] = <<>>
         \/ \A n \in Nodes : ~Runs(n) \/ listener[n] # "consuming")
=============================================================================
