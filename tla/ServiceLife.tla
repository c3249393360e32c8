---------------------------- MODULE ServiceLife -----------------------------
(***************************************************************************)
(* The life of a service process, from main to the end of main, and of its *)
(* entry in Consul.  The programs of the repository share one scheme: a    *)
(* goroutine registers the instance and then listens, others serve gRPC or *)
(* wait for a signal; each sends its error on an unbuffered channel, main  *)
(* receives the first one, deregisters and returns, which ends the rest.   *)
(* They differ in the registrar, the servers and the health check, which   *)
(* is what a program is here.                                              *)
(*                                                                         *)
(* Consul is external.  A request to register is applied when it arrives,  *)
(* be its sender still there or not.                                       *)
(***************************************************************************)
EXTENDS FiniteSets

\* kit: failure ends the process with os.Exit.   boot: failure panics; the
\* id is configured or drawn at random on each occasion.   sd: failure is
\* logged only, and Consul is not told to remove what stays critical.
Program(registrar, servers, health) ==
    [registrar |-> registrar, servers |-> servers, health |-> health]

Ch6Main       == Program("kit", {"http"}, "open")
Ch6String     == Program("kit", {"http"}, "open")
Ch10String    == Program("kit", {"http"}, "open")
Ch10UseString == Program("kit", {"http"}, "open")
Ch11Main      == Program("kit", {"http"}, "open")
Ch9String     == Program("sd", {"http"}, "open")
Ch12String    == Program("sd", {"http", "grpc"}, "open")
OauthMain     == Program("boot", {"http", "grpc"}, "open")
UserMain      == Program("boot", {"http", "grpc"}, "open")
SkAdmin       == Program("boot", {"http"}, "open")
\* The health check goes through the limiter of the queries.
SkApp         == Program("boot", {"http"}, "limited")
\* Registers an address on which nothing listens.
SkCore        == Program("boot", {}, "open")
\* Registers in main and once more before it listens; serves statistics too.
Ch13Gateway   == Program("boot twice", {"http", "stream"}, "open")
Ch9Gateway    == Program("none", {"http"}, "open")
Ch10Gateway   == Program("none", {"http"}, "open")
Ch12Gateway   == Program("none", {"http"}, "open")

Programs == {Ch6Main, Ch6String, Ch10String, Ch10UseString, Ch11Main, Ch9String, Ch12String,
             OauthMain, UserMain, SkAdmin, SkApp, SkCore, Ch13Gateway, Ch9Gateway, Ch10Gateway, Ch12Gateway}

\* The goroutines, and the ids an instance may have in Consul: two when the
\* gateway draws one for each of its registrations.
Tasks == {"http", "grpc", "stream", "signal"}
Ids   == {"first", "second"}

VARIABLES program,
          sameId,       \* the process deregisters the id it registered
          mainAt, task, \* where main and the goroutines are
          request,      \* registrations on their way to Consul
          entry,        \* the entries in Consul
          deregistered, \* history: Deregister was answered without an error
          lateEntry,    \* history: a registration arrived after that
          excused       \* history: Consul removed the entry of a live process,
                        \* or its registration failed unnoticed
lifeVars == <<program, sameId, mainAt, task, request, entry, deregistered, lateEntry, excused>>

Registers == program.registrar # "none"
Twice     == program.registrar = "boot twice"
Alive     == mainAt # "gone"
SecondId  == IF Twice /\ ~sameId THEN "second" ELSE "first"

LifeInit ==
    /\ program \in Programs
    /\ sameId \in IF program.registrar \in {"boot", "boot twice"} THEN BOOLEAN ELSE {TRUE}
    /\ mainAt = IF Twice THEN "registering" ELSE "waiting"
    /\ task = [t \in Tasks |-> IF t \in program.servers \cup {"http", "signal"} THEN "new" ELSE "none"]
    /\ request = IF Twice THEN {"first"} ELSE {}
    /\ entry = [i \in Ids |-> "absent"]
    /\ deregistered = FALSE /\ lateEntry = FALSE /\ excused = FALSE

Moves(t, from, to) == Alive /\ task[t] = from /\ task' = [task EXCEPT ![t] = to]
Dies == mainAt' = "gone"

(* ------------------------------- the process --------------------------- *)

\* The goroutine of the server sends its registration and waits.
SendRegister ==
    /\ Registers /\ mainAt # "registering"
    /\ Moves("http", "new", "registering")
    /\ request' = request \cup {SecondId}
    /\ UNCHANGED <<program, sameId, mainAt, entry, deregistered, lateEntry, excused>>

\* Consul has answered whoever waits for it.
ConsulAnswered ==
    IF mainAt = "registering" THEN mainAt' = "waiting" /\ UNCHANGED task
    ELSE /\ task' = IF Alive /\ task["http"] = "registering" THEN [task EXCEPT !["http"] = "registered"] ELSE task
         /\ UNCHANGED mainAt
Register(i) ==
    /\ i \in request /\ request' = request \ {i}
    /\ entry' = [entry EXCEPT ![i] = "critical"]
    /\ lateEntry' = (lateEntry \/ deregistered)
    /\ ConsulAnswered
    /\ UNCHANGED <<program, sameId, deregistered, excused>>

\* Consul refuses, or its answer is lost after the fact.
RegisterFails(i) ==
    /\ i \in request /\ request' = request \ {i}
    /\ \E applied \in BOOLEAN :
          /\ entry' = IF applied THEN [entry EXCEPT ![i] = "critical"] ELSE entry
          /\ lateEntry' = (lateEntry \/ (applied /\ deregistered))
    /\ IF program.registrar = "sd"
       THEN ConsulAnswered /\ excused' = TRUE
       ELSE Dies /\ UNCHANGED <<task, excused>>
    /\ UNCHANGED <<program, sameId, deregistered>>

\* ListenAndServe, net.Listen and Serve: the port is free or it is not.
Listen(t) ==
    /\ t \in program.servers
    /\ \E to \in {"listening", "sending"} :
          IF t = "http" /\ Registers THEN Moves(t, "registered", to)
          ELSE mainAt # "registering" /\ Moves(t, "new", to)
    /\ UNCHANGED <<program, sameId, mainAt, request, entry, deregistered, lateEntry, excused>>

Signal ==
    /\ mainAt # "registering" /\ Moves("signal", "new", "sending")
    /\ UNCHANGED <<program, sameId, mainAt, request, entry, deregistered, lateEntry, excused>>

\* <-errChan
MainReceives(t) ==
    /\ mainAt = "waiting" /\ Moves(t, "sending", "done")
    /\ mainAt' = IF Registers THEN "leaving" ELSE "gone"
    /\ UNCHANGED <<program, sameId, request, entry, deregistered, lateEntry, excused>>

\* Variant: a fresh random id is deregistered whatever the configuration.
DeregisterOther ==
    /\ mainAt = "leaving" /\ Dies
    /\ deregistered' = TRUE
    /\ UNCHANGED <<program, sameId, task, request, entry, lateEntry, excused>>
\* DeRegister; also with the id of nobody Consul may answer without error.
Deregister ==
    /\ mainAt = "leaving" /\ Dies
    /\ \E ok \in BOOLEAN :
          /\ deregistered' = ok
          /\ entry' = IF ok /\ sameId THEN [entry EXCEPT !["first"] = "absent"] ELSE entry
    /\ UNCHANGED <<program, sameId, task, request, lateEntry, excused>>

Killed == /\ Alive /\ Dies
         /\ UNCHANGED <<program, sameId, task, request, entry, deregistered, lateEntry, excused>>

(* --------------------------------- Consul ------------------------------ *)

Healthy == Alive /\ task["http"] = "listening"

CheckPass(i) == /\ entry[i] = "critical" /\ Healthy
                /\ entry' = [entry EXCEPT ![i] = "passing"]
                /\ UNCHANGED <<program, sameId, mainAt, task, request, deregistered, lateEntry, excused>>
CheckFail(i) == /\ entry[i] = "passing" /\ (Healthy => program.health = "limited")
                /\ entry' = [entry EXCEPT ![i] = "critical"]
                /\ UNCHANGED <<program, sameId, mainAt, task, request, deregistered, lateEntry, excused>>
\* Variant: no check asks for the removal.
ReapNever(i) == i \notin Ids /\ UNCHANGED lifeVars
\* DeregisterCriticalServiceAfter
Reap(i) == /\ program.registrar # "sd"
           /\ entry[i] = "critical" /\ (Healthy => program.health = "limited")
           /\ entry' = [entry EXCEPT ![i] = "absent"]
           /\ excused' = (excused \/ Alive)
           /\ UNCHANGED <<program, sameId, mainAt, task, request, deregistered, lateEntry>>

LifeProgress == \/ SendRegister \/ (\E i \in Ids : Register(i) \/ RegisterFails(i))
                \/ (\E t \in Tasks : Listen(t) \/ MainReceives(t)) \/ Deregister
\* What Consul does of necessity: the checks of a limited program may turn
\* out either way each time.
ConsulTells(i) == \/ ~Healthy /\ (CheckFail(i) \/ Reap(i))
                  \/ program.health = "open" /\ CheckPass(i)
LifeNext == \/ LifeProgress \/ Signal \/ Killed
            \/ \E i \in Ids : CheckPass(i) \/ CheckFail(i) \/ Reap(i)
LifeSpec == /\ LifeInit /\ [][LifeNext]_lifeVars
            /\ WF_lifeVars(LifeProgress) /\ WF_lifeVars(\E i \in Ids : ConsulTells(i))

(* ------------------------------ properties ----------------------------- *)

\* An entry outlives a process that has been deregistered without an error
\* for two reasons only: the id was drawn at random, or the registration was
\* still on its way when the signal came (discover_init.go:75-90, and the
\* goroutine that registers beside the one that waits for a signal).
OutlivedExplained ==
    \A i \in Ids : deregistered /\ entry[i] # "absent" => ~sameId \/ lateEntry

\* In the end Consul is right about the process, whatever the order in which
\* registrations, failures and signals came: a process that is gone is not
\* listed, except by the registrar that leaves the removal to nobody, and
\* one that serves is listed as passing, unless its registration failed
\* unnoticed or its entry was removed while its health check was refused.
ListedInTheEnd ==
    <>[](\A i \in Ids :
            /\ ~Alive /\ program.registrar # "sd" => entry[i] = "absent"
            /\ Healthy /\ Registers /\ i = SecondId /\ program.health = "open" => entry[i] = "passing" \/ excused)
=============================================================================
