------------------------------ MODULE Gateways ------------------------------
(***************************************************************************)
(* The gateways of chapters 9, 10, 12 and 13.  All of them pass a request  *)
(* for /service/path to an instance of the service through a reverse       *)
(* proxy.  Those of chapters 9 and 12 run the proxy in the handler; those  *)
(* of chapters 10 and 13 run it in a goroutine of hystrix: the handler     *)
(* waits for its end or for the time limit, whichever comes first, and     *)
(* answers by the fallback if the run failed, was refused or is late.  A   *)
(* run that is late goes on, with the response writer of a request that    *)
(* the handler is answering or has answered already.                       *)
(***************************************************************************)
EXTENDS Naturals, Sequences

CONSTANT Requests

ASSUME RequestsAssumption == "free" \notin Requests

VARIABLES kind,         \* which gateway this is
          pc,           \* control state of each request's handler
          run,          \* control state of each request's proxy run
          late,         \* the handler stopped waiting for the run
          out,          \* what was written to each response: parts [by, of]
          known,        \* the service's entry in hystrixs or svcMap
          configured,   \* how often its command was configured
          lock,         \* holder of hystrixsMutex, or "free"
          alive         \* the process has not crashed
gateVars == <<kind, pc, run, late, out, known, configured, lock, alive>>

Breakers == {"ch10", "ch13"}
Paths    == {"none", "root", "health", "permitted", "service"}
Voice(by, r) == [by |-> by, of |-> r]

Engaged(r) == pc[r] \notin {"new", "done"}
Say(r, by) == out' = [out EXCEPT ![r] = Append(@, Voice(by, r))]
Goto(r, l) == pc' = [pc EXCEPT ![r] = l]

GateInit ==
    /\ kind \in {"ch9", "ch12"} \cup Breakers
    /\ pc = [r \in Requests |-> "new"]
    /\ run = [r \in Requests |-> "none"]
    /\ late = [r \in Requests |-> FALSE]
    /\ out = [r \in Requests |-> <<>>]
    /\ known = FALSE /\ configured = 0 /\ lock = "free" /\ alive = TRUE

(* ------------------------------- arrival ------------------------------- *)

\* ServeHTTP of a plain reverse proxy.
PlainArrive(r) == /\ kind \in {"ch9", "ch12"}
                  /\ Goto(r, "proxying") /\ run' = [run EXCEPT ![r] = "discover"]
                  /\ UNCHANGED out

\* ServeHTTP of HystrixHandler up to the map of commands.
Ch10Arrive(r, path) ==
    /\ kind = "ch10"
    /\ CASE path = "none" -> Goto(r, "done") /\ UNCHANGED out
         [] path = "root" -> Goto(r, "done") /\ Say(r, "handler")
         [] OTHER         -> Goto(r, "lookup") /\ UNCHANGED out
    /\ UNCHANGED run

\* The paths of AuthPermitConfig need no token.
Match(path) == path = "permitted"

\* ServeHTTP of HystrixRouter up to the filter.
Ch13Arrive(r, path) ==
    /\ kind = "ch13"
    /\ CASE path = "health"    -> Goto(r, "done") /\ Say(r, "handler")
         [] path = "none"      -> Goto(r, "done") /\ Say(r, "handler")
         [] Match(path)        -> Goto(r, "lookup") /\ UNCHANGED out
         [] OTHER              -> Goto(r, "filter") /\ UNCHANGED out
    /\ UNCHANGED run

Arrive(r) == /\ pc[r] = "new"
             /\ \/ PlainArrive(r)
                \/ \E path \in Paths : Ch10Arrive(r, path) \/ Ch13Arrive(r, path)
             /\ UNCHANGED <<kind, late, known, configured, lock, alive>>

\* The RPC decorator: every way the call can go that gives no answer is an
\* error, the one of hystrix among them.
DecoratorInvoke == {"no instance", "no grpc port", "not dialled", "call failed", "refused", "late",
                    "answered"}
CheckToken(o) == IF o = "answered" THEN "response" ELSE "error"

\* preFilter for a path that is not permitted to everybody: a header and an
\* answer to CheckToken.
PreFilter(header, o) == header /\ CheckToken(o) = "response"
Filter(r) ==
    /\ pc[r] = "filter"
    /\ \E header \in BOOLEAN, o \in DecoratorInvoke :
          IF PreFilter(header, o) THEN Goto(r, "lookup") /\ UNCHANGED out
          ELSE Goto(r, "done") /\ Say(r, "handler")
    /\ UNCHANGED <<kind, run, late, known, configured, lock, alive>>

(* ------------------------- the map of commands ------------------------- *)

\* The first read of the map.  In chapter 10 it takes no lock: a read while
\* another request writes may end the process.
Lookup(r) ==
    /\ pc[r] = "lookup"
    /\ Goto(r, IF known THEN "do" ELSE "configure")
    /\ alive' \in {TRUE, ~(kind = "ch10" /\ \E s \in Requests : pc[s] = "store")}
    /\ UNCHANGED <<kind, run, late, out, known, configured, lock>>

\* Chapter 10: the second read under the mutex, then ConfigureCommand.
\* Variant: the lock is there, the second read is not.
Ch10ConfigureUnchecked(r) ==
    /\ kind = "ch10" /\ pc[r] = "configure" /\ lock = "free"
    /\ Goto(r, "store") /\ configured' = configured + 1 /\ lock' = r
    /\ UNCHANGED <<kind, run, late, out, known, alive>>
Ch10Configure(r) ==
    /\ kind = "ch10" /\ pc[r] = "configure" /\ lock = "free"
    /\ IF known THEN Goto(r, "do") /\ UNCHANGED <<configured, lock>>
       ELSE Goto(r, "store") /\ configured' = configured + 1 /\ lock' = r
    /\ UNCHANGED <<kind, run, late, out, known, alive>>
\* Chapter 13: a sync.Map and no second read.
Ch13Configure(r) ==
    /\ kind = "ch13" /\ pc[r] = "configure"
    /\ Goto(r, "store") /\ configured' = configured + 1
    /\ UNCHANGED <<kind, run, late, out, known, lock, alive>>

Store(r) ==
    /\ pc[r] = "store"
    /\ known' = TRUE /\ Goto(r, "do")
    /\ lock' = IF lock = r THEN "free" ELSE lock
    /\ UNCHANGED <<kind, run, late, out, configured, alive>>

(* ------------------------- hystrix and the handler --------------------- *)

\* hystrix.Do starts the run, or refuses it: open circuit, no ticket.
Do(r) ==
    /\ pc[r] = "do"
    /\ \/ Goto(r, "waiting") /\ run' = [run EXCEPT ![r] = "discover"]
       \/ Goto(r, "fallback") /\ UNCHANGED run
    /\ UNCHANGED <<kind, late, out, known, configured, lock, alive>>

Running(r) == run[r] \in {"discover", "connect", "body"}

\* Variant: the time limit is looked at when the run has ended.
TimeoutAfterRun(r) ==
    /\ pc[r] = "waiting" /\ run[r] \in {"ok", "failed"}
    /\ Goto(r, "fallback") /\ late' = [late EXCEPT ![r] = TRUE]
    /\ UNCHANGED <<kind, run, out, known, configured, lock, alive>>
Timeout(r) ==
    /\ pc[r] = "waiting" /\ Running(r)
    /\ Goto(r, "fallback") /\ late' = [late EXCEPT ![r] = TRUE]
    /\ UNCHANGED <<kind, run, out, known, configured, lock, alive>>

RunEnded(r) ==
    /\ pc[r] = "waiting" /\ run[r] \in {"ok", "failed"}
    /\ Goto(r, IF run[r] = "ok" THEN "done" ELSE "fallback")
    /\ UNCHANGED <<kind, run, late, out, known, configured, lock, alive>>

\* Do returned an error: the handler writes the status and the message.
Fallback(r) ==
    /\ pc[r] = "fallback"
    /\ Say(r, "handler") /\ Goto(r, "done")
    /\ UNCHANGED <<kind, run, late, known, configured, lock, alive>>

(* ------------------------------- the proxy ----------------------------- *)

\* A step of the run that fails before a byte of the answer is written.
\* The breakers hand the error to hystrix, the plain proxy answers 502.
RunFails(r) ==
    /\ run' = [run EXCEPT ![r] = "failed"]
    /\ IF kind \in Breakers THEN UNCHANGED <<pc, out>>
       ELSE Say(r, "proxy") /\ Goto(r, "done")

\* A part of the answer goes to the response writer.  Once the handler has
\* returned, that writer may be anybody's: the part is lost, or goes to a
\* response that is open, or the write ends the process.  While the handler
\* writes the fallback both use one header map, which may end it too.
Write(r) ==
    IF Engaged(r) THEN Say(r, "proxy") /\ alive' \in {TRUE, ~late[r]}
    ELSE \/ UNCHANGED <<out, alive>>
         \/ \E s \in Requests : Engaged(s) /\ out' = [out EXCEPT ![s] = Append(@, Voice("proxy", r))]
                                /\ UNCHANGED alive
         \/ alive' = FALSE /\ UNCHANGED out

\* The directors of chapters 9 and 12 ask consul themselves and leave a
\* request they can do nothing for as it is; the transport refuses it.
Ch9Director(found)  == IF found THEN "connect" ELSE "failed"
Ch12Director(found) == IF found THEN "connect" ELSE "failed"
\* Chapters 10 and 13 look for an instance before they build the proxy.
Ch10Select(found) == IF found THEN "connect" ELSE "failed"
Ch13Select(found) == IF found THEN "connect" ELSE "failed"
Discovered(found) == CASE kind = "ch9"  -> Ch9Director(found)
                       [] kind = "ch12" -> Ch12Director(found)
                       [] kind = "ch10" -> Ch10Select(found)
                       [] kind = "ch13" -> Ch13Select(found)

Discover(r) ==
    /\ run[r] = "discover"
    /\ \E found \in BOOLEAN :
          IF Discovered(found) = "failed" THEN RunFails(r)
          ELSE run' = [run EXCEPT ![r] = "connect"] /\ UNCHANGED <<pc, out>>
    /\ UNCHANGED <<kind, late, known, configured, lock, alive>>

\* The instance cannot be reached, or the context of a request whose handler
\* has returned is cancelled.
ConnectFails(r) ==
    /\ run[r] = "connect"
    /\ RunFails(r)
    /\ UNCHANGED <<kind, late, known, configured, lock, alive>>

\* The head of the answer arrives and is copied.
CopyHead(r) ==
    /\ run[r] = "connect"
    /\ run' = [run EXCEPT ![r] = "body"]
    /\ Write(r)
    /\ UNCHANGED <<kind, pc, late, known, configured, lock>>

CopyBody(r) ==
    /\ run[r] = "body"
    /\ run' = [run EXCEPT ![r] = "ok"]
    /\ Write(r)
    /\ IF kind \in Breakers THEN UNCHANGED pc ELSE Goto(r, "done")
    /\ UNCHANGED <<kind, late, known, configured, lock>>

\* Copying the body breaks off: the proxy panics with ErrAbortHandler.  The
\* server recovers that in a handler and closes the connection; nobody
\* recovers it in the goroutine of hystrix.
\* Variant: a broken copy is reported to hystrix like a refused connection.
BodyBreaksReported(r) ==
    /\ run[r] = "body"
    /\ run' = [run EXCEPT ![r] = "failed"]
    /\ IF kind \in Breakers THEN UNCHANGED pc ELSE Goto(r, "done")
    /\ UNCHANGED <<kind, late, out, known, configured, lock, alive>>
BodyBreaks(r) ==
    /\ run[r] = "body"
    /\ run' = [run EXCEPT ![r] = "failed"]
    /\ IF kind \in Breakers THEN alive' = FALSE /\ UNCHANGED pc
       ELSE Goto(r, "done") /\ UNCHANGED alive
    /\ UNCHANGED <<kind, late, out, known, configured, lock>>

ProxyStep(r)   == Discover(r) \/ ConnectFails(r) \/ CopyHead(r) \/ CopyBody(r) \/ BodyBreaks(r)
HandlerStep(r) == \/ Filter(r) \/ Lookup(r) \/ Ch10Configure(r) \/ Ch13Configure(r) \/ Store(r)
                  \/ Do(r) \/ Timeout(r) \/ RunEnded(r) \/ Fallback(r)
GateNext == alive /\ \E r \in Requests : Arrive(r) \/ HandlerStep(r) \/ ProxyStep(r)
\* Handlers are scheduled, Do's timer fires and a call of CheckToken ends.
\* Nothing is assumed of the instances a run talks to.
GateFairness == WF_gateVars(alive /\ \E r \in Requests : HandlerStep(r))
GateSpec == GateInit /\ [][GateNext]_gateVars /\ GateFairness

(* ------------------------------ properties ----------------------------- *)

Speaks(r, v) == \E i \in DOMAIN out[r] : out[r][i] = v
Foreign(r)   == {s \in Requests \ {r} : Speaks(r, Voice("proxy", s))}

\* A response is one voice's and about its own request.  Only a run that was
\* given up may add to what the handler answers, or write into a response
\* of another request, and it takes a breaker for that (hystrix.Do of
\* router.go:110 and hystrix_handler.go:73 returns while the proxy goes on).
OneVoice ==
    \A r \in Requests :
        /\ Speaks(r, Voice("proxy", r)) /\ Speaks(r, Voice("handler", r)) => late[r] /\ kind \in Breakers
        /\ \A s \in Foreign(r) : late[s] /\ pc[s] = "done" /\ kind \in Breakers

\* The run of r was given up or its answer broke off: it may end the process.
Perilous(r) == \/ run[r] = "failed" /\ Len(out[r]) > 0
               \/ run[r] \in {"body", "ok", "failed"} /\ late[r]

\* Two requests on the map at once, one of them writing.
Clash(r, s) == pc[r] = "configure" /\ pc[s] = "store" /\ lock = s /\ ~known

\* A request of a plain gateway cannot end the process, and without a run
\* that was given up or a broken answer no request can end that of chapter
\* 13.  In chapter 10 the unlocked read of the map can do it too, but only
\* beside the first request for a service, which is configuring its command
\* (there is one service here).  A command is configured before it is used,
\* in chapter 10 just once (hystrix_handler.go:60-71, router.go:103-107).
Isolation ==
    /\ kind \in {"ch9", "ch12"} => alive
    /\ ~alive => \/ \E r \in Requests : Perilous(r)
                 \/ kind = "ch10" /\ \E r, s \in Requests : Clash(r, s)
    /\ \A r \in Requests : pc[r] \in {"do", "waiting", "fallback"} => configured > 0
    /\ kind = "ch10" => configured <= 1

\* Behind a breaker every request that arrived is answered, whatever the
\* instance does, unless the process ends.
Answered == \A r \in Requests :
               (kind \in Breakers /\ Engaged(r)) ~> (pc[r] = "done" \/ ~alive)
=============================================================================
