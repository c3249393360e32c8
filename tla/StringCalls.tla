---------------------------- MODULE StringCalls ----------------------------
(***************************************************************************)
(* The string services of chapters 6, 7, 9, 10 and 12 and the clients that *)
(* call them.  Every chapter has its own copy of the layers: a service     *)
(* (Concat, Diff, HealthCheck), a logging middleware, an endpoint, a       *)
(* transport, and for some a client stub.  One operator stands for each    *)
(* layer of each copy, so that a difference between copies is a difference *)
(* between two definitions.                                                *)
(*                                                                         *)
(* A string is a sequence over Chars; the text of an error is a sequence   *)
(* of one token outside Chars.  A layer returns [val, err]; the wire       *)
(* carries [code, val] with code                                           *)
(*   ok       a response            fault  a response that is an error     *)
(*   missing  no such route         broken the exchange failed             *)
(* and the caller ends with [kind, val]: a value, a failure it can see, or *)
(* a crash (a failed type assertion, a nil reply).                         *)
(***************************************************************************)
EXTENDS Naturals, Sequences, FiniteSets

CONSTANTS Chars,        \* the characters of strings
          StrMaxSize,   \* 1024 in the code
          MaxLen        \* bound on the arguments a caller passes

ASSUME StringAssumption == StrMaxSize \in Nat /\ MaxLen \in Nat

VARIABLES call, stage, wire, answer,
          inbound       \* what became of the call in front of UseStringService
callVars == <<call, stage, wire, answer, inbound>>

Strings == UNION {[1 .. n -> Chars] : n \in 0 .. MaxLen}
Characters(s) == {s[i] : i \in DOMAIN s}
Stacks  == {"ch6", "ch9", "ch10", "use", "basic", "grpc7", "stream7", "kit7", "kit12", "http12", "svc1"}
Good(v) == [val |-> v, err |-> "none"]
Bad(e)  == [val |-> <<>>, err |-> e]
Text(e) == <<e>>

(* ----------------------------- services -------------------------------- *)

Concat(a, b) == IF Len(a) + Len(b) > StrMaxSize THEN Bad("ErrMaxSize") ELSE Good(a \o b)

\* The characters of the shorter string, of b when they are equally long,
\* that the other one contains.  res[n]: collected after n rounds of the loop.
Common(a, b) ==
    LET res[n \in 0 .. Len(b)] ==
            IF n = 0 THEN <<>>
            ELSE IF b[n] \in Characters(a) THEN Append(res[n - 1], b[n])
            ELSE res[n - 1]
    IN  res[Len(b)]
\* Variant: keeps b as the one scanned whatever the lengths are.
DiffOneSided(a, b) == Good(Common(a, b))
Diff(a, b) == Good(IF Len(a) >= Len(b) THEN Common(a, b) ELSE Common(b, a))

HealthCheck == Good(<<"status">>)

StringService(op, a, b) == CASE op = "Concat" -> Concat(a, b)
                             [] op = "Diff"   -> Diff(a, b)
                             [] op = "Health" -> HealthCheck

Ch6Logging(op, a, b)    == StringService(op, a, b)
Ch9Service(op, a, b)    == StringService(op, a, b)
Ch9Logging(op, a, b)    == Ch9Service(op, a, b)
Ch10Service(op, a, b)   == StringService(op, a, b)
Ch12Service(op, a, b)   == StringService(op, a, b)
Ch12Logging(op, a, b)   == Ch12Service(op, a, b)
Kit7Service(op, a, b)   == StringService(op, a, b)
Kit7Logging(op, a, b)   == Kit7Service(op, a, b)
BasicService(op, a, b)  == StringService(op, a, b)
\* The gRPC services without go-kit answer "" where the others return ErrMaxSize.
Grpc7Service(op, a, b)  == Good(StringService(op, a, b).val)
Stream7Concat(a, b)     == Good(Concat(a, b).val)
Svc1Concat(a, b)        == Concat(a, b)

(* ----------------------------- endpoints ------------------------------- *)

\* The endpoints drop the error of the operation they call.
Endpoint(q, served) ==
    IF q.type \in {"Concat", "Diff", "Health"} THEN Good(served.val)
    ELSE Bad("ErrInvalidRequestType")

Ch6Endpoint(q)  == Endpoint(q, Ch6Logging(q.type, q.a, q.b))
Ch9Endpoint(q)  == Endpoint(q, Ch9Logging(q.type, q.a, q.b))
\* main of chapter 10 builds no middleware around the service.
Ch10Endpoint(q) == Endpoint(q, Ch10Service(q.type, q.a, q.b))
Ch12Endpoint(q) == Endpoint(q, Ch12Logging(q.type, q.a, q.b))
Kit7Endpoint(q) == Endpoint(q, Kit7Logging(q.type, q.a, q.b))

(* ----------------------------- transports ------------------------------ *)

Reply(r) == IF r.err = "none" THEN [code |-> "ok", val |-> r.val]
            ELSE [code |-> "fault", val |-> Text(r.err)]
Broken == [code |-> "broken", val |-> <<>>]

\* GET /health, and POST /op/{type}/{a}/{b}: a path with an empty part
\* matches no route, so the decoder finds all three variables.  Errors of the endpoint go
\* through encodeError or go-kit's default encoder, status 500 both.
NoRoute(q) == q.type # "Health" /\ <<>> \in {q.a, q.b}
HttpOp(q, r) == IF NoRoute(q) THEN [code |-> "missing", val |-> <<>>] ELSE Reply(r)

Ch6Http(q)  == HttpOp(q, Ch6Endpoint(q))
Ch9Http(q)  == HttpOp(q, Ch9Endpoint(q))
Ch10Http(q) == HttpOp(q, Ch10Endpoint(q))
Ch12Http(q) == HttpOp(q, Ch12Endpoint(q))

\* gRPC: the response message carries result and error text, and the error
\* of an endpoint is the error of the call.
Kit7Grpc(q)  == Reply(Kit7Endpoint(q))
Ch12Grpc(q)  == Reply(Ch12Endpoint(q))
BasicRpc(q)  == Reply(BasicService(q.type, q.a, q.b))
Grpc7(q)     == Reply(Grpc7Service(q.type, q.a, q.b))
Stream7(q)   == Reply(Stream7Concat(q.a, q.b))
Svc1Http(q)  == Reply(Svc1Concat(q.a, q.b))

Served(q) == CASE q.stack = "ch6"     -> Ch6Http(q)
               [] q.stack = "ch9"     -> Ch9Http(q)
               [] q.stack \in {"ch10", "use"} -> Ch10Http(q)
               [] q.stack = "basic"   -> BasicRpc(q)
               [] q.stack = "grpc7"   -> Grpc7(q)
               [] q.stack = "stream7" -> Stream7(q)
               [] q.stack = "kit7"    -> Kit7Grpc(q)
               [] q.stack = "kit12"   -> Ch12Grpc(q)
               [] q.stack = "http12"  -> Ch12Http(q)
               [] q.stack = "svc1"    -> Svc1Http(q)

(* ------------------------------- clients ------------------------------- *)

Value(v) == [kind |-> "value", val |-> v]
Failure  == [kind |-> "failure", val |-> <<>>]
Crash    == [kind |-> "crash", val |-> <<>>]

\* Whoever posts to the HTTP services reads the status.
HttpCaller(w) == IF w.code = "ok" THEN Value(w.val) ELSE Failure

\* UseStringService of chapter 10 picks an instance, posts to the string
\* service and decodes the body.  Its inner err hides the outer one: when no
\* instance is known it returns the error, and whatever goes wrong after
\* that it returns "" and no error.
UseStringService(w) == CASE w.code = "ok"       -> Good(w.val)
                         [] w.code = "unlisted" -> Bad("ErrNoInstances")
                         [] OTHER               -> Good(<<>>)

\* main puts go-kit's Hystrix around the endpoint of the operations, none
\* around the health check.  It hands on what its run returns, unless the
\* run was refused (open circuit, no ticket) or not back within a second.
Breakered(q)  == q.stack = "use" /\ q.type # "Health" /\ ~NoRoute(q)
Hystrix(b, r) == CASE b = "refused" -> Bad("ErrCircuitOpen")
                   [] b = "late"    -> Bad("ErrTimeout")
                   [] OTHER         -> r
UseEndpoint(q, w, b) == IF q.type = "Health" THEN HealthCheck ELSE Hystrix(b, UseStringService(w))
UseHttp(q, w, b) == IF b = "cut" \/ NoRoute(q) THEN Failure
                    ELSE HttpCaller(Reply(UseEndpoint(q, w, b)))

\* net/rpc: Concat gives up with log.Fatal on an error.  Diff, started with
\* Go, prints the reply variable the Concat before it has filled and does
\* not look at call.Error.
BasicClient(q, w) ==
    CASE w.code = "ok"   -> Value(w.val)
      [] w.code # "ok" /\ q.type = "Concat" -> Failure
      [] w.code # "ok" /\ q.type = "Diff"   -> Value(Concat(q.a, q.b).val)

\* The clients of chapter 7 read a nil reply when the call fails.
Grpc7Client(w) == IF w.code = "ok" THEN Value(w.val) ELSE Crash

\* The go-kit stub of chapter 7 asserts the type of the response before it
\* looks at the error, and its Diff sends and expects message values where
\* the transport has pointers.
Kit7Stub(q, w) == IF w.code = "ok" /\ q.type # "Diff" THEN Value(w.val) ELSE Crash

\* The stub of chapter 12: both operations travel as the method Diff, the
\* request type in the message tells them apart.  The codec makes an error
\* of every response, which the stub does not read; same assertion.
Ch12Codec(v)  == Good(v)
Ch12Client(w) == IF w.code = "ok" THEN Ch12Codec(w.val) ELSE Bad(w.code)
Ch12Stub(w)   == IF w.code = "ok" THEN Value(Ch12Client(w).val) ELSE Crash

\* svc1's client returns the body, whatever the status.
Svc1ConcatClient(w) == IF w.code = "broken" THEN Failure ELSE Value(w.val)

Answer(q, w, b) == CASE q.stack \in {"ch6", "ch9", "ch10", "http12"} -> HttpCaller(w)
                     [] q.stack = "use"   -> UseHttp(q, w, b)
                     [] q.stack = "basic" -> BasicClient(q, w)
                     [] q.stack \in {"grpc7", "stream7"} -> Grpc7Client(w)
                     [] q.stack = "kit7"  -> Kit7Stub(q, w)
                     [] q.stack = "kit12" -> Ch12Stub(w)
                     [] q.stack = "svc1"  -> Svc1ConcatClient(w)

(* -------------------------------- calls -------------------------------- *)

\* The operations a caller of each stack can ask for.
Operations(s) == CASE s \in {"ch6", "ch9", "ch10", "http12", "use"} -> {"Concat", "Diff", "Health", "Other"}
                   [] s \in {"basic", "grpc7", "kit7", "kit12"} -> {"Concat", "Diff"}
                   [] s \in {"stream7", "svc1"} -> {"Concat"}
CallSet == {q \in [stack : Stacks, type : {"Concat", "Diff", "Health", "Other"},
                   a : Strings, b : Strings] :
              q.type \in Operations(q.stack) /\ (q.type = "Health" => q.a = <<>> /\ q.b = <<>>)}
NoAnswer == [kind |-> "none", val |-> <<>>]

CallInit == call \in CallSet /\ stage = "sent" /\ wire = Broken /\ answer = NoAnswer
            /\ inbound = "passed"

\* The server handles the request.
Serve == /\ stage = "sent"
         /\ stage' = "served" /\ wire' = Served(call)
         /\ UNCHANGED <<call, answer, inbound>>

\* The connection fails before or after the request was handled.
Break == /\ stage \in {"sent", "served"}
         /\ stage' = "broken" /\ wire' = Broken
         /\ UNCHANGED <<call, answer, inbound>>

\* UseStringService knows no instance of the string service.
Unlisted == /\ Breakered(call) /\ stage = "sent"
            /\ stage' = "served" /\ wire' = [code |-> "unlisted", val |-> <<>>]
            /\ UNCHANGED <<call, answer, inbound>>

\* hystrix refuses the run: there is no exchange with the string service.
Refuse == /\ Breakered(call) /\ stage = "sent" /\ inbound = "passed"
          /\ stage' = "done" /\ inbound' = "refused"
          /\ answer' = Answer(call, wire, "refused")
          /\ UNCHANGED <<call, wire>>

\* The caller has its failure before the exchange is over: the time limit of
\* hystrix passes, or the caller's own connection to use-string fails.  The
\* exchange goes on, and nobody waits for its result.
GiveUp(b) == /\ b = "late" => Breakered(call)
             /\ call.stack = "use" /\ stage # "done" /\ inbound = "passed"
             /\ inbound' = b /\ answer' = Answer(call, wire, b)
             /\ UNCHANGED <<call, stage, wire>>

Receive == /\ stage \in {"served", "broken"}
           /\ stage' = "done" /\ answer' = Answer(call, wire, inbound)
           /\ UNCHANGED <<call, wire, inbound>>

CallNext == \/ Serve \/ Break \/ Unlisted \/ Receive
            \/ Refuse \/ GiveUp("late") \/ GiveUp("cut")
CallSpec == CallInit /\ [][CallNext]_callVars

(* ------------------------------ properties ----------------------------- *)

\* What the operation is, said without the code's loops: the concatenation
\* when it fits; the string d that is a selection of the shorter argument,
\* has every character of it that is common and no other.
TooLong(q) == q.type = "Concat" /\ Len(q.a) + Len(q.b) > StrMaxSize
Shorter(q) == IF Len(q.a) >= Len(q.b) THEN q.b ELSE q.a
Occurrences(c, s) == Cardinality({i \in DOMAIN s : s[i] = c})
CommonPart(q, d) ==
    /\ Characters(d) = Characters(q.a) \cap Characters(q.b)
    /\ \A c \in Characters(d) : Occurrences(c, d) = Occurrences(c, Shorter(q))
    /\ \E pick \in SUBSET DOMAIN Shorter(q) :
          /\ Cardinality(pick) = Len(d)
          /\ \A i \in pick : Shorter(q)[i] = d[Cardinality({j \in pick : j <= i})]
IsResult(q, v) == CASE q.type = "Concat" -> ~TooLong(q) /\ v = q.a \o q.b
                [] q.type = "Diff"   -> CommonPart(q, v)
                [] q.type = "Health" -> v = HealthCheck.val
                [] q.type = "Other"  -> FALSE

\* A caller that is handed a value is handed the result of the operation,
\* with exactly these exceptions: a concatenation that is too long comes
\* back as "" (as the error's text from svc1), UseStringService turns every
\* failed exchange into "", and the net/rpc client prints the reply of the
\* call before (the endpoints' dropped errors, use-string-service
\* service.go:139, svc1 httpclient.go, basic client.go:26).  A caller
\* crashes only on an exchange that failed, or in the Diff stub of chapter 7
\* (endpoints.go:29-33), which can never return.  A caller that sees a
\* failure of an exchange that was fine, or before there is one, has lost
\* its connection to use-string or met its breaker (use-string-service
\* main.go:50); what a late exchange brings then never takes its place.
AnswersExplained ==
    answer.kind # "none" =>
        CASE answer.kind = "value" ->
                /\ stage = "done" /\ inbound = "passed"
                /\ \/ IsResult(call, answer.val)
                   \/ TooLong(call) /\ answer.val = IF call.stack = "svc1" THEN Text("ErrMaxSize") ELSE <<>>
                   \/ call.stack = "use" /\ wire.code \notin {"ok", "unlisted"} /\ answer.val = <<>>
                   \/ call.stack = "basic" /\ call.type = "Diff" /\ wire.code # "ok"
          [] answer.kind = "crash" ->
                wire.code # "ok" \/ (call.stack = "kit7" /\ call.type = "Diff")
          [] answer.kind = "failure" ->
                \/ inbound = "passed" /\ stage = "done" /\ wire.code # "ok"
                \/ inbound = "cut" /\ call.stack = "use"
                \/ inbound \in {"refused", "late"} /\ Breakered(call)
=============================================================================
