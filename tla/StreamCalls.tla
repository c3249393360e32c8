---------------------------- MODULE StreamCalls ----------------------------
(***************************************************************************)
(* The streaming RPCs of chapter 7: the server sends a fixed number of     *)
(* responses to one request (LotsOfServerStream), the client sends a fixed *)
(* number of requests and gets one response (LotsOfClientStream), or both  *)
(* send in turns for ever (LotsOfServerAndClientStream).  A stream is two  *)
(* FIFO channels that may break; what was sent before the break may still  *)
(* be read.                                                                *)
(***************************************************************************)
EXTENDS Naturals, Sequences

CONSTANTS Messages,     \* messages of a one-sided stream, 10 in the code
          Rounds        \* bound on the exchanges of the two-sided stream

ASSUME StreamAssumption == Messages \in Nat \ {0} /\ Rounds \in Nat

VARIABLES rpc,          \* which of the three
          up, down,     \* messages in flight to the server and to the client
          sent,         \* messages sent so far by the sending side
          params,       \* what the server has collected
          broken,       \* the stream has failed
          client,       \* control state of the client
          got           \* what the client has received
streamVars == <<rpc, up, down, sent, params, broken, client, got>>

EOF == <<>>
\* A message is the pair of strings i and i+1; the server joins them.
Pair(i) == <<i, i + 1>>

StreamInit ==
    /\ rpc \in {"server", "client", "both"}
    /\ up = <<>> /\ down = <<>> /\ sent = 0 /\ params = <<>> /\ broken = FALSE
    /\ client = "opening" /\ got = <<>>

\* The client opens the stream.  When that fails the one-sided clients go on
\* with a nil stream, the two-sided one returns.
Open == /\ client = "opening" /\ ~broken
        /\ client' = IF rpc = "server" THEN "receiving" ELSE "sending"
        /\ UNCHANGED <<rpc, up, down, sent, params, broken, got>>
OpenFails == /\ client = "opening" /\ broken
             /\ client' = IF rpc = "both" THEN "stopped" ELSE "crashed"
             /\ UNCHANGED <<rpc, up, down, sent, params, broken, got>>

\* LotsOfServerStream: Messages times the same response, then the end.
ServerSend == /\ rpc = "server" /\ client # "opening" /\ ~broken /\ sent < Messages
              /\ sent' = sent + 1 /\ down' = Append(down, Pair(0))
              /\ UNCHANGED <<rpc, up, params, broken, client, got>>
ServerEnd  == /\ rpc = "server" /\ client # "opening" /\ ~broken /\ sent = Messages
              /\ sent' = Messages + 1 /\ down' = Append(down, EOF)
              /\ UNCHANGED <<rpc, up, params, broken, client, got>>

\* sendClientStreamRequest: errors of Send are not looked at.
ClientSend == /\ rpc = "client" /\ client = "sending" /\ sent < Messages
              /\ sent' = sent + 1
              /\ up' = IF broken THEN up ELSE Append(up, Pair(sent))
              /\ UNCHANGED <<rpc, down, params, broken, client, got>>
\* Variant: the client waits for the response without closing its side.
ClientAwait == /\ rpc = "client" /\ client = "sending" /\ sent = Messages
               /\ client' = "receiving"
               /\ UNCHANGED <<rpc, up, down, sent, params, broken, got>>
ClientClose == /\ rpc = "client" /\ client = "sending" /\ sent = Messages
               /\ client' = "receiving"
               /\ up' = IF broken THEN up ELSE Append(up, EOF)
               /\ UNCHANGED <<rpc, down, sent, params, broken, got>>

\* LotsOfClientStream collects until the end and answers with everything.
\* Variant: answers with what the last message brought.
ServerCollectLast == /\ rpc = "client" /\ ~broken /\ up # <<>>
                     /\ up' = Tail(up)
                     /\ IF Head(up) = EOF THEN down' = Append(down, params) /\ UNCHANGED params
                        ELSE params' = Head(up) /\ UNCHANGED down
                     /\ UNCHANGED <<rpc, sent, broken, client, got>>
ServerCollect == /\ rpc = "client" /\ ~broken /\ up # <<>>
                 /\ up' = Tail(up)
                 /\ IF Head(up) = EOF THEN down' = Append(down, params) /\ UNCHANGED params
                    ELSE params' = params \o Head(up) /\ UNCHANGED down
                 /\ UNCHANGED <<rpc, sent, broken, client, got>>

\* LotsOfServerAndClientStream: the client sends, the server answers each
\* message, the client waits for the answer before it sends the next.
BothSend == /\ rpc = "both" /\ client = "sending" /\ sent < Rounds
            /\ IF broken THEN client' = "stopped" /\ UNCHANGED <<up, sent>>
               ELSE client' = "receiving" /\ up' = Append(up, Pair(sent)) /\ sent' = sent + 1
            /\ UNCHANGED <<rpc, down, params, broken, got>>
BothServe == /\ rpc = "both" /\ ~broken /\ up # <<>>
             /\ up' = Tail(up) /\ down' = Append(down, Head(up))
             /\ UNCHANGED <<rpc, sent, params, broken, client, got>>

\* The client receives.  At the end of the server's stream it stops; on any
\* other error it logs and goes round again, for ever.  Without a reply
\* sendClientStreamRequest reads reply.Ret of a nil reply.
ClientReceive ==
    /\ client = "receiving" /\ down # <<>>
    /\ down' = Tail(down)
    /\ IF Head(down) = EOF THEN client' = "stopped" /\ UNCHANGED got
       ELSE /\ got' = Append(got, Head(down))
            /\ client' = CASE rpc = "server" -> "receiving"
                           [] rpc = "client" -> "stopped"
                           [] rpc = "both"   -> "sending"
    /\ UNCHANGED <<rpc, up, sent, params, broken>>
ClientError ==
    /\ client = "receiving" /\ broken /\ down = <<>>
    /\ client' = CASE rpc = "server" -> "spinning"
                   [] rpc = "client" -> "crashed"
                   [] rpc = "both"   -> "stopped"
    /\ UNCHANGED <<rpc, up, down, sent, params, broken, got>>

\* The connection fails: what is on the way to the server is lost, and any
\* suffix of what is on the way to the client.
StreamBreak == /\ ~broken /\ client \in {"opening", "sending", "receiving"}
               /\ broken' = TRUE /\ up' = <<>>
               /\ \E n \in 0 .. Len(down) : down' = SubSeq(down, 1, n)
               /\ UNCHANGED <<rpc, sent, params, client, got>>

StreamProgress == \/ Open \/ OpenFails
                  \/ ServerSend \/ ServerEnd
                  \/ ClientSend \/ ClientClose \/ ServerCollect
                  \/ BothSend \/ BothServe
                  \/ ClientReceive \/ ClientError
StreamNext == StreamProgress \/ StreamBreak
\* A connection may fail at any time and never has to; everybody else goes on.
StreamSpec == StreamInit /\ [][StreamNext]_streamVars /\ WF_streamVars(StreamProgress)

(* ------------------------------ properties ----------------------------- *)

\* Pair(0), Pair(1), ... one after the other: 0, 1, 1, 2, 2, 3, ...
Joined == [j \in 1 .. 2 * Messages |-> j \div 2]

\* A client that stopped without a failure has everything, once and in
\* order: all responses, the join of all its pairs, or an answer to each
\* message (string-service/service.go of chapter 7).
StreamsWhole ==
    /\ client = "stopped" /\ rpc = "server" =>
          got = [i \in 1 .. Messages |-> Pair(0)]
    /\ client = "stopped" /\ rpc = "client" => got = <<Joined>>
    /\ rpc = "both" => \A i \in DOMAIN got : got[i] = Pair(i - 1)

\* The one-sided streams end unless the connection fails; when it fails in
\* the middle of the server's stream the client may go on for ever
\* (stream/client.go:28).
StreamsEnd == client \in {"opening", "sending", "receiving"} /\ rpc # "both"
                 ~> client \in {"stopped", "crashed"} \/ (broken /\ client = "spinning")
=============================================================================
