------------------------------ MODULE SumChain ------------------------------
(***************************************************************************)
(* Sum of the traced services of chapter 12: the client cli asks svc1 over *)
(* HTTP, svc1 proxies to svc2, svc2 adds two int64.  Numbers travel as     *)
(* text; every hop parses what it gets and may fail, and neither client    *)
(* looks at the HTTP status: a failure downstream arrives as a body that   *)
(* must not parse.                                                         *)
(*                                                                         *)
(* A text is [num |-> n] for the decimal form of n or [word |-> e] for one *)
(* that is no number.  Int64Min .. Int64Max is the range of int64; Go's    *)
(* arithmetic wraps around in it.                                          *)
(***************************************************************************)
EXTENDS Integers

CONSTANTS Int64Max,     \* 2^63 - 1 in the code
          Numbers,      \* integers whose decimal form a request may hold
          Word          \* any text that is no number

ASSUME Int64Assumption == Int64Max \in Nat /\ Int64Max > 0 /\ Numbers \subseteq Int

Int64Min == -(Int64Max + 1)
Int64    == Int64Min .. Int64Max
Wrap(n)  == ((n - Int64Min) % (2 * (Int64Max + 1))) + Int64Min

Number(n) == [num |-> n]
NoNumber  == [word |-> Word]
Texts     == [num : Numbers] \cup {NoNumber}

VARIABLES query,    \* the two texts of the request to svc1
          hop,      \* where the request or its answer is
          body,     \* the body of the last response
          result    \* what the caller ends with
sumVars == <<query, hop, body, result>>

Parsed(n) == [ok |-> TRUE, n |-> n]
Failed    == [ok |-> FALSE, n |-> 0]
Pending   == [ok |-> FALSE, n |-> 1]

\* strconv.ParseInt(text, 10, 64)
Parse(t) == IF t # NoNumber /\ t.num \in Int64 THEN Parsed(t.num) ELSE Failed

\* The check before the addition.
\* Variant: the sum itself is looked at, after it has wrapped.
OverflowsLate(a, b) == b > 0 /\ Wrap(a + b) < Int64Min
Overflows(a, b) == \/ b > 0 /\ a > Wrap(Int64Max - b)
                   \/ b < 0 /\ a < Wrap(Int64Min - b)

Sum(a, b) == IF Overflows(a, b) THEN Failed ELSE Parsed(Wrap(a + b))

\* What a handler writes: the number, or the text of the error with 400.
Written(r) == IF r.ok THEN Number(r.n) ELSE NoNumber

\* Handler and service of svc2, and the client svc1 calls them with: it reads
\* the body whatever the status is.
Svc2Handler(a, b) ==
    IF Parse(a).ok /\ Parse(b).ok THEN Written(Sum(Parse(a).n, Parse(b).n)) ELSE NoNumber
Svc2Client(t) == Parse(t)

\* svc1 proxies; its client, which cli uses, reads bodies the same way.
Svc1Sum(r)    == IF r.ok THEN r ELSE Failed
Svc1Client(t) == Parse(t)

(* -------------------------------- steps -------------------------------- *)

\* A client calls with two int64 (cli does), anybody else with two texts.
SumInit == /\ query \in [a : Texts, b : Texts]
           /\ hop = "svc1" /\ body = NoNumber /\ result = Pending

\* sumHandler of svc1: parameters that do not parse are answered with 400,
\* the others go on to svc2 as they were parsed.
Parses == Parse(query.a).ok /\ Parse(query.b).ok
Svc1Handle == /\ hop = "svc1"
              /\ IF Parses THEN hop' = "svc2" ELSE hop' = "reply1"
              /\ UNCHANGED <<query, body, result>>

Svc2Handle == /\ hop = "svc2"
              /\ hop' = "reply2"
              /\ body' = Svc2Handler(Number(Parse(query.a).n), Number(Parse(query.b).n))
              /\ UNCHANGED <<query, result>>

Svc1Relay == /\ hop = "reply2"
             /\ hop' = "reply1"
             /\ body' = Written(Svc1Sum(Svc2Client(body)))
             /\ UNCHANGED <<query, result>>

\* A connection fails: to svc2, which svc1 reports, or to svc1.
Svc2Lost == /\ hop \in {"svc2", "reply2"}
            /\ hop' = "reply1" /\ body' = NoNumber
            /\ UNCHANGED <<query, result>>
Svc1Lost == /\ hop \in {"svc1", "svc2", "reply2", "reply1"}
            /\ hop' = "done" /\ result' = Failed
            /\ UNCHANGED <<query, body>>

\* The client of svc1 gets the answer.
ClientRead == /\ hop = "reply1"
              /\ hop' = "done" /\ result' = Svc1Client(body)
              /\ UNCHANGED <<query, body>>

SumNext == \/ Svc1Handle \/ Svc2Handle \/ Svc1Relay \/ Svc2Lost \/ Svc1Lost \/ ClientRead
SumSpec == SumInit /\ [][SumNext]_sumVars

(* ------------------------------ properties ----------------------------- *)

\* A sum that comes back is the sum: two hops of text, wrapping arithmetic
\* and unchecked status codes never turn a failure or an overflow into a
\* number (svc2 implementation.go Sum, httpclient.go of both services).
SumTruthful ==
    (hop = "done" /\ result.ok) =>
        /\ query.a \in [num : Int64] /\ query.b \in [num : Int64]
        /\ result.n = query.a.num + query.b.num
        /\ result.n \in Int64

\* The number in flight is the exact sum of two numbers that parsed.
SumInv ==
    /\ hop \in {"svc1", "svc2", "reply2", "reply1", "done"}
    /\ query \in [a : Texts, b : Texts]
    /\ body = NoNumber \/ \E n \in Int64 : body = Number(n)
    /\ hop = "svc2" => Parses
    /\ hop = "reply2" => Parses
    /\ body # NoNumber =>
          /\ Parses
          /\ body = Number(query.a.num + query.b.num)
          /\ query.a.num + query.b.num \in Int64
    /\ SumTruthful
=============================================================================
