------------------------------ MODULE SaleFront -----------------------------
(***************************************************************************)
(* The face of sk-app: its five routes, the two token buckets before four  *)
(* of them and the verdict SecInfoById gives on a product: the sale asks it *)
(* before it queues a request, the list asks it for every product.  The     *)
(* product map does not change once the service has started.  What becomes *)
(* of a request that is let through is SecKillApp's matter.                *)
(***************************************************************************)
EXTENDS Integers, FiniteSets

CONSTANTS Items,        \* product ids that are asked for
          Offers,       \* possible entries of the product map
          Horizon,      \* last second of the clock
          QueryBurst, SaleBurst

\* scarce: BuyRate * 1.5 is below 1, a draw may exceed it.
Offer == [start : 0 .. Horizon, end : 0 .. Horizon,
          status : {"Normal", "SaleOut", "ForceSaleOut"}, scarce : BOOLEAN]
Absent == [status |-> "Absent"]

ASSUME FrontAssumption == /\ Offers \subseteq Offer
                          /\ Horizon \in Nat /\ QueryBurst \in Nat /\ SaleBurst \in Nat

VARIABLES clock, offer,   \* the seconds of the clock; SecProductInfoMap
          queryTokens,    \* of the bucket for health, info and list
          saleTokens,     \* of the bucket for the sale
          page,           \* the last answer
          told            \* history: what callers were told of a product's time, and when
frontVars == <<clock, offer, queryTokens, saleTokens, page, told>>

FrontInit ==
    /\ clock = 0 /\ offer \in [Items -> Offers \cup {Absent}]
    /\ queryTokens = QueryBurst /\ saleTokens = SaleBurst
    /\ page = [status |-> "none"]
    /\ told = [i \in Items |-> {}]

(* ------------------------------ SecInfoById ---------------------------- *)

\* Each condition overwrites the code of those before it.
\* Variant: the end is compared with the second that has passed.
CodeLate(o, t, retry) ==
    CASE retry -> "Retry"
      [] ~retry /\ o.status # "Normal" -> "SaleOut"
      [] ~retry /\ o.status = "Normal" /\ t - 1 > o.end -> "AlreadyEnd"
      [] ~retry /\ o.status = "Normal" /\ t - 1 <= o.end /\ t < o.start -> "NotStart"
      [] OTHER -> "Success"
Code(o, t, retry) ==
    CASE retry -> "Retry"
      [] ~retry /\ o.status # "Normal" -> "SaleOut"
      [] ~retry /\ o.status = "Normal" /\ t > o.end -> "AlreadyEnd"
      [] ~retry /\ o.status = "Normal" /\ t <= o.end /\ t < o.start -> "NotStart"
      [] OTHER -> "Success"

\* At the very second of the start the sale is open and not yet started.
Verdict(i, t, retry) ==
    IF offer[i] = Absent THEN [code |-> "NotFound", at |-> t, start |-> FALSE, end |-> FALSE]
    ELSE LET code == Code(offer[i], t, retry) IN
         [code |-> code, at |-> t, start |-> code = "Success" /\ t > offer[i].start, end |-> code = "AlreadyEnd"]
\* The verdicts that speak of time.
Timed(v) == {w \in {v} : w.code \in {"Success", "NotStart", "AlreadyEnd"}}
Draws(i) == IF offer[i] # Absent /\ offer[i].scarce THEN BOOLEAN ELSE {FALSE}

(* -------------------------------- routes ------------------------------- *)

\* An error of the endpoint or of the decoder is answered with status 500,
\* an error of the service with 200 and a field for it.
Show(p) == page' = p
Status500 == [status |-> "500"]

\* NewTokenBucketLimitterWithBuildIn before an endpoint; a second brings a token.
Refill(tokens, burst) == IF tokens < burst THEN tokens + 1 ELSE tokens
Query == queryTokens > 0 /\ queryTokens' = queryTokens - 1 /\ UNCHANGED saleTokens
Sale  == saleTokens > 0 /\ saleTokens' = saleTokens - 1 /\ UNCHANGED queryTokens
Refused == /\ queryTokens = 0 \/ saleTokens = 0
           /\ Show(Status500)
           /\ UNCHANGED <<clock, offer, queryTokens, saleTokens, told>>
Undecoded == Show(Status500) /\ UNCHANGED <<clock, offer, queryTokens, saleTokens, told>>
Test == /\ Show([status |-> "200", code |-> "Test"])   \* no limit, no service
        /\ UNCHANGED <<clock, offer, queryTokens, saleTokens, told>>

Health == /\ Query /\ Show([status |-> "200", result |-> TRUE])
          /\ UNCHANGED <<clock, offer, told>>

\* SecInfo shows the entry as it is, without a verdict.
Info(i) == /\ Query /\ Show([status |-> "200", result |-> offer[i]])
           /\ UNCHANGED <<clock, offer, told>>

\* SecInfoList leaves out what is refused; the second may turn in the loop,
\* whose order is that of a map.
List(after) ==
    /\ queryTokens > 0 /\ (after # {} => clock < Horizon)
    /\ IF after = {} THEN Query /\ UNCHANGED clock
       ELSE /\ clock' = clock + 1
            /\ queryTokens' = Refill(queryTokens - 1, QueryBurst) /\ saleTokens' = SaleBurst
    /\ \E unlucky \in SUBSET {i \in Items : Draws(i) = BOOLEAN} :
          LET verdict == [i \in Items |-> Verdict(i, IF i \in after THEN clock + 1 ELSE clock, i \in unlucky)] IN
          /\ Show([status |-> "200", result |-> {i \in Items : verdict[i].code = "Success"}])
          /\ told' = [i \in Items |-> told[i] \cup Timed(verdict[i])]
    /\ UNCHANGED offer

\* SecKill up to the queue; a request that is let through goes on from here.
Kill(i) ==
    /\ Sale
    /\ \E retry \in Draws(i) :
          LET v == Verdict(i, clock, retry) IN
          /\ Show([status |-> IF v.code = "Success" THEN "queued" ELSE "200", code |-> v.code])
          /\ told' = [told EXCEPT ![i] = @ \cup Timed(v)]
    /\ UNCHANGED <<clock, offer>>

\* A token a second for the queries; those of the sale come back faster than
\* the clock tells.
Tick == /\ clock < Horizon /\ clock' = clock + 1
        /\ queryTokens' = Refill(queryTokens, QueryBurst)
        /\ saleTokens' = SaleBurst
        /\ UNCHANGED <<offer, page, told>>

FrontNext == \/ Tick \/ Refused \/ Undecoded \/ Test \/ Health
             \/ \E i \in Items : Info(i) \/ Kill(i)
             \/ \E after \in SUBSET Items : List(after)
FrontSpec == FrontInit /\ [][FrontNext]_frontVars

(* ------------------------------ properties ----------------------------- *)

\* What callers are told of one product fits together, whoever asks and by
\* whichever route (service.go:135-205): it is let through in its window
\* only, both ends included, and shown as started except in the first second;
\* all who hear "not started" hear it before any is let through, and all who
\* hear "already ended" after.
SaleInOrder ==
    \A i \in Items : \A v, w \in told[i] :
        /\ v.code = "Success" => /\ offer[i] # Absent /\ offer[i].status = "Normal"
                                 /\ v.at \in offer[i].start .. offer[i].end
                                 /\ v.start <=> v.at # offer[i].start
        /\ v.code = "NotStart" /\ w.code \in {"Success", "AlreadyEnd"} => v.at < w.at
        /\ v.code = "Success" /\ w.code = "AlreadyEnd" => v.at < w.at
=============================================================================
