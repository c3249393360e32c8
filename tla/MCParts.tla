------------------------------ MODULE MCParts ------------------------------
(***************************************************************************)
(* The remote calls, the gateways, the life of a service and the           *)
(* configuration bus side by side.  They share nothing: a behaviour picks  *)
(* one of them, the others stay as one of their initial states has them.   *)
(***************************************************************************)
EXTENDS StringCalls, SumChain, StreamCalls, Gateways, ServiceLife, ConfigBus

VARIABLE subject
CONSTANTS x, y
MCChars   == {x, y}
MCNumbers == -6 .. 6

\* One instance of each of two applications, the name of the second contains
\* that of the first.  An event for everybody has the part of an event for an
\* application with two instances.
CONSTANTS n1, n2
MCNodes == {n1, n2}
MCApps  == {"a", "ab"}
MCAppOf == [n \in MCNodes |-> IF n = n1 THEN "a" ELSE "ab"]
MCContained == [a \in MCApps |-> IF a = "a" THEN {"a"} ELSE MCApps]

CONSTANTS r1, r2
MCRequests == {r1, r2}

RestingCall  == [stack |-> "ch6", type |-> "Concat", a |-> <<>>, b |-> <<>>]
RestingQuery == [a |-> NoNumber, b |-> NoNumber]

vars == <<callVars, sumVars, streamVars, gateVars, lifeVars, busVars, subject>>
NotCall   == UNCHANGED <<sumVars, streamVars, gateVars, lifeVars, busVars, subject>>
NotSum    == UNCHANGED <<callVars, streamVars, gateVars, lifeVars, busVars, subject>>
NotStream == UNCHANGED <<callVars, sumVars, gateVars, lifeVars, busVars, subject>>
NotGate   == UNCHANGED <<callVars, sumVars, streamVars, lifeVars, busVars, subject>>
NotLife   == UNCHANGED <<callVars, sumVars, streamVars, gateVars, busVars, subject>>
NotBus    == UNCHANGED <<callVars, sumVars, streamVars, gateVars, lifeVars, subject>>

MCInit == /\ subject \in {"string", "sum", "stream", "gate", "life", "bus"}
          /\ subject # "string" => call = RestingCall
          /\ CallInit
          /\ subject # "sum" => query = RestingQuery
          /\ SumInit
          /\ subject # "stream" => rpc = "both"
          /\ StreamInit
          /\ subject # "gate" => kind = "ch9"
          /\ GateInit
          /\ subject # "life" => program = Ch9Gateway
          /\ LifeInit
          /\ BusInit
MCNext == \/ subject = "string" /\ CallNext /\ NotCall
          \/ subject = "sum" /\ SumNext /\ NotSum
          \/ subject = "stream" /\ StreamNext /\ NotStream
          \/ subject = "gate" /\ GateNext /\ NotGate
          \/ subject = "life" /\ LifeNext /\ NotLife
          \/ subject = "bus" /\ BusNext /\ NotBus
MCSpec == /\ MCInit /\ [][MCNext]_vars
          /\ WF_streamVars(subject = "stream" /\ StreamProgress /\ NotStream)
          /\ WF_gateVars(subject = "gate" /\ alive /\ (\E r \in Requests : HandlerStep(r)) /\ NotGate)
          /\ WF_lifeVars(subject = "life" /\ LifeProgress /\ NotLife)
          /\ WF_lifeVars(subject = "life" /\ (\E i \in Ids : ConsulTells(i)) /\ NotLife)
          /\ WF_busVars(subject = "bus" /\ (\E n \in Nodes : BusProgress(n)) /\ NotBus)
=============================================================================
