--------------------------- MODULE SecKillSystem ---------------------------
(***************************************************************************)
(* The flash sale end to end: the request path of sk-app and the sk-core   *)
(* service, joined by the two redis lists.                                 *)
(***************************************************************************)
EXTENDS SecKillCore

CONSTANTS Calls, AppWriters, AppReaders, KeyOf, ReqCap, NoCall

\* The assumptions of SecKillApp about the constants it does not share.
ASSUME CallsAssumption == KeyOf \in [Calls -> Request]
ASSUME AppBoundsAssumption == ReqCap \in Nat \ {0}
ASSUME AppGoroutinesAssumption == IsFiniteSet(AppWriters) /\ IsFiniteSet(AppReaders)
ASSUME AppNoneAssumption == NoCall \notin Calls

VARIABLES secReqChan, userConnMap, buf, at, outcome, sending, popped, target

App == INSTANCE SecKillApp

appOnly  == <<secReqChan, userConnMap, buf, at, outcome, sending, popped, target>>
coreOnly == <<chans, ends, frame, catalog, ledger, restarts>>
sysVars  == <<vars, appOnly>>

SysInit == Init /\ App!AppInit

SysNext ==
    \/ CoreNext /\ UNCHANGED appOnly
    \/ App!AppNext /\ UNCHANGED coreOnly

SysSpec == SysInit /\ [][SysNext]_sysVars

(* The Go scheduler runs every runnable goroutine eventually; which ready  *)
(* case a select takes is not determined, so fairness is per goroutine.    *)
(* Senders blocked on a channel are queued in order: a call blocked on     *)
(* SecReqChan gets its turn however often others take the room.            *)
SysFairness ==
    /\ \A c \in Calls : /\ WF_sysVars(/\ at[c] # "new" /\ App!CallStep(c)
                                      /\ UNCHANGED coreOnly)
                        /\ SF_sysVars(App!CallEnqueue(c) /\ UNCHANGED coreOnly)
    /\ \A w \in AppWriters : WF_sysVars(App!WriteStep(w) /\ UNCHANGED coreOnly)
    /\ \A r \in AppReaders : WF_sysVars(App!ReadStep(r) /\ UNCHANGED coreOnly)
    /\ \A r \in Readers : WF_sysVars(ReaderStep(r) /\ UNCHANGED appOnly)
    /\ \A h \in Handlers : WF_sysVars(HandlerStep(h) /\ UNCHANGED appOnly)
    /\ \A w \in Writers : WF_sysVars(WriterStep(w) /\ UNCHANGED appOnly)

SysFairSpec == SysSpec /\ SysFairness

-----------------------------------------------------------------------------
(* Properties *)

Told(k, c) == KeyOf[c] = k /\ outcome[c] = "Succ"

\* The calls told that they have bought p, those that will be when they look
\* into their channel, and the readers on their way to one.
Buyers(p)  == {c \in Calls : KeyOf[c].product = p /\ outcome[c] = "Succ"}
Winners(p) == {c \in Calls : \E i \in 1..Len(buf[c]) : IsSuccess(buf[c][i], p)}
Bearers(p) == {r \in AppReaders : popped[r] # NoRes /\ IsSuccess(popped[r], p)}

\* Across both services and both queues no sale is reported twice: the calls
\* told "succeeded" for a product and the successes still on their way are at
\* most the units ever sold, whatever is lost, timed out, re-registered under
\* the same key or forgotten by a restart.
TokensBacked ==
    \A p \in Products :
        Cardinality(Buyers(p)) + Cardinality(Winners(p)) + Cardinality(Bearers(p))
        + SuccessesInFlight(p) <= everSold[p]

\* As long as sk-core has not been restarted, what a call is told is true of
\* the ledgers when it is told and stays true: a success is in the user's
\* history once per call told so, "already bought" means the limit is reached
\* and "sold out" that Total units are gone.
AnswersTrue ==
    restarts = 0 =>
        /\ \A k \in Request :
               Cardinality({c \in Calls : Told(k, c)}) <= history[k.user][k.product]
        /\ \A c \in Calls :
               LET u == KeyOf[c].user  p == KeyOf[c].product IN
               /\ outcome[c] = "AlreadyBuy" => history[u][p] >= OnePersonBuyLimit[p]
               /\ outcome[c] = "Soldout" => sold[p] >= Total[p]

\* End to end every admitted call returns and sk-core comes to rest although
\* any result, request or push may be lost on the way.
SystemReturns ==
    /\ \A c \in Calls : at[c] = "register" ~> at[c] = "done"
    /\ <>[]Quiescent
=============================================================================
