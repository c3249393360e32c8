--------------------------- MODULE SecKillLedger ---------------------------
(***************************************************************************)
(* What the sk-core service promises about the stock of the flash sale,    *)
(* without goroutines, channels or queues: units are sold one at a time    *)
(* until Total plus a margin, a product is closed only when Total units    *)
(* are gone and stays closed, and a restart forgets everything.            *)
(***************************************************************************)
EXTENDS Integers

CONSTANTS Products, Total, Margin, MaxRestarts

VARIABLES
    sold,     \* units sold since the last restart
    closed,   \* products declared sold out
    epoch     \* restarts so far

Init ==
    /\ sold = [p \in Products |-> 0]
    /\ closed = {}
    /\ epoch = 0

Sell(p) ==
    /\ sold[p] < Total[p] + Margin
    /\ sold' = [sold EXCEPT ![p] = @ + 1]
    /\ UNCHANGED <<closed, epoch>>

Close(p) ==
    /\ sold[p] >= Total[p]
    /\ closed' = closed \cup {p}
    /\ UNCHANGED <<sold, epoch>>

Forget ==
    /\ epoch < MaxRestarts
    /\ sold' = [p \in Products |-> 0]
    /\ closed' = {}
    /\ epoch' = epoch + 1

Next == (\E p \in Products : Sell(p) \/ Close(p)) \/ Forget

Spec == Init /\ [][Next]_<<sold, closed, epoch>>
=============================================================================
