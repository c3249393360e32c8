---------------------------- MODULE MCAntiSpam ----------------------------
(***************************************************************************)
(* The two things a purchase has to pass in sk-app, each for itself: the   *)
(* access limits, and the verdict on the product beside what sk-admin      *)
(* shows of the activity.  They share no state.                            *)
(***************************************************************************)
EXTENDS AntiSpam, AdminFront

VARIABLE subject   \* the one that takes the steps

CONSTANTS u1, u2, a1, a2, junk

\* One client like any other, one on each black list; one entry of the first
\* list is no user id.
MCClients == {<<u1, a1>>, <<u2, a1>>, <<u1, a2>>}

\* The first window of a fresh counter ends with 60; 91 is less than a minute
\* after 60 and more than one after 30.
MCTimes == {30, 60, 61, 62, 91}

\* An open window, one that ends before it starts, a sold out product.
CONSTANTS p1, p2
MCItems  == {p1, p2}
MCOffers == {[start |-> 1, end |-> 2, status |-> "Normal", scarce |-> TRUE],
             [start |-> 2, end |-> 0, status |-> "Normal", scarce |-> FALSE],
             [start |-> 0, end |-> 3, status |-> "SaleOut", scarce |-> FALSE]}

MCInit == /\ subject \in {"spam", "front", "day"}
          /\ Init
          /\ DayInit
          /\ subject = "spam" => offer = [i \in Items |-> Absent]
          /\ subject = "day" => offer[p2] = Absent
          /\ subject # "spam" => blackList.ids = {}
MCNext == \/ subject = "spam" /\ Next /\ UNCHANGED <<frontVars, adminVars, subject>>
          \/ subject = "front" /\ FrontTurn /\ UNCHANGED <<accessVars, subject>>
          \/ subject = "day" /\ DayNext /\ UNCHANGED <<accessVars, subject>>
MCSpec == MCInit /\ [][MCNext]_<<accessVars, frontVars, adminVars, subject>>
=============================================================================
