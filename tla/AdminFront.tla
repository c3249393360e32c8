----------------------------- MODULE AdminFront -----------------------------
(***************************************************************************)
(* The face of sk-admin beside that of sk-app, at one clock: the routes for *)
(* products and activities behind one token bucket, the two tables, and    *)
(* the list that judges for itself which activities have ended.  What      *)
(* CreateActivity publishes is SecCatalog's matter: sk-app has loaded its  *)
(* offers from the activities there were before, and keeps them.           *)
(***************************************************************************)
EXTENDS SaleFront, Sequences

CONSTANTS AdminBurst,
          Ends,         \* when activities that are created end
          MaxRows

ASSUME AdminAssumption == /\ IsFiniteSet(Items) /\ Ends \subseteq 0 .. Horizon
                          /\ AdminBurst \in Nat /\ MaxRows \in Nat

VARIABLES activities,   \* the rows of the table, by activity_id
          products,     \* how many rows the other table has
          adminTokens,  \* of the one bucket
          shown         \* history: what lists showed of the activity sk-app sells, and when
adminVars == <<activities, products, adminTokens, shown>>

\* sold: sk-app's offer of the product is this activity.
Row == [item : Items, end : 0 .. Horizon, sold : BOOLEAN]

\* The activities sk-app has loaded, created in any order.
OnSale == {i \in Items : offer[i] # Absent}
AdminInit ==
    /\ \E order \in [1 .. Cardinality(OnSale) -> OnSale] :
          /\ \A i \in OnSale : \E k \in DOMAIN order : order[k] = i
          /\ activities = [k \in DOMAIN order |-> [item |-> order[k], end |-> offer[order[k]].end, sold |-> TRUE]]
    /\ products = 0 /\ adminTokens = AdminBurst
    /\ shown = [i \in Items |-> {}]

\* A row is inserted without its status, so the column keeps its default and
\* only the end of the activity tells.
\* Variant: the last second of the sale counts as after its end.
StatusOfEarly(row, t) == IF t >= row.end THEN "ended" ELSE "normal"
StatusOf(row, t) == IF t > row.end THEN "ended" ELSE "normal"

Admin == adminTokens > 0 /\ adminTokens' = adminTokens - 1

\* The service's error goes into a field of an answer with status 200.
Answer == Show([status |-> "200", error |-> FALSE])
Failed == Show([status |-> "200", error |-> TRUE])
AdminRest == UNCHANGED <<clock, offer, queryTokens, saleTokens, told>>

AdminRefused == /\ adminTokens = 0 /\ Show(Status500)
                /\ UNCHANGED adminVars /\ AdminRest
AdminUndecoded == Show(Status500) /\ UNCHANGED adminVars /\ AdminRest
AdminHealth == /\ Show([status |-> "200", result |-> TRUE])      \* not limited
               /\ UNCHANGED adminVars /\ AdminRest

\* A statement that fails may have been carried out.
InsertProduct == products' = products + 1
CreateProduct ==
    /\ Admin /\ products < MaxRows
    /\ \/ InsertProduct /\ (Answer \/ Failed)
       \/ Failed /\ UNCHANGED products
    /\ UNCHANGED <<activities, shown>> /\ AdminRest
InsertActivity(row) == activities' = Append(activities, row)
CreateActivity(i, end) ==
    /\ Admin /\ Len(activities) < MaxRows
    /\ \/ InsertActivity([item |-> i, end |-> end, sold |-> FALSE]) /\ (Answer \/ Failed)
       \/ Failed /\ UNCHANGED activities
    /\ UNCHANGED <<products, shown>> /\ AdminRest

ListFails == /\ Admin /\ Failed
             /\ UNCHANGED <<activities, products, shown>> /\ AdminRest
ListProducts == /\ Admin /\ Show([status |-> "200", rows |-> products])
                /\ UNCHANGED <<activities, products, shown>> /\ AdminRest

\* From the last row to the first; the second may turn at row k.
ListActivities(k) ==
    /\ adminTokens > 0 /\ (k > 0 => clock < Horizon)
    /\ clock' = IF k > 0 THEN clock + 1 ELSE clock
    /\ adminTokens' = IF k > 0 THEN Refill(adminTokens - 1, AdminBurst) ELSE adminTokens - 1
    /\ queryTokens' = IF k > 0 THEN Refill(queryTokens, QueryBurst) ELSE queryTokens
    /\ saleTokens' = IF k > 0 THEN SaleBurst ELSE saleTokens
    /\ LET at(r) == IF r <= k THEN clock + 1 ELSE clock
           seen == [r \in DOMAIN activities |-> [status |-> StatusOf(activities[r], at(r)), at |-> at(r)]] IN
       /\ Show([status |-> "200", rows |-> [r \in DOMAIN activities |-> seen[r].status]])
       /\ shown' = [i \in Items |-> shown[i] \cup
                      {seen[r] : r \in {q \in DOMAIN activities : activities[q].sold /\ activities[q].item = i}}]
    /\ UNCHANGED <<offer, told, activities, products>>

AdminNext == \/ AdminRefused \/ AdminUndecoded \/ AdminHealth
             \/ CreateProduct \/ ListFails \/ ListProducts
             \/ \E i \in Items, end \in Ends : CreateActivity(i, end)
             \/ \E k \in 0 .. Len(activities) : ListActivities(k)

\* What sk-app does while sk-admin waits; a second brings a token.
FrontTurn == /\ FrontNext
             /\ adminTokens' = IF clock' = clock THEN adminTokens ELSE Refill(adminTokens, AdminBurst)
             /\ UNCHANGED <<activities, products, shown>>

DayInit == FrontInit /\ AdminInit
DayNext == FrontTurn \/ AdminNext
DaySpec == DayInit /\ [][DayNext]_<<frontVars, adminVars>>

(* ------------------------------ properties ----------------------------- *)

\* sk-admin and sk-app judge the end of a sale each for itself
\* (activity.go:43-48, service.go:170-175): while a list shows the activity
\* as running nobody has been told that it has ended, and once a list shows
\* it as ended nobody is let through or told to wait for its start.
PagesAgree ==
    \A i \in Items : \A s \in shown[i], v \in told[i] :
        /\ s.status = "normal" /\ v.code = "AlreadyEnd" => s.at < v.at
        /\ s.status = "ended" /\ v.code \in {"Success", "NotStart"} => v.at < s.at
=============================================================================
