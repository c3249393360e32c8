----------------------------- MODULE SecCatalog -----------------------------
(***************************************************************************)
(* How an activity gets from sk-admin to the services that sell it.        *)
(*                                                                         *)
(* sk-admin's CreateActivity inserts a row into the database and then, in  *)
(* syncToZk, reads the product list from the znode /product, appends the   *)
(* new product and writes the whole list back.  The write passes flags,    *)
(* which is 0, where the client takes the expected version of the znode,   *)
(* so it is accepted only while the znode has never been set.  Errors of   *)
(* the read are taken for an empty list, errors of the write are printed.  *)
(* Each service that sells (sk-app, sk-core) reads the list once when it   *)
(* starts; its watcher ignores changes.                                    *)
(*                                                                         *)
(* An activity is identified with the call that creates it.                *)
(***************************************************************************)
EXTENDS Integers, Sequences, FiniteSets, Functions

CONSTANTS
    Activities,     \* calls of CreateActivity
    Products,
    ProductOf,      \* the product of an activity
    Services,       \* processes that load the list
    Overlap,        \* bound on calls of CreateActivity under way at a time
    Faulty,         \* calls of ZooKeeper may fail
    NoActivity

ASSUME CatalogAssumption == /\ ProductOf \in [Activities -> Products]
                            /\ NoActivity \notin Activities
                            /\ Overlap \in Nat
                            /\ Faulty \in BOOLEAN

VARIABLES
    rows,       \* activities in the database table activity
    exists,     \* the znode exists
    version,    \* its data version, 0 after Create
    data,       \* its data: the product list, an activity for each element
    pc,         \* where in CreateActivity / syncToZk a call is
    list,       \* secProductInfoList of a call
    readOk,     \* loadProductFromZk returned no error
    catalog,    \* SecProductInfoMap of a service
    published,  \* history variable: activities that were ever in the znode
    blind       \* history variable: calls that overwrote the znode with a
                \* list their failed read had not filled

znode   == <<exists, version, data>>
call    == <<list, readOk>>
history == <<published, blind>>
catalogVars == <<rows, znode, pc, call, catalog, history>>

Places == {"new", "read", "exists", "set", "create", "ok", "error"}

CatalogTypeOK ==
    /\ rows \subseteq Activities
    /\ exists \in BOOLEAN
    /\ version \in Nat
    /\ data \in Seq(Activities)
    /\ ~exists => version = 0 /\ data = <<>>
    /\ pc \in [Activities -> Places]
    /\ \A a \in Activities : pc[a] = "set" => exists
    /\ list \in [Activities -> Seq(Activities)]
    /\ readOk \in [Activities -> BOOLEAN]
    /\ catalog \in [Services -> [Products -> Activities \cup {NoActivity}]]
    /\ published \subseteq Activities
    /\ blind \subseteq Activities

NothingSold == [p \in Products |-> NoActivity]

\* The znode may have been created by hand, with no products in it.
Init ==
    /\ rows = {}
    /\ exists \in BOOLEAN
    /\ version = 0
    /\ data = <<>>
    /\ pc = [a \in Activities |-> "new"]
    /\ list = [a \in Activities |-> <<>>]
    /\ readOk = [a \in Activities |-> FALSE]
    /\ catalog = [s \in Services |-> NothingSold]
    /\ published = {}
    /\ blind = {}

-----------------------------------------------------------------------------
(* CreateActivity *)

Active == {a \in Activities : pc[a] \notin {"new", "ok", "error"}}

Goto(a, place) == pc' = [pc EXCEPT ![a] = place]

InsertRow(a) ==
    /\ pc[a] = "new"
    /\ Cardinality(Active) < Overlap
    /\ rows' = rows \cup {a}
    /\ Goto(a, "read")
    /\ UNCHANGED <<znode, call, catalog, history>>

\* Variant: the error of the insert is ignored.
InsertFailIgnored(a) ==
    /\ pc[a] = "new"
    /\ Cardinality(Active) < Overlap
    /\ Goto(a, "read")
    /\ UNCHANGED <<rows, znode, call, catalog, history>>

InsertFail(a) ==
    /\ pc[a] = "new"
    /\ Goto(a, "error")
    /\ UNCHANGED <<rows, znode, call, catalog, history>>

\* loadProductFromZk succeeds and the new product is appended.
ReadList(a) ==
    /\ pc[a] = "read"
    /\ exists
    /\ list' = [list EXCEPT ![a] = Append(data, a)]
    /\ readOk' = [readOk EXCEPT ![a] = TRUE]
    /\ Goto(a, "exists")
    /\ UNCHANGED <<rows, znode, catalog, history>>

\* No such node, no connection or bad JSON: the list starts empty.
ReadListFail(a) ==
    /\ pc[a] = "read"
    /\ ~exists \/ Faulty
    /\ list' = [list EXCEPT ![a] = <<a>>]
    /\ readOk' = [readOk EXCEPT ![a] = FALSE]
    /\ Goto(a, "exists")
    /\ UNCHANGED <<rows, znode, catalog, history>>

\* conn.Exists; its error is dropped and reads as "no".
TestExists(a) ==
    /\ pc[a] = "exists"
    /\ \/ exists /\ Goto(a, "set")
       \/ (~exists \/ Faulty) /\ Goto(a, "create")
    /\ UNCHANGED <<rows, znode, call, catalog, history>>

\* The znode now holds the list of a.
Publish(a) ==
    /\ data' = list[a]
    /\ published' = published \cup Range(list[a])
    /\ Goto(a, "ok")

\* Variant: the write is unconditional (version -1).
SetListAnyVersion(a) ==
    /\ pc[a] = "set"
    /\ Publish(a)
    /\ version' = version + 1
    /\ blind' = IF readOk[a] THEN blind ELSE blind \cup {a}
    /\ UNCHANGED <<rows, exists, call, catalog>>

\* conn.Set(zkPath, byteData, 0)
SetList(a) ==
    /\ pc[a] = "set"
    /\ version = 0
    /\ Publish(a)
    /\ version' = version + 1
    /\ blind' = IF readOk[a] THEN blind ELSE blind \cup {a}
    /\ UNCHANGED <<rows, exists, call, catalog>>

CreateList(a) ==
    /\ pc[a] = "create"
    /\ ~exists
    /\ Publish(a)
    /\ exists' = TRUE
    /\ UNCHANGED <<rows, version, call, catalog, blind>>

\* Bad version, node exists or no connection: printed, and the call returns
\* nil all the same.
WriteFail(a) ==
    /\ \/ pc[a] = "set" /\ version # 0
       \/ pc[a] = "create" /\ exists
       \/ pc[a] \in {"set", "create"} /\ Faulty
    /\ Goto(a, "ok")
    /\ UNCHANGED <<rows, znode, call, catalog, history>>

-----------------------------------------------------------------------------
(* The services *)

Indices(l, p) == {i \in 1..Len(l) : ProductOf[l[i]] = p}

\* updateSecProductInfo: a later product with the same id replaces an
\* earlier one.
CatalogOf(l) ==
    [p \in Products |->
        IF Indices(l, p) = {} THEN NoActivity
        ELSE l[CHOOSE i \in Indices(l, p) : \A j \in Indices(l, p) : j <= i]]

\* A service starts (again) and loads the list, or fails to and has none.
LoadSecConf(s) ==
    /\ \/ exists /\ catalog' = [catalog EXCEPT ![s] = CatalogOf(data)]
       \/ (~exists \/ Faulty) /\ catalog' = [catalog EXCEPT ![s] = NothingSold]
    /\ UNCHANGED <<rows, znode, pc, call, history>>

-----------------------------------------------------------------------------
CreateStep(a) == \/ InsertRow(a) \/ InsertFail(a) \/ ReadList(a)
                 \/ ReadListFail(a) \/ TestExists(a) \/ SetList(a)
                 \/ CreateList(a) \/ WriteFail(a)

Next == \/ \E a \in Activities : CreateStep(a)
        \/ \E s \in Services : LoadSecConf(s)

Spec == Init /\ [][Next]_catalogVars

-----------------------------------------------------------------------------
(* Properties *)

Sold(s) == Range(catalog[s]) \ {NoActivity}

\* Whatever is published or on sale has a row in the database: the insert
\* comes first and its failure ends the call (activity.go 64-68).
EntriesBacked ==
    published \cup UNION {Sold(s) : s \in Services} \subseteq rows

\* Overlapping read-append-write sequences (activity.go 83-117) do not undo
\* each other: unless a call overwrites the list after a failed read, what
\* was ever published stays published.
NothingLost == blind = {} => published \subseteq Range(data)

\* What a service sells is the product list as it was at one moment, each
\* product id with the terms that were last in it (zk.go 79-88), however
\* reads, writes and restarts of the services interleave; so the catalogues
\* of any two services are nested.
SnapshotOfList ==
    blind = {} =>
        \A s \in Services : \E n \in 0..Len(data) : \A p \in Products :
            IF \A i \in 1..n : ProductOf[data[i]] # p
            THEN catalog[s][p] = NoActivity
            ELSE \E i \in 1..n :
                     /\ ProductOf[data[i]] = p /\ catalog[s][p] = data[i]
                     /\ \A j \in 1..n : j > i => ProductOf[data[j]] # p

\* "create or update" (activity.go 112): when no call is under way, every
\* activity whose creation returned nil is in the list.
CreatedIsPublished ==
    Active = {} => \A a \in Activities : pc[a] = "ok" => a \in Range(data)
=============================================================================
