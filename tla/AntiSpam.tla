------------------------------ MODULE AntiSpam ------------------------------
(***************************************************************************)
(* The access limits of sk-app: AntiSpam decides about every request from  *)
(* two black lists and from counters per client address for the current    *)
(* second and the current minute.                                          *)
(*                                                                         *)
(* The access time of a request is a field the client fills in, and        *)
(* requests of one address are handled in any order, so times go back as   *)
(* well as forward.  The counters are updated in one critical section and  *)
(* compared after it with values local to the request: one step.           *)
(***************************************************************************)
EXTENDS Integers, Sequences, FiniteSets

CONSTANTS
    Users, Addrs,               \* user ids and client addresses
    Clients,                    \* who asks from where
    Times,                      \* access times found in requests, none negative
    IDBlack, IPBlack,           \* what the two black lists in redis hold
    UserSecAccessLimit, UserMinAccessLimit,
    IPSecAccessLimit, IPMinAccessLimit,
    MaxAccesses                 \* bound on the requests considered

ASSUME AccessAssumption ==
    /\ Users \cap Addrs = {} /\ Clients \subseteq Users \X Addrs
    /\ Times \subseteq Nat
    /\ {UserSecAccessLimit, UserMinAccessLimit,
        IPSecAccessLimit, IPMinAccessLimit} \subseteq Nat
    /\ MaxAccesses \in Nat

VARIABLES
    userLimitMap,   \* UserLimitMap; an absent entry reads as a fresh one
    ipLimitMap,     \* IpLimitMap, likewise
    blackList,      \* IDBlackMap and IPBlackMap
    accesses        \* history variable: the requests so far and the verdicts

accessVars == <<userLimitMap, ipLimitMap, blackList, accesses>>

Counter == [count : Nat, curTime : Nat]
Limit   == [sec : Counter, min : Counter]

FreshLimit == [sec |-> [count |-> 0, curTime |-> 0],
               min |-> [count |-> 0, curTime |-> 0]]

Access == [user : Users, addr : Addrs, time : Times, ok : BOOLEAN]

AccessTypeOK ==
    /\ userLimitMap \in [Users \cup Addrs -> Limit]
    /\ ipLimitMap \in [Addrs -> Limit]
    /\ blackList.ids \subseteq Users /\ blackList.ips \subseteq Addrs
    /\ accesses \in Seq(Access) /\ Len(accesses) <= MaxAccesses
    /\ \A a \in Addrs : /\ ipLimitMap[a].sec.count <= ipLimitMap[a].min.count
                        /\ ipLimitMap[a].min.count <= Len(accesses)

\* loadBlackList, once before the first request: without the first list the
\* second is not read, and what is no user id is passed over.
Loaded == LET ids == IDBlack \cap Users IN
          {[ids |-> {}, ips |-> {}], [ids |-> ids, ips |-> {}], [ids |-> ids, ips |-> IPBlack \cap Addrs]}

Init ==
    /\ blackList \in Loaded
    /\ userLimitMap = [k \in Users \cup Addrs |-> FreshLimit]
    /\ ipLimitMap = [a \in Addrs |-> FreshLimit]
    /\ accesses = <<>>

-----------------------------------------------------------------------------
(* SecLimit.Count and MinLimit.Count: the counter after an access at t.    *)

SecCount(c, t) ==
    IF c.curTime # t THEN [count |-> 1, curTime |-> t]
    ELSE [c EXCEPT !.count = @ + 1]

\* Variant: the window moves with every access.
MinCountSliding(c, t) ==
    IF t - c.curTime > 60 THEN [count |-> 1, curTime |-> t]
    ELSE [count |-> c.count + 1, curTime |-> t]

\* Variant: the window is a second like the other one.
MinCountOfSecond(c, t) ==
    IF t # c.curTime THEN [count |-> 1, curTime |-> t]
    ELSE [c EXCEPT !.count = @ + 1]

MinCount(c, t) ==
    IF t - c.curTime > 60 THEN [count |-> 1, curTime |-> t]
    ELSE [c EXCEPT !.count = @ + 1]

\* The limits of an address after an access at t.
CountIp(l, t) == [sec |-> SecCount(l.sec, t), min |-> MinCount(l.min, t)]

\* The limits of a user after an access at t: the second counter counts
\* twice and the minute counter not at all (anti_spam.go 54-55).
CountUser(l, t) == [l EXCEPT !.sec = SecCount(SecCount(@, t), t)]

\* The limits looked up under the user id.  If there are none a new entry is
\* stored, but under the client address (anti_spam.go 45-51).
UserEntry(u) == userLimitMap[u]

\* The four comparisons.  The first two use the counts of the user's second
\* counter after the first and after the second Count.
Excessive(user, ip) ==
    \/ user.sec.count - 1 > UserSecAccessLimit
    \/ user.sec.count > UserMinAccessLimit
    \/ ip.sec.count > IPSecAccessLimit
    \/ ip.min.count > IPMinAccessLimit

Record(u, a, t, ok) ==
    accesses' = Append(accesses, [user |-> u, addr |-> a, time |-> t, ok |-> ok])

\* A user on the black list is sent away before anything is counted.
RefuseUser(u, a, t) ==
    /\ Len(accesses) < MaxAccesses
    /\ u \in blackList.ids
    /\ Record(u, a, t, FALSE)
    /\ UNCHANGED <<userLimitMap, ipLimitMap, blackList>>

\* Everybody else is counted, an address on the black list as well: its error
\* is set at once but only returned at the end.
Judge(u, a, t) ==
    LET user == CountUser(UserEntry(u), t)
        ip   == CountIp(ipLimitMap[a], t) IN
    /\ Len(accesses) < MaxAccesses
    /\ u \notin blackList.ids
    /\ userLimitMap' = [userLimitMap EXCEPT ![a] = user]
    /\ ipLimitMap' = [ipLimitMap EXCEPT ![a] = ip]
    /\ Record(u, a, t, a \notin blackList.ips /\ ~Excessive(user, ip))
    /\ UNCHANGED blackList

Next == \E c \in Clients, t \in Times :
            RefuseUser(c[1], c[2], t) \/ Judge(c[1], c[2], t)

Spec == Init /\ [][Next]_accessVars

-----------------------------------------------------------------------------
(* Properties *)

\* The requests of one address, and those that claim a time in a period.
From(a) == {i \in 1..Len(accesses) : accesses[i].addr = a}

During(a, from, to) == {i \in From(a) : accesses[i].time \in from..to}

Counted(I)  == {i \in I : accesses[i].user \notin blackList.ids}
Accepted(I) == {i \in I : accesses[i].ok}

\* The requests of an address are handled in the order of their times.
InOrder(a) == \A i, j \in From(a) : i < j => accesses[i].time <= accesses[j].time

\* While its requests are handled in order an address has no more accepted
\* in one second than the limit for a second (sec_limit.go 15-26).
SecondRation ==
    \A a \in Addrs : InOrder(a) =>
        \A t \in Times : Cardinality(Accepted(During(a, t, t))) <= IPSecAccessLimit

\* The minute window is anchored at the first request in it (min_limit.go
\* 15-26), so a period as long as the window meets at most two windows: in
\* order, twice the limit is the most that is ever accepted in 61 seconds.
MinuteRation ==
    \A a \in Addrs : InOrder(a) =>
        \A t \in Times :
            Cardinality(Accepted(During(a, t, t + 60))) <= 2 * IPMinAccessLimit

\* In any order: a request whose time is not more than a minute past that of
\* every earlier request does not open a new minute, so an address that once
\* claimed a time is rationed to one limit for it and all requests up to it.
LateRation ==
    \A a \in Addrs : \A i \in Counted(From(a)) :
        (\A j \in From(a) : accesses[j].time <= accesses[i].time)
            => Cardinality(Accepted({j \in From(a) : j >= i})) <= IPMinAccessLimit

\* What the fixed windows guarantee an observer of the accepted requests.
Rations == SecondRation /\ MinuteRation /\ LateRation

\* Nobody is refused without cause: a refused request comes from a user or
\* an address on a black list that was loaded or, in order, from an address with more
\* requests in that second or in the last minute than the limit allows; and
\* nobody on a black list is accepted, though the error for an address is
\* set sixty lines before it is returned (anti_spam.go 36, 97).
Justified ==
    \A i \in 1..Len(accesses) :
        LET r == accesses[i]
            earlier(I) == {j \in Counted(I) : j <= i} IN
        IF r.user \in blackList.ids \/ r.addr \in blackList.ips THEN ~r.ok
        ELSE r.ok \/ (InOrder(r.addr) =>
                \/ Cardinality(earlier(During(r.addr, r.time, r.time))) > IPSecAccessLimit
                \/ Cardinality(earlier(During(r.addr, r.time - 60, r.time))) > IPMinAccessLimit)
=============================================================================
