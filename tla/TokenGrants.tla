---------------------------- MODULE TokenGrants ----------------------------
(***************************************************************************)
(* The authorisation servers of chapters 11 and 13: tokens are granted for *)
(* a password or for a refresh token and checked for other services; in    *)
(* chapter 11 they open two resources.  Tokens are signed and nothing is   *)
(* stored: a token is good until it expires, and every operation parses    *)
(* its token twice, the clock moving on in between.  The servers share the *)
(* text of the token service (the Ch11 names below that stand for it);     *)
(* users, clients, endpoints and the rate limiter differ.                  *)
(*                                                                         *)
(* Time counts seconds.  A token is known by its place in the sequence of  *)
(* all tokens ever signed; 0 stands for any other text.                    *)
(***************************************************************************)
EXTENDS Integers, Sequences

CONSTANTS Handlers, Users, Clients,
          AdminUsers,       \* users of chapter 11 with the authority Admin
          AccessValidity, RefreshValidity,
          Burst,            \* 100 in the code
          MaxTime, MaxTokens

ASSUME GrantAssumption ==
    /\ AccessValidity \in Nat /\ RefreshValidity \in Nat /\ Burst \in Nat
    /\ MaxTime \in Nat /\ MaxTokens \in Nat
    /\ AdminUsers \subseteq Users

VARIABLES chapter,      \* which server
          now,          \* time in seconds
          signed,       \* every token signed so far, with its claims
          logins,       \* the details of every password that was accepted
          handling,     \* each handler's request between its two readings
          answer,       \* the last answer any handler gave
          bucket        \* tokens left in the limiter's bucket
grantVars == <<chapter, now, signed, logins, handling, answer, bucket>>

Idle   == [op |-> "idle"]
Error  == [kind |-> "error"]
Tokens == [kind |-> "tokens"]

GrantInit ==
    /\ chapter \in {"ch11", "ch13"}
    /\ now = 0 /\ signed = <<>> /\ logins = {}
    /\ handling = [h \in Handlers |-> Idle]
    /\ answer = [kind |-> "none"]
    /\ bucket = Burst

(* ------------------------------- the token ----------------------------- *)

\* The claims of a token: whose it is, until when, and, for the record, the
\* token it was exchanged for (0 after a login).
Sign(d, from, validity) == [details |-> d, exp |-> now + validity, from |-> from]

\* The signature is ours and jwt finds the token not expired.
\* Variant: the claims are parsed without being validated.
ExtractUnverified(t) == t \in DOMAIN signed
Extract(t) == t \in DOMAIN signed /\ now <= signed[t].exp
Ch11Extract(t) == Extract(t)
\* IsExpired looks at the expiry once more, to the fraction of a second.
IsExpired(t) == signed[t].exp <= now
Ch11IsExpired(t) == IsExpired(t)

\* The first reading of an operation, and the second one for the details.
\* Variant: any token that is ours passes the first reading.
ReadsAny(t) == t \in DOMAIN signed
Reads(t)            == Extract(t) /\ ~IsExpired(t)
Ch11Reads(t)        == Ch11Extract(t) /\ ~Ch11IsExpired(t)
ReadsDetails(t)     == Extract(t)
Ch11ReadsDetails(t) == Ch11Extract(t)

\* A new refresh and a new access token, whatever was granted before: the
\* store's GetAccessToken never has one to return.
CreateAccessToken(d, from)     == <<Sign(d, from, RefreshValidity), Sign(d, from, AccessValidity)>>
Ch11CreateAccessToken(d, from) == CreateAccessToken(d, from)

(* --------------------------- users and clients ------------------------- *)

\* Chapter 11 keeps both in memory.
InMemoryUser(u)   == u \in Users
InMemoryClient(c) == c \in Clients
MysqlClient(c)    == c \in Clients

\* Chapter 13 asks the user service: the row or a failed query, behind a
\* limiter and an endpoint, called over a connection that may fail.
NoUser == "no user"
UserRow(u)    == {NoUser} \cup ({u} \cap Users)
UserAnswer(u) == {"error"} \cup UserRow(u)
RemoteUser(u, reply) == reply \in UserAnswer(u) \ {"error", NoUser}

Details(u, c)     == [user |-> u, client |-> c, authorities |-> {}]
Ch11Details(u, c) == [user |-> u, client |-> c,
                      authorities |-> IF u \in AdminUsers THEN {"Admin"} ELSE {"Simple"}]

(* ------------------------- steps of both servers ----------------------- *)

Refuse == answer' = Error /\ UNCHANGED <<chapter, now, signed, logins, handling>>

\* A pair of tokens becomes the answer.
Grant(pair) == /\ Len(signed) + 2 <= MaxTokens
               /\ signed' = signed \o pair
               /\ answer' = Tokens

Login(d, pair) == Grant(pair) /\ logins' = logins \cup {d} /\ UNCHANGED <<chapter, now, handling>>

\* A token passed the first reading.
Hold(h, op, t) == /\ handling' = [handling EXCEPT ![h] = [op |-> op, token |-> t, since |-> now]]
                  /\ UNCHANGED <<chapter, now, signed, logins, answer>>
Held(h) == handling[h].token
Release(h) == handling' = [handling EXCEPT ![h] = Idle] /\ UNCHANGED <<chapter, now, logins, bucket>>

\* Neither a token nor an error: the inner err of RefreshAccessToken, set
\* when the second reading fails, hides the outer one, which is nil.
Empty(h) == /\ answer' = [kind |-> "empty", token |-> Held(h), since |-> handling[h].since]
            /\ UNCHANGED signed
Shown(h) == /\ answer' = [kind |-> "details", op |-> handling[h].op, token |-> Held(h),
                          since |-> handling[h].since, details |-> signed[Held(h)].details]
            /\ UNCHANGED signed
Denied   == answer' = Error /\ UNCHANGED signed

(* ------------------------------- chapter 13 ---------------------------- *)

Free13(h) == chapter = "ch13" /\ handling[h] = Idle
\* Every endpoint but the health check goes through one limiter.
Allow   == bucket > 0 /\ bucket' = bucket - 1
Limited(h) == Free13(h) /\ bucket = 0 /\ Refuse /\ UNCHANGED bucket

\* No grant type or no token in the request.
Undecoded(h) == Free13(h) /\ Refuse /\ UNCHANGED bucket
\* No client the database has, or a grant type nobody supports.
Unauthorised(h)     == Free13(h) /\ Allow /\ Refuse
UnsupportedGrant(h) == Free13(h) /\ Allow /\ Refuse

PasswordGrant(h) ==
    /\ Free13(h) /\ Allow
    /\ \E u \in Users \cup {"stranger"}, c \in Clients : \E reply \in UserAnswer(u) :
          MysqlClient(c) /\ IF RemoteUser(u, reply)
                            THEN Login(Details(u, c), CreateAccessToken(Details(u, c), 0))
                            ELSE Refuse

RefreshGrant(h) ==
    /\ Free13(h) /\ Allow
    /\ \E t \in 0 .. Len(signed) : IF Reads(t) THEN Hold(h, "refresh", t) ELSE Refuse

RefreshAccessToken(h) ==
    /\ chapter = "ch13" /\ handling[h].op = "refresh" /\ Release(h)
    /\ LET t == Held(h) IN
       IF ReadsDetails(t) THEN Grant(CreateAccessToken(signed[t].details, t)) ELSE Empty(h)

CheckToken(h) ==
    /\ Free13(h) /\ Allow
    /\ \E t \in 0 .. Len(signed) : IF Reads(t) THEN Hold(h, "check", t) ELSE Refuse
\* The call of other services needs no client.
GRPCCheckToken(h) ==
    /\ Free13(h) /\ Allow
    /\ \E t \in 0 .. Len(signed) : IF Reads(t) THEN Hold(h, "grpc", t) ELSE Refuse
CheckTokenEnd(h) ==
    /\ chapter = "ch13" /\ handling[h].op \in {"check", "grpc"} /\ Release(h)
    /\ IF ReadsDetails(Held(h)) THEN Shown(h) ELSE Denied

Ch13(h) == \/ Limited(h) \/ Undecoded(h) \/ Unauthorised(h) \/ UnsupportedGrant(h)
           \/ PasswordGrant(h) \/ RefreshGrant(h) \/ RefreshAccessToken(h)
           \/ CheckToken(h) \/ GRPCCheckToken(h) \/ CheckTokenEnd(h)

(* ------------------------------- chapter 11 ---------------------------- *)

Free11(h) == chapter = "ch11" /\ handling[h] = Idle /\ UNCHANGED bucket

Ch11Undecoded(h)        == Free11(h) /\ Refuse
Ch11Unauthorised(h)     == Free11(h) /\ Refuse
Ch11UnsupportedGrant(h) == Free11(h) /\ Refuse

Ch11PasswordGrant(h) ==
    /\ Free11(h)
    /\ \E u \in Users \cup {"stranger"}, c \in Clients :
          InMemoryClient(c) /\ IF InMemoryUser(u)
                               THEN Login(Ch11Details(u, c), Ch11CreateAccessToken(Ch11Details(u, c), 0))
                               ELSE Refuse

Ch11RefreshGrant(h) ==
    /\ Free11(h)
    /\ \E t \in 0 .. Len(signed) : IF Ch11Reads(t) THEN Hold(h, "refresh", t) ELSE Refuse

Ch11RefreshAccessToken(h) ==
    /\ chapter = "ch11" /\ handling[h].op = "refresh" /\ Release(h)
    /\ LET t == Held(h) IN
       IF Ch11ReadsDetails(t) THEN Grant(Ch11CreateAccessToken(signed[t].details, t)) ELSE Empty(h)

Ch11CheckToken(h) ==
    /\ Free11(h)
    /\ \E t \in 0 .. Len(signed) : IF Ch11Reads(t) THEN Hold(h, "check", t) ELSE Refuse
\* The token of a resource is read before the request is decoded.
Ch11Resource(h) ==
    /\ Free11(h)
    /\ \E t \in 0 .. Len(signed), op \in {"simple", "admin"} :
          IF Ch11Reads(t) THEN Hold(h, op, t) ELSE Refuse

\* The middlewares of the resources.
\* Variant: the authorities are walked through and not compared.
PermittedAny(d, authority) == d.authorities # {}
Permitted(d, authority) == authority \in d.authorities
Ch11Open(h) ==
    /\ chapter = "ch11" /\ handling[h].op \in {"check", "simple", "admin"} /\ Release(h)
    /\ IF /\ Ch11ReadsDetails(Held(h))
          /\ handling[h].op = "admin" => Permitted(signed[Held(h)].details, "Admin")
       THEN Shown(h) ELSE Denied

Ch11(h) == \/ Ch11Undecoded(h) \/ Ch11Unauthorised(h) \/ Ch11UnsupportedGrant(h)
           \/ Ch11PasswordGrant(h) \/ Ch11RefreshGrant(h) \/ Ch11RefreshAccessToken(h)
           \/ Ch11CheckToken(h) \/ Ch11Resource(h) \/ Ch11Open(h)

Tick == /\ now < MaxTime
        /\ now' = now + 1
        /\ bucket' = IF bucket < Burst THEN bucket + 1 ELSE bucket
        /\ UNCHANGED <<chapter, signed, logins, handling, answer>>

GrantNext == Tick \/ \E h \in Handlers : Ch13(h) \/ Ch11(h)
GrantSpec == GrantInit /\ [][GrantNext]_grantVars

(* ------------------------------ properties ----------------------------- *)

\* What is accepted descends from a login: the details a check returns or a
\* resource is opened for are those of an accepted password, through any
\* number of refreshes, the token had not expired when the request came, and
\* the admin resource opens for administrators only (token_service.go:
\* 225-276, ch11-security/endpoint/endpoints.go:40-75).
AcceptedTruthful ==
    answer.kind = "details" =>
        /\ answer.details \in logins
        /\ answer.since < signed[answer.token].exp
        /\ answer.op = "admin" => answer.details.user \in AdminUsers

\* An answer with neither token nor error means that the refresh token
\* expired between its two readings, and nothing else
\* (token_service.go:227-254).
EmptyExplained ==
    answer.kind = "empty" =>
        answer.since < signed[answer.token].exp /\ signed[answer.token].exp < now

\* Every token descends from a login, by value, and from a token that was
\* still good when it was exchanged (token_service.go:225-256, 412-444).
DescentSound ==
    \A t \in DOMAIN signed : LET from == signed[t].from IN
        /\ signed[t].details \in logins
        /\ from # 0 => /\ from < t
                       /\ signed[from].details = signed[t].details
                       /\ \E validity \in {AccessValidity, RefreshValidity} :
                             signed[t].exp - validity <= signed[from].exp

\* A refresh token is exchanged once, as the comment "remove the used
\* refresh token" says (token_service.go:241).
ExchangedOnce ==
    \A t, u \in DOMAIN signed :
        signed[t].from # 0 /\ signed[u].from = signed[t].from => u \in t - 1 .. t + 1
=============================================================================
