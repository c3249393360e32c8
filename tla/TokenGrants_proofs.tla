------------------------- MODULE TokenGrants_proofs -------------------------
(***************************************************************************)
(* What a token proves although nothing is stored: for any users, clients, *)
(* validities and number of concurrent requests, what is accepted          *)
(* descends from a password that was accepted.                             *)
(***************************************************************************)
EXTENDS TokenGrants, TLAPS

Who     == [user : Users \cup {"stranger"}, client : Clients, authorities : SUBSET {"Admin", "Simple"}]
Token   == [details : Who, exp : Int, from : Nat]
Ops     == {"refresh", "check", "grpc", "simple", "admin"}
Request == [op : Ops, token : Nat, since : Nat]

GrantTypes ==
    /\ now \in Nat
    /\ signed \in Seq(Token)
    /\ logins \subseteq Who
    /\ handling \in [Handlers -> {Idle} \cup Request]

\* Only an administrator has ever logged in with the authority of one.
LoginsTrue == \A d \in logins : "Admin" \in d.authorities => d.user \in AdminUsers

\* A request between its readings holds a token that was good when it came.
HoldsGood == \A h \in Handlers : handling[h] # Idle =>
                /\ Held(h) \in DOMAIN signed
                /\ handling[h].since < signed[Held(h)].exp

AnswerTrue == /\ answer.kind \in {"details", "empty"} => answer.token \in DOMAIN signed
              /\ AcceptedTruthful /\ EmptyExplained

GrantInv == GrantTypes /\ LoginsTrue /\ DescentSound /\ HoldsGood /\ AnswerTrue

(* ------------------------------- sequences ----------------------------- *)

LEMMA ElementOf ==
    ASSUME NEW T, NEW s \in Seq(T), NEW t \in DOMAIN s
    PROVE  s[t] \in T /\ t \in 1 .. Len(s)
  OBVIOUS

LEMMA SignedToken ==
    ASSUME signed \in Seq(Token), NEW t \in DOMAIN signed
    PROVE  /\ t \in 1 .. Len(signed)
           /\ signed[t].details \in Who /\ signed[t].exp \in Int /\ signed[t].from \in Nat
  <1>1. signed[t] \in Token /\ t \in 1 .. Len(signed)
    BY ElementOf
  <1> QED
    BY <1>1 DEF Token

LEMMA PairAppended ==
    ASSUME NEW T, NEW s \in Seq(T), NEW a \in T, NEW b \in T
    PROVE  LET r == s \o <<a, b>> IN
           /\ r \in Seq(T)
           /\ \A t \in DOMAIN s : t \in DOMAIN r /\ r[t] = s[t]
           /\ \A t \in DOMAIN r \ DOMAIN s : r[t] \in {a, b} /\ t > Len(s)
           /\ Len(s) \in Nat /\ DOMAIN s = 1 .. Len(s) /\ DOMAIN r = 1 .. Len(s) + 2
  OBVIOUS

(* ------------------------- kinds of steps ------------------------------ *)

\* Steps that sign nothing and shed no doubt on what is held or was said.
LEMMA Refusal ==
    ASSUME GrantInv, UNCHANGED <<now, signed, logins, handling>>, answer' = Error
    PROVE  GrantInv'
  <1>1. answer'.kind = "error"
    BY DEF Error
  <1> QED
    BY <1>1 DEF GrantInv, GrantTypes, LoginsTrue, DescentSound, HoldsGood, Held, AnswerTrue,
                AcceptedTruthful, EmptyExplained

LEMMA Holding ==
    ASSUME GrantInv, NEW h \in Handlers, NEW op \in Ops, NEW t \in Nat,
           Reads(t), Hold(h, op, t)
    PROVE  GrantInv'
  <1>1. /\ t \in DOMAIN signed /\ now \in Nat
        /\ signed[t].exp \in Int /\ now < signed[t].exp
    <2>1. signed \in Seq(Token) /\ now \in Nat
      BY DEF GrantInv, GrantTypes
    <2>2. t \in DOMAIN signed /\ ~(signed[t].exp <= now)
      BY DEF Reads, Extract, IsExpired
    <2> QED
      BY <2>1, <2>2, SignedToken
  <1>2. /\ UNCHANGED <<now, signed, logins, answer>>
        /\ handling' = [handling EXCEPT ![h] = [op |-> op, token |-> t, since |-> now]]
    BY DEF Hold
  <1>3. [op |-> op, token |-> t, since |-> now] \in Request
    BY <1>1 DEF Request
  <1>4. GrantTypes' /\ LoginsTrue' /\ DescentSound' /\ AnswerTrue'
    BY <1>2, <1>3 DEF GrantInv, GrantTypes, LoginsTrue, DescentSound, AnswerTrue,
                      AcceptedTruthful, EmptyExplained
  <1>5. HoldsGood'
    BY <1>1, <1>2 DEF GrantInv, GrantTypes, HoldsGood, Held
  <1> QED
    BY <1>4, <1>5 DEF GrantInv

\* A pair is signed for details that are or become those of a login, from
\* nothing or from a token that is good.
LEMMA Granting ==
    ASSUME GrantInv, UNCHANGED now, answer' = Tokens,
           NEW d \in Who, NEW from \in Nat,
           from # 0 => from \in DOMAIN signed /\ signed[from].details = d /\ now <= signed[from].exp,
           signed' = signed \o CreateAccessToken(d, from),
           logins \subseteq logins', logins' \subseteq logins \cup {d}, d \in logins',
           "Admin" \in d.authorities => d.user \in AdminUsers,
           handling' \in [Handlers -> {Idle} \cup Request],
           \A h \in Handlers : handling'[h] # Idle => handling'[h] = handling[h]
    PROVE  GrantInv'
  <1> DEFINE a == Sign(d, from, RefreshValidity)
             b == Sign(d, from, AccessValidity)
  <1>1. a \in Token /\ b \in Token /\ signed \in Seq(Token)
    BY GrantAssumption DEF GrantInv, GrantTypes, Token, Sign
  <1>2. signed' = signed \o <<a, b>>
    BY DEF CreateAccessToken
  <1>3. \A t \in {a, b} : /\ t.details = d /\ t.from = from
                          /\ \E validity \in {AccessValidity, RefreshValidity} : t.exp = now + validity
    BY DEF Sign
  <1> HIDE DEF a, b
  <1>4. /\ signed' \in Seq(Token)
        /\ \A t \in DOMAIN signed : t \in DOMAIN signed' /\ signed'[t] = signed[t]
        /\ \A t \in DOMAIN signed' \ DOMAIN signed : signed'[t] \in {a, b} /\ t > Len(signed)
        /\ Len(signed) \in Nat
        /\ DOMAIN signed = 1 .. Len(signed) /\ DOMAIN signed' = 1 .. Len(signed) + 2
    BY <1>1, <1>2, PairAppended
  <1>5. GrantTypes'
    BY <1>4 DEF GrantInv, GrantTypes
  <1>6. LoginsTrue'
    BY DEF GrantInv, LoginsTrue
  <1>7. DescentSound'
    <2> SUFFICES ASSUME NEW t \in DOMAIN signed'
                 PROVE  /\ signed'[t].details \in logins'
                        /\ signed'[t].from # 0 =>
                              /\ signed'[t].from < t
                              /\ signed'[signed'[t].from].details = signed'[t].details
                              /\ \E validity \in {AccessValidity, RefreshValidity} :
                                    signed'[t].exp - validity <= signed'[signed'[t].from].exp
      BY DEF DescentSound
    <2>1. CASE t \in DOMAIN signed
      <3>1. /\ signed[t].details \in logins
            /\ signed[t].from # 0 =>
                  /\ signed[t].from < t
                  /\ signed[signed[t].from].details = signed[t].details
                  /\ \E validity \in {AccessValidity, RefreshValidity} :
                        signed[t].exp - validity <= signed[signed[t].from].exp
        BY <2>1 DEF GrantInv, DescentSound
      <3>2. signed[t].from \in Nat /\ t \in 1 .. Len(signed)
        BY <1>1, <2>1, SignedToken
      <3>3. signed'[t] = signed[t]
        BY <1>4, <2>1
      <3>4. ASSUME signed[t].from # 0
            PROVE  signed'[signed[t].from] = signed[signed[t].from]
        <4>1. signed[t].from \in 1 .. Len(signed)
          BY <1>4, <3>1, <3>2, <3>4
        <4> QED
          BY <1>4, <4>1
      <3> QED
        BY <3>1, <3>3, <3>4
    <2>2. CASE t \notin DOMAIN signed
      <3>1. signed'[t].details = d /\ signed'[t].from = from
        BY <1>3, <1>4, <2>2
      <3>2. PICK validity \in {AccessValidity, RefreshValidity} : signed'[t].exp = now + validity
        BY <1>3, <1>4, <2>2
      <3>3. CASE from = 0
        BY <3>1, <3>3
      <3>4. CASE from # 0
        <4>1. from \in DOMAIN signed /\ signed[from].details = d /\ now <= signed[from].exp
          BY <3>4
        <4>2. from < t /\ signed'[from] = signed[from]
          BY <1>4, <2>2, <4>1
        <4>3. signed[from].exp \in Int /\ now \in Nat /\ validity \in Nat
          BY <1>1, <4>1, SignedToken, GrantAssumption DEF GrantInv, GrantTypes
        <4>4. signed'[t].exp - validity <= signed'[from].exp
          BY <3>2, <4>1, <4>2, <4>3
        <4> QED
          BY <3>1, <4>1, <4>2, <4>4
      <3> QED
        BY <3>3, <3>4
    <2> QED
      BY <2>1, <2>2
  <1>8. HoldsGood'
    BY <1>4 DEF GrantInv, HoldsGood, Held
  <1>9. AnswerTrue'
    BY DEF Tokens, AnswerTrue, AcceptedTruthful, EmptyExplained
  <1> QED
    BY <1>5, <1>6, <1>7, <1>8, <1>9 DEF GrantInv

\* The last step of an operation that signs nothing.
LEMMA Releasing ==
    ASSUME GrantInv, NEW h \in Handlers, Release(h), UNCHANGED <<now, signed, logins>>, AnswerTrue'
    PROVE  GrantInv'
  <1>1. handling' = [handling EXCEPT ![h] = Idle]
    BY DEF Release
  <1>2. GrantTypes' /\ LoginsTrue' /\ DescentSound'
    BY <1>1 DEF GrantInv, GrantTypes, LoginsTrue, DescentSound
  <1>3. HoldsGood'
    BY <1>1 DEF GrantInv, GrantTypes, HoldsGood, Held
  <1> QED
    BY <1>2, <1>3 DEF GrantInv

\* What is known of a request between its readings.
LEMMA HeldToken ==
    ASSUME GrantInv, NEW h \in Handlers, handling[h].op \in Ops
    PROVE  /\ Held(h) \in DOMAIN signed /\ handling[h].since < signed[Held(h)].exp
           /\ Held(h) \in Nat /\ handling[h].since \in Nat /\ now \in Nat
           /\ signed[Held(h)].details \in Who /\ signed[Held(h)].exp \in Int
           /\ signed[Held(h)].details \in logins
  <1>1. handling[h] # Idle
    BY DEF Idle, Ops
  <1>2. handling[h] \in Request
    BY <1>1 DEF GrantInv, GrantTypes
  <1>3. Held(h) \in Nat /\ handling[h].since \in Nat
    BY <1>2 DEF Held, Request
  <1>4. Held(h) \in DOMAIN signed /\ handling[h].since < signed[Held(h)].exp
    BY <1>1 DEF GrantInv, HoldsGood
  <1>5. signed \in Seq(Token) /\ now \in Nat
    BY DEF GrantInv, GrantTypes
  <1>6. signed[Held(h)].details \in Who /\ signed[Held(h)].exp \in Int
    BY <1>4, <1>5, SignedToken
  <1>7. signed[Held(h)].details \in logins
    BY <1>4 DEF GrantInv, DescentSound
  <1> QED
    BY <1>3, <1>4, <1>5, <1>6, <1>7

\* The second reading fails after the first: the token expired in between.
LEMMA Emptied ==
    ASSUME GrantInv, NEW h \in Handlers, handling[h].op = "refresh",
           ~ReadsDetails(Held(h)), Release(h), Empty(h)
    PROVE  GrantInv'
  <1>1. handling[h].op \in Ops
    BY DEF Ops
  <1>2. /\ Held(h) \in DOMAIN signed /\ handling[h].since < signed[Held(h)].exp
        /\ signed[Held(h)].exp < now
    BY <1>1, HeldToken DEF ReadsDetails, Extract
  <1>3. UNCHANGED <<now, signed, logins>>
    BY DEF Release, Empty
  <1>4. answer' = [kind |-> "empty", token |-> Held(h), since |-> handling[h].since]
    BY DEF Empty
  <1>5. AnswerTrue'
    BY <1>2, <1>3, <1>4 DEF AnswerTrue, AcceptedTruthful, EmptyExplained
  <1> QED
    BY <1>3, <1>5, Releasing

LEMMA Showing ==
    ASSUME GrantInv, NEW h \in Handlers, handling[h].op \in Ops,
           handling[h].op = "admin" => Permitted(signed[Held(h)].details, "Admin"),
           Release(h), Shown(h)
    PROVE  GrantInv'
  <1>1. /\ Held(h) \in DOMAIN signed /\ handling[h].since < signed[Held(h)].exp
        /\ signed[Held(h)].details \in logins
    BY HeldToken
  <1>2. UNCHANGED <<now, signed, logins>>
    BY DEF Release, Shown
  <1>3. answer' = [kind |-> "details", op |-> handling[h].op, token |-> Held(h),
                   since |-> handling[h].since, details |-> signed[Held(h)].details]
    BY DEF Shown
  <1>4. handling[h].op = "admin" => signed[Held(h)].details.user \in AdminUsers
    BY <1>1 DEF Permitted, GrantInv, LoginsTrue
  <1>5. AnswerTrue'
    BY <1>1, <1>2, <1>3, <1>4 DEF AnswerTrue, AcceptedTruthful, EmptyExplained
  <1> QED
    BY <1>2, <1>5, Releasing

LEMMA Denying ==
    ASSUME GrantInv, NEW h \in Handlers, Release(h), Denied
    PROVE  GrantInv'
  <1>1. UNCHANGED <<now, signed, logins>> /\ answer' = Error
    BY DEF Release, Denied
  <1>2. AnswerTrue'
    BY <1>1 DEF Error, AnswerTrue, AcceptedTruthful, EmptyExplained
  <1> QED
    BY <1>1, <1>2, Releasing

\* The exchange of a refresh token that is still good.
LEMMA Exchanging ==
    ASSUME GrantInv, NEW h \in Handlers, handling[h].op = "refresh",
           ReadsDetails(Held(h)), Release(h),
           Grant(CreateAccessToken(signed[Held(h)].details, Held(h)))
    PROVE  GrantInv'
  <1> DEFINE d == signed[Held(h)].details
  <1>1. handling[h].op \in Ops
    BY DEF Ops
  <1>2. /\ Held(h) \in DOMAIN signed /\ Held(h) \in Nat
        /\ d \in Who /\ d \in logins /\ now <= signed[Held(h)].exp
    BY <1>1, HeldToken DEF ReadsDetails, Extract
  <1>3. "Admin" \in d.authorities => d.user \in AdminUsers
    BY <1>2 DEF GrantInv, LoginsTrue
  <1>4. /\ UNCHANGED <<now, logins>> /\ answer' = Tokens
        /\ signed' = signed \o CreateAccessToken(d, Held(h))
        /\ handling' = [handling EXCEPT ![h] = Idle]
    BY DEF Grant, Release
  <1>5. /\ handling' \in [Handlers -> {Idle} \cup Request]
        /\ \A k \in Handlers : handling'[k] # Idle => handling'[k] = handling[k]
    BY <1>4 DEF GrantInv, GrantTypes
  <1> HIDE DEF d
  <1> QED
    BY <1>2, <1>3, <1>4, <1>5, Granting DEF d

\* A login, with the details of either server.
LEMMA LoggingIn ==
    ASSUME GrantInv, NEW d \in Who, "Admin" \in d.authorities => d.user \in AdminUsers,
           Login(d, CreateAccessToken(d, 0))
    PROVE  GrantInv'
  <1>1. /\ UNCHANGED <<now, handling>> /\ answer' = Tokens
        /\ logins' = logins \cup {d}
        /\ signed' = signed \o CreateAccessToken(d, 0)
    BY DEF Login, Grant
  <1>2. /\ handling' \in [Handlers -> {Idle} \cup Request]
        /\ \A k \in Handlers : handling'[k] # Idle => handling'[k] = handling[k]
    BY <1>1 DEF GrantInv, GrantTypes
  <1> QED
    BY <1>1, <1>2, Granting

(* ------------------------------ the servers ---------------------------- *)

\* Requests that are refused, or pass their first reading.
LEMMA FirstReading ==
    ASSUME GrantInv, NEW h \in Handlers, NEW op \in Ops, NEW t \in 0 .. Len(signed),
           IF Reads(t) THEN Hold(h, op, t) ELSE Refuse
    PROVE  GrantInv'
  <1>1. t \in Nat
    BY DEF GrantInv, GrantTypes
  <1>2. CASE Reads(t)
    BY <1>1, <1>2, Holding
  <1>3. CASE ~Reads(t)
    BY <1>3, Refusal DEF Refuse
  <1> QED
    BY <1>2, <1>3

LEMMA Ch13Step ==
    ASSUME GrantInv, NEW h \in Handlers, Ch13(h)
    PROVE  GrantInv'
  <1>1. CASE Limited(h) \/ Undecoded(h) \/ Unauthorised(h) \/ UnsupportedGrant(h)
    BY <1>1, Refusal DEF Limited, Undecoded, Unauthorised, UnsupportedGrant, Refuse
  <1>2. CASE PasswordGrant(h)
    <2>1. PICK u \in Users \cup {"stranger"}, c \in Clients, remote \in BOOLEAN :
             IF remote THEN Login(Details(u, c), CreateAccessToken(Details(u, c), 0)) ELSE Refuse
      BY <1>2 DEF PasswordGrant, RemoteUser
    <2>2. Details(u, c) \in Who /\ "Admin" \notin Details(u, c).authorities
      BY DEF Details, Who
    <2> QED
      BY <2>1, <2>2, LoggingIn, Refusal DEF Refuse
  <1>3. CASE RefreshGrant(h)
    BY <1>3, FirstReading DEF RefreshGrant, Ops
  <1>4. CASE RefreshAccessToken(h)
    BY <1>4, Exchanging, Emptied DEF RefreshAccessToken
  <1>5. CASE CheckToken(h) \/ GRPCCheckToken(h)
    BY <1>5, FirstReading DEF CheckToken, GRPCCheckToken, Ops
  <1>6. CASE CheckTokenEnd(h)
    BY <1>6, Showing, Denying DEF CheckTokenEnd, Ops
  <1> QED
    BY <1>1, <1>2, <1>3, <1>4, <1>5, <1>6 DEF Ch13

LEMMA Ch11Step ==
    ASSUME GrantInv, NEW h \in Handlers, Ch11(h)
    PROVE  GrantInv'
  <1> USE DEF Ch11Reads, Ch11ReadsDetails, Ch11Extract, Ch11IsExpired, Ch11CreateAccessToken
  <1>1. CASE Ch11Undecoded(h) \/ Ch11Unauthorised(h) \/ Ch11UnsupportedGrant(h)
    BY <1>1, Refusal DEF Ch11Undecoded, Ch11Unauthorised, Ch11UnsupportedGrant, Refuse
  <1>2. CASE Ch11PasswordGrant(h)
    <2>1. PICK u \in Users \cup {"stranger"}, c \in Clients :
             IF InMemoryUser(u) THEN Login(Ch11Details(u, c), CreateAccessToken(Ch11Details(u, c), 0))
             ELSE Refuse
      BY <1>2 DEF Ch11PasswordGrant
    <2>2. /\ Ch11Details(u, c) \in Who
          /\ "Admin" \in Ch11Details(u, c).authorities => Ch11Details(u, c).user \in AdminUsers
      BY DEF Ch11Details, Who
    <2> QED
      BY <2>1, <2>2, LoggingIn, Refusal DEF Refuse
  <1>3. CASE Ch11RefreshGrant(h)
    BY <1>3, FirstReading DEF Ch11RefreshGrant, Ops, Reads
  <1>4. CASE Ch11RefreshAccessToken(h)
    BY <1>4, Exchanging, Emptied DEF Ch11RefreshAccessToken, ReadsDetails
  <1>5. CASE Ch11CheckToken(h) \/ Ch11Resource(h)
    BY <1>5, FirstReading DEF Ch11CheckToken, Ch11Resource, Ops, Reads
  <1>6. CASE Ch11Open(h)
    BY <1>6, Showing, Denying DEF Ch11Open, Ops
  <1> QED
    BY <1>1, <1>2, <1>3, <1>4, <1>5, <1>6 DEF Ch11

(* ------------------------------- theorems ------------------------------ *)

LEMMA GrantInitially == GrantInit => GrantInv
  BY DEF GrantInit, GrantInv, GrantTypes, LoginsTrue, DescentSound, HoldsGood, AnswerTrue,
         AcceptedTruthful, EmptyExplained, Idle

LEMMA GrantStep == GrantInv /\ [GrantNext]_grantVars => GrantInv'
  <1> SUFFICES ASSUME GrantInv, [GrantNext]_grantVars PROVE GrantInv'
    OBVIOUS
  <1>1. CASE Tick
    <2>1. now' = now + 1 /\ now \in Nat /\ UNCHANGED <<signed, logins, handling, answer>>
      BY <1>1 DEF Tick, GrantInv, GrantTypes
    <2>2. AnswerTrue'
      <3>1. answer.kind = "empty" => signed[answer.token].exp \in Int
        BY SignedToken DEF GrantInv, GrantTypes, AnswerTrue
      <3> QED
        BY <2>1, <3>1 DEF GrantInv, AnswerTrue, AcceptedTruthful, EmptyExplained
    <2> QED
      BY <2>1, <2>2 DEF GrantInv, GrantTypes, LoginsTrue, DescentSound, HoldsGood, Held
  <1>2. ASSUME NEW h \in Handlers, Ch13(h) \/ Ch11(h) PROVE GrantInv'
    BY <1>2, Ch13Step, Ch11Step
  <1>3. CASE UNCHANGED grantVars
    BY <1>3 DEF grantVars, GrantInv, GrantTypes, LoginsTrue, DescentSound, HoldsGood, Held,
                AnswerTrue, AcceptedTruthful, EmptyExplained
  <1> QED
    BY <1>1, <1>2, <1>3 DEF GrantNext

LEMMA GrantInvariant == GrantSpec => []GrantInv
  BY GrantInitially, GrantStep, PTL DEF GrantSpec

\* Every token descends, by value and in time, from an accepted password.
THEOREM DescentProved == GrantSpec => []DescentSound
  <1>1. GrantInv => DescentSound
    BY DEF GrantInv
  <1> QED
    BY <1>1, GrantInvariant, PTL

\* A token that is accepted was good when it came and belongs to a login; the
\* admin resource opens for administrators only.
THEOREM AcceptedProved == GrantSpec => []AcceptedTruthful
  <1>1. GrantInv => AcceptedTruthful
    BY DEF GrantInv, AnswerTrue
  <1> QED
    BY <1>1, GrantInvariant, PTL

\* Neither token nor error: the refresh token expired between its readings.
THEOREM EmptyProved == GrantSpec => []EmptyExplained
  <1>1. GrantInv => EmptyExplained
    BY DEF GrantInv, AnswerTrue
  <1> QED
    BY <1>1, GrantInvariant, PTL
=============================================================================
