--------------------------- MODULE SessionCookies ---------------------------
(***************************************************************************)
(* The three cookies of one browser: access_token, refresh_token and       *)
(* session_info, the one its scripts can read.  A request carries the      *)
(* cookies the browser holds when it is sent; its answer may set some and  *)
(* clear others, and answers arrive in any order.  One that is lost stays  *)
(* under way for ever.                                                     *)
(*                                                                         *)
(* A cookie is modelled by the request whose answer last wrote it, which   *)
(* says what it holds: the token of a login, an access token minted from   *)
(* a login's session, or nothing if that answer cleared it.                *)
(***************************************************************************)
EXTENDS FiniteSets, Naturals

CONSTANTS
    Users,       \* who log in from this browser
    Requests,
    Kinds,       \* the kinds of request there are, a subset of AllKinds
    RedisFails,  \* may a call to Redis reject?
    MaxAtOnce    \* bound on the requests under way together

Nobody == "nobody"

\* "login" stands for a login by password, and for one with Google from its callback to the
\* answer to the claim of its code; "call" for any route behind authenticate.
AllKinds == {"login", "logout", "refreshToken", "call", "changePassword"}

ASSUME CookieAssumption ==
    /\ Kinds \subseteq AllKinds /\ RedisFails \in BOOLEAN /\ MaxAtOnce \in Nat
    /\ Nobody \notin Requests

Cookies == {"access", "refresh", "info"}

VARIABLES
    jar,     \* cookie -> the request whose answer last wrote it
    stored,  \* auth:refresh:<uid> -> the login whose token it holds
    req,     \* requests: kind, user of a login, stage, the cookies they carry, the login
             \*           whose session they act in (a login's own once it is stored), the
             \*           cookies their answers write
    spent,   \* requests whose access token has expired
    beside,  \* history: requests that were under way together
    ended    \* history: sessions ended by a logout, a password change, or elsewhere

vars == <<jar, stored, req, spent, beside, ended>>

NoCookies == [c \in Cookies |-> Nobody]

Init ==
    /\ jar = NoCookies
    /\ stored = [u \in Users |-> Nobody]
    /\ req = [r \in Requests |-> [kind |-> Nobody, user |-> Nobody, stage |-> "idle",
                                  with |-> NoCookies, session |-> Nobody, writes |-> {}]]
    /\ spent = {}
    /\ beside = [r \in Requests |-> {}]
    /\ ended = {}

Is(r, kinds) == r # Nobody /\ req[r].kind \in kinds
UnderWay == {r \in Requests : req[r].stage \in {"sent", "stored", "answered"}}

\* A login's own session, or the one that a later request found itself in
SessionOf(r) == IF Is(r, {"login"}) THEN r ELSE req[r].session
UserOf(r) == req[SessionOf(r)].user

\* An answer that clears the tokens: a logout's, and that of a password change which succeeded
Clears(r) == Is(r, {"logout"}) \/ (Is(r, {"changePassword"}) /\ "refresh" \in req[r].writes)

-----------------------------------------------------------------------------
(* The browser                                                             *)

Send(r) ==
    /\ req[r].stage = "idle" /\ Cardinality(UnderWay) < MaxAtOnce
    /\ \E k \in Kinds, u \in Users \cup {Nobody} :
         /\ k = "login" <=> u # Nobody
         /\ req' = [req EXCEPT ![r].kind = k, ![r].user = u, ![r].stage = "sent", ![r].with = jar]
    /\ beside' = [q \in Requests |-> IF q = r THEN UnderWay
                                     ELSE IF q \in UnderWay THEN beside[q] \cup {r} ELSE beside[q]]
    /\ UNCHANGED <<jar, stored, spent, ended>>

\* Set-Cookie and Clear-Cookie headers of an answer
Deliver(r) ==
    /\ req[r].stage = "answered"
    /\ req' = [req EXCEPT ![r].stage = "done"]
    /\ jar' = [c \in Cookies |-> IF c \in req[r].writes THEN r ELSE jar[c]]
    /\ UNCHANGED <<stored, spent, beside, ended>>

-----------------------------------------------------------------------------
(* The server.  Operators no action uses are faulty variants of the one    *)
(* after them.                                                             *)

\* An answer without cookies need not arrive to be over.
Answered(writes) == IF writes = {} THEN "done" ELSE "answered"

Answer(r, session, writes) ==
    /\ req[r].stage = "sent"
    /\ req' = [req EXCEPT ![r].stage = Answered(writes), ![r].session = session, ![r].writes = writes,
                          ![r].with = NoCookies]

\* The user's own session, whichever it is, is deleted from Redis.
End(u, known) ==
    /\ stored' = [stored EXCEPT ![u] = Nobody]
    /\ ended' = ended \cup (({stored[u]} \cup known) \ {Nobody})

LoginUnstored(r) ==
    /\ Is(r, {"login"}) /\ req[r].stage = "sent"
    /\ req' = [req EXCEPT ![r].stage = "stored", ![r].session = r, ![r].with = NoCookies]
    /\ UNCHANGED <<jar, stored, spent, beside, ended>>

\* The token is stored, by a login with Google in its callback.
LoginStores(r) ==
    /\ Is(r, {"login"}) /\ req[r].stage = "sent"
    /\ req' = [req EXCEPT ![r].stage = "stored", ![r].session = r, ![r].with = NoCookies]
    /\ stored' = [stored EXCEPT ![req[r].user] = r]
    /\ UNCHANGED <<jar, spent, beside, ended>>

AnswersWithoutInfo(r) ==
    /\ req[r].stage = "stored"
    /\ req' = [req EXCEPT ![r].stage = "answered", ![r].writes = {"access", "refresh"}]
    /\ UNCHANGED <<jar, stored, spent, beside, ended>>

\* The login is answered, or the claim is; or there are no cookies, for Redis rejected although
\* it had stored the token, or the code has expired.
LoginAnswers(r) ==
    /\ req[r].stage = "stored"
    /\ \E w \in {Cookies, {}} :
         req' = [req EXCEPT ![r].stage = Answered(w), ![r].writes = w]
    /\ UNCHANGED <<jar, stored, spent, beside, ended>>

\* If the token cannot be stored the login answers 500.
LoginFails(r) ==
    /\ RedisFails
    /\ Is(r, {"login"}) /\ Answer(r, Nobody, {})
    /\ UNCHANGED <<jar, stored, spent, beside, ended>>

Login(r) == LoginStores(r) \/ LoginAnswers(r) \/ LoginFails(r)

LogoutKeepsAccess(r) ==
    /\ Is(r, {"logout"})
    /\ Answer(r, Nobody, {"refresh", "info"})
    /\ IF Is(req[r].with["refresh"], {"login"})
         THEN End(UserOf(req[r].with["refresh"]), {req[r].with["refresh"]})
         ELSE UNCHANGED <<stored, ended>>
    /\ UNCHANGED <<jar, spent, beside>>

\* The refresh cookie names the user; the session deleted is the one that is stored, and it is
\* deleted unless Redis fails.  The answer is the same in every case.
Logout(r) ==
    /\ Is(r, {"logout"})
    /\ Answer(r, Nobody, Cookies)
    /\ LET l == req[r].with["refresh"] IN
         \/ Is(l, {"login"}) /\ End(req[l].user, {l})
         \/ (Is(l, {"login"}) => RedisFails) /\ UNCHANGED <<stored, ended>>
    /\ UNCHANGED <<jar, spent, beside>>

HasAccess(r) ==
    LET a == req[r].with["access"] IN
    a # Nobody /\ ~Clears(a) /\ a \notin spent

HasSession(r) ==
    LET l == req[r].with["refresh"] IN Is(l, {"login"}) /\ stored[req[l].user] = l

\* resolveSession: the access cookie if it is valid, or else the refresh cookie, if it is the
\* one stored; the latter puts a new access cookie into the answer.
In(r, session, writes) ==
    \/ /\ HasAccess(r)
       /\ session = SessionOf(req[r].with["access"]) /\ writes = {}
    \/ /\ ~HasAccess(r) /\ HasSession(r)
       /\ session = req[r].with["refresh"] /\ writes = {"access"}

Renewals == {Nobody} \cup Requests

\* Refused with 401, as it is when Redis fails; or answered with what authenticate wrote.
Call(r) ==
    /\ Is(r, {"call", "changePassword"})
    /\ \/ \E s \in Renewals, w \in {{}, {"access"}} : In(r, s, w) /\ Answer(r, s, w)
       \/ ~HasAccess(r) /\ (HasSession(r) => RedisFails) /\ Answer(r, Nobody, {})
    /\ UNCHANGED <<jar, stored, spent, beside, ended>>

\* Always by the refresh cookie
RefreshToken(r) ==
    /\ Is(r, {"refreshToken"})
    /\ \/ HasSession(r) /\ Answer(r, req[r].with["refresh"], {"access"})
       \/ (HasSession(r) => RedisFails) /\ Answer(r, Nobody, {})
    /\ UNCHANGED <<jar, stored, spent, beside, ended>>

\* A password change that fails answers as any call does.
ChangePassword(r) ==
    /\ Is(r, {"changePassword"})
    /\ \E s \in Renewals, w \in {{}, {"access"}} :
         In(r, s, w) /\ Answer(r, s, {"access", "refresh"}) /\ End(UserOf(s), {})
    /\ UNCHANGED <<jar, spent, beside>>

\* 15 minutes, which no request is under way for
AccessExpires(r) ==
    /\ req[r].stage = "done" /\ "access" \in req[r].writes /\ ~Clears(r) /\ r \notin spent
    /\ spent' = spent \cup {r}
    /\ UNCHANGED <<jar, stored, req, beside, ended>>

\* By a login on another device, a reset of the password, an administrator, or the week
EndElsewhere(u) ==
    /\ stored[u] # Nobody
    /\ End(u, {})
    /\ UNCHANGED <<jar, req, spent, beside>>

Next ==
    \/ \E r \in Requests :
         \/ Send(r) \/ Deliver(r)
         \/ Login(r) \/ Logout(r) \/ Call(r) \/ RefreshToken(r) \/ ChangePassword(r)
         \/ AccessExpires(r)
    \/ \E u \in Users : EndElsewhere(u)

Spec == Init /\ [][Next]_vars

-----------------------------------------------------------------------------
(* Properties                                                              *)

\* The access cookie is of the session that the refresh cookie is of, and gone when that is
\* gone: so no logout leaves one behind, and no user acts in the session of another who used
\* the browser before.  Only an answer that was under way beside the one that wrote the
\* refresh cookie can leave an access cookie of another session, until it expires.
CookiesAgree ==
    LET a == jar["access"]  b == jar["refresh"] IN
    a # b => a # Nobody /\ b # Nobody /\ (req[a].session = b \/ a \in beside[b])

\* session_info tells of the login that the refresh cookie is of, and nothing once a logout has
\* cleared that; only a password change, which leaves it as it was, parts the two.
InfoTells == jar["info"] = jar["refresh"] \/ Is(jar["refresh"], {"changePassword"})

\* The refresh cookie is good for the stored session until that is ended, unless another login
\* of the same user has stored its token: one that ran beside the one that wrote the cookie,
\* has not arrived, or ended without cookies.
RefreshCookieWorks ==
    LET l == jar["refresh"] IN
    Is(l, {"login"}) /\ l \notin ended =>
        \/ stored[req[l].user] = l
        \/ \E s \in Requests :
              /\ Is(s, {"login"}) /\ s # l /\ req[s].user = req[l].user /\ req[s].session = s
              /\ s \in beside[l] \/ req[s].stage # "done" \/ req[s].writes = {}

-----------------------------------------------------------------------------
(* What the documents say and the code does not do: README.md shows, for   *)
(* each, how to see it fail.                                               *)

\* docs/auth-flow.md: the refresh token is deleted on logout, enabling instant revocation.
LogoutRevokes ==
    [][\A r \in Requests :
         LET l == req[r].with["refresh"] IN
         req'[r].stage = "answered" /\ Is(r, {"logout"}) /\ Is(l, {"login"})
           => stored'[req[l].user] # l]_vars

\* src/App/Auth/const.ts: the frontend reads session_info to know if a session exists.
InfoMeansSession == Is(jar["info"], {"login"}) => Is(jar["refresh"], {"login"})
=============================================================================
