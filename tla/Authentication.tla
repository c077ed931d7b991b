---------------------------- MODULE Authentication ----------------------------
(***************************************************************************)
(* How requests of one user are authenticated: by an access token, which   *)
(* nothing can revoke before it expires, or by the refresh token of a      *)
(* login, checked against the one that Redis holds; the latter mints a new *)
(* access token.  A socket handshake takes either without asking Redis.    *)
(*                                                                         *)
(* AccountSessions models how the session in Redis comes and goes under    *)
(* races and failures; here a revocation is one step, and what matters is  *)
(* how long a revoked session, or the role a login has read, lives on.     *)
(***************************************************************************)
EXTENDS Naturals

CONSTANTS
    Logins,      \* the logins of the user, and their refresh tokens
    Requests,    \* HTTP requests and handshakes
    AccessTtl,   \* lifetime of an access token
    RefreshTtl,  \* lifetime of a refresh token, in its JWT and in Redis
    MaxTime      \* bound on the clock

NoLogin == "none"

ASSUME TtlAssumption ==
    /\ NoLogin \notin Logins
    /\ AccessTtl \in Nat /\ RefreshTtl \in Nat /\ MaxTime \in Nat
    /\ 0 < AccessTtl /\ AccessTtl < RefreshTtl

VARIABLES
    now,
    role,     \* of the User document
    login,    \* logins: the time of their start, or Never, and the role they read
    stored,   \* auth:refresh:<uid>: the login whose token it holds, or NoLogin
    tokens,   \* access tokens
    revoking, \* has a role change yet to revoke the session?
    req,      \* requests: stage, and the login and time they are accepted for
    ended,    \* history: when each session last ended, or Never
    late,     \* history: requests that had seen a session when it ended
    demoted,  \* history: how the user lost the admin role, or "no", and when this was complete
    overtaken \* history: logins that had read the admin role and were under way by then

history == <<ended, late, demoted, overtaken>>
vars == <<now, role, login, stored, tokens, revoking, req, history>>

Never == 0
NoToken == [login |-> NoLogin, role |-> "user", exp |-> 0, by |-> "login"]

Init ==
    /\ now = 1
    /\ role = "admin"
    /\ login = [l \in Logins |-> [at |-> Never, role |-> "unread"]]
    /\ stored = NoLogin
    /\ tokens = {}
    /\ revoking = FALSE
    /\ req = [r \in Requests |->
         [stage |-> "idle", login |-> NoLogin, at |-> Never, token |-> NoToken]]
    /\ ended = [l \in Logins |-> Never]
    /\ late = {}
    /\ demoted = [how |-> "no", at |-> Never]
    /\ overtaken = {}

AccessToken(l, as, by) == [login |-> l, role |-> as, exp |-> now + AccessTtl, by |-> by]

AccessValid(t) == now < t.exp

RefreshIssued(l) == login[l].at # Never

RefreshValid(l) == login[l].at # Never /\ now < login[l].at + RefreshTtl

\* What the end of the stored session leaves for the properties to see
Ends(time) ==
    /\ ended' = IF stored = NoLogin THEN ended ELSE [ended EXCEPT ![stored] = time]
    /\ late' = late \cup {r \in Requests : req[r].stage = "signing" /\ req[r].login = stored}

-----------------------------------------------------------------------------
(* The session.  Operators no action uses, here and above, are faulty      *)
(* variants of the one after them.                                         *)

\* login and socialLogin read the user; the password is compared, or the user saved, after a
\* wait ...
ReadUser(l) ==
    /\ login[l].role = "unread"
    /\ login' = [login EXCEPT ![l].role = role]
    /\ UNCHANGED <<now, role, stored, tokens, revoking, req, history>>

\* ... and the tokens carry the role that was read.  One session per user, the newest.
Login(l) ==
    /\ login[l].at = Never /\ login[l].role # "unread"
    /\ login' = [login EXCEPT ![l].at = now]
    /\ tokens' = tokens \cup {AccessToken(l, login[l].role, "login")}
    /\ stored' = l
    /\ Ends(now)
    /\ UNCHANGED <<now, role, revoking, req, demoted, overtaken>>

\* Logout and every change that revokes the session, but for that of the role
Revoke ==
    /\ stored # NoLogin
    /\ stored' = NoLogin
    /\ Ends(now)
    /\ UNCHANGED <<now, role, login, tokens, revoking, req, demoted, overtaken>>

DemoteOnly(how) ==
    /\ role = "admin" /\ role' = "user"
    /\ demoted' = [how |-> how, at |-> now]
    /\ UNCHANGED <<now, login, stored, tokens, revoking, req, ended, late, overtaken>>

\* PATCH /admin/users/:id/role writes the role, and then deletes the session, if there is one;
\* PATCH /admin/users/:id only writes it.
Demote(how) ==
    /\ role = "admin" /\ role' = "user"
    /\ revoking' = (how = "changeUserRole")
    /\ demoted' = [how |-> how, at |-> now]
    /\ UNCHANGED <<now, login, stored, tokens, req, ended, late, overtaken>>

RevokeDemoted ==
    /\ revoking /\ revoking' = FALSE
    /\ stored' = NoLogin
    /\ Ends(now)
    /\ demoted' = [demoted EXCEPT !.at = now]
    /\ overtaken' = {l \in Logins : login[l] = [at |-> Never, role |-> "admin"]}
    /\ UNCHANGED <<now, role, login, tokens, req>>

Tick ==
    /\ now < MaxTime
    /\ now' = now + 1
    /\ IF stored # NoLogin /\ now' = login[stored].at + RefreshTtl
         THEN stored' = NoLogin /\ Ends(now')
         ELSE UNCHANGED <<stored, ended, late>>
    /\ UNCHANGED <<role, login, tokens, revoking, req, demoted, overtaken>>

-----------------------------------------------------------------------------
(* Requests: those that no token gets in are refused and change nothing.   *)

Answer(r, stage, t) ==
    req' = [req EXCEPT ![r] = [stage |-> stage, login |-> t.login, at |-> now, token |-> t]]

\* resolveSession, with an access token that is still valid
AcceptAccess(r) ==
    /\ req[r].stage = "idle"
    /\ \E t \in tokens : AccessValid(t) /\ Answer(r, "accepted", t)
    /\ UNCHANGED <<now, role, login, stored, tokens, revoking, history>>

FindsAny(r, l) ==
    /\ req[r].stage = "idle"
    /\ RefreshValid(l)
    /\ req' = [req EXCEPT ![r].stage = "signing", ![r].login = l]
    /\ UNCHANGED <<now, role, login, stored, tokens, revoking, history>>

\* ... and with none.  The GET of the stored token is a call to Redis; what it answers is
\* used after a wait.
FindStored(r, l) ==
    /\ req[r].stage = "idle"
    /\ RefreshValid(l) /\ stored = l
    /\ req' = [req EXCEPT ![r].stage = "signing", ![r].login = l]
    /\ UNCHANGED <<now, role, login, stored, tokens, revoking, history>>

\* authenticate and refreshAccessToken: a new access token, with the claims of the refresh token
SignAccess(r) ==
    /\ req[r].stage = "signing"
    /\ LET t == AccessToken(req[r].login, login[req[r].login].role, r) IN
         tokens' = tokens \cup {t} /\ Answer(r, "accepted", t)
    /\ UNCHANGED <<now, role, login, stored, revoking, history>>

\* resolveSocketSession: either token will do.
Handshake(r, l) ==
    /\ req[r].stage = "idle"
    /\ \/ \E t \in tokens : t.login = l /\ AccessValid(t) /\ Answer(r, "connected", t)
       \/ RefreshValid(l) /\ Answer(r, "connected", [NoToken EXCEPT !.login = l])
    /\ UNCHANGED <<now, role, login, stored, tokens, revoking, history>>

Next ==
    \/ \E l \in Logins : ReadUser(l) \/ Login(l)
    \/ Revoke \/ RevokeDemoted
    \/ \E how \in {"changeUserRole", "updateUser"} : Demote(how)
    \/ Tick
    \/ \E r \in Requests : AcceptAccess(r) \/ SignAccess(r)
    \/ \E r \in Requests, l \in Logins : FindStored(r, l) \/ Handshake(r, l)

Spec == Init /\ [][Next]_vars

-----------------------------------------------------------------------------
(* Properties                                                              *)

\* A session that was revoked, replaced by a newer login, or expired gets no request accepted
\* once an access token's lifetime has passed, except by the token of a request that had seen
\* the session when it ended.
EndingsTakeHold ==
    \A r \in Requests : req[r].stage = "accepted" =>
        LET end == ended[req[r].login] IN
        end = Never \/ req[r].at < end + AccessTtl \/ req[r].token.by \in late

\* Whatever is revoked or not, requests and sockets get in on a login no longer than a refresh
\* token and one access token last: nothing renews a refresh token.
LoginsEnd ==
    \A r \in Requests : req[r].stage \in {"accepted", "connected"} =>
        \/ req[r].at < login[req[r].login].at + RefreshTtl + AccessTtl
        \/ req[r].token.by \in late

\* A user demoted through the role route has requests accepted as admin no longer than an
\* access token lives once the route has answered, except as above, and except on a login that
\* read the user before the demotion and stores its token after the route has answered: it is
\* an admin's for as long as it lasts.
AdminPowersEnd ==
    \A r \in Requests :
        /\ req[r].stage = "accepted" /\ req[r].token.role = "admin"
        /\ demoted.how = "changeUserRole" /\ ~revoking
        => \/ req[r].at < demoted.at + AccessTtl
           \/ req[r].token.by \in late
           \/ req[r].token.login \in overtaken

-----------------------------------------------------------------------------
(* What a comment says and the code does not do: README.md shows how to    *)
(* see it fail.                                                            *)

\* src/App/Admin/service.ts: once a user is demoted and their session revoked, the old role is
\* cached in no active JWT, such as the refresh token that Redis holds.
NoTokenKeepsTheRole ==
    demoted.how = "changeUserRole" /\ ~revoking /\ stored # NoLogin => login[stored].role = "user"
=============================================================================
