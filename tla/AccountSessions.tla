--------------------------- MODULE AccountSessions ---------------------------
(***************************************************************************)
(* The session of one user, the refresh token that Redis holds under       *)
(* auth:refresh:<uid>, and the user's password.  Logins read the user and  *)
(* later store a token; changes to the account are written to MongoDB and  *)
(* later revoke the token.  A refresh is accepted if it presents the       *)
(* stored token, and so is a request whose access token has expired.       *)
(*                                                                         *)
(* A refresh token is a JWT of the user's claims and the second of its     *)
(* signature: two that agree on both are the same string.  A password is   *)
(* named by the request that set it.  The user has a verified email and    *)
(* password here, and a Google account; one-time tokens have a module of   *)
(* their own, OneTimeTokens.                                               *)
(***************************************************************************)
EXTENDS Naturals

CONSTANTS
    Requests,
    Kinds,       \* the kinds of request there are, a subset of AllKinds
    RedisFails,  \* may a call to Redis reject?
    MaxTime,     \* bound on the clock, in seconds
    MaxCrashes   \* bound on process crashes

PasswordKinds == {"changePassword", "resetPassword", "changeUserPassword"}
AllKinds == {"login", "socialLogin", "promote", "demote", "updateRole", "suspend", "reactivate",
             "deleteUser"} \cup PasswordKinds

ASSUME SessionAssumption ==
    /\ Kinds \subseteq AllKinds
    /\ RedisFails \in BOOLEAN
    /\ MaxTime \in Nat \ {0} /\ MaxCrashes \in Nat

Roles == {"user", "admin"}
NoRole == "none"
NoToken == [role |-> NoRole, iat |-> 0]
NoRequest == "none"
FirstPassword == "first"

VARIABLES
    user,     \* the User document
    session,  \* auth:refresh:<uid>
    now,      \* seconds
    req,      \* requests: their kind, what they wait for or answered, the role they read, and
              \* the current password they were sent
    holder,   \* history: the login that stored the session
    since,    \* history: revoking changes written since each login read the user ...
    during,   \* ... and those written between what a request read and what it wrote
    revoked,  \* history: revoked tokens and when
    crashes

history == <<since, during>>
vars == <<user, session, now, req, holder, history, revoked, crashes>>

Init ==
    /\ user = [exists |-> TRUE, active |-> TRUE, role |-> "user", password |-> FirstPassword]
    /\ session = NoToken
    /\ now = 1
    /\ req \in [Requests ->
         [kind : Kinds, stage : {"idle"}, role : {NoRole}, sent : {FirstPassword}]]
    /\ holder = NoRequest
    /\ since = [r \in Requests |-> {}]
    /\ during = [r \in Requests |-> {}]
    /\ revoked = {}
    /\ crashes = 0

Is(r, kinds) == req[r].kind \in kinds
To(r, from, to) == req[r].stage = from /\ req' = [req EXCEPT ![r].stage = to]

Revoke ==
    /\ session' = NoToken
    /\ revoked' = revoked \cup IF session = NoToken THEN {} ELSE {<<session, now>>}

-----------------------------------------------------------------------------
(* Logins.  Operators no action uses, here and below, are faulty variants  *)
(* of the one after them.                                                  *)

ReadsNoRole(r) == req' = [req EXCEPT ![r].stage = "signing"]

Reads(r) == req' = [req EXCEPT ![r].stage = "signing", ![r].role = user.role]

\* findOne and bcrypt.compare; a login that fails changes nothing here.
LoginReads(r) ==
    /\ Is(r, {"login"}) /\ req[r].stage = "idle"
    /\ user.exists /\ user.active
    /\ Reads(r)
    /\ UNCHANGED <<user, session, now, holder, history, revoked, crashes>>

\* socialLogin does not look at isActive.
SocialReads(r) ==
    /\ Is(r, {"socialLogin"}) /\ req[r].stage = "idle"
    /\ user.exists
    /\ Reads(r)
    /\ UNCHANGED <<user, session, now, holder, history, revoked, crashes>>

SignUntimed(r) == [role |-> req[r].role, iat |-> 0]

Sign(r) == [role |-> req[r].role, iat |-> now]

\* Signing and sending the SET to Redis are one step of the event loop.
StoreToken(r) ==
    /\ To(r, "signing", "done")
    /\ session' = Sign(r)
    /\ holder' = r
    /\ UNCHANGED <<user, now, history, revoked, crashes>>

StoreFails(r) ==
    /\ RedisFails
    /\ To(r, "signing", "failed500")
    /\ UNCHANGED <<user, session, now, holder, history, revoked, crashes>>

Login(r) == LoginReads(r) \/ SocialReads(r) \/ StoreToken(r) \/ StoreFails(r)

\* POST /auth/logout deletes the stored token, whichever token it came with.
Logout ==
    /\ session # NoToken
    /\ Revoke
    /\ UNCHANGED <<user, now, req, holder, history, crashes>>

\* Seven days after the login
SessionExpires ==
    /\ session # NoToken
    /\ session' = NoToken
    /\ UNCHANGED <<user, now, req, holder, history, revoked, crashes>>

-----------------------------------------------------------------------------
(* Changes to the account.  All of them write the user first.              *)

Revoking == PasswordKinds \cup {"promote", "demote", "suspend", "deleteUser"}
NotRevoking == {"updateRole", "reactivate"}   \* updateUser without isActive = false

\* Password changes look at something first, and then hash: a reset at its token (never at the
\* user), an administrator's change at nothing but the user ...
LooksFirst(r) ==
    /\ Is(r, PasswordKinds \ {"changePassword"})
    /\ user.exists \/ Is(r, {"resetPassword"})
    /\ To(r, "idle", "hashing")
    /\ UNCHANGED <<user, session, now, holder, history, revoked, crashes>>

ComparesNothing(r, p) ==
    /\ Is(r, {"changePassword"}) /\ req[r].stage = "idle"
    /\ user.exists
    /\ req' = [req EXCEPT ![r].stage = "hashing", ![r].sent = p]
    /\ UNCHANGED <<user, session, now, holder, history, revoked, crashes>>

\* ... and the user's own at the current password.
ComparesPassword(r, p) ==
    /\ Is(r, {"changePassword"}) /\ req[r].stage = "idle"
    /\ user.exists /\ p = user.password
    /\ req' = [req EXCEPT ![r].stage = "hashing", ![r].sent = p]
    /\ UNCHANGED <<user, session, now, holder, history, revoked, crashes>>

Changed(kind) ==
    CASE kind = "promote" -> [user EXCEPT !.role = "admin"]
      [] kind \in {"demote", "updateRole"} -> [user EXCEPT !.role = "user"]
      [] kind = "suspend" -> [user EXCEPT !.active = FALSE]
      [] kind = "reactivate" -> [user EXCEPT !.active = TRUE]
      [] kind = "deleteUser" -> [user EXCEPT !.exists = FALSE]
      [] OTHER -> user

\* The write marks the requests whose view of the user it outdates.
Outdate(r) ==
    /\ since' = [l \in Requests |->
         IF req[l].stage \in {"signing", "done"} THEN since[l] \cup {r} ELSE since[l]]
    /\ during' = [l \in Requests |->
         IF req[l].stage \in {"signing", "hashing"} THEN during[l] \cup {r} ELSE during[l]]

WritesPassword(r) ==
    /\ Is(r, PasswordKinds)
    /\ To(r, "hashing", "revoking")
    /\ user' = IF user.exists THEN [user EXCEPT !.password = r] ELSE user
    /\ Outdate(r)
    /\ UNCHANGED <<session, now, holder, revoked, crashes>>

\* findByIdAndUpdate, findByIdAndDelete; 404 if there is no such user.
WritesUser(r) ==
    /\ Is(r, AllKinds \ (PasswordKinds \cup {"login", "socialLogin"}))
    /\ user.exists
    /\ user' = Changed(req[r].kind)
    /\ IF Is(r, Revoking) THEN To(r, "idle", "revoking") /\ Outdate(r)
                          ELSE To(r, "idle", "done") /\ UNCHANGED history
    /\ UNCHANGED <<session, now, holder, revoked, crashes>>

RevokesAfterPasswords(r) ==
    /\ To(r, "revoking", "done")
    /\ IF Is(r, PasswordKinds) THEN Revoke ELSE UNCHANGED <<session, revoked>>
    /\ UNCHANGED <<user, now, holder, history, crashes>>

Revokes(r) ==
    /\ To(r, "revoking", "done")
    /\ Revoke
    /\ UNCHANGED <<user, now, holder, history, crashes>>

RevokeFails(r) ==
    /\ RedisFails
    /\ To(r, "revoking", "failed500")
    /\ UNCHANGED <<user, session, now, holder, history, revoked, crashes>>

Passwords == Requests \cup {FirstPassword}

Change(r) ==
    \/ LooksFirst(r) \/ \E p \in Passwords : ComparesPassword(r, p)
    \/ WritesPassword(r) \/ WritesUser(r) \/ Revokes(r) \/ RevokeFails(r)

-----------------------------------------------------------------------------

Tick ==
    /\ now < MaxTime
    /\ now' = now + 1
    /\ UNCHANGED <<user, session, req, holder, history, revoked, crashes>>

\* Redis and MongoDB live on.
Crash ==
    /\ crashes < MaxCrashes
    /\ crashes' = crashes + 1
    /\ req' = [r \in Requests |-> IF req[r].stage \in {"signing", "hashing", "revoking"}
                                  THEN [req[r] EXCEPT !.stage = "lost"] ELSE req[r]]
    /\ UNCHANGED <<user, session, now, holder, history, revoked>>

Next ==
    \/ \E r \in Requests : Login(r) \/ Change(r)
    \/ Logout \/ SessionExpires
    \/ Tick
    \/ Crash

Spec == Init /\ [][Next]_vars

-----------------------------------------------------------------------------
(* Properties                                                              *)

Tokens == {NoToken} \cup [role : Roles, iat : 1..MaxTime]

\* Every variable has its type.
TypeOK ==
    /\ user \in [exists : BOOLEAN, active : BOOLEAN, role : Roles, password : Passwords]
    /\ session \in Tokens
    /\ now \in 1..MaxTime
    /\ req \in [Requests ->
         [kind : Kinds, role : Roles \cup {NoRole}, sent : Passwords,
          stage : {"idle", "signing", "hashing", "revoking", "done", "failed500", "lost"}]]
    /\ holder \in Requests \cup {NoRequest}
    /\ since \in [Requests -> SUBSET Requests] /\ during \in [Requests -> SUBSET Requests]
    /\ revoked \subseteq Tokens \X (1..MaxTime)
    /\ crashes \in 0..MaxCrashes

\* A session outlives a change of password, role or status, or the user, only if the request
\* that made the change has yet to revoke it or broke off before it could, or if the login was
\* still on its way to store its token when the change was written.
SessionsAreRevoked ==
    session # NoToken => \A c \in since[holder] :
        req[c].stage \in {"revoking", "failed500", "lost"} \/ c \in during[holder]

\* A revoked token is accepted again only if it was revoked, and signed again, within the
\* second of its first signature.
RevokedStaysRevoked == \A n \in 1..MaxTime : <<session, n>> \in revoked => n = session.iat

\* PATCH /auth/change-password replaces a password that its caller did not prove to know, a reset
\* that has just been answered say, only if that one was set while the request was under way.
ChangesProveThePassword ==
    [][\A r \in Requests : Is(r, {"changePassword"}) /\ user.password # r /\ user'.password = r
         => user.password = req[r].sent \/ user.password \in during[r]]_vars

-----------------------------------------------------------------------------
(* What the documents say and the code does not do: README.md shows, for   *)
(* each, how to see it fail.                                               *)

\* docs/auth-flow.md: the refresh token is deleted on logout, enabling instant revocation.
RevokedIsGone == \A n \in 1..MaxTime : <<session, n>> \notin revoked

\* src/App/Auth/model.ts: isActive is false when an admin has suspended the user, who then
\* cannot log in.
SuspendedCannotLogIn ==
    [][\A r \in Requests : req[r].stage = "idle" /\ req'[r].stage = "signing" => user.active]_vars

\* docs/features/admin.md: a suspension invalidates the session of the user, who will be unable
\* to refresh.
SuspensionEndsSessions ==
    ~user.active /\ (\A r \in Requests : req[r].stage # "revoking") => session = NoToken
=============================================================================
