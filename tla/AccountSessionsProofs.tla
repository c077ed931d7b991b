------------------------ MODULE AccountSessionsProofs ------------------------
(***************************************************************************)
(* What AccountSessions promises of sessions and passwords, for any number *)
(* of requests and crashes and however long it runs.                       *)
(***************************************************************************)
EXTENDS AccountSessions, TLAPS

Stages == {"idle", "signing", "hashing", "revoking", "done", "failed500", "lost"}
RequestType == [kind : Kinds, role : Roles \cup {NoRole}, sent : Passwords, stage : Stages]

\* What a login has yet to outlive was written after it read the user.
LoginsKnow ==
    \A r \in Requests : /\ req[r].stage = "idle" => since[r] = {}
                        /\ req[r].stage = "signing" => since[r] \subseteq during[r]

ReadersHaveRoles == \A r \in Requests : req[r].stage = "signing" => req[r].role \in Roles

SessionHasHolder == (session # NoToken => holder \in Requests) /\ session.iat <= now

\* Tokens are revoked no earlier than they are signed.
RevokedInOrder ==
    \A t \in Tokens, n \in 1..MaxTime : <<t, n>> \in revoked => 1 <= t.iat /\ t.iat <= n /\ n <= now

\* Until it writes, a change compares equal or knows the write that has made it stale.
ComparedOrOutdated ==
    \A r \in Requests : req[r].stage = "hashing" /\ req[r].kind = "changePassword" =>
        user.password = req[r].sent \/ user.password \in during[r]

IInv ==
    /\ TypeOK
    /\ LoginsKnow /\ ReadersHaveRoles /\ SessionHasHolder
    /\ RevokedInOrder /\ ComparedOrOutdated
    /\ SessionsAreRevoked /\ RevokedStaysRevoked

-----------------------------------------------------------------------------

\* A step of r alone
Goes(r) ==
    /\ req' \in [Requests -> RequestType]
    /\ \A q \in Requests \ {r} : req'[q] = req[q]
    /\ req'[r].kind = req[r].kind

LEMMA ToFacts ==
    ASSUME req \in [Requests -> RequestType], NEW r \in Requests, NEW from, NEW to \in Stages,
           To(r, from, to)
    PROVE  /\ Goes(r) /\ req[r].stage = from /\ req'[r].stage = to
           /\ req'[r].sent = req[r].sent
BY DEF To, RequestType, Goes

LEMMA ReadsFacts ==
    ASSUME req \in [Requests -> RequestType], NEW r \in Requests, user.role \in Roles, Reads(r)
    PROVE  Goes(r) /\ req'[r].stage = "signing" /\ req'[r].role = user.role
<1>1. req' = [req EXCEPT ![r].stage = "signing", ![r].role = user.role]
  BY DEF Reads
<1>2. user.role \in Roles \cup {NoRole} /\ "signing" \in Stages
  BY DEF Stages
<1>3. req' \in [Requests -> RequestType]
  BY <1>1, <1>2 DEF RequestType
<1>4. QED
  BY <1>1, <1>3 DEF Goes, RequestType

LEMMA ComparesFacts ==
    ASSUME req \in [Requests -> RequestType], NEW r \in Requests, NEW p \in Passwords,
           ComparesPassword(r, p)
    PROVE  Goes(r) /\ req'[r].stage = "hashing" /\ req'[r].sent = p
<1>1. req' = [req EXCEPT ![r].stage = "hashing", ![r].sent = p]
  BY DEF ComparesPassword
<1>2. "hashing" \in Stages
  BY DEF Stages
<1>3. req' \in [Requests -> RequestType]
  BY <1>1, <1>2 DEF RequestType
<1>4. QED
  BY <1>1, <1>3 DEF Goes, RequestType

LEMMA Types ==
    TypeOK <=> /\ user \in [exists : BOOLEAN, active : BOOLEAN, role : Roles, password : Passwords]
               /\ session \in Tokens /\ now \in 1..MaxTime
               /\ req \in [Requests -> RequestType]
               /\ holder \in Requests \cup {NoRequest}
               /\ since \in [Requests -> SUBSET Requests]
               /\ during \in [Requests -> SUBSET Requests]
               /\ revoked \subseteq Tokens \X (1..MaxTime)
               /\ crashes \in 0..MaxCrashes
BY DEF TypeOK, RequestType, Stages

LEMMA InitInv == Init => IInv
<1> SUFFICES ASSUME Init PROVE IInv
  OBVIOUS
<1>1. TypeOK
  <2>1. user \in [exists : BOOLEAN, active : BOOLEAN, role : Roles, password : Passwords]
    BY DEF Init, Roles, Passwords
  <2>2. req \in [Requests -> RequestType]
    BY DEF Init, RequestType, Passwords, Stages
  <2>3. now \in 1..MaxTime /\ crashes \in 0..MaxCrashes
    BY SessionAssumption DEF Init
  <2>4. QED
    BY <2>1, <2>2, <2>3, Types DEF Init, Tokens
<1>2. QED
  BY <1>1 DEF Init, IInv, LoginsKnow, ReadersHaveRoles, SessionHasHolder, RevokedInOrder,
      ComparedOrOutdated, SessionsAreRevoked, RevokedStaysRevoked, NoToken

\* Steps that read, wait, fail or are lost: no session changes hands, and nothing is written.
LEMMA QuietStep ==
    ASSUME IInv, NEW r \in Requests, Goes(r), UNCHANGED <<user, session, holder, since, during, revoked>>,
           now' = now, crashes' \in 0..MaxCrashes,
           req[r].stage = "idle" \/ req'[r].stage = "failed500",
           req'[r].stage \in {"signing", "hashing", "failed500"},
           req'[r].stage = "signing" => req'[r].role \in Roles,
           req'[r].stage = "hashing" /\ req[r].kind = "changePassword" => req'[r].sent = user.password
    PROVE  IInv'
<1>1. TypeOK'
  BY Types DEF IInv, TypeOK, Goes, RequestType, Stages
<1>2. LoginsKnow' /\ ReadersHaveRoles' /\ SessionHasHolder' /\ RevokedInOrder' /\ RevokedStaysRevoked'
  BY DEF IInv, Goes, LoginsKnow, ReadersHaveRoles, SessionHasHolder, RevokedInOrder, RevokedStaysRevoked
<1>3. ComparedOrOutdated'
  BY DEF IInv, Goes, ComparedOrOutdated
<1>4. SessionsAreRevoked'
  <2>1. session # NoToken => since[holder] \subseteq Requests
    BY DEF IInv, TypeOK, SessionHasHolder
  <2>2. \A c \in Requests : req[c].stage \in {"revoking", "failed500", "lost"}
                              => req'[c].stage \in {"revoking", "failed500", "lost"}
    BY DEF Goes
  <2>3. QED
    BY <2>1, <2>2 DEF IInv, SessionsAreRevoked
<1>5. QED
  BY <1>1, <1>2, <1>3, <1>4 DEF IInv

\* Handlers up to their wait, and those whose call to Redis fails
LEMMA QuietActions ==
    ASSUME IInv, NEW r \in Requests,
           \/ LoginReads(r) \/ SocialReads(r) \/ StoreFails(r) \/ LooksFirst(r) \/ RevokeFails(r)
           \/ \E p \in Passwords : ComparesPassword(r, p)
    PROVE  IInv'
<1>1. req \in [Requests -> RequestType] /\ user.role \in Roles /\ crashes \in 0..MaxCrashes
  BY Types DEF IInv
<1>2. CASE LoginReads(r) \/ SocialReads(r)
  <2>1. Reads(r) /\ req[r].stage = "idle"
        /\ UNCHANGED <<user, session, now, holder, since, during, revoked, crashes>>
    BY <1>2 DEF LoginReads, SocialReads, history
  <2>2. QED
    BY <1>1, <2>1, ReadsFacts, QuietStep
<1>3. CASE StoreFails(r) \/ RevokeFails(r)
  <2>1. /\ \E from \in {"signing", "revoking"} : To(r, from, "failed500")
        /\ UNCHANGED <<user, session, now, holder, since, during, revoked, crashes>>
    BY <1>3 DEF StoreFails, RevokeFails, history
  <2>2. Goes(r) /\ req'[r].stage = "failed500"
    BY <1>1, <2>1, ToFacts DEF Stages
  <2>3. QED
    BY <1>1, <2>1, <2>2, QuietStep
<1>4. CASE LooksFirst(r)
  <2>1. /\ To(r, "idle", "hashing") /\ req[r].kind # "changePassword"
        /\ UNCHANGED <<user, session, now, holder, since, during, revoked, crashes>>
    BY <1>4 DEF LooksFirst, Is, PasswordKinds, history
  <2>2. Goes(r) /\ req[r].stage = "idle" /\ req'[r].stage = "hashing"
    BY <1>1, <2>1, ToFacts DEF Stages
  <2>3. QED
    BY <1>1, <2>1, <2>2, QuietStep
<1>5. ASSUME NEW p \in Passwords, ComparesPassword(r, p) PROVE IInv'
  <2>1. /\ req[r].stage = "idle" /\ p = user.password
        /\ UNCHANGED <<user, session, now, holder, since, during, revoked, crashes>>
    BY <1>5 DEF ComparesPassword, history
  <2>2. QED
    BY <1>1, <1>5, <2>1, ComparesFacts, QuietStep
<1>6. QED
  BY <1>2, <1>3, <1>4, <1>5

\* A login stores a token that may be older than the changes written since it read the user:
\* it knows them all.  A token of this second that was revoked was revoked in it.
LEMMA StoreStep == ASSUME IInv, NEW r \in Requests, StoreToken(r) PROVE IInv'
<1>1. /\ Goes(r) /\ req[r].stage = "signing" /\ req'[r].stage = "done"
      /\ session' = Sign(r) /\ holder' = r
      /\ UNCHANGED <<user, now, since, during, revoked, crashes>>
  BY Types, ToFacts DEF IInv, StoreToken, Stages, history
<1>2. session' \in Tokens /\ session'.iat = now
  BY <1>1, Types DEF IInv, ReadersHaveRoles, Sign, Tokens
<1>3. TypeOK'
  BY <1>1, <1>2, Types DEF IInv, TypeOK, Goes, RequestType, Stages
<1>4. LoginsKnow' /\ ReadersHaveRoles' /\ SessionHasHolder' /\ RevokedInOrder' /\ ComparedOrOutdated'
  BY <1>1, <1>2, Types DEF IInv, Goes, LoginsKnow, ReadersHaveRoles, SessionHasHolder, RevokedInOrder,
      ComparedOrOutdated
<1>5. SessionsAreRevoked'
  BY <1>1 DEF IInv, LoginsKnow, SessionsAreRevoked
<1>6. RevokedStaysRevoked'
  <2>1. ASSUME NEW n \in 1..MaxTime, <<session', n>> \in revoked PROVE n = now
    <3>1. now <= n /\ n <= now
      BY <1>2, <2>1 DEF IInv, RevokedInOrder
    <3>2. QED
      BY <3>1, Types DEF IInv
  <2>2. QED
    BY <1>1, <1>2, <2>1 DEF RevokedStaysRevoked
<1>7. QED
  BY <1>3, <1>4, <1>5, <1>6 DEF IInv

\* The session goes: by a logout, by the revocation that follows a change, or in time.
LEMMA EndStep ==
    ASSUME IInv, session' = NoToken, UNCHANGED <<user, now, holder, since, during, crashes>>,
           Revoke \/ UNCHANGED revoked,
           \/ UNCHANGED req
           \/ \E r \in Requests : Goes(r) /\ req'[r].stage = "done"
    PROVE  IInv'
<1>1. \A q \in Requests : req'[q] = req[q] \/ (req'[q].stage = "done" /\ req'[q] \in RequestType)
  BY DEF Goes
<1>2. req' \in [Requests -> RequestType]
  BY Types DEF IInv, Goes
<1>3. session # NoToken => 1 <= session.iat /\ session.iat <= MaxTime
  BY Types DEF IInv, Tokens
<1>4. revoked' = revoked \/ (session # NoToken /\ revoked' = revoked \cup {<<session, now>>})
  BY DEF Revoke
<1>5. TypeOK'
  BY <1>2, <1>4, Types DEF IInv, TypeOK, RequestType, Stages, Tokens
<1>6. LoginsKnow' /\ ReadersHaveRoles' /\ SessionHasHolder' /\ ComparedOrOutdated' /\ SessionsAreRevoked'
  BY <1>1, Types DEF IInv, LoginsKnow, ReadersHaveRoles, SessionHasHolder, ComparedOrOutdated,
      SessionsAreRevoked, NoToken
<1>7. RevokedInOrder'
  BY <1>3, <1>4, Types DEF IInv, RevokedInOrder, SessionHasHolder
<1>8. RevokedStaysRevoked'
  BY <1>7 DEF RevokedInOrder, RevokedStaysRevoked, NoToken, Tokens
<1>9. QED
  BY <1>5, <1>6, <1>7, <1>8 DEF IInv
LEMMA EndActions ==
    ASSUME IInv, Logout \/ SessionExpires \/ \E r \in Requests : Revokes(r)
    PROVE  IInv'
<1>1. CASE Logout \/ SessionExpires
  BY <1>1, EndStep DEF Logout, SessionExpires, Revoke, history
<1>2. ASSUME NEW r \in Requests, Revokes(r) PROVE IInv'
  <2>1. Goes(r) /\ req'[r].stage = "done"
    BY <1>2, Types, ToFacts DEF IInv, Revokes, Stages
  <2>2. QED
    BY <1>2, <2>1, EndStep DEF Revokes, Revoke, history
<1>3. QED
  BY <1>1, <1>2

UserType == [exists : BOOLEAN, active : BOOLEAN, role : Roles, password : Passwords]

\* A change that will revoke: whoever has read the user by then, or compared its password, is
\* marked by the write.
LEMMA OutdatingStep ==
    ASSUME IInv, NEW r \in Requests, Goes(r), req[r].stage \in {"idle", "hashing"},
           req'[r].stage = "revoking", Outdate(r),
           user' \in UserType, user'.password \in {user.password, r},
           UNCHANGED <<session, now, holder, revoked, crashes>>
    PROVE  IInv'
<1>1. /\ since' \in [Requests -> SUBSET Requests] /\ during' \in [Requests -> SUBSET Requests]
      /\ \A q \in Requests :
           /\ since'[q] = IF req[q].stage \in {"signing", "done"} THEN since[q] \cup {r} ELSE since[q]
           /\ during'[q] = IF req[q].stage \in {"signing", "hashing"} THEN during[q] \cup {r}
                                                                     ELSE during[q]
  BY Types DEF IInv, Outdate
<1>2. TypeOK'
  BY <1>1, Types DEF IInv, TypeOK, Goes, RequestType, Stages, UserType
<1>3. LoginsKnow' /\ ReadersHaveRoles'
  BY <1>1 DEF IInv, Goes, LoginsKnow, ReadersHaveRoles
<1>4. SessionHasHolder' /\ RevokedInOrder' /\ RevokedStaysRevoked'
  BY DEF IInv, SessionHasHolder, RevokedInOrder, RevokedStaysRevoked
<1>5. ComparedOrOutdated'
  BY <1>1 DEF IInv, Goes, ComparedOrOutdated
<1>6. SessionsAreRevoked'
  <2>1. ASSUME session # NoToken, NEW c \in since'[holder]
        PROVE  req'[c].stage \in {"revoking", "failed500", "lost"} \/ c \in during'[holder]
    <3>1. holder \in Requests /\ c \in Requests
      BY <1>1, <2>1 DEF IInv, SessionHasHolder
    <3>2. CASE c = r
      BY <3>2
    <3>3. CASE c # r
      BY <1>1, <2>1, <3>1, <3>3 DEF IInv, Goes, SessionsAreRevoked
    <3>4. QED
      BY <3>2, <3>3
  <2>2. QED
    BY <2>1 DEF SessionsAreRevoked
<1>7. QED
  BY <1>2, <1>3, <1>4, <1>5, <1>6 DEF IInv

\* A change that revokes nothing leaves the password.
LEMMA UpdatingStep ==
    ASSUME IInv, NEW r \in Requests, Goes(r), req[r].stage = "idle", req'[r].stage = "done",
           user' \in UserType, user'.password = user.password,
           UNCHANGED <<session, now, holder, since, during, revoked, crashes>>
    PROVE  IInv'
<1>1. TypeOK'
  BY Types DEF IInv, TypeOK, Goes, RequestType, Stages, UserType
<1>2. LoginsKnow' /\ ReadersHaveRoles' /\ SessionHasHolder' /\ RevokedInOrder' /\ RevokedStaysRevoked'
  BY DEF IInv, Goes, LoginsKnow, ReadersHaveRoles, SessionHasHolder, RevokedInOrder,
      RevokedStaysRevoked
<1>3. ComparedOrOutdated'
  BY DEF IInv, Goes, ComparedOrOutdated
<1>4. SessionsAreRevoked'
  <2>1. session # NoToken => since[holder] \subseteq Requests
    BY DEF IInv, TypeOK, SessionHasHolder
  <2>2. QED
    BY <2>1 DEF IInv, Goes, SessionsAreRevoked
<1>5. QED
  BY <1>1, <1>2, <1>3, <1>4 DEF IInv

LEMMA ChangedFacts ==
    ASSUME user \in UserType, NEW kind
    PROVE  Changed(kind) \in UserType /\ Changed(kind).password = user.password
BY DEF Changed, UserType, Roles

LEMMA WriteStep ==
    ASSUME IInv, NEW r \in Requests, WritesPassword(r) \/ WritesUser(r)
    PROVE  IInv'
<1>1. user \in UserType /\ req \in [Requests -> RequestType]
  BY Types DEF IInv, UserType
<1>2. CASE WritesPassword(r)
  <2>1. Goes(r) /\ req[r].stage = "hashing" /\ req'[r].stage = "revoking"
    BY <1>1, <1>2, ToFacts DEF WritesPassword, Stages
  <2>2. user' \in UserType /\ user'.password \in {user.password, r}
    BY <1>1, <1>2 DEF WritesPassword, UserType, Passwords
  <2>3. QED
    BY <1>2, <2>1, <2>2, OutdatingStep DEF WritesPassword
<1>3. CASE WritesUser(r)
  <2>1. user' \in UserType /\ user'.password = user.password
    BY <1>1, <1>3, ChangedFacts DEF WritesUser
  <2>2. CASE To(r, "idle", "revoking") /\ Outdate(r)
    <3>1. Goes(r) /\ req[r].stage = "idle" /\ req'[r].stage = "revoking"
      BY <1>1, <2>2, ToFacts DEF Stages
    <3>2. QED
      BY <1>3, <2>1, <2>2, <3>1, OutdatingStep DEF WritesUser
  <2>3. CASE To(r, "idle", "done") /\ UNCHANGED history
    <3>1. Goes(r) /\ req[r].stage = "idle" /\ req'[r].stage = "done"
      BY <1>1, <2>3, ToFacts DEF Stages
    <3>2. QED
      BY <1>3, <2>1, <2>3, <3>1, UpdatingStep DEF WritesUser, history
  <2>4. QED
    BY <1>3, <2>2, <2>3 DEF WritesUser
<1>4. QED
  BY <1>2, <1>3
LEMMA TickStep == ASSUME IInv, Tick PROVE IInv'
<1>1. now' = now + 1 /\ now' \in 1..MaxTime
      /\ UNCHANGED <<user, session, req, holder, since, during, revoked, crashes>>
  BY SessionAssumption, Types DEF IInv, Tick, history
<1>2. TypeOK'
  BY <1>1 DEF IInv, TypeOK
<1>3. SessionHasHolder' /\ RevokedInOrder'
  <2>1. session.iat \in Nat
    BY Types DEF IInv, Tokens, NoToken
  <2>2. QED
    BY <1>1, <2>1, Types DEF IInv, SessionHasHolder, RevokedInOrder
<1>4. LoginsKnow' /\ ReadersHaveRoles' /\ ComparedOrOutdated' /\ SessionsAreRevoked' /\ RevokedStaysRevoked'
  BY <1>1 DEF IInv, LoginsKnow, ReadersHaveRoles, ComparedOrOutdated, SessionsAreRevoked,
      RevokedStaysRevoked
<1>5. QED
  BY <1>2, <1>3, <1>4 DEF IInv

LEMMA CrashStep == ASSUME IInv, Crash PROVE IInv'
<1>1. /\ crashes' \in 0..MaxCrashes
      /\ UNCHANGED <<user, session, now, holder, since, during, revoked>>
  BY SessionAssumption, Types DEF IInv, Crash, history
<1>2. /\ req' \in [Requests -> RequestType]
      /\ \A q \in Requests :
           \/ req'[q] = req[q] /\ req[q].stage \notin {"signing", "hashing", "revoking"}
           \/ req'[q].stage = "lost" /\ req[q].stage \in {"signing", "hashing", "revoking"}
  BY Types DEF IInv, Crash, RequestType, Stages
<1>3. TypeOK'
  BY <1>1, <1>2, Types DEF IInv, TypeOK, RequestType, Stages
<1>4. LoginsKnow' /\ ReadersHaveRoles' /\ SessionHasHolder' /\ RevokedInOrder' /\ ComparedOrOutdated'
      /\ RevokedStaysRevoked'
  BY <1>1, <1>2 DEF IInv, LoginsKnow, ReadersHaveRoles, SessionHasHolder, RevokedInOrder,
      ComparedOrOutdated, RevokedStaysRevoked
<1>5. SessionsAreRevoked'
  <2>1. session # NoToken => since[holder] \subseteq Requests
    BY DEF IInv, TypeOK, SessionHasHolder
  <2>2. QED
    BY <1>1, <1>2, <2>1 DEF IInv, SessionsAreRevoked
<1>6. QED
  BY <1>3, <1>4, <1>5 DEF IInv

LEMMA NextInv == ASSUME IInv, [Next]_vars PROVE IInv'
<1>1. ASSUME NEW r \in Requests, Login(r) \/ Change(r) PROVE IInv'
  BY <1>1, QuietActions, StoreStep, WriteStep, EndActions DEF Login, Change
<1>2. CASE Logout \/ SessionExpires \/ Tick \/ Crash
  BY <1>2, EndActions, TickStep, CrashStep
<1>3. CASE UNCHANGED vars
  BY <1>3 DEF vars, history, IInv, TypeOK, LoginsKnow, ReadersHaveRoles, SessionHasHolder,
      RevokedInOrder, ComparedOrOutdated, SessionsAreRevoked, RevokedStaysRevoked
<1>4. QED
  BY <1>1, <1>2, <1>3 DEF Next

\* Only the write of r sets the password that is named after r.
LEMMA ProvenStep ==
    ASSUME IInv, [Next]_vars, NEW r \in Requests, Is(r, {"changePassword"}),
           user.password # r, user'.password = r
    PROVE  user.password = req[r].sent \/ user.password \in during[r]
<1>1. user \in UserType
  BY Types DEF IInv, UserType
<1>2. user' # user
  OBVIOUS
<1>3. PICK q \in Requests : WritesPassword(q) \/ WritesUser(q)
  BY <1>2 DEF Next, vars, Login, LoginReads, SocialReads, StoreToken, StoreFails, Change, LooksFirst,
      ComparesPassword, Revokes, RevokeFails, Logout, SessionExpires, Tick, Crash
<1>4. CASE WritesUser(q)
  BY <1>1, <1>4, ChangedFacts DEF WritesUser
<1>5. CASE WritesPassword(q)
  <2>1. q = r /\ req[q].stage = "hashing"
    BY <1>1, <1>2, <1>5 DEF WritesPassword, To, UserType
  <2>2. QED
    BY <2>1 DEF IInv, ComparedOrOutdated, Is
<1>6. QED
  BY <1>3, <1>4, <1>5

\* The inductive invariant of sessions and passwords.
THEOREM SessionsInvariant == Spec => []IInv
<1>1. IInv /\ [Next]_vars => IInv'
  BY NextInv
<1>2. QED
  BY InitInv, <1>1, PTL DEF Spec

\* Every variable keeps its type: Redis holds nothing or a token of a role, signed by now.
THEOREM SessionsTypeCorrect == Spec => []TypeOK
<1>1. IInv => TypeOK
  BY DEF IInv
<1>2. QED
  BY <1>1, SessionsInvariant, PTL

\* Auth/service.ts and Admin/service.ts: a session outlives a change that revokes it only if
\* the revocation is under way or broke off, or the login was when the change was written.
THEOREM SessionsRevoked == Spec => []SessionsAreRevoked
<1>1. IInv => SessionsAreRevoked
  BY DEF IInv
<1>2. QED
  BY <1>1, SessionsInvariant, PTL

\* Auth/redisService.ts: a revoked token is stored again only if it is signed again within the
\* second of its first signature, in which it was revoked.
THEOREM RevokedTokensStayRevoked == Spec => []RevokedStaysRevoked
<1>1. IInv => RevokedStaysRevoked
  BY DEF IInv
<1>2. QED
  BY <1>1, SessionsInvariant, PTL

\* Auth/service.ts, changePassword: the password it replaces is the one it was sent, or one that
\* was set while it was under way.
THEOREM ChangesProve == Spec => ChangesProveThePassword
<1>1. IInv /\ [Next]_vars =>
        [\A r \in Requests : Is(r, {"changePassword"}) /\ user.password # r /\ user'.password = r
           => user.password = req[r].sent \/ user.password \in during[r]]_vars
  BY ProvenStep
<1>2. QED
  BY <1>1, SessionsInvariant, PTL DEF Spec, ChangesProveThePassword
=============================================================================
