---------------------------- MODULE AccessProofs ----------------------------
(***************************************************************************)
(* Who gets in, and what the lists then show to whom.                      *)
(*                                                                         *)
(* How long a session lives on after its end, after the refresh token's    *)
(* lifetime and after the loss of the admin role: for any lifetimes and    *)
(* any number of logins and requests.  Then the list endpoints: that the   *)
(* pages of a list miss nothing and show nothing of others, for lists of   *)
(* any length and pages of any size.                                       *)
(***************************************************************************)
EXTENDS Authentication, ListQuery, FiniteSetTheorems, TLAPS

Roles == {"user", "admin"}
Started == [at : Nat, role : Roles \cup {"unread"}]
Demotions == [how : {"no", "changeUserRole", "updateUser"}, at : Nat]
Tokens == [login : Logins, role : Roles, exp : Nat, by : Requests \cup {"login"}]
RequestType == [stage : {"idle", "signing", "accepted", "connected"}, login : Logins \cup {NoLogin},
                at : Nat, token : [login : Logins \cup {NoLogin}, role : Roles, exp : Nat,
                                   by : Requests \cup {"login"}]]

TypeOK ==
    /\ now \in Nat \ {0} /\ role \in Roles
    /\ login \in [Logins -> Started]
    /\ stored \in Logins \cup {NoLogin}
    /\ tokens \subseteq Tokens
    /\ revoking \in BOOLEAN
    /\ req \in [Requests -> RequestType]
    /\ ended \in [Logins -> Nat] /\ late \subseteq Requests
    /\ demoted \in Demotions /\ overtaken \subseteq Logins

\* A session ends once, and at the latest with its refresh token.
StoredIsLive ==
    /\ stored # NoLogin => /\ login[stored].at # Never /\ ended[stored] = Never
                           /\ now < login[stored].at + RefreshTtl
    /\ \A l \in Logins : login[l].at = Never => ended[l] = Never

\* The tokens of a login carry the role it has read.
LoginsHaveRead == \A l \in Logins : login[l].at # Never => login[l].role # "unread"

\* Who signs has found the session, which is stored still or has ended since.
SignersFoundIt ==
    \A r \in Requests : req[r].stage = "signing" =>
        /\ req[r].login \in Logins /\ login[req[r].login].at # Never
        /\ stored = req[r].login \/ r \in late

\* Who got in got in on a login, by now.
GuestsLoggedIn ==
    \A r \in Requests : req[r].stage \in {"accepted", "connected"} =>
        req[r].login \in Logins /\ login[req[r].login].at # Never /\ req[r].at <= now

Demoted == demoted.how = "changeUserRole" /\ ~revoking

\* Once a demotion is complete, whoever logs in as an admin had read the user before: no later
\* login reads that role.
DemotionsReach ==
    /\ demoted.how # "no" => role = "user"
    /\ Demoted /\ stored # NoLogin /\ login[stored].role = "admin" => stored \in overtaken
    /\ Demoted => \A l \in Logins : login[l] = [at |-> Never, role |-> "admin"] => l \in overtaken

\* No access token outlives by more than its lifetime what it was signed for, unless the
\* request that signed it had seen the session before it ended.
InTime(t) ==
    /\ t.exp <= login[t.login].at + RefreshTtl + AccessTtl
    /\ ended[t.login] # Never => t.exp <= ended[t.login] + AccessTtl
    /\ t.role = "admin" /\ Demoted => t.exp <= demoted.at + AccessTtl \/ t.login \in overtaken

Fits(t) ==
    /\ login[t.login].at # Never /\ t.exp <= now + AccessTtl
    /\ InTime(t) \/ t.by \in late

TokensFit == \A t \in tokens : Fits(t)

IInv ==
    /\ TypeOK
    /\ StoredIsLive /\ LoginsHaveRead /\ SignersFoundIt /\ GuestsLoggedIn /\ DemotionsReach
    /\ TokensFit
    /\ EndingsTakeHold /\ LoginsEnd /\ AdminPowersEnd

Promises == EndingsTakeHold /\ LoginsEnd /\ AdminPowersEnd

USE DEF history, Started

-----------------------------------------------------------------------------

LEMMA InitInv == Init => IInv
<1> SUFFICES ASSUME Init PROVE IInv
  OBVIOUS
<1>1. TypeOK
  <2>1. [stage |-> "idle", login |-> NoLogin, at |-> Never, token |-> NoToken] \in RequestType
    BY DEF NoToken, RequestType, Never, Roles
  <2>2. [at |-> Never, role |-> "unread"] \in Started
    BY DEF Never
  <2>3. req \in [Requests -> RequestType]
    BY <2>1 DEF Init
  <2>4. login \in [Logins -> Started]
    BY <2>2 DEF Init
  <2>5. demoted \in Demotions
    BY DEF Init, Never, Demotions
  <2>6. ended \in [Logins -> Nat] /\ now \in Nat \ {0} /\ role \in Roles
    BY DEF Init, Never, Roles
  <2>7. QED
    BY <2>3, <2>4, <2>5, <2>6 DEF Init, TypeOK
<1>2. /\ StoredIsLive /\ LoginsHaveRead /\ SignersFoundIt /\ GuestsLoggedIn /\ DemotionsReach
      /\ TokensFit /\ Promises
  BY DEF Init, StoredIsLive, LoginsHaveRead, SignersFoundIt, GuestsLoggedIn, DemotionsReach, TokensFit,
      Demoted, Promises, EndingsTakeHold, LoginsEnd, AdminPowersEnd
<1>3. QED
  BY <1>1, <1>2 DEF IInv, Promises

-----------------------------------------------------------------------------
(* The end of a session                                                    *)

LEMMA EndsFacts ==
    ASSUME TypeOK, NEW time \in Nat, Ends(time)
    PROVE  /\ ended' \in [Logins -> Nat]
           /\ \A l \in Logins : ended'[l] = IF l = stored THEN time ELSE ended[l]
           /\ late \subseteq late' /\ late' \subseteq Requests
           /\ \A r \in Requests :
                req[r].stage = "signing" /\ req[r].login = stored => r \in late'
BY TtlAssumption DEF TypeOK, Ends

\* What is left of a step that ends the session: the time passes no further than it, and
\* requests stay where they are.
EndsAt(time) ==
    /\ time \in Nat \ {0} /\ now <= time /\ now' = time /\ Ends(time)
    /\ role' = role /\ req' = req
    /\ login' \in [Logins -> Started]
    /\ \A l \in Logins : login[l].at # Never => login'[l] = login[l]

LEMMA EndsKeepsRequests ==
    ASSUME IInv, NEW time, EndsAt(time)
    PROVE  SignersFoundIt' /\ GuestsLoggedIn' /\ EndingsTakeHold' /\ LoginsEnd'
<1> USE DEF EndsAt
<1>1. TypeOK /\ time \in Nat
  BY DEF IInv
<1>2. SignersFoundIt'
  BY <1>1, EndsFacts DEF IInv, SignersFoundIt
<1>3. GuestsLoggedIn'
  BY <1>1 DEF IInv, GuestsLoggedIn, TypeOK, RequestType
<1>4. EndingsTakeHold'
  <2> SUFFICES ASSUME NEW r \in Requests, req[r].stage = "accepted", ended'[req[r].login] # Never
               PROVE  req[r].at < ended'[req[r].login] + AccessTtl \/ req[r].token.by \in late'
    BY DEF EndingsTakeHold
  <2>1. req[r].login \in Logins /\ req[r].at <= now /\ req[r].at \in Nat
    BY <1>1 DEF IInv, GuestsLoggedIn, TypeOK, RequestType
  <2>2. CASE req[r].login = stored
    BY <1>1, <2>1, <2>2, EndsFacts, TtlAssumption DEF TypeOK
  <2>3. CASE req[r].login # stored
    BY <1>1, <2>1, <2>3, EndsFacts DEF IInv, EndingsTakeHold
  <2>4. QED
    BY <2>2, <2>3
<1>5. LoginsEnd'
  BY <1>1, EndsFacts DEF IInv, LoginsEnd, GuestsLoggedIn
<1>6. QED
  BY <1>2, <1>3, <1>4, <1>5

\* A demotion is completed by the end of the session, or the step has to do with none.
MaySettle(time) ==
    \/ UNCHANGED <<revoking, demoted, overtaken>>
    \/ /\ revoking /\ revoking' = FALSE /\ demoted' = [demoted EXCEPT !.at = time]
       /\ overtaken' \subseteq Logins

LEMMA SettleFacts ==
    ASSUME TypeOK, NEW time \in Nat, MaySettle(time)
    PROVE  /\ demoted' \in Demotions /\ overtaken' \subseteq Logins
           /\ revoking' \in BOOLEAN /\ demoted'.how = demoted.how
           /\ ~revoking => UNCHANGED <<revoking, demoted, overtaken>>
           /\ revoking /\ ~revoking' => demoted'.at = time
<1>1. CASE UNCHANGED <<revoking, demoted, overtaken>>
  BY <1>1 DEF TypeOK
<1>2. CASE revoking /\ revoking' = FALSE /\ demoted' = [demoted EXCEPT !.at = time]
           /\ overtaken' \subseteq Logins
  BY <1>2 DEF TypeOK, Demotions
<1>3. QED
  BY <1>1, <1>2 DEF MaySettle

LEMMA EndsKeepsTokens ==
    ASSUME IInv, NEW time, EndsAt(time), MaySettle(time)
    PROVE  (\A t \in tokens : Fits(t)') /\ AdminPowersEnd'
<1>1. TypeOK /\ TokensFit /\ time \in Nat \ {0} /\ now <= time /\ now' = time /\ Ends(time) /\ req' = req
  BY DEF IInv, EndsAt
<1>2. ASSUME NEW t \in tokens PROVE Fits(t)'
  <2>1. /\ t.login \in Logins /\ t.exp \in Nat /\ now \in Nat /\ AccessTtl \in Nat
        /\ login[t.login].at # Never /\ t.exp <= now + AccessTtl /\ (InTime(t) \/ t.by \in late)
    BY <1>1, TtlAssumption DEF TypeOK, Tokens, TokensFit, Fits
  <2>2. login'[t.login] = login[t.login] /\ t.exp <= time + AccessTtl
    BY <1>1, <2>1 DEF EndsAt
  <2>3. ASSUME InTime(t) PROVE InTime(t)'
    <3>1. ended'[t.login] # Never => t.exp <= ended'[t.login] + AccessTtl
      BY <1>1, <2>1, <2>2, <2>3, EndsFacts DEF InTime
    <3>2. t.role = "admin" /\ Demoted' => t.exp <= demoted'.at + AccessTtl \/ t.login \in overtaken'
      BY <1>1, <2>2, <2>3, SettleFacts DEF InTime, Demoted
    <3>3. QED
      BY <2>2, <2>3, <3>1, <3>2 DEF InTime
  <2>4. QED
    BY <1>1, <2>1, <2>2, <2>3, EndsFacts DEF Fits
<1>3. AdminPowersEnd'
  <2> SUFFICES ASSUME NEW r \in Requests, req[r].stage = "accepted", req[r].token.role = "admin",
                      demoted'.how = "changeUserRole", ~revoking'
               PROVE  \/ req[r].at < demoted'.at + AccessTtl \/ req[r].token.by \in late'
                      \/ req[r].token.login \in overtaken'
    BY <1>1 DEF AdminPowersEnd
  <2>1. req[r].at \in Nat /\ req[r].at <= now /\ now \in Nat /\ AccessTtl \in Nat /\ 0 < AccessTtl
    BY <1>1, TtlAssumption DEF IInv, GuestsLoggedIn, TypeOK, RequestType
  <2>2. CASE revoking
    BY <1>1, <2>1, <2>2, SettleFacts
  <2>3. CASE ~revoking
    BY <1>1, <2>3, SettleFacts, EndsFacts DEF IInv, AdminPowersEnd
  <2>4. QED
    BY <2>2, <2>3
<1>4. QED
  BY <1>2, <1>3

-----------------------------------------------------------------------------
(* The steps                                                               *)

LEMMA AccessTyped ==
    ASSUME TypeOK, NEW l \in Logins, NEW as \in Roles, NEW by \in Requests \cup {"login"}
    PROVE  /\ AccessToken(l, as, by) \in Tokens
           /\ AccessToken(l, as, by).login = l /\ AccessToken(l, as, by).role = as
           /\ AccessToken(l, as, by).by = by /\ AccessToken(l, as, by).exp = now + AccessTtl
<1>1. now + AccessTtl \in Nat
  BY TtlAssumption DEF TypeOK
<1>2. AccessToken(l, as, by) = [login |-> l, role |-> as, exp |-> now + AccessTtl, by |-> by]
  BY DEF AccessToken
<1>3. ASSUME NEW e \in Nat PROVE [login |-> l, role |-> as, exp |-> e, by |-> by] \in Tokens
  BY DEF Tokens
<1>4. AccessToken(l, as, by) \in Tokens
  BY <1>1, <1>2, <1>3, Zenon
<1>5. QED
  BY <1>2, <1>4

\* What a login reads makes no difference to any token.
LEMMA ReadStep == ASSUME IInv, NEW l \in Logins, ReadUser(l) PROVE IInv'
<1>1. /\ TypeOK /\ login' = [login EXCEPT ![l].role = role] /\ login[l].role = "unread"
      /\ UNCHANGED <<now, role, stored, tokens, revoking, req, history>>
  BY DEF IInv, ReadUser
<1>2. /\ login' \in [Logins -> Started] /\ login'[l].role = role
      /\ \A k \in Logins : login'[k].at = login[k].at /\ (k # l => login'[k] = login[k])
  BY <1>1 DEF TypeOK
<1>3. login[l].at = Never
  BY <1>1 DEF IInv, LoginsHaveRead
<1>4. TypeOK'
  BY <1>1, <1>2 DEF TypeOK
<1>5. StoredIsLive' /\ LoginsHaveRead' /\ SignersFoundIt' /\ GuestsLoggedIn'
  BY <1>1, <1>2, <1>3, TtlAssumption
  DEF IInv, StoredIsLive, LoginsHaveRead, SignersFoundIt, GuestsLoggedIn, TypeOK
<1>6. DemotionsReach'
  <2>1. Demoted => role = "user"
    BY DEF IInv, DemotionsReach, Demoted
  <2>2. stored # NoLogin => stored \in Logins \ {l}
    BY <1>1, <1>3 DEF IInv, StoredIsLive, TypeOK
  <2>3. QED
    BY <1>1, <1>2, <2>1, <2>2 DEF IInv, DemotionsReach, Demoted
<1>7. TokensFit'
  BY <1>1, <1>2, <1>3 DEF IInv, TypeOK, TokensFit, Fits, InTime, Demoted, Tokens
<1>8. EndingsTakeHold' /\ LoginsEnd' /\ AdminPowersEnd'
  BY <1>1, <1>2 DEF IInv, GuestsLoggedIn, EndingsTakeHold, LoginsEnd, AdminPowersEnd
<1>9. QED
  BY <1>4, <1>5, <1>6, <1>7, <1>8 DEF IInv

LEMMA LoginStep == ASSUME IInv, NEW l \in Logins, Login(l) PROVE IInv'
<1>1. /\ TypeOK /\ login[l].at = Never /\ ended[l] = Never /\ login[l].role \in Roles
      /\ UNCHANGED <<now, role, revoking, req, demoted, overtaken>> /\ stored' = l
  BY DEF IInv, StoredIsLive, Login, TypeOK
<1>2. /\ login' \in [Logins -> Started] /\ login'[l] = [at |-> now, role |-> login[l].role]
      /\ \A k \in Logins \ {l} : login'[k] = login[k]
  BY <1>1 DEF TypeOK, Login
<1>3. EndsAt(now) /\ MaySettle(now)
  BY <1>1, <1>2 DEF Login, EndsAt, MaySettle, TypeOK
<1>4. PICK u \in Tokens : /\ u.login = l /\ u.role = login[l].role /\ u.exp = now + AccessTtl
                         /\ tokens' = tokens \cup {u}
  <2>1. tokens' = tokens \cup {AccessToken(l, login[l].role, "login")}
    BY DEF Login
  <2>2. "login" \in Requests \cup {"login"}
    OBVIOUS
  <2>3. QED
    BY <1>1, <2>1, <2>2, AccessTyped
<1>5. TypeOK'
  BY <1>1, <1>2, <1>3, <1>4, EndsFacts DEF TypeOK, EndsAt
<1>6. StoredIsLive' /\ LoginsHaveRead'
  <2>1. ended'[l] = Never /\ now # Never /\ now < now + RefreshTtl
    BY <1>1, <1>3, EndsFacts, TtlAssumption DEF IInv, StoredIsLive, EndsAt, TypeOK, Never
  <2>2. \A k \in Logins : login'[k].at = Never => ended'[k] = Never
    BY <1>1, <1>2, <1>3, <2>1, EndsFacts, TtlAssumption DEF IInv, StoredIsLive, EndsAt, TypeOK
  <2>3. LoginsHaveRead'
    BY <1>1, <1>2 DEF IInv, LoginsHaveRead, Roles
  <2>4. QED
    BY <1>1, <1>2, <2>1, <2>2, <2>3 DEF StoredIsLive
<1>7. Demoted /\ login[l].role = "admin" => l \in overtaken
  <2>1. login[l] = [at |-> Never, role |-> login[l].role]
    BY <1>1 DEF TypeOK
  <2>2. QED
    BY <2>1 DEF IInv, DemotionsReach
<1>8. DemotionsReach'
  <2>1. \A k \in Logins : login'[k] = [at |-> Never, role |-> "admin"] => k # l
    BY <1>1, <1>2 DEF TypeOK, Never
  <2>2. QED
    BY <1>1, <1>2, <1>7, <2>1 DEF IInv, DemotionsReach, Demoted
<1>9. TokensFit'
  <2>1. u.exp <= login'[l].at + RefreshTtl + AccessTtl /\ ended'[l] = Never
    BY <1>1, <1>2, <1>3, <1>4, EndsFacts, TtlAssumption DEF IInv, StoredIsLive, EndsAt, TypeOK
  <2>2. u.role = "admin" /\ Demoted' => u.login \in overtaken'
    BY <1>1, <1>4, <1>7 DEF Demoted
  <2>3. login'[l].at # Never /\ u.exp <= now' + AccessTtl
    BY <1>1, <1>2, <1>4, TtlAssumption DEF TypeOK, Never
  <2>4. Fits(u)'
    BY <1>4, <2>1, <2>2, <2>3 DEF Fits, InTime
  <2>5. QED
    BY <1>3, <1>4, <2>4, EndsKeepsTokens DEF TokensFit
<1>10. QED
  BY <1>3, <1>5, <1>6, <1>8, <1>9, EndsKeepsRequests, EndsKeepsTokens DEF IInv

LEMMA RevokeStep == ASSUME IInv, Revoke \/ RevokeDemoted PROVE IInv'
<1>1. /\ EndsAt(now) /\ MaySettle(now) /\ TypeOK
      /\ UNCHANGED <<now, role, login, tokens, req>> /\ stored' = NoLogin
  BY DEF IInv, Revoke, RevokeDemoted, EndsAt, MaySettle, TypeOK
<1>2. TypeOK'
  BY <1>1, EndsFacts, SettleFacts DEF TypeOK, EndsAt
<1>3. StoredIsLive' /\ LoginsHaveRead'
  <2>1. now \in Nat /\ Ends(now)
    BY <1>1 DEF EndsAt, TypeOK
  <2>2. \A l \in Logins : login[l].at = Never => l # stored /\ ended'[l] = ended[l]
    BY <1>1, <2>1, EndsFacts, TtlAssumption DEF IInv, StoredIsLive
  <2>3. QED
    BY <1>1, <2>2 DEF IInv, StoredIsLive, LoginsHaveRead
<1>4. DemotionsReach'
  <2>1. demoted'.how = demoted.how /\ UNCHANGED <<role, login>>
    BY <1>1, SettleFacts DEF TypeOK
  <2>2. CASE Revoke
    BY <1>1, <2>1, <2>2 DEF Revoke, IInv, DemotionsReach, Demoted
  <2>3. CASE RevokeDemoted
    BY <1>1, <2>1, <2>3 DEF RevokeDemoted, IInv, DemotionsReach, Demoted
  <2>4. QED
    BY <2>2, <2>3
<1>5. TokensFit'
  BY <1>1, EndsKeepsTokens DEF TokensFit
<1>6. QED
  BY <1>1, <1>2, <1>3, <1>4, <1>5, EndsKeepsRequests, EndsKeepsTokens DEF IInv

LEMMA TickStep == ASSUME IInv, Tick PROVE IInv'
<1>0. /\ TypeOK /\ now' = now + 1
      /\ UNCHANGED <<role, login, tokens, revoking, req, demoted, overtaken>>
  BY DEF IInv, Tick
<1>1. CASE stored # NoLogin /\ now' = login[stored].at + RefreshTtl
  <2>1. EndsAt(now') /\ MaySettle(now') /\ stored' = NoLogin
    BY <1>0, <1>1 DEF Tick, EndsAt, MaySettle, TypeOK
  <2>2. TypeOK'
    BY <1>0, <2>1, EndsFacts DEF TypeOK, EndsAt
  <2>3. StoredIsLive' /\ LoginsHaveRead'
    BY <1>0, <1>1, <2>1, EndsFacts DEF IInv, StoredIsLive, LoginsHaveRead, TypeOK, EndsAt
  <2>4. DemotionsReach'
    BY <1>0, <2>1 DEF IInv, DemotionsReach, Demoted
  <2>5. TokensFit'
    BY <1>0, <2>1, EndsKeepsTokens DEF TokensFit
  <2>6. QED
    BY <2>1, <2>2, <2>3, <2>4, <2>5, EndsKeepsRequests, EndsKeepsTokens DEF IInv
<1>2. CASE ~(stored # NoLogin /\ now' = login[stored].at + RefreshTtl)
  <2>1. UNCHANGED <<stored, ended, late>>
    BY <1>2 DEF Tick
  <2>2. TypeOK'
    BY <1>0, <2>1 DEF TypeOK
  <2>3. StoredIsLive' /\ LoginsHaveRead'
    BY <1>0, <1>2, <2>1, TtlAssumption DEF IInv, StoredIsLive, LoginsHaveRead, TypeOK
  <2>4. SignersFoundIt' /\ DemotionsReach' /\ EndingsTakeHold' /\ LoginsEnd' /\ AdminPowersEnd'
    BY <1>0, <2>1 DEF IInv, SignersFoundIt, DemotionsReach, Demoted, EndingsTakeHold, LoginsEnd,
        AdminPowersEnd
  <2>5. GuestsLoggedIn'
    BY <1>0, <2>1 DEF IInv, GuestsLoggedIn, TypeOK, RequestType
  <2>6. TokensFit'
    BY <1>0, <2>1, TtlAssumption DEF IInv, TokensFit, Fits, InTime, Demoted, TypeOK, Tokens
  <2>7. QED
    BY <2>2, <2>3, <2>4, <2>5, <2>6 DEF IInv
<1>3. QED
  BY <1>1, <1>2

LEMMA DemoteStep == ASSUME IInv, NEW how \in {"changeUserRole", "updateUser"}, Demote(how) PROVE IInv'
<1>1. /\ TypeOK /\ UNCHANGED <<now, login, stored, tokens, req, ended, late, overtaken>>
      /\ demoted' = [how |-> how, at |-> now]
  BY DEF IInv, Demote
<1>2. TypeOK'
  BY <1>1 DEF TypeOK, Demote, Roles, Demotions
<1>3. /\ StoredIsLive' /\ LoginsHaveRead' /\ SignersFoundIt' /\ GuestsLoggedIn'
      /\ EndingsTakeHold' /\ LoginsEnd'
  BY <1>1 DEF IInv, StoredIsLive, LoginsHaveRead, SignersFoundIt, GuestsLoggedIn, EndingsTakeHold, LoginsEnd
<1>4. DemotionsReach'
  <2>1. how = "changeUserRole" => revoking'
    BY DEF Demote
  <2>2. role' = "user" /\ demoted'.how = how
    BY <1>1 DEF Demote
  <2>3. QED
    BY <2>1, <2>2 DEF DemotionsReach, Demoted
<1>5. TokensFit'
  BY <1>1 DEF IInv, TokensFit, Fits, InTime, Demoted
<1>6. AdminPowersEnd'
  BY <1>1, TtlAssumption DEF IInv, GuestsLoggedIn, AdminPowersEnd, TypeOK, RequestType
<1>7. QED
  BY <1>2, <1>3, <1>4, <1>5, <1>6 DEF IInv

\* A step of a request that leaves the tokens alone, and one that signs another.
LEMMA GuestStep ==
    ASSUME IInv, UNCHANGED <<now, role, login, stored, tokens, revoking, history>>,
           req' \in [Requests -> RequestType], SignersFoundIt', GuestsLoggedIn', Promises'
    PROVE  IInv'
<1>1. TypeOK'
  BY DEF IInv, TypeOK
<1>2. StoredIsLive' /\ LoginsHaveRead' /\ DemotionsReach'
  BY DEF IInv, StoredIsLive, LoginsHaveRead, DemotionsReach, Demoted
<1>3. TokensFit'
  BY DEF IInv, TokensFit, Fits, InTime, Demoted
<1>4. QED
  BY <1>1, <1>2, <1>3 DEF IInv, Promises

LEMMA SignedStep ==
    ASSUME IInv, UNCHANGED <<now, role, login, stored, revoking, history>>,
           NEW t \in Tokens, tokens' = tokens \cup {t}, login[t.login].at # Never,
           t.exp = now + AccessTtl, InTime(t) \/ t.by \in late,
           req' \in [Requests -> RequestType], SignersFoundIt', GuestsLoggedIn', Promises'
    PROVE  IInv'
<1>1. TypeOK'
  BY DEF IInv, TypeOK
<1>2. StoredIsLive' /\ LoginsHaveRead' /\ DemotionsReach'
  BY DEF IInv, StoredIsLive, LoginsHaveRead, DemotionsReach, Demoted
<1>3. t.exp <= now + AccessTtl
  BY TtlAssumption DEF IInv, TypeOK
<1>4. TokensFit'
  BY <1>3 DEF IInv, TokensFit, Fits, InTime, Demoted
<1>5. QED
  BY <1>1, <1>2, <1>4 DEF IInv, Promises

\* A request that gets in for a token that fits, or signs one, gets in in time.
LEMMA AnswerStep ==
    ASSUME IInv, NEW r \in Requests, NEW how \in {"accepted", "connected"}, NEW t,
           t \in [login : Logins, role : Roles, exp : Nat, by : Requests \cup {"login"}],
           login[t.login].at # Never,
           t.by \in late \/ (now < login[t.login].at + RefreshTtl + AccessTtl
                            /\ (how = "accepted" => InTime(t) /\ now < t.exp)),
           Answer(r, how, t),
           UNCHANGED <<now, role, login, stored, revoking, history>>
    PROVE  /\ req' \in [Requests -> RequestType]
           /\ SignersFoundIt' /\ GuestsLoggedIn' /\ Promises'
<1>1. TypeOK
  BY DEF IInv
<1>2. /\ req' \in [Requests -> RequestType] /\ \A q \in Requests \ {r} : req'[q] = req[q]
      /\ req'[r].stage = how /\ req'[r].login = t.login /\ req'[r].at = now /\ req'[r].token = t
  <2>1. req' = [req EXCEPT ![r] = [stage |-> how, login |-> t.login, at |-> now, token |-> t]]
    BY DEF Answer
  <2>2. [stage |-> how, login |-> t.login, at |-> now, token |-> t] \in RequestType
    BY <1>1 DEF TypeOK, RequestType
  <2>3. QED
    BY <1>1, <2>1, <2>2 DEF TypeOK
<1>3. SignersFoundIt'
  BY <1>2 DEF IInv, SignersFoundIt
<1>4. GuestsLoggedIn'
  BY <1>1, <1>2 DEF IInv, GuestsLoggedIn, TypeOK
<1>5. EndingsTakeHold'
  <2>1. how = "accepted" /\ t.by \notin late /\ ended[t.login] # Never => now < ended[t.login] + AccessTtl
    BY <1>1, TtlAssumption DEF InTime, TypeOK
  <2>2. QED
    BY <1>2, <2>1 DEF IInv, EndingsTakeHold
<1>6. LoginsEnd'
  BY <1>2 DEF IInv, LoginsEnd
<1>7. AdminPowersEnd'
  <2>1. how = "accepted" /\ t.by \notin late /\ t.role = "admin" /\ demoted.how = "changeUserRole" /\ ~revoking
          => now < demoted.at + AccessTtl \/ t.login \in overtaken
    BY <1>1, TtlAssumption DEF InTime, Demoted, TypeOK, Demotions
  <2>2. QED
    BY <1>2, <2>1 DEF IInv, AdminPowersEnd
<1>8. QED
  BY <1>2, <1>3, <1>4, <1>5, <1>6, <1>7 DEF Promises

LEMMA AcceptStep == ASSUME IInv, NEW r \in Requests, AcceptAccess(r) PROVE IInv'
<1>1. TypeOK /\ UNCHANGED <<now, role, login, stored, tokens, revoking, history>>
  BY DEF IInv, AcceptAccess
<1>2. PICK t \in tokens : AccessValid(t) /\ Answer(r, "accepted", t)
  BY DEF AcceptAccess
<1>3. t \in Tokens /\ Fits(t) /\ now < t.exp
  BY <1>1, <1>2 DEF IInv, TokensFit, TypeOK, AccessValid
<1>4. t.by \in late \/ now < login[t.login].at + RefreshTtl + AccessTtl
  BY <1>1, <1>3, TtlAssumption DEF Fits, InTime, TypeOK, Tokens
<1>5. req' \in [Requests -> RequestType] /\ SignersFoundIt' /\ GuestsLoggedIn' /\ Promises'
  BY <1>1, <1>2, <1>3, <1>4, AnswerStep DEF Fits, Tokens
<1>6. QED
  BY <1>1, <1>5, GuestStep

LEMMA HandshakeStep == ASSUME IInv, NEW r \in Requests, NEW l \in Logins, Handshake(r, l) PROVE IInv'
<1>1. TypeOK /\ UNCHANGED <<now, role, login, stored, tokens, revoking, history>>
  BY DEF IInv, Handshake
<1>2. PICK t \in Tokens :
        /\ Answer(r, "connected", t) /\ login[t.login].at # Never
        /\ t.by \in late \/ now < login[t.login].at + RefreshTtl + AccessTtl
  <2>1. ASSUME NEW t \in tokens, AccessValid(t), Answer(r, "connected", t)
        PROVE  /\ t \in Tokens /\ login[t.login].at # Never
               /\ t.by \in late \/ now < login[t.login].at + RefreshTtl + AccessTtl
    BY <1>1, <2>1, TtlAssumption DEF IInv, TokensFit, Fits, InTime, TypeOK, Tokens, AccessValid
  <2>2. ASSUME RefreshValid(l)
        PROVE  LET t == [NoToken EXCEPT !.login = l] IN
               /\ t \in Tokens /\ login[t.login].at # Never
               /\ now < login[t.login].at + RefreshTtl + AccessTtl
    BY <1>1, <2>2, TtlAssumption DEF NoToken, Tokens, Roles, RefreshValid, TypeOK
  <2>3. QED
    BY <2>1, <2>2 DEF Handshake
<1>3. req' \in [Requests -> RequestType] /\ SignersFoundIt' /\ GuestsLoggedIn' /\ Promises'
  BY <1>1, <1>2, AnswerStep DEF Tokens
<1>4. QED
  BY <1>1, <1>3, GuestStep

LEMMA FindStep == ASSUME IInv, NEW r \in Requests, NEW l \in Logins, FindStored(r, l) PROVE IInv'
<1>1. TypeOK /\ UNCHANGED <<now, role, login, stored, tokens, revoking, history>>
  BY DEF IInv, FindStored
<1>2. /\ req' \in [Requests -> RequestType] /\ \A q \in Requests \ {r} : req'[q] = req[q]
      /\ req'[r].stage = "signing" /\ req'[r].login = l /\ stored = l /\ login[l].at # Never
  <2>1. req' = [req EXCEPT ![r].stage = "signing", ![r].login = l]
    BY DEF FindStored
  <2>2. req \in [Requests -> RequestType] /\ l \in Logins \cup {NoLogin}
    BY <1>1 DEF TypeOK
  <2>3. req' \in [Requests -> RequestType]
    BY <2>1, <2>2 DEF RequestType
  <2>4. req'[r].stage = "signing" /\ req'[r].login = l
    BY <2>1, <2>2 DEF RequestType
  <2>5. QED
    BY <2>1, <2>2, <2>3, <2>4 DEF FindStored, RefreshValid
<1>3. SignersFoundIt'
  BY <1>1, <1>2 DEF IInv, SignersFoundIt
<1>4. GuestsLoggedIn' /\ Promises'
  BY <1>1, <1>2 DEF IInv, GuestsLoggedIn, Promises, EndingsTakeHold, LoginsEnd, AdminPowersEnd
<1>5. QED
  BY <1>1, <1>2, <1>3, <1>4, GuestStep

LEMMA SignStep == ASSUME IInv, NEW r \in Requests, SignAccess(r) PROVE IInv'
<1>1. TypeOK /\ UNCHANGED <<now, role, login, stored, revoking, history>>
  BY DEF IInv, SignAccess
<1> DEFINE l == req[r].login
<1>2. /\ l \in Logins /\ login[l].at # Never /\ login[l].role \in Roles
      /\ stored = l \/ r \in late
  BY <1>1 DEF IInv, SignersFoundIt, SignAccess, LoginsHaveRead, TypeOK
<1>3. PICK t \in Tokens : /\ t.login = l /\ t.role = login[l].role /\ t.by = r /\ t.exp = now + AccessTtl
                         /\ tokens' = tokens \cup {t} /\ Answer(r, "accepted", t)
  <2>1. LET t == AccessToken(l, login[l].role, r) IN tokens' = tokens \cup {t} /\ Answer(r, "accepted", t)
    BY DEF SignAccess
  <2>2. r \in Requests \cup {"login"}
    OBVIOUS
  <2>3. QED
    BY <1>1, <1>2, <2>1, <2>2, AccessTyped
<1>4. CASE r \notin late
  <2>1. /\ ended[l] = Never /\ now < login[l].at + RefreshTtl
        /\ Demoted /\ login[l].role = "admin" => l \in overtaken
    <3>1. stored = l /\ stored # NoLogin
      BY <1>2, <1>4, TtlAssumption
    <3>2. ended[l] = Never /\ now < login[l].at + RefreshTtl
      BY <3>1 DEF IInv, StoredIsLive
    <3>3. Demoted /\ login[l].role = "admin" => l \in overtaken
      BY <3>1 DEF IInv, DemotionsReach
    <3>4. QED
      BY <3>2, <3>3
  <2>2. InTime(t) /\ now < t.exp /\ now < login[l].at + RefreshTtl + AccessTtl
    BY <1>1, <1>2, <1>3, <2>1, TtlAssumption DEF InTime, TypeOK
  <2>3. QED
    BY <1>1, <1>2, <1>3, <2>2, AnswerStep, SignedStep DEF Tokens
<1>5. CASE r \in late
  BY <1>1, <1>2, <1>3, <1>5, AnswerStep, SignedStep DEF Tokens
<1>6. QED
  BY <1>4, <1>5

-----------------------------------------------------------------------------

LEMMA NextInv == ASSUME IInv, [Next]_vars PROVE IInv'
<1>1. CASE UNCHANGED vars
  BY <1>1 DEF vars, IInv, TypeOK, StoredIsLive, LoginsHaveRead, SignersFoundIt, GuestsLoggedIn,
      DemotionsReach, Demoted, TokensFit, Fits, InTime, EndingsTakeHold, LoginsEnd, AdminPowersEnd
<1>2. QED
  BY <1>1, ReadStep, LoginStep, RevokeStep, TickStep, DemoteStep, AcceptStep, SignStep, FindStep,
     HandshakeStep DEF Next

\* The inductive invariant of tokens and of those they let in.
THEOREM AccessInvariant == Spec => []IInv
<1>1. IInv /\ [Next]_vars => IInv'
  BY NextInv
<1>2. QED
  BY InitInv, <1>1, PTL DEF Spec

\* Auth/utils.ts, resolveSession, and Middlewares/Auth: no request is accepted on a session that
\* ended longer ago than an access token lives, unless it had seen it before.
THEOREM EndingsHold == Spec => []EndingsTakeHold
<1>1. IInv => EndingsTakeHold
  BY DEF IInv
<1>2. QED
  BY <1>1, AccessInvariant, PTL

\* Auth/const.ts, AUTH_TTL: a login lets in requests and sockets no longer than its refresh token
\* and one access token last.
THEOREM LoginsDoEnd == Spec => []LoginsEnd
<1>1. IInv => LoginsEnd
  BY DEF IInv
<1>2. QED
  BY <1>1, AccessInvariant, PTL

\* Admin/service.ts, changeUserRole: a user is an admin to no request that is accepted later
\* than an access token lives after the demotion is complete, unless it had seen the session, or
\* came in on a login that had read the user before and was completed after.
THEOREM AdminPowersDoEnd == Spec => []AdminPowersEnd
<1>1. IInv => AdminPowersEnd
  BY DEF IInv
<1>2. QED
  BY <1>1, AccessInvariant, PTL

-----------------------------------------------------------------------------
(* Lists and their pages.                                                  *)

\* The documents are numbered, so that any set of them is finite.
LEMMA DocSets ==
    ASSUME NEW S \in SUBSET Docs
    PROVE  IsFiniteSet(S) /\ Cardinality(S) \in Nat /\ Cardinality(S) <= MaxDocs
<1>1. IsFiniteSet(Docs) /\ Cardinality(Docs) <= MaxDocs
  BY FS_Interval, ListAssumption DEF Docs
<1>2. Cardinality(Docs) \in Nat
  BY <1>1, FS_CardinalityType
<1>3. IsFiniteSet(S) /\ Cardinality(S) <= Cardinality(Docs)
  BY <1>1, FS_Subset
<1>4. Cardinality(S) \in Nat
  BY <1>3, FS_CardinalityType
<1>5. QED
  BY <1>1, <1>2, <1>3, <1>4, ListAssumption

\* The documents of a list have the places from 1 to its length, each its own.
LEMMA Positions ==
    ASSUME NEW S \in SUBSET Docs, NEW d \in Docs
    PROVE  /\ Position(S, d) \in Nat /\ Position(S, d) <= Cardinality(S)
           /\ d \in S => 1 <= Position(S, d)
<1> DEFINE Upto == {e \in S : e = d \/ Before(e, d)}
<1>1. Upto \in SUBSET S /\ Upto \in SUBSET Docs /\ Position(S, d) = Cardinality(Upto)
  BY DEF Position
<1>2. Cardinality(Upto) \in Nat /\ IsFiniteSet(Upto) /\ IsFiniteSet(S)
  BY <1>1, DocSets
<1>3. Cardinality(Upto) <= Cardinality(S)
  BY <1>1, <1>2, FS_Subset
<1>4. ASSUME d \in S PROVE Cardinality(Upto) # 0
  BY <1>2, <1>4, FS_EmptySet
<1>5. QED
  BY <1>1, <1>2, <1>3, <1>4

LEMMA PositionsDiffer ==
    ASSUME NEW S \in SUBSET Docs, NEW a \in S, NEW b \in S, a # b
    PROVE  Position(S, a) # Position(S, b)
<1> DEFINE Upto(d) == {e \in S : e = d \/ Before(e, d)}
<1>1. \A d \in S : IsFiniteSet(Upto(d)) /\ Position(S, d) = Cardinality(Upto(d))
  BY DocSets DEF Position
<1>2. ASSUME NEW c \in S, NEW d \in S, Before(c, d)
      PROVE  Upto(c) \in SUBSET Upto(d) /\ d \in Upto(d) /\ d \notin Upto(c)
  <2>1. S \subseteq Int
    BY ListAssumption DEF Docs
  <2>2. \A e \in S : Before(e, c) => Before(e, d)
    BY <1>2, <2>1 DEF Before
  <2>3. d # c /\ ~Before(d, c)
    BY <1>2, <2>1 DEF Before
  <2>4. QED
    BY <1>2, <2>2, <2>3
<1>3. \A c, d \in S : Before(c, d) => Position(S, c) # Position(S, d)
  <2>1. SUFFICES ASSUME NEW c \in S, NEW d \in S, Before(c, d), Position(S, c) = Position(S, d)
                 PROVE  FALSE
    OBVIOUS
  <2>2. Upto(c) = Upto(d)
    BY <1>1, <1>2, <2>1, FS_Subset
  <2>3. QED
    BY <1>2, <2>1, <2>2
<1>4. Before(a, b) \/ Before(b, a)
  BY ListAssumption DEF Before, Docs
<1>5. QED
  BY <1>3, <1>4

\* A page is no longer than the limit.
LEMMA PageSize ==
    ASSUME NEW S \in SUBSET Docs, Skip \in Int
    PROVE  /\ PageOf(S) \subseteq S
           /\ Cardinality(PageOf(S)) \in Nat
           /\ Cardinality(PageOf(S)) <= Limit
<1> DEFINE Place == [d \in PageOf(S) |-> Position(S, d) - Skip]
<1>1. PageOf(S) \subseteq S /\ PageOf(S) \in SUBSET Docs
  BY DEF PageOf
<1>2. \A d \in PageOf(S) : Position(S, d) - Skip \in 1..Limit
  BY <1>1, Positions, ListAssumption DEF PageOf
<1>3. \A a, b \in PageOf(S) : Position(S, a) - Skip = Position(S, b) - Skip => a = b
  <2>1. \A a \in PageOf(S) : a \in S /\ Position(S, a) \in Int
    BY <1>1, Positions
  <2>2. QED
    BY <2>1, PositionsDiffer
<1>4. Place \in Injection(PageOf(S), 1..Limit)
  BY <1>2, <1>3 DEF Injection, IsInjective
<1>5. IsFiniteSet(1..Limit) /\ Cardinality(1..Limit) = Limit
  BY FS_Interval, ListAssumption
<1>6. Cardinality(PageOf(S)) <= Limit
  BY <1>4, <1>5, FS_Injection
<1>7. QED
  BY <1>1, <1>6, DocSets

\* A list that only grows moves no document forward.
LEMMA PositionsGrow ==
    ASSUME NEW S \in SUBSET Docs, NEW T \in SUBSET S, NEW d \in Docs
    PROVE  Position(T, d) <= Position(S, d)
<1> DEFINE Upto(R) == {e \in R : e = d \/ Before(e, d)}
<1>1. Upto(T) \in SUBSET Upto(S) /\ Upto(S) \in SUBSET Docs
  OBVIOUS
<1>2. IsFiniteSet(Upto(S))
  BY <1>1, DocSets
<1>3. Cardinality(Upto(T)) <= Cardinality(Upto(S))
  BY <1>1, <1>2, FS_Subset
<1>4. QED
  BY <1>3 DEF Position

\* Math.ceil: a page that is not the last is full.
LEMMA LastPage ==
    ASSUME NEW total \in Nat, NEW page \in Nat, TotalPages(total) <= page
    PROVE  total <= page * Limit
<1> DEFINE n == (total + Limit - 1) \div Limit
<1>1. n \in Nat /\ total + Limit - 1 < (n + 1) * Limit
  BY ListAssumption
<1>2. n <= page /\ n * Limit <= page * Limit
  BY <1>1, ListAssumption DEF TotalPages
<1>3. QED
  BY <1>1, <1>2, ListAssumption
-----------------------------------------------------------------------------
(* The invariant                                                           *)

Hides == ~query.admin /\ query.endpoint \in {"generations", "files"}

\* Documents keep their owner, also those the client has: no document comes back as another.
HiddenInv ==
    /\ \A d \in Docs : d > born => docs[d] = Absent
    /\ seen \cup found \subseteq 1..born
    /\ Hides => \A d \in seen \cup found : docs[d] = Absent \/ Owner(d) = "me"

Missing == steady \ (seen \cup found)

\* What the client asks for next begins at the first place it has not seen.
PagesFollow ==
    stage = "asked" /\ ~QueryFails /\ ~disturbed =>
        \A d \in Missing :
            Position(Matching, d) > (IF "find" \in answered THEN Skip + Limit ELSE Skip)

\* A count is right until the page is found beside it, and ends the list no earlier than
\* that page does.
CountsAreRight ==
    stage = "asked" /\ ~disturbed =>
        /\ answered = {"count"} => counted = Cardinality(Matching)
        /\ answered = {"count", "find"} => \A d \in Missing : counted > Skip + Limit

WalkInv ==
    /\ steady \subseteq Matching
    /\ stage = "asked" /\ answered # {} => ~QueryFails
    /\ "find" \notin answered => found = {}
    /\ PagesFollow
    /\ CountsAreRight
    /\ WalksFindAll

ListInv ==
    /\ ListTypeOK
    /\ HiddenInv
    /\ FirstPages \subseteq {0, 1} => WalkInv

ListQueries == [endpoint : Endpoints, admin : BOOLEAN, order : {"asc", "desc"}, page : Nat,
                search : Searches, owner : {AnyOne, "me", "other"}]

\* ListTypeOK without the length of a page.
LEMMA ListTypes ==
    ListTypeOK <=>
        /\ docs \in [Docs -> Attributes \cup {Absent}]
        /\ born \in 0..MaxDocs /\ query \in ListQueries
        /\ stage \in {"asked", "done", "failed500"}
        /\ answered \subseteq {"count", "find"} /\ counted \in 0..MaxDocs
        /\ found \subseteq Docs /\ Cardinality(found) <= Limit
        /\ seen \subseteq Docs /\ steady \subseteq Docs /\ disturbed \in BOOLEAN
BY DEF ListTypeOK, ListQueries

LEMMA SkipFacts ==
    ASSUME ListTypeOK
    PROVE  /\ query.page \in Nat /\ Limit \in Nat /\ Limit > 0 /\ counted \in Nat /\ born \in Nat
           /\ Skip \in Int /\ query.page * Limit = Skip + Limit
           /\ Matching \subseteq Docs
BY ListAssumption DEF ListTypeOK, Skip, Matching

\* Every document of a list has a place in it.
LEMMA Placed ==
    ASSUME ListTypeOK, NEW d \in Matching
    PROVE  /\ Position(Matching, d) \in Nat /\ Cardinality(Matching) \in 0..MaxDocs
           /\ 1 <= Position(Matching, d) /\ Position(Matching, d) <= Cardinality(Matching)
BY SkipFacts, Positions, DocSets, ListAssumption

LEMMA ListInitInv == ListInit => ListInv
<1> SUFFICES ASSUME ListInit PROVE ListInv
  OBVIOUS
<1>1. ListTypeOK
  <2>1. query \in ListQueries
    BY ListAssumption DEF ListInit, Queries, ListQueries
  <2>2. Cardinality(found) <= Limit
    BY FS_EmptySet, ListAssumption DEF ListInit
  <2>3. Matching \subseteq Docs
    BY DEF Matching
  <2>4. docs \in [Docs -> Attributes \cup {Absent}] /\ born \in 0..MaxDocs /\ counted \in 0..MaxDocs
    BY ListAssumption DEF ListInit
  <2>5. QED
    BY <2>1, <2>2, <2>3, <2>4, ListTypes DEF ListInit
<1>2. HiddenInv
  BY DEF ListInit, HiddenInv
<1>3. ASSUME FirstPages \subseteq {0, 1} PROVE WalkInv
  <2>1. PagesFollow
    <3> SUFFICES ASSUME ~QueryFails, NEW d \in Matching PROVE Position(Matching, d) > Skip
      BY DEF PagesFollow, Missing, ListInit
    <3>1. query.page = 1
      <4>1. query.page \in FirstPages
        BY DEF ListInit, Queries
      <4>2. query.page = 0 \/ query.page = 1
        BY <1>3, <4>1
      <4>3. query.page > 0
        BY DEF QueryFails, Skips
      <4>4. QED
        BY <4>2, <4>3
    <3>2. Skip = 0
      BY <3>1, ListAssumption DEF Skip
    <3>3. QED
      BY <1>1, <3>2, Placed
  <2>2. QED
    BY <2>1 DEF ListInit, WalkInv, CountsAreRight, WalksFindAll
<1>4. QED
  BY <1>1, <1>2, <1>3 DEF ListInv

-----------------------------------------------------------------------------
(* The steps                                                               *)

LEMMA FailStep == ASSUME ListInv, Fail PROVE ListInv'
<1>1. ListTypeOK' /\ HiddenInv'
  BY ListTypes DEF ListTypeOK, ListQueries, ListInv, Fail, reads, HiddenInv, Hides, Owner
<1>2. ASSUME WalkInv PROVE WalkInv'
  BY <1>2 DEF WalkInv, Fail, reads, PagesFollow, CountsAreRight, WalksFindAll, Matching, Matches,
     SearchMatches, SearchesId, OwnerFilter, ScopeMatches, Owner
<1>3. QED
  BY <1>1, <1>2 DEF ListInv

\* The queries of a page change neither the list nor where the page begins.
LEMMA ListStays ==
    ASSUME UNCHANGED <<docs, query>>
    PROVE  /\ Matching' = Matching /\ (Skip + Limit)' = Skip + Limit /\ Skip' = Skip
           /\ QueryFails' = QueryFails /\ Hides' = Hides
           /\ \A d : Owner(d)' = Owner(d)
           /\ \A d : Position(Matching, d)' = Position(Matching, d)
<1>1. Matching' = Matching
  BY DEF Matching, Matches, SearchMatches, SearchesId, OwnerFilter, ScopeMatches, Owner
<1>2. \A d : Position(Matching, d)' = Position(Matching, d)
  BY <1>1 DEF Position, Before
<1>3. QED
  BY <1>1, <1>2 DEF Skip, QueryFails, Skips, HasSearchKeys, Hides, Owner

LEMMA CountStep == ASSUME ListInv, Count PROVE ListInv'
<1>0. UNCHANGED <<docs, query>> /\ UNCHANGED <<born, stage, found, seen, steady, disturbed>> /\ ListTypeOK
  BY DEF Count, ListInv
<1>1. ListTypeOK'
  <2>1. Cardinality(Matching) \in 0..MaxDocs
    BY <1>0, SkipFacts, DocSets, ListAssumption
  <2>2. QED
    BY <1>0, <2>1, ListTypes DEF ListTypeOK, ListQueries, Count
<1>2. HiddenInv'
  BY <1>0 DEF ListInv, HiddenInv, Hides, Owner
<1>3. ASSUME WalkInv PROVE WalkInv'
  <2>1. Missing' = Missing /\ steady' \subseteq Matching'
    BY <1>0, <1>3, ListStays DEF Missing, WalkInv
  <2>2. PagesFollow'
    BY <1>0, <1>3, <2>1, ListStays DEF PagesFollow, WalkInv, Count
  <2>3. CountsAreRight'
    <3> SUFFICES ASSUME ~disturbed
                 PROVE  /\ counted' = Cardinality(Matching')
                        /\ answered' = {"count", "find"} => \A d \in Missing' : counted' > (Skip + Limit)'
      BY <1>0 DEF CountsAreRight
    <3>1. counted' = Cardinality(Matching')
      BY <1>0, ListStays DEF Count
    <3>2. ASSUME answered' = {"count", "find"}, NEW d \in Missing' PROVE counted' > (Skip + Limit)'
      <4>1. "find" \in answered /\ d \in Missing /\ d \in Matching
        BY <1>3, <2>1, <3>2 DEF Count, WalkInv, Missing
      <4>2. Position(Matching, d) > Skip + Limit
        BY <1>0, <1>3, <4>1 DEF WalkInv, PagesFollow, Count
      <4>3. Position(Matching, d) <= Cardinality(Matching) /\ Position(Matching, d) \in Nat
            /\ Cardinality(Matching) \in Nat
        BY <1>0, <4>1, Placed
      <4>4. counted' = Cardinality(Matching) /\ (Skip + Limit)' = Skip + Limit
        BY <1>0, ListStays DEF Count
      <4>5. QED
        BY <1>0, <4>2, <4>3, <4>4, SkipFacts
    <3>3. QED
      BY <3>1, <3>2
  <2>4. QED
    BY <1>0, <1>3, <2>1, <2>2, <2>3, ListStays DEF WalkInv, Count, WalksFindAll
<1>4. QED
  BY <1>1, <1>2, <1>3 DEF ListInv

LEMMA FindPageStep == ASSUME ListInv, Find PROVE ListInv'
<1>0. UNCHANGED <<docs, query>> /\ UNCHANGED <<born, stage, counted, seen, steady, disturbed>> /\ ListTypeOK
  BY DEF Find, ListInv
<1>1. Matching \in SUBSET Docs /\ Skip \in Int
  BY <1>0, SkipFacts
<1>2. found' \subseteq Matching /\ Cardinality(found') <= Limit
  BY <1>1, PageSize DEF Find
<1>3. ListTypeOK'
  BY <1>0, <1>1, <1>2, ListTypes DEF ListTypeOK, ListQueries, Find
<1>4. HiddenInv'
  <2>1. \A d \in Matching : d <= born
    BY <1>0, SkipFacts, ListAssumption DEF ListInv, HiddenInv, Matching, Matches, Docs
  <2>2. Matching \subseteq 1..born
    BY <1>0, <1>1, <2>1, SkipFacts, ListAssumption DEF Docs
  <2>3. Hides => \A d \in Matching : Owner(d) = "me"
    BY DEF Hides, Matching, Matches, OwnerFilter, ScopeMatches, AnyOne
  <2>4. seen' \cup found' \subseteq 1..born'
    BY <1>0, <1>2, <2>2 DEF ListInv, HiddenInv
  <2>5. ASSUME Hides, NEW d \in seen' \cup found' PROVE docs[d] = Absent \/ Owner(d) = "me"
    BY <1>0, <1>2, <2>3, <2>5 DEF ListInv, HiddenInv
  <2>6. QED
    BY <1>0, <2>4, <2>5, ListStays DEF ListInv, HiddenInv
<1>5. ASSUME WalkInv PROVE WalkInv'
  <2>1. Missing' \subseteq Missing /\ Missing' \subseteq Matching
    BY <1>0, <1>5 DEF Missing, WalkInv, Find
  <2>2. ASSUME ~disturbed, NEW d \in Missing'
        PROVE  Position(Matching, d) > Skip + Limit
    <3>1. Position(Matching, d) > Skip
      BY <1>0, <1>5, <2>1, <2>2 DEF WalkInv, PagesFollow, Find
    <3>2. d \notin PageOf(Matching) /\ d \in Matching
      BY <2>1, <2>2 DEF Find, Missing
    <3>3. ~(Position(Matching, d) <= Skip + Limit)
      BY <3>1, <3>2 DEF PageOf
    <3>4. Position(Matching, d) \in Nat
      BY <1>0, <3>2, Placed
    <3>5. QED
      BY <1>0, <3>3, <3>4, SkipFacts
  <2>3. PagesFollow'
    BY <1>0, <2>2, ListStays DEF PagesFollow, Find
  <2>4. CountsAreRight'
    <3> SUFFICES ASSUME ~disturbed, answered' = {"count", "find"}, NEW d \in Missing'
                 PROVE  counted > Skip + Limit
      BY <1>0, ListStays DEF CountsAreRight, Find
    <3>1. counted = Cardinality(Matching)
      BY <1>0, <1>5 DEF WalkInv, CountsAreRight, Find
    <3>2. Position(Matching, d) <= Cardinality(Matching) /\ Position(Matching, d) \in Nat
          /\ Cardinality(Matching) \in Nat
      BY <1>0, <2>1, Placed
    <3>3. QED
      BY <1>0, <2>2, <3>1, <3>2, SkipFacts
  <2>5. QED
    BY <1>0, <1>5, <2>3, <2>4, ListStays DEF WalkInv, Find, WalksFindAll
<1>6. QED
  BY <1>3, <1>4, <1>5 DEF ListInv

LEMMA AnswerPageStep == ASSUME ListInv, AnswerPage PROVE ListInv'
<1>0. UNCHANGED <<docs, born, steady, disturbed>> /\ ListTypeOK /\ found' = {} /\ counted' = 0 /\ answered' = {}
      /\ seen' = seen \cup found
  BY DEF AnswerPage, ListInv
<1>1. query \in ListQueries /\ query' \in ListQueries /\ stage' \in {"asked", "done"}
      /\ \/ query' = query /\ stage' = "done" /\ ~(query.page < TotalPages(counted))
         \/ stage' = stage /\ query' = [query EXCEPT !.page = @ + 1]
  <2>1. query \in ListQueries
    BY <1>0, ListTypes
  <2>2. [query EXCEPT !.page = @ + 1] \in ListQueries
    BY <2>1 DEF ListQueries
  <2>3. QED
    BY <2>1, <2>2 DEF AnswerPage
<1>2. \A field \in {"endpoint", "admin", "order", "search", "owner"} : query'[field] = query[field]
  BY <1>1 DEF ListQueries
<1>3. ListTypeOK'
  BY <1>0, <1>1, ListTypes, FS_EmptySet, ListAssumption DEF ListTypeOK, ListQueries
<1>4. HiddenInv'
  BY <1>0, <1>2 DEF ListInv, HiddenInv, Hides, Owner
<1>5. Matching' = Matching /\ \A d : Position(Matching, d)' = Position(Matching, d)
  <2>1. query'.endpoint = query.endpoint /\ query'.admin = query.admin /\ query'.order = query.order
        /\ query'.search = query.search /\ query'.owner = query.owner
    BY <1>2
  <2>2. Matching' = Matching
    BY <1>0, <2>1 DEF Matching, Matches, SearchMatches, SearchesId, OwnerFilter, ScopeMatches, Owner
  <2>3. QED
    BY <2>1, <2>2 DEF Position, Before
<1>6. ASSUME WalkInv PROVE WalkInv'
  <2>1. Missing' = Missing
    BY <1>0 DEF Missing
  <2>2. PagesFollow'
    <3> SUFFICES ASSUME stage' = "asked", ~disturbed, NEW d \in Missing
                 PROVE  Position(Matching, d) > Skip'
      BY <1>0, <1>5, <2>1 DEF PagesFollow
    <3>1. ~QueryFails /\ "find" \in answered /\ stage = "asked"
      BY <1>6 DEF WalkInv, AnswerPage
    <3>2. Position(Matching, d) > Skip + Limit
      BY <1>6, <3>1 DEF WalkInv, PagesFollow
    <3>3. query'.page = query.page + 1
      BY <1>1 DEF ListQueries
    <3>4. Skip' = Skip + Limit
      BY <1>0, <3>3, SkipFacts DEF Skip
    <3>5. QED
      BY <3>2, <3>4
  <2>3. WalksFindAll'
    <3> SUFFICES ASSUME stage' = "done", ~disturbed, NEW d \in Missing PROVE FALSE
      BY <1>0 DEF WalksFindAll, Missing
    <3>1. counted > Skip + Limit
      BY <1>6 DEF WalkInv, CountsAreRight, AnswerPage
    <3>2. ~(query.page < TotalPages(counted))
      BY <1>1 DEF AnswerPage
    <3>3. TotalPages(counted) \in Nat
      BY <1>0, SkipFacts DEF TotalPages
    <3>4. counted <= query.page * Limit
      BY <1>0, <3>2, <3>3, SkipFacts, LastPage
    <3>5. QED
      BY <1>0, <3>1, <3>4, SkipFacts
  <2>4. QED
    BY <1>0, <1>5, <1>6, <2>2, <2>3 DEF WalkInv, CountsAreRight
<1>7. QED
  BY <1>3, <1>4, <1>6 DEF ListInv

\* What every write of another request comes to.
LEMMA WriteStep ==
    ASSUME ListInv, NEW d \in Docs, NEW a \in Attributes \cup {Absent}, Write(d, a),
           born' \in 0..MaxDocs, born <= born', d <= born',
           docs[d] # Absent /\ a # Absent => ("mine" \in a <=> "mine" \in docs[d]),
           docs[d] = Absent => d > born
    PROVE  ListInv'
<1>0. /\ ListTypeOK /\ UNCHANGED <<query, stage>> /\ UNCHANGED <<answered, counted, found, seen>>
      /\ docs' = [docs EXCEPT ![d] = a] /\ stage = "asked"
  BY DEF ListInv, Write, reads
<1>1. ListTypeOK'
  BY <1>0, ListTypes DEF ListTypeOK, ListQueries, Write
<1>2. HiddenInv'
  <2>1. \A e \in Docs : docs'[e] = IF e = d THEN a ELSE docs[e]
    BY <1>0, ListTypes
  <2>2. \A e \in Docs : e > born' => docs'[e] = Absent
    BY <1>0, <2>1, SkipFacts, ListAssumption DEF ListInv, HiddenInv, Docs
  <2>3. seen \cup found \subseteq 1..born'
    BY <1>0, SkipFacts, ListAssumption DEF ListInv, HiddenInv
  <2>4. ASSUME Hides, NEW e \in seen \cup found PROVE docs'[e] = Absent \/ Owner(e)' = "me"
    <3>1. e \in Docs /\ e <= born /\ (docs[e] = Absent \/ Owner(e) = "me")
      BY <1>0, <2>4, ListTypes, SkipFacts DEF ListInv, HiddenInv
    <3>2. CASE e # d
      BY <2>1, <3>1, <3>2 DEF Owner
    <3>3. CASE e = d
      <4>1. docs[d] # Absent
        BY <1>0, <3>1, <3>3, SkipFacts, ListAssumption DEF Docs
      <4>2. "mine" \in docs[d]
        BY <3>1, <3>3, <4>1 DEF Owner
      <4>3. QED
        BY <2>1, <3>1, <3>3, <4>1, <4>2 DEF Owner
    <3>4. QED
      BY <3>2, <3>3
  <2>5. QED
    BY <1>0, <2>2, <2>3, <2>4 DEF HiddenInv, Hides
<1>3. ASSUME WalkInv PROVE WalkInv'
  <2>1. QueryFails' = QueryFails /\ Skip' = Skip /\ steady' \subseteq Matching' /\ Missing' \subseteq Missing
    BY <1>0 DEF QueryFails, Skips, HasSearchKeys, Skip, Missing, Write
  <2>2. ASSUME ~disturbed'
        PROVE  ~disturbed /\ Matching \in SUBSET Matching' /\ Matching' \in SUBSET Docs
               /\ (answered = {"count"} => Matching' = Matching)
    BY <2>2 DEF Write, Matching
  <2>3. PagesFollow'
    <3> SUFFICES ASSUME ~QueryFails, ~disturbed', NEW e \in Missing'
                 PROVE  Position(Matching, e)' > (IF "find" \in answered THEN Skip + Limit ELSE Skip)
      BY <1>0, <2>1 DEF PagesFollow
    <3>1. e \in Docs /\ e \in Matching
      BY <1>0, <1>3, <2>1, SkipFacts DEF Missing, WalkInv
    <3>2. Position(Matching, e) > (IF "find" \in answered THEN Skip + Limit ELSE Skip)
      BY <1>0, <1>3, <2>1, <2>2 DEF WalkInv, PagesFollow
    <3>3. Position(Matching, e)' = Position(Matching', e)
      BY <1>0 DEF Position, Before
    <3>4. /\ Position(Matching, e) <= Position(Matching', e)
          /\ Position(Matching, e) \in Nat /\ Position(Matching', e) \in Nat
      BY <2>2, <3>1, PositionsGrow, Positions
    <3>5. QED
      BY <1>0, <3>2, <3>3, <3>4, SkipFacts
  <2>4. CountsAreRight'
    BY <1>0, <1>3, <2>1, <2>2 DEF WalkInv, CountsAreRight
  <2>5. QED
    BY <1>0, <1>3, <2>1, <2>3, <2>4 DEF WalkInv, WalksFindAll
<1>4. QED
  BY <1>1, <1>2, <1>3 DEF ListInv

LEMMA CreateStep == ASSUME ListInv, NEW a \in Attributes, Create(a) PROVE ListInv'
<1>1. ListTypeOK /\ born \in 0..MaxDocs /\ born < MaxDocs /\ born' = born + 1 /\ Write(born', a)
  BY DEF ListInv, ListTypeOK, Create
<1>2. born' \in Docs /\ born' > born /\ born' \in 0..MaxDocs
  BY <1>1, ListAssumption DEF Docs
<1>3. docs[born'] = Absent
  BY <1>2 DEF ListInv, HiddenInv
<1>4. QED
  BY <1>1, <1>2, <1>3, WriteStep

\* A document that is there has been created.
LEMMA Born == ASSUME ListInv, NEW d \in Docs, docs[d] # Absent PROVE born \in 0..MaxDocs /\ d <= born
BY ListAssumption DEF ListInv, ListTypeOK, HiddenInv, Docs

LEMMA UpdateStep == ASSUME ListInv, NEW d \in Docs, NEW a \in Attributes, Update(d, a) PROVE ListInv'
BY Born, WriteStep, ListAssumption DEF Update

LEMMA DeleteStep == ASSUME ListInv, NEW d \in Docs, Delete(d) PROVE ListInv'
BY Born, WriteStep, ListAssumption DEF Delete

LEMMA ListNextInv == ASSUME ListInv, [ListNext]_listVars PROVE ListInv'
<1>1. CASE UNCHANGED listVars
  <2>1. UNCHANGED <<docs, query>> /\ UNCHANGED <<born, stage, answered, counted, found, seen, steady, disturbed>>
    BY <1>1 DEF listVars, reads
  <2>2. ListTypeOK'
    BY <2>1, ListTypes DEF ListTypeOK, ListQueries, ListInv
  <2>3. HiddenInv'
    BY <2>1, ListStays DEF ListInv, HiddenInv
  <2>4. WalkInv => WalkInv'
    BY <2>1, ListStays DEF WalkInv, PagesFollow, CountsAreRight, WalksFindAll, Missing
  <2>5. QED
    BY <2>2, <2>3, <2>4 DEF ListInv
<1>2. QED
  BY <1>1, FailStep, CountStep, FindPageStep, AnswerPageStep, CreateStep, UpdateStep, DeleteStep DEF ListNext

\* The inductive invariant of the walk through a list.
THEOREM ListsInvariant == ListSpec => []ListInv
<1>1. ListInv /\ [ListNext]_listVars => ListInv'
  BY ListNextInv
<1>2. QED
  BY ListInitInv, <1>1, PTL DEF ListSpec

\* Every variable of the lists has its type, and a page is no longer than the limit.
THEOREM ListsTyped == ListSpec => []ListTypeOK
<1>1. ListInv => ListTypeOK
  BY DEF ListInv
<1>2. QED
  BY <1>1, ListsInvariant, PTL

\* A client that begins with the first page and asks for every page misses no document that
\* matched all along, unless the list was disturbed.
THEOREM WalksDoFindAll ==
    ASSUME FirstPages \subseteq {0, 1}
    PROVE  ListSpec => []WalksFindAll
<1>1. ListInv => WalksFindAll
  BY DEF ListInv, WalkInv
<1>2. QED
  BY <1>1, ListsInvariant, PTL

\* The generations and files of others are hidden from a client that is no administrator.
THEOREM OthersAreHidden == ListSpec => []OthersStayHidden
<1>1. ListInv => OthersStayHidden
  BY DEF ListInv, HiddenInv, Hides, OthersStayHidden
<1>2. QED
  BY <1>1, ListsInvariant, PTL
=============================================================================
