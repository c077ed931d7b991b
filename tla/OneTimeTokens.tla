---------------------------- MODULE OneTimeTokens ----------------------------
(***************************************************************************)
(* One account, from the requests that create it on, and the one-time      *)
(* tokens that Redis holds for it: those of verification links and of      *)
(* password-reset links, one of each per user (auth:verify:<uid>,          *)
(* auth:reset:<uid>), and the codes by which a browser claims the session  *)
(* of a Google login (auth:social-code:<code>).  An administrator may      *)
(* create the account, move it to another email address, and say whether   *)
(* its address is verified.                                                *)
(*                                                                         *)
(* A token is named after the request that issued it.  A use of a token    *)
(* gets it, acts, and deletes what Redis then holds; all three are calls   *)
(* between which other requests run.  A link or a code can be used any     *)
(* number of times; requests that are refused change nothing and have no   *)
(* steps.                                                                  *)
(***************************************************************************)
EXTENDS Naturals

CONSTANTS
    Requests,
    Kinds,       \* the kinds of request there are, a subset of AllKinds
    CallsFail,   \* may a call to Redis, to MongoDB or to the mail server reject?
    MaxCrashes   \* bound on process crashes

VerifyIssuers == {"register", "login", "resendVerification"}
Issuers == VerifyIssuers \cup {"forgotPassword", "socialLogin"}
Users == {"verifyEmail", "resetPassword", "claimSocialCode"}
AllKinds == Issuers \cup Users \cup {"createUser", "updateUser", "deleteUser"}

Nothing == "nothing"

ASSUME TokenAssumption ==
    /\ Nothing \notin Requests /\ Kinds \subseteq AllKinds
    /\ CallsFail \in BOOLEAN /\ MaxCrashes \in Nat

VARIABLES
    account,  \* the User document
    redis,    \* key -> the token stored under it, or nothing
    req,      \* requests: kind, stage, the token they present, the address they mail to
    sent,     \* tokens that reached their user
    beside,   \* history: the uses of its key under way when a token was stored,
              \*          and those of its token when a use passed its check
    ended,    \* history: tokens that expired or were replaced by a newer one
    proven,   \* history: addresses whose owner, Google or an administrator vouched for them
    moved,    \* history: how an administrator's change of address found the account, or "no"
    crashes

history == <<proven, moved>>
vars == <<account, redis, req, sent, beside, ended, history, crashes>>

Keys == {"auth:verify", "auth:reset"} \cup Requests

\* The address the account is created with, the one it may be moved to, and that of one deleted
First == "first"
Later == "later"
Gone == "gone"
Addresses == {First, Later, Gone}

NoAccount == [exists |-> FALSE, verified |-> FALSE, google |-> FALSE, address |-> First]
Account(verified, google) ==
    [exists |-> TRUE, verified |-> verified, google |-> google, address |-> First]

Init ==
    /\ account \in {NoAccount, Account(FALSE, FALSE), Account(TRUE, FALSE), Account(TRUE, TRUE)}
    /\ redis = [k \in Keys |-> Nothing]
    /\ req \in [Requests -> [kind : Kinds, stage : {"idle"}, token : {Nothing}, to : {First}]]
    /\ sent = {}
    /\ beside = [r \in Requests |-> {}]
    /\ ended = {}
    /\ proven = IF account.verified THEN {First} ELSE {}
    /\ moved = "no"
    /\ crashes = 0

\* A request answered 500 is "deleted500" if its token was deleted all the same.
Over == {"done", "failed500", "deleted500"}

Is(r, kinds) == req[r].kind \in kinds
To(r, from, to) == req[r].stage = from /\ req' = [req EXCEPT ![r].stage = to]

\* The key under which r stores its token
KeyOf(r) ==
    CASE Is(r, VerifyIssuers) -> "auth:verify"
      [] Is(r, {"forgotPassword"}) -> "auth:reset"
      [] OTHER -> r

\* The uses under way of a token stored under key
Using(key) ==
    {u \in Requests : Is(u, Users) /\ req[u].stage \in {"acting", "deleting"} /\ KeyOf(req[u].token) = key}

-----------------------------------------------------------------------------
(* Issuing a token.  Operators no action uses, here and below, are faulty  *)
(* variants of the one after them.                                         *)

\* register and createUser: findOne finds no account, and the password is hashed.
CreatorReads(r) ==
    /\ Is(r, {"register", "createUser"}) /\ ~account.exists
    /\ To(r, "idle", "creating")
    /\ UNCHANGED <<account, redis, sent, beside, ended, history, crashes>>

\* The email is unique: a second create answers 500, unless the account that was created in
\* between has been moved or deleted; then it makes another, which is not followed further.
Creates(r, next, verified) ==
    /\ \/ /\ account = NoAccount
          /\ To(r, "creating", next)
          /\ account' = Account(verified, Is(r, {"socialLogin"}))
          /\ proven' = IF Is(r, {"register"}) THEN proven ELSE proven \cup {First}
       \/ /\ account # NoAccount
          /\ To(r, "creating", IF account.address = First THEN "failed500" ELSE "done")
          /\ UNCHANGED <<account, proven>>
    /\ UNCHANGED <<redis, sent, beside, ended, moved, crashes>>

CreatorWritesVerified(r) ==
    \/ Is(r, {"register"}) /\ Creates(r, "storing", TRUE)
    \/ Is(r, {"createUser"}) /\ Creates(r, "done", TRUE)

\* An administrator's users skip the verification.
CreatorWrites(r) ==
    \/ Is(r, {"register"}) /\ Creates(r, "storing", FALSE)
    \/ Is(r, {"createUser"}) /\ Creates(r, "done", TRUE)

\* A login with the right password, of a user yet to be verified, mails a fresh link, as does
\* resendVerification; forgotPassword needs only an account.
IssuerReads(r) ==
    /\ req[r].stage = "idle" /\ account.exists
    /\ Is(r, {"forgotPassword"}) \/ (Is(r, {"login", "resendVerification"}) /\ ~account.verified)
    /\ req' = [req EXCEPT ![r].stage = "storing", ![r].to = account.address]
    /\ UNCHANGED <<account, redis, sent, beside, ended, history, crashes>>

\* socialLogin finds the user by Google account, or else by email, which is First ...
SocialReads(r) ==
    /\ Is(r, {"socialLogin"})
    /\ To(r, "idle", IF account.exists /\ account.google THEN "storing"
                     ELSE IF account.exists /\ account.address = First THEN "linking" ELSE "creating")
    /\ UNCHANGED <<account, redis, sent, beside, ended, history, crashes>>

\* ... and links the one it found by email, as verified whatever its address is by now, or
\* creates one.  To save a document that is gone fails.
SocialWrites(r) ==
    /\ Is(r, {"socialLogin"})
    /\ \/ /\ account.exists /\ To(r, "linking", "storing")
          /\ account' = [account EXCEPT !.verified = TRUE, !.google = TRUE]
          /\ proven' = proven \cup {First}
          /\ UNCHANGED <<redis, sent, beside, ended, moved, crashes>>
       \/ ~account.exists /\ To(r, "linking", "failed500")
          /\ UNCHANGED <<account, redis, sent, beside, ended, history, crashes>>
       \/ Creates(r, "storing", TRUE)

\* updateUser with a new address, which leaves isVerified and every token as they are, or with
\* isVerified itself
Updates(r) ==
    /\ Is(r, {"updateUser"}) /\ account.exists
    /\ To(r, "idle", "done")
    /\ \/ /\ account.address = First
          /\ account' = [account EXCEPT !.address = Later]
          /\ moved' = IF account.verified THEN "verified" ELSE "unverified"
          /\ UNCHANGED proven
       \/ /\ \E v \in BOOLEAN :
               /\ account' = [account EXCEPT !.verified = v]
               /\ proven' = IF v THEN proven \cup {account.address} ELSE proven
          /\ UNCHANGED moved
    /\ UNCHANGED <<redis, sent, beside, ended, crashes>>

\* deleteUser, which leaves these tokens behind
Removes(r) ==
    /\ Is(r, {"deleteUser"}) /\ account.exists
    /\ To(r, "idle", "done")
    /\ account' = [NoAccount EXCEPT !.address = Gone]
    /\ UNCHANGED <<redis, sent, beside, ended, history, crashes>>

StoreInOnePlace(r) ==
    /\ To(r, "storing", "sending")
    /\ redis' = [redis EXCEPT !["auth:verify"] = r]
    /\ UNCHANGED <<account, sent, beside, ended, history, crashes>>

Store(r) ==
    /\ To(r, "storing", "sending")
    /\ redis' = [redis EXCEPT ![KeyOf(r)] = r]
    /\ beside' = [beside EXCEPT ![r] = Using(KeyOf(r))]
    /\ ended' = ended \cup ({redis[KeyOf(r)]} \ {Nothing})
    /\ UNCHANGED <<account, sent, history, crashes>>

\* The mail, or the redirect that carries a code
Send(r) ==
    /\ To(r, "sending", "done")
    /\ sent' = sent \cup {r}
    /\ UNCHANGED <<account, redis, beside, ended, history, crashes>>

\* The SET or the mail server rejects.  A login answers 403 all the same.  That Redis rejects
\* after it has stored is as if the mail had failed.
IssueFails(r) ==
    /\ CallsFail
    /\ To(r, "storing", "failed500") \/ To(r, "sending", "failed500")
    /\ UNCHANGED <<account, redis, sent, beside, ended, history, crashes>>

Issue(r) ==
    CreatorReads(r) \/ CreatorWrites(r) \/ IssuerReads(r) \/ SocialReads(r)
    \/ SocialWrites(r) \/ Updates(r) \/ Removes(r) \/ Store(r) \/ Send(r) \/ IssueFails(r)

-----------------------------------------------------------------------------
(* Using a token                                                           *)

Accepts(r, t) ==
    CASE Is(r, {"verifyEmail"}) -> Is(t, VerifyIssuers)
      [] Is(r, {"resetPassword"}) -> Is(t, {"forgotPassword"})
      [] OTHER -> Is(t, {"socialLogin"})

Passes(r, t) ==
    /\ req[r].stage = "idle"
    /\ req' = [req EXCEPT ![r].token = t,
                          ![r].stage = IF Is(r, {"claimSocialCode"}) THEN "deleting" ELSE "acting"]
    /\ beside' = [beside EXCEPT ![r] = {u \in Using(KeyOf(t)) : req[u].token = t}]
    /\ UNCHANGED <<account, redis, sent, ended, history, crashes>>

ChecksPresence(r) ==
    /\ Is(r, Users)
    /\ \E t \in sent : Accepts(r, t) /\ redis[KeyOf(t)] # Nothing /\ Passes(r, t)

\* GET, and the comparison with the token presented.  A code is its own key: what is found
\* under it is what it stands for.
Checks(r) ==
    /\ Is(r, Users)
    /\ \E t \in sent : Accepts(r, t) /\ redis[KeyOf(t)] = t /\ Passes(r, t)

\* isVerified = true, whatever the address is by now; or the new password, whose hash was
\* computed before the write.  Of a user who is gone, nothing is updated and nobody is told.
Acts(r) ==
    /\ To(r, "acting", "deleting")
    /\ IF Is(r, {"verifyEmail"})
         THEN /\ account' = [account EXCEPT !.verified = @ \/ account.exists]
              /\ proven' = proven \cup {req[req[r].token].to}
         ELSE UNCHANGED <<account, proven>>
    /\ UNCHANGED <<redis, sent, beside, ended, moved, crashes>>

\* MongoDB rejects the write, and nothing is deleted.  That it rejects after the write is as if
\* the DEL had failed.
ActFails(r) ==
    /\ CallsFail
    /\ To(r, "acting", "failed500")
    /\ UNCHANGED <<account, redis, sent, beside, ended, history, crashes>>

KeepsReset(r) ==
    /\ To(r, "deleting", "done")
    /\ redis' = IF Is(r, {"resetPassword"}) THEN redis ELSE [redis EXCEPT ![KeyOf(req[r].token)] = Nothing]
    /\ UNCHANGED <<account, sent, beside, ended, history, crashes>>

\* DEL of the key, whatever it holds by now.  The claim of a code answers with its tokens.
Deletes(r) ==
    /\ To(r, "deleting", "done")
    /\ redis' = [redis EXCEPT ![KeyOf(req[r].token)] = Nothing]
    /\ UNCHANGED <<account, sent, beside, ended, history, crashes>>

\* DEL rejects, and may have taken effect all the same.  A reset waits for two at once, of its
\* token and of the refresh token: either may be the one that rejects.
DeleteFails(r) ==
    /\ CallsFail
    /\ \/ To(r, "deleting", "failed500") /\ UNCHANGED redis
       \/ /\ To(r, "deleting", "deleted500")
          /\ redis' = [redis EXCEPT ![KeyOf(req[r].token)] = Nothing]
    /\ UNCHANGED <<account, sent, beside, ended, history, crashes>>

Use(r) == Checks(r) \/ Acts(r) \/ ActFails(r) \/ Deletes(r) \/ DeleteFails(r)

-----------------------------------------------------------------------------

Expire(k) ==
    /\ redis[k] # Nothing
    /\ redis' = [redis EXCEPT ![k] = Nothing]
    /\ ended' = ended \cup {redis[k]}
    /\ UNCHANGED <<account, req, sent, beside, history, crashes>>

\* Redis, MongoDB and the mails live on.
Crash ==
    /\ crashes < MaxCrashes
    /\ crashes' = crashes + 1
    /\ req' = [r \in Requests |-> IF req[r].stage \in Over \cup {"idle"}
                                  THEN req[r] ELSE [req[r] EXCEPT !.stage = "lost"]]
    /\ UNCHANGED <<account, redis, sent, beside, ended, history>>

Next ==
    \/ \E r \in Requests : Issue(r) \/ Use(r)
    \/ \E k \in Keys : Expire(k)
    \/ Crash

Spec == Init /\ [][Next]_vars

-----------------------------------------------------------------------------
(* Properties                                                              *)

Broken(r) == req[r].stage \in {"failed500", "lost"}
UsesOf(t) == {u \in Requests : Is(u, Users) /\ req[u].token = t}

\* Every variable has its type, and a key holds tokens of its kind.
TypeOK ==
    /\ account \in [exists : BOOLEAN, verified : BOOLEAN, google : BOOLEAN, address : Addresses]
    /\ redis \in [Keys -> Requests \cup {Nothing}]
    /\ \A k \in Keys : redis[k] # Nothing => KeyOf(redis[k]) = k
    /\ req \in [Requests ->
         [kind : Kinds, token : Requests \cup {Nothing}, to : Addresses,
          stage : {"idle", "creating", "linking", "storing", "sending", "acting", "deleting",
                   "lost"} \cup Over]]
    /\ sent \subseteq Requests /\ ended \subseteq Requests
    /\ beside \in [Requests -> SUBSET Requests]
    /\ proven \subseteq Addresses /\ moved \in {"no", "unverified", "verified"}
    /\ crashes \in 0..MaxCrashes

\* A token is used twice only if the two uses overlap, or if one breaks off before it deletes
\* the token: the second of two calls that come one after the other is refused.
SecondUsesOverlap ==
    \A r, s \in Requests : r # s /\ Is(r, Users) /\ req[r].token # Nothing /\ s \in UsesOf(req[r].token)
        => r \in beside[s] \/ s \in beside[r] \/ Broken(r) \/ Broken(s)

\* A link or a code that was sent works until it expires, is used or is replaced by a newer
\* one; only the use of an older link, under way when it was issued, may delete it unused,
\* whether that use is answered 200 or, as another of its calls failed, 500.
SentTokensWork ==
    \A t \in sent \ ended :
        \/ redis[KeyOf(t)] = t
        \/ UsesOf(t) # {}
        \/ \E u \in beside[t] : req[u].stage \in {"done", "deleted500"}

\* An account counts as verified only if the owner of its address, Google or an administrator
\* vouched for that address.  Only one that an administrator moved to another address can do
\* without: because it was verified before, or by a link mailed to the older address, or a
\* Google login that read it, and both outlive the move.
AddressesAreProven ==
    account.verified =>
        \/ account.address \in proven
        \/ moved = "verified"
        \/ moved = "unverified" /\ First \in proven

-----------------------------------------------------------------------------
(* What the documents say and the code does not do: README.md shows, for   *)
(* each, how to see it fail.                                               *)

\* src/App/Auth/service.ts: a social code is claimed exactly once; replays get 401.
CodesAreClaimedOnce ==
    \A r, s \in Requests :
        Is(r, {"claimSocialCode"}) /\ req[r].stage = "done" /\ req[s].stage = "done"
        /\ Is(s, {"claimSocialCode"}) /\ req[r].token = req[s].token => r = s

\* src/App/Auth/service.ts: a reset token is single-use, deleted after a successful reset.
ResetLinksAreSingleUse ==
    \A r, s \in Requests :
        Is(r, {"resetPassword"}) /\ req[r].stage = "done" /\ req[s].stage = "done"
        /\ Is(s, {"resetPassword"}) /\ req[r].token = req[s].token => r = s

\* src/App/Admin/service.ts: deleteUser revokes all active tokens of the user.
DeletionRevokesTokens ==
    account.address = Gone => redis["auth:verify"] = Nothing /\ redis["auth:reset"] = Nothing
=============================================================================
