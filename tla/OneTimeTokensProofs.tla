------------------------- MODULE OneTimeTokensProofs -------------------------
(***************************************************************************)
(* What OneTimeTokens promises of tokens used twice and of addresses that  *)
(* count as verified, for any number of requests and crashes.              *)
(***************************************************************************)
EXTENDS OneTimeTokens, TLAPS

\* A token is sent once, as its issuer ends: it is not stored a second time.
SentIsDone == \A t \in sent : req[t].stage = "done"

\* Whoever acts presents a token that was sent.
UsesPresentSent ==
    \A r \in Requests :
        /\ req[r].stage \in {"acting", "deleting"} => req[r].token \in sent
        /\ req[r].token # Nothing =>
             /\ req[r].token \in sent /\ Is(r, Users)
             /\ req[r].stage \in {"acting", "deleting", "lost"} \cup Over

\* A use that came to its end has deleted its token.
Deleted == {"done", "deleted500"}
SpentIsGone ==
    \A r \in Requests :
        req[r].token # Nothing /\ req[r].stage \in Deleted => redis[KeyOf(req[r].token)] # req[r].token

\* An account is moved once, and gone for good.
MovesAreNoted == account.address = Later => moved # "no"
GoneIsUnverified == /\ account.address = Gone => ~account.exists
                    /\ ~account.exists => ~account.verified

\* Nothing is mailed to an address before the account has it.
MailsFollowMoves ==
    \A r \in Requests : req[r].to # Gone /\ (req[r].to = Later => account.address # First)

\* Who has stored its token does not store another ...
StoredOnce ==
    \A k \in Keys : redis[k] # Nothing =>
        req[redis[k]].stage \notin {"idle", "creating", "linking", "storing"}

\* ... and knows the uses of its key that were under way: nobody else uses an older token.
OlderUsesAreKnown ==
    \A k \in Keys : redis[k] # Nothing =>
        \A u \in Using(k) : req[u].token = redis[k] \/ u \in beside[redis[k]]

\* A token works from the moment it is stored.
Works(t) ==
    \/ redis[KeyOf(t)] = t \/ UsesOf(t) # {}
    \/ \E u \in beside[t] : req[u].stage \in Deleted
StoredTokensWork ==
    \A t \in Requests : (t \in sent \/ req[t].stage = "sending") /\ t \notin ended => Works(t)

SendInv == StoredOnce /\ OlderUsesAreKnown /\ StoredTokensWork

TokenInv == SentIsDone /\ UsesPresentSent /\ SpentIsGone /\ SecondUsesOverlap
AddressInv == MovesAreNoted /\ GoneIsUnverified /\ MailsFollowMoves /\ AddressesAreProven
IInv == TypeOK /\ TokenInv /\ SendInv /\ AddressInv

USE DEF Over, Deleted

-----------------------------------------------------------------------------
(* Types                                                                   *)

Stages == {"idle", "creating", "linking", "storing", "sending", "acting", "deleting",
           "done", "failed500", "deleted500", "lost"}

RequestsTyped ==
    req \in [Requests -> [kind : Kinds, token : Requests \cup {Nothing}, to : Addresses, stage : Stages]]

AccountTyped ==
    /\ account \in [exists : BOOLEAN, verified : BOOLEAN, google : BOOLEAN, address : Addresses]
    /\ proven \subseteq Addresses /\ moved \in {"no", "unverified", "verified"}

TokensTyped ==
    /\ redis \in [Keys -> Requests \cup {Nothing}]
    /\ \A k \in Keys : redis[k] # Nothing => KeyOf(redis[k]) = k
    /\ sent \subseteq Requests /\ ended \subseteq Requests
    /\ beside \in [Requests -> SUBSET Requests]
    /\ crashes \in 0..MaxCrashes

LEMMA TypeParts == TypeOK <=> RequestsTyped /\ AccountTyped /\ TokensTyped
<1>1. Stages = {"idle", "creating", "linking", "storing", "sending", "acting", "deleting", "lost"}
               \cup Over
  BY DEF Stages
<1>2. QED
  BY <1>1 DEF TypeOK, RequestsTyped, AccountTyped, TokensTyped

LEMMA TypePartsNext == TypeOK' <=> RequestsTyped' /\ AccountTyped' /\ TokensTyped'
BY TypeParts, PTL

KindsStay == \A q \in Requests : req'[q].kind = req[q].kind

\* A step of r to another stage
Goes(r) ==
    /\ RequestsTyped'
    /\ \A q \in Requests : /\ req'[q].kind = req[q].kind
                           /\ req'[q].token = req[q].token
    /\ \A q \in Requests \ {r} : req'[q] = req[q]

LEMMA ToFacts ==
    ASSUME RequestsTyped, NEW r \in Requests, NEW from, NEW to \in Stages, To(r, from, to)
    PROVE  /\ Goes(r) /\ req[r].stage = from /\ req'[r].stage = to
           /\ req'[r].to = req[r].to
BY DEF RequestsTyped, To, Goes

\* A key is that of its tokens' kind, and a request keeps its kind.
LEMMA KeysStay ==
    ASSUME KindsStay
    PROVE  \A q \in Requests : KeyOf(q)' = KeyOf(q) /\ KeyOf(q) \in Keys
BY DEF KeyOf, Keys, Is, KindsStay

\* What creates, reads, links, moves or deletes the account leaves the tokens alone.
Quiet(r) ==
    \/ CreatorReads(r) \/ CreatorWrites(r) \/ IssuerReads(r) \/ SocialReads(r) \/ SocialWrites(r)
    \/ Updates(r) \/ Removes(r) \/ IssueFails(r)

LEMMA ReadFacts ==
    ASSUME RequestsTyped, AccountTyped, NEW r \in Requests, IssuerReads(r)
    PROVE  Goes(r) /\ req'[r].stage = "storing"
<1>1. req' = [req EXCEPT ![r].stage = "storing", ![r].to = account.address]
  BY DEF IssuerReads
<1>2. account.address \in Addresses /\ "storing" \in Stages
  BY DEF AccountTyped, Stages
<1>3. RequestsTyped'
  BY <1>1, <1>2 DEF RequestsTyped
<1>4. QED
  BY <1>1, <1>3 DEF Goes, RequestsTyped

LEMMA QuietFacts ==
    ASSUME TypeOK, NEW r \in Requests, Quiet(r)
    PROVE  /\ Goes(r) /\ UNCHANGED <<redis, sent, beside, ended, crashes>>
           /\ req[r].stage \in {"idle", "creating", "linking", "storing", "sending"}
           /\ req'[r].stage \in {"creating", "linking", "storing", "done", "failed500"}
<1> USE TypeParts, ToFacts DEF Stages, history
<1>1. CASE CreatorReads(r)
  BY <1>1 DEF CreatorReads
<1>2. CASE CreatorWrites(r)
  BY <1>2 DEF CreatorWrites, Creates
<1>3. CASE IssuerReads(r)
  BY <1>3, ReadFacts DEF IssuerReads
<1>4. CASE SocialReads(r)
  <2>1. PICK to \in {"storing", "linking", "creating"} : To(r, "idle", to)
    BY <1>4 DEF SocialReads
  <2>2. QED
    BY <1>4, <2>1 DEF SocialReads
<1>5. CASE SocialWrites(r)
  BY <1>5 DEF SocialWrites, Creates
<1>6. CASE Updates(r)
  BY <1>6 DEF Updates
<1>7. CASE Removes(r)
  BY <1>7 DEF Removes
<1>8. CASE IssueFails(r)
  BY <1>8 DEF IssueFails
<1>9. QED
  BY <1>1, <1>2, <1>3, <1>4, <1>5, <1>6, <1>7, <1>8 DEF Quiet

LEMMA GoesKeeps == ASSUME NEW r, Goes(r) PROVE KindsStay
BY DEF Goes, KindsStay

LEMMA QuietStep ==
    ASSUME TypeOK, TokenInv, NEW r \in Requests, Quiet(r)
    PROVE  RequestsTyped' /\ TokensTyped' /\ TokenInv'
<1>1. /\ Goes(r) /\ UNCHANGED <<redis, sent, beside, ended, crashes>>
      /\ req[r].stage \in {"idle", "creating", "linking", "storing", "sending"}
      /\ req'[r].stage \in {"creating", "linking", "storing", "done", "failed500"}
  BY QuietFacts
<1>2. \A q \in Requests : KeyOf(q)' = KeyOf(q) /\ KeyOf(q) \in Keys
  BY <1>1, GoesKeeps, KeysStay
<1>3. RequestsTyped' /\ TokensTyped'
  BY <1>1, <1>2, TypeParts DEF Goes, TokensTyped
<1>4. SentIsDone' /\ UsesPresentSent'
  BY <1>1, TypeParts DEF Goes, TokenInv, SentIsDone, UsesPresentSent, TokensTyped, Is
<1>5. SpentIsGone'
  BY <1>1, <1>2, TypeParts
  DEF Goes, TokenInv, SpentIsGone, UsesPresentSent, TokensTyped, RequestsTyped
<1>6. SecondUsesOverlap'
  BY <1>1 DEF Goes, TokenInv, SecondUsesOverlap, UsesPresentSent, UsesOf, Is, Broken
<1>7. QED
  BY <1>3, <1>4, <1>5, <1>6 DEF TokenInv

\* Two uses of a token of which neither is new are as they were: a use that has passed its
\* check never leaves the stages of UsesPresentSent, and a broken one stays broken.
LEMMA OldUses ==
    ASSUME TokenInv, NEW r \in Requests, Goes(r),
           \A q \in Requests : req[q].token # Nothing => beside'[q] = beside[q],
           Broken(r) => Broken(r)'
    PROVE  SecondUsesOverlap'
BY DEF Goes, TokenInv, SecondUsesOverlap, UsesPresentSent, UsesOf, Is, Broken

\* The token of a request under way has not been sent, so that no use presents it.
LEMMA StoreStep ==
    ASSUME TypeOK, TokenInv, NEW r \in Requests, Store(r)
    PROVE  RequestsTyped' /\ TokensTyped' /\ TokenInv'
<1>1. /\ Goes(r) /\ req[r].stage = "storing" /\ req'[r].stage = "sending"
      /\ redis' = [redis EXCEPT ![KeyOf(r)] = r]
      /\ beside' = [beside EXCEPT ![r] = Using(KeyOf(r))]
      /\ ended' = ended \cup ({redis[KeyOf(r)]} \ {Nothing})
      /\ UNCHANGED <<sent, crashes>>
  BY ToFacts, TypeParts DEF Store, Stages
<1>2. \A q \in Requests : KeyOf(q)' = KeyOf(q) /\ KeyOf(q) \in Keys
  BY <1>1, GoesKeeps, KeysStay
<1>3. RequestsTyped' /\ TokensTyped'
  BY <1>1, <1>2, TypeParts DEF Goes, TokensTyped, Using
<1>4. SentIsDone' /\ UsesPresentSent'
  BY <1>1, TypeParts DEF Goes, TokenInv, SentIsDone, UsesPresentSent, TokensTyped, Is
<1>5. SpentIsGone'
  BY <1>1, <1>2, TypeParts
  DEF Goes, TokenInv, SpentIsGone, SentIsDone, UsesPresentSent, TokensTyped, RequestsTyped
<1>6. SecondUsesOverlap'
  <2>1. \A q \in Requests : req[q].token # Nothing => beside'[q] = beside[q]
    BY <1>1, TypeParts DEF TokenInv, UsesPresentSent, TokensTyped
  <2>2. QED
    BY <1>1, <2>1, OldUses DEF Broken
<1>7. QED
  BY <1>3, <1>4, <1>5, <1>6 DEF TokenInv

LEMMA SendStep ==
    ASSUME TypeOK, TokenInv, NEW r \in Requests, Send(r)
    PROVE  RequestsTyped' /\ TokensTyped' /\ TokenInv'
<1>1. /\ Goes(r) /\ req[r].stage = "sending" /\ req'[r].stage = "done"
      /\ sent' = sent \cup {r} /\ UNCHANGED <<redis, beside, ended, crashes>>
  BY ToFacts, TypeParts DEF Send, Stages
<1>2. \A q \in Requests : KeyOf(q)' = KeyOf(q) /\ KeyOf(q) \in Keys
  BY <1>1, GoesKeeps, KeysStay
<1>3. RequestsTyped' /\ TokensTyped'
  BY <1>1, <1>2, TypeParts DEF Goes, TokensTyped
<1>4. SentIsDone' /\ UsesPresentSent'
  BY <1>1, TypeParts DEF Goes, TokenInv, SentIsDone, UsesPresentSent, TokensTyped, Is
<1>5. SpentIsGone'
  BY <1>1, <1>2, TypeParts
  DEF Goes, TokenInv, SpentIsGone, UsesPresentSent, TokensTyped, RequestsTyped
<1>6. SecondUsesOverlap'
  BY <1>1, OldUses DEF Broken
<1>7. QED
  BY <1>3, <1>4, <1>5, <1>6 DEF TokenInv

\* The check of a use: every other use of the token is under way, for one that has ended has
\* deleted the token, unless it broke off.
LEMMA CheckStep ==
    ASSUME TypeOK, TokenInv, NEW r \in Requests, Checks(r)
    PROVE  RequestsTyped' /\ TokensTyped' /\ TokenInv'
<1>1. PICK t \in sent : redis[KeyOf(t)] = t /\ Passes(r, t)
  BY DEF Checks
<1>2. Is(r, Users) /\ t \in Requests /\ req[r].stage = "idle"
  BY <1>1, TypeParts DEF Checks, Passes, TokensTyped
<1>3. /\ req' = [req EXCEPT ![r].token = t,
                            ![r].stage = IF Is(r, {"claimSocialCode"}) THEN "deleting" ELSE "acting"]
      /\ beside' = [beside EXCEPT ![r] = {u \in Using(KeyOf(t)) : req[u].token = t}]
      /\ UNCHANGED <<redis, sent, ended, crashes>>
  BY <1>1 DEF Passes
<1>4. RequestsTyped'
  BY <1>2, <1>3, TypeParts DEF RequestsTyped, Stages
<1>5. /\ \A q \in Requests : req'[q].kind = req[q].kind
      /\ \A q \in Requests \ {r} : req'[q] = req[q]
      /\ req'[r].token = t /\ req'[r].stage \in {"acting", "deleting"}
  BY <1>3, TypeParts DEF RequestsTyped
<1>6. \A q \in Requests : KeyOf(q)' = KeyOf(q) /\ KeyOf(q) \in Keys
  BY <1>5, KeysStay DEF KindsStay
<1>7. TokensTyped'
  BY <1>3, <1>6, TypeParts DEF TokensTyped, Using
<1>8. SentIsDone' /\ UsesPresentSent'
  <2>1. r \notin sent
    BY <1>2 DEF TokenInv, SentIsDone
  <2>2. t \in sent /\ sent' = sent /\ sent \subseteq Requests
    BY <1>1, <1>3, TypeParts DEF TokensTyped
  <2>3. SentIsDone'
    BY <1>5, <2>1, <2>2 DEF TokenInv, SentIsDone
  <2>4. UsesPresentSent'
    BY <1>2, <1>5, <2>2 DEF TokenInv, UsesPresentSent, Is
  <2>5. QED
    BY <2>3, <2>4
<1>9. SpentIsGone'
  <2>1. ASSUME NEW q \in Requests, req'[q].token # Nothing, req'[q].stage \in Deleted
        PROVE  (redis[KeyOf(req[q].token)] # req[q].token)'
    <3>1. q # r /\ req'[q] = req[q] /\ redis' = redis
      BY <1>3, <1>5, <2>1
    <3>2. req[q].token \in Requests
      BY <2>1, <3>1, TypeParts DEF TokenInv, UsesPresentSent, TokensTyped
    <3>3. redis[KeyOf(req[q].token)] # req[q].token
      BY <2>1, <3>1 DEF TokenInv, SpentIsGone
    <3>4. QED
      BY <3>1, <3>2, <3>3, <1>6
  <2>2. QED
    BY <2>1 DEF SpentIsGone
<1>10. SecondUsesOverlap'
  <2>1. \A u \in UsesOf(t) \ {r} : t # Nothing => u \in beside'[r] \/ Broken(u)
    BY <1>1, <1>2, <1>3, TypeParts
    DEF TokenInv, SpentIsGone, UsesPresentSent, UsesOf, Using, Broken, TokensTyped
  <2>2. SUFFICES ASSUME NEW p \in Requests, NEW q \in Requests, p # q,
                        Is(p, Users)', Is(q, Users)', req'[p].token # Nothing,
                        req'[q].token = req'[p].token
                 PROVE  p \in beside'[q] \/ q \in beside'[p] \/ Broken(p)' \/ Broken(q)'
    BY DEF SecondUsesOverlap, UsesOf
  <2>3. CASE p = r
    BY <2>1, <2>2, <2>3, <1>5 DEF UsesOf, Broken, Is
  <2>4. CASE q = r
    BY <2>1, <2>2, <2>4, <1>5 DEF UsesOf, Broken, Is
  <2>5. CASE p # r /\ q # r
    <3>1. beside'[p] = beside[p] /\ beside'[q] = beside[q]
      BY <1>3, <2>5, TypeParts DEF TokensTyped
    <3>2. QED
      BY <1>5, <2>2, <2>5, <3>1 DEF TokenInv, SecondUsesOverlap, UsesOf, Broken, Is
  <2>6. QED
    BY <2>3, <2>4, <2>5
<1>11. QED
  BY <1>4, <1>7, <1>8, <1>9, <1>10 DEF TokenInv

\* The write and the deletion of a use, or the failure of either
LEMMA EndStep ==
    ASSUME TypeOK, TokenInv, NEW r \in Requests,
           Acts(r) \/ ActFails(r) \/ Deletes(r) \/ DeleteFails(r)
    PROVE  RequestsTyped' /\ TokensTyped' /\ TokenInv'
<1>1. /\ Goes(r) /\ UNCHANGED <<sent, beside, ended, crashes>>
      /\ \/ req[r].stage = "acting" /\ req'[r].stage = "deleting" /\ UNCHANGED redis
         \/ /\ req[r].stage = "deleting" /\ req'[r].stage \in Deleted
            /\ redis' = [redis EXCEPT ![KeyOf(req[r].token)] = Nothing]
         \/ /\ req[r].stage \in {"acting", "deleting"} /\ req'[r].stage = "failed500"
            /\ UNCHANGED redis
  BY ToFacts, TypeParts DEF Acts, ActFails, Deletes, DeleteFails, Stages
<1>2. \A q \in Requests : KeyOf(q)' = KeyOf(q) /\ KeyOf(q) \in Keys
  BY <1>1, GoesKeeps, KeysStay
<1>3. req[r].token \in sent /\ sent \subseteq Requests
  BY <1>1, TypeParts DEF TokenInv, UsesPresentSent, TokensTyped
<1>4. RequestsTyped' /\ TokensTyped'
  BY <1>1, <1>2, <1>3, TypeParts DEF Goes, TokensTyped
<1>5. SentIsDone' /\ UsesPresentSent'
  BY <1>1, <1>3 DEF Goes, TokenInv, SentIsDone, UsesPresentSent, Is
<1>6. SpentIsGone'
  BY <1>1, <1>2, <1>3, TypeParts
  DEF Goes, TokenInv, SpentIsGone, UsesPresentSent, TokensTyped
<1>7. SecondUsesOverlap'
  BY <1>1, OldUses DEF Broken
<1>8. QED
  BY <1>4, <1>5, <1>6, <1>7 DEF TokenInv

LEMMA EnvironmentStep ==
    ASSUME TypeOK, TokenInv, Crash \/ \E k \in Keys : Expire(k)
    PROVE  RequestsTyped' /\ TokensTyped' /\ TokenInv'
<1>1. CASE Crash
  <2>1. /\ UNCHANGED <<redis, sent, beside, ended>> /\ crashes' \in 0..MaxCrashes
        /\ \A q \in Requests :
             \/ req'[q] = req[q] /\ req[q].stage \in Over \cup {"idle"}
             \/ /\ req'[q] = [req[q] EXCEPT !.stage = "lost"]
                /\ req[q].stage \notin Over \cup {"idle"}
    BY <1>1, TypeParts, TokenAssumption DEF Crash, TokensTyped
  <2>2. RequestsTyped'
    BY <1>1, TypeParts DEF Crash, RequestsTyped, Stages
  <2>3. \A q \in Requests : /\ req'[q].kind = req[q].kind
                            /\ req'[q].token = req[q].token
                            /\ req'[q].stage \in {req[q].stage, "lost"}
                            /\ req[q].stage \in Over => req'[q].stage = req[q].stage
                            /\ req'[q].stage \notin {"acting", "deleting"}
    <3> SUFFICES ASSUME NEW q \in Requests
                 PROVE  /\ req'[q].kind = req[q].kind /\ req'[q].token = req[q].token
                        /\ req'[q].stage \in {req[q].stage, "lost"}
                        /\ req[q].stage \in Over => req'[q].stage = req[q].stage
                        /\ req'[q].stage \notin {"acting", "deleting"}
      OBVIOUS
    <3>1. CASE req'[q] = req[q] /\ req[q].stage \in Over \cup {"idle"}
      BY <3>1
    <3>2. CASE req'[q] = [req[q] EXCEPT !.stage = "lost"] /\ req[q].stage \notin Over \cup {"idle"}
      BY <3>2, TypeParts DEF RequestsTyped
    <3>3. QED
      BY <2>1, <3>1, <3>2
  <2>4. \A q \in Requests : KeyOf(q)' = KeyOf(q) /\ KeyOf(q) \in Keys
    BY <2>3, KeysStay DEF KindsStay
  <2>5. TokensTyped'
    BY <2>1, <2>4, TypeParts DEF TokensTyped
  <2>6. SentIsDone' /\ UsesPresentSent'
    BY <2>1, <2>3, TypeParts DEF TokenInv, SentIsDone, UsesPresentSent, TokensTyped, Is
  <2>7. SpentIsGone'
    BY <2>1, <2>3, <2>4, TypeParts
    DEF TokenInv, SpentIsGone, UsesPresentSent, TokensTyped
  <2>8. SecondUsesOverlap'
    BY <2>1, <2>3 DEF TokenInv, SecondUsesOverlap, UsesOf, Is, Broken
  <2>9. QED
    BY <2>2, <2>5, <2>6, <2>7, <2>8 DEF TokenInv
<1>2. ASSUME NEW k \in Keys, Expire(k) PROVE RequestsTyped' /\ TokensTyped' /\ TokenInv'
  <2>1. /\ redis[k] # Nothing /\ redis' = [redis EXCEPT ![k] = Nothing]
        /\ ended' = ended \cup {redis[k]} /\ UNCHANGED <<req, sent, beside, crashes>>
    BY <1>2 DEF Expire
  <2>2. \A q \in Requests : KeyOf(q)' = KeyOf(q) /\ KeyOf(q) \in Keys
    BY <2>1, KeysStay DEF KindsStay
  <2>3. RequestsTyped' /\ TokensTyped'
    BY <2>1, <2>2, TypeParts DEF RequestsTyped, TokensTyped
  <2>4. SentIsDone' /\ UsesPresentSent' /\ SecondUsesOverlap'
    BY <2>1 DEF TokenInv, SentIsDone, UsesPresentSent, SecondUsesOverlap, UsesOf, Is, Broken
  <2>5. SpentIsGone'
    BY <2>1, <2>2, TypeParts DEF TokenInv, SpentIsGone, UsesPresentSent, TokensTyped
  <2>6. QED
    BY <2>3, <2>4, <2>5 DEF TokenInv
<1>3. QED
  BY <1>1, <1>2

-----------------------------------------------------------------------------
(* What is sent works                                                      *)

TokensStay == \A q \in Requests : req[q].token # Nothing => req'[q].token = req[q].token
DoneStays == \A q \in Requests : req[q].stage \in Deleted => req'[q].stage = req[q].stage

LEMMA UsingStays ==
    ASSUME TypeOK, TokenInv, KindsStay, NEW u \in Requests, NEW k,
           req'[u].token = req[u].token, req[u].stage \in {"acting", "deleting"},
           (u \in Using(k))'
    PROVE  u \in Using(k)
<1>1. req[u].token \in Requests /\ Is(u, Users)' /\ KeyOf(req[u].token)' = k
  BY TypeParts DEF TokenInv, UsesPresentSent, TokensTyped, Using
<1>2. KeyOf(req[u].token) = k
  BY <1>1, KeysStay
<1>3. QED
  BY <1>1, <1>2 DEF Using, Is, KindsStay

LEMMA WorksStays ==
    ASSUME NEW t \in Requests, KindsStay, TokensStay, DoneStays, beside'[t] = beside[t],
           beside[t] \subseteq Requests, redis[KeyOf(t)] = t => redis'[KeyOf(t)] = t, Works(t)
    PROVE  Works(t)'
<1>1. KeyOf(t)' = KeyOf(t)
  BY KeysStay
<1>2. CASE redis[KeyOf(t)] = t
  BY <1>1, <1>2 DEF Works
<1>3. CASE UsesOf(t) # {}
  <2>1. PICK u \in Requests : Is(u, Users) /\ req[u].token = t
    BY <1>3 DEF UsesOf
  <2>2. Is(u, Users)' /\ req'[u].token = t
    BY <2>1, TokenAssumption DEF Is, KindsStay, TokensStay
  <2>3. QED
    BY <2>2 DEF Works, UsesOf
<1>4. CASE \E u \in beside[t] : req[u].stage \in Deleted
  BY <1>4 DEF Works, DoneStays
<1>5. QED
  BY <1>2, <1>3, <1>4 DEF Works

\* A step that stores, replaces and checks no token
LEMMA OthersSend ==
    ASSUME TypeOK, TokenInv, SendInv, KindsStay, TokensStay, DoneStays,
           UNCHANGED <<redis, beside, ended>>,
           \A q \in Requests :
               /\ q \in sent' \/ req'[q].stage = "sending" => q \in sent \/ req[q].stage = "sending"
               /\ req'[q].stage \in {"acting", "deleting"} =>
                    req[q].stage \in {"acting", "deleting"} /\ req'[q].token = req[q].token
               /\ req[q].stage \notin {"idle", "creating", "linking", "storing"} =>
                    req'[q].stage \notin {"idle", "creating", "linking", "storing"}
    PROVE  SendInv'
<1>1. StoredOnce'
  BY TypeParts DEF SendInv, StoredOnce, TokensTyped
<1>2. OlderUsesAreKnown'
  <2> SUFFICES ASSUME NEW k \in Keys, redis[k] # Nothing, NEW u \in Requests, (u \in Using(k))'
               PROVE  req'[u].token = redis[k] \/ u \in beside[redis[k]]
    BY DEF OlderUsesAreKnown, Using
  <2>1. req'[u].stage \in {"acting", "deleting"}
    BY DEF Using
  <2>2. u \in Using(k) /\ req'[u].token = req[u].token
    BY <2>1, UsingStays
  <2>3. QED
    BY <2>2 DEF SendInv, OlderUsesAreKnown
<1>3. StoredTokensWork'
  <2> SUFFICES ASSUME NEW t \in Requests, t \in sent' \/ req'[t].stage = "sending", t \notin ended
               PROVE  Works(t)'
    BY DEF StoredTokensWork
  <2>1. Works(t)
    BY DEF SendInv, StoredTokensWork
  <2>2. beside[t] \subseteq Requests
    BY TypeParts DEF TokensTyped
  <2>3. QED
    BY <2>1, <2>2, WorksStays
<1>4. QED
  BY <1>1, <1>2, <1>3 DEF SendInv

\* A token that is replaced has ended; the new one knows who is about to delete it.
LEMMA StoreSends ==
    ASSUME TypeOK, TokenInv, SendInv, NEW r \in Requests, Store(r)
    PROVE  SendInv'
<1>1. /\ Goes(r) /\ req[r].stage = "storing" /\ req'[r].stage = "sending"
      /\ redis' = [redis EXCEPT ![KeyOf(r)] = r] /\ sent' = sent
      /\ beside' = [beside EXCEPT ![r] = Using(KeyOf(r))]
      /\ ended' = ended \cup ({redis[KeyOf(r)]} \ {Nothing})
  BY ToFacts, TypeParts DEF Store, Stages
<1>2. KindsStay /\ TokensStay /\ DoneStays
  BY <1>1 DEF Goes, KindsStay, TokensStay, DoneStays
<1>3. redis \in [Keys -> Requests \cup {Nothing}] /\ beside \in [Requests -> SUBSET Requests]
  BY TypeParts DEF TokensTyped
<1>4. \A k \in Keys : redis[k] # r
  BY <1>1, TokenAssumption DEF SendInv, StoredOnce
<1>5. StoredOnce'
  BY <1>1, <1>3, <1>4 DEF SendInv, StoredOnce, Goes
<1>6. OlderUsesAreKnown'
  <2> SUFFICES ASSUME NEW k \in Keys, redis'[k] # Nothing, NEW u \in Requests, (u \in Using(k))'
               PROVE  req'[u].token = redis'[k] \/ u \in beside'[redis'[k]]
    BY DEF OlderUsesAreKnown, Using
  <2>1. u # r /\ req'[u] = req[u] /\ req[u].stage \in {"acting", "deleting"}
    BY <1>1 DEF Using, Goes
  <2>2. u \in Using(k)
    BY <1>2, <2>1, UsingStays
  <2>3. CASE k = KeyOf(r)
    BY <1>1, <1>3, <2>2, <2>3
  <2>4. CASE k # KeyOf(r)
    BY <1>1, <1>3, <1>4, <2>1, <2>2, <2>4 DEF SendInv, OlderUsesAreKnown
  <2>5. QED
    BY <2>3, <2>4
<1>7. StoredTokensWork'
  <2> SUFFICES ASSUME NEW t \in Requests, t \in sent' \/ req'[t].stage = "sending", t \notin ended'
               PROVE  Works(t)'
    BY DEF StoredTokensWork
  <2>1. CASE t = r
    <3>1. KeyOf(r)' = KeyOf(r) /\ KeyOf(r) \in Keys
      BY <1>2, KeysStay
    <3>2. QED
      BY <1>1, <1>3, <2>1, <3>1 DEF Works
  <2>2. CASE t # r
    <3>1. Works(t) /\ beside'[t] = beside[t] /\ beside[t] \subseteq Requests
      BY <1>1, <1>3, <2>2 DEF SendInv, StoredTokensWork, Goes
    <3>2. KeyOf(t) \in Keys /\ KeyOf(r) \in Keys
      BY <1>2, KeysStay
    <3>3. redis[KeyOf(t)] = t => redis'[KeyOf(t)] = t
      BY <1>1, <1>3, <3>2, TokenAssumption
    <3>4. QED
      BY <1>2, <3>1, <3>3, WorksStays
  <2>3. QED
    BY <2>1, <2>2
<1>8. QED
  BY <1>5, <1>6, <1>7 DEF SendInv

\* Who checks presents what its key holds.
LEMMA CheckSends ==
    ASSUME TypeOK, TokenInv, SendInv, NEW r \in Requests, Checks(r)
    PROVE  SendInv'
<1>1. PICK t \in sent : redis[KeyOf(t)] = t /\ Passes(r, t)
  BY DEF Checks
<1>2. /\ t \in Requests /\ req[r].stage = "idle" /\ r \notin sent
      /\ UNCHANGED <<redis, sent, ended>>
      /\ \A q \in Requests \ {r} : beside'[q] = beside[q] /\ req'[q] = req[q]
      /\ req'[r].token = t /\ req'[r].stage \in {"acting", "deleting"} /\ req'[r].kind = req[r].kind
      /\ req[r].token = Nothing
  BY <1>1, TypeParts DEF Passes, TokensTyped, RequestsTyped, TokenInv, SentIsDone, UsesPresentSent
<1>3. KindsStay /\ TokensStay /\ DoneStays
  BY <1>2 DEF KindsStay, TokensStay, DoneStays
<1>4. redis \in [Keys -> Requests \cup {Nothing}] /\ beside \in [Requests -> SUBSET Requests]
  BY TypeParts DEF TokensTyped
<1>5. \A k \in Keys : redis[k] # r
  BY <1>2, TokenAssumption DEF SendInv, StoredOnce
<1>6. StoredOnce'
  BY <1>2, <1>4, <1>5 DEF SendInv, StoredOnce
<1>7. OlderUsesAreKnown'
  <2> SUFFICES ASSUME NEW k \in Keys, redis[k] # Nothing, NEW u \in Requests, (u \in Using(k))'
               PROVE  req'[u].token = redis[k] \/ u \in beside'[redis[k]]
    BY <1>2 DEF OlderUsesAreKnown, Using
  <2>1. CASE u = r
    <3>1. KeyOf(t)' = k
      BY <1>2, <2>1 DEF Using
    <3>2. KeyOf(t) = k
      BY <1>2, <1>3, <3>1, KeysStay
    <3>3. QED
      BY <1>1, <1>2, <2>1, <3>2
  <2>2. CASE u # r
    <3>1. req'[u] = req[u] /\ req[u].stage \in {"acting", "deleting"}
      BY <1>2, <2>2 DEF Using
    <3>2. u \in Using(k)
      BY <1>3, <3>1, UsingStays
    <3>3. QED
      BY <1>2, <1>4, <1>5, <3>1, <3>2 DEF SendInv, OlderUsesAreKnown
  <2>3. QED
    BY <2>1, <2>2
<1>8. StoredTokensWork'
  <2> SUFFICES ASSUME NEW q \in Requests, q \in sent' \/ req'[q].stage = "sending", q \notin ended'
               PROVE  Works(q)'
    BY DEF StoredTokensWork
  <2>1. q # r /\ Works(q) /\ beside'[q] = beside[q] /\ beside[q] \subseteq Requests
    BY <1>2, <1>4 DEF SendInv, StoredTokensWork
  <2>2. QED
    BY <1>2, <1>3, <2>1, WorksStays
<1>9. QED
  BY <1>6, <1>7, <1>8 DEF SendInv

\* A use deletes its own token, or a newer one that knows it.
LEMMA DeleteSends ==
    ASSUME TypeOK, TokenInv, SendInv, NEW r \in Requests,
           Goes(r), req[r].stage = "deleting", req'[r].stage \in Deleted,
           redis' = [redis EXCEPT ![KeyOf(req[r].token)] = Nothing], UNCHANGED <<sent, beside, ended>>
    PROVE  SendInv'
<1>1. req[r].stage \notin Deleted
  BY DEF Deleted
<1>2. KindsStay /\ TokensStay /\ DoneStays
  BY <1>1 DEF Goes, KindsStay, TokensStay, DoneStays
<1>3. redis \in [Keys -> Requests \cup {Nothing}] /\ beside \in [Requests -> SUBSET Requests]
  BY TypeParts DEF TokensTyped
<1>4. req[r].token \in Requests /\ req[r].token # Nothing /\ Is(r, Users)
  BY TypeParts, TokenAssumption DEF TokenInv, UsesPresentSent, TokensTyped
<1>5. KeyOf(req[r].token) \in Keys
  BY <1>2, <1>4, KeysStay
<1>6. StoredOnce'
  BY <1>3, <1>5 DEF SendInv, StoredOnce, Goes
<1>7. OlderUsesAreKnown'
  <2> SUFFICES ASSUME NEW k \in Keys, redis'[k] # Nothing, NEW u \in Requests, (u \in Using(k))'
               PROVE  req'[u].token = redis'[k] \/ u \in beside'[redis'[k]]
    BY DEF OlderUsesAreKnown, Using
  <2>1. req'[u] = req[u] /\ req[u].stage \in {"acting", "deleting"}
    BY DEF Using, Goes
  <2>2. u \in Using(k)
    BY <1>2, <2>1, UsingStays
  <2>3. redis'[k] = redis[k]
    BY <1>3, <1>5
  <2>4. QED
    BY <2>1, <2>2, <2>3 DEF SendInv, OlderUsesAreKnown
<1>8. StoredTokensWork'
  <2> SUFFICES ASSUME NEW t \in Requests, t \in sent' \/ req'[t].stage = "sending", t \notin ended'
               PROVE  Works(t)'
    BY DEF StoredTokensWork
  <2>1. Works(t) /\ beside[t] \subseteq Requests /\ KeyOf(t) \in Keys
    BY <1>2, <1>3, KeysStay DEF SendInv, StoredTokensWork, Goes
  <2>2. CASE req[r].token = t
    <3>1. Is(r, Users)' /\ req'[r].token = t
      BY <1>4, <2>2 DEF Goes, Is
    <3>2. QED
      BY <3>1 DEF Works, UsesOf
  <2>3. CASE req[r].token # t /\ redis[KeyOf(t)] = t /\ KeyOf(t) = KeyOf(req[r].token)
    <3>1. r \in Using(KeyOf(t))
      BY <1>4, <2>3 DEF Using
    <3>2. t # Nothing
      BY TokenAssumption
    <3>3. r \in beside[t]
      BY <2>1, <2>3, <3>1, <3>2 DEF SendInv, OlderUsesAreKnown
    <3>4. QED
      BY <3>3 DEF Works
  <2>4. CASE ~(redis[KeyOf(t)] = t /\ KeyOf(t) = KeyOf(req[r].token))
    <3>1. redis[KeyOf(t)] = t => redis'[KeyOf(t)] = t
      BY <1>3, <2>1, <2>4
    <3>2. QED
      BY <1>2, <2>1, <3>1, WorksStays
  <2>5. QED
    BY <2>2, <2>3, <2>4
<1>9. QED
  BY <1>6, <1>7, <1>8 DEF SendInv

LEMMA ExpireSends ==
    ASSUME TypeOK, TokenInv, SendInv, NEW k \in Keys, Expire(k)
    PROVE  SendInv'
<1>1. /\ redis[k] # Nothing /\ redis' = [redis EXCEPT ![k] = Nothing]
      /\ ended' = ended \cup {redis[k]} /\ UNCHANGED <<req, sent, beside>>
  BY DEF Expire
<1>2. KindsStay /\ TokensStay /\ DoneStays
  BY <1>1 DEF KindsStay, TokensStay, DoneStays
<1>3. redis \in [Keys -> Requests \cup {Nothing}] /\ beside \in [Requests -> SUBSET Requests]
  BY TypeParts DEF TokensTyped
<1>4. \A j \in Keys : redis'[j] = IF j = k THEN Nothing ELSE redis[j]
  BY <1>1, <1>3
<1>5. StoredOnce' /\ OlderUsesAreKnown'
  BY <1>1, <1>4 DEF SendInv, StoredOnce, OlderUsesAreKnown, Using, KeyOf, Is
<1>6. StoredTokensWork'
  <2> SUFFICES ASSUME NEW t \in Requests, t \in sent' \/ req'[t].stage = "sending", t \notin ended'
               PROVE  Works(t)'
    BY DEF StoredTokensWork
  <2>1. Works(t) /\ beside[t] \subseteq Requests /\ KeyOf(t) \in Keys
    BY <1>1, <1>2, <1>3, KeysStay DEF SendInv, StoredTokensWork
  <2>2. redis[KeyOf(t)] = t => redis'[KeyOf(t)] = t
    BY <1>1, <1>4, <2>1
  <2>3. QED
    BY <1>1, <1>2, <2>1, <2>2, WorksStays
<1>7. QED
  BY <1>5, <1>6 DEF SendInv

LEMMA NextSends == ASSUME TypeOK, TokenInv, SendInv, [Next]_vars PROVE SendInv'
<1>1. ASSUME NEW r \in Requests, Quiet(r) \/ Send(r) \/ Acts(r) \/ ActFails(r)
      PROVE  SendInv'
  <2>1. CASE Quiet(r)
    <3>1. req[r].stage = "sending" => req'[r].stage = "failed500"
      <4>1. req[r].stage = "sending" => IssueFails(r)
        BY <2>1 DEF Quiet, CreatorReads, CreatorWrites, Creates, IssuerReads, SocialReads,
            SocialWrites, Updates, Removes, To
      <4>2. req[r].stage = "sending" /\ IssueFails(r) => To(r, "sending", "failed500")
        BY DEF IssueFails, To
      <4>3. QED
        BY <4>1, <4>2, TypeParts, ToFacts DEF Stages
    <3>2. QED
      BY <2>1, <3>1, QuietFacts, OthersSend DEF Goes, KindsStay, TokensStay, DoneStays
  <2>2. CASE Send(r) \/ Acts(r) \/ ActFails(r)
    BY <2>2, TypeParts, ToFacts, OthersSend
    DEF Send, Acts, ActFails, Stages, Goes, KindsStay, TokensStay, DoneStays
  <2>3. QED
    BY <1>1, <2>1, <2>2
<1>2. ASSUME NEW r \in Requests, Deletes(r) \/ DeleteFails(r) PROVE SendInv'
  <2>1. Goes(r) /\ req[r].stage = "deleting" /\ UNCHANGED <<sent, beside, ended>>
    BY <1>2, TypeParts, ToFacts DEF Deletes, DeleteFails, Stages
  <2>2. CASE req'[r].stage \in Deleted /\ redis' = [redis EXCEPT ![KeyOf(req[r].token)] = Nothing]
    BY <2>1, <2>2, DeleteSends
  <2>3. CASE req'[r].stage = "failed500" /\ UNCHANGED redis
    BY <2>1, <2>3, OthersSend DEF Goes, KindsStay, TokensStay, DoneStays
  <2>4. QED
    BY <1>2, <2>2, <2>3, TypeParts, ToFacts DEF Deletes, DeleteFails, Stages
<1>3. CASE Crash
  <2>1. \A q \in Requests : /\ req'[q].kind = req[q].kind /\ req'[q].token = req[q].token
                            /\ req'[q].stage \in {req[q].stage, "lost"}
                            /\ req[q].stage \in Deleted => req'[q].stage = req[q].stage
    BY <1>3, TypeParts DEF Crash, RequestsTyped, Over
  <2>2. UNCHANGED <<redis, sent, beside, ended>>
    BY <1>3 DEF Crash
  <2>3. QED
    BY <2>1, <2>2, OthersSend DEF KindsStay, TokensStay, DoneStays
<1>4. CASE UNCHANGED vars
  BY <1>4, OthersSend DEF vars, KindsStay, TokensStay, DoneStays
<1>5. QED
  BY <1>1, <1>2, <1>3, <1>4, StoreSends, CheckSends, ExpireSends DEF Next, Issue, Use, Quiet

-----------------------------------------------------------------------------
(* The account and its address                                             *)

MailsStay == \A q \in Requests : req'[q].to = req[q].to

LEMMA AccountStays ==
    ASSUME AccountTyped, AddressInv, MailsStay, UNCHANGED <<account, history>>
    PROVE  AccountTyped' /\ AddressInv'
BY DEF AccountTyped, AddressInv, MovesAreNoted, GoneIsUnverified, MailsFollowMoves,
    AddressesAreProven, MailsStay, history

LEMMA ToKeepsMails ==
    ASSUME RequestsTyped, NEW r \in Requests, NEW from, NEW to \in Stages, To(r, from, to)
    PROVE  MailsStay
BY DEF RequestsTyped, To, MailsStay

\* An account is created at its first address: verified, with an address that Google or an
\* administrator vouches for; or yet to be verified.
LEMMA CreatesAccount ==
    ASSUME RequestsTyped, AccountTyped, AddressInv, NEW r \in Requests,
           NEW next \in Stages, NEW verified \in BOOLEAN,
           Creates(r, next, verified), verified => ~Is(r, {"register"})
    PROVE  AccountTyped' /\ AddressInv'
<1>1. MailsStay
  BY ToKeepsMails DEF Creates, Stages
<1>2. CASE UNCHANGED <<account, proven>>
  BY <1>1, <1>2, AccountStays DEF Creates, history
<1>3. CASE /\ account = NoAccount /\ account' = Account(verified, Is(r, {"socialLogin"}))
           /\ proven' = IF Is(r, {"register"}) THEN proven ELSE proven \cup {First}
           /\ UNCHANGED moved
  <2>1. AccountTyped'
    BY <1>3 DEF AccountTyped, Account, Addresses, Is
  <2>2. AddressInv'
    BY <1>1, <1>3 DEF AddressInv, MovesAreNoted, GoneIsUnverified, MailsFollowMoves,
        AddressesAreProven, MailsStay, Account, NoAccount, First, Later, Gone
  <2>3. QED
    BY <2>1, <2>2
<1>4. QED
  BY <1>2, <1>3 DEF Creates

\* The address an account is moved to has not been mailed to, and its verification, if it
\* stands, is noted.
LEMMA QuietAccount ==
    ASSUME TypeOK, AddressInv, NEW r \in Requests, Quiet(r)
    PROVE  AccountTyped' /\ AddressInv'
<1> USE TypeParts DEF Stages
<1>1. CASE CreatorReads(r) \/ IssueFails(r)
  BY <1>1, ToKeepsMails, AccountStays DEF CreatorReads, IssueFails
<1>2. CASE CreatorWrites(r)
  BY <1>2, CreatesAccount DEF CreatorWrites, Is
<1>3. CASE IssuerReads(r)
  <2>1. /\ account.exists /\ UNCHANGED <<account, history>>
        /\ \A q \in Requests : req'[q].to \in {req[q].to, account.address}
    BY <1>3 DEF IssuerReads, RequestsTyped
  <2>2. QED
    BY <2>1 DEF AccountTyped, AddressInv, MovesAreNoted, GoneIsUnverified, MailsFollowMoves,
        AddressesAreProven, history, First, Later, Gone
<1>4. CASE SocialReads(r)
  BY <1>4, ToKeepsMails, AccountStays DEF SocialReads
<1>5. CASE SocialWrites(r)
  <2>1. CASE To(r, "linking", "failed500") /\ UNCHANGED <<account, history>>
    BY <2>1, ToKeepsMails, AccountStays
  <2>2. CASE Creates(r, "storing", TRUE)
    BY <1>5, <2>2, CreatesAccount DEF SocialWrites, Is
  <2>3. CASE /\ account.exists /\ To(r, "linking", "storing")
             /\ account' = [account EXCEPT !.verified = TRUE, !.google = TRUE]
             /\ proven' = proven \cup {First} /\ UNCHANGED moved
    <3>1. MailsStay
      BY <2>3, ToKeepsMails
    <3>2. AccountTyped'
      BY <2>3 DEF AccountTyped, Addresses
    <3>3. AddressInv'
      BY <2>3, <3>1 DEF AccountTyped, Addresses, AddressInv, MovesAreNoted, GoneIsUnverified,
          MailsFollowMoves, AddressesAreProven, MailsStay, First, Later, Gone
    <3>4. QED
      BY <3>2, <3>3
  <2>4. QED
    BY <1>5, <2>1, <2>2, <2>3 DEF SocialWrites
<1>6. CASE Updates(r)
  <2>1. account.exists /\ MailsStay
    BY <1>6, ToKeepsMails DEF Updates
  <2>2. CASE /\ account.address = First /\ account' = [account EXCEPT !.address = Later]
             /\ moved' = (IF account.verified THEN "verified" ELSE "unverified")
             /\ UNCHANGED proven
    <3>1. AccountTyped'
      BY <2>2 DEF AccountTyped, Addresses
    <3>2. AddressInv'
      BY <2>1, <2>2 DEF AccountTyped, AddressInv, MovesAreNoted, GoneIsUnverified,
          MailsFollowMoves, AddressesAreProven, MailsStay, First, Later, Gone
    <3>3. QED
      BY <3>1, <3>2
  <2>3. ASSUME NEW v \in BOOLEAN, account' = [account EXCEPT !.verified = v], UNCHANGED moved,
               proven' = IF v THEN proven \cup {account.address} ELSE proven
        PROVE  AccountTyped' /\ AddressInv'
    <3>1. AccountTyped'
      BY <2>3 DEF AccountTyped
    <3>2. AddressInv'
      BY <2>1, <2>3 DEF AccountTyped, AddressInv, MovesAreNoted, GoneIsUnverified,
          MailsFollowMoves, AddressesAreProven, MailsStay, First, Later, Gone
    <3>3. QED
      BY <3>1, <3>2
  <2>4. QED
    BY <1>6, <2>2, <2>3 DEF Updates
<1>7. CASE Removes(r)
  <2>1. /\ MailsStay /\ account' = [NoAccount EXCEPT !.address = Gone]
        /\ UNCHANGED history
    BY <1>7, ToKeepsMails DEF Removes
  <2>2. AccountTyped'
    BY <2>1 DEF AccountTyped, NoAccount, Addresses, history
  <2>3. AddressInv'
    BY <2>1 DEF AddressInv, MovesAreNoted, GoneIsUnverified, MailsFollowMoves,
        AddressesAreProven, MailsStay, NoAccount, First, Later, Gone
  <2>4. QED
    BY <2>2, <2>3
<1>8. QED
  BY <1>1, <1>2, <1>3, <1>4, <1>5, <1>6, <1>7 DEF Quiet

\* A link verifies the account: its owner has read a mail to an address the account has had.
LEMMA ActsAccount ==
    ASSUME TypeOK, TokenInv, AddressInv, NEW r \in Requests, Acts(r)
    PROVE  AccountTyped' /\ AddressInv'
<1>1. MailsStay /\ UNCHANGED moved /\ req[r].stage = "acting"
  BY TypeParts, ToKeepsMails, ToFacts DEF Acts, Stages
<1>2. CASE UNCHANGED <<account, proven>>
  BY <1>1, <1>2, TypeParts, AccountStays DEF history
<1>3. CASE /\ account' = [account EXCEPT !.verified = @ \/ account.exists]
           /\ proven' = proven \cup {req[req[r].token].to}
  <2>1. req[req[r].token].to \in {First, Later}
        /\ (req[req[r].token].to = Later => account.address # First)
    BY <1>1, TypeParts DEF TokenInv, UsesPresentSent, TokensTyped, RequestsTyped, Addresses,
        AddressInv, MailsFollowMoves
  <2>2. AccountTyped'
    BY <1>1, <1>3, <2>1, TypeParts DEF AccountTyped, Addresses
  <2>3. AddressInv'
    BY <1>1, <1>3, <2>1, TypeParts DEF AccountTyped, Addresses, AddressInv, MovesAreNoted,
        GoneIsUnverified, MailsFollowMoves, AddressesAreProven, MailsStay, First, Later, Gone
  <2>4. QED
    BY <2>2, <2>3
<1>4. QED
  BY <1>2, <1>3 DEF Acts

LEMMA OthersAccount ==
    ASSUME TypeOK, AddressInv,
           \/ \E r \in Requests : \/ Store(r) \/ Send(r) \/ Checks(r)
                                \/ ActFails(r) \/ Deletes(r) \/ DeleteFails(r)
           \/ \E k \in Keys : Expire(k)
           \/ Crash
    PROVE  AccountTyped' /\ AddressInv'
<1>1. MailsStay
  <2>1. ASSUME NEW r \in Requests, Store(r) \/ Send(r) \/ ActFails(r) \/ Deletes(r) \/ DeleteFails(r)
        PROVE  MailsStay
    BY <2>1, TypeParts, ToKeepsMails DEF Store, Send, ActFails, Deletes, DeleteFails, Stages
  <2>2. ASSUME NEW r \in Requests, Checks(r) PROVE MailsStay
    BY <2>2, TypeParts DEF Checks, Passes, RequestsTyped, MailsStay
  <2>3. ASSUME NEW k \in Keys, Expire(k) PROVE MailsStay
    BY <2>3 DEF Expire, MailsStay
  <2>4. CASE Crash
    BY <2>4, TypeParts DEF Crash, RequestsTyped, MailsStay
  <2>5. QED
    BY <2>1, <2>2, <2>3, <2>4
<1>2. UNCHANGED <<account, history>>
  BY DEF Store, Send, Checks, Passes, ActFails, Deletes, DeleteFails, Expire, Crash, history
<1>3. QED
  BY <1>1, <1>2, TypeParts, AccountStays

-----------------------------------------------------------------------------

LEMMA InitInv == Init => IInv
<1> SUFFICES ASSUME Init PROVE IInv
  OBVIOUS
<1>1. RequestsTyped /\ AccountTyped /\ TokensTyped
  <2>1. RequestsTyped
    BY DEF Init, RequestsTyped, Stages, Addresses
  <2>2. AccountTyped
    <3>1. account \in [exists : BOOLEAN, verified : BOOLEAN, google : BOOLEAN, address : {First}]
      <4>1. NoAccount \in [exists : BOOLEAN, verified : BOOLEAN, google : BOOLEAN, address : {First}]
        BY DEF NoAccount
      <4>2. \A v, g \in BOOLEAN : Account(v, g)
              \in [exists : BOOLEAN, verified : BOOLEAN, google : BOOLEAN, address : {First}]
        BY DEF Account
      <4>3. QED
        BY <4>1, <4>2 DEF Init
    <3>2. proven \subseteq {First} /\ moved = "no"
      BY DEF Init
    <3>3. QED
      BY <3>1, <3>2 DEF AccountTyped, Addresses
  <2>3. TokensTyped
    BY TokenAssumption DEF Init, TokensTyped
  <2>4. QED
    BY <2>1, <2>2, <2>3
<1>2. TokenInv
  BY DEF Init, TokenInv, SentIsDone, UsesPresentSent, SpentIsGone, SecondUsesOverlap, UsesOf, Is
<1>3. SendInv
  BY DEF Init, SendInv, StoredOnce, OlderUsesAreKnown, StoredTokensWork
<1>4. AddressInv
  BY DEF Init, AddressInv, MovesAreNoted, GoneIsUnverified, MailsFollowMoves,
      AddressesAreProven, NoAccount, Account, First, Later, Gone
<1>5. QED
  BY <1>1, <1>2, <1>3, <1>4, TypeParts DEF IInv

LEMMA NextInv == ASSUME IInv, [Next]_vars PROVE IInv'
<1>0. TypeOK /\ TokenInv /\ AddressInv /\ SendInv'
  BY NextSends DEF IInv
<1>1. ASSUME NEW r \in Requests, Quiet(r) PROVE IInv'
  BY <1>0, <1>1, QuietStep, QuietAccount, TypePartsNext DEF IInv
<1>2. ASSUME NEW r \in Requests, Store(r) \/ Send(r) \/ Checks(r) PROVE IInv'
  BY <1>0, <1>2, StoreStep, SendStep, CheckStep, OthersAccount, TypePartsNext DEF IInv
<1>3. ASSUME NEW r \in Requests, Acts(r) \/ ActFails(r) \/ Deletes(r) \/ DeleteFails(r)
      PROVE  IInv'
  BY <1>0, <1>3, EndStep, ActsAccount, OthersAccount, TypePartsNext DEF IInv
<1>4. CASE Crash \/ \E k \in Keys : Expire(k)
  BY <1>0, <1>4, EnvironmentStep, OthersAccount, TypePartsNext DEF IInv
<1>5. CASE UNCHANGED vars
  BY <1>0, <1>5 DEF vars, history, IInv, TypeOK, TokenInv, SentIsDone, UsesPresentSent, SpentIsGone,
      SecondUsesOverlap, UsesOf, Is, Broken, KeyOf, AddressInv, MovesAreNoted, GoneIsUnverified,
      MailsFollowMoves, AddressesAreProven
<1>6. QED
  BY <1>1, <1>2, <1>3, <1>4, <1>5 DEF Next, Issue, Use, Quiet

\* The inductive invariant of tokens and addresses.
THEOREM TokensInvariant == Spec => []IInv
<1>1. IInv /\ [Next]_vars => IInv'
  BY NextInv
<1>2. QED
  BY InitInv, <1>1, PTL DEF Spec

\* Auth/redisService.ts: every key holds a token of its kind, in every state.
THEOREM TokensTypeCorrect == Spec => []TypeOK
<1>1. IInv => TypeOK
  BY DEF IInv
<1>2. QED
  BY <1>1, TokensInvariant, PTL

\* Auth/service.ts:203-290: of two uses of a token that come one after the other, the second
\* is refused, unless the first broke off before it deleted the token.
THEOREM SecondUses == Spec => []SecondUsesOverlap
<1>1. IInv => SecondUsesOverlap
  BY DEF IInv, TokenInv
<1>2. QED
  BY <1>1, TokensInvariant, PTL

\* Auth/service.ts and Auth/redisService.ts: what was mailed works until it expires, is used or is
\* replaced, unless the use of an older link that was under way when it was issued has deleted
\* it, if only by one of two calls of which the other failed.
THEOREM SentWork == Spec => []SentTokensWork
<1>1. IInv => SentTokensWork
  BY TypeParts DEF IInv, SendInv, StoredTokensWork, Works, SentTokensWork, TokensTyped
<1>2. QED
  BY <1>1, TokensInvariant, PTL

\* Auth/service.ts and Admin/service.ts: an address that counts as verified was vouched for,
\* unless an administrator has moved the account to it.
THEOREM AddressesProven == Spec => []AddressesAreProven
<1>1. IInv => AddressesAreProven
  BY DEF IInv, AddressInv
<1>2. QED
  BY <1>1, TokensInvariant, PTL
=============================================================================
