------------------------ MODULE SessionCookiesProofs ------------------------
(***************************************************************************)
(* What SessionCookies promises of the three cookies of a browser, for any *)
(* number of users, of requests, and of requests under way together.       *)
(***************************************************************************)
EXTENDS SessionCookies, TLAPS

Some == Requests \cup {Nobody}
Stages == {"idle", "sent", "stored", "answered", "done"}
Writes == {{}, {"access"}, {"access", "refresh"}, Cookies}

TypeOK ==
    /\ jar \in [Cookies -> Some] /\ stored \in [Users -> Some]
    /\ req \in [Requests -> [kind : AllKinds \cup {Nobody}, user : Users \cup {Nobody},
                             stage : Stages, with : [Cookies -> Some], session : Some,
                             writes : Writes]]
    /\ beside \in [Requests -> SUBSET Requests]

\* A cookie is what a delivered answer wrote.
JarIsDelivered ==
    \A c \in Cookies : jar[c] # Nobody =>
        jar[c] \in Requests /\ req[jar[c]].stage = "done" /\ c \in req[jar[c]].writes

\* Requests under way together know of each other.
UnderWayMeet == \A q, r \in UnderWay : q # r => q \in beside[r]

\* A request carries the refresh cookie of the browser, unless an answer has written another
\* since it was sent ...
SentCarryTheJar ==
    \A r \in Requests : req[r].stage = "sent" =>
        \/ req[r].with["refresh"] = jar["refresh"]
        \/ jar["refresh"] # Nobody /\ r \in beside[jar["refresh"]]

\* ... and so does the access token that it is answered with, if it is.
RenewalsFollow ==
    \A r \in Requests : req[r].stage = "answered" /\ req[r].writes = {"access"} =>
        /\ jar["refresh"] # Nobody
        /\ req[r].session = jar["refresh"] \/ r \in beside[jar["refresh"]]

\* What the answers write
WritesFitKinds ==
    \A r \in Requests : req[r].stage \in {"answered", "done"} =>
        /\ req[r].writes = {"access", "refresh"} => req[r].kind = "changePassword"
        /\ req[r].kind = "login" => req[r].writes \in {{}, Cookies}

LoginsHaveUsers ==
    \A r \in Requests : req[r].kind = "login" => req[r].stage # "idle" /\ req[r].user \in Users

UnstoredIsNoSession ==
    \A r \in Requests : req[r].stage \in {"idle", "sent"} => req[r].session = Nobody

\* s is another login of the user of r that has stored its token.
Rivals(s, r) ==
    /\ s # r /\ req[s].kind = "login" /\ req[s].user = req[r].user /\ req[s].session = s
    /\ s \in beside[r] \/ req[s].stage # "done" \/ req[s].writes = {}

\* A session is stored until it is ended or a rival's takes its place.
LoginsWork ==
    \A r \in Requests :
        /\ req[r].kind = "login" /\ r \notin ended
        /\ \/ r = jar["refresh"] \/ req[r].stage = "stored"
           \/ req[r].stage = "answered" /\ req[r].writes = Cookies
        => stored[req[r].user] = r \/ \E s \in Requests : Rivals(s, r)

IInv ==
    /\ TypeOK
    /\ JarIsDelivered /\ UnderWayMeet /\ SentCarryTheJar /\ RenewalsFollow
    /\ WritesFitKinds /\ LoginsHaveUsers /\ UnstoredIsNoSession /\ LoginsWork
    /\ CookiesAgree /\ InfoTells

-----------------------------------------------------------------------------

LEMMA InitInv == Init => IInv
<1> SUFFICES ASSUME Init PROVE IInv
  OBVIOUS
<1>1. NoCookies \in [Cookies -> Some] /\ NoCookies["refresh"] = Nobody
  BY DEF NoCookies, Some, Cookies
<1>2. TypeOK
  BY <1>1 DEF Init, TypeOK, Some, Stages, Writes
<1>3. \A r \in Requests : req[r].stage = "idle" /\ req[r].kind = Nobody
  BY DEF Init
<1>4. /\ JarIsDelivered /\ UnderWayMeet /\ SentCarryTheJar /\ RenewalsFollow
      /\ WritesFitKinds /\ LoginsHaveUsers /\ UnstoredIsNoSession /\ LoginsWork
  BY <1>1, <1>3 DEF Init, JarIsDelivered, UnderWayMeet, UnderWay, SentCarryTheJar, RenewalsFollow,
      WritesFitKinds, LoginsHaveUsers, UnstoredIsNoSession, LoginsWork, Nobody, NoCookies
<1>5. CookiesAgree /\ InfoTells
  BY <1>1 DEF Init, CookiesAgree, InfoTells, NoCookies, Cookies
<1>6. QED
  BY <1>2, <1>4, <1>5 DEF IInv

-----------------------------------------------------------------------------
(* The browser                                                             *)

LEMMA SendFacts ==
    ASSUME TypeOK, NEW r \in Requests, Send(r)
    PROVE  /\ TypeOK'
           /\ \A q \in Requests \ {r} : req'[q] = req[q]
           /\ req[r].stage = "idle" /\ req'[r].stage = "sent" /\ req'[r].with = jar
           /\ req'[r].session = req[r].session
           /\ req'[r].kind = "login" => req'[r].user \in Users
           /\ UnderWay \subseteq Requests \ {r} /\ UnderWay' = UnderWay \cup {r}
           /\ beside'[r] = UnderWay
           /\ \A q \in Requests \ {r} : beside'[q] = IF q \in UnderWay THEN beside[q] \cup {r}
                                                                       ELSE beside[q]
           /\ UNCHANGED <<jar, stored, ended>>
<1>1. PICK k \in Kinds, u \in Users \cup {Nobody} :
        /\ k = "login" <=> u # Nobody
        /\ req' = [req EXCEPT ![r].kind = k, ![r].user = u, ![r].stage = "sent", ![r].with = jar]
  BY DEF Send
<1>2. req' \in [Requests -> [kind : AllKinds \cup {Nobody}, user : Users \cup {Nobody},
                             stage : Stages, with : [Cookies -> Some], session : Some,
                             writes : Writes]]
  <2>1. k \in AllKinds \cup {Nobody} /\ "sent" \in Stages /\ jar \in [Cookies -> Some]
    BY CookieAssumption DEF Stages, TypeOK
  <2>2. PICK old \in [kind : AllKinds \cup {Nobody}, user : Users \cup {Nobody}, stage : Stages,
                      with : [Cookies -> Some], session : Some, writes : Writes] : old = req[r]
    BY DEF TypeOK
  <2>3. [old EXCEPT !.kind = k, !.user = u, !.stage = "sent", !.with = jar]
          \in [kind : AllKinds \cup {Nobody}, user : Users \cup {Nobody}, stage : Stages,
              with : [Cookies -> Some], session : Some, writes : Writes]
    BY <2>1
  <2>4. req' = [req EXCEPT ![r] = [old EXCEPT !.kind = k, !.user = u, !.stage = "sent", !.with = jar]]
    BY <1>1, <2>2 DEF TypeOK
  <2>5. QED
    BY <2>3, <2>4 DEF TypeOK
<1>3. /\ \A q \in Requests \ {r} : req'[q] = req[q]
      /\ req[r].stage = "idle" /\ req'[r].stage = "sent" /\ req'[r].with = jar
      /\ req'[r].session = req[r].session
      /\ req'[r].kind = "login" => req'[r].user \in Users
  BY <1>1 DEF TypeOK, Send
<1>4. UnderWay \subseteq Requests \ {r} /\ UnderWay' = UnderWay \cup {r}
  BY <1>3 DEF UnderWay
<1>5. /\ beside' \in [Requests -> SUBSET Requests]
      /\ beside'[r] = UnderWay
      /\ \A q \in Requests \ {r} : beside'[q] = IF q \in UnderWay THEN beside[q] \cup {r}
                                                                  ELSE beside[q]
  BY DEF Send, TypeOK, UnderWay
<1>6. QED
  BY <1>2, <1>3, <1>4, <1>5 DEF Send, TypeOK

LEMMA SendStep == ASSUME IInv, NEW r \in Requests, Send(r) PROVE IInv'
<1>1. TypeOK
  BY DEF IInv
<1>2. \A q \in Requests \ {r} : beside[q] \subseteq beside'[q]
  <2>1. \A q \in Requests \ {r} : beside'[q] = IF q \in UnderWay THEN beside[q] \cup {r}
                                                                   ELSE beside[q]
    BY <1>1, SendFacts
  <2>2. QED
    BY <2>1
<1>3. \A c \in Cookies : jar[c] # Nobody => jar[c] \in Requests \ {r}
  BY <1>1, SendFacts DEF IInv, JarIsDelivered
<1>4. JarIsDelivered'
  BY <1>1, <1>3, SendFacts DEF IInv, JarIsDelivered
<1>5. UnderWayMeet'
  <2>1. /\ UnderWay' = UnderWay \cup {r} /\ UnderWay \subseteq Requests \ {r}
        /\ beside'[r] = UnderWay
        /\ \A q \in Requests \ {r} : beside'[q] = IF q \in UnderWay THEN beside[q] \cup {r}
                                                                    ELSE beside[q]
    BY <1>1, SendFacts
  <2>2. ASSUME NEW p \in UnderWay', NEW q \in UnderWay', p # q PROVE p \in beside'[q]
    BY <2>1, <2>2 DEF IInv, UnderWayMeet
  <2>3. QED
    BY <2>2 DEF UnderWayMeet
<1>6. SentCarryTheJar' /\ RenewalsFollow'
  BY <1>1, <1>2, <1>3, SendFacts DEF IInv, SentCarryTheJar, RenewalsFollow, Cookies
<1>7. WritesFitKinds' /\ LoginsHaveUsers' /\ UnstoredIsNoSession'
  BY <1>1, SendFacts DEF IInv, WritesFitKinds, LoginsHaveUsers, UnstoredIsNoSession
<1>8. LoginsWork'
  <2>1. SUFFICES ASSUME NEW q \in Requests, req'[q].kind = "login", q \notin ended',
                        \/ q = jar'["refresh"] \/ req'[q].stage = "stored"
                        \/ req'[q].stage = "answered" /\ req'[q].writes = Cookies
                 PROVE  stored'[req'[q].user] = q \/ \E s \in Requests : Rivals(s, q)'
    BY DEF LoginsWork
  <2>2. q # r /\ req'[q] = req[q] /\ ended' = ended /\ jar' = jar /\ stored' = stored
    BY <1>1, <1>3, <2>1, CookieAssumption, SendFacts DEF Cookies
  <2>3. stored[req[q].user] = q \/ \E s \in Requests : Rivals(s, q)
    BY <2>1, <2>2 DEF IInv, LoginsWork
  <2>4. ASSUME NEW s \in Requests, Rivals(s, q) PROVE Rivals(s, q)'
    BY <1>1, <1>2, <2>2, <2>4, SendFacts DEF IInv, LoginsHaveUsers, Rivals
  <2>5. QED
    BY <2>2, <2>3, <2>4
<1>9. CookiesAgree' /\ InfoTells'
  BY <1>1, <1>2, <1>3, SendFacts DEF IInv, CookiesAgree, InfoTells, Is, Cookies
<1>10. QED
  BY <1>1, <1>4, <1>5, <1>6, <1>7, <1>8, <1>9, SendFacts DEF IInv

LEMMA DeliverFacts ==
    ASSUME TypeOK, NEW r \in Requests, Deliver(r)
    PROVE  /\ TypeOK'
           /\ \A q \in Requests \ {r} : req'[q] = req[q]
           /\ req[r].stage = "answered" /\ req'[r].stage = "done"
           /\ req'[r].kind = req[r].kind /\ req'[r].user = req[r].user
           /\ req'[r].session = req[r].session /\ req'[r].writes = req[r].writes
           /\ r \in UnderWay /\ UnderWay' = UnderWay \ {r} /\ UnderWay \subseteq Requests
           /\ jar' = [c \in Cookies |-> IF c \in req[r].writes THEN r ELSE jar[c]]
           /\ req[r].writes \in Writes
           /\ UNCHANGED <<stored, beside, ended>>
<1>1. req' = [req EXCEPT ![r].stage = "done"] /\ req[r].stage = "answered"
      /\ jar' = [c \in Cookies |-> IF c \in req[r].writes THEN r ELSE jar[c]]
      /\ UNCHANGED <<stored, beside, ended>>
  BY DEF Deliver
<1>2. TypeOK'
  BY <1>1 DEF TypeOK, Stages, Some
<1>3. /\ \A q \in Requests \ {r} : req'[q] = req[q]
      /\ req'[r].stage = "done" /\ req[r].writes \in Writes
      /\ req'[r].kind = req[r].kind /\ req'[r].user = req[r].user
      /\ req'[r].session = req[r].session /\ req'[r].writes = req[r].writes
  BY <1>1 DEF TypeOK
<1>4. r \in UnderWay /\ UnderWay' = UnderWay \ {r} /\ UnderWay \subseteq Requests
  BY <1>1, <1>3 DEF UnderWay
<1>5. QED
  BY <1>1, <1>2, <1>3, <1>4

\* An answer that writes the refresh cookie writes the access cookie too.  Whatever else is
\* under way has met it, and may leave an access cookie of an earlier session later.
LEMMA DeliverStep == ASSUME IInv, NEW r \in Requests, Deliver(r) PROVE IInv'
<1>1. TypeOK
  BY DEF IInv
<1>2. \A q \in Requests \ {r} : req[q].stage \in {"sent", "stored", "answered"} => r \in beside[q] /\ q \in beside[r]
  BY <1>1, DeliverFacts DEF IInv, UnderWayMeet, UnderWay
<1>3. /\ jar'["refresh"] = IF "refresh" \in req[r].writes THEN r ELSE jar["refresh"]
      /\ jar'["access"] = IF "access" \in req[r].writes THEN r ELSE jar["access"]
      /\ jar'["info"] = IF "info" \in req[r].writes THEN r ELSE jar["info"]
  BY <1>1, DeliverFacts DEF Cookies
<1>4. JarIsDelivered'
  BY <1>1, DeliverFacts DEF IInv, JarIsDelivered
<1>5. UnderWayMeet'
  BY <1>1, DeliverFacts DEF IInv, UnderWayMeet
<1>6. SentCarryTheJar' /\ RenewalsFollow'
  BY <1>1, <1>2, <1>3, CookieAssumption, DeliverFacts DEF IInv, SentCarryTheJar, RenewalsFollow
<1>7. WritesFitKinds' /\ LoginsHaveUsers' /\ UnstoredIsNoSession'
  BY <1>1, DeliverFacts DEF IInv, WritesFitKinds, LoginsHaveUsers, UnstoredIsNoSession
<1>8. LoginsWork'
  <2>1. SUFFICES ASSUME NEW q \in Requests, req'[q].kind = "login", q \notin ended',
                        \/ q = jar'["refresh"] \/ req'[q].stage = "stored"
                        \/ req'[q].stage = "answered" /\ req'[q].writes = Cookies
                 PROVE  stored'[req'[q].user] = q \/ \E s \in Requests : Rivals(s, q)'
    BY DEF LoginsWork
  <2>2. /\ req[q].kind = "login" /\ q \notin ended /\ req'[q].user = req[q].user
        /\ \/ q = jar["refresh"] /\ (q # r => "refresh" \notin req[r].writes)
           \/ req[q].stage = "stored" /\ q # r
           \/ req[q].stage = "answered" /\ req[q].writes = Cookies
    BY <1>1, <1>3, <2>1, DeliverFacts DEF IInv, WritesFitKinds, Cookies
  <2>3. stored[req[q].user] = q \/ \E s \in Requests : Rivals(s, q)
    BY <2>2 DEF IInv, LoginsWork
  <2>4. ASSUME NEW s \in Requests, Rivals(s, q) PROVE Rivals(s, q)'
    <3>1. CASE s # r
      BY <1>1, <2>2, <2>4, <3>1, DeliverFacts DEF Rivals
    <3>2. CASE s = r /\ req[r].writes = {}
      BY <1>1, <2>2, <2>4, <3>2, DeliverFacts DEF Rivals
    <3>3. CASE s = r /\ req[r].writes = Cookies
      BY <1>1, <1>2, <2>2, <2>4, <3>3, DeliverFacts DEF Rivals, Cookies
    <3>4. req[s].kind = "login" /\ (s = r => req[r].writes \in {{}, Cookies})
      BY <1>1, <2>4, DeliverFacts DEF Rivals, IInv, WritesFitKinds
    <3>5. QED
      BY <3>1, <3>2, <3>3, <3>4
  <2>5. QED
    BY <1>1, <2>2, <2>3, <2>4, DeliverFacts
<1>9. CookiesAgree'
  <2>1. CASE req[r].writes = {"access"}
    BY <1>1, <1>3, <2>1, CookieAssumption, DeliverFacts DEF IInv, CookiesAgree, RenewalsFollow
  <2>2. CASE req[r].writes = {}
    <3>1. jar'["access"] = jar["access"] /\ jar'["refresh"] = jar["refresh"] /\ beside' = beside
      BY <1>1, <1>3, <2>2, DeliverFacts
    <3>2. jar["access"] # Nobody => req'[jar["access"]].session = req[jar["access"]].session
      BY <1>1, DeliverFacts DEF IInv, JarIsDelivered, Cookies
    <3>3. QED
      BY <3>1, <3>2 DEF IInv, CookiesAgree
  <2>3. CASE {"access", "refresh"} \subseteq req[r].writes
    BY <1>3, <2>3 DEF CookiesAgree
  <2>4. QED
    BY <1>1, <2>1, <2>2, <2>3, DeliverFacts DEF Writes, Cookies
<1>10. InfoTells'
  <2>1. CASE req[r].writes \in {{}, {"access"}}
    BY <1>1, <1>3, <2>1, DeliverFacts DEF IInv, InfoTells, Is, JarIsDelivered, Cookies
  <2>2. CASE req[r].writes = {"access", "refresh"}
    BY <1>1, <1>3, <2>2, CookieAssumption, DeliverFacts DEF IInv, InfoTells, Is, WritesFitKinds
  <2>3. CASE req[r].writes = Cookies
    BY <1>3, <2>3 DEF InfoTells, Cookies
  <2>4. QED
    BY <1>1, <2>1, <2>2, <2>3, DeliverFacts DEF Writes
<1>11. QED
  BY <1>1, <1>4, <1>5, <1>6, <1>7, <1>8, <1>9, <1>10, DeliverFacts DEF IInv
-----------------------------------------------------------------------------
(* The server                                                              *)

\* What is no longer stored has been ended.
OnlyEnds ==
    /\ stored' \in [Users -> Some] /\ ended \subseteq ended'
    /\ \A u \in Users :
         \/ stored'[u] = stored[u]
         \/ stored'[u] = Nobody /\ (stored[u] = Nobody \/ stored[u] \in ended')

LEMMA EndFacts == ASSUME TypeOK, NEW u, NEW known, End(u, known) PROVE OnlyEnds
BY DEF End, OnlyEnds, TypeOK, Some

\* What all answers have in common but those of a login that has stored its token
Answers(r, session, writes) ==
    /\ Answer(r, session, writes) /\ UNCHANGED <<jar, beside>>
    /\ session \in Some /\ writes \in Writes
    /\ writes = {"access"} => session = req[r].with["refresh"] /\ session # Nobody
    /\ writes = {"access", "refresh"} => req[r].kind = "changePassword"
    /\ req[r].kind = "login" => writes = {}
    /\ OnlyEnds

LEMMA AnsweredStages ==
    ASSUME NEW w
    PROVE  \/ w = {} /\ Answered(w) = "done"
           \/ w # {} /\ Answered(w) = "answered"
BY DEF Answered

LEMMA AnswerFacts ==
    ASSUME TypeOK, NEW r \in Requests, NEW session \in Some, NEW writes \in Writes,
           Answer(r, session, writes)
    PROVE  /\ req' \in [Requests -> [kind : AllKinds \cup {Nobody}, user : Users \cup {Nobody},
                                     stage : Stages, with : [Cookies -> Some], session : Some,
                                     writes : Writes]]
           /\ \A q \in Requests \ {r} : req'[q] = req[q]
           /\ req[r].stage = "sent" /\ req'[r].stage = Answered(writes)
           /\ req'[r].kind = req[r].kind /\ req'[r].user = req[r].user
           /\ req'[r].session = session /\ req'[r].writes = writes
           /\ UnderWay' \subseteq UnderWay
<1>1. /\ req[r].stage = "sent"
      /\ req' = [req EXCEPT ![r].stage = Answered(writes), ![r].session = session, ![r].writes = writes,
                            ![r].with = NoCookies]
  BY DEF Answer
<1>2. PICK old \in [kind : AllKinds \cup {Nobody}, user : Users \cup {Nobody}, stage : Stages,
                    with : [Cookies -> Some], session : Some, writes : Writes] : old = req[r]
  BY DEF TypeOK
<1>3. NoCookies \in [Cookies -> Some] /\ Answered(writes) \in Stages
  BY DEF Answered, NoCookies, Some, Stages
<1>4. [old EXCEPT !.stage = Answered(writes), !.session = session, !.writes = writes, !.with = NoCookies]
        \in [kind : AllKinds \cup {Nobody}, user : Users \cup {Nobody}, stage : Stages,
            with : [Cookies -> Some], session : Some, writes : Writes]
  BY <1>3
<1>5. req' = [req EXCEPT ![r] = [old EXCEPT !.stage = Answered(writes), !.session = session,
                                            !.writes = writes, !.with = NoCookies]]
  BY <1>1, <1>2 DEF TypeOK
<1>6. /\ \A q \in Requests \ {r} : req'[q] = req[q]
      /\ req'[r].stage = Answered(writes) /\ req'[r].kind = req[r].kind /\ req'[r].user = req[r].user
      /\ req'[r].session = session /\ req'[r].writes = writes
  BY <1>1 DEF TypeOK
<1>7. UnderWay' \subseteq UnderWay
  BY <1>1, <1>6 DEF UnderWay
<1>8. req' \in [Requests -> [kind : AllKinds \cup {Nobody}, user : Users \cup {Nobody},
                             stage : Stages, with : [Cookies -> Some], session : Some,
                             writes : Writes]]
  BY <1>4, <1>5 DEF TypeOK
<1>9. QED
  BY <1>1, <1>6, <1>7, <1>8

\* An access token that is renewed is of the session of the refresh cookie that the request
\* carried; a login that takes the place of another is its rival.
LEMMA AnswerStep ==
    ASSUME IInv, NEW r \in Requests, NEW session, NEW writes, Answers(r, session, writes)
    PROVE  IInv'
<1>1. /\ TypeOK /\ Answer(r, session, writes) /\ session \in Some /\ writes \in Writes
      /\ UNCHANGED <<jar, beside>>
  BY DEF IInv, Answers
<1>2. TypeOK'
  <2>1. stored' \in [Users -> Some]
    BY <1>1 DEF Answers, OnlyEnds
  <2>2. QED
    BY <1>1, <2>1, AnswerFacts, AnsweredStages DEF TypeOK
<1>3. JarIsDelivered' /\ UnderWayMeet'
  BY <1>1, AnswerFacts, AnsweredStages DEF IInv, JarIsDelivered, UnderWayMeet
<1>4. SentCarryTheJar' /\ RenewalsFollow'
  BY <1>1, AnswerFacts, AnsweredStages DEF IInv, SentCarryTheJar, RenewalsFollow, Answers
<1>5. WritesFitKinds' /\ LoginsHaveUsers' /\ UnstoredIsNoSession'
  <2>1. /\ writes = {"access", "refresh"} => req[r].kind = "changePassword"
        /\ req[r].kind = "login" => writes \in {{}, Cookies}
    BY DEF Answers
  <2>2. /\ \A q \in Requests \ {r} : req'[q] = req[q]
        /\ req[r].stage = "sent" /\ req'[r].stage = Answered(writes)
        /\ req'[r].kind = req[r].kind /\ req'[r].user = req[r].user /\ req'[r].writes = writes
    BY <1>1, AnswerFacts
  <2>3. WritesFitKinds'
    BY <2>1, <2>2, AnsweredStages DEF IInv, WritesFitKinds
  <2>4. LoginsHaveUsers' /\ UnstoredIsNoSession'
    BY <2>2, AnsweredStages DEF IInv, LoginsHaveUsers, UnstoredIsNoSession
  <2>5. QED
    BY <2>3, <2>4
<1>6. CookiesAgree' /\ InfoTells'
  BY <1>1, AnswerFacts, AnsweredStages DEF IInv, JarIsDelivered, CookiesAgree, InfoTells, Is, Cookies
<1>7. LoginsWork'
  <2>1. SUFFICES ASSUME NEW q \in Requests, req'[q].kind = "login", q \notin ended',
                        \/ q = jar'["refresh"] \/ req'[q].stage = "stored"
                        \/ req'[q].stage = "answered" /\ req'[q].writes = Cookies
                 PROVE  stored'[req'[q].user] = q \/ \E s \in Requests : Rivals(s, q)'
    BY DEF LoginsWork
  <2>2. req'[q].user = req[q].user /\ req[q].kind = "login" /\ req[q].user \in Users
    BY <1>1, <2>1, AnswerFacts, AnsweredStages DEF IInv, LoginsHaveUsers
  <2>3. q # r
    BY <1>1, <2>1, <2>2, CookieAssumption, AnswerFacts, AnsweredStages
    DEF IInv, JarIsDelivered, Answers, Cookies
  <2>4. \/ stored[req[q].user] = q /\ stored'[req[q].user] = q
        \/ \E s \in Requests : Rivals(s, q)
    BY <1>1, <2>1, <2>2, <2>3, CookieAssumption, AnswerFacts, AnsweredStages
    DEF IInv, LoginsWork, Answers, OnlyEnds
  <2>5. ASSUME NEW s \in Requests, Rivals(s, q) PROVE Rivals(s, q)'
    BY <1>1, <2>2, <2>3, <2>5, CookieAssumption, AnswerFacts, AnsweredStages
    DEF Rivals, IInv, UnstoredIsNoSession
  <2>6. QED
    BY <2>2, <2>4, <2>5
<1>8. QED
  BY <1>2, <1>3, <1>4, <1>5, <1>6, <1>7 DEF IInv

LEMMA NothingEnds == ASSUME TypeOK, UNCHANGED <<stored, ended>> PROVE OnlyEnds
BY DEF TypeOK, OnlyEnds

\* A login that has stored its token, and one that is then answered, with cookies or without:
\* its token takes the place of a rival's.
LEMMA LoginFacts ==
    ASSUME TypeOK, NEW r \in Requests, LoginStores(r) \/ LoginAnswers(r)
    PROVE  /\ req' \in [Requests -> [kind : AllKinds \cup {Nobody}, user : Users \cup {Nobody},
                                     stage : Stages, with : [Cookies -> Some], session : Some,
                                     writes : Writes]]
           /\ \A q \in Requests \ {r} : req'[q] = req[q]
           /\ req[r].stage \in {"sent", "stored"} /\ req'[r].stage \in {"stored", "answered", "done"}
           /\ req'[r].kind = req[r].kind /\ req'[r].user = req[r].user
           /\ req'[r].stage # "stored" => /\ req'[r].writes \in {{}, Cookies}
                                         /\ req'[r].stage = Answered(req'[r].writes)
                                         /\ req'[r].session = req[r].session
                                         /\ req[r].stage = "stored" /\ UNCHANGED stored
           /\ req'[r].stage = "stored" =>
                /\ req[r].kind = "login" /\ req[r].stage = "sent" /\ req'[r].session = r
                /\ stored' = [stored EXCEPT ![req[r].user] = r]
           /\ UnderWay' \subseteq UnderWay /\ UNCHANGED <<jar, beside, ended>>
<1>1. PICK old \in [kind : AllKinds \cup {Nobody}, user : Users \cup {Nobody},
                    stage : Stages, with : [Cookies -> Some], session : Some, writes : Writes] :
        old = req[r]
  BY DEF TypeOK
<1>2. r \in Some /\ NoCookies \in [Cookies -> Some] /\ "stored" \in Stages /\ {"answered", "done"} \subseteq Stages
  BY DEF NoCookies, Some, Stages
<1>3. CASE LoginStores(r)
  <2> DEFINE new == [old EXCEPT !.stage = "stored", !.session = r, !.with = NoCookies]
  <2>1. req' = [req EXCEPT ![r] = new]
    BY <1>1, <1>3 DEF LoginStores, TypeOK
  <2>2. /\ new \in [kind : AllKinds \cup {Nobody}, user : Users \cup {Nobody}, stage : Stages,
                    with : [Cookies -> Some], session : Some, writes : Writes]
        /\ new.stage = "stored" /\ new.session = r /\ new.kind = old.kind /\ new.user = old.user
    BY <1>2
  <2> HIDE DEF new
  <2>3. \A q \in Requests : req'[q] = IF q = r THEN new ELSE req[q]
    BY <2>1 DEF TypeOK
  <2>4. UnderWay' \subseteq UnderWay
    BY <1>3, <2>2, <2>3 DEF UnderWay, LoginStores
  <2>5. QED
    BY <1>1, <1>3, <2>1, <2>2, <2>3, <2>4 DEF LoginStores, TypeOK, Is
<1>4. CASE LoginAnswers(r)
  <2>1. PICK w \in {Cookies, {}} :
          req' = [req EXCEPT ![r].stage = Answered(w), ![r].writes = w]
    BY <1>4 DEF LoginAnswers
  <2> DEFINE new == [old EXCEPT !.stage = Answered(w), !.writes = w]
  <2>2. req' = [req EXCEPT ![r] = new]
    BY <1>1, <2>1 DEF TypeOK
  <2>3. /\ new \in [kind : AllKinds \cup {Nobody}, user : Users \cup {Nobody}, stage : Stages,
                    with : [Cookies -> Some], session : Some, writes : Writes]
        /\ new.stage = Answered(w) /\ new.session = old.session /\ new.writes = w
        /\ new.kind = old.kind /\ new.user = old.user
    BY <1>2, AnsweredStages DEF Writes
  <2> HIDE DEF new
  <2>4. \A q \in Requests : req'[q] = IF q = r THEN new ELSE req[q]
    BY <2>2 DEF TypeOK
  <2>5. UnderWay' \subseteq UnderWay
    BY <1>4, <2>3, <2>4, AnsweredStages DEF UnderWay, LoginAnswers
  <2>6. QED
    BY <1>1, <1>4, <2>2, <2>3, <2>4, <2>5, AnsweredStages DEF LoginAnswers, TypeOK
<1>5. QED
  BY <1>3, <1>4

LEMMA LoginStep == ASSUME IInv, NEW r \in Requests, Login(r) PROVE IInv'
<1>1. CASE LoginFails(r)
  <2>1. Answers(r, Nobody, {})
    BY <1>1, NothingEnds DEF IInv, LoginFails, Answers, Some, Writes, Cookies
  <2>2. QED
    BY <2>1, AnswerStep
<1>2. CASE LoginStores(r) \/ LoginAnswers(r)
  <2>1. TypeOK /\ (req[r].kind = "login" => req[r].user \in Users)
    BY DEF IInv, LoginsHaveUsers
  <2>2. /\ \A q \in Requests \ {r} : req'[q] = req[q]
        /\ req[r].stage \in {"sent", "stored"} /\ req'[r].stage \in {"stored", "answered", "done"}
        /\ req'[r].kind = req[r].kind /\ req'[r].user = req[r].user
        /\ req'[r].stage # "stored" => /\ req'[r].writes \in {{}, Cookies}
                                      /\ req'[r].stage = Answered(req'[r].writes)
        /\ UnderWay' \subseteq UnderWay /\ UNCHANGED <<jar, beside, ended>>
    BY <1>2, <2>1, LoginFacts
  <2>3. TypeOK'
    BY <1>2, <2>1, LoginFacts DEF TypeOK, Some
  <2>4. JarIsDelivered' /\ UnderWayMeet'
    BY <2>2 DEF IInv, JarIsDelivered, UnderWayMeet
  <2>5. SentCarryTheJar' /\ RenewalsFollow'
    BY <2>2 DEF IInv, SentCarryTheJar, RenewalsFollow, Cookies
  <2>6. WritesFitKinds' /\ LoginsHaveUsers' /\ UnstoredIsNoSession'
    BY <2>2 DEF IInv, WritesFitKinds, LoginsHaveUsers, UnstoredIsNoSession, Cookies
  <2>7. CookiesAgree' /\ InfoTells'
    BY <1>2, <2>1, LoginFacts DEF IInv, JarIsDelivered, CookiesAgree, InfoTells, Is, Cookies
  <2>8. LoginsWork'
    <3>1. SUFFICES ASSUME NEW q \in Requests, req'[q].kind = "login", q \notin ended',
                          \/ q = jar'["refresh"] \/ req'[q].stage = "stored"
                          \/ req'[q].stage = "answered" /\ req'[q].writes = Cookies
                   PROVE  stored'[req'[q].user] = q \/ \E s \in Requests : Rivals(s, q)'
      BY DEF LoginsWork
    <3>2. req'[q].user = req[q].user /\ req[q].kind = "login" /\ req[q].user \in Users
      BY <1>2, <2>1, <3>1, LoginFacts DEF IInv, LoginsHaveUsers
    <3>3. ASSUME NEW s \in Requests, Rivals(s, q) PROVE Rivals(s, q)'
      BY <1>2, <2>1, <3>2, <3>3, CookieAssumption, LoginFacts, AnsweredStages
      DEF Rivals, IInv, UnstoredIsNoSession
    <3>4. CASE q = r /\ req'[r].stage = "stored"
      BY <1>2, <2>1, <3>2, <3>4, LoginFacts DEF TypeOK
    <3>5. CASE q # r \/ req'[r].stage # "stored"
      <4>1. stored[req[q].user] = q \/ \E s \in Requests : Rivals(s, q)
        BY <1>2, <2>1, <3>1, <3>2, <3>5, LoginFacts, AnsweredStages DEF IInv, LoginsWork
      <4>2. ASSUME stored[req[q].user] = q, stored'[req[q].user] # q PROVE Rivals(r, q)'
        BY <1>2, <2>1, <3>2, <3>5, <4>2, LoginFacts DEF Rivals, TypeOK
      <4>3. QED
        BY <3>2, <3>3, <4>1, <4>2
    <3>6. QED
      BY <1>2, <2>1, <3>4, <3>5, LoginFacts
  <2>9. QED
    BY <2>3, <2>4, <2>5, <2>6, <2>7, <2>8 DEF IInv
<1>3. QED
  BY <1>1, <1>2 DEF Login

LEMMA LogoutStep == ASSUME IInv, NEW r \in Requests, Logout(r) PROVE IInv'
<1>1. TypeOK /\ req[r].kind = "logout" /\ Answer(r, Nobody, Cookies)
  BY DEF IInv, Logout, Is
<1>2. OnlyEnds
  BY <1>1, EndFacts, NothingEnds DEF Logout
<1>3. Answers(r, Nobody, Cookies)
  BY <1>1, <1>2 DEF Logout, Answers, Some, Writes, Cookies
<1>4. QED
  BY <1>3, AnswerStep

\* authenticate renews by the refresh cookie only.
LEMMA InFacts ==
    ASSUME TypeOK, NEW r \in Requests, NEW session, NEW writes, In(r, session, writes)
    PROVE  writes \in {{}, {"access"}} /\
           (writes = {"access"} => session = req[r].with["refresh"] /\ session # Nobody)
BY DEF In, HasSession, Is

LEMMA CallStep ==
    ASSUME IInv, NEW r \in Requests, Call(r) \/ RefreshToken(r) PROVE IInv'
<1>1. TypeOK /\ req[r].kind \in {"call", "changePassword", "refreshToken"}
      /\ UNCHANGED <<jar, beside>> /\ OnlyEnds
  BY NothingEnds DEF IInv, Call, RefreshToken, Is
<1>2. CASE Answer(r, Nobody, {})
  <2>1. Answers(r, Nobody, {})
    BY <1>1, <1>2 DEF Answers, Some, Writes, Cookies
  <2>2. QED
    BY <2>1, AnswerStep
<1>3. ASSUME NEW s \in Renewals, NEW w \in {{}, {"access"}}, In(r, s, w), Answer(r, s, w)
      PROVE  IInv'
  <2>1. Answers(r, s, w)
    BY <1>1, <1>3, InFacts DEF Answers, Renewals, Some, Writes, Cookies
  <2>2. QED
    BY <2>1, AnswerStep
<1>4. CASE HasSession(r) /\ Answer(r, req[r].with["refresh"], {"access"})
  <2>1. req[r].with["refresh"] \in Some /\ req[r].with["refresh"] # Nobody
    BY <1>1, <1>4 DEF TypeOK, HasSession, Is, Cookies
  <2>2. Answers(r, req[r].with["refresh"], {"access"})
    BY <1>1, <1>4, <2>1 DEF Answers, Writes, Cookies
  <2>3. QED
    BY <2>2, AnswerStep
<1>5. QED
  BY <1>2, <1>3, <1>4 DEF Call, RefreshToken

LEMMA ChangePasswordStep == ASSUME IInv, NEW r \in Requests, ChangePassword(r) PROVE IInv'
<1>1. PICK s \in Renewals : Answer(r, s, {"access", "refresh"}) /\ End(UserOf(s), {})
  BY DEF ChangePassword
<1>2. TypeOK /\ req[r].kind = "changePassword" /\ UNCHANGED <<jar, beside>>
  BY DEF IInv, ChangePassword, Is
<1>3. OnlyEnds
  BY <1>1, <1>2, EndFacts
<1>4. Answers(r, s, {"access", "refresh"})
  BY <1>1, <1>2, <1>3 DEF Answers, Renewals, Some, Writes, Cookies
<1>5. QED
  BY <1>4, AnswerStep

\* Sessions end elsewhere, access tokens expire, or nothing happens.
LEMMA OtherStep ==
    ASSUME IInv, UNCHANGED <<jar, req, beside>>, OnlyEnds
    PROVE  IInv'
<1>1. TypeOK' /\ JarIsDelivered' /\ UnderWayMeet'
  BY DEF IInv, TypeOK, OnlyEnds, JarIsDelivered, UnderWayMeet, UnderWay
<1>2. SentCarryTheJar' /\ RenewalsFollow' /\ WritesFitKinds' /\ LoginsHaveUsers' /\ UnstoredIsNoSession'
  BY DEF IInv, SentCarryTheJar, RenewalsFollow, WritesFitKinds, LoginsHaveUsers,
      UnstoredIsNoSession
<1>3. CookiesAgree' /\ InfoTells'
  BY DEF IInv, CookiesAgree, InfoTells, Is
<1>4. LoginsWork'
  <2> SUFFICES ASSUME NEW q \in Requests, req[q].kind = "login", q \notin ended',
                      \/ q = jar["refresh"] \/ req[q].stage = "stored"
                      \/ req[q].stage = "answered" /\ req[q].writes = Cookies
               PROVE  stored'[req[q].user] = q \/ \E s \in Requests : Rivals(s, q)'
    BY DEF LoginsWork
  <2>1. stored[req[q].user] = q \/ \E s \in Requests : Rivals(s, q)
    BY DEF IInv, LoginsWork, OnlyEnds
  <2>2. \A s \in Requests : Rivals(s, q) => Rivals(s, q)'
    BY DEF Rivals
  <2>3. stored[req[q].user] = q => stored'[req[q].user] = q
    BY CookieAssumption DEF IInv, LoginsHaveUsers, OnlyEnds
  <2>4. QED
    BY <2>1, <2>2, <2>3
<1>5. QED
  BY <1>1, <1>2, <1>3, <1>4 DEF IInv

LEMMA NextInv == ASSUME IInv, [Next]_vars PROVE IInv'
<1>1. ASSUME NEW r \in Requests, AccessExpires(r) PROVE IInv'
  BY <1>1, NothingEnds, OtherStep DEF AccessExpires, IInv
<1>2. ASSUME NEW u \in Users, EndElsewhere(u) PROVE IInv'
  BY <1>2, EndFacts, OtherStep DEF EndElsewhere, IInv
<1>3. CASE UNCHANGED vars
  BY <1>3, NothingEnds, OtherStep DEF vars, IInv
<1>4. QED
  BY <1>1, <1>2, <1>3, SendStep, DeliverStep, LoginStep, LogoutStep, CallStep,
      ChangePasswordStep DEF Next

\* The inductive invariant of the cookies.
THEOREM CookiesInvariant == Spec => []IInv
<1>1. IInv /\ [Next]_vars => IInv'
  BY NextInv
<1>2. QED
  BY InitInv, <1>1, PTL DEF Spec

\* Auth/controller.ts: the access cookie and the refresh cookie are of one session, unless an
\* answer that was under way beside the one that wrote the latter came after it.
THEOREM CookiesAlwaysAgree == Spec => []CookiesAgree
<1>1. IInv => CookiesAgree
  BY DEF IInv
<1>2. QED
  BY <1>1, CookiesInvariant, PTL

\* Auth/controller.ts: session_info tells of the login whose refresh token the browser holds,
\* but after a change of password.
THEOREM InfoAlwaysTells == Spec => []InfoTells
<1>1. IInv => InfoTells
  BY DEF IInv
<1>2. QED
  BY <1>1, CookiesInvariant, PTL

\* Auth/service.ts and authenticate: the refresh cookie of a browser is the stored one until
\* its session is ended, unless another login of the same user has stored its token: one that
\* has met it, has yet to arrive, or ended without cookies.
THEOREM RefreshCookiesWork == Spec => []RefreshCookieWorks
<1>1. ASSUME IInv PROVE RefreshCookieWorks
  <2> DEFINE l == jar["refresh"]
  <2> SUFFICES ASSUME Is(l, {"login"}), l \notin ended
               PROVE  stored[req[l].user] = l \/ \E s \in Requests : Rivals(s, l)
    BY CookieAssumption DEF RefreshCookieWorks, Rivals, Is
  <2>1. l \in Requests /\ req[l].kind = "login"
    BY <1>1 DEF IInv, JarIsDelivered, Cookies, Is
  <2>2. QED
    BY <1>1, <2>1 DEF IInv, LoginsWork
<1>2. QED
  BY <1>1, CookiesInvariant, PTL
=============================================================================
