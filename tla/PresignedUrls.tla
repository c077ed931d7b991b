---------------------------- MODULE PresignedUrls ----------------------------
(***************************************************************************)
(* The URLs of profile pictures.  The bucket is private, so a client gets  *)
(* a presigned URL, which R2 honours for Validity.  resolveProfilePicture- *)
(* Url keeps the last one signed for a key in Redis for CacheTtl, which is *)
(* shorter; updateProfile deletes the old picture's entry.  Neither write  *)
(* is waited for, and the Redis client never gives a command up: it queues *)
(* what it cannot send, and sends again what was not answered, until the   *)
(* connection is back.                                                     *)
(*                                                                         *)
(* ProfilePictures models the files.  ProfilePicturesProofs extends both,  *)
(* so that this module has names of its own for its specification.         *)
(***************************************************************************)
EXTENDS Integers

CONSTANTS
    Reads,      \* logins and GET /auth/me requests, each of which may be repeated
    Updates,    \* PATCH /auth/profile requests with a picture; u stores the picture u
    First,      \* the picture the user has to begin with
    Validity,   \* how long a presigned URL works: 15 minutes
    CacheTtl,   \* how long Redis keeps one: AUTH_TTL.PRESIGNED_URL_CACHE, 10 minutes
    MaxOutage,  \* the longest a SET waits before Redis executes it
    MaxReply,   \* the longest a URL is under way from Redis to the client
    Restarts,   \* may the process end and start again?
    MaxTime     \* bound on the clock

ASSUME UrlAssumption ==
    /\ Reads \cap Updates = {} /\ First \notin Reads \cup Updates
    /\ {Validity, CacheTtl, MaxOutage, MaxReply, MaxTime} \subseteq Nat
    /\ Restarts \in BOOLEAN

VARIABLES
    now,
    current,    \* User.profilePictureKey
    cache,      \* Redis: the time each cached URL was signed at, and the time it goes
    filling,    \* SETs not answered: the key, and the time the URL was signed at
    evicting,   \* DELs not answered
    request,    \* what each request waits for
    replaced    \* history: pictures that have been replaced

urlVars == <<now, current, cache, filling, evicting, request, replaced>>

UrlRequests == Reads \cup Updates
Pictures == Updates \cup {First}
NoEntry == [signed |-> 0, until |-> 0]     \* nothing, since it is never unexpired
Idle == [stage |-> "idle", key |-> First, signed |-> 0, since |-> 0]

UrlInit ==
    /\ now = 0
    /\ current = First
    /\ cache = [k \in Pictures |-> NoEntry]
    /\ filling = {} /\ evicting = {}
    /\ request = [r \in UrlRequests |-> Idle]
    /\ replaced = {}

Cached(k) == now < cache[k].until

RequestTo(r, stage, k) ==
    request' = [request EXCEPT ![r] = [stage |-> stage, key |-> k, signed |-> 0, since |-> 0]]

Respond(r, signed) ==
    request' = [request EXCEPT ![r].stage = "serving", ![r].signed = signed, ![r].since = now]

-----------------------------------------------------------------------------
(* The requests.                                                           *)

\* The request reads the user, and asks Redis for the URL of the picture it found.
Read(r) ==
    /\ r \in Reads /\ request[r].stage = "idle"
    /\ RequestTo(r, "asking", current)
    /\ UNCHANGED <<now, current, cache, filling, evicting, replaced>>

\* updateProfile reads the user, uploads the picture and starts the eviction of the old
\* one; only then does it write the user.
BeginUpdate(u) ==
    /\ u \in Updates \ (replaced \cup {current}) /\ request[u].stage = "idle"
    /\ RequestTo(u, "writing", current)
    /\ evicting' = evicting \cup {current}
    /\ UNCHANGED <<now, current, cache, filling, replaced>>

Write(u) ==
    /\ u \in Updates /\ request[u].stage = "writing"
    /\ current' = u
    /\ replaced' = replaced \cup {current}
    /\ RequestTo(u, "asking", u)
    /\ UNCHANGED <<now, cache, filling, evicting>>

\* Redis evaluates the GET.  If it fails, the URL counts as not cached.
Hit(r) ==
    /\ request[r].stage = "asking" /\ Cached(request[r].key)
    /\ Respond(r, cache[request[r].key].signed)
    /\ UNCHANGED <<now, current, cache, filling, evicting, replaced>>

Miss(r) ==
    /\ request[r].stage = "asking"
    /\ RequestTo(r, "signing", request[r].key)
    /\ UNCHANGED <<now, current, cache, filling, evicting, replaced>>

\* Signing needs no network.  The SET is sent and the response goes out.
Sign(r) ==
    /\ request[r].stage = "signing"
    /\ Respond(r, now)
    /\ filling' = filling \cup {[key |-> request[r].key, signed |-> now]}
    /\ UNCHANGED <<now, current, cache, evicting, replaced>>

\* getPresignedUrl throws: the response has no URL.
SignFails(r) ==
    /\ request[r].stage = "signing"
    /\ request' = [request EXCEPT ![r] = Idle]
    /\ UNCHANGED <<now, current, cache, filling, evicting, replaced>>

Serve(r) ==
    /\ request[r].stage = "serving"
    /\ request' = [request EXCEPT ![r] = Idle]
    /\ UNCHANGED <<now, current, cache, filling, evicting, replaced>>

-----------------------------------------------------------------------------
(* Redis.  A command whose answer is lost is sent, and executed, again.    *)
(* Operators no action uses are faulty variants of the one after them.     *)

EntryKeepsPace(p) == [signed |-> p.signed, until |-> now + Validity]

EntryFor(p) == [signed |-> p.signed, until |-> now + CacheTtl]

Fill(p) ==
    /\ cache' = [cache EXCEPT ![p.key] = EntryFor(p)]
    /\ filling' \in {filling, filling \ {p}}
    /\ UNCHANGED <<now, current, evicting, request, replaced>>

Evict(k) ==
    /\ cache' = [cache EXCEPT ![k] = NoEntry]
    /\ evicting' \in {evicting, evicting \ {k}}
    /\ UNCHANGED <<now, current, filling, request, replaced>>

\* The process ends, and with it what its client had queued.
Lose ==
    /\ Restarts
    /\ filling' \in SUBSET filling /\ evicting' \in SUBSET evicting
    /\ request' = [r \in UrlRequests |-> Idle]
    /\ UNCHANGED <<now, current, cache, replaced>>

\* Time passes, but no further than a SET or a response may be late.
Tick ==
    /\ now < MaxTime
    /\ now' = now + 1
    /\ \A p \in filling : now < p.signed + MaxOutage
    /\ \A r \in UrlRequests : request[r].stage = "serving" => now < request[r].since + MaxReply
    /\ UNCHANGED <<current, cache, filling, evicting, request, replaced>>

UrlNext ==
    \/ \E r \in UrlRequests :
        \/ Read(r) \/ BeginUpdate(r) \/ Write(r)
        \/ Hit(r) \/ Miss(r) \/ Sign(r) \/ SignFails(r) \/ Serve(r)
    \/ \E p \in filling : Fill(p)
    \/ \E k \in evicting : Evict(k)
    \/ Lose
    \/ Tick

UrlSpec == UrlInit /\ [][UrlNext]_urlVars

-----------------------------------------------------------------------------
(* Properties                                                              *)

\* Every variable has its type (service.ts:302-319, 379-386; redisService.ts:58-74).
UrlTypeOK ==
    /\ now \in Nat
    /\ current \in Pictures /\ replaced \subseteq Pictures
    /\ cache \in [Pictures -> [signed : Nat, until : Nat]]
    /\ filling \subseteq [key : Pictures, signed : Nat]
    /\ evicting \subseteq Pictures
    /\ request \in [UrlRequests ->
        [stage : {"idle", "writing", "asking", "signing", "serving"},
         key : Pictures, signed : Nat, since : Nat]]

\* redisService.ts:57 "a cached URL is always still valid when it is served to a client":
\* as long as a response may be under way, the URL in it works, whether it was signed for
\* the response or comes from the cache.
ServedUrlsAreValid ==
    \A r \in UrlRequests : request[r].stage = "serving" => now < request[r].signed + Validity

\* service.ts:311 "15 min validity - always longer than the 10 min cache TTL": by more than
\* the delays.
LifetimesFit == 0 < CacheTtl /\ CacheTtl + MaxOutage + MaxReply <= Validity

\* Inductive: a SET is no older than MaxOutage, so the entry it makes goes at most CacheTtl
\* later; and a response found its URL before that, at most MaxReply ago.
FillsAreFresh == \A p \in filling : p.signed <= now /\ now <= p.signed + MaxOutage
EntriesEndInTime == \A k \in Pictures : cache[k].until <= cache[k].signed + MaxOutage + CacheTtl
ResponsesAreFresh ==
    \A r \in UrlRequests : request[r].stage = "serving" =>
        /\ request[r].since < request[r].signed + Validity - MaxReply
        /\ now <= request[r].since + MaxReply

\* What every reachable state satisfies if the lifetimes fit (service.ts:302-319).
UrlInv == UrlTypeOK /\ FillsAreFresh /\ EntriesEndInTime /\ ResponsesAreFresh

-----------------------------------------------------------------------------
(* What the documents say and the code does not do: README.md shows, for   *)
(* each, how to see it fail.                                               *)

\* redisService.ts:57-58 "Invalidated immediately when a user's profile picture is
\* replaced": once its DEL has been answered, a replaced picture has no entry.
ReplacedMeansEvicted == \A k \in replaced : Cached(k) => k \in evicting
=============================================================================
