# Verification of talkhead-backend

TLA+ models of the parts of the Talkhead backend that keep state shared between
requests, jobs, callbacks and restarts; TLC configurations that check them on small
instances; and theorems, checked by TLAPS, that hold for every value of the constants.
Paths are relative to the repository; `Gen` abbreviates
`src/App/Core/Generation`, `Auth` `src/App/Auth`, `Queue` `src/Config/queue`.

## 1. The system

An Express server, one Node.js process. A user submits a *generation* (an avatar image,
a script or an audio file); the backend stores it in MongoDB, enqueues a BullMQ job in
Redis, and a worker in the same process hands the record to an external API, which works
for minutes and then calls back. Files live in Cloudflare R2 and are listed in a
FileRecord collection. Sessions are JWTs, with one refresh token per user in Redis.

Nothing in it is transactional. Between any two `await`s of a handler every other handler,
the worker and the event listeners may run; several updates are started and never awaited;
the process may be restarted at any time, and its shutdown hook stops the HTTP server but
not the worker.

| Component | State | Operations | Module |
|---|---|---|---|
| Generations and their queue (`Gen/service.ts`, `Queue/`, `App/Queue/`) | Generation.status, QueueJob, BullMQ job | create, cancel, delete, admin update, callback; QueueJob cancel; worker, events, retries, stalls | `GenerationQueue` (with `BullQueue`, `GenerationPromise`) |
| Files of generations (`Gen/controller.ts`, `App/File`, `Utils/file/upload.ts`, `Config/cleanup`) | R2 objects, FileRecords, references in the document | upload, track, setFileRefs, output of the API, delete, cleanup | `GenerationFiles` (with `FileStore`) |
| Avatar library (`App/Avatar`, `App/File`, `Config/cleanup`) | Avatar, its files | create, update, delete with its cascade, uploads for an avatar, cleanup of custom ones | `AvatarLibrary` |
| Profile pictures (`Auth/service.ts`, `Auth/social`) | User.profilePicture, object, record | updateProfile, linking by social login, file manager, deletion of the user | `ProfilePictures` |
| URLs of profile pictures (`Auth/service.ts:302`, `Auth/redisService.ts`) | cache of presigned URLs in Redis | resolve, update, expiry | `PresignedUrls` |
| Temporary uploads (`Utils/file`, `Utils/helper/sendResponse.ts`, `bootstrap.ts`) | `temp-uploads/` | multer, upload to R2, answer, restart | `TempUploads` |
| Account sessions (`Auth/service.ts`, `App/Admin/service.ts`) | User, `auth:refresh:<uid>` | logins, logout, changes of password, role, activity, deletion | `AccountSessions` |
| Session cookies (`Auth/controller.ts`, `Auth/const.ts`, `Middlewares/Auth`) | `access_token`, `refresh_token`, `session_info` of a browser | login, claim, logout, refresh, silent refresh, changePassword, and their answers | `SessionCookies` |
| Accounts and one-time tokens (`Auth/service.ts`, `Auth/social`, `App/Admin/service.ts`) | `auth:verify`, `auth:reset`, `auth:social-code`; the User's address, and whether it is verified | registration, createUser, issue, mail, expiry, use, change of address, deletion | `OneTimeTokens` |
| Authentication (`Middlewares/Auth`, `Auth/utils.ts`, `Config/socket/middleware.ts`) | access and refresh tokens in circulation | HTTP requests, silent refresh, socket handshake | `Authentication` |
| List endpoints (`Utils/helper/queryOptimize.ts` and its five callers) | the collection, a client's walk through it | query, page, writes of others | `ListQuery` |
| Not modelled | | see section 7 | |

How they interact: `Gen` calls `Queue` (enqueue, remove) and `App/File` (upload, track,
delete); the worker and the callback call back into `Gen/service.ts`; the callback emits to the
owner's socket room; the daily cleanup job deletes what `Gen` and `Avatar` created;
`Admin` and `Auth` write users in MongoDB and revoke their sessions in Redis, two systems that no
transaction joins; `Authentication` reads what they leave.

What is hard, and what makes each component correct:

* **Generations.** Three documents describe one job and are written by five actors, each after
  awaits. Correct means: no status without a cause, a deleted generation stays deleted, a cancel
  that succeeds has stopped the job, the (paid) external API runs a record a bounded number of
  times, the owner is told only what happened, and every job ends.
* **Files.** Uploads outlive the request that enqueued the job; references and deletions race.
  Correct means: what a document refers to exists, what users share is never deleted, and nothing is
  left behind without a reason.
* **Sessions and tokens.** MongoDB is written first and Redis later. Correct means: a
  revoking change ends the sessions that preceded it, and everything that survives is known, with
  its cause and its duration; a password is written only by who knew the one it replaces; an address counts as
  verified only if somebody vouched for it.
* **Cookies.** A browser sends what it holds and applies the answers as they come. Correct means: its three
  cookies speak of one session, and that session is the stored one.
* **Caches and lists.** An answer composed of parts that were read at different times must still be usable:
  a URL that works, a walk that misses nothing, a page that shows nothing of others.

`PROJECT.json` lists the hazards one by one, at the lines where they bite.

## 2. From code to models

One action is what runs between two awaits: reading and writing at an `await` is one step,
everything after it is another, and the local variables of a handler in between are part of the
state (its stage, and what it read). Calls that are started without being awaited are actions of
their own. A call to R2, MongoDB or Redis that may fail has a failing action; a failed write may or may not have
happened where the code cannot tell (`EnqueueFails`, `TriggerFails`, `DeleteFails` of a token).
Requests that are refused before they write anything change no state and mostly have no step;
those of `GenerationQueue` use up their request (`Ended`).
Definitions named after a plausible bug (`RollBackForgets`, ...), each placed before the
definition it varies, are faulty variants that no action uses: put in the place of the original,
they make the checks fail, which shows that the properties can fail.

**`BullQueue`** is the contract of BullMQ as `Queue/index.ts` uses it: the job id is the record
id; waiting, active, delayed, completed, failed; attempts with a backoff; a job whose worker died is
requeued `MaxStalls` times (the library's `maxStalledCount`) and then failed; `remove` throws for an active
job and is silent for a missing one. A job may be found stalled only when nothing runs it: a handler that is
alive renews its lock. Finished jobs are kept (the code evicts them by age and count, which
no property can see, since ids are never used twice).

**`GenerationQueue`**: `gen`, `job`, `bull` are the three documents; `creator`, `worker`, `req`, `events`
are the program counters of `create`, of the processor, of requests, and the un-awaited updates of the
worker's listeners. `Create(g)` is `GenerationService.create` with `QueueUtil.enqueue` and its roll-back;
`Work(g)` the BullMQ worker with `handleGenerationJob`, in test mode too; `ApplyEvent`/`EventLost` the
listeners; `Receive(r)`/`Continue(r)` the five requests up to and after their first await; `Crash` the end of the
process with everything in memory. `causes` and `told` are history variables: what has justified a
status, and what was emitted. Which user asks is a choice (`mayAct`); labels, messages, durations are left out.
Of a request that is over only one thing is kept, that it was a cancel which withdrew its job; whether any other was answered,
refused or cut off by a crash tells nothing apart. A `create` that throws is *threw* if the delete of its catch was answered and
*rollbackFailed* if that was rejected too. The un-awaited updates of one job in flight are at most `MaxUpdates`: the next listener
waits for one of them to settle.
`enqueue` passes `attempts: undefined` beside the queue's default of 3 attempts; which of the two BullMQ then uses is
the library's decision, and `MaxAttempts` a parameter.

**`GenerationPromise`** is the abstract specification: submit, learn, show, dictate, run, stop, delete, for
one generation at a time, with no queue. `GenerationQueue` implements it with `doc = gen`, `evidence = causes`,
`runs = triggers`, `stopped` = the job is removed, `Budget = MaxAttempts + MaxStalls`.

**`FileStore`** holds R2 objects and FileRecords, with `put`, `delete` and the insert of a record; a key is
never used twice (`generateR2Key`). `R2Fails` says which calls may reject. A deletion that nobody waits for
(`dropping`) is a step of its own. Several objects deleted with `Promise.all`
go in one step, or only some of them if R2 fails.

**`GenerationFiles`**: the two parallel uploads of `create` with their tracking, `refIds` and the un-awaited
`setFileRefs`; the output of the external API, which may call back twice, and its link; the
deletion by the user and `cleanupGenerations`, both of which read, then delete objects, records, documents; the file manager.
A request chooses test mode, its own image or a library avatar's, and audio or none.

**`AvatarLibrary`**, **`ProfilePictures`**, **`TempUploads`** follow the same scheme for their handlers: see the head of
each module. Days passing is a step that may come at any time (`Age` of
`GenerationFiles`), or a choice of what the cleanup finds (`AvatarLibrary`).

**`PresignedUrls`** has a clock. A command to Redis (the SET of the cache, the DEL of an update) is sent and not awaited; the
client queues and repeats it, so that it may be executed late and, after a lost answer, twice.
Commands of different requests may be reordered in the model, which over-approximates one connection.

**`AccountSessions`** has the one stored refresh token, the requests that read the user, then write,
then revoke, and a clock of seconds, because a refresh token is identified by its claims and the second of its
signature. A password is named after the request that set it; a changePassword may be sent with any that
was ever set (`sent`), and fails unless that is the one it reads. `since` and `during` are history: the changes written since
the session's login read the user, and those written while a request was under way.
**`SessionCookies`** has the cookie jar of one browser. A cookie is the request whose answer wrote it; a request carries the
jar as it was when it was sent, and its answer is applied when it arrives, if it does; one without cookies is over at once, for it changes nothing. A login stores its token first
(`LoginStores`, for Google in the callback) and is answered later (`LoginAnswers`, for Google at the claim of its code), with cookies
or without; the other requests are handled in one step, since their races in the server are in `AccountSessions` and
`Authentication`. The tokens of different logins are different there.
**`OneTimeTokens`** has one account, from registration or createUser to its deletion, its tokens in Redis and the
requests that issue, use and delete them. Mails are sent to the address that their request read; `proven` is history: the
addresses that their owner, Google or an administrator vouched for. With `CallsFail`, Redis, MongoDB and the mail server may reject. A DEL that
rejects may have deleted its key, and a reset waits for two of them with one `Promise.all`: a request that answers 500 has deleted its
token (*deleted500*) or not (*failed500*).
**`Authentication`** looks at how long tokens live on, and abstracts what ends a session to one step, but for what carries the role:
a login reads the user (`ReadUser`), compares the password or saves the link, and then signs and stores (`Login`); changeUserRole writes the
user (`Demote`) and then deletes the session (`RevokeDemoted`). Logins are in different seconds there, and a role changes once,
from admin to user. `overtaken` is history: the logins that had read the admin role and had yet to store their token when the session
was deleted. Its times are relative: an access token lives 2, a refresh
token 3 units; only the order of the two and their sum matter.

**`ListQuery`** has a collection of numbered documents with three attributes, the conditions each endpoint adds, and
a client that asks page after page: `Count` and `Find` run in parallel, others write in between. Two
documents never have the same `createdAt`.

## 3. The runs

Every run is `tlc -config <Run>.cfg MC<Module>.tla`. `CHECK_DEADLOCK FALSE` throughout: each request is made at most once, so
every bounded instance ends. Sizes are distinct states.

| Run | Instance | States | Shows |
|---|---|---|---|
| `GenerationRaces` | 1 generation, 2 requests of all 5 kinds, 2 attempts, 1 stall, 1 crash, MongoDB fails | 2.2 M | the safety invariants of `GenerationQueue`, and the refinement of `GenerationPromise` |
| `GenerationProgress` | 2 generations (one in test mode), 1 slot, 2 attempts, 1 stall, 2 crashes, fairness | 667 k | `IInv` through retries, crashes and stalls; every job leaves the queue for good; a generation stays pending only if a crash kept its job out of the queue, or the job stalled too often |
| `GenerationFilesRaces` | 1 generation of every kind, two deletions by the user, the cleanup, the file manager, R2 and MongoDB fail, 1 crash | 4.3 M | success is answered only when all files are stored; no reference without its file, no shared image deleted, no input record out of reach but by two deletions that overlap |
| `AvatarLibraryRaces` | 2 avatars for 1 slug, an attached file, an update, failing uploads and MongoDB, 1 crash | 2.3 M | files of avatars stay, those of expired ones go |
| `ProfilePictureRaces` | 3 updates, a linking login, failing uploads and MongoDB, 1 crash | 1.5 M | the picture shown exists; leftovers only with an overlap or a crash |
| `PictureUrls` | 1 reader, 1 update, restarts, delays up to a quarter of the cache lifetime | 1.2 M | no URL is served after it has expired |
| `TempFileRaces` | a generation with two files, a picture, a file; R2 and MongoDB fail, 2 crashes | 112 k | temporary files outlive their request only after a crash; stored parts are tracked or there is a cause |
| `AccountSessionRaces` | 3 requests of all 11 kinds, 2 seconds, Redis fails, 1 crash | 683 k | what can survive a revoking change; a changePassword overwrites a newer password only if that was written while it ran |
| `OneTimeTokenRaces` | 4 requests of all 11 kinds, Redis, MongoDB and mail fail, 1 crash | 2.2 M | links that were sent work; second uses overlap; no address counts as verified without cause |
| `CookieRaces` | 2 users of a browser, 4 requests of all 5 kinds, 3 at once, Redis fails | 2.3 M | when the three cookies can disagree, with one another and with the stored session |
| `SessionEndings` | 2 logins, 2 requests, 6 units of time | 5.3 M | how long tokens outlive the end of their session, and a role its loss |
| `ListWalks` | up to 3 documents, 1 a page, all endpoints and queries | 857 k | walks miss nothing that matched all along; nobody sees the documents of others |

Why these bounds are enough for the questions asked (the theorems of section 5 hold without them):

* In `GenerationQueue` records share nothing but the worker's slots. One generation therefore shows every
  interleaving on its documents, and two with one slot show the competition for it.
  Two requests suffice for each pair of kinds, among them two contradicting callbacks and a cancel against the
  queue's own. Two attempts are the first retry, and a crash is what makes a job stall; the safety theorems hold for any number of attempts,
  stalls, requests, generations and crashes. With a crash and a stall `TriggerBudget` is tight: three acceptances are reached.
* `MaxUpdates` is 2 in `GenerationRaces`: two updates of a job are the least that can overtake each other. A job never has more than 4 in
  flight there, and with 5 the run passes as well, on 3.1 M states in half as much time again. In `GenerationProgress` it is 1: updates of the QueueJob change nothing that is asked there, and each settles.
* `GenerationProgress` has no users' requests: each of them only removes jobs or changes statuses, and the property
  would then hold by what it excepts. With two attempts and one stall a job waits, runs, fails, backs off, is retried, stalls, is
  requeued and is failed, in any order, while the other one wants its slot. A refused or lost trigger is what makes an attempt fail,
  and for the one in test mode `TestFails`; other failing writes would only add to them, and `MongoFails` is FALSE.
* The files of different generations have different keys but for the avatar's image and the test output, both of which are
  there with one generation. Two deletions by the user are the least that can overlap, and the third that deletes, the cleanup,
  is there as well; they are symmetric. The file manager removes an image, since audio and output are removed alike.
* Three updates of a picture are the first number at which a deletion, an upload and an update can be those of
  three requests. Two avatars suffice for one conflict.
* In `AccountSessionRaces` three requests are a login, a change and another login or change; two seconds are
  the same one and another one.
* Four requests in `OneTimeTokenRaces` are two issues and two uses, the least at which
  a use of an old link meets a new one; or a creation, an issue, a move of the address and a use.
* Four requests in `CookieRaces` are two logins, each stored before it is answered, a logout or a change, and a call that is refreshed while they run;
  with three at once, an answer can overtake two others.
* In `SessionEndings` two logins are one before and one across a demotion; six units are a refresh token and an access token from it, and one more.
* `PictureUrls`: Validity 6, CacheTtl 4, that is a unit of 150 seconds for 15 and 10 minutes; delays of one unit each are as
  long as the theorem's hypothesis `LifetimesFit` lets them be.
* `TempFileRaces`: of requests only the generation has two parts; the second crash comes after a start that
  cleans up.
* `ListWalks`: with one document a page, three documents make a page before, at and after the one that changes.

Symmetry is used for requests, logins and avatars, never in a run that checks liveness.

## 4. Fairness

Liveness assumes what goes on by itself: an awaited call settles (`Create`, `Continue`, `Creation`,
`Delete`), BullMQ hands out jobs, ends backoffs and finds stalled jobs (`Work`), un-awaited updates settle
(`ApplyEvent`, `FindOutput`, `LinkOutput`, `DropObject`), and the repeated cleanup runs again
(`CleanupReads`). Weak fairness is enough, since none of these is disabled by others but for good: with one slot and another job
running, `PickUp` is disabled again and again, but each job leaves the slot after finitely many attempts and never
comes back. Nothing is assumed of users, callbacks of the external API, crashes (bounded by `MaxCrashes`) or the passing of days.
Both properties are of the form `<>[]`: jobs and generations are finitely many, none enters the queue twice or becomes pending again, so that
this says of all together what `~>` would say of each.
`PendingResolves` has two exceptions, and fails without either: nothing in the code looks for a generation whose
process died between `GenerationModel.create` and `queue.add`, nor for one whose job BullMQ failed because it had stalled
too often before its handler marked it as processing. Both then stay pending for good.

## 5. What is proved

`GenerationQueueProofs` proves `Spec => []IInv` (`InductiveInvariant`) for all sets of generations and requests, any
concurrency, attempts, stalls and crashes, from the named assumptions on the constants
(`BullAssumption`, `GenerationAssumption`). The safety properties are not inductive; the parts of `IInv` that
are added say why they hold:

* `NothingBeforeCreate`: ids are fresh, so the roll-back deletes what this request inserted (and nothing inserts it again);
* `HandlerHoldsTheJob`: an invocation of the processor runs only while its job is active (this is why a removed
  job is not running, `CancelStopsTheJob`, whichever of the two cancels removed it), and what it is about to write is
  already in `causes`;
* `RequestHoldsItsCause`: the same for the second half of a request, which writes what it decided before its
  await, whatever has happened meanwhile;
* `CompletionFollowsAcceptance`: the un-awaited events of a job carry *completed* only after an acceptance;
* `TriggersArePaidFor`: triggers are at most attempts made plus stalls, plus one while a handler is past the
  trigger.

`FailedCreateLeavesNothing`, which is itself part of `IInv`, says that a roll-back that was answered is final: no worker, callback or
request that still knows the id writes the document back. A roll-back that is rejected leaves it, and the property excepts that.

From it follow `TypeCorrect`, `RollBackIsFinal`, `CancelIsEffective`, `TriggersAreBounded`, `StatusesAreJustified`,
`CompletedJobsWereAccepted` and `EmitsAreTruthful`. The proof of each step has one case per action.

It also proves `Spec => Promise!Spec` (`Refinement`): under `IInv` every action is one of the
abstract actions or a stutter; and `DeletedStaysDeleted`, an action property, from the same cases.

`GenerationFilesProofs` proves `[]AnsweredMeansStored`, `[]AvatarImageSurvives`, `[]RefsAreBacked` and `[]InputRecordsAreInReach` from
`FilesAssumption` and the assumption of `FileStore`, for any generations and deletions, with any calls failing. A
reference is right for different reasons in turn: while it is in the memory of the request that uploaded the file, in the un-awaited
save, in the document, in what a deletion has read. The invariant has a part for each, and one that says which keys a deletion
may hold at all: those of its own generation, and never the avatar's. `LostInputsAreInReach` is the hard one. A record without its
object is reached by the references of its document, or by a deletion that is at it; what is left is two deletions of which
one takes the document away from the other, whose own calls then fail: neither comes back for the record. TLC showed that case when the
run had two deletions, and the property names it.

`ProfilePicturesProofs` proves `[]PictureIsStored` and `[]OrphansNeedOverlap` of `ProfilePictures`. The first rests on
two facts: an old picture is deleted only after the new one is uploaded, by a request that still goes on to write the user or has
failed to (`ForgettingFollowsUpload`; so the code and the comment in `updateProfile`, while the JSDoc above it,
`Auth/service.ts:340`, has the old object deleted first); and once it has written, the old picture never comes back, since no request writes
twice (`ReplacedStaysReplaced`). The second has the hypothesis `"delete" \notin R2Fails`, which its run has too:
a deletion that R2 refuses is logged and forgotten (`Auth/service.ts`), and leaves the object without any overlap. Under it, every
stored object that is nobody's picture is still to be deleted by its writer, or a request has noted the overlap
(`WritersDelete`, `ReplacedIsDeleted`, `OverlapsAreNoted`).
For the cache of their URLs, it proves `[]ServedUrlsAreValid`, by the inductive `UrlInv`, from `UrlAssumption` and `LifetimesFit`
(`CacheTtl + MaxOutage + MaxReply <= Validity`): the code's two lifetimes differ by five minutes, and the theorem says what
that margin pays for. `MaxOutage` is an assumption about Redis that nothing in the code enforces (section 6 shows what happens
beyond it). The invariant bounds the age of a pending SET, of an entry and of a response in turn.

`AvatarLibraryProofs` proves `[]FilesOfAvatarsSurvive` and `[]ExpiredLeavesNothing` of `AvatarLibrary`, for any avatars, slugs,
files and requests; the second under `"delete" \notin R2Fails`, as in its run. A cascade keeps to the files of its avatar, which is
removed by then, and every other deletion to what somebody asked for (`DeletionsKeepToTheirOwn`); a document comes only from a
create that is over, so that it never returns to files of an earlier one (`DocumentsAreCreated`). The cleanup deletes the
document last, when objects and records have gone (`CleanupIsThorough`); a crash in between leaves the document to the next run.

For the temporary files of uploads it proves `[]OnlyCrashesLeaveFiles` and `[]UntrackedHasACause` for any number of requests,
parts and crashes; it needs no assumption on the constants. The second is not inductive: `UploadTooLate` stores a part and
forgets it, which is right only if another part has failed before. `PutsHaveFiles` says so: an upload loses its file only after a
failed sibling. That in turn needs that no answer comes while an upload runs unless one has failed (`PutsAreUploading`, with
`LastUpload`), that nothing is uploaded before `StartUploads` (`EarlyUploadsNothing`), and that `cleanupTempFiles`
meets no live request (`LiveIsUp`).

`OneTimeTokensProofs` proves `[]TypeOK`, `[]SecondUsesOverlap`, `[]SentTokensWork` and `[]AddressesAreProven` from `TokenAssumption`. A second use that
begins after the first ended finds nothing because a use that came to its end has deleted its token (`SpentIsGone`), and nothing
stores a token twice (`SentIsDone`). A token that was sent is lost only to a use that its issuer has met: whoever uses another token of
its key was under way when it was stored (`OlderUsesAreKnown`). That use has ended, with 200 or, if one of its two DELs failed, with 500:
either way it took the new token along. For addresses: nothing is mailed to an address before the account has it
(`MailsFollowMoves`), so that a token that verifies was mailed to the present address, or the account has been moved since.

`AccountSessionsProofs` proves `[]SessionsAreRevoked`, `[]RevokedStaysRevoked` and the action property `ChangesProveThePassword`
from `SessionAssumption`. `LoginsKnow` is what makes the first inductive: whatever outdates a login that has yet to store its
token was written while it was under way. For the second, tokens are revoked no earlier than they are signed
(`RevokedInOrder`), so that a token of this second can only have been revoked in this second. For the third, a change compares equal
with the password until it writes, or knows the write that has made its comparison stale (`ComparedOrOutdated`).

`SessionCookiesProofs` proves `[]CookiesAgree`, `[]InfoTells` and `[]RefreshCookieWorks` from `CookieAssumption`, for any number of users and
of requests under way. A request carries the refresh cookie of the browser unless it met the answer that wrote another
(`SentCarryTheJar`), and the access token it is answered with is of that session (`RenewalsFollow`); that two requests under
way know of each other (`UnderWayMeet`) carries this over every delivery. A session is stored until it is ended or another
login of the user takes its place (`LoginsWork`): one that is answered later or never, since it is stored before it is answered.

`AccessProofs` proves `[]EndingsTakeHold`, `[]LoginsEnd` and `[]AdminPowersEnd` from `TtlAssumption`, for any lifetimes. `TokensFit` bounds
every access token by the end of its session, by its refresh token and by a demotion that is complete; a request that
signs has found the session stored, and it is stored still or the request is among those the exception names
(`SignersFoundIt`). What a demotion does not reach is a login that has read the user and not yet stored its token when changeUserRole
deletes the session: `DemotionsReach` says that every other session of an admin has ended by then, and the property excepts these, which
last as long as `LoginsEnd` allows.

Of the lists, `AccessProofs` proves `[]ListTypeOK`, `[]WalksFindAll` and `[]OthersStayHidden` from `ListAssumption`, for collections of any
size and pages of any length. `PagesFollow` is what a walk keeps: a document that the client has not got, and that has matched
ever since it began, has a place in the list beyond every page it asked for. Creations and edits only move it further back
(`PositionsGrow`); what would move it forward is the disturbance that the property excepts. `CountsAreRight` relates the count to
the page found beside it, in either order, so that the last page is not taken for the last too early (`LastPage`). The hypothesis
`FirstPages \subseteq {0, 1}` says that the client begins at the beginning; page 0 gets an error from MongoDB. That documents keep their owner,
also those the client has got already, is `HiddenInv`.

Every inductive invariant was checked by TLC on the instance of its run before it was proved. Components that work on the
same thing share a proof module, which extends them both: pictures and their URLs, avatars and the uploads,
authentication and the lists.

Only model-checked: the two liveness properties, `JobsDrain` and `PendingResolves` (fairness and `ENABLED` are out of TLAPS's
reach). Every other property of the runs is stated by a theorem. Clocks and crashes are bounded by constants
in the actions: the theorems hold for any value of them.

## 6. Where the documents and the code differ

Met while modelling; each is stated as a property in the last section of its module, quoting the document, and
TLC refutes it. To see one fail, add the property to the cfg of the run
(as INVARIANT if nothing else is said), with the change given. None needs a crash, and but for `FailedCreateIsRolledBack` and `LogoutRevokes` none a failure of
MongoDB or Redis: the others fail with
`MaxCrashes = 0`, `MongoFails = FALSE`, `RedisFails = FALSE` and `CallsFail = FALSE`, and all but `StoredPartsAreTracked` with `R2Fails = {}`, too.

| Property | Add to | The document says | The code |
|---|---|---|---|
| `FailedCreateIsRolledBack` | `GenerationRaces` | `Gen/service.ts:27, the DB record is rolled back | the delete of the catch may be rejected like the enqueue was |
| `StatusFlow` | `GenerationRaces` (PROPERTY) | features/generation.md:215, pending → processing → completed or failed | a refused trigger is *failed* although it is retried; late callbacks overwrite |
| `CancelledFromPending` | `GenerationRaces` (PROPERTY) | architecture/generation-flow.md:141, cancelled only while pending | `Gen/service.ts:159` saves over whatever the status has become |
| `QueueJobFailedMeansExhausted` | `GenerationRaces` | features/queue.md:61, all retries exhausted | `Queue/index.ts:115` records every failed attempt |
| `QueueJobCancelledMeansNotProcessed` | `GenerationRaces` | features/queue.md:62, before processing | `App/Queue/service.ts:93` ignores that an active job cannot be removed |
| `PendingMeansQueued` | `GenerationRaces` | generation-flow.md:135, the job is queued | `App/Queue/service.ts:95` leaves the generation pending |
| `FileRefsAreStored` | `GenerationFilesRaces` (PROPERTY), `FairSpec`, `R2Fails = {}`, `MongoFails = FALSE`, `MaxCrashes = 0` | features/generation.md:220, poll for the references to the uploaded files | `Gen/controller.ts:119` tests `refIds` in the turn in which the last upload settles, before the record of that upload exists: its reference is never saved |
| `DeleteCleansUp` | `GenerationFilesRaces` | features/generation.md:177, all files and records | `Gen/service.ts:193` goes by the references, which may be missing |
| `OutputsAreSpecific` | `GenerationFilesRaces`, `Gens = {g1, g2}` | `Config/cleanup/index.ts:50`, always generation-specific | all test generations share one object |
| `DeletedAvatarLeavesNothing` | `AvatarLibraryRaces` | features/avatar.md:147, its FileRecords and objects go | the image is recorded without an `ownerId` |
| `CascadeDeletesObjects` | `AvatarLibraryRaces` | features/file.md:182, records and their R2 files | `App/File/service.ts:118` deletes by query records whose objects it has not deleted |
| `ConflictsAre409` | `AvatarLibraryRaces` | features/avatar.md:143, 409 on conflict | the second of two that passed the check gets 500 from the unique index |
| `SystemAvatarsStay` | `AvatarLibraryRaces` | `Config/cleanup/index.ts:78`, custom avatars | :91 deletes by the ids read before |
| `ReplacedMeansEvicted` | `PictureUrls` | `Auth/redisService.ts:58`, invalidated immediately | the entry is deleted before the user is written, and can come back |
| `ServedUrlsAreValid` | `PictureUrls`, `MaxOutage = 3` | `Auth/redisService.ts:57`, always still valid | a SET delayed by more than the margin caches an expired URL |
| `StoredPartsAreTracked` | `TempFileRaces`, `MongoFails = FALSE` | `Gen/controller.ts:84`, track each | when one upload fails, the answer removes the file of the other, whose `unlinkSync` then throws |
| `RevokedIsGone` | `AccountSessionRaces` | auth-flow.md:20, instant revocation | two refresh tokens of one second are the same string |
| `SuspendedCannotLogIn` | `AccountSessionRaces` (PROPERTY) | `Auth/model.ts:40`, user cannot log in | `socialLogin` does not look at `isActive` |
| `SuspensionEndsSessions` | `AccountSessionRaces`, `RedisFails = FALSE`, `MaxCrashes = 0` | features/admin.md:143, immediately | a login under way stores its token after the suspension |
| `NoTokenKeepsTheRole` | `SessionEndings` | `App/Admin/service.ts:168`, the old role is not cached in any active JWT | a login that read the user before the change stores its token after the session is deleted |
| `LogoutRevokes` | `CookieRaces` (PROPERTY) | auth-flow.md:20, deleted on logout | `Auth/controller.ts:84` catches a failing Redis with the expired tokens, and answers 200 |
| `InfoMeansSession` | `CookieRaces` | `Auth/const.ts`, tells the frontend whether a session exists | `Auth/controller.ts:219` clears two cookies of three after a change of password |
| `DeletionRevokesTokens` | `OneTimeTokenRaces` | `App/Admin/service.ts:178`, revokes all active tokens | :184 deletes the refresh token only; reset and verification tokens and codes stay |
| `CodesAreClaimedOnce` | `OneTimeTokenRaces` | `Auth/service.ts:283`, exactly once | get and delete are two calls |
| `ResetLinksAreSingleUse` | `OneTimeTokenRaces` | auth-flow.md:30, single-use | the token goes after the password is written |
| `SearchesAreAnswered` | `ListWalks` | patterns/query-filter.md, all list endpoints | no searchable keys make an empty `$or`, a 500 |

`CleanupFinishes` of `GenerationFiles`, a liveness property, holds under `FairSpec` of 1 generation with no failures of R2 and
MongoDB and 2 crashes; it has no run of its own.

## 7. What is not modelled

* **Rate limiting** (`Middlewares/RateLimit`): the counters are express-rate-limit's and its Redis script's; the repository
  chooses keys and limits.
* **Socket rooms** (`Config/socket/handler.ts`): joining is one synchronous step of one process, and
  delivery to who is offline is not promised. What is emitted, and the handshake, are modelled.
* **Jobs of no generation** (`POST /queue`): their record ids (`QJ-...`) name no generation, so that `markProcessing`
  rejects each attempt of one of type `generation`; they share only the worker's slots with the others.
* **Labels and tags, titles, durations**: no other field depends on them.
* **Pictures of the library** in generations under way: `AvatarLibrary` and `GenerationFiles` are not composed. No code looks at
  the generations of an avatar, so that the composition would only show that.
* **Code generator, Redis JSON and search services**: nothing calls them.
* **OAuth exchange, mail, logging, Swagger, error formats, configuration**: I/O and formatting without state of their own.
* BullMQ, MongoDB, R2, Redis and multer are modelled by what the code relies on.

## 8. Plan

Done: the core (`GenerationQueue` and its refinement), files, library, pictures, sessions, cookies, accounts and tokens,
lists; a theorem for every safety property that a run checks. Next, in this order:

1. An abstract specification of a file store without orphans or dangling references, implemented by `GenerationFiles`,
   `AvatarLibrary` and `ProfilePictures` up to the causes they name.
2. Jobs of no generation, as a second kind of id in `GenerationQueue`.
3. Rate limiting as the product of its keys, and socket rooms over several processes should the backend grow to more than one.
