------------------------ MODULE ProfilePicturesProofs ------------------------
(***************************************************************************)
(* What ProfilePictures promises of the files behind profile pictures, and *)
(* PresignedUrls of the URLs they are shown by, for any number of updates, *)
(* failures and crashes.                                                   *)
(***************************************************************************)
EXTENDS ProfilePictures, PresignedUrls, TLAPS

Shown == Requests \cup {NoPicture, GooglePicture}
Asking == {"uploading", "writing"}
Written == {"writing", "updated200"}   \* its object has been put, and may be the picture
Stages == {"idle", "upload500", "notfound404", "update500", "lost"} \cup Asking \cup Written

TypeOK ==
    /\ objects \subseteq Requests /\ records \subseteq Requests /\ dropping \subseteq Requests
    /\ picture \in Shown /\ exists \in BOOLEAN
    /\ stage \in [Requests -> Stages]
    /\ before \in [Requests -> Shown]
    /\ tracking \subseteq Requests
    /\ forgetting \in [Requests -> {"nothing", "object", "record", "done"}]
    /\ link \in {"idle", "saving", "done"}
    /\ released \subseteq Requests /\ overlapped \subseteq Requests
    /\ crashes \in Nat

Forgets(q, r) == before[q] = r /\ forgetting[q] # "nothing"

\* A picture has been written by its update; so a picture that a request has read is nobody's
\* upload any more.
PicturesAreWritten ==
    /\ picture \in Requests => stage[picture] = "updated200"
    /\ \A q \in Requests : before[q] \in Requests => stage[before[q]] = "updated200"

\* The old picture is deleted after the upload of the new one, and if the update then finds no
\* user, there is none.
ForgettingFollowsUpload ==
    \A q \in Requests :
        forgetting[q] # "nothing" =>
            /\ stage[q] \in Written \cup {"update500", "notfound404", "lost"}
            /\ stage[q] = "notfound404" => ~exists

\* Pictures do not come back: each has been written once.
ReplacedStaysReplaced ==
    \A q \in Requests :
        stage[q] = "updated200" /\ before[q] \in Requests => before[q] # picture

\* An object that has been put is there, or the user or an update has deleted it.
UploadsAreStored ==
    /\ dropping \subseteq released
    /\ \A r \in Requests : stage[r] \in Written =>
           r \in objects \cup released \/ \E q \in Requests : Forgets(q, r)

StoredInv ==
    PicturesAreWritten /\ ForgettingFollowsUpload /\ ReplacedStaysReplaced /\ UploadsAreStored

\* Requests that run at the same time count as overlapped, and so does what runs, or writes the
\* picture, while a linking login is about to write it.
OverlapsAreNoted ==
    /\ \A q, r \in Running : q # r => r \in overlapped
    /\ link = "saving" =>
           /\ Running \subseteq overlapped
           /\ picture \in Requests => picture \in overlapped
    /\ picture = NoPicture => \A r \in Requests : stage[r] # "updated200"

\* Without an overlap, whoever runs has read the current picture, and deletes it before it
\* replaces it.
RunningKnowsThePicture ==
    \A q \in Running : picture \in Requests \ overlapped => before[q] = picture

Deletes(q, r) == before[q] = r /\ forgetting[q] = "object"

WritersDelete ==
    crashes = 0 => \A q \in Requests :
        stage[q] = "writing" /\ before[q] \in objects => forgetting[q] = "object"

\* What has been replaced without an overlap is deleted, or about to be.
ReplacedIsDeleted ==
    crashes = 0 => \A r \in Requests \ overlapped :
        stage[r] = "updated200" /\ r # picture =>
            r \notin objects \/ \E q \in Requests : Deletes(q, r)

OrphanInv == OverlapsAreNoted /\ RunningKnowsThePicture /\ WritersDelete /\ ReplacedIsDeleted

IInv == TypeOK /\ StoredInv /\ ("delete" \notin R2Fails => OrphanInv)

-----------------------------------------------------------------------------

\* A user without a picture of her own, and no update.
LEMMA InitInv == Init => IInv
BY PictureAssumption DEF Init, IInv, TypeOK, StoredInv, OrphanInv, PicturesAreWritten,
    ForgettingFollowsUpload, ReplacedStaysReplaced, UploadsAreStored, OverlapsAreNoted,
    RunningKnowsThePicture, WritersDelete, ReplacedIsDeleted, Running, Shown, Stages, Asking,
    Written

\* Every variable keeps its type: the steps of an update.
LEMMA UpdateType ==
    ASSUME TypeOK, NEW r \in Requests,
           Update(r) \/ TrackPicture(r) \/ ForgetObject(r) \/ ForgetRecord(r)
    PROVE  TypeOK'
<1> USE PictureAssumption DEF TypeOK, Shown, Stages, Asking, Written, StageTo, background, others
<1>1. CASE Begin(r)
  BY <1>1 DEF Begin, Overlap, Running
<1>2. CASE Upload(r)
  BY <1>2 DEF Upload, Put
<1>3. CASE UploadFails(r)
  BY <1>3 DEF UploadFails, PutThrows, Put
<1>4. CASE WriteUser(r)
  BY <1>4 DEF WriteUser
<1>5. CASE TrackPicture(r)
  BY <1>5 DEF TrackPicture, Track
<1>6. CASE ForgetObject(r)
  BY <1>6 DEF ForgetObject, ForgetTo, DeleteObjects
<1>7. CASE ForgetRecord(r)
  BY <1>7 DEF ForgetRecord, ForgetTo, Forget
<1>8. QED
  BY <1>1, <1>2, <1>3, <1>4, <1>5, <1>6, <1>7 DEF Update

\* What other requests, the file manager and the process do.
OtherStep ==
    \/ LinkFinds \/ LinkSaves \/ DeleteUser \/ Crash
    \/ \E k \in Keys : RemoveFile(k) \/ DropObject(k)

LEMMA OtherType == ASSUME TypeOK, OtherStep PROVE TypeOK'
<1> USE PictureAssumption DEF TypeOK, Shown, Stages, Asking, Written, background, others,
        Elsewhere
<1>1. CASE LinkFinds
  BY <1>1 DEF LinkFinds, Running
<1>2. CASE LinkSaves
  BY <1>2 DEF LinkSaves
<1>3. CASE DeleteUser
  BY <1>3 DEF DeleteUser
<1>4. CASE Crash
  BY <1>4 DEF Crash
<1>5. ASSUME NEW k \in Keys, RemoveFile(k) PROVE TypeOK'
  BY <1>5 DEF RemoveFile, Unfile, Forget
<1>6. ASSUME NEW k \in Keys, DropObject(k) PROVE TypeOK'
  BY <1>6 DEF DropObject, Drop, DeleteObjects
<1>7. QED
  BY <1>1, <1>2, <1>3, <1>4, <1>5, <1>6 DEF OtherStep

-----------------------------------------------------------------------------
(* StoredInv: why the picture of the user is there.                        *)

\* An update keeps it.  Upload is where the old picture's deletion begins, WriteUser where the
\* new one takes its place.
LEMMA UpdateStored ==
    ASSUME TypeOK, StoredInv, NEW r \in Requests,
           Update(r) \/ TrackPicture(r) \/ ForgetObject(r) \/ ForgetRecord(r)
    PROVE  StoredInv'
<1> USE PictureAssumption DEF TypeOK, Shown, Stages, Asking, Written, StageTo, background, others,
        StoredInv, PicturesAreWritten, ForgettingFollowsUpload, ReplacedStaysReplaced,
        UploadsAreStored, Forgets
<1>1. CASE Begin(r)
  BY <1>1 DEF Begin
<1>2. CASE Upload(r)
  BY <1>2 DEF Upload, Put
<1>3. CASE UploadFails(r)
  BY <1>3 DEF UploadFails, PutThrows, Put
<1>4. CASE WriteUser(r)
  BY <1>4 DEF WriteUser
<1>5. CASE TrackPicture(r)
  BY <1>5 DEF TrackPicture
<1>6. CASE ForgetObject(r)
  BY <1>6 DEF ForgetObject, ForgetTo, DeleteObjects
<1>7. CASE ForgetRecord(r)
  BY <1>7 DEF ForgetRecord, ForgetTo
<1>8. QED
  BY <1>1, <1>2, <1>3, <1>4, <1>5, <1>6, <1>7 DEF Update

LEMMA OtherStored == ASSUME TypeOK, StoredInv, OtherStep PROVE StoredInv'
<1> USE PictureAssumption DEF TypeOK, Shown, Stages, Asking, Written, background, others,
        Elsewhere, StoredInv, PicturesAreWritten, ForgettingFollowsUpload,
        ReplacedStaysReplaced, UploadsAreStored, Forgets
<1>1. CASE LinkFinds
  BY <1>1 DEF LinkFinds
<1>2. CASE LinkSaves
  BY <1>2 DEF LinkSaves
<1>3. CASE DeleteUser
  BY <1>3 DEF DeleteUser
<1>4. CASE Crash
  BY <1>4 DEF Crash, Running
<1>5. ASSUME NEW k \in Keys, RemoveFile(k) PROVE StoredInv'
  BY <1>5 DEF RemoveFile, Unfile
<1>6. ASSUME NEW k \in Keys, DropObject(k) PROVE StoredInv'
  BY <1>6 DEF DropObject, Drop, DeleteObjects
<1>7. QED
  BY <1>1, <1>2, <1>3, <1>4, <1>5, <1>6 DEF OtherStep

-----------------------------------------------------------------------------
(* OrphanInv: why a picture that was replaced is gone, if deletions work.  *)

LEMMA UpdateOrphan ==
    ASSUME TypeOK, StoredInv, OrphanInv, "delete" \notin R2Fails, NEW r \in Requests,
           Update(r) \/ TrackPicture(r) \/ ForgetObject(r) \/ ForgetRecord(r)
    PROVE  OrphanInv'
<1> USE PictureAssumption DEF TypeOK, Shown, Stages, Asking, Written, StageTo, background, others,
        PicturesAreWritten, StoredInv, ForgettingFollowsUpload, Running,
        OrphanInv, OverlapsAreNoted, RunningKnowsThePicture, WritersDelete, ReplacedIsDeleted,
        Deletes
<1>1. CASE Begin(r)
  BY <1>1 DEF Begin, Overlap
<1>2. CASE Upload(r)
  BY <1>2 DEF Upload, Put
<1>3. CASE UploadFails(r)
  BY <1>3 DEF UploadFails, PutThrows, Put
<1>4. CASE WriteUser(r)
  BY <1>4 DEF WriteUser
<1>5. CASE TrackPicture(r)
  BY <1>5 DEF TrackPicture
<1>6. CASE ForgetObject(r)
  BY <1>6 DEF ForgetObject, ForgetTo, DeleteObjects
<1>7. CASE ForgetRecord(r)
  BY <1>7 DEF ForgetRecord, ForgetTo
<1>8. QED
  BY <1>1, <1>2, <1>3, <1>4, <1>5, <1>6, <1>7 DEF Update

LEMMA OtherOrphan ==
    ASSUME TypeOK, StoredInv, OrphanInv, OtherStep
    PROVE  OrphanInv'
<1> USE PictureAssumption DEF TypeOK, Shown, Stages, Asking, Written, background, others,
        Elsewhere, PicturesAreWritten, StoredInv, Running,
        OrphanInv, OverlapsAreNoted, RunningKnowsThePicture, WritersDelete, ReplacedIsDeleted,
        Deletes
<1>1. CASE LinkFinds
  BY <1>1 DEF LinkFinds
<1>2. CASE LinkSaves
  BY <1>2 DEF LinkSaves, NoPicture, GooglePicture
<1>3. CASE DeleteUser
  BY <1>3 DEF DeleteUser
<1>4. CASE Crash
  BY <1>4 DEF Crash
<1>5. ASSUME NEW k \in Keys, RemoveFile(k) PROVE OrphanInv'
  BY <1>5 DEF RemoveFile, Unfile
<1>6. ASSUME NEW k \in Keys, DropObject(k) PROVE OrphanInv'
  BY <1>6 DEF DropObject, Drop, DeleteObjects
<1>7. QED
  BY <1>1, <1>2, <1>3, <1>4, <1>5, <1>6 DEF OtherStep

-----------------------------------------------------------------------------

LEMMA NextInv == ASSUME IInv, [Next]_vars PROVE IInv'
<1>1. CASE UNCHANGED vars
  BY <1>1 DEF vars, background, others, IInv, TypeOK, StoredInv, OrphanInv, PicturesAreWritten,
      ForgettingFollowsUpload, ReplacedStaysReplaced, UploadsAreStored, Forgets,
      OverlapsAreNoted, RunningKnowsThePicture, WritersDelete, ReplacedIsDeleted, Deletes,
      Running
<1>2. ASSUME NEW r \in Requests,
             Update(r) \/ TrackPicture(r) \/ ForgetObject(r) \/ ForgetRecord(r)
      PROVE  IInv'
  BY <1>2, UpdateType, UpdateStored, UpdateOrphan DEF IInv
<1>3. CASE OtherStep
  BY <1>3, OtherType, OtherStored, OtherOrphan DEF IInv
<1>4. QED
  BY <1>1, <1>2, <1>3 DEF Next, OtherStep

\* The invariant behind both properties.
THEOREM PicturesInvariant == Spec => []IInv
<1>1. IInv /\ [Next]_vars => IInv'
  BY NextInv
<1>2. QED
  BY InitInv, <1>1, PTL DEF Spec

\* service.ts:348-386: the picture the user document names is stored, however many updates run,
\* fail or break off.
THEOREM PicturesAreStored == Spec => []PictureIsStored
<1>1. IInv => PictureIsStored
  BY PictureAssumption DEF IInv, TypeOK, StoredInv, PicturesAreWritten, ForgettingFollowsUpload,
      ReplacedStaysReplaced, UploadsAreStored, Forgets, PictureIsStored, Written
<1>2. QED
  BY <1>1, PicturesInvariant, PTL

\* service.ts:370-376: if R2 deletes what it is asked to, a replaced picture whose object stays
\* has overlapped with another request, or the process has crashed.
THEOREM OrphansDoNeedOverlap ==
    ASSUME "delete" \notin R2Fails PROVE Spec => []OrphansNeedOverlap
<1>1. IInv => OrphansNeedOverlap
  BY DEF IInv, TypeOK, OrphanInv, ReplacedIsDeleted, Deletes, OrphansNeedOverlap, Quiet
<1>2. QED
  BY <1>1, PicturesInvariant, PTL

-----------------------------------------------------------------------------
(* The URLs of the pictures (PresignedUrls).  If the cache's lifetime, a    *)
(* SET's delay and a response's delay together fit in the lifetime of a    *)
(* presigned URL, no client gets a URL that does not work, however many    *)
(* requests and pictures there are.                                        *)

\* Nothing is cached, under way or served at first.
LEMMA UrlsInit ==
    ASSUME LifetimesFit
    PROVE  UrlInit => UrlInv
BY UrlAssumption DEF UrlInit, UrlInv, UrlTypeOK, FillsAreFresh,
    EntriesEndInTime, ResponsesAreFresh, NoEntry, Idle, UrlRequests,
    Pictures, LifetimesFit

\* What a request does keeps the invariant; a response from the cache is as fresh as its
\* entry, one that signs is fresh by itself (service.ts:302-319).
LEMMA UrlsRequestStep ==
    ASSUME LifetimesFit, UrlInv, NEW r \in UrlRequests,
           \/ Read(r) \/ BeginUpdate(r) \/ Write(r)
           \/ Hit(r) \/ Miss(r) \/ Sign(r) \/ SignFails(r) \/ Serve(r)
    PROVE  UrlInv'
<1> USE UrlAssumption DEF UrlInv, UrlTypeOK, FillsAreFresh,
        EntriesEndInTime, ResponsesAreFresh, UrlRequests, Pictures
<1>1. CASE Read(r)
  BY <1>1 DEF Read, RequestTo
<1>2. CASE BeginUpdate(r)
  BY <1>2 DEF BeginUpdate, RequestTo
<1>3. CASE Write(r)
  BY <1>3 DEF Write, RequestTo
<1>4. CASE Hit(r)
  BY <1>4 DEF Hit, Respond, Cached, LifetimesFit
<1>5. CASE Miss(r)
  BY <1>5 DEF Miss, RequestTo
<1>6. CASE Sign(r)
  BY <1>6 DEF Sign, Respond, LifetimesFit
<1>7. CASE SignFails(r)
  BY <1>7 DEF SignFails, Idle
<1>8. CASE Serve(r)
  BY <1>8 DEF Serve, Idle
<1>9. QED
  BY <1>1, <1>2, <1>3, <1>4, <1>5, <1>6, <1>7, <1>8

\* What Redis does keeps it, and so does a restart or the passing of time
\* (redisService.ts:58-74).
LEMMA UrlsRedisStep ==
    ASSUME UrlInv,
           \/ \E p \in filling : Fill(p)
           \/ \E k \in evicting : Evict(k)
           \/ Lose
           \/ Tick
    PROVE  UrlInv'
<1> USE UrlAssumption DEF UrlInv, UrlTypeOK, FillsAreFresh,
        EntriesEndInTime, ResponsesAreFresh, UrlRequests, Pictures
<1>1. ASSUME NEW p \in filling, Fill(p) PROVE UrlInv'
  BY <1>1 DEF Fill, EntryFor
<1>2. ASSUME NEW k \in evicting, Evict(k) PROVE UrlInv'
  BY <1>2 DEF Evict, NoEntry
<1>3. CASE Lose
  BY <1>3 DEF Lose, Idle
<1>4. CASE Tick
  BY <1>4 DEF Tick
<1>5. QED
  BY <1>1, <1>2, <1>3, <1>4

LEMMA UrlsNext ==
    ASSUME LifetimesFit, UrlInv, [UrlNext]_urlVars
    PROVE  UrlInv'
<1>1. CASE UNCHANGED urlVars
  BY <1>1 DEF urlVars, UrlInv, UrlTypeOK, FillsAreFresh, EntriesEndInTime,
      ResponsesAreFresh
<1>2. CASE UrlNext
  BY <1>2, UrlsRequestStep, UrlsRedisStep DEF UrlNext
<1>3. QED
  BY <1>1, <1>2

\* The inductive invariant: SETs are recent, entries end in time, responses found their URL
\* while its entry stood.
THEOREM UrlsInvariant ==
    ASSUME LifetimesFit
    PROVE  UrlSpec => []UrlInv
<1>1. UrlInit => UrlInv
  BY UrlsInit
<1>2. UrlInv /\ [UrlNext]_urlVars => UrlInv'
  BY UrlsNext
<1>3. QED
  BY <1>1, <1>2, PTL DEF UrlSpec

\* redisService.ts:57: the URL a client gets works.
THEOREM UrlsWork ==
    ASSUME LifetimesFit
    PROVE  UrlSpec => []ServedUrlsAreValid
<1>1. UrlInv => ServedUrlsAreValid
  BY UrlAssumption DEF UrlInv, UrlTypeOK, ResponsesAreFresh,
      ServedUrlsAreValid, UrlRequests
<1>2. QED
  BY <1>1, UrlsInvariant, PTL
=============================================================================
