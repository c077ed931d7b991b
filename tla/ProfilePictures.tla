--------------------------- MODULE ProfilePictures ---------------------------
(***************************************************************************)
(* The profile picture of one user.  PATCH /auth/profile reads the user,   *)
(* uploads the new image, and then starts three things at once: recording  *)
(* the new file, deleting the old one, and updating the user.  It awaits   *)
(* only the last.  Meanwhile other updates, a Google login that links the  *)
(* account, the user's file manager or an admin may do as they please.     *)
(***************************************************************************)
EXTENDS FileStore

CONSTANTS
    Requests,   \* PATCH /auth/profile requests with a picture; r uploads the object r
    MaxCrashes  \* bound on process crashes

NoPicture == "none"
GooglePicture == "https"  \* a full URL, which has no object and no record here

ASSUME PictureAssumption ==
    /\ Keys = Requests                     \* each upload gets a key of its own
    /\ {NoPicture, GooglePicture} \cap Requests = {}
    /\ MaxCrashes \in Nat

VARIABLES
    picture,    \* User.profilePictureKey
    exists,     \* is there still a user?
    stage,      \* what each request waits for, or its answer
    before,     \* the picture of the user it read
    tracking,   \* requests whose FileRecord is still to be created
    forgetting, \* deleteByRef(before[r]): what it is about to delete
    link,       \* socialLogin, between finding the account and saving it
    released,   \* history: files deleted with the file manager
    overlapped, \* history: requests that ran at the same time as another one or the link
    crashes

background == <<tracking, forgetting>>
others == <<exists, link, released, crashes>>
vars == <<objects, records, dropping, picture, stage, before, background, overlapped, others>>

Init ==
    /\ objects = {} /\ records = {} /\ dropping = {}
    /\ picture \in {NoPicture, GooglePicture}
    /\ exists = TRUE
    /\ stage = [r \in Requests |-> "idle"]
    /\ before = [r \in Requests |-> NoPicture]
    /\ tracking = {}
    /\ forgetting = [r \in Requests |-> "nothing"]
    /\ link = "idle"
    /\ released = {} /\ overlapped = {} /\ crashes = 0

Running == {r \in Requests : stage[r] \in {"uploading", "writing"}}

-----------------------------------------------------------------------------
(* Operators no action uses are faulty variants of the one after them.     *)

StageTo(r, from, to) == stage[r] = from /\ stage' = [stage EXCEPT ![r] = to]

Overlap(r) == overlapped' = overlapped \cup
    (IF Running # {} \/ link = "saving" THEN Running \cup {r} ELSE {})

BeginDeletesOld(r) ==
    /\ exists /\ StageTo(r, "idle", "uploading")
    /\ before' = [before EXCEPT ![r] = picture]
    /\ Overlap(r)
    /\ forgetting' = [forgetting EXCEPT ![r] = IF picture \in Keys THEN "object" ELSE "nothing"]
    /\ UNCHANGED <<objects, records, dropping, picture, tracking, others>>

Begin(r) ==
    /\ IF exists
       THEN /\ StageTo(r, "idle", "uploading")
            /\ before' = [before EXCEPT ![r] = picture]
            /\ Overlap(r)
       ELSE StageTo(r, "idle", "notfound404") /\ UNCHANGED <<before, overlapped>>
    /\ UNCHANGED <<objects, records, dropping, picture, background, others>>

UploadKeepsOld(r) ==
    /\ StageTo(r, "uploading", "writing")
    /\ Put(r)
    /\ tracking' = tracking \cup {r}
    /\ UNCHANGED <<records, dropping, picture, before, forgetting, overlapped, others>>

\* The tracking and the deletion of the old picture start here; nobody waits for either.
Upload(r) ==
    /\ StageTo(r, "uploading", "writing")
    /\ Put(r)
    /\ tracking' = tracking \cup {r}
    /\ forgetting' = [forgetting EXCEPT ![r] = IF before[r] \in Keys THEN "object" ELSE "nothing"]
    /\ UNCHANGED <<records, dropping, picture, before, overlapped, others>>

UploadFails(r) ==
    /\ StageTo(r, "uploading", "upload500")
    /\ PutThrows(r)
    /\ UNCHANGED <<records, dropping, picture, before, background, overlapped, others>>

WriteUser(r) ==
    /\ \/ exists /\ StageTo(r, "writing", "updated200") /\ picture' = r
       \/ ~exists /\ StageTo(r, "writing", "notfound404") /\ UNCHANGED picture
       \/ MongoFails /\ StageTo(r, "writing", "update500") /\ UNCHANGED picture
    /\ UNCHANGED <<objects, records, dropping, before, background, overlapped, others>>

Update(r) == Begin(r) \/ Upload(r) \/ UploadFails(r) \/ WriteUser(r)

TrackPicture(r) ==
    /\ r \in tracking
    /\ tracking' = tracking \ {r}
    /\ Track(r) \/ (MongoFails /\ UNCHANGED records)
    /\ UNCHANGED <<objects, dropping, picture, stage, before, forgetting, overlapped, others>>

ForgetTo(r, from, to) == forgetting[r] = from /\ forgetting' = [forgetting EXCEPT ![r] = to]

ForgetObject(r) ==
    /\ ForgetTo(r, "object", "record")
    /\ DeleteObjects({before[r]})
    /\ UNCHANGED <<records, dropping, picture, stage, before, tracking, overlapped, others>>

ForgetRecord(r) ==
    /\ ForgetTo(r, "record", "done")
    /\ Forget({before[r]}) \/ (MongoFails /\ UNCHANGED records)
    /\ UNCHANGED <<objects, dropping, picture, stage, before, tracking, overlapped, others>>

-----------------------------------------------------------------------------
(* The others.                                                             *)

Elsewhere == <<stage, before, background>>

\* socialLogin takes Google's picture if the user it found by email has none.
LinkFinds ==
    /\ exists /\ link = "idle" /\ picture = NoPicture
    /\ link' = "saving"
    /\ overlapped' = overlapped \cup Running
    /\ UNCHANGED <<objects, records, dropping, picture, exists, released, crashes, Elsewhere>>

\* save() writes the modified fields, whatever has been written to them since; it rejects
\* when the document is gone, as it may when MongoDB fails.
LinkSaves ==
    /\ link = "saving"
    /\ link' = "done"
    /\ \/ exists /\ picture' = GooglePicture
       \/ (exists => MongoFails) /\ UNCHANGED picture
    /\ UNCHANGED <<objects, records, dropping, exists, released, crashes, overlapped, Elsewhere>>

\* DELETE /files/:id on the record of a picture
RemoveFile(k) ==
    /\ Unfile(k)
    /\ released' = released \cup {k}
    /\ UNCHANGED <<picture, exists, link, crashes, overlapped, Elsewhere>>

DropObject(k) == Drop(k) /\ UNCHANGED <<picture, overlapped, others, Elsewhere>>

\* AdminService.deleteUser leaves the picture alone.
DeleteUser ==
    /\ exists /\ exists' = FALSE
    /\ UNCHANGED <<objects, records, dropping, picture, link, released, crashes, overlapped, Elsewhere>>

Crash ==
    /\ crashes < MaxCrashes
    /\ crashes' = crashes + 1
    /\ stage' = [r \in Requests |-> IF r \in Running THEN "lost" ELSE stage[r]]
    /\ tracking' = {} /\ dropping' = {}
    /\ forgetting' = [r \in Requests |-> IF forgetting[r] = "nothing" THEN "nothing" ELSE "done"]
    /\ link' = IF link = "saving" THEN "done" ELSE link
    /\ UNCHANGED <<objects, records, picture, exists, before, released, overlapped>>

Next ==
    \/ \E r \in Requests : Update(r) \/ TrackPicture(r) \/ ForgetObject(r) \/ ForgetRecord(r)
    \/ LinkFinds \/ LinkSaves
    \/ \E k \in Keys : RemoveFile(k) \/ DropObject(k)
    \/ DeleteUser
    \/ Crash

Spec == Init /\ [][Next]_vars

-----------------------------------------------------------------------------
(* Properties                                                              *)

Answers == {"updated200", "notfound404", "upload500", "update500", "lost"}

\* The picture of the user is there to be shown, unless the user deleted the file, or a request
\* that has read it is about to replace it or broke off between its upload and its update.
\* However many updates run at once, none leaves the user with a picture another one deleted,
\* and a failed upload leaves the current picture alone.
PictureIsStored ==
    exists /\ picture \in Keys =>
        \/ picture \in objects \cup released
        \/ \E r \in Requests : before[r] = picture /\ stage[r] \in {"writing", "update500", "lost"}

Quiet ==
    /\ Running = {} /\ link # "saving" /\ dropping = {}
    /\ \A r \in Requests : forgetting[r] \in {"nothing", "done"}

\* When all is quiet, a picture that was stored and is no longer the user's has no object
\* left, unless its update ran at the same time as another one or as a linking login, or the
\* process crashed before it got to delete it.
OrphansNeedOverlap ==
    Quiet => \A r \in Requests :
        stage[r] = "updated200" /\ r # picture /\ r \in objects
            => r \in overlapped \/ crashes > 0
=============================================================================
