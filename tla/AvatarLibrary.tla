---------------------------- MODULE AvatarLibrary ----------------------------
(***************************************************************************)
(* The avatars, their image files, the files that admins upload for them,  *)
(* and the three ways a file disappears: the deletion of an avatar, which  *)
(* cascades to the files it owns, the deletion of a single file, and the   *)
(* daily cleanup of custom avatars.  Every request is a sequence of        *)
(* awaited calls to R2 and MongoDB, and every other request may run        *)
(* between two of them.  isActive only filters what users see and is left  *)
(* out, as are titles.                                                     *)
(***************************************************************************)
EXTENDS FileStore

CONSTANTS
    Avatars,     \* POST /avatars requests, and the avatars they create
    Attachments, \* POST /files/upload requests that name an avatar as ownerId
    Updates,     \* PATCH /avatars/:id requests
    Slugs,
    MaxCrashes   \* bound on process crashes

NoSlug == ""     \* not in the body of a PATCH
NoAvatar == "none"

ASSUME AvatarAssumption ==
    /\ Keys = Avatars \cup Attachments     \* each upload gets a key of its own
    /\ Avatars \cap Attachments = {}
    /\ NoSlug \notin Slugs /\ NoAvatar \notin Avatars
    /\ MaxCrashes \in Nat

VARIABLES
    avatar,      \* the Avatar documents
    create,      \* where each POST /avatars is
    attach,      \* where each POST /files/upload is, and the owner it names
    update,      \* where each PATCH is, and its body
    cascade,     \* deleteByOwner after the deletion of each avatar
    cleanup,     \* cleanupCustomAvatars
    released,    \* history: keys of files the cleanup or the file manager has taken
    crashes

requests == <<create, attach, update>>
deletion == <<cascade, cleanup, released>>
vars == <<objects, records, dropping, avatar, requests, deletion, crashes>>

NoDeletion == [stage |-> "idle", keys |-> {}]
Kinds == {"custom", "system"}   \* isSystem
SameKind == "same"              \* no isSystem in the body of a PATCH
NoUpdate == [stage |-> "idle", of |-> NoAvatar, slug |-> NoSlug, kind |-> SameKind]

Init ==
    /\ objects = {} /\ records = {} /\ dropping = {}
    /\ avatar = [a \in Avatars |-> [state |-> "none", slug |-> NoSlug, kind |-> "custom"]]
    /\ create = [a \in Avatars |-> "idle"]
    /\ attach = [f \in Attachments |-> [stage |-> "idle", owner |-> NoAvatar]]
    /\ update = [u \in Updates |-> NoUpdate]
    /\ cascade = [a \in Avatars |-> NoDeletion]
    /\ cleanup = NoDeletion
    /\ released = {} /\ crashes = 0

Present(a) == avatar[a].state = "present"
SlugTaken(s, a) == \E b \in Avatars \ {a} : Present(b) /\ avatar[b].slug = s

-----------------------------------------------------------------------------
(* POST /avatars: FileService.upload, then AvatarService.create.  A stage  *)
(* says what the request waits for; the last ones are its answer.          *)
(* Operators no action uses, here and below, are faulty variants of the    *)
(* one after them.                                                         *)

CreateTo(a, from, to) == create[a] = from /\ create' = [create EXCEPT ![a] = to]
CreateVars == <<attach, update, deletion, crashes>>

Upload(a) ==
    /\ CreateTo(a, "idle", "putting")
    /\ UNCHANGED <<objects, records, dropping, avatar, CreateVars>>

PutImage(a) ==
    /\ \/ Put(a) /\ CreateTo(a, "putting", "recording")
       \/ PutThrows(a) /\ CreateTo(a, "putting", "failed")
    /\ UNCHANGED <<records, dropping, avatar, CreateVars>>

RecordImage(a) ==
    /\ \/ Track(a) /\ CreateTo(a, "recording", "checking")
       \/ MongoFails /\ UNCHANGED records /\ CreateTo(a, "recording", "failed")
    /\ UNCHANGED <<objects, dropping, avatar, CreateVars>>

\* The file has been uploaded by then: it stays when the slug turns out to be taken.
CheckSlug(a) ==
    /\ \E s \in Slugs :
        IF SlugTaken(s, a)
        THEN CreateTo(a, "checking", "conflict409") /\ UNCHANGED avatar
        ELSE /\ CreateTo(a, "checking", "inserting")
             /\ avatar' = [avatar EXCEPT ![a].slug = s]
    /\ UNCHANGED <<objects, records, dropping, CreateVars>>

\* The unique index of slug answers an error that globalErrorHandler knows nothing about.
InsertAvatar(a) ==
    /\ IF SlugTaken(avatar[a].slug, a)
       THEN CreateTo(a, "inserting", "duplicate500") /\ UNCHANGED avatar
       ELSE /\ CreateTo(a, "inserting", "created201")
            /\ avatar' = [avatar EXCEPT ![a].state = "present"]
    /\ UNCHANGED <<objects, records, dropping, CreateVars>>

\* findOne or create rejects: the file stays, as above.
CreateFails(a) ==
    /\ MongoFails
    /\ CreateTo(a, "checking", "failed") \/ CreateTo(a, "inserting", "failed")
    /\ UNCHANGED <<objects, records, dropping, avatar, CreateVars>>

Create(a) ==
    \/ Upload(a) \/ PutImage(a) \/ RecordImage(a)
    \/ CheckSlug(a) \/ InsertAvatar(a) \/ CreateFails(a)

-----------------------------------------------------------------------------
(* POST /files/upload with an ownerId: nobody checks that the owner exists. *)

AttachTo(f, from, to) == attach[f].stage = from /\ attach' = [attach EXCEPT ![f].stage = to]
AttachVars == <<create, update, deletion, crashes>>

StartAttach(f) ==
    /\ attach[f].stage = "idle"
    /\ \E a \in Avatars :
        /\ avatar[a].state # "none"
        /\ attach' = [attach EXCEPT ![f] = [stage |-> "putting", owner |-> a]]
    /\ UNCHANGED <<objects, records, dropping, avatar, AttachVars>>

PutAttachment(f) ==
    /\ \/ Put(f) /\ AttachTo(f, "putting", "recording")
       \/ PutThrows(f) /\ AttachTo(f, "putting", "failed")
    /\ UNCHANGED <<records, dropping, avatar, AttachVars>>

RecordAttachment(f) ==
    /\ \/ Track(f) /\ AttachTo(f, "recording", "done")
       \/ MongoFails /\ UNCHANGED records /\ AttachTo(f, "recording", "failed")
    /\ UNCHANGED <<objects, dropping, avatar, AttachVars>>

Attach(f) == StartAttach(f) \/ PutAttachment(f) \/ RecordAttachment(f)

-----------------------------------------------------------------------------
(* PATCH /avatars/:id.                                                     *)

UpdateEnds(u, answer) == update' = [update EXCEPT ![u] = [NoUpdate EXCEPT !.stage = answer]]
UpdateVars == <<create, attach, deletion, crashes>>

\* Refused updates, 404 and 409, and those of the title alone change nothing and have no step.
CheckUpdate(u) ==
    /\ update[u].stage = "idle"
    /\ \E a \in Avatars, s \in Slugs \cup {NoSlug}, kind \in Kinds \cup {SameKind} :
        /\ Present(a)
        /\ s # NoSlug => ~SlugTaken(s, a)
        /\ <<s, kind>> # <<NoSlug, SameKind>>
        /\ update' = [update EXCEPT ![u] =
               [stage |-> "writing", of |-> a, slug |-> s, kind |-> kind]]
    /\ UNCHANGED <<objects, records, dropping, avatar, UpdateVars>>

WriteUpdate(u) ==
    LET body == update[u]
        slug == IF body.slug = NoSlug THEN avatar[body.of].slug ELSE body.slug
        kind == IF body.kind = SameKind THEN avatar[body.of].kind ELSE body.kind
        changed == [avatar EXCEPT ![body.of].slug = slug, ![body.of].kind = kind]
    IN  /\ body.stage = "writing"
        /\ IF ~Present(body.of)
           THEN UpdateEnds(u, "notfound404") /\ UNCHANGED avatar
           ELSE IF SlugTaken(slug, body.of)
           THEN UpdateEnds(u, "duplicate500") /\ UNCHANGED avatar
           ELSE UpdateEnds(u, "updated200") /\ avatar' = changed
        /\ UNCHANGED <<objects, records, dropping, UpdateVars>>

UpdateFails(u) ==
    /\ MongoFails
    /\ update[u].stage = "writing" /\ UpdateEnds(u, "failed")
    /\ UNCHANGED <<objects, records, dropping, avatar, UpdateVars>>

-----------------------------------------------------------------------------
(* DELETE /avatars/:id: the document, then the files it owns, not awaited. *)

RemoveAvatar(a) ==
    /\ Present(a)
    /\ avatar' = [avatar EXCEPT ![a].state = "removed"]
    /\ cascade' = [cascade EXCEPT ![a].stage = "finding"]
    /\ UNCHANGED <<objects, records, dropping, requests, cleanup, released, crashes>>

OwnedOfAnybody(a) == {f \in Attachments \cap records : avatar[attach[f].owner].state # "none"}

\* AvatarService.create gives its own file no ownerId, so that deleteByOwner misses it.
Owned(a) == {f \in Attachments \cap records : attach[f].owner = a}

CascadeVars == <<avatar, dropping, requests, cleanup, released, crashes>>
CascadeEnds(a, how) == cascade' = [cascade EXCEPT ![a] = [stage |-> how, keys |-> {}]]

CascadeFinds(a) ==
    /\ cascade[a].stage = "finding"
    /\ cascade' = [cascade EXCEPT ![a] = [stage |-> "objects", keys |-> Owned(a)]]
    /\ UNCHANGED <<objects, records, CascadeVars>>

CascadeObjects(a) ==
    /\ cascade[a].stage = "objects" /\ cascade' = [cascade EXCEPT ![a].stage = "records"]
    /\ DeleteObjects(cascade[a].keys)
    /\ UNCHANGED <<records, CascadeVars>>

\* deleteMany by owner and not by the keys that were found
CascadeRecords(a) ==
    /\ cascade[a].stage = "records" /\ CascadeEnds(a, "done")
    /\ Forget(Owned(a))
    /\ UNCHANGED <<objects, CascadeVars>>

CascadeFails(a) ==
    /\ MongoFails
    /\ cascade[a].stage \in {"finding", "records"}
    /\ CascadeEnds(a, "failed")
    /\ UNCHANGED <<objects, records, CascadeVars>>

Cascade(a) == CascadeFinds(a) \/ CascadeObjects(a) \/ CascadeRecords(a) \/ CascadeFails(a)

-----------------------------------------------------------------------------
(* The daily cleanup of custom avatars, and single files.                  *)

Custom == {a \in Avatars : Present(a) /\ avatar[a].kind = "custom"}
CleanupVars == <<dropping, requests, cascade, crashes>>

\* Which of the custom avatars are past AVATAR_TTL_DAYS is a choice.
CleanupReads ==
    /\ cleanup.stage = "idle"
    /\ \E expired \in SUBSET Custom \ {{}} :
        /\ cleanup' = [stage |-> "objects", keys |-> expired]
        /\ released' = released \cup expired
    /\ UNCHANGED <<objects, records, avatar, CleanupVars>>

Expire(as) == avatar' = [a \in Avatars |->
    IF a \in as /\ Present(a) THEN [avatar[a] EXCEPT !.state = "expired"] ELSE avatar[a]]

CleanupObjectsAndDocs ==
    /\ cleanup.stage = "objects"
    /\ cleanup' = [cleanup EXCEPT !.stage = "records"]
    /\ DeleteObjects(cleanup.keys)
    /\ Expire(cleanup.keys)
    /\ UNCHANGED <<records, released, CleanupVars>>

CleanupObjects ==
    /\ cleanup.stage = "objects"
    /\ cleanup' = [cleanup EXCEPT !.stage = "records"]
    /\ DeleteObjects(cleanup.keys)
    /\ UNCHANGED <<records, avatar, released, CleanupVars>>

CleanupRecords ==
    /\ cleanup.stage = "records"
    /\ cleanup' = [cleanup EXCEPT !.stage = "docs"]
    /\ Forget(cleanup.keys)
    /\ UNCHANGED <<objects, avatar, released, CleanupVars>>

CleanupDocs ==
    /\ cleanup.stage = "docs"
    /\ cleanup' = NoDeletion
    /\ Expire(cleanup.keys)
    /\ UNCHANGED <<objects, records, released, CleanupVars>>

\* BullMQ tries the job again.
CleanupFails ==
    /\ MongoFails
    /\ cleanup.stage \in {"records", "docs"}
    /\ cleanup' = NoDeletion
    /\ UNCHANGED <<objects, records, avatar, released, CleanupVars>>

Cleanup == CleanupReads \/ CleanupObjects \/ CleanupRecords \/ CleanupDocs \/ CleanupFails

\* DELETE /files/:id
RemoveFile(k) ==
    /\ Unfile(k)
    /\ released' = released \cup {k}
    /\ UNCHANGED <<avatar, requests, cascade, cleanup, crashes>>

DropObject(k) == Drop(k) /\ UNCHANGED <<avatar, requests, deletion, crashes>>

-----------------------------------------------------------------------------

Interrupted(stage) == stage \in {"putting", "recording", "checking", "inserting", "writing"}

Crash ==
    /\ crashes < MaxCrashes
    /\ crashes' = crashes + 1
    /\ create' = [a \in Avatars |-> IF Interrupted(create[a]) THEN "failed" ELSE create[a]]
    /\ attach' = [f \in Attachments |->
            IF Interrupted(attach[f].stage) THEN [attach[f] EXCEPT !.stage = "failed"] ELSE attach[f]]
    /\ update' = [u \in Updates |->
            IF Interrupted(update[u].stage) THEN [NoUpdate EXCEPT !.stage = "failed"] ELSE update[u]]
    /\ cascade' = [a \in Avatars |->
            IF cascade[a].stage \in {"finding", "objects", "records"}
            THEN [stage |-> "failed", keys |-> {}] ELSE cascade[a]]
    /\ cleanup' = NoDeletion
    /\ dropping' = {}
    /\ UNCHANGED <<objects, records, avatar, released>>

Next ==
    \/ \E a \in Avatars : Create(a) \/ RemoveAvatar(a) \/ Cascade(a)
    \/ \E f \in Attachments : Attach(f)
    \/ \E u \in Updates : CheckUpdate(u) \/ WriteUpdate(u) \/ UpdateFails(u)
    \/ Cleanup
    \/ \E k \in Keys : RemoveFile(k) \/ DropObject(k)
    \/ Crash

Spec == Init /\ [][Next]_vars

-----------------------------------------------------------------------------
(* Properties                                                              *)

\* As long as an avatar exists, its image and the files uploaded for it have their object and
\* their record, unless the cleanup or the file manager has taken that very file: no cascade
\* of another avatar, failed request or crash touches them.
FilesOfAvatarsSurvive ==
    /\ \A a \in Avatars : Present(a) => a \in released \/ a \in objects \cap records
    /\ \A f \in Attachments : attach[f].stage = "done" /\ Present(attach[f].owner) =>
           f \in released \/ f \in objects \cap records

\* What the cleanup has deleted is gone altogether, wherever earlier runs of it crashed.
ExpiredLeavesNothing ==
    \A a \in Avatars : avatar[a].state = "expired" => a \notin objects \cup records

-----------------------------------------------------------------------------
(* What the documents say and the code does not do: README.md shows, for   *)
(* each, how to see it fail.                                               *)

\* docs/features/avatar.md: when an avatar is deleted, its FileRecords go too, and their objects.
DeletedAvatarLeavesNothing ==
    \A a \in Avatars : cascade[a].stage = "done" => a \notin objects \cup records

\* docs/features/file.md: deleteByOwner deletes the FileRecords of the owner and their R2 files,
\* so that an object whose record it has deleted is gone.
CascadeDeletesObjects ==
    \A f \in Attachments :
        attach[f].stage = "done" /\ f \in objects => f \in records \cup dropping

\* docs/features/avatar.md: 409 is returned when a slug is taken.
ConflictsAre409 ==
    /\ \A a \in Avatars : create[a] # "duplicate500"
    /\ \A u \in Updates : update[u].stage # "duplicate500"

\* src/Config/cleanup/index.ts: the cleanup is for custom avatars, isSystem = false.
SystemAvatarsStay == \A a \in Avatars : avatar[a].state = "expired" => avatar[a].kind = "custom"
=============================================================================
