----------------------------- MODULE TempUploads -----------------------------
(***************************************************************************)
(* Uploaded files between the client and R2.  multer writes the parts of a *)
(* multipart request to temp-uploads/, the controller reads them and puts  *)
(* them in R2, and three places remove the temporary files: multer if it   *)
(* fails, uploadFileToR2 (uploadProfileImageToR2) when it ends, and        *)
(* sendResponse with every answer.  A generation has up to two parts,      *)
(* whose uploads run at once; other requests have one.                     *)
(*                                                                         *)
(* AvatarLibraryProofs extends this module beside AvatarLibrary, so that   *)
(* it has names of its own for its specification.                          *)
(***************************************************************************)
EXTENDS FileStore

CONSTANTS
    Requests,
    Parts,       \* the files of each request
    Awaited,     \* requests that wait for their FileRecord (files, avatars); the others
                 \* (generations, profile pictures) only start its creation
    MaxEnds      \* bound on how often the process ends

Files == {f \in Requests \X UNION {Parts[r] : r \in Requests} : f[2] \in Parts[f[1]]}
FilesOf(r) == {f \in Files : f[1] = r}

ASSUME UploadAssumption ==
    /\ \A r \in Requests : Parts[r] # {}
    /\ \A r \in Awaited : \E part \in Parts[r] : Parts[r] = {part}
    /\ Awaited \subseteq Requests
    /\ Keys = Files                    \* generateR2Key: one key for each
    /\ MaxEnds \in Nat

VARIABLES
    up,        \* is the process running?
    stage,     \* how far each request is
    disk,      \* the files in temp-uploads/: uuid names, so one for each part
    aged,      \* those more than an hour old
    upload,    \* the upload of each part, and the tracking that follows
    accepted,  \* history: parts whose PUT R2 has confirmed
    left,      \* history: files there when the process ended
    ends

store == <<objects, records, dropping>>
process == <<up, left, ends>>
tempVars == <<store, process, stage, disk, aged, upload, accepted>>

TempInit ==
    /\ objects = {} /\ records = {} /\ dropping = {}
    /\ up = TRUE
    /\ stage = [r \in Requests |-> "idle"]
    /\ disk = {} /\ aged = {}
    /\ upload = [f \in Files |-> "none"]
    /\ accepted = {} /\ left = {}
    /\ ends = 0

Live == {r \in Requests : stage[r] \in {"receiving", "checking", "uploading", "recording"}}
StageTo(r, s) == stage' = [stage EXCEPT ![r] = s]
UploadTo(f, s) == upload' = [upload EXCEPT ![f] = s]
RemoveFiles(fs) == disk' = disk \ fs /\ aged' = aged \ fs

-----------------------------------------------------------------------------
(* Operators no action uses are faulty variants of the one after them.     *)

CleanUpOne(r) ==
    {f \in FilesOf(r) : \A other \in FilesOf(r) : other = f}

\* sendResponse: what it removes is req.file and req.files, which hold every part.
CleanUp(r) == FilesOf(r)

\* multer opens a file for the part that has begun to arrive.
Arrive(f) ==
    /\ up /\ f \notin disk
    /\ stage[f[1]] \in {"idle", "receiving"}
    /\ StageTo(f[1], "receiving")
    /\ disk' = disk \cup {f}
    /\ UNCHANGED <<store, process, aged, upload, accepted>>

\* The part is of the wrong type or too large, or the client goes away: multer removes what
\* it has written and the error handler answers.
ReceiveFails(r) ==
    /\ stage[r] = "receiving"
    /\ StageTo(r, "answered")
    /\ RemoveFiles(FilesOf(r))
    /\ UNCHANGED <<store, process, upload, accepted>>

Receive(r) ==
    /\ stage[r] = "receiving" /\ FilesOf(r) \subseteq disk
    /\ StageTo(r, "checking")
    /\ UNCHANGED <<store, process, disk, aged, upload, accepted>>

\* validateRequest or the controller rejects the request, or what comes before the upload
\* fails: GenerationService.create, or the user a picture is for is gone.
Reject(r) ==
    /\ stage[r] = "checking"
    /\ StageTo(r, "answered")
    /\ RemoveFiles(CleanUp(r))
    /\ UNCHANGED <<store, process, upload, accepted>>

\* All uploads start in one turn, in which uploadFileToR2 reads its file; sharp reads a
\* picture later, but before the only upload of its request can end.
StartUploads(r) ==
    /\ stage[r] = "checking" /\ FilesOf(r) \subseteq disk
    /\ StageTo(r, "uploading")
    /\ upload' = [f \in Files |-> IF f[1] = r THEN "putting" ELSE upload[f]]
    /\ UNCHANGED <<store, process, disk, aged, accepted>>

LastUpload(f) == \A other \in FilesOf(f[1]) \ {f} : upload[other] # "putting"

\* After its last upload a request answers, unless it waits for its FileRecord.
Proceed(f) ==
    IF stage[f[1]] = "uploading" /\ LastUpload(f)
    THEN IF f[1] \in Awaited
         THEN StageTo(f[1], "recording") /\ RemoveFiles({f})
         ELSE StageTo(f[1], "answered") /\ RemoveFiles({f} \cup CleanUp(f[1]))
    ELSE UNCHANGED stage /\ RemoveFiles({f})

UploadForgets(f) ==
    /\ upload[f] = "putting" /\ f \in disk
    /\ Put(f) /\ accepted' = accepted \cup {f}
    /\ UploadTo(f, "recorded")
    /\ Proceed(f)
    /\ UNCHANGED <<records, dropping, process>>

UploadPart(f) ==
    /\ upload[f] = "putting" /\ f \in disk
    /\ Put(f) /\ accepted' = accepted \cup {f}
    /\ UploadTo(f, "tracking")
    /\ Proceed(f)
    /\ UNCHANGED <<records, dropping, process>>

\* Promise.all rejects with the first upload that does; the error handler answers.
AnswerError(r) ==
    IF stage[r] = "uploading" THEN StageTo(r, "answered") /\ RemoveFiles(CleanUp(r))
                              ELSE UNCHANGED <<stage, disk, aged>>

UploadFails(f) ==
    /\ upload[f] = "putting"
    /\ PutThrows(f)
    /\ UploadTo(f, "failed")
    /\ AnswerError(f[1])
    /\ UNCHANGED <<records, dropping, process, accepted>>

\* R2 confirms, but unlinkSync throws: the answer to a failed sibling has removed the file.
\* The upload counts as failed, and what would have tracked it does not run.
UploadTooLate(f) ==
    /\ upload[f] = "putting" /\ f \notin disk
    /\ Put(f) /\ accepted' = accepted \cup {f}
    /\ UploadTo(f, "failed")
    /\ UNCHANGED <<records, dropping, process, stage, disk, aged>>

\* FileRecordModel.create: the last step of FileService.upload and externalUpload; for
\* FileService.track, which the others call, nobody waits.
AnswerRecorded(r) ==
    IF stage[r] = "recording" THEN StageTo(r, "answered") /\ RemoveFiles(CleanUp(r))
                              ELSE UNCHANGED <<stage, disk, aged>>

Record(f) ==
    /\ upload[f] = "tracking"
    /\ \/ Track(f) /\ UploadTo(f, "recorded")
       \/ MongoFails /\ UNCHANGED records /\ UploadTo(f, "unrecorded")
    /\ AnswerRecorded(f[1])
    /\ UNCHANGED <<objects, dropping, process, accepted>>

-----------------------------------------------------------------------------
(* The process.                                                            *)

Grow(f) ==
    /\ f \in disk /\ aged' = aged \cup {f}
    /\ UNCHANGED <<store, process, stage, disk, upload, accepted>>

End ==
    /\ up /\ ends < MaxEnds
    /\ ends' = ends + 1
    /\ up' = FALSE
    /\ left' = disk
    /\ stage' = [r \in Requests |-> IF r \in Live THEN "lost" ELSE stage[r]]
    /\ upload' = [f \in Files |-> CASE upload[f] = "putting" -> "failed"
                                   [] upload[f] = "tracking" -> "unrecorded"
                                   [] OTHER -> upload[f]]
    /\ UNCHANGED <<store, disk, aged, accepted>>

\* bootstrap runs cleanupTempFiles before the server listens.
Restart == up' = TRUE /\ RemoveFiles(aged)

Start == ~up /\ Restart /\ UNCHANGED <<store, stage, upload, accepted, left, ends>>

TempNext ==
    \/ \E r \in Requests : ReceiveFails(r) \/ Receive(r) \/ Reject(r) \/ StartUploads(r)
    \/ \E f \in Files :
        Arrive(f) \/ UploadPart(f) \/ UploadFails(f) \/ UploadTooLate(f) \/ Record(f) \/ Grow(f)
    \/ End
    \/ Start

TempSpec == TempInit /\ [][TempNext]_tempVars

-----------------------------------------------------------------------------
(* Properties                                                              *)

\* conventions.md:325 "sendResponse cleans up temp-uploads/ on every response (success and
\* error)": a file outlives its request only if the process ended while it was there.
OnlyCrashesLeaveFiles == \A f \in disk : f[1] \in Live \/ f \in left

\* A part that R2 has confirmed is in the file manager or about to be, unless creating its
\* record broke off, or another part of the same request failed (controller.ts:95-125).
UntrackedHasACause ==
    \A f \in accepted \ records :
        \/ upload[f] \in {"tracking", "unrecorded"}
        \/ \E other \in FilesOf(f[1]) \ {f} : upload[other] = "failed"

-----------------------------------------------------------------------------
(* What the documents say and the code does not do: README.md shows, for   *)
(* each, how to see it fail.                                               *)

\* Generation/controller.ts:84 "Upload files to R2 after successful enqueue, track each as a
\* FileRecord": each that is in R2, whatever became of the other.
StoredPartsAreTracked ==
    \A f \in accepted \ records : upload[f] \in {"tracking", "unrecorded"}
=============================================================================
