--------------------------- MODULE GenerationFiles ---------------------------
(***************************************************************************)
(* The files of a generation: the input files the create request uploads   *)
(* after it has enqueued the job, their FileRecords and the references to  *)
(* them in the Generation document; the output the external API uploads;   *)
(* and what deletes them: the user, the user's file manager, and the daily *)
(* cleanup job.  Nothing here is transactional, and several updates are    *)
(* started without being waited for.                                       *)
(***************************************************************************)
EXTENDS FileStore

CONSTANTS
    Gens,
    Removals,    \* DELETE /generations/:id requests; each is used once (bounds them)
    Cleaner,     \* the cleanup job, which runs every day
    FileRemovals, \* files the user may delete one by one (bounds them)
    MaxCrashes   \* bound on process crashes

Inputs == {"image", "audio"}
AvatarKey == <<"library", "avatar">>     \* Avatar.fileKey
TestKey   == <<"library", "test">>       \* GENERATION_TEST_OUTPUT_KEY
NoKey     == <<"library", "none">>

ASSUME FilesAssumption ==
    /\ Keys = (Gens \X {"image", "audio", "output"}) \cup {AvatarKey, TestKey}
    /\ "library" \notin Gens
    /\ Cleaner \notin Removals
    /\ FileRemovals \subseteq Keys
    /\ MaxCrashes \in Nat

VARIABLES
    doc,       \* the file fields of the Generation document
    request,   \* was it made with ?mode=test, and which files did it upload?
    create,    \* where the create request is, after the enqueue
    upload,    \* its uploads, and the tracking that follows each
    refIds,    \* the request's own object: inputs whose FileRecord is known
    saving,    \* setFileRefs on its way to MongoDB
    external,  \* the external API's upload of the output
    link,      \* markCompleted's search for the output's FileRecord
    del,       \* deletions in progress
    old,       \* generations past GENERATION_TTL_DAYS
    released,  \* history: keys somebody has asked to delete
    crashes

store == <<objects, records>>
creation == <<request, create, upload, refIds, saving>>
output == <<external, link>>
deletion == <<del, dropping, old, released>>
vars == <<store, doc, creation, output, deletion, crashes>>

Deleters == Removals \cup {Cleaner}
Files(g) == request[g].files
\* A request without an image of its own names the key of an avatar in the library.
ImageKey(g) == IF "image" \in Files(g) THEN <<g, "image">> ELSE AvatarKey
\* The output of all test generations is one shared object.
OutputKey(g) == IF request[g].test THEN TestKey ELSE <<g, "output">>

NoDoc == [present |-> FALSE, refs |-> {}, output |-> NoKey]
NoDeletion == [stage |-> "idle", gens |-> {}, keys |-> {}, refs |-> {}]

\* The document of an avatar keeps its object; the test output may have a FileRecord or not.
Init ==
    /\ objects = {AvatarKey, TestKey}
    /\ records \in SUBSET {TestKey}
    /\ doc = [g \in Gens |-> NoDoc]
    /\ request = [g \in Gens |-> [test |-> FALSE, files |-> {}]]
    /\ create = [g \in Gens |-> "idle"]
    /\ upload = [g \in Gens |-> [k \in Inputs |-> "none"]]
    /\ refIds = [g \in Gens |-> {}]
    /\ saving = [g \in Gens |-> {}]
    /\ external = [g \in Gens |-> "none"]
    /\ link = [g \in Gens |-> "none"]
    /\ del = [x \in Deleters |-> NoDeletion]
    /\ dropping = {}
    /\ old = {}
    /\ released = {}
    /\ crashes = 0

-----------------------------------------------------------------------------
(* The create request, once GenerationService.create has returned.         *)

UploadTo(g, k, s) == upload' = [upload EXCEPT ![g][k] = s]

Create(g, test, files) ==
    /\ create[g] = "idle"
    /\ request' = [request EXCEPT ![g] = [test |-> test, files |-> files]]
    /\ create' = [create EXCEPT ![g] = IF files = {} THEN "answered" ELSE "uploading"]
    /\ doc' = [doc EXCEPT ![g].present = TRUE]
    /\ upload' = [upload EXCEPT ![g] = [k \in Inputs |-> IF k \in files THEN "putting" ELSE "none"]]
    /\ UNCHANGED <<store, refIds, saving, output, deletion, crashes>>

FirstUpload(g, k) == upload[g][k] = "putting"

\* Promise.all settles with the last upload, in the same turn of the event loop: a
\* FileRecord whose creation has only just been asked for cannot be in refIds yet.
LastUpload(g, k) == \A i \in Files(g) \ {k} : upload[g][i] \notin {"putting", "failed"}

AnswerSavesEverything(g, k) ==
    IF create[g] = "uploading" /\ LastUpload(g, k)
    THEN /\ create' = [create EXCEPT ![g] = "answered"]
         /\ saving' = [saving EXCEPT ![g] = Files(g)]
    ELSE UNCHANGED <<create, saving>>

Answer(g, k) ==
    IF create[g] = "uploading" /\ LastUpload(g, k)
    THEN /\ create' = [create EXCEPT ![g] = "answered"]
         /\ saving' = [saving EXCEPT ![g] = refIds[g]]
    ELSE UNCHANGED <<create, saving>>

\* Once the request has answered an error, sendResponse has removed its temporary files:
\* an upload that ends after that throws on removing its own, stored or not.
UploadSucceeds(g, k) ==
    /\ upload[g][k] = "putting" /\ create[g] # "failed"
    /\ Put(<<g, k>>)
    /\ UploadTo(g, k, "tracking")
    /\ Answer(g, k)
    /\ UNCHANGED <<records, doc, request, refIds, output, deletion, crashes>>

\* The request answers 500; the document and the job stay, and so do the other uploads.
UploadFails(g, k) ==
    /\ upload[g][k] = "putting"
    /\ PutThrows(<<g, k>>)
    /\ UploadTo(g, k, "failed")
    /\ create' = [create EXCEPT ![g] = "failed"]
    /\ UNCHANGED <<records, doc, request, refIds, saving, output, deletion, crashes>>

\* FileService.track(...).then(fr => { refIds[k] = fr._id }), which nobody waits for.
TrackSucceeds(g, k) ==
    /\ upload[g][k] = "tracking"
    /\ Track(<<g, k>>)
    /\ UploadTo(g, k, "tracked")
    /\ refIds' = [refIds EXCEPT ![g] = @ \cup {k}]
    /\ UNCHANGED <<objects, doc, request, create, saving, output, deletion, crashes>>

\* .catch(() => {})
TrackFails(g, k) ==
    /\ MongoFails
    /\ upload[g][k] = "tracking"
    /\ UploadTo(g, k, "untracked")
    /\ UNCHANGED <<store, doc, request, create, refIds, saving, output, deletion, crashes>>

\* setFileRefs updates the document if there still is one; its failure is swallowed.
SaveRefs(g) ==
    /\ saving[g] # {}
    /\ saving' = [saving EXCEPT ![g] = {}]
    /\ \/ doc' = [doc EXCEPT ![g].refs = IF doc[g].present THEN @ \cup saving[g] ELSE @]
       \/ MongoFails /\ UNCHANGED doc
    /\ UNCHANGED <<store, request, create, upload, refIds, output, deletion, crashes>>

Creation(g) ==
    \/ SaveRefs(g)
    \/ \E k \in Inputs :
        UploadSucceeds(g, k) \/ UploadFails(g, k) \/ TrackSucceeds(g, k) \/ TrackFails(g, k)

-----------------------------------------------------------------------------
(* The output: POST /files/external-upload, then the callback.             *)

ExternalPut(g) ==
    /\ create[g] # "idle" /\ ~request[g].test /\ external[g] = "none"
    /\ Put(<<g, "output">>)
    /\ external' = [external EXCEPT ![g] = "put"]
    /\ UNCHANGED <<records, doc, creation, link, deletion, crashes>>

ExternalRecord(g) ==
    /\ external[g] = "put"
    /\ \/ Track(<<g, "output">>) /\ external' = [external EXCEPT ![g] = "recorded"]
       \/ MongoFails /\ UNCHANGED records /\ external' = [external EXCEPT ![g] = "failed"]
    /\ UNCHANGED <<objects, doc, creation, link, deletion, crashes>>

\* markCompleted, from a success callback or from the processor in test mode.
Complete(g) ==
    /\ doc[g].present
    /\ request[g].test \/ external[g] = "recorded"
    /\ link[g] = "none" /\ "output" \notin doc[g].refs
    /\ doc' = [doc EXCEPT ![g].output = OutputKey(g)]
    /\ link' = [link EXCEPT ![g] = "finding"]
    /\ UNCHANGED <<store, creation, external, deletion, crashes>>

\* findByFileKey, not waited for
FindOutput(g) ==
    /\ link[g] = "finding"
    /\ link' = [link EXCEPT ![g] = IF OutputKey(g) \in records THEN "found" ELSE "ended"]
    /\ UNCHANGED <<store, doc, creation, external, deletion, crashes>>

LinkOutput(g) ==
    /\ link[g] = "found"
    /\ link' = [link EXCEPT ![g] = "ended"]
    /\ \/ doc' = [doc EXCEPT ![g].refs = IF doc[g].present THEN @ \cup {"output"} ELSE @]
       \/ MongoFails /\ UNCHANGED doc
    /\ UNCHANGED <<store, creation, external, deletion, crashes>>

Output(g) == ExternalPut(g) \/ ExternalRecord(g) \/ Complete(g) \/ FindOutput(g) \/ LinkOutput(g)

-----------------------------------------------------------------------------
(* Deletion: GenerationService.remove and cleanupGenerations do the same   *)
(* things in the same order, for one document and for every old one.       *)
(* Operators no action uses are faulty variants of the one after them.     *)

CollectKeysIgnoresRefs(g) ==
    {ImageKey(g)}
    \cup {<<g, "audio">> : k \in doc[g].refs \cap {"audio"}}
    \cup ({doc[g].output} \ {NoKey})

\* Input objects only if the document refers to their record; the output always.
CollectKeys(g) ==
    {ImageKey(g) : k \in doc[g].refs \cap {"image"}}
    \cup {<<g, "audio">> : k \in doc[g].refs \cap {"audio"}}
    \cup ({doc[g].output} \ {NoKey})

RefKey(g, k) == IF k = "output" THEN OutputKey(g) ELSE <<g, k>>

CollectRefs(g) == {RefKey(g, k) : k \in doc[g].refs}

DelVars == <<doc, creation, output, crashes>>

Read(x, G) ==
    /\ del[x].stage = "idle"
    /\ LET keys == UNION {CollectKeys(g) : g \in G}
           refs == UNION {CollectRefs(g) : g \in G}
       IN  /\ del' = [del EXCEPT ![x] = [stage |-> "read", gens |-> G, keys |-> keys, refs |-> refs]]
           /\ released' = released \cup keys \cup refs
    /\ UNCHANGED <<store, dropping, old, DelVars>>

RemoveReads(x, g) == x \in Removals /\ doc[g].present /\ Read(x, {g})

OldDocs == {g \in old : doc[g].present}
CleanupReads == OldDocs # {} /\ Read(Cleaner, OldDocs)

\* A finished cleanup is free for the next day's run, and so is one BullMQ will retry.
Stage(x, s) == IF x = Cleaner /\ s \in {"done", "failed"} THEN NoDeletion
                                                          ELSE [del[x] EXCEPT !.stage = s]
Advance(x, from, to) ==
    del[x].stage = from /\ del' = [del EXCEPT ![x] = Stage(x, to)]

DeleteFiles(x) ==
    /\ Advance(x, "read", "objects")
    /\ DeleteObjects(del[x].keys)
    /\ UNCHANGED <<records, dropping, old, released, DelVars>>

DeleteRecordsForgotten(x) ==
    /\ Advance(x, "objects", "records")
    /\ UNCHANGED <<store, dropping, old, released, DelVars>>

DeleteRecords(x) ==
    /\ Advance(x, "objects", "records")
    /\ Forget(del[x].refs)
    /\ UNCHANGED <<objects, dropping, old, released, DelVars>>

DeleteDocs(x) ==
    /\ Advance(x, "records", "done")
    /\ doc' = [g \in Gens |-> IF g \in del[x].gens THEN NoDoc ELSE doc[g]]
    /\ UNCHANGED <<store, dropping, old, released, creation, output, crashes>>

DeleteFails(x) ==
    /\ MongoFails
    /\ del[x].stage \in {"objects", "records"}
    /\ del' = [del EXCEPT ![x] = Stage(x, "failed")]
    /\ UNCHANGED <<store, dropping, old, released, DelVars>>

Delete(x) == DeleteFiles(x) \/ DeleteRecords(x) \/ DeleteDocs(x) \/ DeleteFails(x)

\* FileService.remove, by the owner of the file
RemoveFile(k) ==
    /\ k \in FileRemovals \ {TestKey}
    /\ Unfile(k)
    /\ released' = released \cup {k}
    /\ UNCHANGED <<del, old, DelVars>>

DropObject(k) == Drop(k) /\ UNCHANGED <<del, old, released, DelVars>>

-----------------------------------------------------------------------------

Settled(g) ==
    /\ create[g] \in {"answered", "failed", "lost"} /\ saving[g] = {}
    /\ \A k \in Inputs : upload[g][k] \notin {"putting", "tracking"}

\* Seven days pass: longer than any request takes, but a callback may come even later.
Age(g) ==
    /\ doc[g].present /\ Settled(g) /\ g \notin old
    /\ \A x \in Removals : g \in del[x].gens => del[x].stage \in {"done", "failed"}
    /\ old' = old \cup {g}
    /\ UNCHANGED <<store, del, dropping, released, DelVars>>

Crash ==
    /\ crashes < MaxCrashes
    /\ crashes' = crashes + 1
    /\ create' = [g \in Gens |-> IF create[g] = "uploading" THEN "lost" ELSE create[g]]
    /\ upload' = [g \in Gens |-> [k \in Inputs |->
                    IF upload[g][k] \in {"putting", "tracking"} THEN "failed" ELSE upload[g][k]]]
    /\ saving' = [g \in Gens |-> {}]
    /\ external' = [g \in Gens |-> IF external[g] = "put" THEN "failed" ELSE external[g]]
    /\ link' = [g \in Gens |-> IF link[g] = "none" THEN "none" ELSE "ended"]
    /\ del' = [x \in Deleters |-> IF del[x].stage \in {"idle", "done"} THEN del[x]
                                                                      ELSE Stage(x, "failed")]
    /\ dropping' = {}
    /\ UNCHANGED <<store, doc, request, refIds, old, released>>

Next ==
    \/ \E g \in Gens, test \in BOOLEAN, files \in SUBSET Inputs : Create(g, test, files)
    \/ \E g \in Gens : Creation(g) \/ Output(g) \/ Age(g)
    \/ \E x \in Deleters, g \in Gens : RemoveReads(x, g)
    \/ CleanupReads
    \/ \E x \in Deleters : Delete(x)
    \/ \E k \in Keys : RemoveFile(k) \/ DropObject(k)
    \/ Crash

Spec == Init /\ [][Next]_vars

\* Awaited and unawaited calls settle, BullMQ runs the cleanup every day and again after a
\* crash; users, the external API and the passing of seven days are under no obligation.
Fairness ==
    /\ \A g \in Gens : WF_vars(Creation(g)) /\ WF_vars(FindOutput(g) \/ LinkOutput(g))
    /\ WF_vars(CleanupReads)
    /\ \A x \in Deleters : WF_vars(Delete(x))
    /\ \A k \in Keys : WF_vars(DropObject(k))

FairSpec == Spec /\ Fairness

-----------------------------------------------------------------------------
(* Properties                                                              *)

Kinds == Inputs \cup {"output"}

\* However many generations use an avatar's image, and however they are deleted, nothing
\* ever asks R2 to delete it, and it stays there.
AvatarImageSurvives == AvatarKey \in objects \ released

\* A create request that answered 201 has stored all its files, whatever failed after: if one
\* is missing, and nobody has asked for its deletion, the client of the generation, whose job
\* is in the queue already, was answered an error, or nothing because of a crash.
AnsweredMeansStored ==
    \A g \in Gens : create[g] = "answered" =>
        \A k \in Files(g) : <<g, k>> \in objects \cup released

\* A reference in a document leads to a record and an object, until somebody has asked for
\* that very file to be deleted: late trackings, crashes and lost updates set no false one.
RefsAreBacked ==
    \A g \in Gens : \A k \in doc[g].refs :
        RefKey(g, k) \in released \/ RefKey(g, k) \in objects \cap records

\* A deletion of the user's that had read the document before this reference was set has
\* taken the document away.
TakenAway(g, k) ==
    \E y \in Removals : del[y].stage = "done" /\ g \in del[y].gens /\ <<g, k>> \notin del[y].refs

\* An input record whose object is gone is still in reach: a deletion that will remove it
\* is under way, or a document refers to it and the next deletion will.  Only two deletions
\* by the user at once lose one: the first to read sees no reference and takes the document
\* away, the second deletes the object and breaks off.
InputRecordsAreInReach ==
    \A g \in Gens, k \in Inputs :
        <<g, k>> \in records \ objects =>
            \/ k \in doc[g].refs
            \/ \E x \in Deleters : <<g, k>> \in del[x].refs /\ del[x].stage \in {"read", "objects"}
            \/ /\ \E x \in Removals : <<g, k>> \in del[x].refs /\ del[x].stage = "failed"
               /\ TakenAway(g, k)

\* The cleanup gets rid of every old generation, whenever it crashes and whatever users do.
CleanupFinishes == \A g \in Gens : g \in old ~> ~doc[g].present

-----------------------------------------------------------------------------
(* What the documents say and the code does not do: README.md shows, for   *)
(* each, how to see it fail.                                               *)

\* docs/features/generation.md, business rule 6: poll the GET endpoint and the references
\* to the uploaded files will be there.
FileRefsAreStored ==
    \A g \in Gens : create[g] = "answered" ~> Files(g) \subseteq doc[g].refs \/ ~doc[g].present

\* docs/features/generation.md: deleting a generation cleans up all its files and records.
DeleteCleansUp ==
    \A x \in Removals, g \in Gens :
        del[x].stage = "done" /\ g \in del[x].gens =>
            \A k \in Kinds : <<g, k>> \notin objects \cup records

\* src/Config/cleanup/index.ts: the output key is always generation-specific, so that it is
\* safe to delete.
OutputsAreSpecific ==
    \A g \in Gens : doc[g].present /\ doc[g].output # NoKey =>
        doc[g].output \in objects \/ \E x \in Deleters : g \in del[x].gens
=============================================================================
