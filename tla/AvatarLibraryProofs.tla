------------------------- MODULE AvatarLibraryProofs -------------------------
(***************************************************************************)
(* What AvatarLibrary promises of the files of avatars, and TempUploads of *)
(* uploads on their way to R2, for any number of avatars, attachments,     *)
(* updates, requests, failures and crashes.                                *)
(***************************************************************************)
EXTENDS AvatarLibrary, TempUploads, TLAPS

Documents == [state : {"none", "present", "removed", "expired"},
              slug : Slugs \cup {NoSlug}, kind : Kinds]
Creates == {"idle", "putting", "recording", "checking", "inserting", "created201",
            "conflict409", "duplicate500", "failed"}
Attaches == [stage : {"idle", "putting", "recording", "done", "failed"},
             owner : Avatars \cup {NoAvatar}]
Bodies == [stage : {"idle", "writing", "updated200", "notfound404", "duplicate500", "failed"},
           of : Avatars \cup {NoAvatar}, slug : Slugs \cup {NoSlug},
           kind : Kinds \cup {SameKind}]
Cascades == [stage : {"idle", "finding", "objects", "records", "done", "failed"},
             keys : SUBSET Attachments]
Cleanups == [stage : {"idle", "objects", "records", "docs"}, keys : SUBSET Avatars]

TypeOK ==
    /\ avatar \in [Avatars -> Documents]
    /\ create \in [Avatars -> Creates]
    /\ attach \in [Attachments -> Attaches]
    /\ update \in [Updates -> Bodies]
    /\ \A u \in Updates : update[u].stage = "writing" => update[u].of \in Avatars
    /\ cascade \in [Avatars -> Cascades]
    /\ cleanup \in Cleanups

Gone(a) == a \in Avatars /\ avatar[a].state \in {"removed", "expired"}

\* A document comes from a create that has answered, so a new one is never that of an old file.
DocumentsAreCreated ==
    \A a \in Avatars : avatar[a].state # "none" => create[a] = "created201"

\* The file of a create is in R2 and in the collection from then on, unless it was taken.
ImagesAreStored ==
    \A a \in Avatars :
        /\ create[a] \in {"recording", "checking", "inserting", "created201"} =>
               a \in objects \cup released
        /\ create[a] \in {"checking", "inserting", "created201"} => a \in records \cup released

\* So is a file uploaded for an avatar, until the avatar goes.
AttachmentsAreStored ==
    \A f \in Attachments :
        /\ attach[f].stage = "idle" => attach[f].owner = NoAvatar
        /\ attach[f].stage # "idle" =>
               attach[f].owner \in Avatars /\ avatar[attach[f].owner].state # "none"
        /\ attach[f].stage \in {"recording", "done"} =>
               Gone(attach[f].owner) \/ f \in objects \cup released
        /\ attach[f].stage = "done" => Gone(attach[f].owner) \/ f \in records \cup released

\* What deletes files takes only those it should: a cascade those of its avatar, which is gone,
\* and the others those they count as released.
DeletionsKeepToTheirOwn ==
    /\ \A a \in Avatars :
        /\ cascade[a].stage \in {"finding", "objects", "records"} => avatar[a].state = "removed"
        /\ \A f \in cascade[a].keys : attach[f].owner = a /\ avatar[a].state = "removed"
    /\ dropping \subseteq released
    /\ cleanup.keys \subseteq released

SurvivalInv ==
    DocumentsAreCreated /\ ImagesAreStored /\ AttachmentsAreStored /\ DeletionsKeepToTheirOwn

\* The cleanup deletes the document last, of what it has read, and deletes it for good.
CleanupIsThorough ==
    /\ \A a \in cleanup.keys : avatar[a].state # "none"
    /\ cleanup.stage \in {"records", "docs"} => cleanup.keys \cap objects = {}
    /\ cleanup.stage = "docs" => cleanup.keys \cap records = {}

CleanInv == CleanupIsThorough /\ ExpiredLeavesNothing

IInv ==
    /\ TypeOK /\ SurvivalInv
    /\ ("delete" \notin R2Fails => CleanInv)

-----------------------------------------------------------------------------

\* Nothing has been created at first.
LEMMA InitInv == Init => IInv
BY AvatarAssumption DEF Init, IInv, TypeOK, SurvivalInv, DocumentsAreCreated, ImagesAreStored,
    AttachmentsAreStored, DeletionsKeepToTheirOwn, Gone, CleanInv, CleanupIsThorough,
    ExpiredLeavesNothing, Documents, Creates, Attaches, Bodies, Cascades, Cleanups, NoDeletion,
    NoUpdate, Kinds

-----------------------------------------------------------------------------
(* Documents, and what writing one of their fields leaves alone.           *)

LEMMA DocumentFacts ==
    ASSUME NEW docs \in [Avatars -> Documents], NEW a \in Avatars
    PROVE  /\ docs[a].state \in {"none", "present", "removed", "expired"}
           /\ docs[a].slug \in Slugs \cup {NoSlug} /\ docs[a].kind \in Kinds
BY DEF Documents

LEMMA StateWritten ==
    ASSUME TypeOK, NEW a \in Avatars, NEW s \in {"none", "present", "removed", "expired"},
           avatar' = [avatar EXCEPT ![a].state = s]
    PROVE  /\ avatar' \in [Avatars -> Documents]
           /\ avatar'[a].state = s
           /\ \A b \in Avatars \ {a} : avatar'[b].state = avatar[b].state
BY DEF TypeOK, Documents

LEMMA SlugWritten ==
    ASSUME TypeOK, NEW a \in Avatars, NEW s \in Slugs,
           avatar' = [avatar EXCEPT ![a].slug = s]
    PROVE  /\ avatar' \in [Avatars -> Documents]
           /\ \A b \in Avatars : avatar'[b].state = avatar[b].state
BY DEF TypeOK, Documents

LEMMA BodyWritten ==
    ASSUME TypeOK, NEW a \in Avatars, NEW s \in Slugs \cup {NoSlug}, NEW kind \in Kinds,
           avatar' = [avatar EXCEPT ![a].slug = s, ![a].kind = kind]
    PROVE  /\ avatar' \in [Avatars -> Documents]
           /\ \A b \in Avatars : avatar'[b].state = avatar[b].state
BY DEF TypeOK, Documents

LEMMA Expired ==
    ASSUME TypeOK, NEW as \in SUBSET Avatars, Expire(as)
    PROVE  /\ avatar' \in [Avatars -> Documents]
           /\ \A b \in as : Present(b) => avatar'[b].state = "expired"
           /\ \A b \in Avatars : b \notin as \/ ~Present(b) => avatar'[b].state = avatar[b].state
BY DEF TypeOK, Documents, Expire, Present

-----------------------------------------------------------------------------
(* What a step may do to files.                                            *)

\* Documents do not come back: what exists or has existed does not become new again.
DocumentsAge ==
    \A a \in Avatars : avatar[a].state # "none" =>
        avatar'[a].state # "none" /\ (Gone(a) => Gone(a)')

\* The files of ks that have been stored stay stored, unless they are released.
StoredStay(ks) ==
    \A k \in ks : /\ k \in objects \cup released => k \in objects' \cup released'
                  /\ k \in records \cup released => k \in records' \cup released'

LEMMA ImagesStay ==
    ASSUME ImagesAreStored, create' = create, StoredStay(Avatars)
    PROVE  ImagesAreStored'
BY DEF ImagesAreStored, StoredStay

LEMMA AttachmentsStay ==
    ASSUME AttachmentsAreStored, attach' = attach, DocumentsAge,
           StoredStay({f \in Attachments : ~Gone(attach[f].owner)'})
    PROVE  AttachmentsAreStored'
BY DEF AttachmentsAreStored, StoredStay, DocumentsAge, Gone

-----------------------------------------------------------------------------
(* POST /avatars.                                                          *)

LEMMA CreateToFacts ==
    ASSUME TypeOK, NEW a \in Avatars, NEW from, NEW to \in Creates, CreateTo(a, from, to)
    PROVE  /\ create' \in [Avatars -> Creates] /\ create[a] = from /\ create'[a] = to
           /\ \A b \in Avatars \ {a} : create'[b] = create[b]
BY DEF TypeOK, CreateTo

\* A step of a create either leaves the documents alone or writes its own, which has not been
\* there; it only adds its own file.
LEMMA CreateFacts ==
    ASSUME TypeOK, NEW a \in Avatars, Create(a)
    PROVE  /\ avatar' \in [Avatars -> Documents] /\ create' \in [Avatars -> Creates]
           /\ \A b \in Avatars \ {a} :
                  create'[b] = create[b] /\ avatar'[b].state = avatar[b].state
           /\ \/ create[a] \in {"checking", "inserting"}
                 /\ create'[a] = "created201" /\ avatar'[a].state = "present"
              \/ avatar'[a].state = avatar[a].state /\ create'[a] # "created201"
           /\ create[a] # "created201"
           /\ objects \subseteq objects' /\ objects' \subseteq objects \cup {a}
           /\ records \subseteq records' /\ records' \subseteq records \cup {a}
           /\ create'[a] \in {"recording", "checking", "inserting", "created201"} =>
                  a \in objects' \/ create[a] \in {"recording", "checking", "inserting"}
           /\ create'[a] \in {"checking", "inserting", "created201"} =>
                  a \in records' \/ create[a] \in {"checking", "inserting"}
           /\ UNCHANGED <<dropping, attach, update, cascade, cleanup, released>>
<1> USE DEF CreateVars, deletion, Creates
<1>1. CASE Upload(a)
  BY <1>1, CreateToFacts DEF Upload, TypeOK
<1>2. CASE PutImage(a)
  BY <1>2, CreateToFacts DEF PutImage, Put, PutThrows, TypeOK
<1>3. CASE RecordImage(a)
  BY <1>3, CreateToFacts DEF RecordImage, Track, TypeOK
<1>4. CASE CheckSlug(a)
  BY <1>4, CreateToFacts, SlugWritten DEF CheckSlug, TypeOK
<1>5. CASE InsertAvatar(a)
  BY <1>5, CreateToFacts, StateWritten DEF InsertAvatar, TypeOK
<1>6. CASE CreateFails(a)
  BY <1>6, CreateToFacts DEF CreateFails, TypeOK
<1>7. QED
  BY <1>1, <1>2, <1>3, <1>4, <1>5, <1>6 DEF Create

LEMMA CreateStep ==
    ASSUME IInv, NEW a \in Avatars, Create(a)
    PROVE  IInv'
<1> USE CreateFacts, AvatarAssumption DEF IInv
<1>1. TypeOK'
  BY DEF TypeOK
<1>2. DocumentsAreCreated' /\ ImagesAreStored'
  BY DEF SurvivalInv, DocumentsAreCreated, ImagesAreStored
<1>3. \A b \in Avatars : avatar[b].state # "none" => avatar'[b].state = avatar[b].state
  BY DEF SurvivalInv, DocumentsAreCreated
<1>4. AttachmentsAreStored'
  <2>1. DocumentsAge /\ StoredStay(Attachments)
    BY <1>3 DEF DocumentsAge, StoredStay, Gone
  <2>2. QED
    BY <2>1, AttachmentsStay DEF SurvivalInv, StoredStay
<1>5. DeletionsKeepToTheirOwn'
  BY <1>3 DEF SurvivalInv, DeletionsKeepToTheirOwn
<1>6. ASSUME CleanInv PROVE CleanInv'
  BY <1>3, <1>6 DEF CleanInv, CleanupIsThorough, ExpiredLeavesNothing, SurvivalInv,
      DocumentsAreCreated, TypeOK, Cleanups
<1>7. QED
  BY <1>1, <1>2, <1>4, <1>5, <1>6 DEF SurvivalInv

-----------------------------------------------------------------------------
(* POST /files/upload and PATCH /avatars/:id.                              *)

LEMMA AttachToFacts ==
    ASSUME TypeOK, NEW f \in Attachments, NEW from,
           NEW to \in {"idle", "putting", "recording", "done", "failed"}, AttachTo(f, from, to)
    PROVE  /\ attach' \in [Attachments -> Attaches]
           /\ attach[f].stage = from /\ attach'[f].stage = to
           /\ attach'[f].owner = attach[f].owner
           /\ \A g \in Attachments \ {f} : attach'[g] = attach[g]
BY DEF TypeOK, AttachTo, Attaches

LEMMA AttachStep ==
    ASSUME IInv, NEW f \in Attachments, Attach(f)
    PROVE  IInv'
<1> USE AvatarAssumption DEF IInv, AttachVars, deletion
<1>1. /\ attach' \in [Attachments -> Attaches]
      /\ \A g \in Attachments \ {f} : attach'[g] = attach[g]
      /\ UNCHANGED <<avatar, create, update, cascade, cleanup, released, dropping>>
      /\ objects \subseteq objects' /\ objects' \subseteq objects \cup {f}
      /\ records \subseteq records' /\ records' \subseteq records \cup {f}
      /\ \/ /\ attach[f].stage = "idle" /\ attach'[f].stage = "putting"
            /\ attach'[f].owner \in Avatars /\ avatar[attach'[f].owner].state # "none"
         \/ /\ attach[f].stage # "idle" /\ attach'[f].owner = attach[f].owner
            /\ attach'[f].stage \in {"recording", "done", "failed"}
            /\ attach'[f].stage = "recording" => f \in objects'
            /\ attach'[f].stage = "done" => f \in records' /\ attach[f].stage = "recording"
  <2>1. CASE StartAttach(f)
    BY <2>1 DEF StartAttach, TypeOK, Attaches
  <2>2. CASE PutAttachment(f)
    BY <2>2, AttachToFacts DEF PutAttachment, Put, PutThrows
  <2>3. CASE RecordAttachment(f)
    BY <2>3, AttachToFacts DEF RecordAttachment, Track
  <2>4. QED
    BY <2>1, <2>2, <2>3 DEF Attach
<1>2. TypeOK'
  BY <1>1 DEF TypeOK
<1>3. DocumentsAreCreated'
  BY <1>1 DEF SurvivalInv, DocumentsAreCreated
<1>4. ImagesAreStored'
  BY <1>1, ImagesStay DEF SurvivalInv, StoredStay
<1>5. AttachmentsAreStored'
  BY <1>1 DEF SurvivalInv, AttachmentsAreStored, Gone
<1>6. DeletionsKeepToTheirOwn'
  <2>1. ASSUME NEW a \in Avatars, NEW g \in cascade[a].keys
        PROVE  attach'[g].owner = a
    <3>1. g \in Attachments /\ attach[g].owner = a
      BY DEF TypeOK, Cascades, SurvivalInv, DeletionsKeepToTheirOwn
    <3>2. QED
      BY <1>1, <3>1 DEF SurvivalInv, AttachmentsAreStored
  <2>2. QED
    BY <1>1, <2>1 DEF SurvivalInv, DeletionsKeepToTheirOwn
<1>7. ASSUME CleanInv PROVE CleanInv'
  BY <1>1, <1>7 DEF CleanInv, CleanupIsThorough, ExpiredLeavesNothing, TypeOK, Cleanups
<1>8. QED
  BY <1>2, <1>3, <1>4, <1>5, <1>6, <1>7 DEF SurvivalInv

\* A PATCH touches neither the files nor whether an avatar is there.
LEMMA UpdateStep ==
    ASSUME IInv, NEW u \in Updates, CheckUpdate(u) \/ WriteUpdate(u) \/ UpdateFails(u)
    PROVE  IInv'
<1> USE AvatarAssumption DEF IInv, UpdateVars, deletion
<1>1. /\ avatar' \in [Avatars -> Documents]
      /\ \A a \in Avatars : avatar'[a].state = avatar[a].state
      /\ update' \in [Updates -> Bodies]
      /\ (\A v \in Updates : update[v].stage = "writing" => update[v].of \in Avatars)'
      /\ UNCHANGED <<objects, records, dropping, create, attach, cascade, cleanup, released>>
  <2>1. CASE CheckUpdate(u)
    BY <2>1 DEF CheckUpdate, TypeOK, Bodies
  <2>2. ASSUME NEW answer \in {"updated200", "notfound404", "duplicate500", "failed"},
               UpdateEnds(u, answer)
        PROVE  /\ update' \in [Updates -> Bodies]
               /\ (\A v \in Updates : update[v].stage = "writing" => update[v].of \in Avatars)'
    BY <2>2 DEF UpdateEnds, NoUpdate, TypeOK, Bodies
  <2>3. CASE WriteUpdate(u)
    <3>1. update[u].of \in Avatars /\ update[u].slug \in Slugs \cup {NoSlug}
          /\ update[u].kind \in Kinds \cup {SameKind}
      BY <2>3 DEF WriteUpdate, TypeOK, Bodies
    <3>2. avatar[update[u].of].slug \in Slugs \cup {NoSlug} /\ avatar[update[u].of].kind \in Kinds
      BY <3>1, DocumentFacts DEF TypeOK
    <3>3. QED
      BY <2>3, <2>2, <3>1, <3>2, BodyWritten DEF WriteUpdate, TypeOK
  <2>4. CASE UpdateFails(u)
    BY <2>4, <2>2 DEF UpdateFails, TypeOK
  <2>5. QED
    BY <2>1, <2>3, <2>4
<1>2. TypeOK'
  BY <1>1 DEF TypeOK
<1>3. SurvivalInv'
  <2>1. DocumentsAge /\ StoredStay(Avatars) /\ StoredStay(Attachments)
    BY <1>1 DEF DocumentsAge, StoredStay, Gone
  <2>2. ImagesAreStored' /\ AttachmentsAreStored'
    BY <1>1, <2>1, ImagesStay, AttachmentsStay DEF SurvivalInv, StoredStay
  <2>3. DocumentsAreCreated' /\ DeletionsKeepToTheirOwn'
    BY <1>1 DEF SurvivalInv, DocumentsAreCreated, DeletionsKeepToTheirOwn
  <2>4. QED
    BY <2>2, <2>3 DEF SurvivalInv
<1>4. ASSUME CleanInv PROVE CleanInv'
  BY <1>1, <1>4 DEF CleanInv, CleanupIsThorough, ExpiredLeavesNothing, TypeOK, Cleanups
<1>5. QED
  BY <1>2, <1>3, <1>4

-----------------------------------------------------------------------------
(* DELETE /avatars/:id and its cascade.                                    *)

LEMMA RemoveAvatarStep ==
    ASSUME IInv, NEW a \in Avatars, RemoveAvatar(a)
    PROVE  IInv'
<1> USE AvatarAssumption DEF IInv, requests
<1>1. /\ avatar' \in [Avatars -> Documents]
      /\ avatar[a].state = "present" /\ avatar'[a].state = "removed"
      /\ \A b \in Avatars \ {a} : avatar'[b].state = avatar[b].state
      /\ UNCHANGED <<objects, records, dropping, create, attach, update, cleanup, released>>
  BY StateWritten DEF RemoveAvatar, Present
<1>2. /\ cascade' \in [Avatars -> Cascades]
      /\ cascade'[a].keys = cascade[a].keys
      /\ \A b \in Avatars \ {a} : cascade'[b] = cascade[b]
  BY DEF RemoveAvatar, TypeOK, Cascades
<1>3. TypeOK'
  BY <1>1, <1>2 DEF TypeOK
<1>4. DocumentsAreCreated'
  BY <1>1 DEF SurvivalInv, DocumentsAreCreated
<1>5. ImagesAreStored' /\ AttachmentsAreStored'
  <2>1. DocumentsAge /\ StoredStay(Avatars) /\ StoredStay(Attachments)
    BY <1>1 DEF DocumentsAge, StoredStay, Gone
  <2>2. QED
    BY <1>1, <2>1, ImagesStay, AttachmentsStay DEF SurvivalInv, StoredStay
<1>6. DeletionsKeepToTheirOwn'
  BY <1>1, <1>2 DEF SurvivalInv, DeletionsKeepToTheirOwn
<1>7. ASSUME CleanInv PROVE CleanInv'
  BY <1>1, <1>7 DEF CleanInv, CleanupIsThorough, ExpiredLeavesNothing, TypeOK, Cleanups
<1>8. QED
  BY <1>3, <1>4, <1>5, <1>6, <1>7 DEF SurvivalInv

\* deleteByOwner takes files of its avatar only, and that is gone for good.
LEMMA CascadeStep ==
    ASSUME IInv, NEW a \in Avatars, Cascade(a)
    PROVE  IInv'
<1> USE AvatarAssumption DEF IInv, CascadeVars, requests
<1> DEFINE Mine == {f \in Attachments : attach[f].owner = a}
<1>1. avatar[a].state = "removed" /\ cascade[a].keys \subseteq Mine
  BY DEF Cascade, CascadeFinds, CascadeObjects, CascadeRecords, CascadeFails, SurvivalInv,
      DeletionsKeepToTheirOwn, TypeOK, Cascades
<1>2. /\ cascade' \in [Avatars -> Cascades]
      /\ cascade'[a].keys \subseteq Mine
      /\ \A b \in Avatars \ {a} : cascade'[b] = cascade[b]
      /\ objects' \subseteq objects /\ objects \ objects' \subseteq Mine
      /\ records' \subseteq records /\ records \ records' \subseteq Mine
      /\ UNCHANGED <<avatar, dropping, create, attach, update, cleanup, released>>
  <2>1. CASE CascadeFinds(a)
    BY <2>1 DEF CascadeFinds, Owned, TypeOK, Cascades
  <2>2. CASE CascadeObjects(a)
    BY <2>2, <1>1 DEF CascadeObjects, DeleteObjects, TypeOK, Cascades
  <2>3. CASE CascadeRecords(a)
    BY <2>3 DEF CascadeRecords, CascadeEnds, Forget, Owned, TypeOK, Cascades
  <2>4. CASE CascadeFails(a)
    BY <2>4 DEF CascadeFails, CascadeEnds, TypeOK, Cascades
  <2>5. QED
    BY <2>1, <2>2, <2>3, <2>4 DEF Cascade
<1> HIDE DEF Mine
<1>3. TypeOK'
  BY <1>2 DEF TypeOK
<1>4. DocumentsAreCreated'
  BY <1>2 DEF SurvivalInv, DocumentsAreCreated
<1>5. ImagesAreStored'
  <2>1. StoredStay(Avatars)
    BY <1>2 DEF StoredStay, Mine
  <2>2. QED
    BY <1>2, <2>1, ImagesStay DEF SurvivalInv
<1>6. AttachmentsAreStored'
  <2>1. DocumentsAge /\ StoredStay({f \in Attachments : ~Gone(attach[f].owner)'})
    BY <1>1, <1>2 DEF DocumentsAge, StoredStay, Gone, Mine
  <2>2. QED
    BY <1>2, <2>1, AttachmentsStay DEF SurvivalInv
<1>7. DeletionsKeepToTheirOwn'
  BY <1>1, <1>2 DEF SurvivalInv, DeletionsKeepToTheirOwn, Mine
<1>8. ASSUME CleanInv PROVE CleanInv'
  BY <1>2, <1>8 DEF CleanInv, CleanupIsThorough, ExpiredLeavesNothing
<1>9. QED
  BY <1>3, <1>4, <1>5, <1>6, <1>7, <1>8 DEF SurvivalInv

-----------------------------------------------------------------------------
(* The cleanup, single files and crashes.                                  *)

\* What removes only released files and lets avatars only expire or be left alone keeps
\* what SurvivalInv says of them.
LEMMA ReleasedOnly ==
    ASSUME TypeOK, SurvivalInv, UNCHANGED <<create, attach, cascade>>,
           avatar' \in [Avatars -> Documents],
           \A a \in Avatars : \/ avatar'[a].state = avatar[a].state
                              \/ avatar[a].state = "present" /\ avatar'[a].state = "expired",
           released \subseteq released',
           objects \subseteq objects' \cup released', records \subseteq records' \cup released',
           dropping' \subseteq released', cleanup'.keys \subseteq released'
    PROVE  SurvivalInv'
<1> USE DEF SurvivalInv
<1>1. DocumentsAge /\ StoredStay(Avatars) /\ StoredStay(Attachments)
  BY DEF DocumentsAge, StoredStay, Gone
<1>2. ImagesAreStored' /\ AttachmentsAreStored'
  BY <1>1, ImagesStay, AttachmentsStay DEF StoredStay
<1>3. DocumentsAreCreated'
  BY DEF DocumentsAreCreated
<1>4. DeletionsKeepToTheirOwn'
  BY DEF DeletionsKeepToTheirOwn, TypeOK, Cascades
<1>5. QED
  BY <1>2, <1>3, <1>4

LEMMA CleanupStep ==
    ASSUME IInv, Cleanup
    PROVE  IInv'
<1> USE AvatarAssumption DEF IInv, CleanupVars, requests
<1>1. /\ cleanup \in Cleanups /\ cleanup.keys \subseteq Avatars
      /\ cleanup.keys \subseteq released /\ dropping \subseteq released
      /\ avatar \in [Avatars -> Documents]
  BY DEF SurvivalInv, DeletionsKeepToTheirOwn, TypeOK, Cleanups
<1>2. CASE CleanupReads
  <2>1. PICK expired \in SUBSET Custom :
            /\ cleanup' = [stage |-> "objects", keys |-> expired]
            /\ released' = released \cup expired
    BY <1>2 DEF CleanupReads
  <2>2. TypeOK' /\ UNCHANGED <<objects, records, avatar, create, attach, cascade, dropping>>
    BY <1>2, <2>1 DEF CleanupReads, TypeOK, Cleanups, Custom
  <2>3. SurvivalInv'
    BY <1>1, <2>1, <2>2, ReleasedOnly
  <2>4. ASSUME CleanInv PROVE CleanInv'
    BY <2>1, <2>2, <2>4 DEF CleanInv, CleanupIsThorough, ExpiredLeavesNothing, Custom, Present
  <2>5. QED
    BY <2>2, <2>3, <2>4
<1>3. CASE CleanupObjects
  <2>1. /\ cleanup' = [cleanup EXCEPT !.stage = "records"] /\ DeleteObjects(cleanup.keys)
        /\ UNCHANGED <<records, avatar, released, dropping, create, attach, update, cascade>>
    BY <1>3 DEF CleanupObjects
  <2>2. /\ cleanup' \in Cleanups /\ cleanup'.keys = cleanup.keys /\ cleanup'.stage = "records"
    BY <1>1, <2>1 DEF Cleanups
  <2>3. /\ objects' \subseteq objects /\ objects \ objects' \subseteq cleanup.keys
        /\ "delete" \notin R2Fails => objects' = objects \ cleanup.keys
    BY <2>1 DEF DeleteObjects
  <2>4. TypeOK'
    BY <2>1, <2>2 DEF TypeOK
  <2>5. SurvivalInv'
    BY <1>1, <2>1, <2>2, <2>3, ReleasedOnly
  <2>6. ASSUME "delete" \notin R2Fails, CleanInv PROVE CleanInv'
    BY <2>1, <2>2, <2>3, <2>6 DEF CleanInv, CleanupIsThorough, ExpiredLeavesNothing
  <2>7. QED
    BY <2>4, <2>5, <2>6
<1>4. CASE CleanupRecords
  <2>1. /\ cleanup' = [cleanup EXCEPT !.stage = "docs"] /\ records' = records \ cleanup.keys
        /\ cleanup.stage = "records"
        /\ UNCHANGED <<objects, avatar, released, dropping, create, attach, update, cascade>>
    BY <1>4 DEF CleanupRecords, Forget
  <2>2. /\ cleanup' \in Cleanups /\ cleanup'.keys = cleanup.keys /\ cleanup'.stage = "docs"
    BY <1>1, <2>1 DEF Cleanups
  <2>3. TypeOK'
    BY <2>1, <2>2 DEF TypeOK
  <2>4. SurvivalInv'
    BY <1>1, <2>1, <2>2, ReleasedOnly
  <2>5. ASSUME CleanInv PROVE CleanInv'
    BY <2>1, <2>2, <2>5 DEF CleanInv, CleanupIsThorough, ExpiredLeavesNothing
  <2>6. QED
    BY <2>3, <2>4, <2>5
<1>5. CASE CleanupDocs
  <2>1. /\ cleanup' = NoDeletion /\ Expire(cleanup.keys) /\ cleanup.stage = "docs"
        /\ UNCHANGED <<objects, records, released, dropping, create, attach, update, cascade>>
    BY <1>5 DEF CleanupDocs
  <2>2. /\ avatar' \in [Avatars -> Documents]
        /\ \A a \in cleanup.keys : Present(a) => avatar'[a].state = "expired"
        /\ \A a \in Avatars :
               a \notin cleanup.keys \/ ~Present(a) => avatar'[a].state = avatar[a].state
    BY <1>1, <2>1, Expired
  <2>3. cleanup' \in Cleanups /\ cleanup'.keys = {} /\ cleanup'.stage = "idle"
    BY <2>1 DEF NoDeletion, Cleanups
  <2>4. TypeOK'
    BY <2>1, <2>2, <2>3 DEF TypeOK
  <2>5. SurvivalInv'
    BY <1>1, <2>1, <2>2, <2>3, ReleasedOnly DEF Present
  <2>6. ASSUME CleanInv PROVE CleanInv'
    BY <1>1, <2>1, <2>2, <2>3, <2>6
    DEF CleanInv, CleanupIsThorough, ExpiredLeavesNothing, Present
  <2>7. QED
    BY <2>4, <2>5, <2>6
<1>6. CASE CleanupFails
  <2>1. /\ cleanup' = NoDeletion
        /\ UNCHANGED <<objects, records, avatar, released, dropping, create, attach, update,
                       cascade>>
    BY <1>6 DEF CleanupFails
  <2>2. cleanup' \in Cleanups /\ cleanup'.keys = {} /\ cleanup'.stage = "idle"
    BY <2>1 DEF NoDeletion, Cleanups
  <2>3. TypeOK'
    BY <2>1, <2>2 DEF TypeOK
  <2>4. SurvivalInv'
    BY <1>1, <2>1, <2>2, ReleasedOnly
  <2>5. ASSUME CleanInv PROVE CleanInv'
    BY <2>1, <2>2, <2>5 DEF CleanInv, CleanupIsThorough, ExpiredLeavesNothing
  <2>6. QED
    BY <2>3, <2>4, <2>5
<1>7. QED
  BY <1>2, <1>3, <1>4, <1>5, <1>6 DEF Cleanup

\* DELETE /files/:id counts what it takes as released.
LEMMA FileStep ==
    ASSUME IInv, NEW k \in Keys, RemoveFile(k) \/ DropObject(k)
    PROVE  IInv'
<1> USE DEF IInv, requests, deletion
<1>1. /\ dropping \subseteq released /\ cleanup.keys \subseteq released
      /\ avatar \in [Avatars -> Documents]
  BY DEF SurvivalInv, DeletionsKeepToTheirOwn, TypeOK
<1>2. /\ UNCHANGED <<avatar, create, attach, update, cascade, cleanup>>
      /\ released' \in {released, released \cup {k}} /\ dropping' \subseteq released'
      /\ objects' \subseteq objects /\ records' \subseteq records
      /\ objects \subseteq objects' \cup released' /\ records \subseteq records' \cup released'
  BY <1>1 DEF RemoveFile, Unfile, Forget, DropObject, Drop, DeleteObjects
<1>3. TypeOK'
  BY <1>2 DEF TypeOK
<1>4. SurvivalInv'
  BY <1>1, <1>2, ReleasedOnly
<1>5. ASSUME CleanInv PROVE CleanInv'
  BY <1>2, <1>5 DEF CleanInv, CleanupIsThorough, ExpiredLeavesNothing
<1>6. QED
  BY <1>3, <1>4, <1>5

\* A crash ends what runs; the files stay as they are.
LEMMA CrashStep == ASSUME IInv, Crash PROVE IInv'
<1> USE DEF IInv
<1>1. /\ UNCHANGED <<objects, records, avatar, released>> /\ dropping' = {}
      /\ cleanup' = NoDeletion
  BY DEF Crash
<1>2. cleanup' \in Cleanups /\ cleanup'.keys = {} /\ cleanup'.stage = "idle"
  BY <1>1 DEF NoDeletion, Cleanups
<1>3. /\ create' \in [Avatars -> Creates]
      /\ \A a \in Avatars :
             create'[a] = create[a] \/ (create[a] # "created201" /\ create'[a] = "failed")
  BY DEF Crash, Interrupted, TypeOK, Creates
<1>4. /\ attach' \in [Attachments -> Attaches]
      /\ \A f \in Attachments :
             /\ attach'[f].owner = attach[f].owner
             /\ attach'[f].stage = attach[f].stage
                \/ (attach[f].stage # "idle" /\ attach'[f].stage = "failed")
  BY DEF Crash, Interrupted, TypeOK, Attaches
<1>5. /\ update' \in [Updates -> Bodies]
      /\ \A u \in Updates : update'[u].stage # "writing"
  BY DEF Crash, Interrupted, TypeOK, Bodies, NoUpdate
<1>6. /\ cascade' \in [Avatars -> Cascades]
      /\ \A a \in Avatars :
             cascade'[a] = cascade[a] \/ (cascade'[a].stage = "failed" /\ cascade'[a].keys = {})
  BY DEF Crash, TypeOK, Cascades
<1>7. TypeOK'
  BY <1>1, <1>2, <1>3, <1>4, <1>5, <1>6 DEF TypeOK
<1>8. DocumentsAreCreated' /\ ImagesAreStored'
  BY <1>1, <1>3 DEF SurvivalInv, DocumentsAreCreated, ImagesAreStored
<1>9. AttachmentsAreStored'
  BY <1>1, <1>4 DEF SurvivalInv, AttachmentsAreStored, Gone
<1>10. DeletionsKeepToTheirOwn'
  BY <1>1, <1>2, <1>4, <1>6 DEF SurvivalInv, DeletionsKeepToTheirOwn, TypeOK, Cascades
<1>11. ASSUME CleanInv PROVE CleanInv'
  BY <1>1, <1>2, <1>11 DEF CleanInv, CleanupIsThorough, ExpiredLeavesNothing
<1>12. QED
  BY <1>7, <1>8, <1>9, <1>10, <1>11 DEF SurvivalInv

-----------------------------------------------------------------------------

LEMMA NextInv == ASSUME IInv, [Next]_vars PROVE IInv'
<1>1. CASE UNCHANGED vars
  BY <1>1 DEF vars, requests, deletion, IInv, TypeOK, SurvivalInv, DocumentsAreCreated,
      ImagesAreStored, AttachmentsAreStored, DeletionsKeepToTheirOwn, Gone, CleanInv,
      CleanupIsThorough, ExpiredLeavesNothing
<1>2. CASE Next
  BY <1>2, CreateStep, RemoveAvatarStep, CascadeStep, AttachStep, UpdateStep, CleanupStep,
      FileStep, CrashStep DEF Next
<1>3. QED
  BY <1>1, <1>2

\* The invariant behind both properties.
THEOREM LibraryInvariant == Spec => []IInv
<1>1. IInv /\ [Next]_vars => IInv'
  BY NextInv
<1>2. QED
  BY InitInv, <1>1, PTL DEF Spec

\* file/service.ts:111-131 and cleanup/index.ts:82-116: the files of an avatar that exists are
\* there, whatever cascades, requests, cleanups and crashes there have been.
THEOREM AvatarFilesSurvive == Spec => []FilesOfAvatarsSurvive
<1>1. IInv => FilesOfAvatarsSurvive
  BY DEF IInv, TypeOK, Attaches, SurvivalInv, DocumentsAreCreated, ImagesAreStored,
      AttachmentsAreStored, Gone, Present, FilesOfAvatarsSurvive
<1>2. QED
  BY <1>1, LibraryInvariant, PTL

\* cleanup/index.ts:82-116: if R2 deletes what it is asked to, an avatar the cleanup has deleted
\* leaves neither object nor FileRecord.
THEOREM ExpiredAvatarsLeaveNothing ==
    ASSUME "delete" \notin R2Fails PROVE Spec => []ExpiredLeavesNothing
<1>1. IInv => ExpiredLeavesNothing
  BY DEF IInv, CleanInv
<1>2. QED
  BY <1>1, LibraryInvariant, PTL

-----------------------------------------------------------------------------
(* The way of an uploaded file to R2 (TempUploads): temporary files and    *)
(* the FileRecords of uploads.                                             *)

TempEarly == {"idle", "receiving", "checking"}
TempStages == TempEarly \cup {"uploading", "recording", "answered", "lost"}
TempStatuses == {"none", "putting", "tracking", "recorded", "unrecorded", "failed"}

TempTypeOK ==
    /\ up \in BOOLEAN
    /\ stage \in [Requests -> TempStages]
    /\ upload \in [Files -> TempStatuses]
    /\ disk \subseteq Files /\ accepted \subseteq Files

\* Nothing of a request is uploaded before StartUploads.
EarlyUploadsNothing == \A f \in Files : stage[f[1]] \in TempEarly => upload[f] = "none"

\* A request with an upload under way has not begun to record, and the process runs.
PutsAreUploading ==
    \A f \in Files : upload[f] = "putting" => stage[f[1]] \in {"uploading", "answered"} /\ up

\* The process of a live request runs.
LiveIsUp == ~up => Live = {}

\* The file of an upload goes only when a sibling has failed.
PutsHaveFiles ==
    \A f \in Files : upload[f] = "putting" =>
        \/ f \in disk
        \/ \E other \in FilesOf(f[1]) \ {f} : upload[other] = "failed"

TempIInv ==
    /\ TempTypeOK /\ OnlyCrashesLeaveFiles
    /\ EarlyUploadsNothing /\ PutsAreUploading /\ LiveIsUp /\ PutsHaveFiles
    /\ UntrackedHasACause

-----------------------------------------------------------------------------

LEMMA PartFacts ==
    \A f \in Files :
        /\ f[1] \in Requests
        /\ f \in FilesOf(f[1])
        /\ FilesOf(f[1]) \subseteq Files
        /\ \A g \in FilesOf(f[1]) : g[1] = f[1]
BY DEF Files, FilesOf

\* Requests and uploads come from nothing.
LEMMA TempInitInv == TempInit => TempIInv
BY PartFacts DEF TempInit, TempIInv, TempTypeOK, OnlyCrashesLeaveFiles,
    EarlyUploadsNothing, PutsAreUploading, LiveIsUp, PutsHaveFiles, UntrackedHasACause,
    Live, TempStages, TempEarly, TempStatuses

\* What multer, the validation and the controller do before the first upload: it takes no
\* file an upload needs, for there is none (EarlyUploadsNothing).
LEMMA ReceivingStep ==
    ASSUME TempIInv,
           \/ \E f \in Files : Arrive(f)
           \/ \E r \in Requests :
                \/ ReceiveFails(r) \/ Receive(r)
                \/ Reject(r) \/ StartUploads(r)
    PROVE  TempIInv'
<1> USE PartFacts DEF TempIInv, TempTypeOK, OnlyCrashesLeaveFiles, EarlyUploadsNothing,
    PutsAreUploading, LiveIsUp, PutsHaveFiles, UntrackedHasACause, Live, TempStages,
    TempEarly, TempStatuses, StageTo, RemoveFiles, store, process
<1>1. ASSUME NEW f \in Files, Arrive(f) PROVE TempIInv'
  BY <1>1 DEF Arrive
<1>2. ASSUME NEW r \in Requests, ReceiveFails(r) PROVE TempIInv'
  BY <1>2 DEF ReceiveFails, FilesOf
<1>3. ASSUME NEW r \in Requests, Receive(r) PROVE TempIInv'
  BY <1>3 DEF Receive
<1>4. ASSUME NEW r \in Requests, Reject(r) PROVE TempIInv'
  BY <1>4 DEF Reject, CleanUp, FilesOf
<1>5. ASSUME NEW r \in Requests, StartUploads(r) PROVE TempIInv'
  BY <1>5 DEF StartUploads, FilesOf
<1>6. QED
  BY <1>1, <1>2, <1>3, <1>4, <1>5
-----------------------------------------------------------------------------

\* The stages an upload's end can lead to, and the files it may remove: its own, and those of
\* its request with the last upload (sendResponse).
LEMMA ProceedFacts ==
    ASSUME TempIInv, NEW f \in Files, upload[f] = "putting", Proceed(f)
    PROVE  /\ stage' \in [Requests -> TempStages]
           /\ \A r \in Requests \ {f[1]} : stage'[r] = stage[r]
           /\ stage'[f[1]] \in {"uploading", "recording", "answered"}
           /\ stage'[f[1]] = "recording" => LastUpload(f)
           /\ \/ stage'[f[1]] # "answered"
              \/ stage[f[1]] = "answered"
              \/ disk' \cap FilesOf(f[1]) = {}
           /\ \A g \in disk \ disk' : g = f \/ (g[1] = f[1] /\ LastUpload(f))
           /\ disk' \subseteq disk
BY PartFacts DEF TempIInv, TempTypeOK, PutsAreUploading, Proceed, StageTo,
    RemoveFiles, CleanUp, FilesOf, TempStages, TempEarly

LEMMA UploadEndStep ==
    ASSUME TempIInv, NEW f \in Files, UploadPart(f)
    PROVE  TempIInv'
<1> USE PartFacts DEF TempIInv, TempTypeOK, UploadTo, TempStatuses, TempStages, TempEarly,
    process
<1>1. /\ upload[f] = "putting" /\ f \in disk /\ Proceed(f)
      /\ upload' = [upload EXCEPT ![f] = "tracking"]
      /\ UNCHANGED <<up, left, records>> /\ accepted' = accepted \cup {f}
  BY DEF UploadPart
<1>2. TempTypeOK'
  BY <1>1, ProceedFacts
<1>3. OnlyCrashesLeaveFiles'
  BY <1>1, ProceedFacts DEF OnlyCrashesLeaveFiles, Live, FilesOf
<1>4. EarlyUploadsNothing' /\ PutsAreUploading'
  BY <1>1, ProceedFacts DEF EarlyUploadsNothing, PutsAreUploading, LastUpload, FilesOf
<1>5. LiveIsUp'
  BY <1>1 DEF LiveIsUp, PutsAreUploading
<1>6. PutsHaveFiles'
  BY <1>1, ProceedFacts DEF PutsHaveFiles, LastUpload, FilesOf
<1>7. UntrackedHasACause'
  BY <1>1 DEF UntrackedHasACause, FilesOf
<1>8. QED
  BY <1>2, <1>3, <1>4, <1>5, <1>6, <1>7

\* An upload that fails leaves its siblings a failed one; the answer removes their files.
LEMMA FailureStep ==
    ASSUME TempIInv, NEW f \in Files, UploadFails(f) \/ UploadTooLate(f)
    PROVE  TempIInv'
<1> USE PartFacts DEF TempIInv, TempTypeOK, UploadTo, TempStatuses, TempStages, TempEarly,
    process, StageTo, RemoveFiles, AnswerError, CleanUp, FilesOf
<1>1. CASE UploadFails(f)
  <2>1. TempTypeOK' /\ OnlyCrashesLeaveFiles' /\ LiveIsUp'
    BY <1>1 DEF UploadFails, OnlyCrashesLeaveFiles, LiveIsUp, Live
  <2>2. EarlyUploadsNothing' /\ PutsAreUploading'
    BY <1>1 DEF UploadFails, EarlyUploadsNothing, PutsAreUploading
  <2>3. PutsHaveFiles'
    BY <1>1 DEF UploadFails, PutsHaveFiles
  <2>4. UntrackedHasACause'
    BY <1>1 DEF UploadFails, UntrackedHasACause
  <2>5. QED
    BY <2>1, <2>2, <2>3, <2>4
<1>2. CASE UploadTooLate(f)
  <2>1. TempTypeOK' /\ OnlyCrashesLeaveFiles' /\ LiveIsUp'
    BY <1>2 DEF UploadTooLate, OnlyCrashesLeaveFiles, LiveIsUp, Live
  <2>2. EarlyUploadsNothing' /\ PutsAreUploading'
    BY <1>2 DEF UploadTooLate, EarlyUploadsNothing, PutsAreUploading
  <2>3. PutsHaveFiles'
    BY <1>2 DEF UploadTooLate, PutsHaveFiles
  <2>4. UntrackedHasACause'
    BY <1>2 DEF UploadTooLate, UntrackedHasACause, PutsHaveFiles
  <2>5. QED
    BY <2>1, <2>2, <2>3, <2>4
<1>3. QED
  BY <1>1, <1>2

\* The request that waits for its FileRecord has no upload under way (PutsAreUploading), so
\* that the answer takes no file from one.
LEMMA RecordedStep ==
    ASSUME TempIInv, NEW f \in Files, Record(f)
    PROVE  TempIInv'
<1> USE PartFacts DEF TempIInv, TempTypeOK, UploadTo, TempStatuses, TempStages, TempEarly,
    process, StageTo, RemoveFiles, AnswerRecorded, CleanUp,
    FilesOf, Record, Track
<1>1. TempTypeOK' /\ OnlyCrashesLeaveFiles' /\ LiveIsUp'
  BY DEF OnlyCrashesLeaveFiles, LiveIsUp, Live
<1>2. EarlyUploadsNothing' /\ PutsAreUploading'
  BY DEF EarlyUploadsNothing, PutsAreUploading
<1>3. PutsHaveFiles'
  BY DEF PutsHaveFiles, PutsAreUploading
<1>4. UntrackedHasACause'
  BY DEF UntrackedHasACause
<1>5. QED
  BY <1>1, <1>2, <1>3, <1>4

-----------------------------------------------------------------------------

\* A crash ends every upload and marks what it leaves.
LEMMA EndStep == ASSUME TempIInv, End PROVE TempIInv'
<1> USE PartFacts DEF TempIInv, TempTypeOK
<1>1. /\ up' = FALSE /\ left' = disk /\ UNCHANGED <<disk, accepted, records>>
      /\ stage' \in [Requests -> TempStages]
      /\ \A r \in Requests : stage'[r] = stage[r] \/ stage'[r] = "lost"
      /\ Live' = {}
  BY DEF End, TempStages, Live, store
<1>2. /\ upload' \in [Files -> TempStatuses]
      /\ \A f \in Files :
             /\ upload'[f] # "putting"
             /\ upload[f] \in {"none", "failed"} => upload'[f] = upload[f]
             /\ upload[f] \in {"tracking", "unrecorded"} => upload'[f] = "unrecorded"
  BY DEF End, TempStatuses
<1>3. TempTypeOK' /\ OnlyCrashesLeaveFiles'
  BY <1>1, <1>2 DEF OnlyCrashesLeaveFiles
<1>4. LiveIsUp'
  BY <1>1 DEF LiveIsUp
<1>5. EarlyUploadsNothing'
  BY <1>1, <1>2 DEF EarlyUploadsNothing, TempEarly
<1>6. PutsAreUploading' /\ PutsHaveFiles'
  BY <1>2 DEF PutsAreUploading, PutsHaveFiles
<1>7. UntrackedHasACause'
  BY <1>1, <1>2 DEF UntrackedHasACause, FilesOf
<1>8. QED
  BY <1>3, <1>4, <1>5, <1>6, <1>7

\* cleanupTempFiles runs when nothing else does (LiveIsUp).
LEMMA ProcessStep ==
    ASSUME TempIInv, Start \/ \E f \in Files : Grow(f)
    PROVE  TempIInv'
<1> USE PartFacts DEF TempIInv, TempTypeOK, RemoveFiles, store, process
<1>1. CASE Start
  BY <1>1 DEF Start, Restart, OnlyCrashesLeaveFiles, EarlyUploadsNothing,
      PutsAreUploading, LiveIsUp, PutsHaveFiles, UntrackedHasACause, Live
<1>2. ASSUME NEW f \in Files, Grow(f) PROVE TempIInv'
  BY <1>2 DEF Grow, OnlyCrashesLeaveFiles, EarlyUploadsNothing, PutsAreUploading,
      LiveIsUp, PutsHaveFiles, UntrackedHasACause, Live
<1>3. QED
  BY <1>1, <1>2

LEMMA TempNextInv == ASSUME TempIInv, [TempNext]_tempVars PROVE TempIInv'
<1>1. CASE UNCHANGED tempVars
  BY <1>1 DEF tempVars, store, process, TempIInv, TempTypeOK,
      OnlyCrashesLeaveFiles, EarlyUploadsNothing, PutsAreUploading, LiveIsUp,
      PutsHaveFiles, UntrackedHasACause, Live
<1>2. CASE TempNext
  BY <1>2, ReceivingStep, UploadEndStep, FailureStep, RecordedStep, EndStep, ProcessStep
      DEF TempNext
<1>3. QED
  BY <1>1, <1>2

\* The inductive invariant of temporary uploads.
THEOREM UploadsInvariant == TempSpec => []TempIInv
<1>1. TempIInv /\ [TempNext]_tempVars => TempIInv'
  BY TempNextInv
<1>2. QED
  BY TempInitInv, <1>1, PTL DEF TempSpec

\* conventions.md:325: a temporary file outlives its request only if the process ended while
\* it was there, however many requests upload and however often the process ends.
THEOREM OnlyCrashesLeave == TempSpec => []OnlyCrashesLeaveFiles
<1>1. TempIInv => OnlyCrashesLeaveFiles
  BY DEF TempIInv
<1>2. QED
  BY <1>1, UploadsInvariant, PTL

\* controller.ts:95-125: a stored part without a FileRecord has a cause: its creation is under
\* way or broke off, or another part of its request failed.
THEOREM UntrackedHave == TempSpec => []UntrackedHasACause
<1>1. TempIInv => UntrackedHasACause
  BY DEF TempIInv
<1>2. QED
  BY <1>1, UploadsInvariant, PTL
=============================================================================
