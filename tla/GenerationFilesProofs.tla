----------------------- MODULE GenerationFilesProofs -----------------------
(***************************************************************************)
(* What GenerationFiles promises of the files of generations, for any      *)
(* number of generations, removals and crashes.                            *)
(***************************************************************************)
EXTENDS GenerationFiles, TLAPS

Underway == {"read", "objects", "records"}

Deletion == [stage : {"idle", "done", "failed"} \cup Underway,
             gens : SUBSET Gens, keys : SUBSET Keys, refs : SUBSET Keys]

Document == [present : BOOLEAN, refs : SUBSET Kinds, output : Keys \cup {NoKey}]

TypeOK ==
    /\ doc \in [Gens -> Document]
    /\ request \in [Gens -> [test : BOOLEAN, files : SUBSET Inputs]]
    /\ create \in [Gens -> {"idle", "uploading", "answered", "failed", "lost"}]
    /\ upload \in [Gens -> [Inputs -> {"none", "putting", "tracking", "tracked", "untracked", "failed"}]]
    /\ refIds \in [Gens -> SUBSET Inputs]
    /\ saving \in [Gens -> SUBSET Inputs]
    /\ external \in [Gens -> {"none", "put", "recorded", "failed"}]
    /\ link \in [Gens -> {"none", "finding", "found", "ended"}]
    /\ del \in [Deleters -> Deletion]
    /\ old \subseteq Gens
    /\ crashes \in Nat

-----------------------------------------------------------------------------
(* What has happened to a generation so far.                               *)

\* Nothing of a generation is there before its request.
NothingBeforeCreate ==
    \A g \in Gens : create[g] = "idle" =>
        /\ ~doc[g].present /\ Files(g) = {} /\ refIds[g] = {} /\ saving[g] = {}
        /\ external[g] = "none" /\ link[g] = "none" /\ g \notin old

\* A document that has gone refers to nothing; the output key is the generation's own.
DocsAreTheirOwn ==
    \A g \in Gens :
        /\ ~doc[g].present => doc[g].refs = {} /\ doc[g].output = NoKey
        /\ doc[g].output \in {NoKey, OutputKey(g)}

\* References are set to tracked uploads only.
RefsAreTracked ==
    \A g \in Gens :
        /\ saving[g] \subseteq refIds[g]
        /\ doc[g].refs \cap Inputs \subseteq refIds[g]
        /\ \A k \in refIds[g] : upload[g][k] = "tracked"

\* An upload is one of the request's files.
UploadsAreFiles ==
    \A g \in Gens, k \in Inputs : upload[g][k] = "none" <=> k \notin Files(g)

\* An old generation is created, and its background work is over.
OldIsSettled == \A g \in old : Settled(g)

-----------------------------------------------------------------------------
(* What may be deleted.                                                    *)

\* Nothing is deleted that was not asked for, and never the image of an avatar.
DeletionsAreAsked ==
    /\ dropping \subseteq released
    /\ \A x \in Deleters : del[x].keys \cup del[x].refs \subseteq released
    /\ AvatarKey \notin records
    /\ AvatarKey \notin released /\ AvatarKey \in objects

\* An input whose record exists, or which somebody deletes, has been tracked.
DeletedInputsWereTracked ==
    \A g \in Gens, k \in Inputs :
        \/ <<g, k>> \in records \cup dropping
        \/ \E x \in Deleters : <<g, k>> \in del[x].keys \cup del[x].refs
        => upload[g][k] = "tracked"

-----------------------------------------------------------------------------
(* What is stored.                                                         *)

Stored(k) == k \in objects \cup released

\* A record has an object behind it, until somebody deletes it.
RecordsAreStored == \A k \in records : Stored(k)

\* So has an upload that succeeded.
UploadsAreStored ==
    \A g \in Gens, k \in Inputs :
        /\ upload[g][k] = "tracking" => <<g, k>> \in objects
        /\ upload[g][k] \in {"tracked", "untracked"} => Stored(<<g, k>>)

\* The object of an external upload.
OutputsAreStored == \A g \in Gens : external[g] \in {"put", "recorded"} => Stored(<<g, "output">>)

\* Once answered 201, no upload is on its way.
AnsweredIsComplete ==
    \A g \in Gens : create[g] = "answered" => \A k \in Inputs : upload[g][k] # "putting"

Backed(k) == k \in released \/ k \in objects \cap records

\* What is about to be referred to has a record and an object, too.
PendingRefsAreBacked ==
    \A g \in Gens :
        /\ \A k \in refIds[g] : Backed(<<g, k>>)
        /\ link[g] = "found" => Backed(OutputKey(g))

-----------------------------------------------------------------------------
(* Deletions in progress.                                                  *)

\* Whoever deletes an input's object will delete its record.
KeysHaveRefs ==
    \A x \in Deleters, g \in Gens, k \in Inputs :
        /\ <<g, k>> \in del[x].keys => <<g, k>> \in del[x].refs
        /\ <<g, k>> \in del[x].refs => g \in del[x].gens

\* A file the user deletes has lost its record first.
DroppedHaveNoRecord == \A g \in Gens, k \in Inputs : <<g, k>> \in dropping => <<g, k>> \notin records

\* A deletion that is past the records has left none of them.
DeletedRecordsAreGone ==
    \A x \in Deleters, g \in Gens, k \in Inputs :
        del[x].stage \in {"records", "done"} /\ <<g, k>> \in del[x].refs => <<g, k>> \notin records

\* A deletion has read documents there were, and has taken them away in the end.
DoneIsGone ==
    \A x \in Deleters : \A g \in del[x].gens :
        /\ create[g] # "idle"
        /\ del[x].stage = "done" => ~doc[g].present

\* The cleanup keeps nothing of its last run, and deletes old documents.
CleanupIsOfTheOld ==
    /\ del[Cleaner].stage \notin {"done", "failed"}
    /\ del[Cleaner].gens \subseteq old

\* A deletion of an old document under way has read all its references.
OldReadsAll ==
    \A x \in Deleters : del[x].stage \in Underway =>
        \A g \in del[x].gens \cap old : \A k \in doc[g].refs \cap Inputs : <<g, k>> \in del[x].refs

\* A reference somebody has read stays in the document until the record has gone, unless a
\* deletion that had read the document before took it away, before the seventh day.
Taken(g, k) == g \notin old /\ TakenAway(g, k)

ReadRefsStay ==
    \A x \in Deleters, g \in Gens, k \in Inputs :
        <<g, k>> \in del[x].refs \cap records => k \in doc[g].refs \/ Taken(g, k)

\* So does the reference of a record that has lost its object.
LostObjectsAreReferredTo ==
    \A g \in Gens, k \in Inputs :
        <<g, k>> \in records \ objects => k \in doc[g].refs \/ Taken(g, k)

\* Who deleted the object in the first week has the record in hand, or broke off.
LostObjectsHaveACulprit ==
    \A g \in Gens \ old, k \in Inputs :
        <<g, k>> \in records \ objects =>
            \E x \in Removals : <<g, k>> \in del[x].refs /\ del[x].stage \in {"objects", "failed"}

Progress ==
    /\ TypeOK
    /\ NothingBeforeCreate /\ DocsAreTheirOwn /\ RefsAreTracked /\ UploadsAreFiles /\ OldIsSettled

Asked == DeletionsAreAsked /\ DeletedInputsWereTracked

Kept ==
    /\ RecordsAreStored /\ UploadsAreStored /\ OutputsAreStored /\ AnsweredIsComplete
    /\ PendingRefsAreBacked /\ AnsweredMeansStored /\ RefsAreBacked

InReach ==
    /\ KeysHaveRefs /\ DroppedHaveNoRecord /\ DeletedRecordsAreGone /\ DoneIsGone
    /\ CleanupIsOfTheOld /\ OldReadsAll /\ ReadRefsStay
    /\ LostObjectsAreReferredTo /\ LostObjectsHaveACulprit

IInv == Progress /\ Asked /\ Kept /\ InReach

-----------------------------------------------------------------------------
(* Keys, and the records of deletions.                                     *)

\* The keys of generations are different from each other and from those of the library.
LEMMA KeyFacts ==
    /\ AvatarKey \in Keys /\ TestKey \in Keys /\ NoKey \notin Keys
    /\ AvatarKey # TestKey /\ Cleaner \notin Removals
    /\ \A g \in Gens, k \in Kinds :
        <<g, k>> \in Keys /\ <<g, k>> \notin {AvatarKey, TestKey, NoKey}
BY FilesAssumption DEF Kinds, Inputs, AvatarKey, TestKey, NoKey

\* The output key is not that of an input, and neither is an avatar's.
LEMMA OutputFacts ==
    ASSUME NEW g \in Gens
    PROVE  /\ OutputKey(g) \in Keys \ {AvatarKey}
           /\ \A h \in Gens, k \in Inputs : OutputKey(g) # <<h, k>>
BY KeyFacts DEF OutputKey, Kinds, Inputs

\* What a deletion collects: the records of the references, and of the objects only those the
\* references name, and the output's.
LEMMA CollectFacts ==
    ASSUME TypeOK, DocsAreTheirOwn, RefsAreTracked, UploadsAreFiles, NEW g \in Gens
    PROVE  /\ CollectKeys(g) \subseteq Keys \ {AvatarKey}
           /\ CollectRefs(g) \subseteq Keys \ {AvatarKey}
           /\ \A h \in Gens, k \in Inputs :
                /\ <<h, k>> \in CollectKeys(g) => h = g /\ k \in doc[g].refs
                /\ <<h, k>> \in CollectRefs(g) <=> h = g /\ k \in doc[g].refs
<1>1. \A k \in doc[g].refs \cap Inputs : k \in Files(g)
  BY DEF TypeOK, RefsAreTracked, UploadsAreFiles
<1>2. /\ doc[g].refs \subseteq Kinds
      /\ "image" \in doc[g].refs => ImageKey(g) = <<g, "image">>
      /\ doc[g].output \in {NoKey, OutputKey(g)}
  BY <1>1 DEF TypeOK, Document, ImageKey, Inputs, DocsAreTheirOwn
<1>3. ASSUME NEW key \in CollectKeys(g)
      PROVE  \/ key = OutputKey(g)
             \/ \E k \in doc[g].refs \cap Inputs : key = <<g, k>>
  BY <1>2 DEF CollectKeys, Inputs
<1>4. /\ CollectKeys(g) \subseteq Keys \ {AvatarKey}
      /\ \A h \in Gens, k \in Inputs : <<h, k>> \in CollectKeys(g) => h = g /\ k \in doc[g].refs
  BY <1>3, KeyFacts, OutputFacts DEF Kinds
<1>5. ASSUME NEW key
      PROVE  key \in CollectRefs(g) <=>
                \/ "output" \in doc[g].refs /\ key = OutputKey(g)
                \/ \E k \in doc[g].refs \cap Inputs : key = <<g, k>>
  BY <1>2 DEF CollectRefs, RefKey, Kinds, Inputs
<1>6. /\ CollectRefs(g) \subseteq Keys \ {AvatarKey}
      /\ \A h \in Gens, k \in Inputs : <<h, k>> \in CollectRefs(g) <=> h = g /\ k \in doc[g].refs
  BY <1>5, KeyFacts, OutputFacts DEF Kinds
<1>7. QED
  BY <1>4, <1>6

\* A finished cleanup is free again; any other deletion keeps what it has read.
LEMMA StageFacts ==
    ASSUME TypeOK, NEW x \in Deleters, NEW s \in {"objects", "records", "done", "failed"}
    PROVE  /\ Stage(x, s) \in Deletion
           /\ \/ x = Cleaner /\ s \in {"done", "failed"} /\ Stage(x, s) = NoDeletion
              \/ /\ ~(x = Cleaner /\ s \in {"done", "failed"})
                 /\ Stage(x, s).stage = s /\ Stage(x, s).gens = del[x].gens
                 /\ Stage(x, s).keys = del[x].keys /\ Stage(x, s).refs = del[x].refs
<1>1. del[x] \in Deletion
  BY DEF TypeOK
<1>2. NoDeletion \in Deletion
  BY DEF NoDeletion, Deletion
<1>3. QED
  BY <1>1, <1>2 DEF Stage, Deletion, Underway

LEMMA AdvanceFacts ==
    ASSUME TypeOK, NEW x \in Deleters, NEW from, NEW s \in {"objects", "records", "done", "failed"},
           del[x].stage = from, del' = [del EXCEPT ![x] = Stage(x, s)]
    PROVE  /\ del' \in [Deleters -> Deletion]
           /\ del'[x] = Stage(x, s)
           /\ \A y \in Deleters \ {x} : del'[y] = del[y]
BY StageFacts DEF TypeOK

\* A write to one field of a document.
LEMMA DocFacts ==
    ASSUME TypeOK, NEW g \in Gens
    PROVE  /\ doc' = [doc EXCEPT ![g].present = TRUE] =>
                /\ doc' \in [Gens -> Document] /\ doc'[g].present
                /\ doc'[g].refs = doc[g].refs /\ doc'[g].output = doc[g].output
                /\ \A h \in Gens \ {g} : doc'[h] = doc[h]
           /\ \A r \in SUBSET Kinds : doc' = [doc EXCEPT ![g].refs = r] =>
                /\ doc' \in [Gens -> Document] /\ doc'[g].refs = r
                /\ doc'[g].present = doc[g].present /\ doc'[g].output = doc[g].output
                /\ \A h \in Gens \ {g} : doc'[h] = doc[h]
           /\ \A k \in Keys : doc' = [doc EXCEPT ![g].output = k] =>
                /\ doc' \in [Gens -> Document] /\ doc'[g].output = k
                /\ doc'[g].present = doc[g].present /\ doc'[g].refs = doc[g].refs
                /\ \A h \in Gens \ {g} : doc'[h] = doc[h]
<1>1. doc \in [Gens -> Document] /\ doc[g] \in Document
  BY DEF TypeOK
<1>2. /\ [doc[g] EXCEPT !.present = TRUE] \in Document
      /\ \A r \in SUBSET Kinds : [doc[g] EXCEPT !.refs = r] \in Document
      /\ \A k \in Keys : [doc[g] EXCEPT !.output = k] \in Document
  BY <1>1 DEF Document
<1>3. ASSUME doc' = [doc EXCEPT ![g].present = TRUE]
      PROVE  /\ doc' \in [Gens -> Document] /\ doc'[g].present
             /\ doc'[g].refs = doc[g].refs /\ doc'[g].output = doc[g].output
             /\ \A h \in Gens \ {g} : doc'[h] = doc[h]
  BY <1>1, <1>2, <1>3 DEF Document
<1>4. ASSUME NEW r \in SUBSET Kinds, doc' = [doc EXCEPT ![g].refs = r]
      PROVE  /\ doc' \in [Gens -> Document] /\ doc'[g].refs = r
             /\ doc'[g].present = doc[g].present /\ doc'[g].output = doc[g].output
             /\ \A h \in Gens \ {g} : doc'[h] = doc[h]
  BY <1>1, <1>2, <1>4 DEF Document
<1>5. ASSUME NEW k \in Keys, doc' = [doc EXCEPT ![g].output = k]
      PROVE  /\ doc' \in [Gens -> Document] /\ doc'[g].output = k
             /\ doc'[g].present = doc[g].present /\ doc'[g].refs = doc[g].refs
             /\ \A h \in Gens \ {g} : doc'[h] = doc[h]
  BY <1>1, <1>2, <1>5 DEF Document
<1>6. QED
  BY <1>3, <1>4, <1>5

-----------------------------------------------------------------------------

LEMMA InitInv == Init => IInv
<1>. SUFFICES ASSUME Init PROVE IInv
  OBVIOUS
<1>1. TypeOK
  <2>1. NoDoc \in Document
    BY DEF NoDoc, Document
  <2>2. NoDeletion \in Deletion
    BY DEF NoDeletion, Deletion
  <2>3. QED
    BY <2>1, <2>2 DEF Init, TypeOK, Deletion
<1>2. /\ NothingBeforeCreate /\ DocsAreTheirOwn /\ RefsAreTracked /\ UploadsAreFiles /\ OldIsSettled
  BY DEF Init, NothingBeforeCreate, DocsAreTheirOwn, RefsAreTracked, UploadsAreFiles, OldIsSettled,
     NoDoc, Files
<1>3. /\ DeletionsAreAsked /\ DeletedInputsWereTracked
  BY KeyFacts DEF Init, DeletionsAreAsked, DeletedInputsWereTracked, NoDeletion, Kinds
<1>4. /\ RecordsAreStored /\ UploadsAreStored /\ OutputsAreStored /\ AnsweredIsComplete
      /\ PendingRefsAreBacked /\ AnsweredMeansStored /\ RefsAreBacked
  BY DEF Init, RecordsAreStored, UploadsAreStored, OutputsAreStored, AnsweredIsComplete,
     PendingRefsAreBacked, AnsweredMeansStored, RefsAreBacked, Stored, NoDoc
<1>5. /\ KeysHaveRefs /\ DroppedHaveNoRecord /\ DeletedRecordsAreGone /\ DoneIsGone
      /\ CleanupIsOfTheOld /\ OldReadsAll /\ ReadRefsStay
  BY DEF Init, KeysHaveRefs, DroppedHaveNoRecord, DeletedRecordsAreGone, DoneIsGone,
     CleanupIsOfTheOld, OldReadsAll, ReadRefsStay, NoDeletion, Underway, Deleters
<1>6. LostObjectsAreReferredTo /\ LostObjectsHaveACulprit
  BY KeyFacts DEF Init, LostObjectsAreReferredTo, LostObjectsHaveACulprit, Kinds
<1>7. QED
  BY <1>1, <1>2, <1>3, <1>4, <1>5, <1>6 DEF IInv, Progress, Asked, Kept, InReach

-----------------------------------------------------------------------------
(* Progress is kept.                                                       *)

LEMMA CreateProgress ==
    ASSUME Progress, NEW g \in Gens, NEW test \in BOOLEAN, NEW files \in SUBSET Inputs,
           Create(g, test, files)
    PROVE  Progress'
<1>1. /\ doc' \in [Gens -> Document] /\ doc'[g].present
      /\ doc'[g].refs = doc[g].refs /\ doc'[g].output = doc[g].output
      /\ \A h \in Gens \ {g} : doc'[h] = doc[h]
  BY DocFacts DEF Progress, Create
<1>2. /\ create[g] = "idle"
      /\ request' = [request EXCEPT ![g] = [test |-> test, files |-> files]]
      /\ create' = [create EXCEPT ![g] = IF files = {} THEN "answered" ELSE "uploading"]
      /\ upload' = [upload EXCEPT ![g] = [k \in Inputs |-> IF k \in files THEN "putting" ELSE "none"]]
      /\ UNCHANGED <<store, refIds, saving, output, deletion, crashes>>
  BY DEF Create
<1> USE DEF Progress, TypeOK, deletion, output
<1>3. [test |-> test, files |-> files] \in [test : BOOLEAN, files : SUBSET Inputs]
  OBVIOUS
<1>4. TypeOK'
  BY <1>1, <1>2, <1>3
<1>5. NothingBeforeCreate' /\ RefsAreTracked'
  BY <1>1, <1>2 DEF NothingBeforeCreate, RefsAreTracked, Files
<1>6. DocsAreTheirOwn'
  BY <1>1, <1>2 DEF NothingBeforeCreate, DocsAreTheirOwn, OutputKey
<1>7. UploadsAreFiles' /\ OldIsSettled'
  BY <1>1, <1>2 DEF UploadsAreFiles, OldIsSettled, Settled, NothingBeforeCreate, Files
<1>8. QED
  BY <1>4, <1>5, <1>6, <1>7

LEMMA UploadProgress ==
    ASSUME Progress, NEW g \in Gens, NEW k \in Inputs,
           \/ UploadSucceeds(g, k) \/ UploadFails(g, k) \/ TrackSucceeds(g, k) \/ TrackFails(g, k)
    PROVE  Progress'
<1> USE DEF Progress, TypeOK, deletion, output, UploadTo
<1>1. CASE UploadSucceeds(g, k)
  <2> USE <1>1 DEF UploadSucceeds, Answer
  <2>1. TypeOK'
    <3>1. /\ create' \in [Gens -> {"idle", "uploading", "answered", "failed", "lost"}]
          /\ saving' \in [Gens -> SUBSET Inputs]
      BY refIds[g] \in SUBSET Inputs
    <3>2. QED
      BY <3>1
  <2>2. NothingBeforeCreate' /\ DocsAreTheirOwn' /\ RefsAreTracked'
    BY DEF NothingBeforeCreate, DocsAreTheirOwn, RefsAreTracked, UploadsAreFiles, Files, OutputKey
  <2>3. UploadsAreFiles' /\ OldIsSettled'
    BY DEF UploadsAreFiles, OldIsSettled, Settled, Files
  <2>4. QED
    BY <2>1, <2>2, <2>3
<1>2. CASE UploadFails(g, k)
  <2> USE <1>2 DEF UploadFails
  <2>1. TypeOK'
    OBVIOUS
  <2>2. NothingBeforeCreate' /\ DocsAreTheirOwn' /\ RefsAreTracked'
    BY DEF NothingBeforeCreate, DocsAreTheirOwn, RefsAreTracked, Files, OutputKey
  <2>3. UploadsAreFiles' /\ OldIsSettled'
    BY DEF UploadsAreFiles, OldIsSettled, Settled, Files
  <2>4. QED
    BY <2>1, <2>2, <2>3
<1>3. CASE TrackSucceeds(g, k)
  <2> USE <1>3 DEF TrackSucceeds
  <2>1. TypeOK'
    OBVIOUS
  <2>2. NothingBeforeCreate' /\ DocsAreTheirOwn' /\ RefsAreTracked'
    BY DEF NothingBeforeCreate, DocsAreTheirOwn, RefsAreTracked, UploadsAreFiles, Files, OutputKey
  <2>3. UploadsAreFiles' /\ OldIsSettled'
    BY DEF UploadsAreFiles, OldIsSettled, Settled, Files
  <2>4. QED
    BY <2>1, <2>2, <2>3
<1>4. CASE TrackFails(g, k)
  BY <1>4 DEF TrackFails, NothingBeforeCreate, DocsAreTheirOwn, RefsAreTracked, UploadsAreFiles,
     OldIsSettled, Settled, Files, OutputKey
<1>5. QED
  BY <1>1, <1>2, <1>3, <1>4

\* What setFileRefs does to the document.
LEMMA SetRefsFacts ==
    ASSUME TypeOK, DocsAreTheirOwn, NEW g \in Gens, NEW R \in SUBSET Kinds,
           \/ doc' = [doc EXCEPT ![g].refs = IF doc[g].present THEN @ \cup R ELSE @]
           \/ UNCHANGED doc
    PROVE  /\ doc' \in [Gens -> Document]
           /\ doc'[g].present = doc[g].present /\ doc'[g].output = doc[g].output
           /\ doc[g].refs \subseteq doc'[g].refs /\ doc'[g].refs \subseteq doc[g].refs \cup R
           /\ ~doc[g].present => doc'[g].refs = doc[g].refs
           /\ \A h \in Gens \ {g} : doc'[h] = doc[h]
<1>1. CASE UNCHANGED doc
  BY <1>1 DEF TypeOK
<1>2. CASE doc' = [doc EXCEPT ![g].refs = IF doc[g].present THEN @ \cup R ELSE @]
  <2>1. doc[g].refs \cup R \in SUBSET Kinds /\ doc[g].refs \in SUBSET Kinds
    BY DEF TypeOK, Document
  <2>2. PICK r \in SUBSET Kinds : r = IF doc[g].present THEN doc[g].refs \cup R ELSE doc[g].refs
    BY <2>1
  <2>3. doc' = [doc EXCEPT ![g].refs = r]
    BY <1>2, <2>2
  <2>4. /\ doc' \in [Gens -> Document] /\ doc'[g].refs = r
        /\ doc'[g].present = doc[g].present /\ doc'[g].output = doc[g].output
        /\ \A h \in Gens \ {g} : doc'[h] = doc[h]
    BY <2>3, DocFacts
  <2>5. doc[g].refs \subseteq doc'[g].refs /\ doc'[g].refs \subseteq doc[g].refs \cup R
    BY <2>2, <2>4
  <2>6. ~doc[g].present => doc'[g].refs = doc[g].refs
    BY <2>2, <2>4
  <2>7. QED
    BY <2>4, <2>5, <2>6
<1>3. QED
  BY <1>1, <1>2

LEMMA SaveProgress ==
    ASSUME Progress, NEW g \in Gens, SaveRefs(g)
    PROVE  Progress'
<1> USE DEF Progress
<1>1. /\ saving[g] \in SUBSET Kinds /\ saving[g] # {}
      /\ saving' = [saving EXCEPT ![g] = {}]
      /\ \/ doc' = [doc EXCEPT ![g].refs = IF doc[g].present THEN @ \cup saving[g] ELSE @]
         \/ UNCHANGED doc
      /\ UNCHANGED <<store, request, create, upload, refIds, output, deletion, crashes>>
  BY DEF SaveRefs, TypeOK, Kinds
<1>2. /\ doc' \in [Gens -> Document]
      /\ doc'[g].present = doc[g].present /\ doc'[g].output = doc[g].output
      /\ doc[g].refs \subseteq doc'[g].refs /\ doc'[g].refs \subseteq doc[g].refs \cup saving[g]
      /\ ~doc[g].present => doc'[g].refs = doc[g].refs
      /\ \A h \in Gens \ {g} : doc'[h] = doc[h]
  BY <1>1, SetRefsFacts
<1> USE DEF TypeOK, deletion, output
<1>3. TypeOK'
  BY <1>1, <1>2
<1>4. NothingBeforeCreate'
  BY <1>1, <1>2 DEF NothingBeforeCreate, Files
<1>5. DocsAreTheirOwn'
  BY <1>1, <1>2 DEF DocsAreTheirOwn, OutputKey
<1>6. RefsAreTracked'
  BY <1>1, <1>2 DEF RefsAreTracked
<1>7. UploadsAreFiles' /\ OldIsSettled'
  BY <1>1 DEF UploadsAreFiles, OldIsSettled, Settled, Files
<1>8. QED
  BY <1>3, <1>4, <1>5, <1>6, <1>7

LEMMA OutputProgress ==
    ASSUME Progress, NEW g \in Gens, Output(g)
    PROVE  Progress'
<1> USE DEF Progress, deletion, creation, output
<1>1. ASSUME ExternalPut(g) \/ ExternalRecord(g) \/ FindOutput(g) PROVE Progress'
  <2>1. /\ UNCHANGED <<doc, creation, deletion, crashes>>
        /\ create[g] # "idle"
        /\ \A h \in Gens \ {g} : external'[h] = external[h] /\ link'[h] = link[h]
    BY <1>1 DEF ExternalPut, ExternalRecord, FindOutput, TypeOK, NothingBeforeCreate
  <2>2. TypeOK'
    BY <1>1 DEF ExternalPut, ExternalRecord, FindOutput, TypeOK
  <2>3. QED
    BY <2>1, <2>2 DEF NothingBeforeCreate, DocsAreTheirOwn,
       RefsAreTracked, UploadsAreFiles, OldIsSettled, Settled, Files, OutputKey
<1>2. ASSUME Complete(g) PROVE Progress'
  <2>1. /\ doc[g].present
        /\ doc' \in [Gens -> Document] /\ doc'[g].output = OutputKey(g)
        /\ doc'[g].present = doc[g].present /\ doc'[g].refs = doc[g].refs
        /\ \A h \in Gens \ {g} : doc'[h] = doc[h]
        /\ link' = [link EXCEPT ![g] = "finding"]
        /\ UNCHANGED <<store, creation, external, deletion, crashes>>
    BY <1>2, DocFacts, OutputFacts DEF Complete
  <2>2. TypeOK'
    BY <2>1 DEF TypeOK
  <2>3. NothingBeforeCreate'
    BY <2>1 DEF TypeOK, NothingBeforeCreate, Files
  <2>4. DocsAreTheirOwn'
    BY <2>1 DEF TypeOK, DocsAreTheirOwn, OutputKey
  <2>5. RefsAreTracked'
    BY <2>1 DEF TypeOK, RefsAreTracked
  <2>6. UploadsAreFiles' /\ OldIsSettled'
    BY <2>1 DEF UploadsAreFiles, OldIsSettled, Settled, Files
  <2>7. QED
    BY <2>2, <2>3, <2>4, <2>5, <2>6
<1>3. ASSUME LinkOutput(g) PROVE Progress'
  <2>1. /\ link[g] = "found" /\ link' = [link EXCEPT ![g] = "ended"]
        /\ \/ doc' = [doc EXCEPT ![g].refs = IF doc[g].present THEN @ \cup {"output"} ELSE @]
           \/ UNCHANGED doc
        /\ UNCHANGED <<store, creation, external, deletion, crashes>>
    BY <1>3 DEF LinkOutput
  <2>2. /\ doc' \in [Gens -> Document]
        /\ doc'[g].present = doc[g].present /\ doc'[g].output = doc[g].output
        /\ doc[g].refs \subseteq doc'[g].refs /\ doc'[g].refs \subseteq doc[g].refs \cup {"output"}
        /\ ~doc[g].present => doc'[g].refs = doc[g].refs
        /\ \A h \in Gens \ {g} : doc'[h] = doc[h]
    BY <2>1, SetRefsFacts DEF Kinds
  <2>3. TypeOK'
    BY <2>1, <2>2 DEF TypeOK
  <2>4. NothingBeforeCreate' /\ DocsAreTheirOwn' /\ RefsAreTracked'
    BY <2>1, <2>2 DEF TypeOK, NothingBeforeCreate, DocsAreTheirOwn, RefsAreTracked, Files, OutputKey,
       Inputs
  <2>5. UploadsAreFiles' /\ OldIsSettled'
    BY <2>1 DEF UploadsAreFiles, OldIsSettled, Settled, Files
  <2>6. QED
    BY <2>3, <2>4, <2>5
<1>4. QED
  BY <1>1, <1>2, <1>3 DEF Output

\* What a deletion reads of the documents G.
LEMMA ReadFacts ==
    ASSUME Progress, NEW x \in Deleters, NEW G \in SUBSET Gens, Read(x, G)
    PROVE  /\ del[x].stage = "idle" /\ del' \in [Deleters -> Deletion]
           /\ del'[x].stage = "read" /\ del'[x].gens = G
           /\ \A k \in del'[x].keys \cup del'[x].refs : k \in released' /\ k # AvatarKey
           /\ \A k \in released' \ released : k # AvatarKey
           /\ released \subseteq released'
           /\ \A g \in Gens, k \in Inputs :
                /\ <<g, k>> \in del'[x].keys => g \in G /\ k \in doc[g].refs
                /\ <<g, k>> \in del'[x].refs <=> g \in G /\ k \in doc[g].refs
           /\ \A y \in Deleters \ {x} : del'[y] = del[y]
           /\ UNCHANGED <<store, dropping, old, DelVars>>
<1>1. PICK keys, refs :
        /\ keys = UNION {CollectKeys(g) : g \in G} /\ refs = UNION {CollectRefs(g) : g \in G}
        /\ del' = [del EXCEPT ![x] = [stage |-> "read", gens |-> G, keys |-> keys, refs |-> refs]]
        /\ released' = released \cup keys \cup refs
  BY DEF Read
<1>2. keys \in SUBSET (Keys \ {AvatarKey}) /\ refs \in SUBSET (Keys \ {AvatarKey})
  BY <1>1, CollectFacts DEF Progress
<1>3. \A g \in Gens, k \in Inputs :
        /\ <<g, k>> \in keys => g \in G /\ k \in doc[g].refs
        /\ <<g, k>> \in refs <=> g \in G /\ k \in doc[g].refs
  <2>1. \A h \in G, g \in Gens, k \in Inputs :
          /\ <<g, k>> \in CollectKeys(h) => g = h /\ k \in doc[h].refs
          /\ <<g, k>> \in CollectRefs(h) <=> g = h /\ k \in doc[h].refs
    BY CollectFacts DEF Progress
  <2>2. /\ \A key : key \in keys <=> \E h \in G : key \in CollectKeys(h)
        /\ \A key : key \in refs <=> \E h \in G : key \in CollectRefs(h)
    BY <1>1
  <2>3. ASSUME NEW g \in Gens, NEW k \in Inputs, <<g, k>> \in keys PROVE g \in G /\ k \in doc[g].refs
    <3>1. PICK h \in G : <<g, k>> \in CollectKeys(h)
      BY <2>2, <2>3
    <3>2. QED
      BY <3>1, <2>1
  <2>4. ASSUME NEW g \in Gens, NEW k \in Inputs, <<g, k>> \in refs PROVE g \in G /\ k \in doc[g].refs
    <3>1. PICK h \in G : <<g, k>> \in CollectRefs(h)
      BY <2>2, <2>4
    <3>2. QED
      BY <3>1, <2>1
  <2>5. ASSUME NEW g \in G, NEW k \in Inputs, k \in doc[g].refs PROVE <<g, k>> \in refs
    <3>1. <<g, k>> \in CollectRefs(g)
      BY <2>1, <2>5
    <3>2. QED
      BY <3>1, <2>2
  <2>6. QED
    BY <2>3, <2>4, <2>5
<1>4. [stage |-> "read", gens |-> G, keys |-> keys, refs |-> refs] \in Deletion
  BY <1>2 DEF Deletion, Underway
<1>5. /\ del' \in [Deleters -> Deletion]
      /\ del'[x] = [stage |-> "read", gens |-> G, keys |-> keys, refs |-> refs]
      /\ \A y \in Deleters \ {x} : del'[y] = del[y]
  BY <1>1, <1>4 DEF Progress, TypeOK
<1>6. del'[x].stage = "read" /\ del'[x].gens = G /\ del'[x].keys = keys /\ del'[x].refs = refs
  BY <1>5
<1>7. del[x].stage = "idle" /\ UNCHANGED <<store, dropping, old, DelVars>>
  BY DEF Read
<1>8. QED
  BY <1>1, <1>2, <1>3, <1>5, <1>6, <1>7

\* Deletions that leave the documents alone.
LEMMA DeletionProgress ==
    ASSUME Progress, del' \in [Deleters -> Deletion], UNCHANGED <<old, DelVars>>
    PROVE  Progress'
<1> USE DEF Progress, DelVars, creation, output
<1>1. TypeOK'
  BY DEF TypeOK
<1>2. QED
  BY <1>1 DEF NothingBeforeCreate, DocsAreTheirOwn, RefsAreTracked, UploadsAreFiles, OldIsSettled,
     Settled, Files, OutputKey

LEMMA DeleteDocsFacts ==
    ASSUME Progress, NEW x \in Deleters, DeleteDocs(x)
    PROVE  /\ del[x].stage = "records" /\ del'[x] = Stage(x, "done")
           /\ del' \in [Deleters -> Deletion]
           /\ \A y \in Deleters \ {x} : del'[y] = del[y]
           /\ doc' \in [Gens -> Document]
           /\ \A g \in Gens :
                IF g \in del[x].gens THEN ~doc'[g].present /\ doc'[g].refs = {} /\ doc'[g].output = NoKey
                                     ELSE doc'[g] = doc[g]
           /\ UNCHANGED <<store, dropping, old, released, creation, output, crashes>>
<1>1. /\ del[x].stage = "records" /\ del' = [del EXCEPT ![x] = Stage(x, "done")]
      /\ doc' = [g \in Gens |-> IF g \in del[x].gens THEN NoDoc ELSE doc[g]]
      /\ UNCHANGED <<store, dropping, old, released, creation, output, crashes>>
  BY DEF DeleteDocs, Advance
<1>2. /\ del' \in [Deleters -> Deletion] /\ del'[x] = Stage(x, "done")
      /\ \A y \in Deleters \ {x} : del'[y] = del[y]
  BY <1>1, AdvanceFacts DEF Progress
<1>3. NoDoc \in Document /\ ~NoDoc.present /\ NoDoc.refs = {} /\ NoDoc.output = NoKey
  BY DEF NoDoc, Document
<1>4. doc' \in [Gens -> Document]
  BY <1>1, <1>3 DEF Progress, TypeOK
<1>5. QED
  BY <1>1, <1>2, <1>3, <1>4

LEMMA DeleteDocsProgress ==
    ASSUME Progress, NEW x \in Deleters, DeleteDocs(x)
    PROVE  Progress'
<1> USE DeleteDocsFacts DEF Progress, creation, output
<1>1. TypeOK'
  BY DEF TypeOK
<1>2. NothingBeforeCreate' /\ DocsAreTheirOwn'
  BY DEF NothingBeforeCreate, DocsAreTheirOwn, Files, OutputKey
<1>3. RefsAreTracked' /\ UploadsAreFiles' /\ OldIsSettled'
  BY DEF RefsAreTracked, UploadsAreFiles, OldIsSettled, Settled, Files
<1>4. QED
  BY <1>1, <1>2, <1>3

LEMMA AgeProgress ==
    ASSUME Progress, NEW g \in Gens, Age(g)
    PROVE  Progress'
<1> USE DEF Progress, Age, DelVars, creation, output
<1>1. TypeOK'
  BY DEF TypeOK
<1>2. QED
  BY <1>1 DEF NothingBeforeCreate, DocsAreTheirOwn, RefsAreTracked, UploadsAreFiles, OldIsSettled,
     Settled, Files, OutputKey

\* A crash breaks off every deletion under way; the cleanup will begin again.
LEMMA CrashFacts ==
    ASSUME TypeOK, Crash
    PROVE  /\ del' \in [Deleters -> Deletion]
           /\ \A x \in Deleters :
                \/ del[x].stage \in {"idle", "done"} /\ del'[x] = del[x]
                \/ del[x].stage \notin {"idle", "done"} /\ del'[x] = Stage(x, "failed")
           /\ UNCHANGED <<store, doc, request, refIds, old, released>> /\ dropping' = {}
<1>1. del' = [x \in Deleters |-> IF del[x].stage \in {"idle", "done"} THEN del[x]
                                                                    ELSE Stage(x, "failed")]
  BY DEF Crash
<1>2. \A x \in Deleters : Stage(x, "failed") \in Deletion /\ del[x] \in Deletion
  BY StageFacts DEF TypeOK
<1>3. QED
  BY <1>1, <1>2 DEF Crash

LEMMA CrashProgress ==
    ASSUME Progress, Crash
    PROVE  Progress'
<1> USE DEF Progress
<1>1. TypeOK'
  <2>1. upload' \in [Gens -> [Inputs -> {"none", "putting", "tracking", "tracked", "untracked", "failed"}]]
    BY DEF Crash, TypeOK
  <2>2. QED
    BY <2>1, CrashFacts, FilesAssumption DEF Crash, TypeOK
<1>2. NothingBeforeCreate' /\ DocsAreTheirOwn'
  BY DEF Crash, TypeOK, NothingBeforeCreate, DocsAreTheirOwn, Files, OutputKey
<1>3. RefsAreTracked' /\ UploadsAreFiles'
  BY DEF Crash, TypeOK, RefsAreTracked, UploadsAreFiles, Files
<1>4. OldIsSettled'
  BY DEF Crash, TypeOK, OldIsSettled, Settled
<1>5. QED
  BY <1>1, <1>2, <1>3, <1>4

LEMMA ProgressStep ==
    ASSUME Progress, [Next]_vars
    PROVE  Progress'
<1>1. ASSUME NEW g \in Gens, Creation(g) PROVE Progress'
  BY <1>1, UploadProgress, SaveProgress DEF Creation
<1>2. ASSUME NEW x \in Deleters, Delete(x) PROVE Progress'
  <2>1. CASE DeleteDocs(x)
    BY <2>1, DeleteDocsProgress
  <2>2. CASE DeleteFiles(x) \/ DeleteRecords(x) \/ DeleteFails(x)
    <3>1. PICK s \in {"objects", "records", "failed"} :
            /\ del' = [del EXCEPT ![x] = Stage(x, s)]
            /\ UNCHANGED <<old, DelVars>>
      BY <2>2 DEF DeleteFiles, DeleteRecords, DeleteFails, Advance
    <3>2. del' \in [Deleters -> Deletion]
      BY <3>1, AdvanceFacts DEF Progress
    <3>3. QED
      BY <3>1, <3>2, DeletionProgress
  <2>3. QED
    BY <1>2, <2>1, <2>2 DEF Delete
<1>3. ASSUME NEW x \in Deleters, NEW g \in Gens, RemoveReads(x, g) PROVE Progress'
  BY <1>3, ReadFacts, DeletionProgress DEF RemoveReads
<1>4. CASE CleanupReads
  <2>1. OldDocs \in SUBSET Gens /\ Cleaner \in Deleters
    BY DEF OldDocs, Deleters, Progress, TypeOK
  <2>2. QED
    BY <1>4, <2>1, ReadFacts, DeletionProgress DEF CleanupReads
<1>5. ASSUME NEW k \in Keys, RemoveFile(k) \/ DropObject(k) PROVE Progress'
  <2>1. UNCHANGED <<del, old, DelVars>>
    BY <1>5 DEF RemoveFile, DropObject
  <2>2. QED
    BY <2>1, DeletionProgress DEF Progress, TypeOK
<1>6. CASE UNCHANGED vars
  <2>1. UNCHANGED <<del, old, DelVars>>
    BY <1>6 DEF vars, deletion, DelVars
  <2>2. QED
    BY <2>1, DeletionProgress DEF Progress, TypeOK
<1>7. QED
  BY <1>1, <1>2, <1>3, <1>4, <1>5, <1>6, CreateProgress, OutputProgress, AgeProgress, CrashProgress
     DEF Next

-----------------------------------------------------------------------------
(* What is deleted was asked for, and nothing else is lost.                *)

\* An input that has been tracked has been tracked for good.
LEMMA TrackedForGood ==
    ASSUME Progress, [Next]_vars, NEW g \in Gens, NEW k \in Inputs, upload[g][k] = "tracked"
    PROVE  upload'[g][k] = "tracked"
<1> USE DEF Progress, TypeOK
<1>1. ASSUME NEW h \in Gens, NEW t \in BOOLEAN, NEW F \in SUBSET Inputs, Create(h, t, F)
      PROVE  upload'[g][k] = "tracked"
  <2>1. h # g
    BY <1>1 DEF Create, NothingBeforeCreate, UploadsAreFiles
  <2>2. QED
    BY <1>1, <2>1 DEF Create
<1>2. ASSUME NEW h \in Gens, Creation(h) PROVE upload'[g][k] = "tracked"
  <2>1. CASE SaveRefs(h)
    BY <2>1 DEF SaveRefs
  <2>2. ASSUME NEW i \in Inputs, NEW s, upload[h][i] \in {"putting", "tracking"}, UploadTo(h, i, s)
        PROVE  upload'[g][k] = "tracked"
    BY <2>2 DEF UploadTo
  <2>3. ASSUME NEW i \in Inputs, UploadSucceeds(h, i) \/ UploadFails(h, i)
        PROVE  upload'[g][k] = "tracked"
    BY <2>2, <2>3 DEF UploadSucceeds, UploadFails
  <2>4. ASSUME NEW i \in Inputs, TrackSucceeds(h, i) \/ TrackFails(h, i)
        PROVE  upload'[g][k] = "tracked"
    BY <2>2, <2>4 DEF TrackSucceeds, TrackFails
  <2>5. QED
    BY <1>2, <2>1, <2>3, <2>4 DEF Creation
<1>3. CASE Crash
  BY <1>3 DEF Crash
<1>4. CASE UNCHANGED upload
  BY <1>4
<1>5. QED
  BY <1>1, <1>2, <1>3, <1>4 DEF Next, Output, ExternalPut, ExternalRecord, Complete, FindOutput,
     LinkOutput, Age, RemoveReads, CleanupReads, Read, Delete, DeleteFiles, DeleteRecords, DeleteDocs,
     DeleteFails, RemoveFile, DropObject, DelVars, creation, vars

\* A step that only adds.
LEMMA AddingAsked ==
    ASSUME Progress, Asked, [Next]_vars,
           UNCHANGED <<del, dropping, released>>, objects \subseteq objects',
           AvatarKey \notin records' \ records,
           \A g \in Gens, k \in Inputs :
                <<g, k>> \in records' \ records => upload'[g][k] = "tracked"
    PROVE  Asked'
<1>1. DeletionsAreAsked'
  BY DEF Asked, DeletionsAreAsked
<1>2. DeletedInputsWereTracked'
  BY TrackedForGood DEF Asked, DeletedInputsWereTracked
<1>3. QED
  BY <1>1, <1>2 DEF Asked

\* A step of a deletion that does not read: it takes keys it has, and all of them are asked for.
LEMMA DeletingAsked ==
    ASSUME Progress, Asked, [Next]_vars,
           records' \subseteq records, dropping' \subseteq dropping \cup records,
           dropping' \subseteq released', released \subseteq released', AvatarKey \notin released',
           objects \ objects' \subseteq released,
           \A x \in Deleters : /\ del'[x].keys \subseteq del[x].keys
                               /\ del'[x].refs \subseteq del[x].refs
    PROVE  Asked'
<1>1. DeletionsAreAsked'
  BY DEF Asked, DeletionsAreAsked
<1>2. DeletedInputsWereTracked'
  BY TrackedForGood DEF Asked, DeletedInputsWereTracked
<1>3. QED
  BY <1>1, <1>2 DEF Asked

\* Reading the references of documents asks for the deletion of tracked inputs.
LEMMA ReadAsked ==
    ASSUME Progress, Asked, [Next]_vars, NEW x \in Deleters, NEW G \in SUBSET Gens, Read(x, G)
    PROVE  Asked'
<1>1. /\ \A k \in del'[x].keys \cup del'[x].refs : k \in released' /\ k # AvatarKey
      /\ \A k \in released' \ released : k # AvatarKey
      /\ released \subseteq released'
      /\ \A g \in Gens, k \in Inputs : <<g, k>> \in del'[x].keys \cup del'[x].refs => k \in doc[g].refs
      /\ \A y \in Deleters \ {x} : del'[y] = del[y]
      /\ UNCHANGED <<store, dropping, upload>>
  BY ReadFacts DEF DelVars, creation
<1>2. \A g \in Gens, k \in Inputs : k \in doc[g].refs => upload[g][k] = "tracked"
  BY DEF Progress, RefsAreTracked
<1>3. DeletionsAreAsked'
  BY <1>1 DEF Asked, DeletionsAreAsked, store
<1>4. DeletedInputsWereTracked'
  BY <1>1, <1>2 DEF Asked, DeletedInputsWereTracked, store
<1>5. QED
  BY <1>3, <1>4 DEF Asked

\* R2 loses the objects somebody deletes, or fewer.
LEMMA DeleteObjectsFacts ==
    ASSUME NEW ks, DeleteObjects(ks)
    PROVE  objects' \subseteq objects /\ objects \ objects' \subseteq ks
BY DEF DeleteObjects

\* What a deletion does to what it has read, to the objects and to the records.
LEMMA DeleteFacts ==
    ASSUME Progress, NEW x \in Deleters, Delete(x)
    PROVE  /\ objects' \subseteq objects /\ objects \ objects' \subseteq del[x].keys
           /\ records' \subseteq records /\ records \ records' \subseteq del[x].refs
           /\ UNCHANGED <<dropping, old, released, creation, output, crashes>>
           /\ \A y \in Deleters : /\ del'[y].keys \subseteq del[y].keys
                                  /\ del'[y].refs \subseteq del[y].refs
<1>1. PICK s \in {"objects", "records", "done", "failed"} : del' = [del EXCEPT ![x] = Stage(x, s)]
  BY DEF Delete, DeleteFiles, DeleteRecords, DeleteDocs, DeleteFails, Advance
<1>2. /\ Stage(x, s).keys \subseteq del[x].keys /\ Stage(x, s).refs \subseteq del[x].refs
  BY StageFacts DEF Progress, NoDeletion
<1>3. \A y \in Deleters : /\ del'[y].keys \subseteq del[y].keys
                          /\ del'[y].refs \subseteq del[y].refs
  BY <1>1, <1>2 DEF Progress, TypeOK
<1>4. /\ objects' \subseteq objects /\ objects \ objects' \subseteq del[x].keys
  BY DeleteObjectsFacts DEF Delete, DeleteFiles, DeleteRecords, DeleteDocs, DeleteFails, store
<1>5. QED
  BY <1>3, <1>4 DEF Delete, DeleteFiles, DeleteRecords, DeleteDocs, DeleteFails, store, DelVars, Forget

LEMMA AskedStep ==
    ASSUME Progress, Asked, [Next]_vars
    PROVE  Asked'
<1>1. ASSUME NEW g \in Gens, NEW k \in Inputs, TrackSucceeds(g, k) PROVE Asked'
  <2>1. /\ UNCHANGED <<del, dropping, released, objects>> /\ records' = records \cup {<<g, k>>}
        /\ upload'[g][k] = "tracked"
    BY <1>1 DEF TrackSucceeds, Track, UploadTo, deletion, Progress, TypeOK
  <2>2. \A h \in Gens, i \in Inputs : <<h, i>> = <<g, k>> => h = g /\ i = k
    OBVIOUS
  <2>3. QED
    BY <2>1, <2>2, AddingAsked, KeyFacts DEF Kinds
<1>2. ASSUME NEW g \in Gens, ExternalRecord(g) PROVE Asked'
  <2>1. /\ UNCHANGED <<del, dropping, released, objects>>
        /\ records' \subseteq records \cup {<<g, "output">>}
    BY <1>2 DEF ExternalRecord, Track, deletion
  <2>2. <<g, "output">> # AvatarKey /\ \A h \in Gens, k \in Inputs : <<h, k>> # <<g, "output">>
    BY KeyFacts DEF Kinds, Inputs
  <2>3. QED
    BY <2>1, <2>2, AddingAsked
<1>3. ASSUME UNCHANGED <<del, dropping, released, records>>, objects \subseteq objects' PROVE Asked'
  BY <1>3, AddingAsked
<1>4. ASSUME NEW g \in Gens, NEW k \in Inputs, UploadSucceeds(g, k) \/ UploadFails(g, k) PROVE Asked'
  BY <1>3, <1>4 DEF UploadSucceeds, UploadFails, Put, PutThrows, deletion
<1>5. ASSUME NEW g \in Gens, ExternalPut(g) PROVE Asked'
  BY <1>3, <1>5 DEF ExternalPut, Put, deletion
<1>6. ASSUME NEW g \in Gens, Creation(g) \/ Output(g) \/ Age(g) PROVE Asked'
  <2>1. ASSUME \/ SaveRefs(g) \/ \E k \in Inputs : TrackFails(g, k)
               \/ Complete(g) \/ FindOutput(g) \/ LinkOutput(g) \/ Age(g)
        PROVE  Asked'
    BY <1>3, <2>1 DEF SaveRefs, TrackFails, Complete, FindOutput, LinkOutput, Age, deletion, store
  <2>2. QED
    BY <1>1, <1>2, <1>4, <1>5, <1>6, <2>1 DEF Creation, Output
<1>7. ASSUME NEW g \in Gens, NEW test \in BOOLEAN, NEW files \in SUBSET Inputs, Create(g, test, files)
      PROVE  Asked'
  BY <1>3, <1>7 DEF Create, deletion, store
<1>8. ASSUME NEW x \in Deleters, NEW g \in Gens, RemoveReads(x, g) PROVE Asked'
  BY <1>8, ReadAsked DEF RemoveReads
<1>9. CASE CleanupReads
  <2>1. OldDocs \in SUBSET Gens /\ Cleaner \in Deleters
    BY DEF OldDocs, Deleters, Progress, TypeOK
  <2>2. QED
    BY <1>9, <2>1, ReadAsked DEF CleanupReads
<1>10. ASSUME NEW x \in Deleters, Delete(x) PROVE Asked'
  <2>1. del[x].keys \subseteq released /\ AvatarKey \notin released /\ dropping \subseteq released
    BY DEF Asked, DeletionsAreAsked
  <2>2. QED
    BY <1>10, <2>1, DeleteFacts, DeletingAsked
<1>11. ASSUME NEW k \in Keys, RemoveFile(k) PROVE Asked'
  <2>1. /\ k \in records /\ records' \subseteq records /\ dropping' = dropping \cup {k}
        /\ released' = released \cup {k} /\ UNCHANGED <<del, objects>>
    BY <1>11 DEF RemoveFile, Unfile, Forget
  <2>2. k # AvatarKey /\ AvatarKey \notin released /\ dropping \subseteq released
    BY <2>1 DEF Asked, DeletionsAreAsked
  <2>3. QED
    BY <2>1, <2>2, DeletingAsked
<1>12. ASSUME NEW k \in Keys, DropObject(k) PROVE Asked'
  <2>1. /\ k \in dropping /\ dropping' \subseteq dropping /\ UNCHANGED <<del, records, released>>
        /\ objects \ objects' \subseteq {k}
    BY <1>12, DeleteObjectsFacts DEF DropObject, Drop
  <2>2. dropping \subseteq released /\ AvatarKey \notin released
    BY DEF Asked, DeletionsAreAsked
  <2>3. QED
    BY <2>1, <2>2, DeletingAsked
<1>13. CASE Crash
  <2>1. \A x \in Deleters : /\ del'[x].keys \subseteq del[x].keys
                            /\ del'[x].refs \subseteq del[x].refs
    <3>1. TAKE x \in Deleters
    <3>2. Stage(x, "failed").keys \subseteq del[x].keys /\ Stage(x, "failed").refs \subseteq del[x].refs
      BY StageFacts DEF Progress, NoDeletion
    <3>3. del'[x] = del[x] \/ del'[x] = Stage(x, "failed")
      BY <1>13, CrashFacts DEF Progress
    <3>4. QED
      BY <3>2, <3>3
  <2>2. UNCHANGED <<objects, records, released>> /\ dropping' = {}
    BY <1>13 DEF Crash, store
  <2>3. AvatarKey \notin released
    BY DEF Asked, DeletionsAreAsked
  <2>4. QED
    BY <2>1, <2>2, <2>3, DeletingAsked
<1>14. CASE UNCHANGED vars
  BY <1>3, <1>14 DEF vars, store, deletion
<1>15. QED
  BY <1>6, <1>7, <1>8, <1>9, <1>10, <1>11, <1>12, <1>13, <1>14 DEF Next

\* What a step may take away: what somebody has asked for, and of the inputs only tracked ones.
OnlyAskedIsLost ==
    /\ released \subseteq released'
    /\ objects \subseteq objects' \cup released'
    /\ records \subseteq records' \cup released'
    /\ \A g \in Gens, k \in Inputs : <<g, k>> \in objects \ objects' => upload[g][k] = "tracked"

LEMMA NothingElseIsLost ==
    ASSUME Progress, Asked, [Next]_vars
    PROVE  OnlyAskedIsLost
<1> USE DEF OnlyAskedIsLost
<1>1. CASE objects \subseteq objects' /\ records \subseteq records' /\ released \subseteq released'
  BY <1>1
<1>2. ASSUME NEW x \in Deleters, Delete(x) PROVE OnlyAskedIsLost
  <2>1. del[x].keys \cup del[x].refs \subseteq released
    BY DEF Asked, DeletionsAreAsked
  <2>2. \A g \in Gens, k \in Inputs : <<g, k>> \in del[x].keys => upload[g][k] = "tracked"
    BY DEF Asked, DeletedInputsWereTracked
  <2>3. QED
    BY <1>2, <2>1, <2>2, DeleteFacts
<1>3. ASSUME NEW k \in Keys, RemoveFile(k) PROVE OnlyAskedIsLost
  BY <1>3 DEF RemoveFile, Unfile, Forget
<1>4. ASSUME NEW k \in Keys, DropObject(k) PROVE OnlyAskedIsLost
  <2>1. /\ k \in dropping /\ UNCHANGED <<records, released>> /\ objects \ objects' \subseteq {k}
    BY <1>4, DeleteObjectsFacts DEF DropObject, Drop
  <2>2. /\ dropping \subseteq released
        /\ \A g \in Gens, i \in Inputs : <<g, i>> \in dropping => upload[g][i] = "tracked"
    BY DEF Asked, DeletionsAreAsked, DeletedInputsWereTracked
  <2>3. QED
    BY <2>1, <2>2
<1>5. ASSUME NEW g \in Gens, Creation(g) \/ Output(g) \/ Age(g) PROVE OnlyAskedIsLost
  BY <1>1, <1>5 DEF Creation, UploadSucceeds, UploadFails, TrackSucceeds, TrackFails, SaveRefs, Output,
     ExternalPut, ExternalRecord, Complete, FindOutput, LinkOutput, Age, Put, PutThrows, Track,
     deletion, store
<1>6. CASE \/ \E g \in Gens, test \in BOOLEAN, files \in SUBSET Inputs : Create(g, test, files)
           \/ Crash \/ UNCHANGED vars
  BY <1>1, <1>6 DEF Create, Crash, vars, deletion, store
<1>7. CASE CleanupReads \/ \E x \in Deleters, g \in Gens : RemoveReads(x, g)
  BY <1>1, <1>7 DEF CleanupReads, RemoveReads, Read, store
<1>8. QED
  BY <1>2, <1>3, <1>4, <1>5, <1>6, <1>7 DEF Next

-----------------------------------------------------------------------------
(* What is stored stays stored.                                            *)

\* Deletions, the file manager, the passing of days, and steps that do nothing.
LEMMA DeletingKeeps ==
    ASSUME Kept, OnlyAskedIsLost, UNCHANGED <<creation, output>>, records' \subseteq records,
           \A g \in Gens : doc'[g].refs \subseteq doc[g].refs
    PROVE  Kept'
<1> USE DEF Kept, OnlyAskedIsLost, creation, output
<1>1. RecordsAreStored'
  BY DEF RecordsAreStored, Stored
<1>2. UploadsAreStored'
  BY DEF UploadsAreStored, Stored
<1>3. OutputsAreStored' /\ AnsweredIsComplete'
  BY DEF OutputsAreStored, AnsweredIsComplete, Stored
<1>4. PendingRefsAreBacked'
  BY DEF PendingRefsAreBacked, Backed, OutputKey
<1>5. AnsweredMeansStored'
  BY DEF AnsweredMeansStored, Files
<1>6. RefsAreBacked'
  BY DEF RefsAreBacked, RefKey, OutputKey
<1>7. QED
  BY <1>1, <1>2, <1>3, <1>4, <1>5, <1>6

\* A new request has stored nothing yet, and answered only if it has nothing to store.
LEMMA CreateKeeps ==
    ASSUME Progress, Kept, OnlyAskedIsLost, NEW g \in Gens, NEW test \in BOOLEAN,
           NEW files \in SUBSET Inputs, Create(g, test, files)
    PROVE  Kept'
<1>1. /\ \A h \in Gens : doc'[h].refs = doc[h].refs
      /\ create[g] = "idle" /\ doc[g].refs = {} /\ refIds[g] = {} /\ link[g] = "none"
  BY DocFacts DEF Progress, Create, NothingBeforeCreate, DocsAreTheirOwn
<1>2. /\ request' = [request EXCEPT ![g] = [test |-> test, files |-> files]]
      /\ create' = [create EXCEPT ![g] = IF files = {} THEN "answered" ELSE "uploading"]
      /\ upload' = [upload EXCEPT ![g] = [k \in Inputs |-> IF k \in files THEN "putting" ELSE "none"]]
      /\ UNCHANGED <<store, refIds, saving, output, deletion, crashes>>
  BY DEF Create
<1> USE <1>1, <1>2 DEF Progress, TypeOK, Kept, OnlyAskedIsLost, store, output, deletion
<1>3. RecordsAreStored' /\ OutputsAreStored'
  BY DEF RecordsAreStored, OutputsAreStored, Stored
<1>4. UploadsAreStored' /\ AnsweredIsComplete'
  BY DEF UploadsAreStored, AnsweredIsComplete, Stored
<1>5. PendingRefsAreBacked'
  BY DEF PendingRefsAreBacked, Backed, OutputKey
<1>6. AnsweredMeansStored'
  BY DEF AnsweredMeansStored, Files
<1>7. RefsAreBacked'
  BY DEF RefsAreBacked, RefKey, OutputKey
<1>8. QED
  BY <1>3, <1>4, <1>5, <1>6, <1>7

\* A write to the state of one upload.
LEMMA UploadToFacts ==
    ASSUME TypeOK, NEW g \in Gens, NEW k \in Inputs, NEW s, upload' = [upload EXCEPT ![g][k] = s]
    PROVE  /\ upload'[g][k] = s
           /\ \A h \in Gens, i \in Inputs : h # g \/ i # k => upload'[h][i] = upload[h][i]
BY DEF TypeOK

\* A put that succeeded has left an object; an upload that has yet to be tracked loses none.
LEMMA UploadsStayStored ==
    ASSUME UploadsAreStored, OnlyAskedIsLost,
           \A g \in Gens, k \in Inputs :
                \/ upload'[g][k] \in {upload[g][k], "none", "putting", "failed"}
                \/ upload'[g][k] = "tracking" /\ <<g, k>> \in objects'
                \/ upload[g][k] = "tracking" /\ upload'[g][k] \in {"tracked", "untracked"}
    PROVE  UploadsAreStored'
<1>1. ASSUME NEW g \in Gens, NEW k \in Inputs
      PROVE  /\ upload'[g][k] = "tracking" => <<g, k>> \in objects'
             /\ upload'[g][k] \in {"tracked", "untracked"} => <<g, k>> \in objects' \cup released'
  <2>1. /\ upload[g][k] = "tracking" => <<g, k>> \in objects'
        /\ upload[g][k] \in {"tracked", "untracked"} => <<g, k>> \in objects' \cup released'
    BY DEF UploadsAreStored, OnlyAskedIsLost, Stored
  <2>2. QED
    BY <2>1
<1>2. QED
  BY <1>1 DEF UploadsAreStored, Stored

\* A record is created after the object.
LEMMA RecordsStayStored ==
    ASSUME RecordsAreStored, OnlyAskedIsLost, \A k \in records' \ records : Stored(k)
    PROVE  RecordsAreStored'
BY DEF RecordsAreStored, OnlyAskedIsLost, Stored

LEMMA UploadKeeps ==
    ASSUME Progress, Kept, OnlyAskedIsLost, NEW g \in Gens, NEW k \in Inputs, UploadSucceeds(g, k)
    PROVE  Kept'
<1>1. /\ upload[g][k] = "putting" /\ objects' = objects \cup {<<g, k>>}
      /\ upload' = [upload EXCEPT ![g][k] = "tracking"]
      /\ \/ /\ create[g] = "uploading" /\ LastUpload(g, k) /\ create' = [create EXCEPT ![g] = "answered"]
         \/ create' = create
      /\ UNCHANGED <<records, doc, request, refIds, output, deletion, crashes>>
  BY DEF UploadSucceeds, UploadTo, Put, Answer
<1> USE <1>1 DEF Progress, TypeOK, Kept, OnlyAskedIsLost, output, deletion
<1>2. RecordsAreStored' /\ OutputsAreStored'
  BY DEF RecordsAreStored, OutputsAreStored, Stored
<1>3. UploadsAreStored'
  BY UploadToFacts, UploadsStayStored
<1>4. AnsweredIsComplete'
  BY DEF AnsweredIsComplete, LastUpload, UploadsAreFiles
<1>5. PendingRefsAreBacked'
  BY DEF PendingRefsAreBacked, Backed, OutputKey
<1>6. AnsweredMeansStored'
  <2>1. ASSUME create[g] = "uploading", LastUpload(g, k), NEW i \in Files(g)
        PROVE  <<g, i>> \in objects' \cup released'
    <3>1. CASE i = k
      BY <3>1
    <3>2. CASE i # k
      <4>1. i \in Inputs /\ upload[g][i] \in {"tracking", "tracked", "untracked"}
        BY <2>1, <3>2 DEF LastUpload, UploadsAreFiles, Files
      <4>2. QED
        BY <4>1 DEF UploadsAreStored, Stored
    <3>3. QED
      BY <3>1, <3>2
  <2>2. \A h \in Gens : create'[h] = "answered" =>
            create[h] = "answered" \/ (h = g /\ create[g] = "uploading" /\ LastUpload(g, k))
    OBVIOUS
  <2>3. QED
    BY <2>1, <2>2 DEF AnsweredMeansStored, Files
<1>7. RefsAreBacked'
  BY DEF RefsAreBacked, RefKey, OutputKey
<1>8. QED
  BY <1>2, <1>3, <1>4, <1>5, <1>6, <1>7

LEMMA FailureKeeps ==
    ASSUME Progress, Kept, OnlyAskedIsLost, NEW g \in Gens, NEW k \in Inputs,
           UploadFails(g, k) \/ TrackFails(g, k)
    PROVE  Kept'
<1>1. /\ objects \subseteq objects'
      /\ \/ upload[g][k] = "putting" /\ upload' = [upload EXCEPT ![g][k] = "failed"]
         \/ upload[g][k] = "tracking" /\ upload' = [upload EXCEPT ![g][k] = "untracked"]
      /\ create' = create \/ create' = [create EXCEPT ![g] = "failed"]
      /\ UNCHANGED <<records, doc, request, refIds, output, deletion, crashes>>
  BY DEF UploadFails, TrackFails, UploadTo, PutThrows, Put, store
<1>2. \A h \in Gens, i \in Inputs :
        \/ upload'[h][i] \in {upload[h][i], "failed"}
        \/ upload[h][i] = "tracking" /\ upload'[h][i] = "untracked"
  BY <1>1, UploadToFacts DEF Progress
<1>3. UploadsAreStored'
  BY <1>2, UploadsStayStored DEF Kept
<1> USE <1>1 DEF Progress, TypeOK, Kept, OnlyAskedIsLost, output, deletion
<1>4. RecordsAreStored' /\ OutputsAreStored'
  BY DEF RecordsAreStored, OutputsAreStored, Stored
<1>5. AnsweredIsComplete'
  <2>1. \A h \in Gens : create'[h] = "answered" => create[h] = "answered"
    OBVIOUS
  <2>2. QED
    BY <1>2, <2>1 DEF AnsweredIsComplete
<1>6. PendingRefsAreBacked'
  BY DEF PendingRefsAreBacked, Backed, OutputKey
<1>7. AnsweredMeansStored'
  BY DEF AnsweredMeansStored, Files
<1>8. RefsAreBacked'
  BY DEF RefsAreBacked, RefKey, OutputKey
<1>9. QED
  BY <1>3, <1>4, <1>5, <1>6, <1>7, <1>8

\* The object is there when its FileRecord is created: an input that is not tracked is in
\* nobody's hands.
LEMMA TrackKeeps ==
    ASSUME Progress, Kept, OnlyAskedIsLost, NEW g \in Gens, NEW k \in Inputs, TrackSucceeds(g, k)
    PROVE  Kept'
<1>1. /\ upload[g][k] = "tracking" /\ records' = records \cup {<<g, k>>}
      /\ upload' = [upload EXCEPT ![g][k] = "tracked"]
      /\ refIds' = [refIds EXCEPT ![g] = @ \cup {k}]
      /\ UNCHANGED <<objects, doc, request, create, saving, output, deletion, crashes>>
  BY DEF TrackSucceeds, Track, UploadTo
<1>2. <<g, k>> \in objects' \cap records'
  BY <1>1 DEF Kept, UploadsAreStored
<1>3. /\ upload'[g][k] = "tracked"
      /\ \A h \in Gens, i \in Inputs : h # g \/ i # k => upload'[h][i] = upload[h][i]
  BY <1>1, UploadToFacts DEF Progress
<1>4. RecordsAreStored'
  BY <1>1, <1>2, RecordsStayStored DEF Kept, Stored
<1>5. OutputsAreStored'
  BY <1>1 DEF Kept, OutputsAreStored, OnlyAskedIsLost, Stored, output
<1>6. UploadsAreStored'
  BY <1>1, <1>3, UploadsStayStored DEF Kept
<1>7. AnsweredIsComplete'
  BY <1>1, <1>3 DEF Kept, AnsweredIsComplete
<1>8. PendingRefsAreBacked'
  <2>1. \A h \in Gens : \A i \in refIds'[h] : i \in refIds[h] \/ (h = g /\ i = k)
    BY <1>1 DEF Progress, TypeOK
  <2>2. QED
    BY <1>1, <1>2, <2>1 DEF Kept, PendingRefsAreBacked, OnlyAskedIsLost, Backed, OutputKey, output
<1>9. AnsweredMeansStored'
  BY <1>1 DEF Kept, AnsweredMeansStored, OnlyAskedIsLost, Files
<1>10. RefsAreBacked'
  BY <1>1 DEF Kept, RefsAreBacked, OnlyAskedIsLost, RefKey, OutputKey
<1>11. QED
  BY <1>4, <1>5, <1>6, <1>7, <1>8, <1>9, <1>10 DEF Kept

\* setFileRefs and the search for the output's record write references that have been tracked;
\* markCompleted writes none.
LEMMA ReferringKeeps ==
    ASSUME Progress, Kept, OnlyAskedIsLost, NEW g \in Gens, UNCHANGED <<store, request, create, upload, refIds, external>>,
           \A h \in Gens \ {g} : doc'[h].refs = doc[h].refs /\ link'[h] = link[h],
           link'[g] = "found" => link[g] = "found" \/ OutputKey(g) \in records,
           \A k \in doc'[g].refs \ doc[g].refs :
                k \in refIds[g] \/ (k = "output" /\ link[g] = "found")
    PROVE  Kept'
<1> USE DEF Kept, OnlyAskedIsLost, store
<1>1. RecordsAreStored' /\ OutputsAreStored'
  BY DEF RecordsAreStored, OutputsAreStored, Stored
<1>2. UploadsAreStored'
  BY UploadsStayStored
<1>3. AnsweredIsComplete' /\ AnsweredMeansStored'
  BY DEF AnsweredIsComplete, AnsweredMeansStored, Files
<1>4. PendingRefsAreBacked'
  BY DEF RecordsAreStored, Stored, PendingRefsAreBacked, Backed, OutputKey
<1>5. RefsAreBacked'
  <2>1. \A k \in doc'[g].refs \ doc[g].refs :
            RefKey(g, k) \in released \/ RefKey(g, k) \in objects \cap records
    BY DEF Progress, TypeOK, PendingRefsAreBacked, Backed, RefKey, Inputs
  <2>2. \A h \in Gens, k \in Kinds : RefKey(h, k)' = RefKey(h, k)
    BY DEF RefKey, OutputKey
  <2>3. \A h \in Gens : \A k \in doc'[h].refs : RefKey(h, k) \in released \/ RefKey(h, k) \in objects \cap records
    BY <2>1 DEF RefsAreBacked
  <2>4. QED
    BY <2>3 DEF RefsAreBacked, RefKey, OutputKey
<1>6. QED
  BY <1>1, <1>2, <1>3, <1>4, <1>5

LEMMA SaveKeeps ==
    ASSUME Progress, Kept, OnlyAskedIsLost, NEW g \in Gens, SaveRefs(g)
    PROVE  Kept'
<1>1. /\ saving[g] \in SUBSET Kinds /\ saving[g] \subseteq refIds[g]
      /\ \/ doc' = [doc EXCEPT ![g].refs = IF doc[g].present THEN @ \cup saving[g] ELSE @]
         \/ UNCHANGED doc
      /\ UNCHANGED <<store, request, create, upload, refIds, output, deletion, crashes>>
  BY DEF SaveRefs, Progress, TypeOK, Kinds, RefsAreTracked
<1>2. /\ doc'[g].refs \subseteq doc[g].refs \cup saving[g]
      /\ \A h \in Gens \ {g} : doc'[h] = doc[h]
  BY <1>1, SetRefsFacts DEF Progress
<1>3. QED
  BY <1>1, <1>2, ReferringKeeps DEF output

LEMMA OutputKeeps ==
    ASSUME Progress, Kept, OnlyAskedIsLost, NEW g \in Gens, Output(g)
    PROVE  Kept'
<1>1. ASSUME ExternalPut(g) PROVE Kept'
  <2>1. /\ objects' = objects \cup {<<g, "output">>} /\ external' = [external EXCEPT ![g] = "put"]
        /\ UNCHANGED <<records, doc, creation, link, deletion, crashes>>
    BY <1>1 DEF ExternalPut, Put
  <2> USE <2>1 DEF Kept, OnlyAskedIsLost, creation, Progress, TypeOK
  <2>2. RecordsAreStored' /\ UploadsAreStored'
    BY RecordsStayStored, UploadsStayStored
  <2>3. OutputsAreStored'
    BY DEF OutputsAreStored, Stored
  <2>4. AnsweredIsComplete' /\ AnsweredMeansStored'
    BY DEF AnsweredIsComplete, AnsweredMeansStored, Files
  <2>5. PendingRefsAreBacked' /\ RefsAreBacked'
    BY DEF PendingRefsAreBacked, Backed, RefsAreBacked, RefKey, OutputKey
  <2>6. QED
    BY <2>2, <2>3, <2>4, <2>5
<1>2. ASSUME ExternalRecord(g) PROVE Kept'
  <2>1. /\ external[g] = "put" /\ \A h \in Gens \ {g} : external'[h] = external[h]
        /\ records \subseteq records' /\ records' \subseteq records \cup {<<g, "output">>}
        /\ UNCHANGED <<objects, doc, creation, link, deletion, crashes>>
    BY <1>2 DEF ExternalRecord, Track, Progress, TypeOK
  <2>2. Stored(<<g, "output">>)
    BY <2>1 DEF Kept, OutputsAreStored
  <2> USE <2>1 DEF Kept, OnlyAskedIsLost, creation
  <2>3. RecordsAreStored' /\ UploadsAreStored'
    BY <2>2, RecordsStayStored, UploadsStayStored
  <2>4. OutputsAreStored'
    BY <2>2 DEF OutputsAreStored, Stored
  <2>5. AnsweredIsComplete' /\ AnsweredMeansStored'
    BY DEF AnsweredIsComplete, AnsweredMeansStored, Files
  <2>6. PendingRefsAreBacked' /\ RefsAreBacked'
    BY DEF PendingRefsAreBacked, Backed, RefsAreBacked, RefKey, OutputKey
  <2>7. QED
    BY <2>3, <2>4, <2>5, <2>6
<1>3. ASSUME Complete(g) PROVE Kept'
  <2>1. /\ \A h \in Gens : doc'[h].refs = doc[h].refs
        /\ link' = [link EXCEPT ![g] = "finding"]
        /\ UNCHANGED <<store, creation, external, deletion, crashes>>
    BY <1>3, DocFacts, OutputFacts DEF Complete, Progress
  <2>2. link'[g] = "finding" /\ \A h \in Gens \ {g} : link'[h] = link[h]
    BY <2>1 DEF Progress, TypeOK
  <2>3. QED
    BY <2>1, <2>2, ReferringKeeps DEF creation
<1>4. ASSUME FindOutput(g) PROVE Kept'
  <2>1. /\ link' = [link EXCEPT ![g] = IF OutputKey(g) \in records THEN "found" ELSE "ended"]
        /\ UNCHANGED <<store, doc, creation, external, deletion, crashes>>
    BY <1>4 DEF FindOutput
  <2>2. /\ link'[g] = "found" => OutputKey(g) \in records
        /\ \A h \in Gens \ {g} : link'[h] = link[h]
    BY <2>1 DEF Progress, TypeOK
  <2>3. QED
    BY <2>1, <2>2, ReferringKeeps DEF creation
<1>5. ASSUME LinkOutput(g) PROVE Kept'
  <2>1. /\ link[g] = "found" /\ link' = [link EXCEPT ![g] = "ended"]
        /\ \/ doc' = [doc EXCEPT ![g].refs = IF doc[g].present THEN @ \cup {"output"} ELSE @]
           \/ UNCHANGED doc
        /\ UNCHANGED <<store, creation, external, deletion, crashes>>
    BY <1>5 DEF LinkOutput
  <2>2. /\ doc'[g].refs \subseteq doc[g].refs \cup {"output"}
        /\ \A h \in Gens \ {g} : doc'[h] = doc[h]
    BY <2>1, SetRefsFacts DEF Kinds, Progress
  <2>3. link'[g] = "ended" /\ \A h \in Gens \ {g} : link'[h] = link[h]
    BY <2>1 DEF Progress, TypeOK
  <2>4. QED
    BY <2>1, <2>2, <2>3, ReferringKeeps DEF creation
<1>6. QED
  BY <1>1, <1>2, <1>3, <1>4, <1>5 DEF Output

LEMMA CrashKeeps ==
    ASSUME Progress, Kept, OnlyAskedIsLost, Crash
    PROVE  Kept'
<1> USE DEF Progress, TypeOK, Kept, OnlyAskedIsLost, Crash, store
<1>1. RecordsAreStored' /\ OutputsAreStored'
  BY DEF RecordsAreStored, OutputsAreStored, Stored
<1>2. UploadsAreStored'
  BY UploadsStayStored
<1>3. AnsweredIsComplete' /\ AnsweredMeansStored'
  BY DEF AnsweredIsComplete, AnsweredMeansStored, Files
<1>4. PendingRefsAreBacked' /\ RefsAreBacked'
  BY DEF PendingRefsAreBacked, Backed, RefsAreBacked, RefKey, OutputKey
<1>5. QED
  BY <1>1, <1>2, <1>3, <1>4

LEMMA KeptStep ==
    ASSUME Progress, Asked, Kept, [Next]_vars
    PROVE  Kept'
<1>1. OnlyAskedIsLost
  BY NothingElseIsLost
<1>2. ASSUME NEW g \in Gens, Creation(g) PROVE Kept'
  BY <1>1, <1>2, SaveKeeps, UploadKeeps, FailureKeeps, TrackKeeps DEF Creation
<1>3. ASSUME NEW x \in Deleters, Delete(x) PROVE Kept'
  <2>1. \A g \in Gens : doc'[g].refs \subseteq doc[g].refs
    BY <1>3, DeleteDocsFacts DEF Delete, DeleteFiles, DeleteRecords, DeleteFails, DelVars
  <2>2. QED
    BY <1>1, <1>3, <2>1, DeleteFacts, DeletingKeeps
<1>4. CASE CleanupReads \/ \E x \in Deleters, g \in Gens : RemoveReads(x, g)
  BY <1>1, <1>4, DeletingKeeps DEF CleanupReads, RemoveReads, Read, DelVars, store
<1>5. ASSUME NEW k \in Keys, RemoveFile(k) \/ DropObject(k) PROVE Kept'
  BY <1>1, <1>5, DeletingKeeps DEF RemoveFile, DropObject, Unfile, Forget, Drop, DelVars
<1>6. ASSUME NEW g \in Gens, Age(g) PROVE Kept'
  BY <1>1, <1>6, DeletingKeeps DEF Age, DelVars, store
<1>7. CASE UNCHANGED vars
  BY <1>1, <1>7, DeletingKeeps DEF vars, store
<1>8. QED
  BY <1>1, <1>2, <1>3, <1>4, <1>5, <1>6, <1>7, CreateKeeps, OutputKeeps, CrashKeeps DEF Next

-----------------------------------------------------------------------------
(* Records whose object has gone stay in reach.                            *)

\* An object or a record of an input that leaves was tracked, and a record that comes was not:
\* nobody has had it in hand.
LEMMA RecordsComeOnce ==
    ASSUME Progress, Asked, Kept, [Next]_vars, NEW g \in Gens, NEW k \in Inputs, <<g, k>> \in records' \ records
    PROVE  /\ <<g, k>> \in objects' /\ <<g, k>> \notin dropping
           /\ \A x \in Deleters : <<g, k>> \notin del[x].keys \cup del[x].refs
           /\ UNCHANGED <<objects, del, dropping, doc, old>>
<1>1. TrackSucceeds(g, k)
  <2>1. ASSUME NEW h \in Gens, NEW i \in Inputs, TrackSucceeds(h, i) PROVE TrackSucceeds(g, k)
    <3>1. <<g, k>> = <<h, i>>
      BY <2>1 DEF TrackSucceeds, Track
    <3>2. QED
      BY <2>1, <3>1
  <2>2. ASSUME NEW h \in Gens, ExternalRecord(h) PROVE FALSE
    <3>1. records' \subseteq records \cup {<<h, "output">>}
      BY <2>2 DEF ExternalRecord, Track
    <3>2. QED
      BY <3>1 DEF Inputs
  <2>3. ASSUME records' \subseteq records PROVE FALSE
    BY <2>3
  <2>4. ASSUME NEW h \in Gens, Creation(h) PROVE TrackSucceeds(g, k)
    BY <2>1, <2>3, <2>4 DEF Creation, SaveRefs, UploadSucceeds, UploadFails, TrackFails, store
  <2>5. ASSUME NEW h \in Gens, Output(h) \/ Age(h) PROVE FALSE
    BY <2>2, <2>3, <2>5 DEF Output, ExternalPut, Complete, FindOutput, LinkOutput, Age, store
  <2>6. ASSUME \/ \E h \in Gens, test \in BOOLEAN, files \in SUBSET Inputs : Create(h, test, files)
               \/ Crash \/ UNCHANGED vars
               \/ CleanupReads \/ \E x \in Deleters, h \in Gens : RemoveReads(x, h)
        PROVE  FALSE
    BY <2>3, <2>6 DEF Create, Crash, vars, CleanupReads, RemoveReads, Read, store
  <2>7. ASSUME NEW x \in Deleters, Delete(x) PROVE FALSE
    BY <2>3, <2>7, DeleteFacts
  <2>8. ASSUME NEW key \in Keys, RemoveFile(key) \/ DropObject(key) PROVE FALSE
    BY <2>3, <2>8 DEF RemoveFile, Unfile, Forget, DropObject, Drop
  <2>9. QED
    BY <2>4, <2>5, <2>6, <2>7, <2>8 DEF Next
<1>2. upload[g][k] = "tracking" /\ UNCHANGED <<objects, del, dropping, doc, old>>
  BY <1>1 DEF TrackSucceeds, deletion
<1>3. <<g, k>> \in objects
  BY <1>2 DEF Kept, UploadsAreStored
<1>4. <<g, k>> \notin dropping /\ \A x \in Deleters : <<g, k>> \notin del[x].keys \cup del[x].refs
  BY <1>2 DEF Asked, DeletedInputsWereTracked
<1>5. QED
  BY <1>2, <1>3, <1>4

\* A deletion by the user that is done stays as it is.
LEMMA TakenForGood ==
    ASSUME Progress, [Next]_vars
    PROVE  \A y \in Removals : del[y].stage = "done" => del'[y] = del[y]
<1>1. ASSUME NEW x \in Deleters, NEW s, del[x].stage # "done", del' = [del EXCEPT ![x] = s]
      PROVE  \A y \in Removals : del[y].stage = "done" => del'[y] = del[y]
  BY <1>1 DEF Progress, TypeOK, Deleters
<1>2. ASSUME NEW x \in Deleters, NEW G, Read(x, G)
      PROVE  \A y \in Removals : del[y].stage = "done" => del'[y] = del[y]
  BY <1>1, <1>2 DEF Read
<1>3. ASSUME NEW x \in Deleters, Delete(x)
      PROVE  \A y \in Removals : del[y].stage = "done" => del'[y] = del[y]
  BY <1>1, <1>3 DEF Delete, DeleteFiles, DeleteRecords, DeleteDocs, DeleteFails, Advance
<1>4. CASE Crash
  BY <1>4, CrashFacts DEF Progress, Deleters
<1>5. CASE UNCHANGED del
  BY <1>5
<1>6. Cleaner \in Deleters
  BY DEF Deleters
<1>7. QED
  BY <1>2, <1>3, <1>4, <1>5, <1>6 DEF Next, RemoveReads, CleanupReads, Create, Creation, UploadSucceeds,
     UploadFails, TrackSucceeds, TrackFails, SaveRefs, Output, ExternalPut, ExternalRecord, Complete,
     FindOutput, LinkOutput, Age, RemoveFile, DropObject, deletion, vars

\* Requests and the output: references are added, to documents that are not old.
LEMMA GrowingInReach ==
    ASSUME Progress, Asked, Kept, InReach, [Next]_vars,
           UNCHANGED <<del, dropping, old>>, objects \subseteq objects',
           \A g \in Gens :
                /\ doc[g].refs \subseteq doc'[g].refs
                /\ g \in old => doc'[g].refs \cap Inputs \subseteq doc[g].refs
                /\ create[g] # "idle" => create'[g] # "idle" /\ (doc'[g].present => doc[g].present)
    PROVE  InReach'
<1> USE DEF InReach
<1>1. \A g \in Gens, k \in Inputs :
        <<g, k>> \in records' \ records =>
            /\ <<g, k>> \in objects' /\ <<g, k>> \notin dropping
            /\ \A x \in Deleters : <<g, k>> \notin del[x].refs
  BY RecordsComeOnce
<1>2. \A x \in Deleters : del[x].gens \subseteq Gens
  BY DEF Progress, TypeOK, Deletion
<1>3. KeysHaveRefs' /\ CleanupIsOfTheOld' /\ DoneIsGone'
  BY <1>2 DEF KeysHaveRefs, CleanupIsOfTheOld, DoneIsGone
<1>4. DroppedHaveNoRecord' /\ DeletedRecordsAreGone'
  BY <1>1 DEF DroppedHaveNoRecord, DeletedRecordsAreGone
<1>5. OldReadsAll'
  BY <1>2 DEF OldReadsAll
<1>6. ReadRefsStay' /\ LostObjectsAreReferredTo'
  BY <1>1 DEF ReadRefsStay, LostObjectsAreReferredTo, Taken, TakenAway
<1>7. LostObjectsHaveACulprit'
  BY <1>1 DEF LostObjectsHaveACulprit
<1>8. QED
  BY <1>3, <1>4, <1>5, <1>6, <1>7

\* The file manager deletes a record, and then an object that has no record any more.
LEMMA UnfilingInReach ==
    ASSUME InReach, UNCHANGED <<del, doc, old, create>>, records' \subseteq records,
           \A k \in dropping' \ dropping : k \notin records',
           \A g \in Gens, k \in Inputs : <<g, k>> \in objects \ objects' => <<g, k>> \notin records'
    PROVE  InReach'
<1> USE DEF InReach
<1>1. KeysHaveRefs' /\ CleanupIsOfTheOld' /\ DoneIsGone' /\ OldReadsAll'
  BY DEF KeysHaveRefs, CleanupIsOfTheOld, DoneIsGone, OldReadsAll
<1>2. DroppedHaveNoRecord' /\ DeletedRecordsAreGone'
  BY DEF DroppedHaveNoRecord, DeletedRecordsAreGone
<1>3. ReadRefsStay' /\ LostObjectsAreReferredTo'
  BY DEF ReadRefsStay, LostObjectsAreReferredTo, Taken, TakenAway
<1>4. LostObjectsHaveACulprit'
  BY DEF LostObjectsHaveACulprit
<1>5. QED
  BY <1>1, <1>2, <1>3, <1>4

\* On the seventh day no deletion of the document by the user is under way, and none has taken
\* it away: it is there.
LEMMA AgeInReach ==
    ASSUME Progress, InReach, NEW g \in Gens, Age(g)
    PROVE  InReach'
<1>1. /\ doc[g].present /\ old' = old \cup {g}
      /\ \A x \in Removals : g \in del[x].gens => del[x].stage \in {"done", "failed"}
      /\ UNCHANGED <<objects, records, dropping, del, doc, create>>
  BY DEF Age, DelVars, store, creation
<1> USE DEF InReach
<1>2. KeysHaveRefs' /\ CleanupIsOfTheOld' /\ DoneIsGone'
  BY <1>1 DEF KeysHaveRefs, CleanupIsOfTheOld, DoneIsGone
<1>3. DroppedHaveNoRecord' /\ DeletedRecordsAreGone'
  BY <1>1 DEF DroppedHaveNoRecord, DeletedRecordsAreGone
<1>4. OldReadsAll'
  <2>1. g \notin old => \A x \in Deleters : g \in del[x].gens => del[x].stage \notin Underway
    BY <1>1 DEF CleanupIsOfTheOld, Deleters, Underway
  <2>2. QED
    BY <1>1, <2>1 DEF OldReadsAll
<1>5. \A k \in Inputs : ~TakenAway(g, k)
  BY <1>1 DEF TakenAway, DoneIsGone, Deleters
<1>6. ReadRefsStay' /\ LostObjectsAreReferredTo'
  BY <1>1, <1>5 DEF ReadRefsStay, LostObjectsAreReferredTo, Taken, TakenAway
<1>7. LostObjectsHaveACulprit'
  BY <1>1 DEF LostObjectsHaveACulprit
<1>8. QED
  BY <1>2, <1>3, <1>4, <1>6, <1>7

LEMMA ReadInReach ==
    ASSUME Progress, InReach, NEW x \in Deleters, NEW G \in SUBSET Gens, Read(x, G),
           \A g \in G : doc[g].present, x = Cleaner => G \subseteq old
    PROVE  InReach'
<1>1. /\ del[x].stage = "idle" /\ del'[x].stage = "read" /\ del'[x].gens = G
      /\ \A g \in Gens, k \in Inputs :
            /\ <<g, k>> \in del'[x].keys => g \in G /\ k \in doc[g].refs
            /\ <<g, k>> \in del'[x].refs <=> g \in G /\ k \in doc[g].refs
      /\ \A y \in Deleters \ {x} : del'[y] = del[y]
      /\ UNCHANGED <<objects, records, dropping, old, doc, create>>
  BY ReadFacts DEF DelVars, store, creation
<1>2. \A g \in G : create[g] # "idle"
  BY DEF Progress, NothingBeforeCreate
<1> USE DEF InReach
<1>3. KeysHaveRefs' /\ CleanupIsOfTheOld' /\ DoneIsGone'
  BY <1>1, <1>2 DEF KeysHaveRefs, CleanupIsOfTheOld, DoneIsGone, Deleters
<1>4. DroppedHaveNoRecord' /\ DeletedRecordsAreGone'
  BY <1>1 DEF DroppedHaveNoRecord, DeletedRecordsAreGone
<1>5. OldReadsAll'
  BY <1>1 DEF OldReadsAll
<1>6. \A g \in Gens, k \in Inputs : TakenAway(g, k) => TakenAway(g, k)'
  BY <1>1 DEF TakenAway, Deleters
<1>7. ReadRefsStay' /\ LostObjectsAreReferredTo'
  BY <1>1, <1>6 DEF ReadRefsStay, LostObjectsAreReferredTo, Taken
<1>8. LostObjectsHaveACulprit'
  <2>1. \A y \in Removals : del[y].stage \in {"objects", "failed"} => del'[y] = del[y]
    BY <1>1 DEF Deleters
  <2>2. UNCHANGED <<objects, records, old>>
    BY <1>1
  <2>3. QED
    BY <2>1, <2>2 DEF LostObjectsHaveACulprit
<1>9. QED
  BY <1>3, <1>4, <1>5, <1>7, <1>8

\* What a deletion that goes on keeps in hand.
LEMMA GoesOn ==
    ASSUME Progress, NEW x \in Deleters, NEW from, NEW s \in {"objects", "records"}, Advance(x, from, s)
    PROVE  /\ del[x].stage = from /\ del'[x].stage = s
           /\ del'[x].gens = del[x].gens /\ del'[x].keys = del[x].keys /\ del'[x].refs = del[x].refs
           /\ \A y \in Deleters \ {x} : del'[y] = del[y]
<1>1. TypeOK /\ del[x].stage = from /\ del' = [del EXCEPT ![x] = Stage(x, s)]
  BY DEF Advance, Progress
<1>2. del'[x] = Stage(x, s) /\ \A y \in Deleters \ {x} : del'[y] = del[y]
  BY <1>1, AdvanceFacts
<1>3. /\ Stage(x, s).stage = s /\ Stage(x, s).gens = del[x].gens
      /\ Stage(x, s).keys = del[x].keys /\ Stage(x, s).refs = del[x].refs
  BY <1>1, StageFacts
<1>4. QED
  BY <1>1, <1>2, <1>3

\* A deletion that removes objects has the records of the inputs among them in hand.
LEMMA DeleteFilesInReach ==
    ASSUME Progress, InReach, NEW x \in Deleters, DeleteFiles(x)
    PROVE  InReach'
<1>1. /\ del[x].stage = "read" /\ del'[x].stage = "objects"
      /\ del'[x].gens = del[x].gens /\ del'[x].keys = del[x].keys /\ del'[x].refs = del[x].refs
      /\ \A y \in Deleters \ {x} : del'[y] = del[y]
      /\ objects' \subseteq objects /\ objects \ objects' \subseteq del[x].keys
      /\ UNCHANGED <<records, dropping, old, doc, create>>
  BY GoesOn, DeleteObjectsFacts DEF DeleteFiles, DelVars, creation
<1> USE DEF InReach
<1>2. KeysHaveRefs' /\ CleanupIsOfTheOld' /\ DoneIsGone'
  BY <1>1 DEF KeysHaveRefs, CleanupIsOfTheOld, DoneIsGone, Deleters
<1>3. DroppedHaveNoRecord' /\ DeletedRecordsAreGone'
  BY <1>1 DEF DroppedHaveNoRecord, DeletedRecordsAreGone
<1>4. OldReadsAll'
  BY <1>1 DEF OldReadsAll, Underway
<1>5. \A g \in Gens, k \in Inputs : TakenAway(g, k) => TakenAway(g, k)'
  BY <1>1 DEF TakenAway, Deleters
<1>6. ReadRefsStay'
  BY <1>1, <1>5 DEF ReadRefsStay, Taken
<1>7. ASSUME NEW g \in Gens, NEW k \in Inputs, <<g, k>> \in records' \ objects'
      PROVE  \/ <<g, k>> \in records \ objects
             \/ <<g, k>> \in del[x].refs /\ g \in del[x].gens
  BY <1>1, <1>7 DEF KeysHaveRefs
<1>8. LostObjectsAreReferredTo'
  BY <1>1, <1>5, <1>7 DEF ReadRefsStay, LostObjectsAreReferredTo, Taken
<1>9. LostObjectsHaveACulprit'
  <2>1. ASSUME NEW g \in Gens \ old, NEW k \in Inputs, <<g, k>> \in records' \ objects'
        PROVE  \E y \in Removals : <<g, k>> \in del'[y].refs /\ del'[y].stage \in {"objects", "failed"}
    <3>1. CASE <<g, k>> \in records \ objects
      BY <1>1, <3>1 DEF LostObjectsHaveACulprit, Deleters
    <3>2. CASE <<g, k>> \in del[x].refs /\ g \in del[x].gens
      <4>1. x \in Removals
        BY <3>2, <2>1 DEF CleanupIsOfTheOld, Deleters
      <4>2. QED
        BY <1>1, <3>2, <4>1
    <3>3. QED
      BY <1>7, <2>1, <3>1, <3>2
  <2>2. QED
    BY <1>1, <2>1 DEF LostObjectsHaveACulprit
<1>10. QED
  BY <1>2, <1>3, <1>4, <1>6, <1>8, <1>9

LEMMA DeleteRecordsInReach ==
    ASSUME Progress, InReach, NEW x \in Deleters, DeleteRecords(x)
    PROVE  InReach'
<1>1. /\ del[x].stage = "objects" /\ del'[x].stage = "records"
      /\ del'[x].gens = del[x].gens /\ del'[x].keys = del[x].keys /\ del'[x].refs = del[x].refs
      /\ \A y \in Deleters \ {x} : del'[y] = del[y]
      /\ records' = records \ del[x].refs
      /\ UNCHANGED <<objects, dropping, old, doc, create>>
  BY GoesOn DEF DeleteRecords, DelVars, creation, Forget
<1> USE DEF InReach
<1>2. KeysHaveRefs' /\ CleanupIsOfTheOld' /\ DoneIsGone'
  BY <1>1 DEF KeysHaveRefs, CleanupIsOfTheOld, DoneIsGone, Deleters
<1>3. DroppedHaveNoRecord' /\ DeletedRecordsAreGone'
  BY <1>1 DEF DroppedHaveNoRecord, DeletedRecordsAreGone
<1>4. OldReadsAll'
  BY <1>1 DEF OldReadsAll, Underway
<1>5. \A g \in Gens, k \in Inputs : TakenAway(g, k) => TakenAway(g, k)'
  BY <1>1 DEF TakenAway, Deleters
<1>6. ReadRefsStay' /\ LostObjectsAreReferredTo'
  BY <1>1, <1>5 DEF ReadRefsStay, LostObjectsAreReferredTo, Taken
<1>7. LostObjectsHaveACulprit'
  BY <1>1 DEF LostObjectsHaveACulprit, Deleters
<1>8. QED
  BY <1>2, <1>3, <1>4, <1>6, <1>7

\* Taking documents away: of a reference that this deletion has not read, the record is out of
\* its hands, unless the document is old and it has read them all.
LEMMA DeleteDocsInReach ==
    ASSUME Progress, InReach, NEW x \in Deleters, DeleteDocs(x)
    PROVE  InReach'
<1>1. /\ del[x].stage = "records" /\ del'[x] = Stage(x, "done")
      /\ \A y \in Deleters \ {x} : del'[y] = del[y]
      /\ \A g \in Gens : /\ g \in del[x].gens => ~doc'[g].present /\ doc'[g].refs = {}
                         /\ g \notin del[x].gens => doc'[g] = doc[g]
      /\ UNCHANGED <<objects, records, dropping, old, create>>
  BY DeleteDocsFacts DEF store, creation
<1>2. \/ /\ x = Cleaner /\ del'[x].stage = "idle"
         /\ del'[x].gens = {} /\ del'[x].keys = {} /\ del'[x].refs = {}
      \/ /\ x \in Removals /\ del'[x].stage = "done" /\ del'[x].gens = del[x].gens
         /\ del'[x].keys = del[x].keys /\ del'[x].refs = del[x].refs
  BY <1>1, StageFacts DEF Progress, Deleters, NoDeletion
<1>3. /\ del'[x].gens \subseteq del[x].gens /\ del'[x].keys \subseteq del[x].keys
      /\ del'[x].refs \subseteq del[x].refs /\ del'[x].stage \in {"idle", "done"}
      /\ x = Cleaner => del'[x].stage = "idle"
  BY <1>2, KeyFacts
<1>4. \A y \in Deleters : del[y].gens \subseteq Gens
  BY DEF Progress, TypeOK, Deletion
<1> USE DEF InReach
<1>5. KeysHaveRefs'
  BY <1>1, <1>2 DEF KeysHaveRefs
<1>6. CleanupIsOfTheOld' /\ DoneIsGone'
  BY <1>1, <1>3, <1>4 DEF CleanupIsOfTheOld, DoneIsGone, Deleters
<1>7. DroppedHaveNoRecord' /\ DeletedRecordsAreGone'
  BY <1>1, <1>3 DEF DroppedHaveNoRecord, DeletedRecordsAreGone
<1>8. OldReadsAll'
  BY <1>1, <1>3, <1>4 DEF OldReadsAll, Underway
<1>9. \A g \in Gens, k \in Inputs : TakenAway(g, k) => TakenAway(g, k)'
  <2>1. \A y \in Removals : del[y].stage = "done" => del'[y] = del[y]
    BY <1>1 DEF Deleters
  <2>2. QED
    BY <2>1 DEF TakenAway
<1>10. ASSUME NEW g \in Gens, NEW k \in Inputs, <<g, k>> \in records, k \in doc[g].refs
       PROVE  k \in doc'[g].refs \/ Taken(g, k)'
  <2>1. CASE g \notin del[x].gens
    BY <1>1, <1>10, <2>1
  <2>2. CASE g \in del[x].gens
    <3>1. <<g, k>> \notin del[x].refs
      BY <1>1, <1>10 DEF DeletedRecordsAreGone
    <3>2. g \notin old
      BY <1>1, <1>10, <2>2, <3>1 DEF OldReadsAll, Underway
    <3>3. x \in Removals /\ del'[x].stage = "done" /\ g \in del'[x].gens /\ <<g, k>> \notin del'[x].refs
      BY <1>2, <2>2, <3>1, <3>2 DEF CleanupIsOfTheOld
    <3>4. QED
      BY <1>1, <3>2, <3>3 DEF Taken, TakenAway
  <2>3. QED
    BY <2>1, <2>2
<1>11. ReadRefsStay'
  <2>1. \A y \in Deleters : del'[y].refs \subseteq del[y].refs
    BY <1>1, <1>3
  <2>2. QED
    BY <1>1, <1>9, <1>10, <2>1 DEF ReadRefsStay, Taken
<1>12. LostObjectsAreReferredTo'
  BY <1>1, <1>9, <1>10 DEF LostObjectsAreReferredTo, Taken
<1>13. LostObjectsHaveACulprit'
  <2>1. \A y \in Removals : del[y].stage \in {"objects", "failed"} => del'[y] = del[y]
    BY <1>1 DEF Deleters
  <2>2. QED
    BY <1>1, <2>1 DEF LostObjectsHaveACulprit
<1>14. QED
  BY <1>5, <1>6, <1>7, <1>8, <1>11, <1>12, <1>13

\* Deletions break off, one of them or all, in a failure or in a crash.
BreakOff ==
    \A x \in Deleters :
        \/ del'[x] = del[x]
        \/ del[x].stage \notin {"idle", "done"} /\ del'[x] = Stage(x, "failed")

LEMMA BreakingInReach ==
    ASSUME Progress, InReach, UNCHANGED <<objects, records, doc, old>>, dropping' \subseteq dropping,
           \A g \in Gens : create[g] # "idle" => create'[g] # "idle", BreakOff
    PROVE  InReach'
<1>1. \A x \in Deleters :
        \/ del'[x] = del[x]
        \/ /\ x = Cleaner /\ del'[x].stage = "idle"
           /\ del'[x].gens = {} /\ del'[x].keys = {} /\ del'[x].refs = {}
        \/ /\ x \in Removals /\ del[x].stage \notin {"idle", "done"}
           /\ del'[x].stage = "failed" /\ del'[x].gens = del[x].gens
           /\ del'[x].keys = del[x].keys /\ del'[x].refs = del[x].refs
  BY StageFacts DEF BreakOff, Progress, Deleters, NoDeletion
<1>2. \A x \in Deleters :
        /\ del'[x].gens \subseteq del[x].gens /\ del'[x].keys \subseteq del[x].keys
        /\ del'[x].refs \subseteq del[x].refs
        /\ del'[x].stage \in {del[x].stage, "idle", "failed"}
        /\ del[x].gens \subseteq Gens
        /\ x = Cleaner => del'[x].stage \in {del[x].stage, "idle"}
  BY <1>1, KeyFacts DEF Progress, TypeOK, Deletion
<1> USE DEF InReach
<1>3. KeysHaveRefs'
  BY <1>1 DEF KeysHaveRefs
<1>4. CleanupIsOfTheOld' /\ DoneIsGone'
  BY <1>2 DEF CleanupIsOfTheOld, DoneIsGone, Deleters
<1>5. DroppedHaveNoRecord' /\ DeletedRecordsAreGone'
  BY <1>2 DEF DroppedHaveNoRecord, DeletedRecordsAreGone
<1>6. OldReadsAll'
  BY <1>1, <1>2 DEF OldReadsAll, Underway
<1>7. \A g \in Gens, k \in Inputs : TakenAway(g, k) => TakenAway(g, k)'
  <2>1. \A y \in Removals : del[y].stage = "done" => del'[y] = del[y]
    BY <1>1, KeyFacts DEF Deleters
  <2>2. QED
    BY <2>1 DEF TakenAway
<1>8. ReadRefsStay' /\ LostObjectsAreReferredTo'
  BY <1>2, <1>7 DEF ReadRefsStay, LostObjectsAreReferredTo, Taken
<1>9. LostObjectsHaveACulprit'
  <2>1. \A y \in Removals : del[y].stage \in {"objects", "failed"} =>
            del'[y].refs = del[y].refs /\ del'[y].stage \in {"objects", "failed"}
    BY <1>1, KeyFacts DEF Deleters
  <2>2. QED
    BY <2>1 DEF LostObjectsHaveACulprit
<1>10. QED
  BY <1>3, <1>4, <1>5, <1>6, <1>8, <1>9

LEMMA InReachStep ==
    ASSUME Progress, Asked, Kept, InReach, [Next]_vars
    PROVE  InReach'
<1> USE DEF Progress
<1>1. ASSUME NEW g \in Gens, NEW test \in BOOLEAN, NEW files \in SUBSET Inputs, Create(g, test, files)
      PROVE  InReach'
  <2>1. /\ create[g] = "idle" /\ create' = [create EXCEPT ![g] = IF files = {} THEN "answered" ELSE "uploading"]
        /\ \A h \in Gens : doc'[h].refs = doc[h].refs /\ (h # g => doc'[h] = doc[h])
        /\ UNCHANGED <<del, dropping, old, objects>>
    BY <1>1, DocFacts DEF Create, deletion, store
  <2>2. \A h \in Gens : create[h] # "idle" => create'[h] # "idle" /\ doc'[h] = doc[h]
    BY <2>1 DEF TypeOK
  <2>3. QED
    BY <2>1, <2>2, GrowingInReach
<1>2. ASSUME UNCHANGED <<del, dropping, old, doc>>, objects \subseteq objects',
             \A g \in Gens : create[g] # "idle" => create'[g] # "idle"
      PROVE  InReach'
  BY <1>2, GrowingInReach
<1>3. ASSUME NEW g \in Gens, NEW k \in Inputs,
             UploadSucceeds(g, k) \/ UploadFails(g, k) \/ TrackSucceeds(g, k) \/ TrackFails(g, k)
      PROVE  InReach'
  <2>1. UNCHANGED <<del, dropping, old, doc>> /\ objects \subseteq objects'
    BY <1>3 DEF UploadSucceeds, UploadFails, TrackSucceeds, TrackFails, Put, PutThrows, deletion, store
  <2>2. \E s \in {"answered", "failed"} : create' = create \/ create' = [create EXCEPT ![g] = s]
    BY <1>3 DEF UploadSucceeds, UploadFails, TrackSucceeds, TrackFails, Answer
  <2>3. \A h \in Gens : create[h] # "idle" => create'[h] # "idle"
    BY <2>2 DEF TypeOK
  <2>4. QED
    BY <2>1, <2>3, <1>2
<1>4. ASSUME NEW g \in Gens, NEW R \in SUBSET Kinds, g \in old => R \cap Inputs = {},
             \/ doc' = [doc EXCEPT ![g].refs = IF doc[g].present THEN @ \cup R ELSE @]
             \/ UNCHANGED doc,
             UNCHANGED <<del, dropping, old, objects, create>>
      PROVE  InReach'
  <2>1. /\ doc'[g].present = doc[g].present
        /\ doc[g].refs \subseteq doc'[g].refs /\ doc'[g].refs \subseteq doc[g].refs \cup R
        /\ \A h \in Gens \ {g} : doc'[h] = doc[h]
    BY <1>4, SetRefsFacts
  <2>2. QED
    BY <1>4, <2>1, GrowingInReach
<1>5. ASSUME NEW g \in Gens, SaveRefs(g) PROVE InReach'
  <2>1. saving[g] \in SUBSET Kinds /\ (g \in old => saving[g] = {})
    BY DEF TypeOK, Kinds, OldIsSettled, Settled
  <2>2. QED
    BY <1>4, <1>5, <2>1 DEF SaveRefs, deletion, store
<1>6. ASSUME NEW g \in Gens, LinkOutput(g) PROVE InReach'
  <2>1. {"output"} \in SUBSET Kinds /\ {"output"} \cap Inputs = {}
    BY DEF Kinds, Inputs
  <2>2. QED
    BY <1>4, <1>6, <2>1 DEF LinkOutput, deletion, store, creation
<1>7. ASSUME NEW g \in Gens, Complete(g) PROVE InReach'
  <2>1. /\ \A h \in Gens : doc'[h].refs = doc[h].refs /\ doc'[h].present = doc[h].present
        /\ UNCHANGED <<del, dropping, old, objects, create>>
    BY <1>7, DocFacts, OutputFacts DEF Complete, deletion, store, creation
  <2>2. QED
    BY <2>1, GrowingInReach
<1>8. ASSUME NEW g \in Gens, ExternalPut(g) \/ ExternalRecord(g) \/ FindOutput(g) PROVE InReach'
  BY <1>2, <1>8 DEF ExternalPut, ExternalRecord, FindOutput, Put, deletion, store, creation
<1>9. ASSUME NEW x \in Deleters, NEW g \in Gens, RemoveReads(x, g) PROVE InReach'
  <2>1. {g} \in SUBSET Gens /\ doc[g].present /\ x # Cleaner /\ Read(x, {g})
    BY <1>9, KeyFacts DEF RemoveReads
  <2>2. QED
    BY <2>1, ReadInReach
<1>10. CASE CleanupReads
  <2>1. OldDocs \in SUBSET Gens /\ OldDocs \subseteq old /\ \A g \in OldDocs : doc[g].present
    BY DEF OldDocs, TypeOK
  <2>2. Cleaner \in Deleters /\ Read(Cleaner, OldDocs)
    BY <1>10 DEF Deleters, CleanupReads
  <2>3. QED
    BY <2>1, <2>2, ReadInReach
<1>11. ASSUME NEW x \in Deleters, DeleteFails(x) PROVE InReach'
  <2>1. /\ del[x].stage \in {"objects", "records"} /\ del' = [del EXCEPT ![x] = Stage(x, "failed")]
        /\ UNCHANGED <<objects, records, dropping, doc, old, create>>
    BY <1>11 DEF DeleteFails, DelVars, creation, store
  <2>2. BreakOff
    BY <2>1 DEF TypeOK, BreakOff
  <2>3. dropping' \subseteq dropping /\ \A g \in Gens : create[g] # "idle" => create'[g] # "idle"
    BY <2>1
  <2>4. QED
    BY <2>1, <2>2, <2>3, BreakingInReach
<1>12. ASSUME NEW k \in Keys, RemoveFile(k) PROVE InReach'
  <2>1. /\ records' = records \ {k} /\ dropping' = dropping \cup {k}
        /\ UNCHANGED <<del, doc, old, create, objects>>
    BY <1>12 DEF RemoveFile, Unfile, Forget, DelVars, creation
  <2>2. QED
    BY <2>1, UnfilingInReach
<1>13. ASSUME NEW k \in Keys, DropObject(k) PROVE InReach'
  <2>1. /\ k \in dropping /\ dropping' \subseteq dropping /\ objects \ objects' \subseteq {k}
        /\ UNCHANGED <<del, doc, old, create, records>>
    BY <1>13, DeleteObjectsFacts DEF DropObject, Drop, DelVars, creation
  <2>2. \A g \in Gens, i \in Inputs : <<g, i>> = k => <<g, i>> \notin records
    BY <2>1 DEF InReach, DroppedHaveNoRecord
  <2>3. QED
    BY <2>1, <2>2, UnfilingInReach
<1>14. CASE Crash
  <2>1. \A g \in Gens : create[g] # "idle" => create'[g] # "idle"
    BY <1>14 DEF Crash
  <2>2. UNCHANGED <<objects, records, doc, old>> /\ dropping' = {}
    BY <1>14 DEF Crash, store
  <2>3. BreakOff
    BY <1>14, CrashFacts DEF BreakOff
  <2>4. dropping' \subseteq dropping
    BY <2>2
  <2>5. QED
    BY <2>1, <2>2, <2>3, <2>4, BreakingInReach
<1>15. CASE UNCHANGED vars
  BY <1>2, <1>15 DEF vars, deletion, store, creation
<1>16. ASSUME NEW g \in Gens, Creation(g) \/ Output(g) PROVE InReach'
  BY <1>3, <1>5, <1>6, <1>7, <1>8, <1>16 DEF Creation, Output
<1>17. ASSUME NEW x \in Deleters, Delete(x) PROVE InReach'
  BY <1>11, <1>17, DeleteFilesInReach, DeleteRecordsInReach, DeleteDocsInReach DEF Delete
<1>18. QED
  BY <1>1, <1>9, <1>10, <1>12, <1>13, <1>14, <1>15, <1>16, <1>17, AgeInReach DEF Next

-----------------------------------------------------------------------------

\* The inductive invariant holds in every reachable state, whatever the constants are.
THEOREM FilesInvariant == Spec => []IInv
<1>1. IInv /\ [Next]_vars => IInv'
  BY ProgressStep, AskedStep, KeptStep, InReachStep DEF IInv
<1>2. QED
  BY <1>1, InitInv, PTL DEF Spec

\* Nothing ever asks R2 to delete the image of an avatar, and it stays there.
THEOREM AvatarImagesStay == Spec => []AvatarImageSurvives
<1>1. IInv => AvatarImageSurvives
  BY DEF IInv, Asked, DeletionsAreAsked, AvatarImageSurvives
<1>2. QED
  BY <1>1, FilesInvariant, PTL

\* A create request that answered 201 has stored all its files.
THEOREM CreatesAnswerTheTruth == Spec => []AnsweredMeansStored
<1>1. IInv => AnsweredMeansStored
  BY DEF IInv, Kept
<1>2. QED
  BY <1>1, FilesInvariant, PTL

\* A reference in a document leads to a record and an object, or the file was deleted.
THEOREM ReferencesLead == Spec => []RefsAreBacked
<1>1. IInv => RefsAreBacked
  BY DEF IInv, Kept
<1>2. QED
  BY <1>1, FilesInvariant, PTL

\* An input record without an object is in reach of a deletion, unless two of the user's met.
THEOREM LostInputsAreInReach == Spec => []InputRecordsAreInReach
<1>1. IInv => InputRecordsAreInReach
  <2>1. SUFFICES ASSUME IInv, NEW g \in Gens, NEW k \in Inputs, <<g, k>> \in records \ objects,
                        k \notin doc[g].refs
                 PROVE  \/ \E x \in Deleters : /\ <<g, k>> \in del[x].refs
                                               /\ del[x].stage \in {"read", "objects"}
                        \/ /\ \E x \in Removals : <<g, k>> \in del[x].refs /\ del[x].stage = "failed"
                           /\ TakenAway(g, k)
    BY DEF InputRecordsAreInReach
  <2>2. g \notin old /\ TakenAway(g, k)
    BY <2>1 DEF IInv, InReach, LostObjectsAreReferredTo, Taken
  <2>3. PICK x \in Removals : <<g, k>> \in del[x].refs /\ del[x].stage \in {"objects", "failed"}
    BY <2>1, <2>2 DEF IInv, InReach, LostObjectsHaveACulprit
  <2>4. QED
    BY <2>2, <2>3 DEF Deleters
<1>2. QED
  BY <1>1, FilesInvariant, PTL
=============================================================================
