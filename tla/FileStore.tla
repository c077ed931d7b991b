------------------------------ MODULE FileStore ------------------------------
(***************************************************************************)
(* The two places a file lives in: Cloudflare R2, which holds objects by   *)
(* key, and the FileRecord collection, which holds one document per key    *)
(* (fileKey is a unique index).  FileService and Utils/file/upload write   *)
(* them one after the other, so either can be ahead of the other.  Keys    *)
(* are UUIDs: generateR2Key never returns one twice.                       *)
(***************************************************************************)
EXTENDS FiniteSets, Naturals

CONSTANTS
    Keys,
    R2Fails,     \* the calls to R2 that may reject: a subset of {"put", "delete"}
    MongoFails   \* may a call to MongoDB reject?

ASSUME StoreAssumption == R2Fails \subseteq {"put", "delete"} /\ MongoFails \in BOOLEAN

VARIABLES
    objects,     \* keys of the objects in R2
    records,     \* keys of the FileRecords in MongoDB
    dropping     \* objects whose deletion nobody waits for

\* uploadFileToR2
Put(k) == objects' = objects \cup {k}

\* It throws if R2 rejects, or if the temporary file cannot be removed after the put.
PutThrows(k) == "put" \in R2Fails /\ (Put(k) \/ UNCHANGED objects)

\* deleteFromR2(key).catch(() => {}) for each of several keys: any of them may fail, and
\* nobody is told.
DeleteObjects(ks) ==
    \E failed \in SUBSET ks :
        /\ failed # {} => "delete" \in R2Fails
        /\ objects' = objects \ (ks \ failed)

\* FileRecordModel.create
Track(k) == records' = records \cup {k}

\* FileRecordModel.deleteMany, deleteOne
Forget(ks) == records' = records \ ks

\* FileService.remove: the record first, then the object, which is not waited for.
Unfile(k) ==
    /\ k \in records
    /\ Forget({k})
    /\ dropping' = dropping \cup {k}
    /\ UNCHANGED objects

Drop(k) ==
    /\ k \in dropping
    /\ dropping' = dropping \ {k}
    /\ DeleteObjects({k})
    /\ UNCHANGED records
=============================================================================
