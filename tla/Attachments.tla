------------------------------- MODULE Attachments -------------------------------
(***************************************************************************)
(* The bytes of an attachment of a file-backed store: AddAttachmentStream  *)
(* in internal/store/store.go over stage in internal/store/blobs.go.       *)
(* Uploads run at the same time, in one process or several, without the    *)
(* store's lock until their bytes are staged: a temporary file, synced,    *)
(* renamed to its checksum into the bucket of the checksum's first byte.   *)
(*                                                                         *)
(* A directory entry is durable once its directory has been synced.  A     *)
(* power loss keeps what is durable and any part of the rest; a process    *)
(* that dies takes its uploads with it and nothing else.  A row is durable *)
(* when its statement returns; in fact (synchronous=NORMAL) a power loss   *)
(* can take the last rows too, which only leaves fewer of them.            *)
(* The root itself is taken as durable: newDirBlobs makes it without       *)
(* syncing its parent, so that until the system writes it back a power     *)
(* loss can take all of it.                                                *)
(***************************************************************************)
EXTENDS Naturals, FiniteSets

CONSTANTS
  Upload,     \* uploads, each made once
  Process,    \* processes that share the store
  Content,    \* contents, each with its checksum
  Bucket,     \* the bucket of each content
  TooLarge    \* contents beyond the caller's cap

ASSUME AttachmentsAssumption ==
  /\ Content # {} /\ TooLarge \subseteq Content
  /\ DOMAIN Bucket = Content

VARIABLES
  up,        \* each upload: [stage, by, content, newDir]
  tmp,       \* temporary files there are, by upload
  old,       \* those not written to for staleUploadAge
  buckets,   \* bucket directories there are
  files,     \* contents that have their file
  safeDir,   \* buckets whose entry in the root is durable
  safeFile,  \* contents whose entry in their bucket is durable
  blobRow,   \* rows of attachment_blobs, by upload
  attached,  \* attachments in the issue rows, by upload
  trusted    \* observation: uploads that found a bucket which was not durable yet

disk == <<tmp, old, buckets, files, safeDir, safeFile>>
rows == <<blobRow, attached>>
uploadVars == <<up, disk, rows, trusted>>

Live == {"copying", "copied", "looked", "made", "ready", "named", "staged", "rowed"}
Stage == Live \cup {"none", "done", "failed", "dead"}
AllBuckets == { Bucket[c] : c \in Content }

UploadsInit ==
  /\ up = [u \in Upload |-> [stage |-> "none", by |-> "", content |-> CHOOSE c \in Content : TRUE,
                            newDir |-> FALSE]]
  /\ tmp = {} /\ old = {} /\ buckets = {} /\ files = {} /\ safeDir = {} /\ safeFile = {}
  /\ blobRow = {} /\ attached = {} /\ trusted = {}

Moves(u, from, to) == up[u].stage = from /\ up' = [up EXCEPT ![u].stage = to]
BucketOf(u) == Bucket[up[u].content]

\* The issue exists; a temporary file is made.
CreateTemp(u, p, c) ==
  /\ up[u].stage = "none"
  /\ up' = [up EXCEPT ![u] = [stage |-> "copying", by |-> p, content |-> c, newDir |-> FALSE]]
  /\ tmp' = tmp \cup {u}
  /\ UNCHANGED <<old, buckets, files, safeDir, safeFile, rows, trusted>>

\* The whole transfer: copied and synced; or broken off, or past the cap, and removed.
CopyEnds(u) ==
  /\ up[u].content \notin TooLarge
  /\ Moves(u, "copying", "copied")
  /\ UNCHANGED <<disk, rows, trusted>>

CopyFails(u) ==
  /\ Moves(u, "copying", "failed")
  /\ tmp' = tmp \ {u} /\ old' = old \ {u}
  /\ UNCHANGED <<buckets, files, safeDir, safeFile, rows, trusted>>

\* A plausible bug: the root is never synced.
MutLook(u) ==
  /\ up[u].stage = "copied"
  /\ up' = [up EXCEPT ![u].stage = "looked", ![u].newDir = FALSE]
  /\ UNCHANGED <<trusted, disk, rows>>

\* stat: is the bucket there?
Look(u) ==
  /\ up[u].stage = "copied"
  /\ up' = [up EXCEPT ![u].stage = "looked", ![u].newDir = BucketOf(u) \notin buckets]
  /\ trusted' = IF BucketOf(u) \in buckets \ safeDir THEN trusted \cup {u} ELSE trusted
  /\ UNCHANGED <<disk, rows>>

MakeBucket(u) ==
  /\ up[u].stage = "looked"
  /\ up' = [up EXCEPT ![u].stage = IF up[u].newDir THEN "made" ELSE "ready"]
  /\ buckets' = buckets \cup {BucketOf(u)}
  /\ UNCHANGED <<tmp, old, files, safeDir, safeFile, rows, trusted>>

SyncRoot(u) ==
  /\ Moves(u, "made", "ready")
  /\ safeDir' = buckets
  /\ UNCHANGED <<tmp, old, buckets, files, safeFile, rows, trusted>>

\* rename; when another process has swept the temporary file, a file of this content that
\* is already there will do.
Rename(u) ==
  /\ u \in tmp
  /\ Moves(u, "ready", "named")
  /\ tmp' = tmp \ {u} /\ old' = old \ {u}
  /\ files' = files \cup {up[u].content}
  /\ UNCHANGED <<buckets, safeDir, safeFile, rows, trusted>>

RenameFails(u) ==
  /\ u \notin tmp
  /\ Moves(u, "ready", IF up[u].content \in files THEN "named" ELSE "failed")
  /\ UNCHANGED <<disk, rows, trusted>>

SyncBucket(u) ==
  /\ Moves(u, "named", "staged")
  /\ safeFile' = safeFile \cup { c \in files : Bucket[c] = BucketOf(u) }
  /\ UNCHANGED <<tmp, old, buckets, files, safeDir, rows, trusted>>

\* A plausible bug: the row is put as soon as the bytes are copied.
MutPutBlob(u) ==
  /\ blobRow' = blobRow \cup {u}
  /\ \/ Moves(u, "staged", "rowed")
     \/ Moves(u, "ready", "rowed")
  /\ UNCHANGED <<disk, attached, trusted>>

\* Under the lock: the blob row, and then the issue row that lists the attachment.
PutBlob(u) ==
  /\ Moves(u, "staged", "rowed")
  /\ blobRow' = blobRow \cup {u}
  /\ UNCHANGED <<disk, attached, trusted>>

PutAttachment(u) ==
  /\ Moves(u, "rowed", "done")
  /\ attached' = attached \cup {u}
  /\ UNCHANGED <<disk, blobRow, trusted>>

(* ---- the surroundings ---- *)
\* A temporary file grows old: its upload is dead, or stalls for a day.
GrowsOld(u) ==
  /\ u \in tmp /\ old' = old \cup {u}
  /\ UNCHANGED <<up, tmp, buckets, files, safeDir, safeFile, rows, trusted>>

\* newDirBlobs in a process that starts.
Sweep ==
  /\ old # {}
  /\ tmp' = tmp \ old /\ old' = {}
  /\ UNCHANGED <<up, buckets, files, safeDir, safeFile, rows, trusted>>

Killed(victims) ==
  up' = [u \in Upload |-> IF u \in victims /\ up[u].stage \in Live THEN [up[u] EXCEPT !.stage = "dead"] ELSE up[u]]

ProcessDies(p) ==
  /\ \E u \in Upload : up[u].by = p /\ up[u].stage \in Live
  /\ Killed({ u \in Upload : up[u].by = p })
  /\ UNCHANGED <<disk, rows, trusted>>

PowerLoss ==
  /\ Killed(Upload)
  /\ \E dirs \in SUBSET buckets, kept \in SUBSET files :
       /\ safeDir \subseteq dirs
       /\ { c \in safeFile : Bucket[c] \in dirs } \subseteq kept
       /\ \A c \in kept : Bucket[c] \in dirs
       /\ buckets' = dirs /\ safeDir' = dirs
       /\ files' = kept /\ safeFile' = kept
  /\ UNCHANGED <<tmp, old, rows, trusted>>

UploadStep(u) ==
  \/ \E p \in Process, c \in Content : CreateTemp(u, p, c)
  \/ CopyEnds(u) \/ CopyFails(u) \/ Look(u) \/ MakeBucket(u) \/ SyncRoot(u)
  \/ Rename(u) \/ RenameFails(u) \/ SyncBucket(u) \/ PutBlob(u) \/ PutAttachment(u)

UploadsNext ==
  \/ \E u \in Upload : UploadStep(u) \/ GrowsOld(u)
  \/ Sweep \/ PowerLoss
  \/ \E p \in Process : ProcessDies(p)

UploadsSpec == UploadsInit /\ [][UploadsNext]_uploadVars

(* ---- properties ---- *)
UploadsTypeOK ==
  /\ \A u \in Upload : up[u].stage \in Stage /\ up[u].content \in Content
  /\ old \subseteq tmp /\ tmp \subseteq Upload
  /\ safeDir \subseteq buckets /\ buckets \subseteq AllBuckets
  /\ safeFile \subseteq files /\ files \subseteq Content
  /\ attached \subseteq blobRow /\ trusted \subseteq Upload

Readable(u) == up[u].content \in files /\ BucketOf(u) \in buckets

\* An attachment that an issue lists has its row and its file, across process deaths, power
\* losses and sweeps of a live upload's temporary file, and none is past the cap - unless its
\* upload relied on a bucket that another one had made and not yet synced.
FileOutlivesRow ==
  \A u \in attached :
    /\ u \in blobRow /\ up[u].content \notin TooLarge
    /\ Readable(u) \/ u \in trusted

\* Every attachment row has its file (blobs.go: "a row that commits against a missing
\* directory is a broken attachment, the one state this design refuses").
RowHasFile == \A u \in blobRow : Readable(u)
=============================================================================
