-------------------------------- MODULE Migrate --------------------------------
(***************************************************************************)
(* Opening a version 1 persist file, internal/store/migrate.go.  Several   *)
(* processes may open the file at once (GDK-1180), and a process of an     *)
(* older build may still be writing attachments into it.  Each statement   *)
(* and each file operation of migrateV1toV2 that another process can see   *)
(* is a step here; the BEGIN IMMEDIATE transaction is one step, because    *)
(* SQLite runs it alone and undoes it if the process dies inside it.       *)
(*                                                                         *)
(* The bytes of an attachment are its id.  Sizes, the free-space check and *)
(* the closing VACUUM are left out.                                        *)
(***************************************************************************)
EXTENDS Integers, FiniteSets, Sequences

CONSTANTS
  Opener,       \* processes of this build that open the file
  Attachment,   \* attachment ids
  Stored,       \* those in the version 1 file from the start
  MaxCrashes    \* bound: processes that die while they open the file

ASSUME MigrateAssumption ==
  /\ IsFiniteSet(Attachment)
  /\ Stored \subseteq Attachment
  /\ MaxCrashes \in Nat

VARIABLES
  version,    \* PRAGMA user_version
  rows,       \* ids with bytes in the attachments table
  refs,       \* ids with a row in attachment_blobs
  files,      \* ids whose bytes are files in the blob directory
  backup,     \* <persist>.pre-v2.bak, the empty set or the one snapshot in it
  at,         \* where each opener is
  snapshot,   \* each opener's VACUUM INTO copy, under a name of its own
  todo,       \* ids each opener has still to read and stage
  staged,     \* ids each opener has staged
  crashes     \* processes that died so far

database == <<version, rows, refs>>
disk == <<files, backup>>
memory == <<snapshot, todo, staged>>
migrateVars == <<database, disk, at, memory, crashes>>

Snapshot == [version: 1..3, rows: SUBSET Attachment]
Labels == {"down", "v2", "copy", "recheck", "stat", "rename", "scan", "stage",
           "commit", "v3", "open", "failed"}

\* The one type invariant.
MigrateTypeOK ==
  /\ version \in 1..3
  /\ rows \subseteq Attachment /\ refs \subseteq Attachment /\ files \subseteq Attachment
  /\ backup \in SUBSET Snapshot /\ Cardinality(backup) <= 1
  /\ at \in [Opener -> Labels]
  /\ snapshot \in [Opener -> SUBSET Snapshot]
  /\ todo \in [Opener -> SUBSET Attachment]
  /\ staged \in [Opener -> SUBSET Attachment]
  /\ crashes \in 0..MaxCrashes

MigrateInit ==
  /\ version = 1
  /\ rows = Stored /\ refs = {} /\ files = {}
  /\ backup = {}
  /\ at = [p \in Opener |-> "down"]
  /\ snapshot = [p \in Opener |-> {}]
  /\ todo = [p \in Opener |-> {}]
  /\ staged = [p \in Opener |-> {}]
  /\ crashes = 0

-----------------------------------------------------------------------------
Move(p, from, to) == at[p] = from /\ at' = [at EXCEPT ![p] = to]

\* openExistingFileDB: the version read first decides which migrations run.
Start(p) ==
  /\ Move(p, "down", IF version < 2 THEN "v2" ELSE IF version < 3 THEN "v3" ELSE "open")
  /\ UNCHANGED <<database, disk, memory, crashes>>

MutEarlyOutOpens(p) ==
  /\ Move(p, "v2", IF version >= 2 THEN "open" ELSE "copy")
  /\ UNCHANGED <<database, disk, memory, crashes>>

\* migrateV1toV2, the early out.
EnterV2(p) ==
  /\ Move(p, "v2", IF version >= 2 THEN "v3" ELSE "copy")
  /\ UNCHANGED <<database, disk, memory, crashes>>

\* VACUUM INTO a file of a name nobody else has.
TakeCopy(p) ==
  /\ Move(p, "copy", "recheck")
  /\ snapshot' = [snapshot EXCEPT ![p] = {[version |-> version, rows |-> rows]}]
  /\ UNCHANGED <<database, disk, todo, staged, crashes>>

\* The version re-read with the snapshot in hand; a late one is thrown away.
RecheckCopy(p) ==
  /\ IF version >= 2
     THEN /\ Move(p, "recheck", "v3")
          /\ snapshot' = [snapshot EXCEPT ![p] = {}]
     ELSE /\ Move(p, "recheck", "stat")
          /\ UNCHANGED snapshot
  /\ UNCHANGED <<database, disk, todo, staged, crashes>>

\* os.Stat of the backup: an earlier one is kept.
StatBackup(p) ==
  /\ IF backup # {}
     THEN /\ Move(p, "stat", "scan")
          /\ snapshot' = [snapshot EXCEPT ![p] = {}]
     ELSE /\ Move(p, "stat", "rename")
          /\ UNCHANGED snapshot
  /\ UNCHANGED <<database, disk, todo, staged, crashes>>

MutCopyAtRename(p) ==
  /\ Move(p, "rename", "scan")
  /\ backup' = {[version |-> version, rows |-> rows]}
  /\ snapshot' = [snapshot EXCEPT ![p] = {}]
  /\ UNCHANGED <<database, files, todo, staged, crashes>>

\* os.Rename replaces whatever is there by now.
RenameBackup(p) ==
  /\ Move(p, "rename", "scan")
  /\ backup' = snapshot[p]
  /\ snapshot' = [snapshot EXCEPT ![p] = {}]
  /\ UNCHANGED <<database, files, todo, staged, crashes>>

Scan(p) ==
  /\ Move(p, "scan", "stage")
  /\ todo' = [todo EXCEPT ![p] = rows]
  /\ staged' = [staged EXCEPT ![p] = {}]
  /\ UNCHANGED <<database, disk, snapshot, crashes>>

MutStageInMemory(p, a) ==
  /\ a \in todo[p] /\ a \in rows
  /\ Move(p, "stage", "stage")
  /\ staged' = [staged EXCEPT ![p] = @ \cup {a}]
  /\ todo' = [todo EXCEPT ![p] = @ \ {a}]
  /\ UNCHANGED <<database, disk, snapshot, crashes>>

MutStageSticks(p, a) ==
  /\ a \in todo[p] /\ a \in rows
  /\ Move(p, "stage", "stage")
  /\ files' = files \cup {a}
  /\ staged' = [staged EXCEPT ![p] = @ \cup {a}]
  /\ UNCHANGED <<database, backup, snapshot, todo, crashes>>

\* Read the bytes of one scanned id and make them a durable file.
Stage(p, a) ==
  /\ a \in todo[p] /\ a \in rows
  /\ Move(p, "stage", "stage")
  /\ files' = files \cup {a}
  /\ staged' = [staged EXCEPT ![p] = @ \cup {a}]
  /\ todo' = [todo EXCEPT ![p] = @ \ {a}]
  /\ UNCHANGED <<database, backup, snapshot, crashes>>

\* The row of a scanned id is gone: QueryRow has no rows, and Open fails.
StageFails(p, a) ==
  /\ a \in todo[p] /\ a \notin rows
  /\ Move(p, "stage", "failed")
  /\ todo' = [todo EXCEPT ![p] = {}]
  /\ staged' = [staged EXCEPT ![p] = {}]
  /\ UNCHANGED <<database, disk, snapshot, crashes>>

StagedAll(p) ==
  /\ todo[p] = {}
  /\ Move(p, "stage", "commit")
  /\ UNCHANGED <<database, disk, memory, crashes>>

MutDeleteAll(p) ==
  /\ Move(p, "commit", "v3")
  /\ IF version >= 2 THEN UNCHANGED database
     ELSE /\ refs' = refs \cup staged[p]
          /\ rows' = {}
          /\ version' = 2
  /\ staged' = [staged EXCEPT ![p] = {}]
  /\ UNCHANGED <<disk, snapshot, todo, crashes>>

\* The transaction: the loser of a race sees version 2 and stops, the winner
\* deletes the rows it staged and no other.
CommitV2(p) ==
  /\ Move(p, "commit", "v3")
  /\ IF version >= 2 THEN UNCHANGED database
     ELSE /\ refs' = refs \cup staged[p]
          /\ rows' = rows \ staged[p]
          /\ version' = 2
  /\ staged' = [staged EXCEPT ![p] = {}]
  /\ UNCHANGED <<disk, snapshot, todo, crashes>>

MutVersionBumped(p) ==
  /\ Move(p, "v3", "open")
  /\ version' = version + 1
  /\ UNCHANGED <<rows, refs, disk, memory, crashes>>

\* migrateV2toV3: the boards and sprints tables and nothing else.
CommitV3(p) ==
  /\ Move(p, "v3", "open")
  /\ version' = 3
  /\ UNCHANGED <<rows, refs, disk, memory, crashes>>

\* A process dies, or the one whose Open failed is gone; it may be started again.
Crash(p) ==
  /\ at[p] # "down"
  /\ at[p] # "failed" => crashes < MaxCrashes
  /\ crashes' = IF at[p] = "failed" THEN crashes ELSE crashes + 1
  /\ at' = [at EXCEPT ![p] = "down"]
  /\ snapshot' = [snapshot EXCEPT ![p] = {}]
  /\ todo' = [todo EXCEPT ![p] = {}]
  /\ staged' = [staged EXCEPT ![p] = {}]
  /\ UNCHANGED <<database, disk>>

\* An older build that has had the file open since version 1 stores an upload.
OldBuildUploads(a) ==
  /\ a \notin rows \cup refs
  /\ rows' = rows \cup {a}
  /\ UNCHANGED <<version, refs, disk, at, memory, crashes>>

\* A process that has it open stores an upload: the file first, then its row.
Upload(p, a) ==
  /\ at[p] = "open" /\ a \notin rows \cup refs
  /\ files' = files \cup {a}
  /\ refs' = refs \cup {a}
  /\ UNCHANGED <<version, rows, backup, at, memory, crashes>>

Opening(p) ==
  \/ EnterV2(p) \/ TakeCopy(p) \/ RecheckCopy(p) \/ StatBackup(p) \/ RenameBackup(p)
  \/ Scan(p) \/ StagedAll(p) \/ CommitV2(p) \/ CommitV3(p)
  \/ \E a \in Attachment : Stage(p, a) \/ StageFails(p, a)

MigrateNext ==
  \/ \E p \in Opener : Start(p) \/ Opening(p) \/ Crash(p)
  \/ \E p \in Opener, a \in Attachment : Upload(p, a)
  \/ \E a \in Attachment : OldBuildUploads(a)

MigrateSpec == MigrateInit /\ [][MigrateNext]_migrateVars

\* A process that runs keeps running until it has opened the file, failed or died.
OpenersKeepGoing == \A p \in Opener : WF_migrateVars(Opening(p))

-----------------------------------------------------------------------------
(* Properties.                                                             *)

\* No crash and no race loses an attachment: whatever was stored or uploaded is
\* in the table still, or it has a row and a file.
BytesReachable ==
  /\ Stored \subseteq rows \cup refs
  /\ refs \subseteq files

\* No attachment leaves the database except by gaining a reference and a file.
NeverDestroyed ==
  [][\A a \in rows \cup refs : a \in rows' \/ (a \in refs' /\ a \in files')]_migrateVars

\* The rollback copy, once there is one, is a version 1 file with every attachment
\* stored before the first process opened it, whoever renamed theirs last; and
\* the file does not leave version 1 without it.
BackupRollsBack ==
  /\ \A b \in backup : b.version = 1 /\ Stored \subseteq b.rows
  /\ version >= 2 => backup # {}

\* Who has the file open has it at version 3, and no one is let through early.
OpenIsMigrated == \A p \in Opener : at[p] = "open" => version = 3

\* An Open that is not killed comes to an end.
OpenEnds ==
  \A p \in Opener : at[p] # "down" ~> at[p] \in {"open", "failed", "down"}

\* "Both must end up working": of processes that open a version 1 file at the
\* same moment none fails.
BothOpen == \A p \in Opener : at[p] # "failed"
=============================================================================
