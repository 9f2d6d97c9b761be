------------------------------ MODULE PersistProofs ------------------------------
(***************************************************************************)
(* Proofs about the persist file when several processes have it: Migrate,  *)
(* for any number of openers, of attachments and of crashes, then          *)
(* SharedStore, for any number of processes, threads and requests.  The    *)
(* runs of MCMigrate and MCSharedStore check the same formulas on small    *)
(* instances.                                                              *)
(***************************************************************************)
EXTENDS Migrate, SharedStore, FiniteNats

\* A file that can replace the database to roll the upgrade back.
RollsBack(b) == b.version = 1 /\ Stored \subseteq b.rows

\* No copy, or the one copy that is in the file.
AtMostOne(S) == S = {} \/ \E b \in Snapshot : S = {b}

\* What an opener holds and knows at each place of the migration.
Held(p) ==
  /\ AtMostOne(snapshot[p])
  /\ staged[p] \subseteq files
  /\ at[p] = "recheck" =>
       /\ snapshot[p] # {}
       /\ \A b \in snapshot[p] : b.version <= version /\ (b.version = 1 => RollsBack(b))
  /\ at[p] \in {"stat", "rename"} => snapshot[p] # {} /\ \A b \in snapshot[p] : RollsBack(b)
  /\ at[p] \in {"scan", "stage", "commit"} => backup # {}
  /\ at[p] = "v3" => version >= 2
  /\ at[p] = "open" => version = 3

\* A version 1 file has every attachment it had from the start.
Untouched == version = 1 => Stored \subseteq rows

\* The inductive invariant.
MigrateInv ==
  /\ MigrateTypeOK
  /\ AtMostOne(backup)
  /\ Untouched
  /\ BytesReachable
  /\ BackupRollsBack
  /\ \A p \in Opener : Held(p)

-----------------------------------------------------------------------------
(* Copies. *)

LEMMA CopyInType ==
  ASSUME NEW S, AtMostOne(S)
  PROVE  S \in SUBSET Snapshot /\ Cardinality(S) <= 1
<1>1. CASE S = {}
  BY <1>1, FS_EmptySet
<1>2. CASE \E b \in Snapshot : S = {b}
  <2>1. PICK b \in Snapshot : S = {b}
    BY <1>2
  <2>2. Cardinality({b}) = 1
    BY FS_Singleton
  <2>3. QED
    BY <2>1, <2>2
<1>3. QED
  BY <1>1, <1>2 DEF AtMostOne

\* VACUUM INTO writes a snapshot of the version and rows it reads.
LEMMA CopyOfDatabase ==
  ASSUME MigrateTypeOK
  PROVE  [version |-> version, rows |-> rows] \in Snapshot
BY DEF MigrateTypeOK, Snapshot

-----------------------------------------------------------------------------
(* What a step of one opener cannot take from another. *)

\* The shared part of the state only grows in what an opener relies on.
Grows ==
  /\ version <= version'
  /\ files \subseteq files'
  /\ backup # {} => backup' # {}

LEMMA HeldByOthers ==
  ASSUME MigrateTypeOK, MigrateTypeOK', Grows, NEW p \in Opener, Held(p),
         at'[p] = at[p], snapshot'[p] = snapshot[p], staged'[p] \subseteq staged[p]
  PROVE  Held(p)'
<1>1. AtMostOne(snapshot[p])' /\ staged'[p] \subseteq files'
  BY DEF Grows, Held, AtMostOne
<1>2. (at[p] = "recheck")' =>
        /\ snapshot'[p] # {}
        /\ \A b \in snapshot'[p] : b.version <= version' /\ (b.version = 1 => RollsBack(b))
  <2>1. \A b \in snapshot[p] : b.version \in 1..3
    BY DEF MigrateTypeOK, Snapshot
  <2>2. QED
    BY <2>1 DEF MigrateTypeOK, Grows, Held
<1>3. at'[p] \in {"stat", "rename"} =>
        snapshot'[p] # {} /\ \A b \in snapshot'[p] : RollsBack(b)
  BY DEF Held
<1>4. /\ at'[p] \in {"scan", "stage", "commit"} => backup' # {}
      /\ at'[p] = "v3" => version' >= 2
      /\ at'[p] = "open" => version' = 3
  BY DEF MigrateTypeOK, Grows, Held
<1>5. QED
  BY <1>1, <1>2, <1>3, <1>4 DEF Held, RollsBack

\* Each action of the migration keeps the types, and of the shared part takes
\* nothing away.
LEMMA StepTypes ==
  ASSUME MigrateInv, [MigrateNext]_migrateVars
  PROVE  MigrateTypeOK' /\ AtMostOne(backup)' /\ Grows
<1> USE DEF MigrateInv, MigrateTypeOK, Move, Labels, Grows, AtMostOne, database, disk, memory
<1>1. ASSUME NEW p \in Opener, Start(p)
      PROVE  MigrateTypeOK' /\ AtMostOne(backup)' /\ Grows
  BY <1>1 DEF Start
<1>2. ASSUME NEW p \in Opener, EnterV2(p)
      PROVE  MigrateTypeOK' /\ AtMostOne(backup)' /\ Grows
  BY <1>2 DEF EnterV2
<1>3. ASSUME NEW p \in Opener, TakeCopy(p)
      PROVE  MigrateTypeOK' /\ AtMostOne(backup)' /\ Grows
  BY <1>3, CopyOfDatabase DEF TakeCopy
<1>4. ASSUME NEW p \in Opener, RecheckCopy(p)
      PROVE  MigrateTypeOK' /\ AtMostOne(backup)' /\ Grows
  BY <1>4 DEF RecheckCopy
<1>5. ASSUME NEW p \in Opener, StatBackup(p)
      PROVE  MigrateTypeOK' /\ AtMostOne(backup)' /\ Grows
  BY <1>5 DEF StatBackup
<1>6. ASSUME NEW p \in Opener, RenameBackup(p)
      PROVE  MigrateTypeOK' /\ AtMostOne(backup)' /\ Grows
  <2>1. AtMostOne(snapshot[p]) /\ snapshot[p] # {}
    BY <1>6 DEF RenameBackup, Held
  <2>2. backup' = snapshot[p]
    BY <1>6 DEF RenameBackup
  <2>3. backup' \in SUBSET Snapshot /\ Cardinality(backup') <= 1
    BY <2>1, <2>2, CopyInType
  <2>4. QED
    BY <1>6, <2>1, <2>2, <2>3 DEF RenameBackup
<1>7. ASSUME NEW p \in Opener, Scan(p)
      PROVE  MigrateTypeOK' /\ AtMostOne(backup)' /\ Grows
  BY <1>7 DEF Scan
<1>8. ASSUME NEW p \in Opener, NEW a \in Attachment, Stage(p, a)
      PROVE  MigrateTypeOK' /\ AtMostOne(backup)' /\ Grows
  BY <1>8 DEF Stage
<1>9. ASSUME NEW p \in Opener, NEW a \in Attachment, StageFails(p, a)
      PROVE  MigrateTypeOK' /\ AtMostOne(backup)' /\ Grows
  BY <1>9 DEF StageFails
<1>10. ASSUME NEW p \in Opener, StagedAll(p)
       PROVE  MigrateTypeOK' /\ AtMostOne(backup)' /\ Grows
  BY <1>10 DEF StagedAll
<1>11. ASSUME NEW p \in Opener, CommitV2(p)
       PROVE  MigrateTypeOK' /\ AtMostOne(backup)' /\ Grows
  BY <1>11 DEF CommitV2
<1>12. ASSUME NEW p \in Opener, CommitV3(p)
       PROVE  MigrateTypeOK' /\ AtMostOne(backup)' /\ Grows
  BY <1>12 DEF CommitV3
<1>13. ASSUME NEW p \in Opener, Crash(p)
       PROVE  MigrateTypeOK' /\ AtMostOne(backup)' /\ Grows
  BY <1>13, MigrateAssumption DEF Crash
<1>14. ASSUME NEW p \in Opener, NEW a \in Attachment, Upload(p, a)
       PROVE  MigrateTypeOK' /\ AtMostOne(backup)' /\ Grows
  BY <1>14 DEF Upload
<1>15. ASSUME NEW a \in Attachment, OldBuildUploads(a)
       PROVE  MigrateTypeOK' /\ AtMostOne(backup)' /\ Grows
  BY <1>15 DEF OldBuildUploads
<1>16. CASE UNCHANGED migrateVars
  BY <1>16 DEF migrateVars
<1>17. QED
  BY <1>1, <1>2, <1>3, <1>4, <1>5, <1>6, <1>7, <1>8, <1>9, <1>10, <1>11,
     <1>12, <1>13, <1>14, <1>15, <1>16 DEF MigrateNext, Opening

-----------------------------------------------------------------------------
(* What an opener holds after a step. *)

\* After a step of its own.
LEMMA HeldByActor ==
  ASSUME MigrateInv, MigrateTypeOK', Grows, NEW p \in Opener,
         Start(p) \/ Opening(p) \/ Crash(p) \/ \E a \in Attachment : Upload(p, a)
  PROVE  Held(p)'
<1> USE DEF MigrateInv, MigrateTypeOK, Move, Grows, database, disk, memory
<1>0. Held(p)
  OBVIOUS
<1>1. CASE Start(p)
  BY <1>0, <1>1 DEF Start, Held, AtMostOne
<1>2. CASE EnterV2(p)
  BY <1>0, <1>2 DEF EnterV2, Held, AtMostOne
<1>3. CASE TakeCopy(p)
  <2>1. /\ snapshot'[p] = {[version |-> version, rows |-> rows]}
        /\ at'[p] = "recheck" /\ version' = version /\ staged'[p] \subseteq files'
    BY <1>0, <1>3 DEF TakeCopy, Held
  <2>2. version = 1 => Stored \subseteq rows
    BY DEF Untouched
  <2>3. AtMostOne(snapshot[p])'
    BY <2>1, CopyOfDatabase DEF AtMostOne
  <2>4. \A b \in snapshot'[p] : b.version <= version' /\ (b.version = 1 => RollsBack(b))
    BY <2>1, <2>2 DEF RollsBack
  <2>5. QED
    BY <2>1, <2>3, <2>4 DEF Held, RollsBack
<1>4. CASE RecheckCopy(p)
  <2>1. CASE version >= 2
    BY <1>0, <1>4, <2>1 DEF RecheckCopy, Held, AtMostOne
  <2>2. CASE ~(version >= 2)
    <3>1. /\ snapshot' = snapshot /\ staged' = staged /\ files' = files
          /\ at[p] = "recheck" /\ at'[p] = "stat"
      BY <1>4, <2>2 DEF RecheckCopy
    <3>2. \A b \in snapshot[p] : b.version \in 1..3 /\ b.version <= version
      BY <1>0, <3>1 DEF Held, Snapshot
    <3>3. snapshot[p] # {} /\ \A b \in snapshot[p] : RollsBack(b)
      BY <1>0, <2>2, <3>1, <3>2 DEF Held
    <3>4. AtMostOne(snapshot[p])' /\ staged'[p] \subseteq files'
      BY <1>0, <3>1 DEF Held, AtMostOne
    <3>5. QED
      BY <3>1, <3>3, <3>4 DEF Held, RollsBack
  <2>3. QED
    BY <2>1, <2>2
<1>5. CASE StatBackup(p)
  BY <1>0, <1>5 DEF StatBackup, Held, AtMostOne
<1>6. CASE RenameBackup(p)
  BY <1>0, <1>6 DEF RenameBackup, Held, AtMostOne
<1>7. CASE Scan(p)
  BY <1>0, <1>7 DEF Scan, Held, AtMostOne
<1>8. ASSUME NEW a \in Attachment, Stage(p, a)
      PROVE  Held(p)'
  BY <1>0, <1>8 DEF Stage, Held, AtMostOne
<1>9. ASSUME NEW a \in Attachment, StageFails(p, a)
      PROVE  Held(p)'
  BY <1>0, <1>9 DEF StageFails, Held, AtMostOne
<1>10. CASE StagedAll(p)
  BY <1>0, <1>10 DEF StagedAll, Held, AtMostOne
<1>11. CASE CommitV2(p)
  BY <1>0, <1>11 DEF CommitV2, Held, AtMostOne
<1>12. CASE CommitV3(p)
  BY <1>0, <1>12 DEF CommitV3, Held, AtMostOne
<1>13. CASE Crash(p)
  BY <1>0, <1>13 DEF Crash, Held, AtMostOne
<1>14. ASSUME NEW a \in Attachment, Upload(p, a)
       PROVE  Held(p)'
  BY <1>0, <1>14 DEF Upload, Held, AtMostOne
<1>15. QED
  BY <1>1, <1>2, <1>3, <1>4, <1>5, <1>6, <1>7, <1>8, <1>9, <1>10, <1>11, <1>12, <1>13, <1>14
     DEF Opening

\* After a step of another opener, or of nobody here.
LEMMA StepHeld ==
  ASSUME MigrateInv, [MigrateNext]_migrateVars
  PROVE  \A q \in Opener : Held(q)'
<1>1. MigrateTypeOK' /\ Grows
  BY StepTypes
<1>2. ASSUME NEW p \in Opener, NEW q \in Opener, q # p,
             Start(p) \/ Opening(p) \/ Crash(p) \/ \E a \in Attachment : Upload(p, a)
      PROVE  at'[q] = at[q] /\ snapshot'[q] = snapshot[q] /\ staged'[q] = staged[q]
  BY <1>2 DEF MigrateInv, MigrateTypeOK, Move, database, disk, memory, Opening, Start, EnterV2,
     TakeCopy, RecheckCopy, StatBackup, RenameBackup, Scan, Stage, StageFails, StagedAll,
     CommitV2, CommitV3, Crash, Upload
<1>3. ASSUME (\E a \in Attachment : OldBuildUploads(a)) \/ UNCHANGED migrateVars
      PROVE  UNCHANGED <<at, memory>>
  BY <1>3 DEF OldBuildUploads, migrateVars
<1>4. TAKE q \in Opener
<1>5. CASE (\E a \in Attachment : OldBuildUploads(a)) \/ UNCHANGED migrateVars
  BY <1>1, <1>3, <1>5, HeldByOthers DEF MigrateInv, memory
<1>6. ASSUME NEW p \in Opener,
             Start(p) \/ Opening(p) \/ Crash(p) \/ \E a \in Attachment : Upload(p, a)
      PROVE  Held(q)'
  <2>1. CASE q = p
    BY <1>1, <1>6, <2>1, HeldByActor
  <2>2. CASE q # p
    BY <1>1, <1>2, <1>6, <2>2, HeldByOthers DEF MigrateInv
  <2>3. QED
    BY <2>1, <2>2
<1>7. QED
  BY <1>5, <1>6 DEF MigrateNext

-----------------------------------------------------------------------------
(* Where the bytes are after a step. *)

\* Every step but these leaves the database and the disk alone.
LEMMA SharedWriters ==
  ASSUME [MigrateNext]_migrateVars
  PROVE  \/ UNCHANGED <<database, disk>>
         \/ \E p \in Opener : RenameBackup(p) \/ CommitV2(p) \/ CommitV3(p)
         \/ \E p \in Opener, a \in Attachment : Stage(p, a) \/ Upload(p, a)
         \/ \E a \in Attachment : OldBuildUploads(a)
BY DEF MigrateNext, migrateVars, Opening, Start, EnterV2, TakeCopy, RecheckCopy, StatBackup, Scan,
   StageFails, StagedAll, Crash, database, disk

\* No step takes an attachment out of the database that has no file.
Kept == \A a \in rows \cup refs : a \in rows' \/ (a \in refs' /\ a \in files')

\* The transaction deletes the rows it staged, and what is staged is a file.
LEMMA StepBytes ==
  ASSUME MigrateInv, [MigrateNext]_migrateVars
  PROVE  Kept /\ BytesReachable' /\ Untouched'
<1> USE DEF MigrateInv, BytesReachable, Untouched, Kept
<1>1. CASE UNCHANGED <<database, disk>>
  BY <1>1 DEF database, disk
<1>2. ASSUME NEW p \in Opener, RenameBackup(p)
      PROVE  Kept /\ BytesReachable' /\ Untouched'
  BY <1>2 DEF RenameBackup, database
<1>3. ASSUME NEW p \in Opener, CommitV2(p)
      PROVE  Kept /\ BytesReachable' /\ Untouched'
  <2>1. staged[p] \subseteq files
    BY DEF Held
  <2>2. CASE version >= 2
    BY <1>3, <2>2 DEF CommitV2, database, disk
  <2>3. CASE ~(version >= 2)
    BY <1>3, <2>1, <2>3 DEF CommitV2, disk
  <2>4. QED
    BY <2>2, <2>3
<1>4. ASSUME NEW p \in Opener, CommitV3(p)
      PROVE  Kept /\ BytesReachable' /\ Untouched'
  BY <1>4 DEF CommitV3, disk
<1>5. ASSUME NEW p \in Opener, NEW a \in Attachment, Stage(p, a)
      PROVE  Kept /\ BytesReachable' /\ Untouched'
  BY <1>5 DEF Stage, database
<1>6. ASSUME NEW p \in Opener, NEW a \in Attachment, Upload(p, a)
      PROVE  Kept /\ BytesReachable' /\ Untouched'
  BY <1>6 DEF Upload
<1>7. ASSUME NEW a \in Attachment, OldBuildUploads(a)
      PROVE  Kept /\ BytesReachable' /\ Untouched'
  BY <1>7 DEF OldBuildUploads, disk
<1>8. QED
  BY <1>1, <1>2, <1>3, <1>4, <1>5, <1>6, <1>7, SharedWriters

\* Only a version 1 copy is renamed, and only an opener that saw a backup commits.
LEMMA StepBackup ==
  ASSUME MigrateInv, [MigrateNext]_migrateVars
  PROVE  BackupRollsBack'
<1> USE DEF MigrateInv, BackupRollsBack
<1>1. CASE UNCHANGED <<database, disk>>
  BY <1>1 DEF database, disk
<1>2. ASSUME NEW p \in Opener, RenameBackup(p)
      PROVE  BackupRollsBack'
  <2>1. snapshot[p] # {} /\ \A b \in snapshot[p] : RollsBack(b)
    BY <1>2 DEF RenameBackup, Move, Held
  <2>2. QED
    BY <1>2, <2>1 DEF RenameBackup, RollsBack
<1>3. ASSUME NEW p \in Opener, CommitV2(p)
      PROVE  BackupRollsBack'
  <2>1. backup # {} /\ backup' = backup
    BY <1>3 DEF CommitV2, Move, Held, disk
  <2>2. QED
    BY <2>1
<1>4. ASSUME NEW p \in Opener, CommitV3(p)
      PROVE  BackupRollsBack'
  <2>1. version >= 2 /\ backup' = backup
    BY <1>4 DEF CommitV3, Move, Held, disk
  <2>2. QED
    BY <2>1
<1>5. ASSUME NEW p \in Opener, NEW a \in Attachment, Stage(p, a) \/ Upload(p, a)
      PROVE  BackupRollsBack'
  BY <1>5 DEF Stage, Upload, database
<1>6. ASSUME NEW a \in Attachment, OldBuildUploads(a)
      PROVE  BackupRollsBack'
  BY <1>6 DEF OldBuildUploads, disk
<1>7. QED
  BY <1>1, <1>2, <1>3, <1>4, <1>5, <1>6, SharedWriters

-----------------------------------------------------------------------------
(* The theorems. *)

LEMMA MigrateInvHolds == MigrateSpec => []MigrateInv
<1>1. MigrateInit => MigrateInv
  BY MigrateAssumption, FS_EmptySet
     DEF MigrateInit, MigrateInv, MigrateTypeOK, Labels, AtMostOne, Untouched, BytesReachable,
         BackupRollsBack, Held
<1>2. MigrateInv /\ [MigrateNext]_migrateVars => MigrateInv'
  <2> SUFFICES ASSUME MigrateInv, [MigrateNext]_migrateVars
               PROVE  MigrateInv'
    OBVIOUS
  <2>1. QED
    BY StepTypes, StepBytes, StepBackup, StepHeld DEF MigrateInv
<1>3. QED
  BY <1>1, <1>2, PTL DEF MigrateSpec

\* However many processes open the file, each variable keeps its type: there is at
\* most one backup.
THEOREM OpenTypes == MigrateSpec => []MigrateTypeOK
<1>1. MigrateInv => MigrateTypeOK
  BY DEF MigrateInv
<1>2. QED
  BY <1>1, MigrateInvHolds, PTL

\* An attachment is in the table, or it has a row and a file, whichever process
\* wins the race to commit and wherever the others die.
THEOREM MigrationLosesNothing == MigrateSpec => []BytesReachable
<1>1. MigrateInv => BytesReachable
  BY DEF MigrateInv
<1>2. QED
  BY <1>1, MigrateInvHolds, PTL

\* The file does not leave version 1 without a version 1 copy beside it, and a late
\* rename does not replace that copy by another kind of file.
THEOREM BackupIsVersionOne == MigrateSpec => []BackupRollsBack
<1>1. MigrateInv => BackupRollsBack
  BY DEF MigrateInv
<1>2. QED
  BY <1>1, MigrateInvHolds, PTL

\* Nobody has the file open at an earlier version.
THEOREM NobodyOpensEarly == MigrateSpec => []OpenIsMigrated
<1>1. MigrateInv => OpenIsMigrated
  BY DEF MigrateInv, OpenIsMigrated, Held
<1>2. QED
  BY <1>1, MigrateInvHolds, PTL

\* No step of any process destroys the only bytes of an attachment.
THEOREM NoStepDestroys == MigrateSpec => NeverDestroyed
<1>1. MigrateInv /\ [MigrateNext]_migrateVars => [Kept]_migrateVars
  BY StepBytes
<1>2. QED
  BY <1>1, MigrateInvHolds, PTL DEF MigrateSpec, NeverDestroyed, Kept

-----------------------------------------------------------------------------
(* Requests of several threads and processes on one file. *)

Copy == [key : Nat, mark : Mark \cup {None}, row : Row]

\* What the function variables are, and what a handler has by where it is.
FormInv ==
  /\ TypeOK
  /\ copy \in [Thread -> Copy \cup {None}]
  /\ IsFiniteSet(DOMAIN issues) /\ DOMAIN issues # {}
  /\ \A t \in Thread :
       /\ pc[t] # "idle" => request[t] \in Request
       /\ pc[t] = "read" => request[t].kind # "create"
       /\ pc[t] = "keys" => request[t].kind = "create"
       /\ pc[t] \in {"keys", "write", "reply"} => copy[t] \in Copy
       /\ pc[t] = "mint" /\ request[t].kind # "create" => copy[t] \in Copy
       /\ pc[t] \in {"write", "reply"} /\ request[t].kind = "comment" => copy[t].mark \in Mark

-----------------------------------------------------------------------------
LEMMA MaxIsGreatest ==
  ASSUME NEW S \in SUBSET Nat, IsFiniteSet(S), S # {}
  PROVE  Max(S) \in S /\ \A y \in S : Max(S) >= y
BY GreatestExists DEF Max

\* The constants and the handler's choice of them.
LEMMA RequestsAreRequests == Requests \subseteq Request
BY SharedStoreAssumption DEF Requests, Request

LEMMA FormInitially == Init => FormInv
<1> SUFFICES ASSUME Init
             PROVE  FormInv
  OBVIOUS
<1>1. IsFiniteSet({1}) /\ DOMAIN issues = {1}
  BY FS_Singleton DEF Init
<1>2. issues[1] = [id |-> 1, holder |-> None, marks |-> {}]
  BY DEF Init
<1>3. QED
  BY <1>1, <1>2, SharedStoreAssumption DEF Init, FormInv, TypeOK, Row, Counter

LEMMA FormSteps ==
  ASSUME FormInv, [Next]_vars
  PROVE  FormInv'
<1> USE DEF FormInv, TypeOK, Goto
<1>1. ASSUME NEW t \in Thread, NEW r \in Requests, Begin(t, r)
      PROVE  FormInv'
  BY <1>1, RequestsAreRequests, SharedStoreAssumption DEF Begin
<1>2. ASSUME NEW t \in Thread, Lock(t)
      PROVE  FormInv'
  BY <1>2, SharedStoreAssumption DEF Lock
<1>3. ASSUME NEW t \in Thread, Read(t)
      PROVE  FormInv'
  BY <1>3, SharedStoreAssumption DEF Read, Row, Copy, Request, Found, HeldByOther, AlreadyHeld
<1>4. ASSUME NEW t \in Thread, MintMark(t)
      PROVE  FormInv'
  <2> DEFINE c == CounterOf(request[t].kind)
             m == [counter |-> c, n |-> Minted(c)]
             new == [copy[t] EXCEPT !.row = Marked(t, copy[t].row, m), !.mark = m]
  <2>1. c \in Counter /\ minted' \in [Counter -> Nat] /\ m \in Mark
    BY <1>4 DEF MintMark, Request, CounterOf, Counter, Minted, Mark
  <2>2. copy[t] \in Copy /\ copy' = [copy EXCEPT ![t] = new]
    BY <1>4 DEF MintMark
  <2> HIDE DEF m
  <2>3. Marked(t, copy[t].row, m) \in Row
    BY <2>1, <2>2 DEF Marked, Copy, Row
  <2>4. new \in Copy /\ new.mark = m
    BY <2>1, <2>2, <2>3 DEF Copy
  <2> HIDE DEF new
  <2>5. copy' \in [Thread -> Copy \cup {None}] /\ copy'[t] = new
        /\ \A u \in Thread : u # t => copy'[u] = copy[u]
    BY <2>2, <2>4
  <2>6. \A u \in Thread : copy'[u] = None \/ (copy'[u].key \in Nat /\ copy'[u].row \in Row
                                             /\ copy'[u].mark \in Mark \cup {None})
    BY <2>5 DEF Copy
  <2>7. UNCHANGED <<home, mu, request, issues, acked, requests>>
        /\ pc[t] = "mint" /\ pc' = [pc EXCEPT ![t] = "write"] /\ request[t].kind # "create"
    BY <1>4 DEF MintMark
  <2> QED BY <2>1, <2>4, <2>5, <2>6, <2>7
<1>5. ASSUME NEW t \in Thread, MintIssue(t)
      PROVE  FormInv'
  BY <1>5, SharedStoreAssumption DEF MintIssue, Row, Copy, Request, Minted, Counter
<1>6. ASSUME NEW t \in Thread, ReadKeys(t)
      PROVE  FormInv'
  <2>1. Max(DOMAIN issues) + 1 \in Nat
    BY MaxIsGreatest
  <2> QED BY <1>6, <2>1 DEF ReadKeys, Copy
<1>7. ASSUME NEW t \in Thread, Write(t)
      PROVE  FormInv'
  <2>1. copy[t].key \in Nat /\ copy[t].row \in Row
    BY <1>7 DEF Write, Copy
  <2>2. /\ DOMAIN issues' = DOMAIN issues \cup {copy[t].key}
        /\ \A k \in DOMAIN issues' : issues'[k] \in Row
    BY <1>7, <2>1 DEF Write, Replaced
  <2>3. IsFiniteSet(DOMAIN issues')
    BY <2>2, FS_AddElement
  <2> QED BY <1>7, <2>1, <2>2, <2>3 DEF Write
<1>8. ASSUME NEW t \in Thread, Reply(t)
      PROVE  FormInv'
  BY <1>8, SharedStoreAssumption DEF Reply, Unlock, Acks, Ack, Copy, Request, Row, Mark
<1>9. ASSUME NEW t \in Thread, Refuse(t)
      PROVE  FormInv'
  BY <1>9, SharedStoreAssumption DEF Refuse, Unlock
<1>10. ASSUME NEW t \in Thread, Abort(t)
       PROVE  FormInv'
  BY <1>10, SharedStoreAssumption DEF Abort, Unlock
<1>11. CASE UNCHANGED vars
  BY <1>11 DEF vars, local
<1>12. QED
  BY <1>1, <1>2, <1>3, <1>4, <1>5, <1>6, <1>7, <1>8, <1>9, <1>10, <1>11 DEF Next, Handle

-----------------------------------------------------------------------------
\* A handler that has minted an id for an issue, or for a comment, and has not replied.
HasIssueId(t) == pc[t] \in {"keys", "write", "reply"} /\ request[t].kind = "create"
HasCommentId(t) == pc[t] \in {"write", "reply"} /\ request[t].kind = "comment"

\* Every id that is out, acknowledged or on its way, has been counted, and once.
MintInv ==
  /\ FormInv
  /\ IdsMintedOnce
  /\ \A a \in acked :
       /\ a.kind = "row" => a.id <= minted["issue"]
       /\ a.kind = "mark" => a.mark.counter = "comment" /\ a.mark.n <= minted["comment"]
  /\ \A t \in Thread : HasIssueId(t) =>
       /\ copy[t].row.id <= minted["issue"]
       /\ \A a \in acked : a.kind = "row" => a.id # copy[t].row.id
       /\ \A u \in Thread : u # t /\ HasIssueId(u) => copy[u].row.id # copy[t].row.id
  /\ \A t \in Thread : HasCommentId(t) =>
       /\ copy[t].mark.counter = "comment" /\ copy[t].mark.n <= minted["comment"]
       /\ \A a \in acked : a.kind = "mark" => a.mark # copy[t].mark
       /\ \A u \in Thread : u # t /\ HasCommentId(u) => copy[u].mark # copy[t].mark

\* Nothing is minted or acknowledged, and no handler gets an id it did not have.
LEMMA MintKept ==
  ASSUME MintInv, FormInv', acked' = acked, minted' = minted,
         \A u \in Thread :
           /\ HasIssueId(u)' => HasIssueId(u) /\ copy'[u] = copy[u]
           /\ HasCommentId(u)' => HasCommentId(u) /\ copy'[u] = copy[u]
  PROVE  MintInv'
<1>1. IdsMintedOnce'
  BY DEF MintInv, IdsMintedOnce
<1>2. QED
  BY <1>1 DEF MintInv

LEMMA MintSteps ==
  ASSUME MintInv, [Next]_vars
  PROVE  MintInv'
<1>0. FormInv'
  BY FormSteps DEF MintInv
<1> USE <1>0 DEF MintInv, FormInv, TypeOK, Goto, HasIssueId, HasCommentId, IdsMintedOnce
<1>1. ASSUME NEW t \in Thread, NEW r \in Requests, Begin(t, r)
      PROVE  MintInv'
  BY <1>1 DEF Begin
<1>2. ASSUME NEW t \in Thread, Lock(t)
      PROVE  MintInv'
  BY <1>2 DEF Lock
<1>3. ASSUME NEW t \in Thread, Read(t)
      PROVE  MintInv'
  <2>1. pc[t] = "read" /\ request[t] \in Request /\ request[t].kind # "create"
        /\ UNCHANGED <<request, minted, acked>>
    BY <1>3 DEF Read
  <2>2. \A u \in Thread : u # t => pc'[u] = pc[u] /\ copy'[u] = copy[u]
    BY <1>3 DEF Read
  <2>3. pc'[t] \in {"refuse", "mint"} \/ (pc'[t] = "reply" /\ request[t].kind = "claim")
    BY <1>3 DEF Read, AlreadyHeld
  <2>4. \A u \in Thread :
          /\ HasIssueId(u)' => u # t /\ HasIssueId(u) /\ copy'[u] = copy[u]
          /\ HasCommentId(u)' => u # t /\ HasCommentId(u) /\ copy'[u] = copy[u]
    BY <2>1, <2>2, <2>3
  <2> QED BY <2>1, <2>4, MintKept
<1>4. ASSUME NEW t \in Thread, MintMark(t)
      PROVE  MintInv'
  <2> DEFINE c == CounterOf(request[t].kind)
             m == [counter |-> c, n |-> minted[c] + 1]
  <2>1. /\ UNCHANGED <<home, mu, request, issues, acked, requests>>
        /\ pc[t] = "mint" /\ pc' = [pc EXCEPT ![t] = "write"] /\ request[t].kind # "create"
        /\ minted' = [minted EXCEPT ![c] = minted[c] + 1]
        /\ copy' = [copy EXCEPT ![t].row = Marked(t, @, m), ![t].mark = m]
    BY <1>4 DEF MintMark, Minted
  <2>2. /\ c = (IF request[t].kind = "comment" THEN "comment" ELSE "hist")
        /\ c \in Counter /\ minted[c] \in Nat
    BY <2>1 DEF CounterOf, Request, Counter
  <2>3. /\ minted'["issue"] = minted["issue"]
        /\ minted["comment"] \in Nat /\ minted'["comment"] \in Nat
        /\ minted["comment"] <= minted'["comment"]
        /\ request[t].kind = "comment" =>
             m = [counter |-> "comment", n |-> minted["comment"] + 1]
             /\ minted'["comment"] = minted["comment"] + 1
    BY <2>1, <2>2 DEF Counter
  <2>4. copy'[t].mark = m /\ \A u \in Thread : u # t => copy'[u] = copy[u]
    BY <2>1 DEF Copy
  <2> HIDE DEF m, c
  <2>5. \A a \in acked : a.kind = "mark" => a.mark.n <= minted'["comment"]
    BY <2>3 DEF Ack, Mark
  <2>6. \A u \in Thread : HasIssueId(u)' => HasIssueId(u) /\ u # t
    BY <2>1
  <2>7. \A u \in Thread : HasCommentId(u)' => u = t \/ HasCommentId(u)
    BY <2>1
  <2>8. \A u \in Thread : u # t /\ HasCommentId(u)' =>
          /\ copy'[u].mark.counter = "comment" /\ copy'[u].mark.n <= minted'["comment"]
          /\ copy'[u].mark.n <= minted["comment"]
    BY <2>3, <2>4, <2>7 DEF Mark, Copy
  <2>9. HasCommentId(t)' =>
          /\ copy'[t].mark.counter = "comment" /\ copy'[t].mark.n <= minted'["comment"]
          /\ \A a \in acked : a.kind = "mark" => a.mark # copy'[t].mark
          /\ \A u \in Thread : u # t /\ HasCommentId(u)' => copy'[u].mark # copy'[t].mark
    BY <2>1, <2>3, <2>4, <2>8 DEF Ack, Mark
  <2>10. \A u \in Thread : HasIssueId(u)' =>
           /\ copy'[u].row.id <= minted'["issue"]
           /\ \A a \in acked' : a.kind = "row" => a.id # copy'[u].row.id
           /\ \A v \in Thread : v # u /\ HasIssueId(v)' => copy'[v].row.id # copy'[u].row.id
    BY <2>1, <2>3, <2>4, <2>6
  <2>11. \A u \in Thread : HasCommentId(u)' =>
           /\ copy'[u].mark.counter = "comment" /\ copy'[u].mark.n <= minted'["comment"]
           /\ \A a \in acked' : a.kind = "mark" => a.mark # copy'[u].mark
           /\ \A v \in Thread : v # u /\ HasCommentId(v)' => copy'[v].mark # copy'[u].mark
    BY <2>1, <2>4, <2>7, <2>8, <2>9
  <2>12. IdsMintedOnce'
    BY <2>1
  <2>13. \A a \in acked' :
           /\ a.kind = "row" => a.id <= minted'["issue"]
           /\ a.kind = "mark" => a.mark.counter = "comment" /\ a.mark.n <= minted'["comment"]
    BY <2>1, <2>3, <2>5
  <2> QED BY <1>0, <2>10, <2>11, <2>12, <2>13 DEF MintInv
<1>5. ASSUME NEW t \in Thread, MintIssue(t)
      PROVE  MintInv'
  <2> DEFINE i == minted["issue"] + 1
  <2>1. /\ UNCHANGED <<home, mu, request, issues, acked, requests>>
        /\ pc[t] = "mint" /\ pc' = [pc EXCEPT ![t] = "keys"] /\ request[t].kind = "create"
        /\ minted' = [minted EXCEPT !["issue"] = i]
        /\ copy'[t].row.id = i /\ \A u \in Thread : u # t => copy'[u] = copy[u]
    BY <1>5 DEF MintIssue, Minted
  <2>2. /\ minted["issue"] \in Nat /\ minted'["issue"] = i
        /\ minted'["comment"] = minted["comment"]
    BY <2>1 DEF Counter
  <2>3. \A u \in Thread : HasIssueId(u)' => u = t \/ HasIssueId(u)
    BY <2>1
  <2>4. \A u \in Thread : HasCommentId(u)' => u # t /\ HasCommentId(u)
    BY <2>1
  <2>5. \A a \in acked : a.kind = "row" => a.id \in Nat /\ a.id <= minted["issue"]
    BY DEF Ack
  <2>6. \A u \in Thread : u # t /\ HasIssueId(u)' =>
          copy'[u].row.id \in Nat /\ copy'[u].row.id <= minted["issue"]
    BY <2>1, <2>3 DEF Copy, Row
  <2>7. \A u \in Thread : HasIssueId(u)' =>
          /\ copy'[u].row.id <= minted'["issue"]
          /\ \A a \in acked' : a.kind = "row" => a.id # copy'[u].row.id
          /\ \A v \in Thread : v # u /\ HasIssueId(v)' => copy'[v].row.id # copy'[u].row.id
    <3> HIDE DEF HasIssueId
    <3> QED BY <2>1, <2>2, <2>3, <2>5, <2>6
  <2>8. \A u \in Thread : HasCommentId(u)' =>
          /\ copy'[u].mark.counter = "comment" /\ copy'[u].mark.n <= minted'["comment"]
          /\ \A a \in acked' : a.kind = "mark" => a.mark # copy'[u].mark
          /\ \A v \in Thread : v # u /\ HasCommentId(v)' => copy'[v].mark # copy'[u].mark
    BY <2>1, <2>2, <2>4
  <2>9. \A a \in acked' :
          /\ a.kind = "row" => a.id <= minted'["issue"]
          /\ a.kind = "mark" => a.mark.counter = "comment" /\ a.mark.n <= minted'["comment"]
    BY <2>1, <2>2, <2>5
  <2>10. IdsMintedOnce'
    BY <2>1
  <2> QED BY <1>0, <2>7, <2>8, <2>9, <2>10 DEF MintInv
<1>6. ASSUME NEW t \in Thread, ReadKeys(t)
      PROVE  MintInv'
  BY <1>6 DEF ReadKeys, Copy
<1>7. ASSUME NEW t \in Thread, Write(t)
      PROVE  MintInv'
  BY <1>7 DEF Write
<1>8. ASSUME NEW t \in Thread, Reply(t)
      PROVE  MintInv'
  <2>1. /\ pc[t] = "reply" /\ request[t] \in Request /\ copy[t] \in Copy
        /\ acked' = acked \cup Acks(t) /\ minted' = minted
        /\ pc'[t] = "idle"
        /\ \A u \in Thread : u # t => pc'[u] = pc[u] /\ copy'[u] = copy[u]
                                      /\ request'[u] = request[u]
    BY <1>8 DEF Reply
  <2>2. \A u \in Thread :
          /\ HasIssueId(u)' => u # t /\ HasIssueId(u)
          /\ HasCommentId(u)' => u # t /\ HasCommentId(u)
    BY <2>1
  <2>3. \A a \in acked' \ acked :
          /\ a.kind = "row" => HasIssueId(t) /\ a = [kind |-> "row", key |-> copy[t].key, id |-> copy[t].row.id]
          /\ a.kind = "mark" => HasCommentId(t) /\ a = [kind |-> "mark", key |-> copy[t].key, mark |-> copy[t].mark]
    BY <2>1 DEF Acks, Request
  <2>4. \A a \in acked' :
          /\ a.kind = "row" => a.id <= minted'["issue"]
          /\ a.kind = "mark" => a.mark.counter = "comment" /\ a.mark.n <= minted'["comment"]
    BY <2>1, <2>3
  <2>5. IdsMintedOnce'
    <3>1. ASSUME NEW a \in acked', NEW b \in acked', a.kind = "row", b.kind = "row", a.id = b.id
          PROVE  a = b
      BY <2>3, <3>1
    <3>2. ASSUME NEW a \in acked', NEW b \in acked', a.kind = "mark", b.kind = "mark", a.mark = b.mark
          PROVE  a = b
      BY <2>3, <3>2
    <3> QED BY <3>1, <3>2
  <2>6. \A u \in Thread : HasIssueId(u)' =>
          /\ copy'[u].row.id <= minted'["issue"]
          /\ \A a \in acked' : a.kind = "row" => a.id # copy'[u].row.id
          /\ \A v \in Thread : v # u /\ HasIssueId(v)' => copy'[v].row.id # copy'[u].row.id
    BY <2>1, <2>2, <2>3
  <2>7. \A u \in Thread : HasCommentId(u)' =>
          /\ copy'[u].mark.counter = "comment" /\ copy'[u].mark.n <= minted'["comment"]
          /\ \A a \in acked' : a.kind = "mark" => a.mark # copy'[u].mark
          /\ \A v \in Thread : v # u /\ HasCommentId(v)' => copy'[v].mark # copy'[u].mark
    BY <2>1, <2>2, <2>3
  <2> QED BY <1>0, <2>4, <2>5, <2>6, <2>7 DEF MintInv
<1>9. ASSUME NEW t \in Thread, Refuse(t)
      PROVE  MintInv'
  BY <1>9 DEF Refuse, Unlock
<1>10. ASSUME NEW t \in Thread, Abort(t)
       PROVE  MintInv'
  BY <1>10 DEF Abort, Unlock
<1>11. CASE UNCHANGED vars
  BY <1>11 DEF vars, local
<1>12. QED
  BY <1>1, <1>2, <1>3, <1>4, <1>5, <1>6, <1>7, <1>8, <1>9, <1>10, <1>11 DEF Next, Handle

LEMMA MintInitially == Init => MintInv
BY FormInitially DEF Init, MintInv, IdsMintedOnce, HasIssueId, HasCommentId

\* The variables have their types at every step of every number of requests (SharedStore).
THEOREM SharedStoreTypes == Spec => []TypeOK
<1>1. FormInv => TypeOK
  BY DEF FormInv
<1>2. QED
  BY <1>1, FormInitially, FormSteps, PTL DEF Spec

\* No id is given to two requests, to however many processes they go.
THEOREM IdsGivenOnce == Spec => []IdsMintedOnce
<1>1. MintInv => IdsMintedOnce
  BY DEF MintInv
<1>2. QED
  BY <1>1, MintInitially, MintSteps, PTL DEF Spec

-----------------------------------------------------------------------------
\* Between taking the lock of its process and giving it back.
Holding(t) == pc[t] \in {"read", "mint", "keys", "write", "reply", "refuse"}

\* What a handler has read and written still stands while it holds the lock.
Stands(t) ==
  LET kind == request[t].kind  key == copy[t].key
  IN  /\ pc[t] = "mint" /\ kind # "create" =>
           /\ key \in DOMAIN issues /\ copy[t].row = issues[key]
           /\ kind = "claim" => issues[key].holder = None
      /\ pc[t] = "write" /\ kind # "create" =>
           /\ key \in DOMAIN issues /\ copy[t].row = Marked(t, issues[key], copy[t].mark)
           /\ kind = "claim" => issues[key].holder = None
      /\ pc[t] = "write" /\ kind = "create" => key \notin DOMAIN issues
      /\ pc[t] = "reply" =>
           /\ key \in DOMAIN issues
           /\ kind = "create" => issues[key].id = copy[t].row.id
           /\ kind = "comment" => copy[t].mark \in issues[key].marks
           /\ kind = "claim" => issues[key].holder = t

LockInv ==
  /\ FormInv
  /\ \A t \in Thread : Holding(t) => mu[home[t]] = t

DurableInv ==
  /\ LockInv
  /\ (\A t, u \in Thread : home[t] = home[u]) =>
       AckIsDurable /\ \A t \in Thread : Stands(t)

LEMMA LockSteps ==
  ASSUME LockInv, [Next]_vars
  PROVE  LockInv'
<1>0. FormInv'
  BY FormSteps DEF LockInv
<1> USE <1>0, SharedStoreAssumption DEF LockInv, FormInv, TypeOK, Goto, Holding, Unlock
<1>1. ASSUME NEW t \in Thread, NEW r \in Requests, Begin(t, r)
      PROVE  LockInv'
  BY <1>1 DEF Begin
<1>2. ASSUME NEW t \in Thread, Lock(t)
      PROVE  LockInv'
  BY <1>2 DEF Lock
<1>3. ASSUME NEW t \in Thread, Read(t)
      PROVE  LockInv'
  BY <1>3 DEF Read
<1>4. ASSUME NEW t \in Thread, MintMark(t)
      PROVE  LockInv'
  BY <1>4 DEF MintMark
<1>5. ASSUME NEW t \in Thread, MintIssue(t)
      PROVE  LockInv'
  BY <1>5 DEF MintIssue
<1>6. ASSUME NEW t \in Thread, ReadKeys(t)
      PROVE  LockInv'
  BY <1>6 DEF ReadKeys
<1>7. ASSUME NEW t \in Thread, Write(t)
      PROVE  LockInv'
  BY <1>7 DEF Write
<1>8. ASSUME NEW t \in Thread, Reply(t)
      PROVE  LockInv'
  BY <1>8 DEF Reply
<1>9. ASSUME NEW t \in Thread, Refuse(t)
      PROVE  LockInv'
  BY <1>9 DEF Refuse
<1>10. ASSUME NEW t \in Thread, Abort(t)
       PROVE  LockInv'
  BY <1>10 DEF Abort
<1>11. CASE UNCHANGED vars
  BY <1>11 DEF vars, local
<1>12. QED
  BY <1>1, <1>2, <1>3, <1>4, <1>5, <1>6, <1>7, <1>8, <1>9, <1>10, <1>11 DEF Next, Handle

OneProcess == \A t, u \in Thread : home[t] = home[u]

\* In one process at most one handler holds the lock.
LEMMA OneHolds ==
  ASSUME LockInv, OneProcess, NEW t \in Thread, Holding(t)
  PROVE  \A u \in Thread : u # t => ~Holding(u)
BY DEF LockInv, OneProcess

\* A step of a handler that holds the lock leaves every other one without it.
LEMMA OthersOutside ==
  ASSUME LockInv, OneProcess, NEW t \in Thread, Holding(t),
         \A u \in Thread : u # t => pc'[u] = pc[u],
         Stands(t)'
  PROVE  \A u \in Thread : Stands(u)'
BY OneHolds DEF Holding, Stands

LEMMA DurableSteps ==
  ASSUME DurableInv, [Next]_vars
  PROVE  DurableInv'
<1>0. LockInv' /\ home' = home
  BY LockSteps DEF DurableInv, Next, Handle, vars, local, Begin, Lock, Read, MintMark, MintIssue,
     ReadKeys, Write, Reply, Refuse, Abort
<1> SUFFICES ASSUME OneProcess
             PROVE  AckIsDurable' /\ \A u \in Thread : Stands(u)'
  BY <1>0 DEF DurableInv, OneProcess
<1>a. LockInv /\ FormInv /\ TypeOK /\ AckIsDurable /\ \A u \in Thread : Stands(u)
  BY DEF DurableInv, OneProcess, LockInv, FormInv
<1>b. ASSUME UNCHANGED <<issues, acked>>
      PROVE  AckIsDurable'
  BY <1>a, <1>b DEF AckIsDurable
<1> USE DEF Goto
<1>1. ASSUME NEW t \in Thread, NEW r \in Requests, Begin(t, r)
      PROVE  AckIsDurable' /\ \A u \in Thread : Stands(u)'
  <2>1. ASSUME NEW u \in Thread
        PROVE  Stands(u)'
    <3>1. UNCHANGED <<copy, issues>> /\ (u # t => pc'[u] = pc[u] /\ request'[u] = request[u])
          /\ pc'[t] = "lock"
      BY <1>1, <1>a DEF Begin, TypeOK
    <3> QED BY <3>1, <1>a DEF Stands, Marked
  <2> QED BY <1>1, <1>b, <2>1 DEF Begin
<1>2. ASSUME NEW t \in Thread, Lock(t)
      PROVE  AckIsDurable' /\ \A u \in Thread : Stands(u)'
  <2>1. \A u \in Thread : ~Holding(u)
    BY <1>2, <1>a, SharedStoreAssumption DEF Lock, LockInv, OneProcess
  <2>2. /\ pc'[t] = (IF request[t].kind = "create" THEN "mint" ELSE "read")
        /\ \A u \in Thread : u # t => pc'[u] = pc[u]
        /\ request' = request
    BY <1>2, <1>a DEF Lock, TypeOK
  <2>3. \A u \in Thread : Stands(u)'
    BY <2>1, <2>2 DEF Stands, Holding
  <2> QED BY <1>2, <1>b, <2>3 DEF Lock
<1>3. ASSUME NEW t \in Thread, Read(t)
      PROVE  AckIsDurable' /\ \A u \in Thread : Stands(u)'
  <2>1. Holding(t) /\ \A u \in Thread : u # t => pc'[u] = pc[u]
    BY <1>3, <1>a DEF Read, Holding, TypeOK
  <2>2. Stands(t)'
    <3>1. CASE pc'[t] = "refuse"
      BY <3>1 DEF Stands
    <3>2. CASE pc'[t] # "refuse"
      <4> DEFINE k == request[t].key
      <4>1. /\ k \in DOMAIN issues /\ ~HeldByOther(t, issues[k])
            /\ pc'[t] = (IF AlreadyHeld(t, issues[k]) THEN "reply" ELSE "mint")
            /\ copy'[t] = [key |-> k, mark |-> None, row |-> issues[k]]
            /\ UNCHANGED <<request, issues>>
        BY <1>3, <1>a, <3>2 DEF Read, Found, TypeOK, FormInv
      <4>2. request[t].kind = "claim" => issues[k].holder \in {None, t}
        BY <4>1 DEF HeldByOther
      <4> QED BY <4>1, <4>2 DEF Stands, AlreadyHeld
    <3> QED BY <3>1, <3>2
  <2> QED BY <1>3, <1>a, <1>b, <2>1, <2>2, OthersOutside DEF Read
<1>4. ASSUME NEW t \in Thread, MintMark(t)
      PROVE  AckIsDurable' /\ \A u \in Thread : Stands(u)'
  <2> DEFINE m == [counter |-> CounterOf(request[t].kind), n |-> Minted(CounterOf(request[t].kind))]
  <2>1. /\ Holding(t) /\ \A u \in Thread : u # t => pc'[u] = pc[u]
        /\ pc[t] = "mint" /\ pc'[t] = "write" /\ request[t].kind # "create"
        /\ UNCHANGED <<request, issues, acked>>
        /\ copy' = [copy EXCEPT ![t].row = Marked(t, @, m), ![t].mark = m]
    BY <1>4, <1>a DEF MintMark, Holding, TypeOK
  <2> HIDE DEF m
  <2>2. copy'[t].row = Marked(t, copy[t].row, m) /\ copy'[t].mark = m /\ copy'[t].key = copy[t].key
    BY <2>1, <1>a DEF FormInv, Copy
  <2>3. Stands(t)'
    BY <2>1, <2>2, <1>a DEF Stands, Marked
  <2> QED BY <1>a, <1>b, <2>1, <2>3, OthersOutside
<1>5. ASSUME NEW t \in Thread, MintIssue(t)
      PROVE  AckIsDurable' /\ \A u \in Thread : Stands(u)'
  <2>1. /\ Holding(t) /\ \A u \in Thread : u # t => pc'[u] = pc[u]
        /\ pc'[t] = "keys" /\ UNCHANGED <<issues, acked>>
    BY <1>5, <1>a DEF MintIssue, Holding, TypeOK
  <2>2. Stands(t)'
    BY <2>1 DEF Stands
  <2> QED BY <1>a, <1>b, <2>1, <2>2, OthersOutside
<1>6. ASSUME NEW t \in Thread, ReadKeys(t)
      PROVE  AckIsDurable' /\ \A u \in Thread : Stands(u)'
  <2>1. /\ Holding(t) /\ \A u \in Thread : u # t => pc'[u] = pc[u]
        /\ pc[t] = "keys" /\ pc'[t] = "write" /\ UNCHANGED <<request, issues, acked>>
        /\ copy'[t].key = Max(DOMAIN issues) + 1
    BY <1>6, <1>a DEF ReadKeys, Holding, TypeOK, FormInv, Copy
  <2>2. Max(DOMAIN issues) + 1 \notin DOMAIN issues
    <3>1. Max(DOMAIN issues) \in Nat /\ \A k \in DOMAIN issues : k \in Nat /\ Max(DOMAIN issues) >= k
      BY <1>a, MaxIsGreatest DEF FormInv, TypeOK
    <3> QED BY <3>1
  <2>3. Stands(t)'
    BY <2>1, <2>2, <1>a DEF Stands, FormInv
  <2> QED BY <1>a, <1>b, <2>1, <2>3, OthersOutside
<1>7. ASSUME NEW t \in Thread, Write(t)
      PROVE  AckIsDurable' /\ \A u \in Thread : Stands(u)'
  <2> DEFINE k == copy[t].key
  <2>1. /\ Holding(t) /\ \A u \in Thread : u # t => pc'[u] = pc[u]
        /\ pc[t] = "write" /\ pc'[t] = "reply" /\ UNCHANGED <<request, copy, acked>>
        /\ request[t] \in Request /\ copy[t] \in Copy
    BY <1>7, <1>a DEF Write, Holding, TypeOK, FormInv
  <2>2. /\ DOMAIN issues' = DOMAIN issues \cup {k}
        /\ issues'[k] = copy[t].row
        /\ \A j \in DOMAIN issues : j # k => issues'[j] = issues[j]
    BY <1>7 DEF Write, Replaced
  <2>3. CASE request[t].kind = "create"
    <3>1. k \notin DOMAIN issues
      BY <1>a, <2>1, <2>3 DEF Stands
    <3>2. AckIsDurable'
      BY <1>a, <2>1, <2>2, <3>1 DEF AckIsDurable
    <3>3. Stands(t)'
      BY <2>1, <2>2, <2>3 DEF Stands
    <3> QED BY <1>a, <2>1, <3>2, <3>3, OthersOutside
  <2>4. CASE request[t].kind # "create"
    <3>1. /\ k \in DOMAIN issues /\ issues'[k] = Marked(t, issues[k], copy[t].mark)
          /\ request[t].kind = "claim" => issues[k].holder = None
      BY <1>a, <2>1, <2>2, <2>4 DEF Stands
    <3>2. issues[k] \in Row
      BY <1>a, <3>1 DEF TypeOK
    <3>3. /\ issues'[k].id = issues[k].id
          /\ issues'[k].marks = issues[k].marks \cup {copy[t].mark}
          /\ issues'[k].holder = IF request[t].kind = "claim" THEN t ELSE issues[k].holder
      BY <3>1, <3>2 DEF Marked, Row
    <3>4. ASSUME NEW a \in acked
          PROVE  /\ a.key \in DOMAIN issues'
                 /\ a.kind = "row" => issues'[a.key].id = a.id
                 /\ a.kind = "mark" => a.mark \in issues'[a.key].marks
                 /\ a.kind = "claim" => issues'[a.key].holder = a.holder
      <4>1. /\ a.key \in DOMAIN issues /\ a.kind \in {"row", "mark", "claim"}
            /\ a.kind = "row" => issues[a.key].id = a.id
            /\ a.kind = "mark" => a.mark \in issues[a.key].marks
            /\ a.kind = "claim" => issues[a.key].holder = a.holder /\ a.holder # None
        BY <1>a, SharedStoreAssumption DEF AckIsDurable, TypeOK, Ack
      <4> QED BY <4>1, <2>2, <3>1, <3>3
    <3>5. AckIsDurable'
      <4>1. acked' = acked /\ \A a \in acked : a.kind \in {"row", "mark", "claim"}
        BY <1>a, <2>1 DEF TypeOK, Ack
      <4> QED BY <4>1, <3>4 DEF AckIsDurable
    <3>6. Stands(t)'
      BY <2>1, <2>2, <2>4, <3>3 DEF Stands, Request
    <3> QED BY <1>a, <2>1, <3>5, <3>6, OthersOutside
  <2> QED BY <2>3, <2>4
<1>8. ASSUME NEW t \in Thread, Reply(t)
      PROVE  AckIsDurable' /\ \A u \in Thread : Stands(u)'
  <2>1. /\ Holding(t) /\ \A u \in Thread : u # t => pc'[u] = pc[u]
        /\ pc[t] = "reply" /\ pc'[t] = "idle" /\ issues' = issues
        /\ acked' = acked \cup Acks(t) /\ request[t] \in Request
    BY <1>8, <1>a DEF Reply, Holding, TypeOK, FormInv
  <2>2. AckIsDurable'
    <3> DEFINE Lasts(a) ==
          /\ a.key \in DOMAIN issues
          /\ a.kind = "row" => issues[a.key].id = a.id
          /\ a.kind = "mark" => a.mark \in issues[a.key].marks
          /\ a.kind = "claim" => issues[a.key].holder = a.holder
    <3>1. Stands(t)
      BY <1>a
    <3>2. \A a \in Acks(t) : Lasts(a) /\ a.kind \in {"row", "mark", "claim"}
      BY <2>1, <3>1 DEF Acks, Stands, Request
    <3>3. \A a \in acked : Lasts(a) /\ a.kind \in {"row", "mark", "claim"}
      BY <1>a DEF AckIsDurable, TypeOK, Ack
    <3>4. \A a \in acked' : Lasts(a) /\ a.kind \in {"row", "mark", "claim"}
      BY <2>1, <3>2, <3>3
    <3> QED BY <2>1, <3>4 DEF AckIsDurable
  <2>3. Stands(t)'
    BY <2>1 DEF Stands
  <2> QED BY <1>a, <2>1, <2>2, <2>3, OthersOutside
<1>9. ASSUME NEW t \in Thread, Refuse(t) \/ Abort(t)
      PROVE  AckIsDurable' /\ \A u \in Thread : Stands(u)'
  <2>1. /\ Holding(t) /\ \A u \in Thread : u # t => pc'[u] = pc[u]
        /\ pc'[t] = "idle" /\ UNCHANGED <<issues, acked>>
    BY <1>9, <1>a DEF Refuse, Abort, Holding, TypeOK
  <2>2. Stands(t)'
    BY <2>1 DEF Stands
  <2> QED BY <1>a, <1>b, <2>1, <2>2, OthersOutside
<1>10. CASE UNCHANGED vars
  BY <1>10, <1>a, <1>b DEF vars, local, Stands, Marked
<1>11. QED
  BY <1>1, <1>2, <1>3, <1>4, <1>5, <1>6, <1>7, <1>8, <1>9, <1>10 DEF Next, Handle

LEMMA DurableInitially == Init => DurableInv
<1> SUFFICES ASSUME Init
             PROVE  DurableInv
  OBVIOUS
<1>1. FormInv
  BY FormInitially
<1>2. acked = {} /\ \A t \in Thread : pc[t] = "idle"
  BY DEF Init
<1>3. AckIsDurable
  BY <1>2 DEF AckIsDurable
<1>4. QED
  BY <1>1, <1>2, <1>3 DEF DurableInv, LockInv, Holding, Stands

\* As long as one process has the file open, what any client was told has been done stays
\* done: s.mu is enough for every handler, whatever fails half way in one of them.
THEOREM AcksLastInOneProcess == Spec => []DurableWithinProcess
<1>1. DurableInv => DurableWithinProcess
  BY DEF DurableInv, DurableWithinProcess
<1>2. QED
  BY <1>1, DurableInitially, DurableSteps, PTL DEF Spec
=============================================================================
