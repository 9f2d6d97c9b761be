----------------------------- MODULE StartupProofs -----------------------------
(***************************************************************************)
(* Proofs about Startup, for any number of processes, any fixture and any  *)
(* number of crashes.                                                      *)
(***************************************************************************)
EXTENDS Startup, FiniteNats

\* Past the first CREATE TABLE and not yet done with the catalog.
Creating(p) == pc[p] \in {"tables", "stamp", "catalog", "fields", "sprint"}

\* Between its own stat and the end of its start.
StartingUp(p) == pc[p] \notin {"down", "serving", "failed"}

\* The processes' part of the type invariant.
ControlOK ==
  /\ pc \in [Process -> Labels]
  /\ loaded \in [Process -> BOOLEAN]
  /\ present \in BOOLEAN

\* The rows' part of it.
RowsOK ==
  /\ row = [k \in DOMAIN row |-> row[k]]
  /\ \A k \in DOMAIN row :
       row[k] = [kind |-> row[k].kind, id |-> row[k].id, edited |-> row[k].edited]

\* What the file has, by where a process is: the inductive part of OpenIsWhole.
SchemaInv ==
  /\ ControlOK
  /\ version = 3 => tables = "all"
  /\ \A p \in Process :
       /\ pc[p] = "stamp" => tables = "all"
       /\ pc[p] \in {"catalog", "fields", "sprint", "reopen", "seed", "apply", "floor", "serving"}
            => version = 3

\* What a file has on top of its schema: the inductive part of OpenIsWhole.  Only a start
\* that saw no file, and so has the fixture to apply, ever creates one; the rows it has
\* put up to todo stay, and whoever leaves its catalog or its fixture half done says so
\* in cut.
WholeInv ==
  /\ ControlOK
  /\ \A p \in Process : loaded[p] => present
  /\ \A p \in Process : pc[p] \in {"create", "schema", "tables", "stamp", "apply"} => ~loaded[p]
  /\ version = 3 /\ installed # "all" => "catalog" \in cut \/ \E q \in Process : Installing(q)
  /\ version = 3 /\ ~(FixtureKey \subseteq DOMAIN row)
       => "fixture" \in cut \/ \E q \in Process : Seeding(q)
  /\ \A p \in Process :
       pc[p] = "apply" => \A i \in 1..todo[p] - 1 : Fixture[i].key \in DOMAIN row

\* One creator, and none any more once there is a catalog: that of CatalogStays.
CreatorInv ==
  /\ ControlOK
  /\ \A p, q \in Process : Creating(p) /\ Creating(q) => p = q
  /\ \A p \in Process : Creating(p) => tables # "none" /\ installed # "all"
  /\ installed = "all" => tables # "none"

\* Who applies a fixture had no file before it, and since a write was acknowledged
\* in quiet there has always been one: that of AckedSurvives.
SeedInv ==
  /\ ControlOK
  /\ RowsOK
  /\ acked \subseteq DOMAIN row
  /\ acked # {} => present /\ \A p \in Process : StartingUp(p) => loaded[p]
  /\ \A p \in Process : pc[p] = "apply" => ~loaded[p]
  /\ \A p \in Process : pc[p] \notin {"down", "open", "create", "failed"} => present
  /\ AckedSurvives

-----------------------------------------------------------------------------
LEMMA ControlSteps ==
  ASSUME ControlOK, [StartupNext]_startupVars
  PROVE  ControlOK'
BY DEF ControlOK, Labels, StartupNext, startupVars, file, graph, observed, Goto, Starting, Begin, OpenStore,
   CreateFile, CreateTable, CreateRest, StampVersion, OpenBlobsFails, InstallCatalog,
   InstallFields, InstallSprintField, Inspect, Reopen, Seed, ApplyRow, ApplyFails, FloorSeqs,
   Stop, ClientCreates, ClientEdits

\* The version is stamped on a whole schema, and no step takes either back.
LEMMA SchemaSteps ==
  ASSUME SchemaInv, [StartupNext]_startupVars
  PROVE  SchemaInv'
<1> USE DEF SchemaInv, ControlOK, Labels, Goto, file, graph, observed
<1>0. ControlOK'
  BY ControlSteps
<1>1. ASSUME NEW p \in Process, Begin(p)
      PROVE  SchemaInv'
  BY <1>0, <1>1 DEF Begin
<1>2. ASSUME NEW p \in Process, OpenStore(p)
      PROVE  SchemaInv'
  BY <1>0, <1>2 DEF OpenStore
<1>3. ASSUME NEW p \in Process, CreateFile(p)
      PROVE  SchemaInv'
  BY <1>0, <1>3 DEF CreateFile
<1>4. ASSUME NEW p \in Process, CreateTable(p)
      PROVE  SchemaInv'
  BY <1>0, <1>4 DEF CreateTable
<1>5. ASSUME NEW p \in Process, CreateRest(p)
      PROVE  SchemaInv'
  BY <1>0, <1>5 DEF CreateRest
<1>6. ASSUME NEW p \in Process, StampVersion(p)
      PROVE  SchemaInv'
  BY <1>0, <1>6 DEF StampVersion
<1>7. ASSUME NEW p \in Process, OpenBlobsFails(p)
      PROVE  SchemaInv'
  BY <1>0, <1>7 DEF OpenBlobsFails
<1>8. ASSUME NEW p \in Process, InstallCatalog(p)
      PROVE  SchemaInv'
  BY <1>0, <1>8 DEF InstallCatalog
<1>9. ASSUME NEW p \in Process, InstallFields(p)
      PROVE  SchemaInv'
  BY <1>0, <1>9 DEF InstallFields
<1>10. ASSUME NEW p \in Process, InstallSprintField(p)
       PROVE  SchemaInv'
  BY <1>0, <1>10 DEF InstallSprintField
<1>11. ASSUME NEW p \in Process, Inspect(p)
       PROVE  SchemaInv'
  BY <1>0, <1>11 DEF Inspect
<1>12. ASSUME NEW p \in Process, Reopen(p)
       PROVE  SchemaInv'
  BY <1>0, <1>12 DEF Reopen
<1>13. ASSUME NEW p \in Process, Seed(p)
       PROVE  SchemaInv'
  BY <1>0, <1>13 DEF Seed
<1>14. ASSUME NEW p \in Process, ApplyRow(p)
       PROVE  SchemaInv'
  BY <1>0, <1>14 DEF ApplyRow
<1>15. ASSUME NEW p \in Process, ApplyFails(p)
       PROVE  SchemaInv'
  BY <1>0, <1>15 DEF ApplyFails
<1>16. ASSUME NEW p \in Process, FloorSeqs(p)
       PROVE  SchemaInv'
  BY <1>0, <1>16 DEF FloorSeqs
<1>17. ASSUME NEW p \in Process, Stop(p)
       PROVE  SchemaInv'
  BY <1>0, <1>17 DEF Stop
<1>18. ASSUME NEW p \in Process, NEW k \in ClientKey, NEW kind \in Kind, ClientCreates(p, k, kind)
       PROVE  SchemaInv'
  BY <1>0, <1>18 DEF ClientCreates
<1>19. ASSUME NEW p \in Process, NEW k \in DOMAIN row, ClientEdits(p, k)
       PROVE  SchemaInv'
  BY <1>0, <1>19 DEF ClientEdits
<1>20. CASE UNCHANGED startupVars
  BY <1>0, <1>20 DEF startupVars
<1>21. QED
  BY <1>0, <1>1, <1>2, <1>3, <1>4, <1>5, <1>6, <1>7, <1>8, <1>9, <1>10, <1>11, <1>12, <1>13,
     <1>14, <1>15, <1>16, <1>17, <1>18, <1>19, <1>20 DEF StartupNext, Starting

\* Whoever finds no table becomes the creator, and nobody else does until it is done.
LEMMA CreatorSteps ==
  ASSUME CreatorInv, [StartupNext]_startupVars
  PROVE  CreatorInv'
<1> USE DEF CreatorInv, ControlOK, Labels, Goto, file, graph, observed, Creating
<1>0. ControlOK'
  BY ControlSteps
<1>1. ASSUME NEW p \in Process, Begin(p)
      PROVE  CreatorInv'
  BY <1>0, <1>1 DEF Begin
<1>2. ASSUME NEW p \in Process, OpenStore(p)
      PROVE  CreatorInv'
  BY <1>0, <1>2 DEF OpenStore
<1>3. ASSUME NEW p \in Process, CreateFile(p)
      PROVE  CreatorInv'
  BY <1>0, <1>3 DEF CreateFile
<1>4. ASSUME NEW p \in Process, CreateTable(p)
      PROVE  CreatorInv'
  BY <1>0, <1>4 DEF CreateTable
<1>5. ASSUME NEW p \in Process, CreateRest(p)
      PROVE  CreatorInv'
  BY <1>0, <1>5 DEF CreateRest
<1>6. ASSUME NEW p \in Process, StampVersion(p)
      PROVE  CreatorInv'
  BY <1>0, <1>6 DEF StampVersion
<1>7. ASSUME NEW p \in Process, OpenBlobsFails(p)
      PROVE  CreatorInv'
  BY <1>0, <1>7 DEF OpenBlobsFails
<1>8. ASSUME NEW p \in Process, InstallCatalog(p)
      PROVE  CreatorInv'
  BY <1>0, <1>8 DEF InstallCatalog
<1>9. ASSUME NEW p \in Process, InstallFields(p)
      PROVE  CreatorInv'
  BY <1>0, <1>9 DEF InstallFields
<1>10. ASSUME NEW p \in Process, InstallSprintField(p)
       PROVE  CreatorInv'
  BY <1>0, <1>10 DEF InstallSprintField
<1>11. ASSUME NEW p \in Process, Inspect(p)
       PROVE  CreatorInv'
  BY <1>0, <1>11 DEF Inspect
<1>12. ASSUME NEW p \in Process, Reopen(p)
       PROVE  CreatorInv'
  BY <1>0, <1>12 DEF Reopen
<1>13. ASSUME NEW p \in Process, Seed(p)
       PROVE  CreatorInv'
  BY <1>0, <1>13 DEF Seed
<1>14. ASSUME NEW p \in Process, ApplyRow(p)
       PROVE  CreatorInv'
  BY <1>0, <1>14 DEF ApplyRow
<1>15. ASSUME NEW p \in Process, ApplyFails(p)
       PROVE  CreatorInv'
  BY <1>0, <1>15 DEF ApplyFails
<1>16. ASSUME NEW p \in Process, FloorSeqs(p)
       PROVE  CreatorInv'
  BY <1>0, <1>16 DEF FloorSeqs
<1>17. ASSUME NEW p \in Process, Stop(p)
       PROVE  CreatorInv'
  BY <1>0, <1>17 DEF Stop
<1>18. ASSUME NEW p \in Process, NEW k \in ClientKey, NEW kind \in Kind, ClientCreates(p, k, kind)
       PROVE  CreatorInv'
  BY <1>0, <1>18 DEF ClientCreates
<1>19. ASSUME NEW p \in Process, NEW k \in DOMAIN row, ClientEdits(p, k)
       PROVE  CreatorInv'
  BY <1>0, <1>19 DEF ClientEdits
<1>20. CASE UNCHANGED startupVars
  BY <1>0, <1>20 DEF startupVars
<1>21. QED
  BY <1>0, <1>1, <1>2, <1>3, <1>4, <1>5, <1>6, <1>7, <1>8, <1>9, <1>10, <1>11, <1>12, <1>13,
     <1>14, <1>15, <1>16, <1>17, <1>18, <1>19, <1>20 DEF StartupNext, Starting

-----------------------------------------------------------------------------
(* Rows. *)

LEMMA PutRow ==
  ASSUME NEW k, NEW kind, NEW id, NEW edited, Put(k, kind, id, edited)
  PROVE  /\ row' = [j \in DOMAIN row' |-> row'[j]]
         /\ DOMAIN row' = DOMAIN row \cup {k}
         /\ row'[k] = [kind |-> kind, id |-> row'[k].id, edited |-> edited]
         /\ \A j \in DOMAIN row : j # k => row'[j] = row[j]
BY DEF Put

LEMMA EditRow ==
  ASSUME RowsOK, NEW p, NEW k \in DOMAIN row, ClientEdits(p, k)
  PROVE  /\ DOMAIN row' = DOMAIN row
         /\ row'[k] = [kind |-> row[k].kind, id |-> row[k].id, edited |-> TRUE]
         /\ \A j \in DOMAIN row : j # k => row'[j] = row[j]
         /\ row' = [j \in DOMAIN row' |-> row'[j]]
<1>1. /\ DOMAIN row' = DOMAIN row /\ row'[k] = [row[k] EXCEPT !.edited = TRUE]
      /\ \A j \in DOMAIN row : j # k => row'[j] = row[j]
      /\ row' = [j \in DOMAIN row' |-> row'[j]]
  BY DEF ClientEdits, RowsOK
<1>2. row'[k] = [kind |-> row[k].kind, id |-> row[k].id, edited |-> TRUE]
  BY <1>1 DEF RowsOK
<1> QED BY <1>1, <1>2

LEMMA PutKeepsRows ==
  ASSUME RowsOK, NEW k, NEW kind, NEW id, NEW edited, Put(k, kind, id, edited)
  PROVE  RowsOK'
<1>1. /\ row' = [j \in DOMAIN row' |-> row'[j]]
      /\ DOMAIN row' = DOMAIN row \cup {k}
      /\ row'[k] = [kind |-> kind, id |-> row'[k].id, edited |-> edited]
      /\ \A j \in DOMAIN row : j # k => row'[j] = row[j]
  BY PutRow
<1>2. row'[k].kind = kind /\ row'[k].edited = edited
  BY <1>1
<1>3. QED
  BY <1>1, <1>2 DEF RowsOK

\* The fixture is applied only by a process that saw no file, and then no write can
\* have been acknowledged.
LEMMA SeedSteps ==
  ASSUME SeedInv, [StartupNext]_startupVars
  PROVE  SeedInv'
<1> USE DEF SeedInv, ControlOK, Labels, Goto, file, graph, observed, AckedSurvives
<1>0. ControlOK'
  BY ControlSteps
<1>1. ASSUME NEW p \in Process, Begin(p)
      PROVE  SeedInv'
  BY <1>0, <1>1 DEF Begin, StartingUp, RowsOK
<1>2. ASSUME NEW p \in Process, OpenStore(p)
      PROVE  SeedInv'
  BY <1>0, <1>2 DEF OpenStore, StartingUp, RowsOK
<1>3. ASSUME NEW p \in Process, CreateFile(p)
      PROVE  SeedInv'
  BY <1>0, <1>3 DEF CreateFile, StartingUp, RowsOK
<1>4. ASSUME NEW p \in Process, CreateTable(p)
      PROVE  SeedInv'
  BY <1>0, <1>4 DEF CreateTable, StartingUp, RowsOK
<1>5. ASSUME NEW p \in Process, CreateRest(p)
      PROVE  SeedInv'
  BY <1>0, <1>5 DEF CreateRest, StartingUp, RowsOK
<1>6. ASSUME NEW p \in Process, StampVersion(p)
      PROVE  SeedInv'
  BY <1>0, <1>6 DEF StampVersion, StartingUp, RowsOK
<1>7. ASSUME NEW p \in Process, OpenBlobsFails(p)
      PROVE  SeedInv'
  BY <1>0, <1>7 DEF OpenBlobsFails, StartingUp, RowsOK
<1>8. ASSUME NEW p \in Process, InstallCatalog(p)
      PROVE  SeedInv'
  BY <1>0, <1>8 DEF InstallCatalog, StartingUp, RowsOK
<1>9. ASSUME NEW p \in Process, InstallFields(p)
      PROVE  SeedInv'
  BY <1>0, <1>9 DEF InstallFields, StartingUp, RowsOK
<1>10. ASSUME NEW p \in Process, InstallSprintField(p)
       PROVE  SeedInv'
  BY <1>0, <1>10 DEF InstallSprintField, StartingUp, RowsOK
<1>11. ASSUME NEW p \in Process, Inspect(p)
       PROVE  SeedInv'
  BY <1>0, <1>11 DEF Inspect, StartingUp, RowsOK
<1>12. ASSUME NEW p \in Process, Reopen(p)
       PROVE  SeedInv'
  BY <1>0, <1>12 DEF Reopen, StartingUp, RowsOK
<1>13. ASSUME NEW p \in Process, Seed(p)
       PROVE  SeedInv'
  BY <1>0, <1>13 DEF Seed, StartingUp, RowsOK
<1>14. ASSUME NEW p \in Process, ApplyRow(p)
       PROVE  SeedInv'
  <2>1. ~loaded[p] /\ acked = {}
    BY <1>14 DEF ApplyRow, StartingUp
  <2>2. RowsOK'
    BY <1>14, PutKeepsRows DEF ApplyRow
  <2>3. QED
    BY <1>0, <1>14, <2>1, <2>2 DEF ApplyRow, StartingUp
<1>15. ASSUME NEW p \in Process, ApplyFails(p)
       PROVE  SeedInv'
  BY <1>0, <1>15 DEF ApplyFails, StartingUp, RowsOK
<1>16. ASSUME NEW p \in Process, FloorSeqs(p)
       PROVE  SeedInv'
  BY <1>0, <1>16 DEF FloorSeqs, StartingUp, RowsOK
<1>17. ASSUME NEW p \in Process, Stop(p)
       PROVE  SeedInv'
  BY <1>0, <1>17 DEF Stop, StartingUp, RowsOK
<1>18. ASSUME NEW p \in Process, NEW k \in ClientKey, NEW kind \in Kind, ClientCreates(p, k, kind)
       PROVE  SeedInv'
  <2>1. RowsOK'
    BY <1>18, PutKeepsRows DEF ClientCreates
  <2>2. /\ DOMAIN row' = DOMAIN row \cup {k} /\ k \notin DOMAIN row
        /\ row'[k].edited /\ \A j \in DOMAIN row : row'[j] = row[j]
    <3>1. Put(k, kind, 0, TRUE) /\ k \notin DOMAIN row
      BY <1>18 DEF ClientCreates
    <3>2. /\ DOMAIN row' = DOMAIN row \cup {k}
          /\ row'[k] = [kind |-> kind, id |-> row'[k].id, edited |-> TRUE]
          /\ \A j \in DOMAIN row : j # k => row'[j] = row[j]
      BY <3>1 DEF Put
    <3>3. QED
      BY <3>1, <3>2
  <2>3. acked' \subseteq DOMAIN row' /\ AckedSurvives'
    BY <1>18, <2>2 DEF ClientCreates
  <2>4. acked' # {} => present' /\ \A q \in Process : StartingUp(q)' => loaded'[q]
    BY <1>18 DEF ClientCreates, StartingUp, Quiet
  <2>5. QED
    BY <1>0, <1>18, <2>1, <2>3, <2>4 DEF ClientCreates
<1>19. ASSUME NEW p \in Process, NEW k \in DOMAIN row, ClientEdits(p, k)
       PROVE  SeedInv'
  <2>1. /\ DOMAIN row' = DOMAIN row
        /\ \A j \in DOMAIN row : j # k => row'[j] = row[j]
        /\ row' = [j \in DOMAIN row' |-> row'[j]]
    BY <1>19, EditRow
  <2>2. row'[k] = [kind |-> row[k].kind, id |-> row[k].id, edited |-> TRUE]
    BY <1>19, EditRow
  <2>3. RowsOK'
    BY <1>19, <2>1, <2>2 DEF RowsOK
  <2>4. acked' \subseteq DOMAIN row' /\ AckedSurvives'
    BY <1>19, <2>1, <2>2 DEF ClientEdits
  <2>5. acked' # {} => present' /\ \A q \in Process : StartingUp(q)' => loaded'[q]
    BY <1>19 DEF ClientEdits, StartingUp, Quiet
  <2>6. QED
    BY <1>0, <1>19, <2>3, <2>4, <2>5 DEF ClientEdits
<1>20. CASE UNCHANGED startupVars
  BY <1>0, <1>20 DEF startupVars, StartingUp, RowsOK
<1>21. QED
  BY <1>1, <1>2, <1>3, <1>4, <1>5, <1>6, <1>7, <1>8, <1>9, <1>10, <1>11, <1>12, <1>13,
     <1>14, <1>15, <1>16, <1>17, <1>18, <1>19, <1>20 DEF StartupNext, Starting

-----------------------------------------------------------------------------
(* Types. *)

\* The rows are finitely many, so that every counter has a highest id to be raised to.
TypesInv ==
  /\ StartupTypeOK
  /\ RowsOK
  /\ IsFiniteSet(DOMAIN row)

\* What Max chooses, of naturals.
LEMMA MaxOfNats ==
  ASSUME NEW S \in SUBSET Nat, IsFiniteSet(S), S # {}
  PROVE  Max(S) \in Nat /\ \A y \in S : y <= Max(S)
<1>1. PICK x \in S : \A y \in S : x >= y
  BY GreatestExists
<1>2. Max(S) \in S /\ \A y \in S : Max(S) >= y
  BY <1>1 DEF Max
<1> QED BY <1>2

LEMMA FixtureRows ==
  \A i \in DOMAIN Fixture :
    /\ Fixture[i].key \in FixtureKey
    /\ Fixture[i].kind \in Kind
    /\ Fixture[i].id \in Nat
<1> DEFINE R == [key : FixtureKey, kind : Kind \ {"pageComment"}, id : Nat]
<1>1. Fixture \in Seq(R)
  BY StartupAssumption
<1>2. \A i \in DOMAIN Fixture : Fixture[i] \in R
  <2> HIDE DEF R
  <2> QED BY <1>1
<1> QED BY <1>2

LEMMA FixtureLength ==
  /\ Len(Fixture) \in Nat
  /\ DOMAIN Fixture = 1..Len(Fixture)
  /\ Fixture # <<>> => 1 \in 0..Len(Fixture)
<1> DEFINE R == [key : FixtureKey, kind : Kind \ {"pageComment"}, id : Nat]
<1>1. Fixture \in Seq(R)
  BY StartupAssumption
<1> HIDE DEF R
<1> QED BY <1>1

LEMMA CountersTyped == \A kind \in Kind : CounterOf(kind) \in Counter
BY DEF Counter

LEMMA HighestBounds ==
  ASSUME TypesInv, NEW c \in Counter
  PROVE  /\ Highest(c) \in Nat
         /\ \A k \in DOMAIN row :
              row[k].kind \in Floored /\ CounterOf(row[k].kind) = c => row[k].id <= Highest(c)
<1> DEFINE D == { j \in DOMAIN row : row[j].kind \in Floored /\ CounterOf(row[j].kind) = c }
           I == { row[k].id : k \in D }
           S == {0} \cup I
<1>1. IsFiniteSet(D)
  BY FS_Subset, D \subseteq DOMAIN row DEF TypesInv
<1>2. IsFiniteSet(I)
  <2> DEFINE f == [k \in D |-> row[k].id]
  <2>1. f \in Surjection(D, I)
    BY DEF Surjection
  <2> HIDE DEF D, f
  <2> QED BY <1>1, <2>1, FS_Surjection
<1>3. S \in SUBSET Nat
  BY DEF TypesInv, StartupTypeOK
<1>4. IsFiniteSet(S) /\ S # {}
  <2> HIDE DEF I
  <2> QED BY <1>2, FS_Singleton, FS_Union
<1>5. Max(S) \in Nat /\ \A y \in S : y <= Max(S)
  <2> HIDE DEF S
  <2> QED BY <1>3, <1>4, MaxOfNats
<1>6. \A k \in D : row[k].id \in S
  OBVIOUS
<1>7. Highest(c) = Max(S)
  BY DEF Highest
<1> QED BY <1>5, <1>6, <1>7

\* Wherever the counters are raised, each is again a natural and covers every row that is
\* looked at.
LEMMA RaisedBounds ==
  ASSUME TypesInv
  PROVE  /\ Raised \in [Counter -> Nat]
         /\ \A k \in DOMAIN row :
              row[k].kind \in Floored => row[k].id <= Raised[CounterOf(row[k].kind)]
<1>1. ASSUME NEW c \in Counter
      PROVE  Raised[c] \in Nat /\ Highest(c) \in Nat /\ Highest(c) <= Raised[c]
  <2> DEFINE S == {seq[c], Highest(c)}
  <2>1. Highest(c) \in Nat
    BY HighestBounds
  <2>2. S \in SUBSET Nat /\ S # {}
    BY <2>1 DEF TypesInv, StartupTypeOK
  <2>3. IsFiniteSet(S)
    <3>1. S = {seq[c]} \cup {Highest(c)}
      OBVIOUS
    <3>2. IsFiniteSet({seq[c]})
      BY FS_Singleton
    <3> HIDE DEF S
    <3> QED BY <3>1, <3>2, FS_AddElement
  <2>4. Max(S) \in Nat /\ \A y \in S : y <= Max(S)
    <3> HIDE DEF S
    <3> QED BY <2>2, <2>3, MaxOfNats
  <2>5. Raised[c] = Max(S)
    BY DEF Raised
  <2> QED BY <2>1, <2>4, <2>5
<1>2. Raised \in [Counter -> Nat]
  BY <1>1 DEF Raised
<1>3. ASSUME NEW k \in DOMAIN row, row[k].kind \in Floored
      PROVE  row[k].id <= Raised[CounterOf(row[k].kind)]
  <2>1. row[k].kind \in Kind /\ row[k].id \in Nat
    BY DEF TypesInv, StartupTypeOK
  <2>2. CounterOf(row[k].kind) \in Counter
    BY <2>1, CountersTyped
  <2>3. row[k].id <= Highest(CounterOf(row[k].kind))
    BY <1>3, <2>2, HighestBounds
  <2> QED BY <1>1, <2>1, <2>2, <2>3
<1> QED BY <1>2, <1>3

\* What the graph's part of the types says, which Put and the clients' edits disturb.
GraphTyped ==
  /\ RowsOK
  /\ IsFiniteSet(DOMAIN row)
  /\ DOMAIN row \subseteq FixtureKey \cup ClientKey
  /\ \A k \in DOMAIN row : row[k] \in [kind : Kind, id : Nat \ {0}, edited : BOOLEAN]
  /\ seq \in [Counter -> Nat]

LEMMA PutTyped ==
  ASSUME GraphTyped, NEW k \in FixtureKey \cup ClientKey, NEW kind \in Kind, NEW id \in Nat,
         NEW edited \in BOOLEAN, Put(k, kind, id, edited)
  PROVE  GraphTyped' /\ DOMAIN row' = DOMAIN row \cup {k}
<1>1. CounterOf(kind) \in Counter
  BY CountersTyped
<1>2. seq[CounterOf(kind)] \in Nat
  BY <1>1 DEF GraphTyped
<1>3. seq' \in [Counter -> Nat]
  BY <1>1, <1>2 DEF GraphTyped, Put, NextSeq
<1>4. /\ row' = [j \in DOMAIN row' |-> row'[j]]
      /\ DOMAIN row' = DOMAIN row \cup {k}
      /\ \A j \in DOMAIN row : j # k => row'[j] = row[j]
  BY PutRow
<1>5. row'[k] \in [kind : Kind, id : Nat \ {0}, edited : BOOLEAN]
  <2>1. row'[k] = [kind |-> kind, id |-> IF id = 0 THEN seq[CounterOf(kind)] + 1 ELSE id, edited |-> edited]
    BY DEF Put, NextSeq
  <2> QED BY <2>1, <1>2
<1>6. IsFiniteSet(DOMAIN row')
  BY <1>4, FS_AddElement DEF GraphTyped
<1>7. RowsOK'
  BY PutKeepsRows DEF GraphTyped
<1> QED BY <1>3, <1>4, <1>5, <1>6, <1>7 DEF GraphTyped

LEMMA InitTypes == StartupInit => TypesInv
<1> SUFFICES ASSUME StartupInit
             PROVE  TypesInv
  OBVIOUS
<1>1. DOMAIN row = {} /\ row = [k \in DOMAIN row |-> row[k]]
  BY DEF StartupInit
<1>2. RowsOK /\ IsFiniteSet(DOMAIN row)
  BY <1>1, FS_EmptySet DEF RowsOK
<1>3. 0 \in 0..Len(Fixture) /\ 0 \in 0..MaxCrashes
  BY StartupAssumption, FixtureLength
<1>4. /\ pc \in [Process -> Labels] /\ loaded \in [Process -> BOOLEAN]
      /\ todo \in [Process -> 0..Len(Fixture)] /\ seq \in [Counter -> Nat]
  BY <1>3 DEF StartupInit, Labels
<1>5. StartupTypeOK
  BY <1>1, <1>3, <1>4 DEF StartupInit, StartupTypeOK
<1> QED BY <1>2, <1>5 DEF TypesInv

LEMMA UndoneTyped == \A p \in Process : Undone(p) \subseteq {"catalog", "fixture"}
BY DEF Undone

LEMMA TypesSteps ==
  ASSUME TypesInv, [StartupNext]_startupVars
  PROVE  TypesInv'
<1> USE DEF Goto, file, graph, observed, Labels
<1>0. GraphTyped
  BY DEF TypesInv, StartupTypeOK, GraphTyped
<1> USE DEF TypesInv, StartupTypeOK
<1>1. ASSUME NEW p \in Process, Begin(p)
      PROVE  TypesInv'
  BY <1>1 DEF Begin, RowsOK
<1>2. ASSUME NEW p \in Process, OpenStore(p)
      PROVE  TypesInv'
  BY <1>2 DEF OpenStore, RowsOK
<1>3. ASSUME NEW p \in Process, CreateFile(p)
      PROVE  TypesInv'
  BY <1>3 DEF CreateFile, RowsOK
<1>4. ASSUME NEW p \in Process, CreateTable(p)
      PROVE  TypesInv'
  BY <1>4 DEF CreateTable, RowsOK
<1>5. ASSUME NEW p \in Process, CreateRest(p)
      PROVE  TypesInv'
  BY <1>5 DEF CreateRest, RowsOK
<1>6. ASSUME NEW p \in Process, StampVersion(p)
      PROVE  TypesInv'
  BY <1>6 DEF StampVersion, RowsOK
<1>7. ASSUME NEW p \in Process, OpenBlobsFails(p)
      PROVE  TypesInv'
  <2>1. /\ pc' \in [Process -> Labels] /\ cut' \subseteq {"catalog", "fixture"}
        /\ UNCHANGED <<file, graph, loaded, todo, crashes, acked, overlapped>>
    BY <1>7, UndoneTyped DEF OpenBlobsFails
  <2> QED BY <2>1 DEF RowsOK
<1>8. ASSUME NEW p \in Process, InstallCatalog(p)
      PROVE  TypesInv'
  BY <1>8 DEF InstallCatalog, RowsOK
<1>9. ASSUME NEW p \in Process, InstallFields(p)
      PROVE  TypesInv'
  BY <1>9 DEF InstallFields, RowsOK
<1>10. ASSUME NEW p \in Process, InstallSprintField(p)
       PROVE  TypesInv'
  BY <1>10, UndoneTyped DEF InstallSprintField, RowsOK
<1>11. ASSUME NEW p \in Process, Inspect(p)
       PROVE  TypesInv'
  BY <1>11 DEF Inspect, RowsOK
<1>12. ASSUME NEW p \in Process, Reopen(p)
       PROVE  TypesInv'
  BY <1>12, RaisedBounds DEF Reopen, RowsOK
<1>13. ASSUME NEW p \in Process, Seed(p)
       PROVE  TypesInv'
  <2>1. Len(Fixture) \in Nat /\ (Fixture # <<>> => 1 \in 0..Len(Fixture))
    BY FixtureLength
  <2>2. cut' \subseteq {"catalog", "fixture"}
    BY <1>13, UndoneTyped DEF Seed
  <2>3. pc' \in [Process -> Labels] /\ todo' \in [Process -> 0..Len(Fixture)]
    BY <1>13, <2>1 DEF Seed
  <2>4. UNCHANGED <<file, graph, loaded, crashes, acked, overlapped>>
    BY <1>13 DEF Seed
  <2> QED BY <2>2, <2>3, <2>4 DEF RowsOK
<1>14. ASSUME NEW p \in Process, ApplyRow(p)
       PROVE  TypesInv'
  <2> DEFINE f == Fixture[todo[p]]
  <2>1. todo[p] \in DOMAIN Fixture
    BY <1>14 DEF ApplyRow
  <2>2. f.key \in FixtureKey \cup ClientKey /\ f.kind \in Kind /\ f.id \in Nat
    BY <2>1, FixtureRows
  <2>3. Len(Fixture) \in Nat /\ todo[p] \in 1..Len(Fixture)
    BY <2>1, FixtureLength
  <2>4. Put(f.key, f.kind, f.id, FALSE)
    BY <1>14 DEF ApplyRow
  <2>5. GraphTyped' /\ DOMAIN row' = DOMAIN row \cup {f.key}
    <3> HIDE DEF f
    <3> QED BY <1>0, <2>2, <2>4, PutTyped
  <2>6. todo' \in [Process -> 0..Len(Fixture)]
    BY <1>14, <2>3 DEF ApplyRow
  <2> QED BY <1>14, <2>5, <2>6 DEF ApplyRow, GraphTyped
<1>15. ASSUME NEW p \in Process, ApplyFails(p)
       PROVE  TypesInv'
  BY <1>15, FixtureLength, UndoneTyped DEF ApplyFails, RowsOK
<1>16. ASSUME NEW p \in Process, FloorSeqs(p)
       PROVE  TypesInv'
  BY <1>16, RaisedBounds DEF FloorSeqs, RowsOK
<1>17. ASSUME NEW p \in Process, Stop(p)
       PROVE  TypesInv'
  BY <1>17, FixtureLength, StartupAssumption, UndoneTyped DEF Stop, RowsOK
<1>18. ASSUME NEW p \in Process, NEW k \in ClientKey, NEW kind \in Kind, ClientCreates(p, k, kind)
       PROVE  TypesInv'
  <2>1. Put(k, kind, 0, TRUE)
    BY <1>18 DEF ClientCreates
  <2>2. GraphTyped' /\ DOMAIN row' = DOMAIN row \cup {k}
    BY <1>0, <2>1, PutTyped
  <2> QED BY <1>18, <2>2 DEF ClientCreates, GraphTyped
<1>19. ASSUME NEW p \in Process, NEW k \in DOMAIN row, ClientEdits(p, k)
       PROVE  TypesInv'
  <2>1. /\ DOMAIN row' = DOMAIN row
        /\ \A j \in DOMAIN row : j # k => row'[j] = row[j]
        /\ row' = [j \in DOMAIN row' |-> row'[j]]
    BY <1>19, EditRow
  <2>2. row'[k] = [kind |-> row[k].kind, id |-> row[k].id, edited |-> TRUE]
    BY <1>19, EditRow
  <2>3. row'[k] \in [kind : Kind, id : Nat \ {0}, edited : BOOLEAN]
    BY <2>2
  <2>4. RowsOK'
    BY <2>1, <2>2 DEF RowsOK
  <2>5. acked' \subseteq DOMAIN row'
    <3>1. acked \subseteq DOMAIN row /\ acked' \subseteq acked \cup {k}
      BY <1>19 DEF ClientEdits
    <3> QED BY <2>1, <3>1
  <2> QED BY <1>19, <2>1, <2>3, <2>4, <2>5 DEF ClientEdits
<1>20. CASE UNCHANGED startupVars
  BY <1>20 DEF startupVars, RowsOK
<1> QED
  BY <1>1, <1>2, <1>3, <1>4, <1>5, <1>6, <1>7, <1>8, <1>9, <1>10, <1>11, <1>12,
     <1>13, <1>14, <1>15, <1>16, <1>17, <1>18, <1>19, <1>20 DEF StartupNext, Starting

-----------------------------------------------------------------------------
(* Catalog and fixture. *)

\* Where the work on catalog and fixture passes from one step to the next, and what is
\* noted where it ends.
LEMMA WholeSteps ==
  ASSUME TypesInv, WholeInv, [StartupNext]_startupVars
  PROVE  WholeInv'
<1> USE DEF WholeInv, ControlOK, Labels, Goto, file, graph, observed, Installing, Seeding, Undone
<1>0. ControlOK'
  BY ControlSteps
<1>todo. DOMAIN todo = Process
  BY DEF TypesInv, StartupTypeOK
<1>1. ASSUME NEW p \in Process, Begin(p)
      PROVE  WholeInv'
  BY <1>0, <1>1 DEF Begin
<1>2. ASSUME NEW p \in Process, OpenStore(p)
      PROVE  WholeInv'
  BY <1>0, <1>2 DEF OpenStore
<1>3. ASSUME NEW p \in Process, CreateFile(p)
      PROVE  WholeInv'
  BY <1>0, <1>3 DEF CreateFile
<1>4. ASSUME NEW p \in Process, CreateTable(p)
      PROVE  WholeInv'
  BY <1>0, <1>4 DEF CreateTable
<1>5. ASSUME NEW p \in Process, CreateRest(p)
      PROVE  WholeInv'
  BY <1>0, <1>5 DEF CreateRest
<1>6. ASSUME NEW p \in Process, StampVersion(p)
      PROVE  WholeInv'
  BY <1>0, <1>6 DEF StampVersion
<1>7. ASSUME NEW p \in Process, OpenBlobsFails(p)
      PROVE  WholeInv'
  BY <1>0, <1>7 DEF OpenBlobsFails
<1>8. ASSUME NEW p \in Process, InstallCatalog(p)
      PROVE  WholeInv'
  BY <1>0, <1>8 DEF InstallCatalog
<1>9. ASSUME NEW p \in Process, InstallFields(p)
      PROVE  WholeInv'
  BY <1>0, <1>9 DEF InstallFields
<1>10. ASSUME NEW p \in Process, InstallSprintField(p)
       PROVE  WholeInv'
  BY <1>0, <1>10 DEF InstallSprintField
<1>11. ASSUME NEW p \in Process, Inspect(p)
       PROVE  WholeInv'
  BY <1>0, <1>11 DEF Inspect
<1>12. ASSUME NEW p \in Process, Reopen(p)
       PROVE  WholeInv'
  BY <1>0, <1>12 DEF Reopen
<1>13. ASSUME NEW p \in Process, Seed(p)
       PROVE  WholeInv'
  <2>1. Fixture = <<>> => FixtureKey = {}
    BY DEF FixtureKey
  <2>2. \/ /\ loaded[p] \/ Fixture = <<>>
           /\ Goto(p, "seed", "serving") /\ UNCHANGED <<todo, cut>>
        \/ ~loaded[p] /\ Goto(p, "seed", "failed") /\ UNCHANGED todo /\ "fixture" \in cut'
             /\ cut \subseteq cut'
        \/ ~loaded[p] /\ Goto(p, "seed", "apply") /\ UNCHANGED cut
             /\ todo' = [todo EXCEPT ![p] = 1]
    BY <1>13 DEF Seed
  <2>3. \A q \in Process : pc'[q] = "apply" => IF q = p THEN 1..todo'[q] - 1 = {}
                                                     ELSE pc[q] = "apply" /\ todo'[q] = todo[q]
    BY <1>todo, <1>13 DEF Seed
  <2>4. UNCHANGED <<file, graph, loaded>>
    BY <1>13 DEF Seed
  <2> QED BY <1>0, <2>1, <2>2, <2>3, <2>4
<1>14. ASSUME NEW p \in Process, ApplyRow(p)
       PROVE  WholeInv'
  <2> DEFINE n == todo[p]
             f == Fixture[n]
  <2>1. /\ n \in 1..Len(Fixture) /\ Len(Fixture) \in Nat /\ DOMAIN Fixture = 1..Len(Fixture)
        /\ ~loaded[p] /\ Put(f.key, f.kind, f.id, FALSE)
    BY <1>14, FixtureLength DEF ApplyRow
  <2>2. DOMAIN row' = DOMAIN row \cup {f.key}
    BY <2>1, PutRow
  <2>3. \A i \in 1..n : Fixture[i].key \in DOMAIN row'
    <3>1. \A i \in 1..n - 1 : Fixture[i].key \in DOMAIN row
      BY <1>14 DEF ApplyRow
    <3>2. \A i \in 1..n : i = n \/ i \in 1..n - 1
      BY <2>1
    <3> HIDE DEF n
    <3> QED BY <2>2, <3>1, <3>2
  <2>4. n = Len(Fixture) => FixtureKey \subseteq DOMAIN row'
    BY <2>1, <2>3 DEF FixtureKey
  <2>5. n # Len(Fixture) => todo'[p] = n + 1 /\ pc' = pc
    BY <1>todo, <1>14 DEF ApplyRow, WholeInv
  <2>6. \A q \in Process : q # p => todo'[q] = todo[q] /\ pc'[q] = pc[q]
    BY <1>todo, <1>14 DEF ApplyRow
  <2>7. pc'[p] = IF n = Len(Fixture) THEN "floor" ELSE "apply"
    BY <1>14 DEF ApplyRow
  <2>8. UNCHANGED <<file, loaded, cut>> /\ pc[p] = "apply"
    BY <1>14 DEF ApplyRow
  <2> HIDE DEF n, f
  <2>9. ASSUME NEW q \in Process, pc'[q] = "apply"
        PROVE  \A i \in 1..todo'[q] - 1 : Fixture[i].key \in DOMAIN row'
    <3>1. CASE q = p
      <4>1. n # Len(Fixture) /\ todo'[q] = n + 1
        BY <2>5, <2>7, <2>9, <3>1
      <4>2. n \in Nat
        BY <2>1
      <4>3. todo'[q] - 1 = n
        BY <4>1, <4>2
      <4> QED BY <2>3, <4>3
    <3>2. CASE q # p
      BY <2>2, <2>6, <2>9, <3>2
    <3> QED BY <3>1, <3>2
  <2>10. version = 3 /\ ~(FixtureKey \subseteq DOMAIN row')
           => "fixture" \in cut \/ \E q \in Process : Seeding(q)'
    BY <2>1, <2>2, <2>4, <2>6, <2>7, <2>8
  <2>11. version = 3 /\ installed # "all" => "catalog" \in cut \/ \E q \in Process : Installing(q)'
    BY <2>6, <2>7, <2>8
  <2>12. \A q \in Process :
           pc'[q] \in {"create", "schema", "tables", "stamp", "apply"} => ~loaded'[q]
    BY <2>1, <2>6, <2>8
  <2> QED BY <1>0, <2>8, <2>9, <2>10, <2>11, <2>12
<1>15. ASSUME NEW p \in Process, ApplyFails(p)
       PROVE  WholeInv'
  BY <1>0, <1>15 DEF ApplyFails
<1>16. ASSUME NEW p \in Process, FloorSeqs(p)
       PROVE  WholeInv'
  BY <1>0, <1>16 DEF FloorSeqs
<1>17. ASSUME NEW p \in Process, Stop(p)
       PROVE  WholeInv'
  BY <1>0, <1>17 DEF Stop
<1>18. ASSUME NEW p \in Process, NEW k \in ClientKey, NEW kind \in Kind, ClientCreates(p, k, kind)
       PROVE  WholeInv'
  <2>1. DOMAIN row' = DOMAIN row \cup {k}
    BY <1>18, PutRow DEF ClientCreates
  <2> QED BY <1>0, <1>18, <2>1 DEF ClientCreates
<1>19. ASSUME NEW p \in Process, NEW k \in DOMAIN row, ClientEdits(p, k)
       PROVE  WholeInv'
  <2>1. DOMAIN row' = DOMAIN row
    BY <1>19 DEF ClientEdits
  <2> QED BY <1>0, <1>19, <2>1 DEF ClientEdits
<1>20. CASE UNCHANGED startupVars
  BY <1>0, <1>20 DEF startupVars
<1> QED
  BY <1>1, <1>2, <1>3, <1>4, <1>5, <1>6, <1>7, <1>8, <1>9, <1>10, <1>11, <1>12,
     <1>13, <1>14, <1>15, <1>16, <1>17, <1>18, <1>19, <1>20 DEF StartupNext, Starting

-----------------------------------------------------------------------------
(* Ids. *)

\* No row of a kind that is looked at has an id beyond its counter.
Counted ==
  \A k \in DOMAIN row : row[k].kind \in Floored => row[k].id <= seq[CounterOf(row[k].kind)]

\* What MintedIdsFree says of processes that start one at a time.
ClientIdsFree ==
  \A k \in DOMAIN row \cap ClientKey, j \in DOMAIN row :
    (j # k /\ row[j].kind = row[k].kind /\ row[j].kind \in Floored) => row[j].id # row[k].id

\* A start that found no file: it is alone, and the rows are those it has put itself.
FirstStart(p) ==
  /\ pc[p] \notin {"inspect", "reopen"}
  /\ pc[p] = "open" => ~present
  /\ \A q \in Process : pc[q] # "serving"
  /\ DOMAIN row \cap ClientKey = {}
  /\ pc[p] \notin {"apply", "floor"} => DOMAIN row = {}

\* A start that found one: it raises the counters before it serves.
LaterStart(p) ==
  /\ present
  /\ pc[p] \in {"open", "inspect", "reopen", "seed"}
  /\ pc[p] = "seed" => Counted

\* The counters are behind only where nobody mints: within the first start, and after its
\* death until the next start has raised them.
MintInv ==
  /\ TypesInv
  /\ \A p \in Process : pc[p] \notin {"down", "open", "create", "failed"} => present
  /\ ~present => DOMAIN row = {}
  /\ ~overlapped =>
       /\ \A p, q \in Process : StartingUp(p) /\ StartingUp(q) => p = q
       /\ \A p \in Process : StartingUp(p) /\ loaded[p] => LaterStart(p)
       /\ \A p \in Process : StartingUp(p) /\ ~loaded[p] => FirstStart(p)
       /\ \A p \in Process : pc[p] = "serving" => Counted
       /\ ClientIdsFree

\* A client's row gets the number after the highest.
LEMMA ClientPut ==
  ASSUME TypesInv, Counted, ClientIdsFree, NEW k \in ClientKey, NEW kind \in Kind,
         k \notin DOMAIN row, Put(k, kind, 0, TRUE)
  PROVE  Counted' /\ ClientIdsFree'
<1> DEFINE c == CounterOf(kind)
<1>1. c \in Counter /\ seq[c] \in Nat
  BY CountersTyped DEF TypesInv, StartupTypeOK
<1>2. /\ DOMAIN row' = DOMAIN row \cup {k}
      /\ row'[k] = [kind |-> kind, id |-> seq[c] + 1, edited |-> TRUE]
      /\ \A j \in DOMAIN row : row'[j] = row[j]
      /\ seq' = [seq EXCEPT ![c] = seq[c] + 1]
  BY DEF Put, NextSeq
<1>3. row'[k].kind = kind /\ row'[k].id = seq[c] + 1
  BY <1>2
<1>4. \A d \in Counter : seq[d] \in Nat /\ seq'[d] = IF d = c THEN seq[c] + 1 ELSE seq[d]
  BY <1>1, <1>2 DEF TypesInv, StartupTypeOK
<1>5. \A j \in DOMAIN row :
        row[j].id \in Nat /\ row[j].kind \in Kind /\ CounterOf(row[j].kind) \in Counter
  BY CountersTyped DEF TypesInv, StartupTypeOK
<1> HIDE DEF c
<1>6. ASSUME NEW j \in DOMAIN row', row'[j].kind \in Floored
      PROVE  row'[j].id <= seq'[CounterOf(row'[j].kind)]
  <2>1. CASE j = k
    BY <2>1, <1>1, <1>3, <1>4 DEF c
  <2>2. CASE j # k
    <3>1. j \in DOMAIN row /\ row'[j] = row[j]
      BY <1>2, <2>2
    <3>2. row[j].id <= seq[CounterOf(row[j].kind)]
      BY <1>6, <3>1 DEF Counted
    <3> QED BY <1>1, <1>4, <1>5, <3>1, <3>2
  <2> QED BY <2>1, <2>2
<1>7. ASSUME NEW j \in DOMAIN row, row[j].kind = kind, kind \in Floored
      PROVE  row[j].id < row'[k].id
  <2>1. row[j].id <= seq[c]
    BY <1>7 DEF Counted, c
  <2> QED BY <2>1, <1>1, <1>3, <1>5
<1>8. ASSUME NEW i \in DOMAIN row' \cap ClientKey, NEW j \in DOMAIN row',
             j # i, row'[j].kind = row'[i].kind, row'[j].kind \in Floored
      PROVE  row'[j].id # row'[i].id
  <2>1. CASE i = k
    <3>1. j \in DOMAIN row /\ row'[j] = row[j]
      BY <1>2, <1>8, <2>1
    <3> QED BY <1>1, <1>3, <1>5, <1>7, <1>8, <2>1, <3>1
  <2>2. CASE j = k
    <3>1. i \in DOMAIN row /\ row'[i] = row[i]
      BY <1>2, <1>8, <2>2
    <3> QED BY <1>1, <1>3, <1>5, <1>7, <1>8, <2>2, <3>1
  <2>3. CASE i # k /\ j # k
    <3>1. /\ i \in DOMAIN row /\ row'[i] = row[i]
          /\ j \in DOMAIN row /\ row'[j] = row[j]
      BY <1>2, <2>3
    <3> QED BY <1>8, <3>1 DEF ClientIdsFree
  <2> QED BY <2>1, <2>2, <2>3
<1> QED BY <1>6, <1>8 DEF Counted, ClientIdsFree

LEMMA MintSteps ==
  ASSUME MintInv, [StartupNext]_startupVars
  PROVE  MintInv'
<1> USE DEF MintInv, Goto, file, graph, observed, StartingUp, FirstStart, LaterStart
<1>0. TypesInv' /\ ControlOK
  BY TypesSteps DEF TypesInv, StartupTypeOK, ControlOK
<1>1. ASSUME NEW p \in Process, Begin(p)
      PROVE  MintInv'
  BY <1>0, <1>1 DEF Begin, ControlOK, Counted, ClientIdsFree, Quiet
<1>2. ASSUME NEW p \in Process, OpenStore(p)
      PROVE  MintInv'
  BY <1>0, <1>2 DEF OpenStore, ControlOK, Counted, ClientIdsFree
<1>3. ASSUME NEW p \in Process, CreateFile(p)
      PROVE  MintInv'
  BY <1>0, <1>3 DEF CreateFile, ControlOK, Counted, ClientIdsFree
<1>4. ASSUME NEW p \in Process, CreateTable(p)
      PROVE  MintInv'
  BY <1>0, <1>4 DEF CreateTable, ControlOK, Counted, ClientIdsFree
<1>5. ASSUME NEW p \in Process, CreateRest(p)
      PROVE  MintInv'
  BY <1>0, <1>5 DEF CreateRest, ControlOK, Counted, ClientIdsFree
<1>6. ASSUME NEW p \in Process, StampVersion(p)
      PROVE  MintInv'
  BY <1>0, <1>6 DEF StampVersion, ControlOK, Counted, ClientIdsFree
<1>7. ASSUME NEW p \in Process, OpenBlobsFails(p)
      PROVE  MintInv'
  BY <1>0, <1>7 DEF OpenBlobsFails, ControlOK, Counted, ClientIdsFree
<1>8. ASSUME NEW p \in Process, InstallCatalog(p)
      PROVE  MintInv'
  BY <1>0, <1>8 DEF InstallCatalog, ControlOK, Counted, ClientIdsFree
<1>9. ASSUME NEW p \in Process, InstallFields(p)
      PROVE  MintInv'
  BY <1>0, <1>9 DEF InstallFields, ControlOK, Counted, ClientIdsFree
<1>10. ASSUME NEW p \in Process, InstallSprintField(p)
       PROVE  MintInv'
  BY <1>0, <1>10 DEF InstallSprintField, ControlOK, Counted, ClientIdsFree
<1>11. ASSUME NEW p \in Process, Inspect(p)
       PROVE  MintInv'
  BY <1>0, <1>11 DEF Inspect, ControlOK, Counted, ClientIdsFree
<1>12. ASSUME NEW p \in Process, Reopen(p)
       PROVE  MintInv'
  <2>1. Counted'
    BY <1>12, RaisedBounds DEF Reopen, Counted
  <2> QED BY <1>0, <1>12, <2>1 DEF Reopen, ControlOK, ClientIdsFree
<1>13. ASSUME NEW p \in Process, Seed(p)
       PROVE  MintInv'
  BY <1>0, <1>13 DEF Seed, ControlOK, Counted, ClientIdsFree
<1>14. ASSUME NEW p \in Process, ApplyRow(p)
       PROVE  MintInv'
  <2> DEFINE f == Fixture[todo[p]]
  <2>1. Put(f.key, f.kind, f.id, FALSE) /\ f.key \in FixtureKey
    BY <1>14, FixtureRows DEF ApplyRow
  <2>2. DOMAIN row' = DOMAIN row \cup {f.key}
    BY <2>1, PutRow
  <2>3. ~overlapped => ~loaded[p] /\ DOMAIN row' \cap ClientKey = {}
    <3>1. FixtureKey \cap ClientKey = {}
      BY StartupAssumption
    <3> HIDE DEF f
    <3> QED BY <1>14, <2>1, <2>2, <3>1 DEF ApplyRow
  <2>4. ~overlapped => ClientIdsFree'
    BY <2>3 DEF ClientIdsFree
  <2> HIDE DEF f
  <2> QED BY <1>0, <1>14, <2>2, <2>3, <2>4 DEF ApplyRow, ControlOK
<1>15. ASSUME NEW p \in Process, ApplyFails(p)
       PROVE  MintInv'
  BY <1>0, <1>15 DEF ApplyFails, ControlOK, Counted, ClientIdsFree
<1>16. ASSUME NEW p \in Process, FloorSeqs(p)
       PROVE  MintInv'
  <2>1. Counted'
    BY <1>16, RaisedBounds DEF FloorSeqs, Counted
  <2> QED BY <1>0, <1>16, <2>1 DEF FloorSeqs, ControlOK, ClientIdsFree
<1>17. ASSUME NEW p \in Process, Stop(p)
       PROVE  MintInv'
  BY <1>0, <1>17 DEF Stop, ControlOK, Counted, ClientIdsFree
<1>18. ASSUME NEW p \in Process, NEW k \in ClientKey, NEW kind \in Kind, ClientCreates(p, k, kind)
       PROVE  MintInv'
  <2>1. Put(k, kind, 0, TRUE) /\ k \notin DOMAIN row
    BY <1>18 DEF ClientCreates
  <2>2. ~overlapped => Counted' /\ ClientIdsFree'
    BY <1>18, <2>1, ClientPut DEF ClientCreates
  <2>3. present
    BY <1>18 DEF ClientCreates
  <2> QED BY <1>0, <1>18, <2>2, <2>3 DEF ClientCreates, ControlOK
<1>19. ASSUME NEW p \in Process, NEW k \in DOMAIN row, ClientEdits(p, k)
       PROVE  MintInv'
  <2>1. /\ DOMAIN row' = DOMAIN row /\ seq' = seq
        /\ \A j \in DOMAIN row : row'[j].kind = row[j].kind /\ row'[j].id = row[j].id
    <3>1. RowsOK
      BY DEF TypesInv
    <3>2. /\ DOMAIN row' = DOMAIN row
          /\ row'[k] = [kind |-> row[k].kind, id |-> row[k].id, edited |-> TRUE]
          /\ \A j \in DOMAIN row : j # k => row'[j] = row[j]
      BY <1>19, <3>1, EditRow
    <3>3. row'[k].kind = row[k].kind /\ row'[k].id = row[k].id
      BY <3>2
    <3> QED BY <1>19, <3>2, <3>3 DEF ClientEdits
  <2>2. (Counted => Counted') /\ (ClientIdsFree => ClientIdsFree')
    BY <2>1 DEF Counted, ClientIdsFree
  <2> QED BY <1>0, <1>19, <2>1, <2>2 DEF ClientEdits, ControlOK
<1>20. CASE UNCHANGED startupVars
  BY <1>0, <1>20 DEF startupVars, Counted, ClientIdsFree
<1> QED
  BY <1>1, <1>2, <1>3, <1>4, <1>5, <1>6, <1>7, <1>8, <1>9, <1>10, <1>11, <1>12,
     <1>13, <1>14, <1>15, <1>16, <1>17, <1>18, <1>19, <1>20 DEF StartupNext, Starting

-----------------------------------------------------------------------------
(* The theorems. *)

\* Whatever is started, raced and cut off, every variable keeps its type: the counters stay
\* naturals and every stored row has an id of its own kind that is not zero.
THEOREM StartupTypes == StartupSpec => []StartupTypeOK
<1>1. TypesInv => StartupTypeOK
  BY DEF TypesInv
<1>2. QED
  BY <1>1, InitTypes, TypesSteps, PTL DEF StartupSpec

\* However many processes create the file and wherever they die: who is past Open has the
\* whole schema at version 3; and who serves has the catalog and every key of the fixture,
\* unless a start is still at work on them or was cut off in them.
THEOREM OpenHasSchema == StartupSpec => []OpenIsWhole
<1>1. StartupInit => TypesInv /\ SchemaInv /\ WholeInv
  <2> SUFFICES ASSUME StartupInit
               PROVE  SchemaInv /\ WholeInv
    BY InitTypes
  <2>1. version = 0 /\ \A p \in Process : pc[p] = "down" /\ ~loaded[p]
    BY DEF StartupInit
  <2>2. ControlOK
    BY DEF StartupInit, ControlOK, Labels
  <2>3. QED
    BY <2>1, <2>2 DEF SchemaInv, WholeInv
<1>2. SchemaInv /\ WholeInv => OpenIsWhole
  BY DEF SchemaInv, WholeInv, OpenIsWhole
<1>3. QED
  BY <1>1, <1>2, TypesSteps, SchemaSteps, WholeSteps, PTL DEF StartupSpec

\* A whole catalog is never taken apart by a second creator.
THEOREM CatalogNeverRegresses == StartupSpec => CatalogStays
<1>1. StartupInit => CreatorInv
  BY DEF StartupInit, CreatorInv, ControlOK, Labels, Creating
<1>2. CreatorInv /\ [StartupNext]_startupVars => [installed = "all" => installed' = "all"]_startupVars
  <2> SUFFICES ASSUME CreatorInv, [StartupNext]_startupVars, installed = "all"
               PROVE  installed' = "all"
    OBVIOUS
  <2>1. \A p \in Process : pc[p] \notin {"catalog", "fields", "sprint"}
    BY DEF CreatorInv, Creating
  <2>2. QED
    BY <2>1 DEF StartupNext, Starting, startupVars, file, Goto, Begin, OpenStore, CreateFile, CreateTable,
       CreateRest, StampVersion, OpenBlobsFails, InstallCatalog, InstallFields,
       InstallSprintField, Inspect, Reopen, Seed, ApplyRow, ApplyFails, FloorSeqs, Stop,
       ClientCreates, ClientEdits
<1>3. QED
  BY <1>1, <1>2, CreatorSteps, PTL DEF StartupSpec, CatalogStays

\* No later start puts a fixture over a write that was acknowledged while no process
\* was starting.
THEOREM FixtureNeverOverwrites == StartupSpec => []AckedSurvives
<1>1. StartupInit => SeedInv
  BY DEF StartupInit, SeedInv, ControlOK, Labels, RowsOK, AckedSurvives
<1>2. SeedInv => AckedSurvives
  BY DEF SeedInv
<1>3. QED
  BY <1>1, <1>2, SeedSteps, PTL DEF StartupSpec

\* As long as processes start one at a time, a row that a client creates has an id that no
\* row of its kind has, wherever the starts before it were cut off.
THEOREM ClientsMintFreeIds == StartupSpec => []MintedIdsFree
<1>1. StartupInit => MintInv
  <2> SUFFICES ASSUME StartupInit
               PROVE  MintInv
    OBVIOUS
  <2>1. TypesInv
    BY InitTypes
  <2>2. DOMAIN row = {} /\ \A p \in Process : pc[p] = "down"
    BY DEF StartupInit
  <2> QED BY <2>1, <2>2 DEF MintInv, StartingUp, ClientIdsFree
<1>2. MintInv => MintedIdsFree
  BY DEF MintInv, MintedIdsFree, ClientIdsFree
<1>3. QED
  BY <1>1, <1>2, MintSteps, PTL DEF StartupSpec
=============================================================================
