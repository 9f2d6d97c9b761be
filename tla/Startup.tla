-------------------------------- MODULE Startup --------------------------------
(***************************************************************************)
(* How a persist file comes to be and is opened again: NewEmbedded in      *)
(* src/embedded.go over openStore in internal/store/store.go, with the id  *)
(* counters of internal/store/sqlite.go.  Every statement commits alone,   *)
(* and any process may die between two of them.  Several processes may     *)
(* start on the same path.                                                 *)
(*                                                                         *)
(* A row is an issue, a comment or a project; its id is the number in the  *)
(* band of its kind (10000 + id, 90000 + id, ...).  The file's version 1   *)
(* and 2 are the subject of Migrate.                                       *)
(***************************************************************************)
EXTENDS Integers, FiniteSets, Sequences, FiniteSetsExt

CONSTANTS
  Process,      \* processes that embed issuetap on the same path
  Fixture,      \* rows of the fixture: sequence of [key, kind, id], id 0 if it has none;
                \* no page comments, which Apply appends and never replaces;
                \* empty if no fixture is configured
  ClientKey,    \* keys of the rows clients may create
  Kind,         \* kinds of rows
  MaxCrashes    \* bound: processes that die

FixtureKey == { Fixture[i].key : i \in DOMAIN Fixture }

ASSUME StartupAssumption ==
  /\ Kind \subseteq {"issue", "issueComment", "pageComment", "project"}
  /\ Fixture \in Seq([key : FixtureKey, kind : Kind \ {"pageComment"}, id : Nat])
  /\ FixtureKey \cap ClientKey = {}
  /\ MaxCrashes \in Nat

\* Issue comments and page comments have bands of their own and one counter.
CounterOf(kind) == IF kind \in {"issueComment", "pageComment"} THEN "comment" ELSE kind
Counter == { CounterOf(kind) : kind \in Kind }

\* The kinds whose ids seedSeqsLocked looks at; it does not look at projects.
Floored == Kind \ {"project"}

VARIABLES
  present,    \* there is a file at the path
  tables,     \* how far the schema is: none, up to the issues table, all
  version,    \* PRAGMA user_version
  installed,  \* how far installDefaultCatalog is
  sprintRow,  \* the field row of the Sprint field is there
  row,        \* the stored rows by key
  seq,        \* the seq:* counters of store_meta
  pc,         \* where each process is
  loaded,     \* what each process's own stat said: the file is the graph
  todo,       \* fixture rows each process has still to put
  crashes,    \* processes that died so far
  acked,      \* observation: keys with a write acknowledged while nobody started up
  overlapped, \* observation: two processes have been starting up at once
  cut         \* observation: what starts that died or failed left undone in a stamped file

file == <<present, tables, version, installed, sprintRow>>
graph == <<row, seq>>
observed == <<acked, overlapped, cut>>
startupVars == <<file, graph, pc, loaded, todo, crashes, observed>>

Labels == {"down", "open", "create", "schema", "tables", "stamp", "catalog", "fields",
           "sprint", "inspect", "reopen", "seed", "apply", "floor", "serving", "failed"}
\* The one type invariant.
StartupTypeOK ==
  /\ present \in BOOLEAN /\ sprintRow \in BOOLEAN
  /\ tables \in {"none", "some", "all"} /\ installed \in {"none", "some", "all"}
  /\ version \in {0, 3}
  /\ DOMAIN row \subseteq FixtureKey \cup ClientKey
  /\ \A k \in DOMAIN row : row[k] \in [kind : Kind, id : Nat \ {0}, edited : BOOLEAN]
  /\ seq \in [Counter -> Nat]
  /\ pc \in [Process -> Labels]
  /\ loaded \in [Process -> BOOLEAN]
  /\ todo \in [Process -> 0..Len(Fixture)]
  /\ crashes \in 0..MaxCrashes
  /\ acked \subseteq DOMAIN row /\ overlapped \in BOOLEAN
  /\ cut \subseteq {"catalog", "fixture"}

StartupInit ==
  /\ present = FALSE /\ tables = "none" /\ version = 0
  /\ installed = "none" /\ sprintRow = FALSE
  /\ row = [k \in {} |-> {}]
  /\ seq = [c \in Counter |-> 0]
  /\ pc = [p \in Process |-> "down"]
  /\ loaded = [p \in Process |-> FALSE]
  /\ todo = [p \in Process |-> 0]
  /\ crashes = 0
  /\ acked = {} /\ overlapped = FALSE /\ cut = {}

-----------------------------------------------------------------------------
Goto(p, from, to) == pc[p] = from /\ pc' = [pc EXCEPT ![p] = to]
Quiet == \A p \in Process : pc[p] \in {"down", "serving", "failed"}

\* Who has still to finish the default catalog of the file, and its fixture.
Installing(p) == pc[p] \in {"catalog", "fields", "sprint"}
Seeding(p) == ~loaded[p] /\ (Installing(p) \/ pc[p] \in {"seed", "apply"})

\* What stays undone if the start of p ends here.
Undone(p) ==
  {part \in {"catalog", "fixture"} :
     \/ part = "catalog" /\ Installing(p)
     \/ part = "fixture" /\ Seeding(p)}

MutStatsAfterOpen(p) ==
  /\ Goto(p, "down", "open")
  /\ loaded' = [loaded EXCEPT ![p] = TRUE]
  /\ overlapped' = (overlapped \/ ~Quiet)
  /\ UNCHANGED <<file, graph, todo, crashes, acked, cut>>

MutStatsNothing(p) ==
  /\ Goto(p, "down", "open")
  /\ loaded' = [loaded EXCEPT ![p] = FALSE]
  /\ overlapped' = (overlapped \/ ~Quiet)
  /\ UNCHANGED <<file, graph, todo, crashes, acked, cut>>

\* NewEmbedded: the stat that decides whether the fixture is for this start.
Begin(p) ==
  /\ Goto(p, "down", "open")
  /\ loaded' = [loaded EXCEPT ![p] = present]
  /\ overlapped' = (overlapped \/ ~Quiet)
  /\ UNCHANGED <<file, graph, todo, crashes, acked, cut>>

\* openStore: a stat of its own.
OpenStore(p) ==
  /\ Goto(p, "open", IF present THEN "inspect" ELSE "create")
  /\ UNCHANGED <<file, graph, loaded, todo, crashes, observed>>

(* createFileDB and installDefaultCatalog. *)

\* Ping: the file appears.
CreateFile(p) ==
  /\ Goto(p, "create", "schema")
  /\ present' = TRUE
  /\ UNCHANGED <<tables, version, installed, sprintRow, graph, loaded, todo, crashes, observed>>

MutCreateIfNotExists(p) ==
  /\ Goto(p, "schema", "tables")
  /\ tables' = IF tables = "none" THEN "some" ELSE tables
  /\ UNCHANGED <<present, version, installed, sprintRow, graph, loaded, todo, crashes, observed>>

MutStampFirst(p) ==
  /\ Goto(p, "schema", IF tables = "none" THEN "tables" ELSE "failed")
  /\ IF tables = "none" THEN tables' = "some" /\ version' = 3
                        ELSE UNCHANGED <<tables, version>>
  /\ UNCHANGED <<present, installed, sprintRow, graph, loaded, todo, crashes, observed>>

\* The first CREATE TABLE fails for whoever comes second.
CreateTable(p) ==
  /\ Goto(p, "schema", IF tables = "none" THEN "tables" ELSE "failed")
  /\ tables' = IF tables = "none" THEN "some" ELSE tables
  /\ UNCHANGED <<present, version, installed, sprintRow, graph, loaded, todo, crashes, observed>>

CreateRest(p) ==
  /\ Goto(p, "tables", "stamp")
  /\ tables' = "all"
  /\ UNCHANGED <<present, version, installed, sprintRow, graph, loaded, todo, crashes, observed>>

StampVersion(p) ==
  /\ Goto(p, "stamp", "catalog")
  /\ version' = 3
  /\ UNCHANGED <<present, tables, installed, sprintRow, graph, loaded, todo, crashes, observed>>

\* openBlobs: the attachment directory cannot be made, and Open ends with an error.
OpenBlobsFails(p) ==
  /\ Goto(p, "catalog", "failed") \/ Goto(p, "reopen", "failed")
  /\ cut' = cut \cup Undone(p)
  /\ UNCHANGED <<file, graph, loaded, todo, crashes, acked, overlapped>>

\* Statuses, priorities, types and resolutions.
InstallCatalog(p) ==
  /\ Goto(p, "catalog", "fields")
  /\ installed' = "some"
  /\ UNCHANGED <<present, tables, version, sprintRow, graph, loaded, todo, crashes, observed>>

\* replaceFieldsLocked: all fields go and all but the last come again.
InstallFields(p) ==
  /\ Goto(p, "fields", "sprint")
  /\ sprintRow' = FALSE
  /\ installed' = "some"
  /\ UNCHANGED <<present, tables, version, graph, loaded, todo, crashes, observed>>

\* The last field, a plain INSERT: it panics if another process has put it by now.
InstallSprintField(p) ==
  /\ Goto(p, "sprint", IF sprintRow THEN "failed" ELSE "seed")
  /\ sprintRow' = TRUE
  /\ installed' = IF sprintRow THEN installed ELSE "all"
  /\ cut' = IF sprintRow THEN cut \cup Undone(p) ELSE cut
  /\ UNCHANGED <<present, tables, version, graph, loaded, todo, crashes, acked, overlapped>>

(* openExistingFileDB and what openStore does after it. *)

\* An unstamped file cannot be migrated, and one without issues is foreign.
Inspect(p) ==
  /\ Goto(p, "inspect", IF version = 3 /\ tables # "none" THEN "reopen" ELSE "failed")
  /\ UNCHANGED <<file, graph, loaded, todo, crashes, observed>>

\* The highest id stored under a counter, in the kinds that are looked at.
Highest(c) ==
  Max({0} \cup { row[k].id : k \in { j \in DOMAIN row :
                   row[j].kind \in Floored /\ CounterOf(row[j].kind) = c } })

\* seedSeqsLocked: floorSeqLocked raises each counter and lowers none.
Raised == [c \in Counter |-> Max({seq[c], Highest(c)})]

MutReopenUnfloored(p) ==
  /\ Goto(p, "reopen", "seed")
  /\ sprintRow' = TRUE
  /\ UNCHANGED <<present, tables, version, installed, graph, loaded, todo, crashes, observed>>

\* ensureSprintFieldLocked and seedSeqsLocked.
Reopen(p) ==
  /\ Goto(p, "reopen", "seed")
  /\ sprintRow' = TRUE
  /\ seq' = Raised
  /\ UNCHANGED <<present, tables, version, installed, row, loaded, todo, crashes, observed>>

(* The fixture. *)

\* The file is the graph or there is no fixture; or it cannot be read, or it is applied.
Seed(p) ==
  /\ \/ /\ loaded[p] \/ Fixture = <<>>
        /\ Goto(p, "seed", "serving") /\ UNCHANGED <<todo, cut>>
     \/ /\ ~loaded[p] /\ Fixture # <<>>
        /\ \/ /\ Goto(p, "seed", "failed") /\ UNCHANGED todo
              /\ cut' = cut \cup Undone(p)
           \/ /\ Goto(p, "seed", "apply") /\ UNCHANGED cut
              /\ todo' = [todo EXCEPT ![p] = 1]
  /\ UNCHANGED <<file, graph, loaded, crashes, acked, overlapped>>

MutMintedZero(c) == seq[c]

\* nextSeqLocked
NextSeq(c) == seq[c] + 1

\* INSERT OR REPLACE of one row; a row without an id gets the next one.  The mint is
\* a statement before the row's own; only a skipped number can come between them.
Put(k, kind, id, edited) ==
  LET c == CounterOf(kind)
      new == [kind |-> kind, id |-> IF id = 0 THEN NextSeq(c) ELSE id, edited |-> edited]
  IN
  /\ row' = [j \in DOMAIN row \cup {k} |-> IF j = k THEN new ELSE row[j]]
  /\ seq' = IF id = 0 THEN [seq EXCEPT ![c] = NextSeq(c)] ELSE seq

\* Apply, one row of the fixture after the other.
ApplyRow(p) ==
  /\ pc[p] = "apply" /\ todo[p] \in DOMAIN Fixture
  /\ LET f == Fixture[todo[p]] IN Put(f.key, f.kind, f.id, FALSE)
  /\ todo' = [todo EXCEPT ![p] = IF @ = Len(Fixture) THEN 0 ELSE @ + 1]
  /\ pc' = [pc EXCEPT ![p] = IF todo[p] = Len(Fixture) THEN "floor" ELSE "apply"]
  /\ UNCHANGED <<file, loaded, crashes, observed>>

\* A row that cannot be put ends Apply; the rows before it stay.
ApplyFails(p) ==
  /\ Goto(p, "apply", "failed")
  /\ todo' = [todo EXCEPT ![p] = 0]
  /\ cut' = cut \cup Undone(p)
  /\ UNCHANGED <<file, graph, loaded, crashes, acked, overlapped>>

\* The end of Apply.
FloorSeqs(p) ==
  /\ Goto(p, "floor", "serving")
  /\ seq' = Raised
  /\ UNCHANGED <<file, row, loaded, todo, crashes, observed>>

(* Clients of a process that serves, and its end. *)

ClientCreates(p, k, kind) ==
  /\ pc[p] = "serving" /\ k \notin DOMAIN row
  /\ Put(k, kind, 0, TRUE)
  /\ acked' = IF Quiet THEN acked \cup {k} ELSE acked
  /\ UNCHANGED <<file, pc, loaded, todo, crashes, overlapped, cut>>

ClientEdits(p, k) ==
  /\ pc[p] = "serving" /\ k \in DOMAIN row
  /\ row' = [row EXCEPT ![k].edited = TRUE]
  /\ acked' = IF Quiet THEN acked \cup {k} ELSE acked
  /\ UNCHANGED <<file, seq, pc, loaded, todo, crashes, overlapped, cut>>

\* A process dies, or is stopped; each of its statements is in the file already.
Stop(p) ==
  /\ pc[p] # "down"
  /\ pc[p] \notin {"serving", "failed"} => crashes < MaxCrashes
  /\ crashes' = IF pc[p] \in {"serving", "failed"} THEN crashes ELSE crashes + 1
  /\ pc' = [pc EXCEPT ![p] = "down"]
  /\ todo' = [todo EXCEPT ![p] = 0]
  /\ cut' = cut \cup Undone(p)
  /\ UNCHANGED <<file, graph, loaded, acked, overlapped>>

Starting(p) ==
  \/ OpenStore(p) \/ CreateFile(p) \/ CreateTable(p) \/ CreateRest(p) \/ StampVersion(p)
  \/ InstallCatalog(p) \/ InstallFields(p) \/ InstallSprintField(p)
  \/ OpenBlobsFails(p) \/ Inspect(p) \/ Reopen(p)
  \/ Seed(p) \/ ApplyRow(p) \/ ApplyFails(p) \/ FloorSeqs(p)

StartupNext ==
  \/ \E p \in Process : Begin(p) \/ Starting(p) \/ Stop(p)
  \/ \E p \in Process, k \in ClientKey, kind \in Kind : ClientCreates(p, k, kind)
  \/ \E p \in Process, k \in DOMAIN row : ClientEdits(p, k)

StartupSpec == StartupInit /\ [][StartupNext]_startupVars

-----------------------------------------------------------------------------
(* Properties.                                                             *)

\* Of processes that create the file at once one gets past the first CREATE TABLE,
\* so nobody deletes the fields of a catalog that is in use.
CatalogStays == [][installed = "all" => installed' = "all"]_startupVars

\* Who is past Open has the whole schema, whenever its creator died.  Who serves
\* has the default catalog and a row for every key of the fixture as well, unless a
\* start is still at work on them or was cut off in them: no other order of starts,
\* losing creators and refused files leads to a graph that is not whole.
OpenIsWhole ==
  /\ \A p \in Process :
       pc[p] \in {"reopen", "seed", "apply", "floor", "serving"} => tables = "all" /\ version = 3
  /\ (\E p \in Process : pc[p] = "serving") =>
       /\ installed = "all" \/ "catalog" \in cut \/ \E q \in Process : Installing(q)
       /\ FixtureKey \subseteq DOMAIN row \/ "fixture" \in cut \/ \E q \in Process : Seeding(q)

\* What an Open finds is the graph: New returns a store with default catalogs (the
\* comment on New), and an existing file is a later state of the fixture the run
\* started from (the comment on EmbeddedConfig).  It fails when the first start is cut
\* off before its last catalog row or its last fixture row: the next one finds a file
\* of version 3 and installs and applies nothing.
ServedIsWhole ==
  (\E p \in Process : pc[p] = "serving") /\ ~overlapped =>
    installed = "all" /\ FixtureKey \subseteq DOMAIN row

\* A write acknowledged while no process was starting is never undone by a fixture:
\* each later start sees that there is a file.
AckedSurvives == \A k \in acked : row[k].edited

\* If processes start one at a time, a row a client creates has an id that no row
\* of its kind has, came that from the fixture, from before a crash between the
\* fixture's rows and its floors, or from another process that serves the file.
\* Projects have no floor and are left out.
MintedIdsFree ==
  ~overlapped =>
    \A k \in DOMAIN row \cap ClientKey, j \in DOMAIN row :
      (j # k /\ row[j].kind = row[k].kind /\ row[j].kind \in Floored) => row[j].id # row[k].id
=============================================================================
