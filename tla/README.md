# TLA+ models of issuetap

TLA+ modules, TLC runs and TLAPS proofs about issuetap, the Jira and Confluence
lab server of this repository. Every action is translated from the Go source;
`PROJECT.json` maps each definition to the lines it stands for, lists the runs,
the mutants that show each property can fail, the hazards and the theorems.

Paths below are relative to `src/internal/` unless they start with `src/`.

## The system

One process is an `http.Handler` over one `store.Store`. The store's working copy
is an SQLite database, in memory or a file (`PersistPath`); every row is a key and
a JSON blob. There is one mutex (`Store.mu`), held from the first to the last line
of every exported method, and one database connection per process. Each SQL
statement commits by itself; only `MergeStatus` and the migrations open a
transaction. The file may be open in several processes at once (GDK-1180), each
with a mutex and a deterministic clock of its own.

    client -> api.wrap: faults.Engine, trace.Log -> api handlers -> store.Store -> SQLite file
                                                                  -> blob directory
    embedder / CLI -> NewEmbedded: stat, store.Open (migrate), fixture Apply

| Component | State | Operations | What is hard | What makes it correct |
|---|---|---|---|---|
| Issue workflow (`store/store.go`, `api/jira.go`) | issue rows: status, resolution, assignee, changelog, `updated` | CreateIssue, ApplyTransition, SetAssignee, UpdateIssue, Claim, WriteComment | transition ids are positions in a list that moves; claims of several agents; one call writes several changelog groups | the changelog replays; resolved exactly when done; one working claim at a time (a claim that names a transition may leave it, `MCTwoClaims`); every write moves `updated` |
| Status catalog (`store/store.go`) | statuses, transition screens | installDefaultCatalog, Apply, MergeStatus | references to a status in three places | a merge leaves no reference behind (a later create may make one, `MCStrays`) |
| Agile (`store/agile.go`) | boards, sprints, sprint list of each issue | Boards, CreateSprint, UpdateSprint, MoveIssuesToSprint, MoveIssuesToBacklog | a close and a move write many rows, one commit each; a crash leaves a prefix | sprint states only advance; no unfinished issue in a sprint as it closes; Sprint changelog rows replay |
| Migrations (`store/migrate.go`) | `user_version`, attachment rows, blob references, files, backup | migrateV1toV2, migrateV2toV3 | racing openers, an older build still writing, crashes | no attachment lost; the backup is a version 1 file; open means migrated |
| Concurrency on one file (`store/store.go`, `store/sqlite.go`) | `mu` of each process, the row a handler has decoded, `seq:` counters | every read-modify-write handler | statements of other processes in between | an acknowledged write lasts; ids are minted once; no lock is left behind |
| Id sequences (`nextSeqLocked`, `seedSeqsLocked`) | `seq:` rows | mint, floor at Open | bands that share a number range, old files without counters | no id minted twice, across restarts |
| Clock (`clock/clock.go`, `seedClockLocked`) | the current instant, in memory | Tick, Jump at Open and Apply | lost in a restart, one per process | new stamps after stored ones |
| Creation and Open (`openStore`, `createFileDB`) | the file, its version, its default catalog | Open, create | creation is several statements | who gets past Open has the whole schema; a stamped file opens again (an unstamped one is refused for ever, and a stamped one may lack its catalog, `MCHalfSeeded`) |
| Embedded lifecycle (`src/embedded.go`) | whether a file was there | NewEmbedded, LoadFixture, Close | seeding is decided before the file is created | no fixture goes over acknowledged writes; a graph lacks its fixture only after a start that was cut off in it (the next one serves it as it is, `MCHalfSeeded`) |
| Blobs (`store/blobs.go`) | content-addressed files, tmp files | stage, commit, load, tmp sweep | lock released for the transfer; durability of directories | a row never refers to a missing file (but for two uploads in a new bucket, `MCBucketRace`) |
| Pages (`store/store.go`, `api/confluence.go`) | page rows with versions | CreatePage, UpdatePage, AddPageComment | optimistic versions and retries | versions are consecutive, none lost |
| Links (`AddIssueLink`, `UpsertRemoteLink`, dev links) | two projections in two rows; lists in one row | add, delete, upsert | two writes for one link | projections agree; upserts do not repeat |
| Search (`jql`, `cql`, `postSearchJQL`, `legacySearch`) | none; page tokens are offsets | Search, Count | a hand-written parser; the result moves between two pages | an answer is what the text means; a walk misses no issue nobody wrote |
| Fixtures and snapshot (`Apply`, `Snapshot`) | a document | write out, upsert | values one leaves out and the other defaults | a graph comes back from its document |
| Faults (`faults/faults.go`) | `seen`, `applied` of each fault | Apply, Reset, Replace | several faults match one request | After and Times hold for each fault |
| Trace (`api/trace.go`) | a ring of entries | add, list | the bound; numbering at the end of a request | ids ascend, the newest are kept |
| Metadata, actors, locale, dialect, ADF, rendering, routing, admin, scenarios, diagnostics, CLI, dashboard | none or configuration | pure functions, thin calls | wording and layout | the repository's own tests |

## Modules

**`Workflow`** is the core: one action per handler, because a handler holds `mu`
throughout and writes its issue row in one statement.

| Module | Code |
|---|---|
| `catalog`, `screens` | tables `statuses` and `transition_screens` |
| `issues[k].status/assignee/resolution/updated/history` | the row of issue `k`; one history row is one changelog item |
| `summary` | any plain field of UpdateIssue: all of them take the same path through `changeSnapshotLocked` |
| `clock` | ticks of `s.clk` |
| `ApplyTransition(k, id, res)` | `applyTransitionLocked`: position `id` in `destinationIDsLocked`, screen checks, tick, resolution, changelog |
| `ListTransitions`, `PostListed` | GET /transitions by a client that posts the id later |
| `ClaimHeld`, `ClaimFresh` | `Claim` on an issue in progress, or not |
| `MergeStatus` | its transaction, after its refusals |
| `EvictShadowedStatuses` | `evictShadowedStatusesLocked`: a default status a fixture has taken out by its name |
| `listing` | what a client remembers of its last listing |
| `granted`, `strays` | observations: the 200s of Claim, not revoked since, and whether each said that the issue is in progress (`working`); issues filed while the initial status was not in the catalog |

A grant ends when a transition takes the issue out of progress, when the issue is given
to somebody else, and when it is taken over. A claim with an explicit `transitionId`
goes to any destination, as in the code, and `CreateIssue` writes the initial status
whether the catalog has it or not. A refused request changes nothing and is no step.
Screen fields other than the resolution, comments and every other column are left out.

**`SprintBoard`** is what the Agile API promises, in three variables and six
actions; **`Sprints`** is how `agile.go` does it. A handler reads all its rows first
(`Resolved`, kept in `op.todo`), then its loop goes over them: `SkipNext` passes a row
by, `WriteNext` writes one, and `ServerDies` may come between any two turns. A key named
twice in a request is two copies of one row. `Open` seeds the clock from the rows as
`seedClockLocked` does. `Sprints` is shown to implement `SprintBoard` under the
refinement mapping `Board`. An issue key is its rank, `1..Issues` (`Rank`). `Databases` are the
files the first process may find; the theorems assume them sound, which a fixture that
puts issues into sprints without a changelog is not. Names, goals, dates and boards
are left out; a plain patch of them changes nothing the module keeps.

**`Migrate`** opens a version 1 file. Each statement or file operation that another
process could see is a step; the BEGIN IMMEDIATE transaction is one step, since
SQLite serializes and rolls it back. A failed Open is the label `failed`. The
attachment's bytes are its id. `OldBuildUploads` is the one external action: a
build from before version 2 that inserts a row of bytes.

**`SharedStore`** takes the handlers apart: lock, read, mint, (read keys,) write,
reply, with threads in one process or two (`home`, chosen in `Init`). It keeps of a
row its id, its holder and the marks (comments, changelog entries) put on it.
`AddComment`, `Claim` and `CreateIssue` stand for all handlers. `Abort` is a failed
statement: the helper panics and the deferred unlock runs.

**`Startup`** is how a persist file comes to be: `NewEmbedded` over `openStore`, in
any number of processes, one step per statement that another process could see.
`pc` is the place in the code. Whoever runs the first CREATE TABLE second fails, so
one creator installs the catalog. `NewEmbedded` and `openStore` stat the file each
for itself (`Begin`, `OpenStore`), and only the first stat decides about the
fixture; with no fixture configured (`Fixture = <<>>`) a start serves at once. A row is
an issue, a comment or a project with the number its id has in its band; `Put` mints one where the fixture has none, `Raised` is `seedSeqsLocked`.
A failed Open is the label `failed`. `acked` and `overlapped` observe: which keys
were acknowledged while nobody was starting, and whether two processes ever started
at once. `cut` observes what a start that failed or died left undone in a stamped file,
its catalog or its fixture (`Undone`). `overlapped` guards `MintedIdsFree`: a process that has already raised the
counters when another, still applying its fixture, dies can mint an id that the
dead one's rows have. Page comments of a fixture are left out, because a second
Apply appends them and replaces no row. `cmd/issuetap/main.go` starts the same way.

**`IssueGraph`** is what ties issues together and to the outside. A parent is judged
by the levels of two types (`ParentFits` is `resolveParentLocked`, which reads the
parent from its stored row). A link is two projections: `AddIssueLink` and
`DeleteIssueLink` put the first row, `SecondPut` the other, and `CutOff` is a process
that dies between them. Remote links are upserted by `globalId`, pull requests,
deployments and builds by url or name (`DevID`), with the merge that keeps what a
later report does not know. `wanted`, `cut` and `judged` observe: the links whose last
answered request made them, those whose last request died half way, and the types a
parent was judged by.

**`VersionedPage`** is what optimistic versions promise: the history of a page grows
by one edit at a time, each made on the one before it, none twice. **`Pages`** is
`CreatePage` and `UpdatePage` with editors that read a page, send an update, send it
again when no answer comes, and give up; requests wait, overtake one another or never
arrive (`wire`). The text of a page is the edit that wrote it. `Pages` implements
`VersionedPage`.

**`Attachments`** is an upload to a file-backed store: a temporary file, its copy and
sync without the store's lock, the stat and the making of the bucket, the sync of the
root, the rename, the sync of the bucket, and under the lock the two rows. A directory
entry is durable once its directory has been synced, the root's own from the start
(`newDirBlobs` makes it without a sync of its parent, and a power loss that takes the
whole root is left out); `PowerLoss` keeps what is durable
and any part of the rest, `ProcessDies` ends the uploads of one process, `Sweep` is
`newDirBlobs` of another. `trusted` observes uploads that found a bucket which was not
durable yet.

**`Snapshot`** is `Snapshot` and `Apply` as functions between a graph and a document,
with the requests that change the graph in between: what the document leaves out, what
`Apply` mints, defaults or synthesizes, and where the counters and the clock stand
afterwards. `Document` is what a document may say, `Put` is what `Apply` does with one of
its entries, `Applied` the graph after each of them. A field that both merely copy is
represented by the stamp.

**`Gateway`** is what every request passes: the fault engine decides on arrival
(`Apply`: the counters of the matching faults up to the one that fires), a delayed
request may be given up, the handler runs or the fault answers in its place, and the
trace takes an entry at the end. `Reset` and `Replace` are the admin API. `decided`
observes every decision since the counters were zeroed; `OpenTo(i)` are its requests
that matched fault `i` and that no fault before `i` took, and `FaultWindow` says that
`i` fired on those of them whose place its After and Times name.

**`Answers`** is the order of `jql/jql.go` and the answer in it, for any condition and any
precision of the stamps; **`Jql`** is the parser over tokens and the matcher;
**`JqlGrammar`** is what the same texts mean by the grammar, with no parser in it: the
set of truth values a text denotes for an issue, empty for a text that is no query.
Letter case is left out, and fields that go the way of another one.

**`Search`** composes `Gateway` and `Answers`, for any parser (`ParseJQL`) and any matcher
(`Satisfies`); `MCSearch` gives it those of `Jql`. A client walks page by page through an answer that is
computed afresh for every page, its requests and those of writers pass `Gateway`, and
it asks again for a page it did not get whole. `PostSearchJQL` is the search of the
cloud dialect, `LegacySearch` the one with `startAt` and the drift fault. `current`,
`base`, `touched`, `left` and `drifted` observe: the answer as it would be given now,
what it was at first, who has been written since, whether an issue has left it, and
whether a page was asked under the drift fault.

**`PagedWalk`** is why such a walk can be trusted: a list in which nothing that was
before an untouched item comes to be behind it, and pages that hold what comes next in
the list of their own moment and say truly where they end. `Search` implements it
(`ImplementsWalk`); what breaks the promise - an issue that left, the drift fault, an
order with the oldest first - is `spoilt`.

**`Lists`** has three operators without recursion that others are written with: the
place of a number in a set, the entries of a list at given places, a table with one
more row. **`FiniteNats`** has lemmas about finite sets of numbers and about lists.

Three modules put several of these beside each other for a run, which share no state
but the file and the lock: `MCServe` (`Startup`, `Workflow`), `MCCommits` (`Migrate`,
`SharedStore`) and `MCContent` (`IssueGraph`, `Sprints`, `Pages`, `Attachments`,
`Snapshot`). A behaviour exercises one `part` and leaves the others as they are, so
nothing is checked of two parts at once. `MCStartup`, `MCWorkflow`, `MCMigrate`,
`MCSharedStore` and `MCSprints` give the constants of one module their values.

An operator `Mut...` is a plausible bug in the definition below it, used by the
mutants of `PROJECT.json`; nothing else refers to it.

## Runs

| Run | What it shows | Bounds |
|---|---|---|
| `MCServe`, starts | `StartupTypeOK`, `OpenIsWhole`, `AckedSurvives`, `MintedIdsFree`, `CatalogStays` hold | two processes, a fixture of two comments (one with an id, one without), two client rows of any kind, `MaxCrashes = 2`; symmetric in processes and client keys |
| `MCServe`, workflow | `TypeOK`, `ChangelogReplays`, `ResolvedIffDone`, `ClaimExclusive`, `NoDanglingStatus`, `WritesMoveUpdated`, `ListedIdLands` hold | two issues, two actors, two summaries, six statuses, two of each category (one done one with a required resolution), `MaxClock = 4` ticks, and one tick less with the initial status evicted by a fixture; symmetric in issues and summaries |
| `MCTwoClaims` | **violated**: `ExactlyOneWins` by claims that name a transition | as the workflow above |
| `MCStrays` | **violated**: `NoIssueAtDeleted` by a create after a merge of the initial status | as the workflow above, nothing evicted |
| `MCHalfSeeded` | **violated**: `ServedIsWhole` after a start cut off before its catalog, and so before its fixture | as the starts above |
| `MCCommits`, migration | `MigrateTypeOK`, `BytesReachable`, `BackupRollsBack`, `OpenIsMigrated`, `NeverDestroyed` and `OpenEnds` hold | two openers, one stored attachment, two later ones, `MaxCrashes = 2` |
| `MCCommits`, requests | `DurableWithinProcess`, `IdsMintedOnce`, `RequestsEnd` hold | two threads in one process or two, `MaxRequests = 4` |
| `MCMigrateBoth` | **violated**: `BothOpen` | as the migration above |
| `MCTwoProcesses` | **violated**: `AckIsDurable` when the threads are in two processes | as the requests above |
| `MCSearch` | `TypeOK`, `FaultWindow`, `TraceIsNewest`, `AnswerMeansText`, `NewestFirst`, `WalkEnds` and the refinement `ImplementsWalk` hold | walks over two or three issues a row at a time, in both dialects, four texts, no faults and two writes, or one of two lists of three faults and one write or one admin request; some 500 texts asked once, in pages of three; a trace of two entries |
| `MCWallOrder` | **violated**: `NewestFirst` when stamps have fractions of a second (`Digits = 2`, `Radix = 2`) | as above |
| `MCContent`, sprints | `SprintsTypeOK`, `SprintReplays`, `MemberOnce`, `StampsAdvance` and the refinement `ImplementsBoard` hold | two issues, two sprints, requests naming one key, both, or one twice; an empty board or one with a sprint under way; `MaxClock = 4`; any number of crashes |
| `MCContent`, other parts | `TypeOK`, `LinkSidesAgree`, `ParentsOnceFitted`, `FileOutlivesRow`, `RoundTrip`, `IdentityKept` and the refinement `ImplementsRegister` hold | three issues, types of three levels, `MaxWrites = 6`; two pages (one of a fixture, at version 3), two editors, three edits in all, each sent twice at most; two uploads in two processes of three contents, two of them in one bucket, one over the cap; `MaxSteps = 3` requests on an empty graph or an authored document (with ids, stamps and a changelog left out, and a page whose versions are in no order), which is then saved once and loaded any number of times |
| `MCSelfParent` | **violated**: `AcceptedParentFits` by an edit of type and parent at once | as above |
| `MCBucketRace` | **violated**: `RowHasFile` when two uploads meet in a new bucket | as above |

Why these are enough: a changelog chain breaks, a claim doubles or a status dangles
within three writes of one issue and one of the catalog; the second issue is there
so that a write of one cannot hide in the other. Two openers are every race of the
migration (a winner and a loser) and a second crash hits the retry of the first.
Two threads are every pair of handlers. Two starts are every race of a
creator with a creator or an opener, a crash of each leaves every prefix of creation
and of Apply to a third start. A walk with pages of one row meets a write before, on
and behind the place it has reached, and three faults are one that fires, one that is
hidden by it and one between; the texts are every pair of operators and parentheses of
the grammar over three predicates, every kind of predicate, and each of them broken
off or followed by what does not belong there. A link and its repair take four
requests, a chain of three levels three creates and two edits. Two editors of one page
are a winner and a loser, the third edit is a loser's retry. Two uploads of one bucket
are every order of its stat, its making and its sync. Three requests are one of each
kind that a document has to carry. Bounds are named constants in the guards of the
actions.

`ClaimExclusive`, `NoDanglingStatus` and `OpenIsWhole` hold without a restriction on
requests or crashes: they say what remains true beside the disagreements below. A claim that
leaves its issue out of progress gives a grant that is not `working`, and never takes
one away from whoever works; only an issue filed after the initial status had gone names a
status that is not there; a graph that is served without its catalog or a key of
its fixture is always the work of a start that was cut off in them, never of a racing
creator or of the order of two stats.

Deadlock checking is off in `MCCommits`, `MCSearch`, `MCContent` and the violation runs
of their modules, where an opener, a request, a walk or a bounded set of requests that
is finished need not begin another; in the other runs it is on.

### Disagreements the violation runs show

1. `MCMigrateBoth`: the loser of a migration race may fail on a row the winner has
   deleted, where `store/migrate_test.go:203` says both openers must end up working.
2. `MCTwoProcesses`: two processes that share a file write whole rows back and lose
   acknowledged writes of one another, where `store/store.go:187` says an ACK is durable.
3. `MCWallOrder`: rows are sorted by the text of their stamps, and RFC3339Nano drops
   zeros at the end of a fraction, so on a wall clock `12:00:00Z` sorts after
   `12:00:00.5Z`, where `jql/jql.go:428` says `updated desc`.
4. `MCSelfParent`: one edit that turns an epic into a story and names the epic as its
   parent passes, because the parent's level is read from the row as it was, where
   `src/docs/COMPATIBILITY.md:76` wants it one level above.
5. `MCTwoClaims`: a claim with an explicit `transitionId` to a to-do or done status is
   answered 200 and leaves the issue out of progress, so the next actor's claim is
   answered 200 too (`store/store.go:2990`), where 2956 says exactly one wins.
6. `MCStrays`: `CreateIssue` files into the literal `"10000"` (`store/store.go:3741`)
   after `MergeStatus`, or a fixture's status of the same name, has taken it out of the
   catalog, where the comment on `MergeStatus` (1791) speaks of never leaving issues at
   a deleted status.
7. `MCHalfSeeded`: the version is stamped before the default catalog is installed and
   before the fixture is read, and both are left to the start that found no file. If it
   dies in between, cannot make its blob directory or fails on its fixture, the next one
   serves what there is, without catalog or fixture or with part of them
   (`src/embedded.go:80`, `store/store.go:148`), where `src/embedded.go:27` calls the file
   a later state of the fixture and `store/store.go:97` speaks of default catalogs.
8. `MCBucketRace`: an upload that finds a bucket another one has made and not yet
   synced does not sync the root, so a power loss can take the bucket of a committed
   row, which `store/blobs.go:203` calls the one state the design refuses.

### Also seen

Met while reading the code, and left out of the runs, or kept out by an assumption, a
guard or a property that speaks of the rest:

- `seedClockLocked` looks at no sprint row (`store/store.go:571`): after a restart a
  sprint may be completed at or before its activation.
- `seedSeqsLocked` floors "every id sequence" (`store/store.go:488`) but those of
  projects and users (670): a fixture project with the authored id 10001 meets the id
  the first `CreateProject` mints. `Floored` leaves them out.
- `Apply` mints before the counters are past the document's own ids, so two issues of
  one document can share a history id. `MintedIdsFree` speaks of clients' rows.
- Two processes on one deterministic file keep a clock each; the stamps of one do not
  move the other's.
- Between the stat and the rename of the backup another opener may have put its own
  there; it is replaced, by a version 1 copy too (`BackupRollsBack` holds).
- `labels is EMPTY` matches no issue and `is not EMPTY` every one (`jql/jql.go:768`);
  `JqlGrammar!Has` says so for a field with a list of values. A query with an escaped
  quote is refused, with an ORDER BY or without (`Relexed`).
- `After` counts the matching requests that no earlier fault absorbed, where
  `faults/faults.go:19` says matching requests (`OpenTo` in `FaultWindow`).
- `nextPageToken` is an offset (`api/jira.go:487`), which `faults/faults.go:44` calls
  stable. `ImplementsWalk` says what survives (`PagedWalk!MissesNothing`): no issue that
  nobody wrote is lost as long as nothing leaves the answer and the order is not
  oldest-first; an issue may come twice.
- `LinkDevPR` without a status re-opens a merged pull request, since the default is put
  in before the merge with the old record (`store/store.go:1363`).
- A page may be made its own parent by an update.
- `Apply` on a live store appends the page comments of the document again, where
  `store/store.go:393` says it upserts.
- A snapshot loses the sprints of issues, replies to page comments, filters,
  resolutions and an attachment's emptiness (a placeholder comes back), and gains a
  history row for an issue without one and a homepage for a space without one;
  `src/embedded.go:161` says it round-trips. `RoundTrip` lists these and holds for the
  rest.

### Fairness

`Migrate!OpenersKeepGoing` lets every opener that can take a step take one: a running
process is not suspended for ever, and a crash is another action that is never
forced. `SharedStore!ThreadsKeepGoing` is the same for the goroutine of a request.
In `MCCommits` both hold; a part that is left at its beginning has no step due. Weak
fairness is enough at the mutex because requests are bounded there; Go's mutex
hands over to waiters in any case. `Search!Fairness` lets the walker ask, its delay
end, its handler answer and the answer reach it; nothing is assumed of writers and the
admin API. It ends the walk because every fault of the lists is limited (`times > 0`)
and resets and writes are bounded: a fault without a limit may refuse for ever, by
design. The other modules have safety properties only: their handlers and starts end
by themselves.

## Proofs

Each proof module extends its component and is checked for all values of the constants
that satisfy the component's assumption; `PersistProofs` is about `Migrate` and
`SharedStore`, and `ContentProofs` about the parts that `MCContent` puts beside each
other. `FiniteNats` has the lemmas they share. A set of naturals has a least element
(`LeastExists`), a finite one also a greatest (`GreatestExists`) and one at every place
(`PlaceExists`): these are inductions, done by taking a smallest counterexample (`WFMin`
of the library), since an induction theorem with an operator parameter cannot be
instantiated. From them follow what a greater element does to places (`PlacesGrow`), that
`Lists!Picked` keeps each of the places it is given once (`PickedEntries`), that the
first `n` entries of a list without repetitions are `n` (`FirstOnes`), and that the rows
of a finite set can be listed in any strict order of them (`InOrder`).

`WorkflowProofs`, from `WorkflowAssumption` (types, disjoint empty values, and one
fact of the default catalog: the initial status is not a done one):

| Theorem | Extra assumption | Argument |
|---|---|---|
| `TypeCorrect` | none | inductive by itself; a history row is built from typed values in every helper (`TransitionedIn`, `ChangedIn`, ...) |
| `ChangelogAlwaysReplays` | none | `IssueReplays` is inductive on one axis at a time: a row appended with the old value as `from` extends the chain (`ChainedAppend`), one on another axis does not touch it (`ChainedSkip`), and a merge substitutes one status in the whole chain and in its end |
| `ResolutionFollowsCategory` | none | needs that a merge keeps the category; `InitialStatus` is not done by assumption |
| `ClaimIsExclusive` | none | inductive with the types, one issue at a time (`GrantsRight`): while a working grant is there the issue is in progress and assigned, so another claim is a conflict, is by the same actor or takes over; and a fresh claim starts from an issue out of progress, where no working grant is left |
| `NothingDangles` | none | the merge rewrites every row that refers to the deleted status, every destination is taken from the catalog, and the initial status is gone for good once it is (`StraysLate`), so only issues filed after that name it |
| `DeltaReaderMissesNothing` | none | strengthened by "no row is stamped later than the clock": each action that writes a row ticks first (`StampSteps`) |
| `ListedIdAlwaysLands` | none | positions in a finite set of ids are one-to-one (`OneAtAPosition`), and a remembered listing keeps the position it was given (`ListingsOK`) |

Of `Migrate` (`PersistProofs`), for any number of openers, attachments and crashes, from types alone.
One inductive invariant, `MigrateInv`: the properties themselves and `Held`, what an
opener holds at each place of the migration.

| Theorem | What its property needs beside itself |
|---|---|
| `OpenTypes` | each copy is the one snapshot its opener took, so a rename leaves one backup |
| `MigrationLosesNothing`, `NoStepDestroys` | what an opener has staged is a file, so the rows it deletes have their bytes on disk |
| `BackupIsVersionOne` | a copy that passed the re-check is of version 1 and has every stored attachment, whatever the database has become since; past the rename a backup exists |
| `NobodyOpensEarly` | the version never falls, so a v2-to-v3 step starts at 2 or more and what is open stays at 3 |

The step is split by what it can disturb: `StepTypes` (types, and that version, files
and backup only grow), `HeldByActor` and `HeldByOthers`, and `StepBytes` and
`StepBackup` over the few actions that write the database or the disk
(`SharedWriters`).

`StartupProofs`, for any number of processes and crashes and any fixture, from
`StartupAssumption` (types, and keys of fixture and clients apart):

| Theorem | Inductive invariant |
|---|---|
| `StartupTypes` | `TypesInv`: types, and the rows are finitely many, so each counter has a highest id to be raised to (`HighestBounds`, `RaisedBounds`) |
| `OpenHasSchema` | `SchemaInv`: the version is stamped only over a whole schema, and a process past its creation or past `Inspect` has seen the stamp. `WholeInv`: who creates the file saw none, so has the fixture to apply; what it has put so far is stored; and while catalog or fixture is not complete in a stamped file somebody is at work on it or it is in `cut` |
| `CatalogNeverRegresses` | `CreatorInv`: at most one process is between its CREATE TABLE and the last field, and the catalog is not complete while it is |
| `FixtureNeverOverwrites` | `SeedInv`: a process that has still to apply its fixture stat'ed before the file was there, and nothing has been acknowledged since |
| `ClientsMintFreeIds` | `MintInv`: without overlapping starts there is one starter; one that found no file is alone and has put all rows there are (`FirstStart`), one that found a file raises the counters before it serves (`LaterStart`); where anybody serves, no row is beyond its counter (`Counted`) |

Of `SharedStore` (`PersistProofs`), for any number of processes, threads and requests:

| Theorem | Inductive invariant |
|---|---|
| `SharedStoreTypes` | `FormInv`: a handler past its first read has a decoded row to write back |
| `IdsGivenOnce` | `MintInv`: what a handler holds, what has been answered and what is stored are below the counter, and no two of them are one id |
| `AcksLastInOneProcess` | `LockInv` and `DurableInv`: the one between lock and reply is the holder of its process's mutex, so with one process the row it decoded is the row that is stored |

`SprintsProofs`, for any issues, sprints and requests, from `SprintsAssumption` and, for
the changelog, `DatabasesAssumption` (the first file is sound): one invariant,
`SprintsInv`. `TodoSound` says that the copies a handler has still to write are the rows
that are stored, or ones whose key has been written since and which lead to the same
sprint; `SweepReaches`, that what a closing sweep has not reached yet is in its copies.
From it follow `SprintsTypes`, `SprintLogReplays`, `ListedOnce`, `StampsAlwaysAdvance` and
`ImplementsTheBoard`, where every step of a handler maps to a step of the board or to a
stutter.

`ContentProofs`, from `IssueGraphAssumption` (the keys of a project are minted one by
one, and none of them or of the types is empty), `AttachmentsAssumption`,
`PagesAssumption` and `SnapshotAssumption`. Of the issue graph one invariant, `GraphInv`, which `MCContent`'s
instance satisfies:

| Theorem | What it needs of `GraphInv` |
|---|---|
| `GraphTypesCorrect` | `GraphTypes`: the issues are those of the first keys, so the next key is a new one |
| `LinkSidesAlwaysAgree` | `SecondOK`: the row a link handler has still to put is the stored row but for the link's side - a write in between, or a second link of the same two issues, would otherwise be taken back - and its first half is put; `LinksOK`: no side is shown twice, no issue is linked to itself, and every link but the cut and the pending ones agrees (`Agrees`). A side belongs to one link, so writing one disturbs no other (`OneLinkASide`, `OthersAgree`) |
| `ParentsAlwaysOnceFitted` | `JudgedOK`: the levels of the types a parent was judged by are one apart; a later edit of either type leaves the judgement as it was |
| `IdentityAlwaysKept` | `RecordsOK`: ids of remote links are below the counter, no two have one `globalId`, development records with a url are filed under it; then what each operation leaves of a list (`RemoteAdded`, `RemoteUpdated`, `RemotesLeft`, `DevAdded`, `DevMerged`) |

`ListedBytesSurvive` and `UploadTypesCorrect` are about the attachments. `UploadsInv` holds at every stage what
its syncs have made durable so far (`DiskInv`, `Achieved`); the bucket of an upload that
made it itself is durable past `SyncRoot`, that of one that found it is so unless the
upload is `trusted`.

`PagesAreARegister` and `PageTypesCorrect` are about the pages. The version check alone does not say that an
update sent twice is applied once: `PagesInv` adds that a request carries the number
after the version its editor saw, that this version stands in the page's history
(`EditorsOK`, `LiveOK`), and that the edit of a request stands there, if at all, at that
number or a later one (`NotEarlier`), so the second copy meets a version that is too high.

`IssuesComeBack`, `SnapshotTypesCorrect` and `DocumentsRoundTrip` are about the
documents, for any documents of `Document`, any statuses and any number of requests,
saves and loads. The invariant, `SnapshotInv`, is that the document kept is that of a
sound graph and `RoundTrip` itself; a graph is sound (`GraphOK`) when its rows are
complete and its counters and clock are past every id and stamp in it.

1. `Applied` numbers the puts of a document, so it is a function on `0..n`, not a
   recursion over a list: `PutsInOrder` says that it exists and that each put is of the
   graph the one before left, by induction over its number (`UpTo`).
2. Halfway through a document the ids may be ahead of the counters; a graph is only
   `LooseOK` there, which every put keeps whatever it is of (`IssuePutOK`, `PagePutOK`,
   `AppliedOK`). `SeededIs` says that the seeding at the end makes such a graph sound.
3. The document of a graph lists every issue and every page once, in the order of their
   keys (`AscendingIs`, `DocumentOf`). What it leaves out of a row is what the put
   brings back (`IssueRound`, `PageRound`; `IssuesComeBack` is this of one issue, for any
   graph it is loaded into), and no other entry writes that row again
   (`IssuesReturn`, `PagesReturn`): after `n` puts the first `n` are back.
4. Loaded into an empty store the graph is exactly `Restored(saved)` (`FreshIsRestored`),
   whose rows are settled: a second trip changes none of them (`SettledRow`,
   `RestoredTwice`). This is the last conjunct of `RoundTrip`.
5. Every request keeps the graph sound (`ChangeStatusOK`, `EnterSprintOK`, ...).

`ContentTypesCorrect` is the `TypeOK` that `MCContent` checks: a behaviour of the parts
taking turns is a behaviour of each of them (`BehavesAsParts`), so what is proved of a
part holds there.

`PagedWalk` has its own theorem, and `SearchProofs` those of `Gateway` and `Search`, from
`GatewayAssumption`, `SearchAssumption` and `AnswersAssumption`: for any clients, fault
lists, requests, tables of issues, page sizes, parser and matcher.

| Theorem | Inductive invariant |
|---|---|
| `GatewayTypesCorrect` | `EngineInv` |
| `FaultWindowsHold` | `EngineInv`: `CountersOK` says that `seen` counts the requests open to a fault and `applied` those of them within its window (`Within`), so whether it fires is whether the next one is in the window (`FiresInWindow`); a request that is decided comes last, and changes no place (`PlacesGrow`) |
| `TraceAlwaysNewest` | `RingInv`: entry `j` of the ring is the one numbered `nextId - Len(ring) + j` in the history of ends |
| `PagedWalksMissNothing` | `WalkInv`: who is untouched and not received yet is beyond the offset (`InFront`), and beyond the page on its way if not on it (`HeldOK`). An item which nothing overtakes backwards does not come forward, since the items before it become no fewer (`AheadAreFirst`, `MovesBack`) |

| `SearchIsGateway`, `SearchTypes` | `SearchInv`: the rows are a table (`TableOK`), a walker with a request under way is still walking, and a page without rows says it is the last (`WalkerOK`), `current` is the answer to its text now (`ObservedOK`) |
| `AnswersNewestFirst` | `SearchInv`; and an answer is in its order (`SortedIs`): the comparison of two rows is a strict order with the keys as the last resort (`LessOrder`), and `InOrder` lists a finite set by one |
| `SearchIsAWalk` | `SearchInv`; every step is one of `PagedWalk` or a stutter. A page is what comes next in the answer of its moment (`AnswerPage`, both dialects); a write stamps its row last, so in an order that is not oldest-first no row that was before an untouched one comes behind it |
| `SearchMissesNothing` | from `SearchIsAWalk` and `PagedWalksMissNothing` |

The last three assume `Digits = 0`: stamps without a fraction of a second, as the
deterministic clock gives them, are compared as texts as they are as numbers
(`TextLessNumber`), so an issue just written comes before the rest (`WrittenStaysAhead`). With
fractions `NewestFirst` does not hold, which is what `MCWallOrder` shows, so the
hypothesis cannot be dropped. `MCSearch` has `Digits = 0` as well.

Model-checked only, and why:

- Every liveness property (`OpenEnds`, `RequestsEnd`, `WalkEnds`): they need fairness and
  `ENABLED`.
- `AnswerMeansText`: the parser of `Jql` and the meaning of `JqlGrammar` are RECURSIVE
  operators over texts, and the proof system does not reason in a module that has one.
  The theorems about `Search` hold for any parser, so they do not depend on it.
- The properties of the violation runs, which do not hold.

## Plan

Modelled, in the order of the plan: `Workflow`, `Sprints` over `SprintBoard`, `Migrate`,
`SharedStore`, `Startup`, then `Pages`, `IssueGraph`, `Attachments`, `Snapshot` and
`Gateway`, `Jql` and `Search` over them. What is left, in the order of its worth:

1. Edit, deletion and visibility of comments, beside `SharedStore!AddComment`.
2. In `Startup`: the width of the bands, a live `Apply`, a clock per process.
3. The update verbs (`add`, `set`, `remove`) of list fields.
4. The rows `Boards` materializes on a read, and the catalogs other than the statuses.
5. Proofs: the parser as recursive functions over positions of a text, to prove that it
   accepts what the grammar does.

## Not modelled

- Field metadata and write validation (`store/editmeta.go`): they refuse or accept one
  request at a time, and table tests cover what is refused.
- CQL (`cql`): a substring test over three fields and a sort, one conjunction without
  precedence, and no pages that move under a retry.
- Rendering, routing, authorization (`api`): a response is not a state of the store, and
  nothing says what it must agree with when a catalog changes while it is put together.
- Locale tables, dialect, ADF conversion, YAML, configuration: pure functions of their
  inputs.
- The lab and admin API: thin calls of `Apply`, `Snapshot`, `SetLocale` and the fault
  engine, whose effects are in `Snapshot` and `Gateway`.
- `EnsureActor` mints a user for a header once; the derivation of its name is wording.
- Scenarios, diagnostics, conformance, the CLI and the dashboard: clients of the
  handlers above, with no state of their own.
