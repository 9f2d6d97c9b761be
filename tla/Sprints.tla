-------------------------------- MODULE Sprints --------------------------------
(***************************************************************************)
(* Sprints and their membership, internal/store/agile.go.  Every handler   *)
(* holds s.mu throughout, so no other handler runs inside it, but each row *)
(* it writes is committed by a statement of its own: a process that dies   *)
(* in the middle of a sweep or of a batch leaves the rows written so far.  *)
(* A handler that writes several rows is therefore a run of steps here,    *)
(* kept in op, and ServerDies may come between any two of them.  Open      *)
(* restores the clock from the rows (seedClockLocked in store.go).         *)
(*                                                                         *)
(* An issue key is its rank in ORDER BY key.  Names, goals and boards are  *)
(* left out.  A start is refused unless both dates are set; the dates are  *)
(* a matter of the requests, so a refused start is simply not a step.      *)
(***************************************************************************)
EXTENDS Lists, SequencesExt

CONSTANTS
  Issues,      \* how many issues there are
  SprintId,    \* sprint ids
  NoRef,       \* the empty From and To of a changelog item
  KeyLists,    \* key lists of a request, repeats included
  Databases,   \* the contents of the file when the first process opens it
  MaxClock     \* bound: ticks of the store clock

Rank == 1..Issues

VARIABLES
  opened,     \* a process has the database open
  clk,        \* ticks of s.clk, lost in a crash
  sprints,    \* rows of the sprints table
  issueRows,  \* rows of the issues table
  op          \* the handler under way: what it has still to write

sprintsVars == <<opened, clk, sprints, issueRows, op>>

States == {"future", "active", "closed"}
Sprint == [state: States, activated: Nat, completed: Nat]
SprintRow == [from: SprintId \cup {NoRef}, to: SprintId \cup {NoRef}]
Issue == [done: BOOLEAN, members: Seq(SprintId), updated: Nat, history: Seq(SprintRow)]
Copy == [key: Rank, row: Issue]

ASSUME SprintsAssumption ==
  /\ Issues \in Nat
  /\ SprintId \subseteq Nat \ {0}
  /\ NoRef \notin SprintId
  /\ KeyLists \subseteq Seq(Rank)
  /\ MaxClock \in Nat
  /\ \A db \in Databases :
       /\ DOMAIN db.sprints \subseteq SprintId
       /\ \A s \in DOMAIN db.sprints : db.sprints[s] \in Sprint
       /\ db.issues \in [Rank -> Issue]

NoOp == [kind |-> "idle"]
Op == {NoOp}
      \cup [kind: {"sweep"}, sprint: SprintId, stamp: Nat, todo: Seq(Copy)]
      \cup [kind: {"move"}, sprint: SprintId, todo: Seq(Copy)]
      \cup [kind: {"backlog"}, todo: Seq(Copy)]

\* The one type invariant.
SprintsTypeOK ==
  /\ opened \in BOOLEAN
  /\ clk \in Nat
  /\ DOMAIN sprints \subseteq SprintId
  /\ \A s \in DOMAIN sprints : sprints[s] \in Sprint
  /\ issueRows \in [Rank -> Issue]
  /\ op \in Op

-----------------------------------------------------------------------------
(* Helpers of the handlers.                                                *)

\* SprintIDs: the tail is the current sprint, 0 when there is none.
Current(iss) == IF iss.members = << >> THEN 0 ELSE Last(iss.members)

MutRefZero(id) == id
\* A sprint id in a changelog item, never "0" (sprintChangeRef).
ChangeRef(id) == IF id = 0 THEN NoRef ELSE id

\* A new sprint list, its stamp and its row in the changelog.
Logged(iss, members, to, t) ==
  [iss EXCEPT !.members = members,
              !.updated = t,
              !.history = Append(@, [from |-> ChangeRef(Current(iss)), to |-> to])]

\* clearSprintLocked: the whole list goes.
Cleared(iss, t) == Logged(iss, << >>, NoRef, t)

\* The elements of a list other than s, in their order.
Without(list, s) == Picked(list, {n \in DOMAIN list : list[n] # s})

MutMovedFromOldest(iss, s, t) ==
  [iss EXCEPT !.members = Append(Without(@, s), s),
              !.updated = t,
              !.history = Append(@, [from |-> IF iss.members = << >> THEN NoRef
                                              ELSE Head(iss.members), to |-> s])]

MutMovedTwice(iss, s, t) == Logged(iss, Append(iss.members, s), s, t)

\* An issue that was in the sprint before moves it back to the tail.
Moved(iss, s, t) == Logged(iss, Append(Without(iss.members, s), s), s, t)

\* The rows a handler reads before it writes any: one copy for each key named,
\* so that a key named twice is two copies of the same row.
Resolved(keys) == [i \in DOMAIN keys |-> [key |-> keys[i], row |-> issueRows[keys[i]]]]
AllIssues == Resolved([k \in Rank |-> k])

\* The copies each loop passes over.
Skipped(handler, copy) ==
  CASE handler.kind = "sweep" -> Current(copy.row) # handler.sprint \/ copy.row.done
    [] handler.kind = "move" -> Current(copy.row) = handler.sprint
    [] handler.kind = "backlog" -> copy.row.members = << >>

MutSeedUnjumped == 0
\* seedClockLocked: past the newest stamp of an issue or of its changelog.
SeededClock == LET stamps == {0} \cup {issueRows[k].updated : k \in Rank}
               IN  CHOOSE t \in stamps : \A u \in stamps : u <= t

-----------------------------------------------------------------------------
SprintsInit ==
  /\ opened = TRUE
  /\ \E db \in Databases : sprints = db.sprints /\ issueRows = db.issues
  /\ clk = SeededClock
  /\ op = NoOp

Ready == opened /\ op = NoOp
Tick == clk < MaxClock /\ clk' = clk + 1

\* nextSeqLocked hands out ids above every id before; one a crash lost is skipped.
CreateSprint(s) ==
  /\ Ready
  /\ \A t \in DOMAIN sprints : t < s
  /\ sprints' = [t \in DOMAIN sprints \cup {s} |->
                   IF t = s THEN [state |-> "future", activated |-> 0, completed |-> 0]
                   ELSE sprints[t]]
  /\ UNCHANGED <<opened, clk, issueRows, op>>

\* UpdateSprint, future -> active.
StartSprint(s) ==
  /\ Ready /\ s \in DOMAIN sprints
  /\ sprints[s].state = "future"
  /\ Tick
  /\ sprints' = [sprints EXCEPT ![s] = [@ EXCEPT !.state = "active",
                                                 !.activated = clk + 1]]
  /\ UNCHANGED <<opened, issueRows, op>>

MutCloseThenSweep(s) ==
  /\ Ready /\ s \in DOMAIN sprints
  /\ sprints[s].state = "active"
  /\ Tick
  /\ op' = [kind |-> "sweep", sprint |-> s, stamp |-> clk + 1, todo |-> AllIssues]
  /\ sprints' = [sprints EXCEPT ![s].state = "closed"]
  /\ UNCHANGED <<opened, issueRows>>

\* UpdateSprint, active -> closed, begins: the stamp is taken, the sweep is to be done, and
\* only after it FinishClose writes the sprint row.
CloseSprint(s) ==
  /\ Ready /\ s \in DOMAIN sprints
  /\ sprints[s].state = "active"
  /\ Tick
  /\ op' = [kind |-> "sweep", sprint |-> s, stamp |-> clk + 1, todo |-> AllIssues]
  /\ UNCHANGED <<opened, sprints, issueRows>>

MoveIssuesToSprint(s, keys) ==
  /\ Ready /\ s \in DOMAIN sprints
  /\ sprints[s].state # "closed"
  /\ op' = [kind |-> "move", sprint |-> s, todo |-> Resolved(keys)]
  /\ UNCHANGED <<opened, clk, sprints, issueRows>>

MoveIssuesToBacklog(keys) ==
  /\ Ready
  /\ op' = [kind |-> "backlog", todo |-> Resolved(keys)]
  /\ UNCHANGED <<opened, clk, sprints, issueRows>>

\* One turn of the loop of the handler under way: a copy it passes over...
SkipNext ==
  /\ opened /\ op # NoOp /\ op.todo # << >>
  /\ Skipped(op, Head(op.todo))
  /\ op' = [op EXCEPT !.todo = Tail(@)]
  /\ UNCHANGED <<opened, clk, sprints, issueRows>>

\* ... or one row, one commit.
WriteNext ==
  /\ opened /\ op # NoOp /\ op.todo # << >>
  /\ ~Skipped(op, Head(op.todo))
  /\ Tick
  /\ LET copy == Head(op.todo)
     IN  issueRows' = [issueRows EXCEPT ![copy.key] =
                      IF op.kind = "move" THEN Moved(copy.row, op.sprint, clk + 1)
                      ELSE Cleared(copy.row, clk + 1)]
  /\ op' = [op EXCEPT !.todo = Tail(@)]
  /\ UNCHANGED <<opened, sprints>>

FinishClose ==
  /\ opened /\ op.kind = "sweep" /\ op.todo = << >>
  /\ sprints' = [sprints EXCEPT ![op.sprint] = [@ EXCEPT !.state = "closed",
                                                         !.completed = op.stamp]]
  /\ op' = NoOp
  /\ UNCHANGED <<opened, clk, issueRows>>

FinishBatch ==
  /\ opened /\ op.kind \in {"move", "backlog"} /\ op.todo = << >>
  /\ op' = NoOp
  /\ UNCHANGED <<opened, clk, sprints, issueRows>>

\* A workflow transition across the border of the done category.
Transition(k) ==
  /\ Ready
  /\ Tick
  /\ issueRows' = [issueRows EXCEPT ![k].done = ~@, ![k].updated = clk + 1]
  /\ UNCHANGED <<opened, sprints, op>>

\* The process is killed or stopped: what was committed is all that is left.
ServerDies ==
  /\ opened
  /\ opened' = FALSE
  /\ clk' = 0
  /\ op' = NoOp
  /\ UNCHANGED <<sprints, issueRows>>

Open ==
  /\ ~opened
  /\ opened' = TRUE
  /\ clk' = SeededClock
  /\ UNCHANGED <<sprints, issueRows, op>>

SprintsNext ==
  \/ \E s \in SprintId : CreateSprint(s) \/ StartSprint(s) \/ CloseSprint(s)
  \/ \E s \in SprintId, keys \in KeyLists : MoveIssuesToSprint(s, keys)
  \/ \E keys \in KeyLists : MoveIssuesToBacklog(keys)
  \/ SkipNext \/ WriteNext \/ FinishClose \/ FinishBatch
  \/ \E k \in Rank : Transition(k)
  \/ ServerDies \/ Open

SprintsSpec == SprintsInit /\ [][SprintsNext]_sprintsVars

-----------------------------------------------------------------------------
(* Properties.                                                             *)

\* Sprint state and current membership as SprintBoard sees them.
BoardState == [s \in SprintId |-> IF s \in DOMAIN sprints THEN sprints[s].state ELSE "none"]
BoardCurrent == [k \in Rank |-> Current(issueRows[k])]
BoardDone == {k \in Rank : issueRows[k].done}
Board == INSTANCE SprintBoard WITH
  Key <- Rank, NoSprint <- 0, state <- BoardState, current <- BoardCurrent, done <- BoardDone

\* Crashes in the middle of a sweep or a batch and all, every committed step is
\* one SprintBoard allows: a sprint row says closed only when the sweep is over,
\* and no issue joins a closed sprint.
ImplementsBoard == Board!Spec

\* What the Sprint rows of a changelog say of the current sprint.
Replays(iss) ==
  LET h == iss.history
  IN  /\ \A i \in DOMAIN h : h[i].from = IF i = 1 THEN NoRef ELSE h[i - 1].to
      /\ h # << >> => Last(h).to = ChangeRef(Current(iss))
      /\ h = << >> => iss.members = << >>

\* An earlier process has left the file as this one would.
ASSUME DatabasesAssumption ==
  \A db \in Databases : \A k \in Rank :
    /\ ToSet(db.issues[k].members) \subseteq DOMAIN db.sprints
    /\ IsInjective(db.issues[k].members)
    /\ Replays(db.issues[k])

\* The Sprint rows of the changelog replay to the current sprint, through
\* sweeps cut short, retried closes and keys named twice in one request.
SprintReplays == \A k \in Rank : Replays(issueRows[k])

\* The sprint list of an issue names no sprint twice: moving back into an
\* earlier sprint moves it, it does not repeat it.
MemberOnce == \A k \in Rank : IsInjective(issueRows[k].members)

\* After any crash a write of an issue is stamped later than every issue row
\* the database held, so an `updated >=` reader never misses it.
StampsAdvance ==
  [][\A k \in Rank : issueRows'[k] # issueRows[k] =>
       \A j \in Rank : issueRows'[k].updated > issueRows[j].updated]_sprintsVars
=============================================================================
