------------------------------- MODULE Workflow -------------------------------
(***************************************************************************)
(* The issue workflow of internal/store/store.go: status, resolution,      *)
(* assignee, changelog and claims of every issue, and the status catalog   *)
(* with its transition screens.  Each exported method of Store takes s.mu  *)
(* for its whole body, and its issue row is written by one statement, so   *)
(* one handler is one action here (SharedStore takes the lock apart).      *)
(* An operator Mut... is a plausible bug in the operator below it: the     *)
(* mutants of PROJECT.json put it there to see a property fail.            *)
(*                                                                         *)
(* A status is the rank of its id in SELECT id FROM statuses ORDER BY id.  *)
(* Of the plain fields of an issue the summary stands for all of them.     *)
(***************************************************************************)
EXTENDS Integers, Sequences, FiniteSets

CONSTANTS
  Key,                \* issue keys
  Actor,              \* account ids
  NoOne,              \* the empty account id
  Text,               \* values of the summary, for any plain field
  Status,             \* status ids, by rank
  Category,           \* statusCategory.key of every status
  InitialStatus,      \* "10000", the literal CreateIssue writes
  Shadowed,           \* default statuses a fixture may take out by their names
  Resolution,         \* resolution catalog ids
  NoResolution,       \* the empty resolution
  DefaultResolution,  \* "10000", the post-function's default
  InitialScreens,     \* status -> its screen's rule for the resolution field
  Reader,             \* actors that GET /transitions and POST an id later
  MaxClock            \* bound: ticks of the store clock

Categories == {"new", "indeterminate", "done"}
\* What the screen of a status says of the resolution field, if it has one.
ScreenRules == {"noScreen", "absent", "optional", "required"}

ASSUME WorkflowAssumption ==
  /\ Status \subseteq Nat
  /\ IsFiniteSet(Status)
  /\ Category \in [Status -> Categories]
  /\ InitialStatus \in Status
  /\ Category[InitialStatus] # "done"
  /\ NoResolution \notin Resolution
  /\ DefaultResolution \in Resolution
  /\ NoOne \notin Actor
  /\ InitialScreens \in [Status -> ScreenRules]
  /\ Reader \subseteq Actor
  /\ MaxClock \in Nat

VARIABLES
  catalog,   \* rows of the statuses table
  screens,   \* transition_screens by status id
  issues,    \* rows of the issues table
  clock,     \* ticks of s.clk
  listing,   \* what each Reader keeps from its last GET /transitions
  granted,   \* observation: the 200s of Claim, not revoked since
  strays     \* observation: issues filed while InitialStatus was not in the catalog

vars == <<catalog, screens, issues, clock, listing, granted, strays>>

Assignee == Actor \cup {NoOne}
Axis == {"status", "assignee", "summary"}
FieldValue == Status \cup Assignee \cup Text
Row == [field: Axis, from: FieldValue, to: FieldValue, created: Nat]
Issue == [status: Status, assignee: Assignee, summary: Text,
          resolution: Resolution \cup {NoResolution}, updated: Nat, history: Seq(Row)]
NoListing == [key |-> "none"]
Listing == [key: Key, from: Status, catalog: SUBSET Status, id: Nat, wanted: Status]
\* Whom a claim was granted to, and whether its answer said the issue is in progress.
Grant == [by: Actor, working: BOOLEAN]

\* The one type invariant: the rows and the clock have their column types.
TypeOK ==
  /\ catalog \in SUBSET Status
  /\ screens \in [Status -> ScreenRules]
  /\ DOMAIN issues \subseteq Key
  /\ \A k \in DOMAIN issues : issues[k] \in Issue
  /\ clock \in Nat
  /\ listing \in [Reader -> Listing \cup {NoListing}]
  /\ granted \in [Key -> SUBSET Grant]
  /\ strays \subseteq DOMAIN issues

-----------------------------------------------------------------------------
(* Helpers of the handlers.                                                *)

\* Every other status of the catalog, and the number the API gives one.
Destinations(cat, from) == cat \ {from}
Position(dests, d) == Cardinality({e \in dests : e <= d})

\* The id GET /transitions gives destination d of issue k.
MutListedIdUnfiltered(k, d) == Position(catalog, d)
ListedId(k, d) == Position(Destinations(catalog, issues[k].status), d)

\* A status the catalog does not have is in no category (statusByIDLocked is nil).
InProgress(s) == s \in catalog /\ Category[s] = "indeterminate"

MutResolutionKept(to, r) ==
  IF Category[to] = "done" /\ r = NoResolution THEN DefaultResolution ELSE r

\* The resolution an issue has after entering `to` with resolution r.
ResolutionIn(to, r) ==
  IF Category[to] # "done" THEN NoResolution
  ELSE IF r = NoResolution THEN DefaultResolution ELSE r

\* rejectFieldsNotOnScreen and requireScreenFields for the resolution field.
ScreenAccepts(rule, res) ==
  /\ res # NoResolution => rule \in {"optional", "required"}
  /\ rule = "required" => res # NoResolution

MutRowByDisplayName(f, a, b, t) ==
  [field |-> "Status", from |-> a, to |-> b, created |-> t]

HistoryRow(f, a, b, t) == [field |-> f, from |-> a, to |-> b, created |-> t]

Transitioned(iss, to, res, t) ==
  [iss EXCEPT !.status = to,
              !.resolution = ResolutionIn(to, IF res = NoResolution THEN @ ELSE res),
              !.updated = t,
              !.history = Append(@, HistoryRow("status", iss.status, to, t))]

MutLoggedAfterWrite(iss, a, t) ==
  [iss EXCEPT !.assignee = a,
              !.updated = t,
              !.history = IF iss.assignee = a THEN @
                          ELSE Append(@, HistoryRow("assignee", a, a, t))]

Assigned(iss, a, t) ==
  [iss EXCEPT !.assignee = a,
              !.updated = t,
              !.history = IF iss.assignee = a THEN @
                          ELSE Append(@, HistoryRow("assignee", iss.assignee, a, t))]

\* UpdateIssue: one changelog item per field the request really changed.
Changed(f, a, b, t) == IF a = b THEN << >> ELSE << HistoryRow(f, a, b, t) >>

Edited(iss, a, txt, t) ==
  [iss EXCEPT !.assignee = a,
              !.summary = txt,
              !.updated = t,
              !.history = @ \o Changed("assignee", iss.assignee, a, t)
                            \o Changed("summary", iss.summary, txt, t)]

MergedRow(row, from, to) ==
  IF row.field # "status" THEN row
  ELSE [row EXCEPT !.from = IF @ = from THEN to ELSE @,
                   !.to = IF @ = from THEN to ELSE @]

MutRefersNowOnly(iss, s) == iss.status = s

RefersTo(iss, s) ==
  \/ iss.status = s
  \/ \E i \in DOMAIN iss.history :
        iss.history[i].field = "status" /\ s \in {iss.history[i].from, iss.history[i].to}

MutMergedUnstamped(iss, from, to, t) ==
  IF ~RefersTo(iss, from) THEN iss
  ELSE [iss EXCEPT !.status = IF @ = from THEN to ELSE @,
                   !.history = [i \in DOMAIN @ |-> MergedRow(@[i], from, to)]]

\* mergeStatusRefs, with the stamp MergeStatus adds to a row it rewrote.
Merged(iss, from, to, t) ==
  IF ~RefersTo(iss, from) THEN iss
  ELSE [iss EXCEPT !.status = IF @ = from THEN to ELSE @,
                   !.updated = t,
                   !.history = [i \in DOMAIN @ |-> MergedRow(@[i], from, to)]]

-----------------------------------------------------------------------------
(* Initial states: an Open of the default catalog plus fixture statuses;   *)
(* no issue is filed yet.                                                  *)

\* A fixture status with the name of a default one of another id takes that out.
EvictShadowedStatuses == {Status \ evicted : evicted \in SUBSET Shadowed}

Init ==
  /\ catalog \in EvictShadowedStatuses
  /\ screens = [s \in Status |-> IF s \in catalog THEN InitialScreens[s] ELSE "noScreen"]
  /\ issues = << >>
  /\ clock = 0
  /\ listing = [r \in Reader |-> NoListing]
  /\ granted = [k \in Key |-> {}]
  /\ strays = {}

\* s.clk.Tick, n times in one handler; the clock is bounded for the model checker.
Tick(n) == clock < MaxClock /\ clock' = clock + n

\* The status is the literal "10000": nothing looks it up in the catalog.
CreateIssue(k, a, txt) ==
  /\ k \notin DOMAIN issues
  /\ Tick(1)
  /\ issues' = [j \in DOMAIN issues \cup {k} |->
                  IF j = k
                  THEN [status |-> InitialStatus, assignee |-> a, summary |-> txt,
                        resolution |-> NoResolution, updated |-> clock + 1,
                        history |-> << >>]
                  ELSE issues[j]]
  /\ strays' = IF InitialStatus \in catalog THEN strays ELSE strays \cup {k}
  /\ UNCHANGED <<catalog, screens, granted, listing>>

\* A transition revokes the grants of an issue that leaves progress.
KeptGrants(k, to) == IF InProgress(to) THEN granted[k] ELSE {}

\* applyTransitionLocked with the id of destination `to`, then the write-back.
ApplyTransition(k, id, res) ==
  k \in DOMAIN issues /\ \E to \in Destinations(catalog, issues[k].status) :
    /\ Position(Destinations(catalog, issues[k].status), to) = id
    /\ ScreenAccepts(screens[to], res)
    /\ Tick(1)
    /\ issues' = [issues EXCEPT ![k] = Transitioned(@, to, res, clock + 1)]
    /\ granted' = [granted EXCEPT ![k] = KeptGrants(k, to)]
    /\ UNCHANGED <<catalog, screens, strays>>

PostTransition(k, id, res) ==
  /\ ApplyTransition(k, id, res)
  /\ UNCHANGED listing

\* GET /transitions: the client keeps the id of the destination it wants.
ListTransitions(r, k) ==
  /\ k \in DOMAIN issues
  /\ \E d \in Destinations(catalog, issues[k].status) :
       listing' = [listing EXCEPT ![r] =
         [key |-> k, from |-> issues[k].status, catalog |-> catalog, wanted |-> d,
          id |-> ListedId(k, d)]]
  /\ UNCHANGED <<catalog, screens, issues, clock, granted, strays>>

\* POST /transitions with the id kept from the listing.
PostListed(r, res) ==
  /\ listing[r] # NoListing
  /\ ApplyTransition(listing[r].key, listing[r].id, res)
  /\ listing' = [listing EXCEPT ![r] = NoListing]

\* Naming an assignee revokes the grants of everyone else.
GrantsOf(k, a) == {g \in granted[k] : g.by = a}

SetAssignee(k, a) ==
  /\ k \in DOMAIN issues
  /\ Tick(1)
  /\ issues' = [issues EXCEPT ![k] = Assigned(@, a, clock + 1)]
  /\ granted' = [granted EXCEPT ![k] = GrantsOf(k, a)]
  /\ UNCHANGED <<catalog, screens, listing, strays>>

UpdateIssue(k, a, txt) ==
  /\ k \in DOMAIN issues
  /\ Tick(1)
  /\ issues' = [issues EXCEPT ![k] = Edited(@, a, txt, clock + 1)]
  /\ granted' = [granted EXCEPT ![k] = GrantsOf(k, a)]
  /\ UNCHANGED <<catalog, screens, listing, strays>>

MutNoConflict(iss, a, takeOver) == FALSE

\* The 409 of Claim: someone else is at work on the issue.
Conflicts(iss, a, takeOver) ==
  InProgress(iss.status) /\ iss.assignee \notin {NoOne, a} /\ ~takeOver

\* firstInProgressTransitionLocked, or the destination of an explicit id, which
\* may be any: Claim asks nothing about the status an id leads to.
FirstInProgress(dests) ==
  {d \in dests : InProgress(d) /\ \A e \in dests : InProgress(e) => d <= e}
ClaimTargets(from, explicit) ==
  LET dests == Destinations(catalog, from)
  IN  IF explicit THEN dests ELSE FirstInProgress(dests)

\* The grants after a 200 for an issue that ends in status s.
Granted(k, a, takeOver, s) ==
  {[by |-> a, working |-> InProgress(s)]} \cup (IF takeOver THEN {} ELSE granted[k])

\* A claim of an issue in progress is an assignee change at most.
ClaimHeld(k, a, takeOver) ==
  /\ k \in DOMAIN issues
  /\ ~Conflicts(issues[k], a, takeOver)
  /\ InProgress(issues[k].status)
  /\ IF issues[k].assignee = a THEN UNCHANGED <<issues, clock>>
     ELSE /\ Tick(1)
          /\ issues' = [issues EXCEPT ![k] = Assigned(@, a, clock + 1)]
  /\ granted' = [granted EXCEPT ![k] = Granted(k, a, takeOver, issues[k].status)]
  /\ UNCHANGED <<catalog, screens, listing, strays>>

\* Any other claim runs the transition, then the assignee change, in one write.
ClaimFresh(k, a, takeOver, explicit) ==
  /\ k \in DOMAIN issues
  /\ ~InProgress(issues[k].status)
  /\ \E to \in ClaimTargets(issues[k].status, explicit) :
       /\ ScreenAccepts(screens[to], NoResolution)
       /\ LET moved == Transitioned(issues[k], to, NoResolution, clock + 1)
          IN  IF moved.assignee = a
              THEN /\ Tick(1)
                   /\ issues' = [issues EXCEPT ![k] = moved]
              ELSE /\ Tick(2)
                   /\ issues' = [issues EXCEPT ![k] = Assigned(moved, a, clock + 2)]
       /\ granted' = [granted EXCEPT ![k] = Granted(k, a, takeOver, to)]
  /\ UNCHANGED <<catalog, screens, listing, strays>>

\* The refusals of MergeStatus before its transaction.
MayMerge(from, to) == from # to /\ Category[from] = Category[to]

\* One SQLite transaction: rows, then the screen, then the catalog.
MergeStatus(from, to) ==
  /\ {from, to} \subseteq catalog
  /\ MayMerge(from, to)
  /\ Tick(1)
  /\ issues' = [k \in DOMAIN issues |-> Merged(issues[k], from, to, clock + 1)]
  /\ screens' = [screens EXCEPT ![from] = "noScreen",
                                ![to] = IF @ = "noScreen" THEN screens[from] ELSE @]
  /\ catalog' = catalog \ {from}
  /\ UNCHANGED <<granted, listing, strays>>

Next ==
  \/ \E k \in Key, a \in Assignee, txt \in Text : CreateIssue(k, a, txt)
  \/ \E k \in Key, id \in 1..Cardinality(Status), res \in Resolution \cup {NoResolution} :
        PostTransition(k, id, res)
  \/ \E r \in Reader, k \in Key : ListTransitions(r, k)
  \/ \E r \in Reader, res \in Resolution \cup {NoResolution} : PostListed(r, res)
  \/ \E k \in Key, a \in Assignee : SetAssignee(k, a)
  \/ \E k \in Key, a \in Assignee, txt \in Text : UpdateIssue(k, a, txt)
  \/ \E k \in Key, a \in Actor, takeOver, explicit \in BOOLEAN :
        ClaimFresh(k, a, takeOver, explicit)
  \/ \E k \in Key, a \in Actor, takeOver \in BOOLEAN : ClaimHeld(k, a, takeOver)
  \/ \E from, to \in Status : MergeStatus(from, to)

Spec == Init /\ [][Next]_vars

-----------------------------------------------------------------------------
(* Properties.                                                             *)

\* The rows of one field chain, and the last of them says what the field is now.
OnAxis(h, f) == {i \in DOMAIN h : h[i].field = f}
Chained(h, f, now) ==
  /\ \A i, j \in OnAxis(h, f) :
       (i < j /\ \A m \in OnAxis(h, f) : m <= i \/ j <= m) => h[j].from = h[i].to
  /\ \A i \in OnAxis(h, f) : (\A m \in OnAxis(h, f) : m <= i) => h[i].to = now

IssueReplays(iss) ==
  /\ Chained(iss.history, "status", iss.status)
  /\ Chained(iss.history, "assignee", iss.assignee)
  /\ Chained(iss.history, "summary", iss.summary)

\* The changelog replays: on every field each row starts where the one before
\* ended and the last one ends at the issue's present value, through claims,
\* transitions, edits and status merges alike (GDK-1208, GDK-1522).
ChangelogReplays == \A k \in DOMAIN issues : IssueReplays(issues[k])

\* An issue has a resolution exactly while its status is in the done category,
\* whatever path (screen, default, claim, merge) took it in or out.
ResolvedIffDone ==
  \A k \in DOMAIN issues :
    issues[k].resolution # NoResolution <=> Category[issues[k].status] = "done"

\* Of the claims whose answer said the issue is in progress at most one is
\* unrevoked, and its actor is the one at work: the issue is still in progress and
\* assigned to that actor, whatever other claims, edits and merges came between.
ClaimExclusive ==
  \A k \in Key : \A g \in granted[k] : g.working =>
    /\ \A h \in granted[k] : h.working => h = g
    /\ k \in DOMAIN issues
    /\ issues[k].assignee = g.by /\ InProgress(issues[k].status)

\* Of two agents claiming concurrently exactly one wins (the comment on Claim): no
\* two actors hold an unrevoked 200 for one issue.  It fails when an explicit
\* transitionId takes the issue somewhere that is not in progress.
ExactlyOneWins == \A k \in Key : \A g, h \in granted[k] : g.by = h.by

\* The statuses an issue and its changelog may name: those of the catalog, and the
\* one CreateIssue wrote if it was filed after that had gone.
Known(k) == catalog \cup (IF k \in strays THEN {InitialStatus} ELSE {})

\* No issue, changelog row or transition screen names a status that has left the
\* catalog, but for the issues that were filed into it afterwards.
NoDanglingStatus ==
  /\ \A k \in DOMAIN issues :
       /\ issues[k].status \in Known(k)
       /\ \A i \in OnAxis(issues[k].history, "status") :
            {issues[k].history[i].from, issues[k].history[i].to} \subseteq Known(k)
  /\ \A s \in Status \ catalog : screens[s] = "noScreen"

\* No issue points at a deleted status (the comment on MergeStatus).  It fails
\* because CreateIssue goes on filing into "10000" after that was deleted.
NoIssueAtDeleted == \A k \in DOMAIN issues : issues[k].status \in catalog

\* Every write of a row leaves it with a stamp later than any row had before,
\* which is what an `updated >=` delta reader relies on not to miss it.
WritesMoveUpdated ==
  [][\A k \in DOMAIN issues' :
       (k \notin DOMAIN issues \/ issues'[k] # issues[k]) =>
         \A j \in DOMAIN issues : issues'[k].updated > issues[j].updated]_vars

\* A transition id kept from a listing lands on the status it was listed for
\* as long as neither the issue's status nor the catalog has changed since.
ListedIdLands ==
  [][\A r \in Reader :
       LET l == listing[r]
       IN  l # NoListing /\ listing'[r] = NoListing
           /\ l.from = issues[l.key].status /\ l.catalog = catalog
             => issues'[l.key].status = l.wanted]_vars
=============================================================================
