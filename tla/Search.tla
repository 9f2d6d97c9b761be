--------------------------------- MODULE Search ---------------------------------
(***************************************************************************)
(* A client walks through the answer of a search page by page while others *)
(* write, every request passing Gateway: postSearchJQL and legacySearch in *)
(* internal/api/jira.go over Search in internal/store/store.go.  A page    *)
(* token is an offset into an answer that is computed afresh for each      *)
(* page, in one critical section of the store.  The walker asks again for  *)
(* a page that it did not get whole.  The language of the queries is a     *)
(* parameter.                                                              *)
(***************************************************************************)
EXTENDS Gateway, Answers

CONSTANTS
  Key,          \* issue keys; their order is the order of Rank
  Rank,         \* place of each key among the keys
  FieldText,    \* texts the fields of an issue may hold
  Row,          \* the issues there may be at first: a set of functions from keys to rows
  Label,        \* labels a write may put on an issue
  Text,         \* texts the walker may search for
  ParseJQL(_),  \* what the parser makes of a text: [ok, root, order]; Jql has it
  PageSize,     \* page sizes it may ask for
  Dialect,      \* "cloud": nextPageToken, "dc": startAt
  MaxWrites     \* bound: write requests

IssueRow == [key : Key, rank : Int, updated : Nat, status : FieldText, assignee : FieldText,
             labels : SUBSET FieldText, sprint : FieldText]

\* A table of issues: a row stands under its key, with the key's place.
IsTable(rows) ==
  /\ DOMAIN rows \subseteq Key /\ rows \in [DOMAIN rows -> IssueRow]
  /\ \A k \in DOMAIN rows : rows[k].key = k /\ rows[k].rank = Rank[k]

ASSUME SearchAssumption ==
  /\ IsFiniteSet(Key) /\ Client # {} /\ {"search", "write"} \subseteq Kind
  /\ Rank \in [Key -> Int] /\ \A j, k \in Key : Rank[j] = Rank[k] => j = k
  /\ \A rows \in Row : IsTable(rows) /\ \A k \in DOMAIN rows : rows[k].updated <= Cardinality(Key)
  /\ {"", "todo"} \cup Label \subseteq FieldText
  /\ PageSize \subseteq Nat \ {0} /\ Dialect \subseteq {"cloud", "dc"}
  /\ \A t \in Text : ParseJQL(t).ok \in BOOLEAN /\ ParseJQL(t).order \in Seq(OrderTerm)
  /\ MaxWrites \in Nat

VARIABLES
  issue,      \* the issue rows by key
  clock,      \* the last tick
  text, max, dialect,   \* what the walker asks, and how
  query,      \* the text parsed; every request parses it afresh, to the same result
  walk,       \* the walker: [state, token, got]
  answer,     \* what the handler gave the walker's request
  writes,     \* write requests so far
  current,    \* observation: keys of the answer as it would be given now
  base,       \* observation: those there were when the walk began
  touched,    \* observation: keys written since
  left,       \* observation: an issue has left the answer since
  drifted     \* observation: a page was asked under the drift fault

asked == <<text, max, dialect, query>>
observed == <<current, base, touched, left, drifted>>
searchVars == <<issue, clock, asked, walk, answer, writes, observed>>
vars == <<gatewayVars, searchVars>>

Walker == CHOOSE c \in Client : TRUE
Writers == Client \ {Walker}

Present(rows) == { rows[k] : k \in DOMAIN rows }

(* ---- the store ---- *)
ResultOf(rows) == IF query.ok THEN Filter(Present(rows), query) ELSE <<>>

KeysOf(rows) == [n \in DOMAIN rows |-> rows[n].key]

\* Search: the rows from offset on, at most size of them.
SearchRows(result, offset, size) ==
  IF offset > Len(result) THEN <<>>
  ELSE SubSeq(result, offset + 1, IF offset + size < Len(result) THEN offset + size ELSE Len(result))

(* ---- the handlers: a page, where the next one starts and whether there is none ---- *)
NoAnswer == [status |-> "none", rows |-> <<>>, next |-> 0, isLast |-> FALSE]
BadRequest == [status |-> "refused", rows |-> <<>>, next |-> 0, isLast |-> FALSE]

\* A plausible bug: the page before a last row calls itself the last one.
MutPageFrom(result, offset) ==
  LET rows == SearchRows(result, offset, max)
      next == offset + Len(rows)
  IN  [status |-> "ok", rows |-> KeysOf(rows), next |-> next, isLast |-> next + 1 >= Len(result)]

PageFrom(result, offset) ==
  LET rows == SearchRows(result, offset, max)
      next == offset + Len(rows)
  IN  [status |-> "ok", rows |-> KeysOf(rows),
       next |-> next, isLast |-> next >= Len(result)]

PostSearchJQL(result, token) ==
  IF ~query.ok THEN BadRequest ELSE PageFrom(result, token)

\* legacySearch: with the drift fault every page but the first starts one row late.
LegacySearch(result, startAt, drift) ==
  IF ~query.ok THEN BadRequest
  ELSE PageFrom(result, IF drift /\ startAt > 0 THEN startAt + 1 ELSE startAt)

(* ---- the walker ---- *)
SearchInit ==
  /\ text \in Text /\ max \in PageSize /\ dialect \in Dialect
  /\ query = ParseJQL(text)
  /\ issue \in Row
  /\ clock = Cardinality(Key)
  /\ walk = [state |-> "walking", token |-> 0, got |-> <<>>]
  /\ answer = NoAnswer
  /\ writes = 0
  /\ current = KeysOf(ResultOf(issue)) /\ base = ToSet(current)
  /\ touched = {} /\ left = FALSE /\ drifted = FALSE

Init == GatewayInit /\ SearchInit

AskPage ==
  /\ walk.state = "walking"
  /\ Arrive(Walker, "search")
  /\ UNCHANGED searchVars

AnswerPage ==
  LET hit == call[Walker].hit
  IN  /\ Handled(Walker)
      /\ \E result \in {ResultOf(issue)} :
           answer' = IF hit.skip THEN NoAnswer
                     ELSE IF dialect = "cloud" THEN PostSearchJQL(result, walk.token)
                     ELSE LegacySearch(result, walk.token, hit.drift)
      /\ drifted' = (drifted \/ (dialect = "dc" /\ hit.drift))
      /\ UNCHANGED <<issue, clock, asked, walk, writes, current, base, touched, left>>

\* A page that came whole is appended; after any other answer the page is asked again.
ReceivePage ==
  /\ Finish(Walker)
  /\ walk' = IF ~Whole(Walker) THEN walk
             ELSE IF answer.status = "refused" THEN [walk EXCEPT !.state = "refused"]
             ELSE [state |-> IF answer.isLast THEN "done" ELSE "walking",
                   token |-> answer.next, got |-> walk.got \o answer.rows]
  /\ answer' = NoAnswer
  /\ UNCHANGED <<issue, clock, asked, writes, observed>>

WalkerWaits == (DelayEnds(Walker) \/ GivenUp(Walker)) /\ UNCHANGED searchVars

(* ---- the writers: other clients whose handlers write one issue row ---- *)
AskWrite(c) ==
  /\ writes < MaxWrites
  /\ Arrive(c, "write")
  /\ writes' = writes + 1
  /\ UNCHANGED <<issue, clock, asked, walk, answer, observed>>

\* An edit ticks the clock, sets the labels and moves the issue's updated.
EditRow(k, labels) ==
  /\ k \in DOMAIN issue
  /\ clock' = clock + 1
  /\ issue' = [issue EXCEPT ![k].labels = labels, ![k].updated = clock + 1]

NewRow(k, labels) ==
  /\ k \in Key \ DOMAIN issue
  /\ clock' = clock + 1
  /\ issue' = [j \in DOMAIN issue \cup {k} |->
       IF j = k THEN [key |-> k, rank |-> Rank[k], updated |-> clock + 1, status |-> "todo",
                      assignee |-> "", labels |-> labels, sprint |-> ""]
       ELSE issue[j]]

AnswerWrite(c) ==
  /\ Handled(c)
  /\ IF call[c].hit.skip THEN UNCHANGED <<issue, clock, current, touched, left>>
     ELSE \E k \in Key, labels \in SUBSET Label :
            /\ (EditRow(k, labels) \/ NewRow(k, labels))
            /\ touched' = touched \cup {k}
            /\ current' = KeysOf(ResultOf(issue'))
            /\ left' = (left \/ ~(ToSet(current) \subseteq ToSet(current')))
  /\ UNCHANGED <<asked, walk, answer, writes, base, drifted>>

WriterWaits(c) == (DelayEnds(c) \/ GivenUp(c) \/ Finish(c)) /\ UNCHANGED searchVars

Admin == (Reset \/ \E list \in FaultList : Replace(list)) /\ UNCHANGED searchVars

Next ==
  \/ AskPage \/ WalkerWaits \/ AnswerPage \/ ReceivePage
  \/ \E c \in Writers : AskWrite(c) \/ WriterWaits(c) \/ AnswerWrite(c)
  \/ Admin

\* The walker asks, its request is served, and an answer reaches it.
Fairness ==
  /\ WF_vars(AskPage) /\ WF_vars(WalkerWaits) /\ WF_vars(AnswerPage) /\ WF_vars(ReceivePage)

Spec == Init /\ [][Next]_vars

FairSpec == Spec /\ Fairness

(* ---- properties ---- *)
\* Types of the composition; no row is stamped later than the clock.
TypeOK ==
  /\ IsTable(issue) /\ clock \in Nat
  /\ \A k \in DOMAIN issue : issue[k].updated <= clock
  /\ walk \in [state : {"walking", "done", "refused"}, token : Nat, got : Seq(Key)]
  /\ answer \in [status : {"none", "ok", "refused"}, rows : Seq(Key), next : Nat, isLast : BOOLEAN]
  /\ GatewayTypeOK

SortsOldestFirst ==
  \E n \in DOMAIN query.order : query.order[n] = [field |-> "updated", desc |-> FALSE]

\* Pages by offsets through a list whose untouched issues only move back.
Walk == INSTANCE PagedWalk WITH
  Item <- Key,
  answer <- current,
  offset <- walk.token,
  got <- ToSet(walk.got),
  state <- walk.state,
  held <- [items |-> ToSet(answer.rows), next |-> answer.next, last |-> answer.isLast],
  spoilt <- left \/ drifted \/ SortsOldestFirst

\* The two page handlers, the retries and the writers are such a walk: a page holds what
\* comes next in the answer of its own moment and says truly where it ended, a request that
\* fails takes nothing of the walk with it, and a write moves only what it writes ahead.
ImplementsWalk == Walk!Spec

\* A walk through a list that is not sorted by updated ascending, while others create and
\* edit issues and requests fail, are cut short, delayed or given up, misses no issue that
\* nobody wrote - unless one left the answer or the drift fault was on (jira.go:487).
WalkMissesNothing ==
  walk.state = "done" /\ ~left /\ ~drifted /\ ~SortsOldestFirst
  => base \ touched \subseteq ToSet(walk.got)

Before(a, b, order) ==
  \E n \in 1..(Len(order) + 1) :
    /\ \A m \in 1..(n - 1) : order[m].field = "updated" /\ a.updated = b.updated
    /\ IF n = Len(order) + 1 THEN a.rank < b.rank
       ELSE CASE order[n].field = "updated" /\ order[n].desc -> a.updated > b.updated
              [] order[n].field = "updated" /\ ~order[n].desc -> a.updated < b.updated
              [] order[n].field = "key" /\ order[n].desc -> a.rank > b.rank
              [] OTHER -> a.rank < b.rank

\* An answer is sorted as its query asks, by default the last updated first and then by key
\* (jql.go:428 "Default: updated desc, then key asc").
NewestFirst ==
  LET result == ResultOf(issue)
  IN  \A i, j \in DOMAIN result : i < j => Before(result[i], result[j], OrderOf(query))

\* Every walk ends, although requests of it are refused, cut short, delayed and given up and
\* the fault counters are zeroed meanwhile, as long as every fault is limited (Times > 0).
WalkEnds == <>(walk.state \in {"done", "refused"})
=============================================================================
