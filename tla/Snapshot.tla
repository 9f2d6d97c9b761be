-------------------------------- MODULE Snapshot --------------------------------
(***************************************************************************)
(* The round trip of a fixture document (internal/store/store.go):         *)
(* Snapshot writes the graph out, Apply upserts a document into a graph,   *)
(* the fresh one of a start or the one of a live server.  What the two     *)
(* leave to a default or mint on the way is modelled for statuses, the     *)
(* changelog, comments, attachments, sprints, page versions, page comments *)
(* and the homepage of the space; a field that both merely copy is         *)
(* represented by the stamp.                                               *)
(*                                                                         *)
(* Ids are numbers, 0 for one that a document leaves out.                  *)
(***************************************************************************)
EXTENDS Lists, SequencesExt, Functions

CONSTANTS
  StatusById,   \* the status ids in the order of their strings
  NewStatus,    \* the statuses of category new
  Initial,      \* the status CreateIssue files issues in
  Authored,     \* documents a person has written: a set of documents
  MaxSteps      \* bound on the requests

\* What a document may say: 0, "" or an empty list for what it leaves out.
FileBody == {"", "text", "binary", "placeholder"}
FieldValue == ToSet(StatusById) \cup {"status", "sprint", "", "s"}
HistoryEntry == [id : Nat, field : FieldValue, from : FieldValue, to : FieldValue]
CommentEntry == [id : Nat, internal : {"", "yes", "no"}]
FileEntry == [id : Nat, text : FileBody, base64 : FileBody]
TalkEntry == [id : Nat, reply : BOOLEAN]
IssueDoc ==
  [key : Nat \ {0}, status : ToSet(StatusById), updated : Nat,
   history : Seq(HistoryEntry), comments : Seq(CommentEntry), attachments : Seq(FileEntry)]
PageDoc == [id : Nat \ {0}, version : Nat, versions : Seq(Nat), comments : Seq(TalkEntry)]
Document == [home : Nat, issues : Seq(IssueDoc), pages : Seq(PageDoc)]

ASSUME SnapshotAssumption ==
  /\ StatusById \in Seq(STRING)
  /\ Initial \in NewStatus /\ NewStatus \subseteq ToSet(StatusById)
  /\ Authored \subseteq Document
  /\ MaxSteps \in Nat

VARIABLES
  graph,    \* the store: [issue, page, talk, replies, home, hist, comment, attach, clock]
  doc,      \* the document that Save wrote last
  saved,    \* observation: the graph it was written from
  loaded,   \* observation: how the present graph came about: "lived", "fresh" or "live"
  steps     \* requests so far

snapshotVars == <<graph, doc, saved, loaded, steps>>

NoDoc == [issues |-> <<>>, pages |-> <<>>, home |-> 0]
Empty == [issue |-> << >>, page |-> << >>, talk |-> << >>, replies |-> <<>>, home |-> 0,
          hist |-> 0, comment |-> 0, attach |-> 0, clock |-> 0]

Largest(S) == CHOOSE n \in S : \A m \in S : m <= n
IdsOf(list) == { list[n].id : n \in DOMAIN list }

(* ---- rows that a document leaves to Apply ---- *)
\* The id of the n-th entry of a list: its own, or the next one of the counter.
Minted(list, count, n) ==
  IF list[n].id # 0 THEN list[n].id ELSE count + Cardinality({ m \in 1..n : list[m].id = 0 })

Raised(list, count) == count + Cardinality({ n \in DOMAIN list : list[n].id = 0 })

First(a, b) == IF a = 0 THEN b ELSE a

\* makeComment, makeAttach, makeHistory.  Text before base64 and a placeholder for neither.
MakeComment(list, count) ==
  [n \in DOMAIN list |-> [id |-> Minted(list, count, n),
     jsd |-> CASE list[n].internal = "yes" -> "hidden" [] list[n].internal = "no" -> "public" [] OTHER -> "unset"]]

MakeAttach(list, count) ==
  [n \in DOMAIN list |-> [id |-> Minted(list, count, n),
     body |-> IF list[n].base64 # "" THEN list[n].base64
              ELSE IF list[n].text # "" THEN list[n].text ELSE "placeholder"]]

MakeHistory(list, count) == [n \in DOMAIN list |-> [list[n] EXCEPT !.id = Minted(list, count, n)]]

FirstNew == StatusById[CHOOSE n \in DOMAIN StatusById :
  StatusById[n] \in NewStatus /\ \A m \in 1..(n - 1) : StatusById[m] \notin NewStatus]

HistoryRow(id, field, from, to) == [id |-> id, field |-> field, from |-> from, to |-> to]
StatusRow(id, from, to) == HistoryRow(id, "status", from, to)

\* synthesizeHistory: an issue past the first new status came from there.
Synthesized(status, count) ==
  IF status = FirstNew THEN <<>> ELSE << StatusRow(count + 1, FirstNew, status) >>

PutIssue(g, in) ==
  LET history == IF in.history = <<>> THEN Synthesized(in.status, g.hist) ELSE MakeHistory(in.history, g.hist)
      now == IF in.updated = 0 THEN g.clock + 1 ELSE in.updated
      row == [status |-> in.status, history |-> history, updated |-> now, sprint |-> FALSE,
              comments |-> MakeComment(in.comments, g.comment),
              files |-> MakeAttach(in.attachments, g.attach)]
  IN  [g EXCEPT !.issue = Extended(@, in.key, row),
                !.hist = IF in.history = <<>> THEN @ + Len(history) ELSE Raised(in.history, @),
                !.comment = Raised(in.comments, @), !.attach = Raised(in.attachments, @),
                !.clock = IF in.updated = 0 THEN @ + 1 ELSE @]

\* The numbers of a list in their order: at i stands the one that fewer than i are less than,
\* and at least i no greater.
Ranked(list) ==
  [i \in DOMAIN list |-> CHOOSE v \in ToSet(list) :
     /\ Cardinality({ n \in DOMAIN list : list[n] < v }) < i
     /\ Cardinality({ n \in DOMAIN list : list[n] <= v }) >= i]

\* The ids of the page's own comments, or of the replies to others.
Talk(list, count, reply) ==
  Picked([n \in DOMAIN list |-> Minted(list, count, n)], { n \in DOMAIN list : list[n].reply = reply })

\* putPage: the page of the document becomes the homepage of a space that has none; its
\* comments are added to those there are.
PutPage(g, in) ==
  LET version == First(in.version, 1)
      versions == IF in.versions = <<>> THEN <<version>>
                  ELSE Ranked([n \in DOMAIN in.versions |-> First(in.versions[n], 1)])
      last == versions[Len(versions)]
      before == IF in.id \in DOMAIN g.talk THEN g.talk[in.id] ELSE <<>>
  IN  [g EXCEPT !.page = Extended(@, in.id,
                  [version |-> IF version < last THEN last ELSE version, versions |-> versions]),
                !.talk = Extended(@, in.id, before \o Talk(in.comments, g.comment, FALSE)),
                !.replies = @ \o Talk(in.comments, g.comment, TRUE),
                !.comment = Raised(in.comments, @),
                !.home = First(@, in.id)]

PutSpace(g, home) == [g EXCEPT !.home = IF home = 0 THEN @ ELSE home]

(* ---- the ids and stamps there are ---- *)
Rows(g) == { g.issue[k] : k \in DOMAIN g.issue }
HistoryIds(g) == UNION { IdsOf(row.history) : row \in Rows(g) }
FileIds(g) == UNION { IdsOf(row.files) : row \in Rows(g) }
CommentIds(g) ==
  (UNION { IdsOf(row.comments) : row \in Rows(g) })
  \cup (UNION { ToSet(g.talk[p]) : p \in DOMAIN g.talk }) \cup ToSet(g.replies)
Stamps(g) == { row.updated : row \in Rows(g) }

\* A plausible bug: the counters are left where the document's own mints took them.
MutSeeded(g) == [g EXCEPT !.clock = Largest(Stamps(g) \cup {0})]

\* seedSeqsLocked and seedClockLocked: past every id and stamp there is.
Seeded(g) ==
  [g EXCEPT !.hist = Largest(HistoryIds(g) \cup {@}), !.attach = Largest(FileIds(g) \cup {@}),
            !.comment = Largest(CommentIds(g) \cup {@}), !.clock = Largest(Stamps(g) \cup {0})]

\* Apply puts the issues of a document and then its pages, one after the other, and seeds
\* the counters.  The seed of the document starts the clock again.
Puts(d) == Len(d.issues) + Len(d.pages)

Put(g, d, n) ==
  IF n <= Len(d.issues) THEN PutIssue(g, d.issues[n]) ELSE PutPage(g, d.pages[n - Len(d.issues)])

Applied(g, d) ==
  LET after[n \in 0..Puts(d)] ==
        IF n = 0 THEN PutSpace([g EXCEPT !.clock = 0], d.home) ELSE Put(after[n - 1], d, n)
  IN  after

Apply(g, d) == Seeded(Applied(g, d)[Puts(d)])

(* ---- the document of a graph ---- *)
\* A plausible bug: the two flags are taken for the same one.
MutCommentToFix(c) ==
  [id |-> c.id, internal |-> CASE c.jsd = "public" -> "yes" [] c.jsd = "hidden" -> "no" [] c.jsd = "unset" -> ""]

\* sd.public.comment is the opposite of internal, and absent when there is none.
CommentToFix(c) ==
  [id |-> c.id, internal |-> CASE c.jsd = "public" -> "no" [] c.jsd = "hidden" -> "yes" [] c.jsd = "unset" -> ""]

\* Readable text stays text; a body of no bytes leaves no content behind.
AttachToFix(a) ==
  [id |-> a.id, text |-> IF a.body = "binary" THEN "" ELSE a.body,
                base64 |-> IF a.body = "binary" THEN a.body ELSE ""]

IssueToFix(g, k) ==
  LET row == g.issue[k]
  IN  [key |-> k, status |-> row.status, updated |-> row.updated, history |-> row.history,
       comments |-> [n \in DOMAIN row.comments |-> CommentToFix(row.comments[n])],
       attachments |-> [n \in DOMAIN row.files |-> AttachToFix(row.files[n])]]

\* The comments of the page, not the replies to them.
PageToFix(g, p) ==
  [id |-> p, version |-> g.page[p].version, versions |-> g.page[p].versions,
   comments |-> IF p \in DOMAIN g.talk
                THEN [n \in DOMAIN g.talk[p] |-> [id |-> g.talk[p][n], reply |-> FALSE]] ELSE <<>>]

Ascending(S) == [n \in 1..Cardinality(S) |-> CHOOSE k \in S : Place(S, k) = n]

SnapshotOf(g) ==
  LET keys == Ascending(DOMAIN g.issue)
      pages == Ascending(DOMAIN g.page)
  IN  [home |-> g.home,
       issues |-> [n \in DOMAIN keys |-> IssueToFix(g, keys[n])],
       pages |-> [n \in DOMAIN pages |-> PageToFix(g, pages[n])]]

(* ---- writes in between ---- *)
Write(g) ==
  /\ steps < MaxSteps /\ steps' = steps + 1
  /\ graph' = [g EXCEPT !.clock = @ + 1] /\ loaded' = "lived"
  /\ UNCHANGED <<doc, saved>>

Stamped(row) == [row EXCEPT !.updated = graph.clock + 1]

FileIssue ==
  /\ Cardinality(DOMAIN graph.issue) < 2
  /\ Write([graph EXCEPT !.issue = Extended(@, Cardinality(DOMAIN graph.issue) + 1,
        [status |-> Initial, history |-> <<>>, updated |-> graph.clock + 1, sprint |-> FALSE,
         comments |-> <<>>, files |-> <<>>])])

ChangeStatus(k, to) ==
  /\ k \in DOMAIN graph.issue /\ to # graph.issue[k].status
  /\ Write([graph EXCEPT !.hist = @ + 1,
       !.issue[k] = Stamped([@ EXCEPT !.status = to,
         !.history = Append(graph.issue[k].history,
                             StatusRow(graph.hist + 1, graph.issue[k].status, to))])])

EnterSprint(k) ==
  /\ k \in DOMAIN graph.issue /\ ~graph.issue[k].sprint
  /\ Write([graph EXCEPT !.hist = @ + 1,
       !.issue[k] = Stamped([@ EXCEPT !.sprint = TRUE,
         !.history = Append(graph.issue[k].history,
                             HistoryRow(graph.hist + 1, "sprint", "", "s"))])])

CommentIssue(k, jsd) ==
  /\ k \in DOMAIN graph.issue
  /\ Write([graph EXCEPT !.comment = @ + 1,
       !.issue[k] = Stamped([@ EXCEPT !.comments = Append(graph.issue[k].comments,
                                              [id |-> graph.comment + 1, jsd |-> jsd])])])

AttachFile(k, body) ==
  /\ k \in DOMAIN graph.issue
  /\ Write([graph EXCEPT !.attach = @ + 1,
       !.issue[k] = Stamped([@ EXCEPT !.files = Append(graph.issue[k].files,
                                           [id |-> graph.attach + 1, body |-> body])])])

WritePage ==
  \/ /\ graph.page = << >>
     /\ Write([graph EXCEPT !.page = Extended(@, 1, [version |-> 1, versions |-> <<1>>])])
  \/ /\ 1 \in DOMAIN graph.page
     /\ Write([graph EXCEPT !.page[1] = [version |-> @.version + 1, versions |-> Append(@.versions, @.version + 1)]])

CommentPage ==
  /\ 1 \in DOMAIN graph.page
  /\ Write([graph EXCEPT !.comment = @ + 1,
       !.talk = Extended(@, 1, (IF 1 \in DOMAIN graph.talk THEN graph.talk[1] ELSE <<>>) \o <<graph.comment + 1>>)])

\* Snapshot of a live server; a document is loaded by a start on an empty store, or into the
\* graph of a running server.
Save ==
  /\ loaded = "lived" /\ doc' = SnapshotOf(graph) /\ saved' = graph
  /\ UNCHANGED <<graph, loaded, steps>>

Load ==
  /\ doc # NoDoc /\ loaded = "lived"
  /\ \/ graph' = Apply(Empty, doc) /\ loaded' = "fresh"
     \/ graph' = Apply(graph, doc) /\ loaded' = "live"
  /\ UNCHANGED <<doc, saved, steps>>

SnapshotInit ==
  /\ \E d \in Authored \cup {NoDoc} : graph = Apply(Empty, d)
  /\ doc = NoDoc /\ saved = Empty /\ loaded = "lived" /\ steps = 0

SnapshotNext ==
  \/ FileIssue
  \/ \E k \in {1, 2} :
       \/ \E to \in ToSet(StatusById) : ChangeStatus(k, to)
       \/ EnterSprint(k)
       \/ \E jsd \in {"unset", "public", "hidden"} : CommentIssue(k, jsd)
       \/ \E body \in {"", "text", "binary"} : AttachFile(k, body)
  \/ WritePage \/ CommentPage \/ Save \/ Load

SnapshotSpec == SnapshotInit /\ [][SnapshotNext]_snapshotVars

(* ---- properties ---- *)
SnapshotTypeOK ==
  /\ loaded \in {"lived", "fresh", "live"}
  /\ \A k \in DOMAIN graph.issue :
       /\ graph.issue[k].status \in ToSet(StatusById)
       /\ graph.issue[k].updated \in 1..graph.clock
       /\ IdsOf(graph.issue[k].history) \subseteq 1..graph.hist
       /\ IdsOf(graph.issue[k].comments) \subseteq 1..graph.comment
       /\ IdsOf(graph.issue[k].files) \subseteq 1..graph.attach
  /\ \A p \in DOMAIN graph.talk : ToSet(graph.talk[p]) \subseteq 1..graph.comment

\* An issue comes back with its status, stamp, comments and attachments; with its changelog,
\* or, if it had none, with the way from the first new status to its own; with a placeholder
\* in the place of an attachment of no bytes; and in no sprint.
IssueComesBack(was, is) ==
  /\ is.status = was.status /\ is.updated = was.updated /\ is.comments = was.comments
  /\ IF was.history # <<>> \/ was.status = FirstNew THEN is.history = was.history
     ELSE is.history = << StatusRow(is.history[1].id, FirstNew, was.status) >>
  /\ Len(is.files) = Len(was.files)
  /\ \A n \in DOMAIN was.files :
       /\ is.files[n].id = was.files[n].id
       /\ is.files[n].body = (IF was.files[n].body = "" THEN "placeholder" ELSE was.files[n].body)
  /\ ~is.sprint

\* The document of a graph, loaded by a start, brings every issue, page and page comment of
\* it back, losing only sprints, empty attachments and replies, and once loaded, a graph
\* comes back from its own document as it is; loaded into a live graph it brings them back
\* too and touches no other issue (embedded.go: "so the document round-trips").
RoundTrip ==
  loaded \in {"fresh", "live"} =>
    /\ \A k \in DOMAIN saved.issue :
         k \in DOMAIN graph.issue /\ IssueComesBack(saved.issue[k], graph.issue[k])
    /\ \A p \in DOMAIN saved.page : p \in DOMAIN graph.page /\ graph.page[p] = saved.page[p]
    /\ loaded = "fresh" =>
         /\ DOMAIN graph.issue = DOMAIN saved.issue
         /\ \A p \in DOMAIN saved.talk : graph.talk[p] = saved.talk[p]
         /\ saved.home # 0 => graph.home = saved.home
         /\ Apply(Empty, SnapshotOf(graph)) = graph
=============================================================================
