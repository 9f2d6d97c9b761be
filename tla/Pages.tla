---------------------------------- MODULE Pages ----------------------------------
(***************************************************************************)
(* Confluence pages (internal/store/store.go, internal/api/confluence.go): *)
(* CreatePage, UpdatePage and the page's version history, with editors     *)
(* that read a page, send an update for the version after the one they     *)
(* read, and send it again when no answer comes.  Requests wait on the     *)
(* way, overtake one another or never arrive, and answers get lost, which  *)
(* is also all that a restart of the server does to them.                  *)
(*                                                                         *)
(* The text of a page is the edit that wrote it; stamps, labels and the    *)
(* document format are left out.                                           *)
(***************************************************************************)
EXTENDS Integers, Sequences, FiniteSets

CONSTANTS
  PageId,     \* page ids in the order they are minted, fixture pages first
  Fixture,    \* the version number of each page that a fixture has loaded
  Space,      \* keys of the spaces
  Editor,     \* clients
  Form,       \* what an update sets: a set of [title, space, parent, body]
  MaxEdits,   \* bound: edits of each editor
  MaxSends    \* bound: how often one update is sent

\* A field that a request leaves out, the parent of a page that has none.
Blank == ""

ASSUME PagesAssumption ==
  /\ PageId \in Seq(STRING)
  /\ \A m, n \in DOMAIN PageId : PageId[m] = PageId[n] => m = n
  /\ \E n \in 0..Len(PageId) : DOMAIN Fixture = { PageId[i] : i \in 1..n }
  /\ \A p \in DOMAIN Fixture : Fixture[p] \in Nat \ {0}
  /\ Space # {}
  /\ MaxEdits \in Nat /\ MaxSends \in Nat \ {0}

VARIABLES
  page,      \* the page rows
  editor,    \* each editor: [state, page, version, saw, edits, sends, form]
  wire       \* update requests on their way

pagesVars == <<page, editor, wire>>

PageIds == { PageId[n] : n \in DOMAIN PageId }

NoEdit == [by |-> "none", n |-> 0]
FixtureEdit(p) == [by |-> p, n |-> 0]

\* A row of the version history: its number and the edit that made it, made on another one.
Version(number, edit, on) == [number |-> number, edit |-> edit, on |-> on]

\* putPage: a fixture page has one row of history, for the version it is at.
Loaded(p) ==
  [title |-> "T", space |-> CHOOSE s \in Space : TRUE, parent |-> Blank, text |-> FixtureEdit(p),
   version |-> Fixture[p], versions |-> << Version(Fixture[p], FixtureEdit(p), NoEdit) >>]

Idle(e, edits) ==
  [state |-> "idle", page |-> Blank, version |-> 0, saw |-> NoEdit, edits |-> edits,
   sends |-> 0, form |-> "none"]

PagesInit ==
  /\ page = [p \in DOMAIN Fixture |-> Loaded(p)]
  /\ editor = [e \in Editor |-> Idle(e, 0)]
  /\ wire = {}

(* ---- the store ---- *)
KnownParent(parent) == parent = Blank \/ parent \in DOMAIN page

\* A new page has to have a body; an update may leave it out.
Accepts(form) ==
  /\ form.title # Blank
  /\ form.space \in Space
  /\ KnownParent(form.parent)
  /\ form.body \notin {Blank, "bad"}

Written(form, edit) ==
  [title |-> form.title, space |-> form.space, parent |-> form.parent, text |-> edit,
   version |-> 1, versions |-> << Version(1, edit, NoEdit) >>]

\* Everything is checked before the id is minted.
CreatePage(edit, form) ==
  /\ Accepts(form)
  /\ Cardinality(DOMAIN page) < Len(PageId)
  /\ LET id == PageId[Cardinality(DOMAIN page) + 1]
     IN  page' = [p \in DOMAIN page \cup {id} |-> IF p = id THEN Written(form, edit) ELSE page[p]]

\* UpdatePage on a copy of the row: the version first, then the fields; the parent may be
\* the page itself, an absent body or space keeps the old one.
Conflicts(p, next) == next # page[p].version + 1

Fits(p, form) ==
  /\ form.title # Blank
  /\ form.space = Blank \/ form.space \in Space
  /\ KnownParent(form.parent)
  /\ form.body # "bad"

Updated(row, m) ==
  [title |-> m.form.title,
   space |-> IF m.form.space = Blank THEN row.space ELSE m.form.space,
   parent |-> IF m.form.parent = Blank THEN row.parent ELSE m.form.parent,
   text |-> IF m.form.body = Blank THEN row.text ELSE m.edit,
   version |-> m.next,
   versions |-> Append(row.versions, Version(m.next, m.edit, m.on))]

\* A plausible bug: an update with a higher number is taken as well as the next one.
MutUpdatePage(m) ==
  IF m.next < page[m.page].version \/ ~Fits(m.page, m.form)
  THEN UNCHANGED page ELSE page' = [page EXCEPT ![m.page] = Updated(@, m)]

UpdatePage(m) ==
  IF Conflicts(m.page, m.next) \/ ~Fits(m.page, m.form)
  THEN UNCHANGED page
  ELSE page' = [page EXCEPT ![m.page] = Updated(@, m)]

\* currentPageVersion: the history row of the version the page is at.
CurrentVersion(p) ==
  LET at == { n \in DOMAIN page[p].versions : page[p].versions[n].number = page[p].version }
  IN  page[p].versions[CHOOSE n \in at : \A m \in at : m <= n]

(* ---- the editors ---- *)
CanEdit(e) == editor[e].edits < MaxEdits

PostPage(e, form) ==
  /\ editor[e].state = "idle" /\ CanEdit(e)
  /\ CreatePage([by |-> e, n |-> editor[e].edits + 1], form)
  /\ editor' = [editor EXCEPT ![e].edits = @ + 1]
  /\ UNCHANGED wire

\* A GET gives the number of the current version and, with it, its text.
Editing(row, p, version) ==
  [row EXCEPT !.state = "editing", !.page = p, !.version = version.number,
              !.saw = version.edit, !.edits = @ + 1]

GetPage(e, p) ==
  /\ editor[e].state = "idle" /\ CanEdit(e)
  /\ p \in DOMAIN page
  /\ editor' = [editor EXCEPT ![e] = Editing(@, p, CurrentVersion(p))]
  /\ UNCHANGED <<page, wire>>

PutOf(e) ==
  [page |-> editor[e].page, next |-> editor[e].version + 1, form |-> editor[e].form,
   edit |-> [by |-> e, n |-> editor[e].edits], on |-> editor[e].saw]

SendUpdate(e, form) ==
  /\ editor[e].state = "editing"
  /\ editor' = [editor EXCEPT ![e].state = "waiting", ![e].sends = 1, ![e].form = form]
  /\ wire' = wire \cup { [copy |-> 1, m |-> PutOf(e)'] }
  /\ UNCHANGED page

\* No answer came: the same update again, though the first may have been applied.
SendAgain(e) ==
  /\ editor[e].state = "waiting" /\ editor[e].sends < MaxSends
  /\ editor' = [editor EXCEPT ![e].sends = @ + 1]
  /\ wire' = wire \cup { [copy |-> editor[e].sends + 1, m |-> PutOf(e)] }
  /\ UNCHANGED page

\* putContent.  Whatever the answer - 200 with the page, 409, 400 - the editor starts afresh
\* from a GET, if it still waits for this answer and the answer reaches it.
Deliver(packet) ==
  LET e == packet.m.edit.by
  IN  /\ wire' = wire \ {packet}
      /\ UpdatePage(packet.m)
      /\ \/ UNCHANGED editor
         \/ /\ editor[e].state = "waiting" /\ editor[e].edits = packet.m.edit.n
            /\ editor' = [editor EXCEPT ![e] = Idle(e, @.edits)]

\* The editor gives up: its requests may still arrive.
WalkAway(e) ==
  /\ editor[e].state = "waiting"
  /\ editor' = [editor EXCEPT ![e] = Idle(e, @.edits)]
  /\ UNCHANGED <<page, wire>>

PagesNext ==
  \/ \E e \in Editor :
       \/ \E form \in Form : PostPage(e, form) \/ SendUpdate(e, form)
       \/ \E p \in PageIds : GetPage(e, p)
       \/ SendAgain(e) \/ WalkAway(e)
  \/ \E packet \in wire : Deliver(packet)

PagesSpec == PagesInit /\ [][PagesNext]_pagesVars

(* ---- properties ---- *)
\* Types; the numbers of a page's history are consecutive and end at its version.
PagesTypeOK ==
  /\ \E n \in 0..Len(PageId) : DOMAIN page = { PageId[i] : i \in 1..n }
  /\ \A p \in DOMAIN page :
       /\ page[p].title # Blank /\ page[p].space \in Space /\ KnownParent(page[p].parent)
       /\ page[p].versions # <<>>
       /\ \A n \in DOMAIN page[p].versions :
            page[p].versions[n].number = page[p].version - Len(page[p].versions) + n
       /\ page[p].text \in { page[p].versions[n].edit : n \in DOMAIN page[p].versions }
  /\ \A packet \in wire : packet.m.page \in DOMAIN page
  /\ \A e \in Editor : editor[e].state \in {"idle", "editing", "waiting"}

Edits == [by : Editor, n : 1..MaxEdits] \cup { FixtureEdit(p) : p \in PageIds }
Numbered == [p \in DOMAIN page |-> [n \in DOMAIN page[p].versions |->
  [id |-> page[p].versions[n].edit, on |-> page[p].versions[n].on]]]

Register == INSTANCE VersionedPage WITH
  Page <- PageIds,
  Edit <- [id : Edits, on : Edits \cup {NoEdit}],
  Origin <- {[p \in DOMAIN Fixture |-> [id |-> FixtureEdit(p), on |-> NoEdit]]},
  history <- Numbered

\* The store is the register of VersionedPage, whatever is sent twice, late or never: the
\* history of a page is its accepted edits, each on the one before it, none of them twice
\* (store.go:2277).
ImplementsRegister == Register!Spec
=============================================================================
