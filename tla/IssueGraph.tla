------------------------------- MODULE IssueGraph -------------------------------
(***************************************************************************)
(* What ties issues together and to the outside (internal/store/store.go): *)
(* the parent of an issue, judged by the levels of two types; a link,      *)
(* which is two projections in two issue rows; and the records an issue    *)
(* keeps under an outside identity: remote links by globalId, pull         *)
(* requests by url, deployments and builds by url or name.                 *)
(*                                                                         *)
(* A handler runs under s.mu, but every row it puts is a statement of its  *)
(* own: between the two rows of a link the process can die.                *)
(***************************************************************************)
EXTENDS Lists, SequencesExt

CONSTANTS
  KeyOf,      \* the keys of the project in the order they are minted
  Type,       \* ids of the issue types
  Level,      \* hierarchyLevel of each type
  Standard,   \* the type of a create that names none: 10003, or the lowest of level 0
  LinkType,   \* ids of the link types
  Global,     \* globalIds a client gives a remote link; "" is none
  Url,        \* urls of pull requests, deployments and builds; "" is none
  Label,      \* names, environments and build numbers a client sends; "" is none
  DevState,   \* states of each kind of development record; "" is none
  Client,     \* actors
  MaxWrites   \* bound on the requests

ASSUME IssueGraphAssumption ==
  /\ KeyOf \in Seq(STRING) /\ \A i, j \in DOMAIN KeyOf : KeyOf[i] = KeyOf[j] => i = j
  /\ Level \in [Type -> Int] /\ Standard \in Type
  /\ "" \notin Type /\ "" \notin ToSet(KeyOf)
  /\ MaxWrites \in Nat

VARIABLES
  issue,      \* the issue rows
  clock,      \* the last tick
  minted,     \* the remotelink counter
  second,     \* the row a link handler has still to put
  writes,     \* requests so far
  wanted,     \* observation: links whose last answered request made them
  cut,        \* observation: links whose last request died between its rows
  judged      \* observation: the types a parent was judged by

observed == <<wanted, cut, judged>>
graphVars == <<issue, clock, minted, second, writes, observed>>

Key == ToSet(KeyOf)
Kind == {"pullrequest", "deployment", "build"}
NoParent == ""
NoWrite == [key |-> "", row |-> <<>>, link |-> <<>>, adds |-> FALSE]

GraphInit ==
  /\ issue = << >> /\ clock = 0 /\ minted = 0 /\ writes = 0
  /\ second = NoWrite
  /\ wanted = {} /\ cut = {} /\ judged = << >>

(* ---- parents ---- *)
\* resolveParentLocked: the stored row of the parent against the type asked for.
ParentFits(type, parent) ==
  parent # NoParent => parent \in DOMAIN issue /\ Level[issue[parent].type] = Level[type] + 1

Judgement(type, parent) ==
  [child |-> type, parent |-> IF parent = NoParent THEN type ELSE issue[parent].type]

\* A request that gets as far as the store.
Request ==
  /\ second = NoWrite
  /\ writes < MaxWrites
  /\ writes' = writes + 1

CreateType(asked) == IF asked = "" THEN Standard ELSE asked

CreateIssue(asked, parent) ==
  /\ Request
  /\ Cardinality(DOMAIN issue) < Len(KeyOf)
  /\ CreateType(asked) \in Type
  /\ ParentFits(CreateType(asked), parent)
  /\ LET key == KeyOf[Cardinality(DOMAIN issue) + 1]
         row == [type |-> CreateType(asked), parent |-> parent, updated |-> clock + 1,
                 links |-> <<>>, remotes |-> <<>>, devs |-> <<>>]
     IN  /\ issue' = Extended(issue, key, row)
         /\ judged' = Extended(judged, key, Judgement(row.type, parent))
  /\ clock' = clock + 1
  /\ UNCHANGED <<minted, second, wanted, cut>>

\* A field a request leaves alone.
Absent == "absent"

\* A plausible bug: the fields are applied parent first.
MutUpdateIssue(k, type, parent) ==
  LET row == [issue[k] EXCEPT !.type = IF type = Absent THEN @ ELSE type,
                              !.parent = IF parent = Absent THEN @ ELSE parent,
                              !.updated = clock + 1]
  IN  /\ Request /\ k \in DOMAIN issue
      /\ row.type \in Type
      /\ parent # Absent => ParentFits(issue[k].type, parent)
      /\ issue' = [issue EXCEPT ![k] = row]
      /\ judged' = IF parent = Absent THEN judged
                   ELSE [judged EXCEPT ![k] = Judgement(row.type, parent)]
      /\ clock' = clock + 1
      /\ UNCHANGED <<minted, second, wanted, cut>>

\* The fields go in sorted order, issuetype before parent, on a probe first: one refused
\* field refuses them all.  The parent is read from its stored row.
UpdateIssue(k, type, parent) ==
  LET row == [issue[k] EXCEPT !.type = IF type = Absent THEN @ ELSE type,
                              !.parent = IF parent = Absent THEN @ ELSE parent,
                              !.updated = clock + 1]
  IN  /\ Request /\ k \in DOMAIN issue
      /\ row.type \in Type
      /\ parent # Absent => ParentFits(row.type, parent)
      /\ issue' = [issue EXCEPT ![k] = row]
      /\ judged' = IF parent = Absent THEN judged
                   ELSE [judged EXCEPT ![k] = Judgement(row.type, parent)]
      /\ clock' = clock + 1
      /\ UNCHANGED <<minted, second, wanted, cut>>

\* InvalidParentCount, as the set it counts.
InvalidParents ==
  { k \in DOMAIN issue : issue[k].parent # NoParent
      /\ ~( /\ issue[k].parent \in DOMAIN issue
            /\ Level[issue[issue[k].parent].type] = Level[issue[k].type] + 1 ) }

(* ---- links ---- *)
\* A side names the other end and the role that end had in the request.
Side(type, role, other) == [type |-> type, role |-> role, other |-> other]

\* A plausible bug: the role is left out of the comparison.
MutHasDirectedLink(k, side) ==
  \E n \in DOMAIN issue[k].links :
    issue[k].links[n].type = side.type /\ issue[k].links[n].other = side.other

HasDirectedLink(k, side) == side \in ToSet(issue[k].links)

\* issueLinkID: type, outward end, inward end, read off one side of row k.
LinkID(k, side) ==
  IF side.role = "outward" THEN <<side.type, side.other, k>> ELSE <<side.type, k, side.other>>

WithSide(k, side) ==
  [issue[k] EXCEPT !.links = IF HasDirectedLink(k, side) THEN @ ELSE Append(@, side),
                   !.updated = clock + 1]

WithoutSide(k, side) ==
  [issue[k] EXCEPT !.links = Picked(@, { n \in DOMAIN @ : @[n] # side }), !.updated = clock + 1]

\* The first of the two puts; a link is <<type, outward key, inward key>>.
FirstPut(link, adds, outwardRow, inwardRow) ==
  /\ clock' = clock + 1
  /\ issue' = [issue EXCEPT ![link[2]] = outwardRow]
  /\ second' = [key |-> link[3], row |-> inwardRow, link |-> link, adds |-> adds]

Answered(link, adds) ==
  /\ wanted' = IF adds THEN wanted \cup {link} ELSE wanted \ {link}
  /\ cut' = cut \ {link}

Ends(link) == link[1] \in LinkType /\ link[2] \in DOMAIN issue /\ link[3] \in DOMAIN issue

AddIssueLink(link) ==
  LET out == Side(link[1], "inward", link[3])
      in == Side(link[1], "outward", link[2])
  IN  /\ Request /\ Ends(link) /\ link[2] # link[3]
      /\ IF HasDirectedLink(link[2], out) /\ HasDirectedLink(link[3], in)
         THEN Answered(link, TRUE) /\ UNCHANGED <<issue, clock, second>>
         ELSE FirstPut(link, TRUE, WithSide(link[2], out), WithSide(link[3], in))
              /\ UNCHANGED <<wanted, cut>>
      /\ UNCHANGED <<minted, judged>>

\* DeleteIssueLink: nothing to remove is a 404.
DeleteIssueLink(link) ==
  LET out == Side(link[1], "inward", link[3])
      in == Side(link[1], "outward", link[2])
  IN  /\ Request /\ Ends(link)
      /\ HasDirectedLink(link[2], out) \/ HasDirectedLink(link[3], in)
      /\ FirstPut(link, FALSE, WithoutSide(link[2], out), WithoutSide(link[3], in))
      /\ UNCHANGED <<minted, observed>>

SecondPut ==
  /\ second # NoWrite
  /\ issue' = [issue EXCEPT ![second.key] = second.row]
  /\ second' = NoWrite
  /\ Answered(second.link, second.adds)
  /\ UNCHANGED <<clock, minted, writes, judged>>

\* The process dies between the two puts and is started again.
CutOff ==
  /\ second # NoWrite
  /\ second' = NoWrite
  /\ cut' = cut \cup {second.link}
  /\ UNCHANGED <<issue, clock, minted, writes, wanted, judged>>

(* ---- remote and development links: rows with an outside identity ---- *)
PutRow(k, row) ==
  /\ issue' = [issue EXCEPT ![k] = [row EXCEPT !.updated = clock + 1]]
  /\ clock' = clock + 1
  /\ UNCHANGED <<second, observed>>

\* The places of the records of a list that satisfy a test; the code takes the first.
Places(list, Test(_)) == { n \in DOMAIN list : Test(list[n]) }
Earliest(places) == CHOOSE n \in places : \A m \in places : n <= m

\* A plausible bug: an update is given a new id as well.
MutUpsertRemoteLink(k, global, url) ==
  LET Same(r) == global # "" /\ r.global = global
      places == Places(issue[k].remotes, Same)
      new == [id |-> minted + 1, global |-> global, url |-> url]
  IN  /\ Request /\ k \in DOMAIN issue /\ url # ""
      /\ minted' = minted + 1
      /\ PutRow(k, [issue[k] EXCEPT !.remotes = IF places = {} THEN Append(@, new)
                                                ELSE [@ EXCEPT ![Earliest(places)] = new]])

UpsertRemoteLink(k, global, url) ==
  LET Same(r) == global # "" /\ r.global = global
      places == Places(issue[k].remotes, Same)
      at == Earliest(places)
  IN  /\ Request /\ k \in DOMAIN issue /\ url # ""
      /\ IF places = {}
         THEN /\ minted' = minted + 1
              /\ PutRow(k, [issue[k] EXCEPT !.remotes =
                   Append(@, [id |-> minted + 1, global |-> global, url |-> url])])
         ELSE /\ UNCHANGED minted
              /\ PutRow(k, [issue[k] EXCEPT !.remotes[at].url = url])

DeleteRemoteLink(k, id) ==
  /\ Request /\ k \in DOMAIN issue
  /\ \E n \in DOMAIN issue[k].remotes : issue[k].remotes[n].id = id
  /\ UNCHANGED minted
  /\ PutRow(k, [issue[k] EXCEPT !.remotes = Picked(@, { n \in DOMAIN @ : @[n].id # id })])

\* The id of a record that came without one: its url, or else its name.
DevID(kind, url, label) == IF kind = "pullrequest" \/ url # "" THEN <<kind, url>> ELSE <<kind, label>>

\* The part of a record that an empty field of a later request does not erase.
Merged(old, new) ==
  [new EXCEPT !.url = IF new.url = "" THEN old.url ELSE new.url,
              !.label = IF new.label = "" THEN old.label ELSE new.label]

\* postDevLink: what a record of each kind must say.
PostDevLink(kind, url, label) ==
  CASE kind = "pullrequest" -> url # ""
    [] kind = "deployment" -> label # ""
    [] kind = "build" -> url # "" \/ label # ""

\* LinkDevPR, LinkDevDeployment, LinkDevBuild.  A pull request without a status is OPEN,
\* before it is merged with the record there is.
LinkDev(k, kind, url, label, state, actor) ==
  LET new == [id |-> DevID(kind, url, label), url |-> url, label |-> label, actor |-> actor,
              state |-> IF kind = "pullrequest" /\ state = "" THEN "OPEN" ELSE state]
      Same(d) == d.id = new.id
      places == Places(issue[k].devs, Same)
      at == Earliest(places)
  IN  /\ Request /\ k \in DOMAIN issue /\ PostDevLink(kind, url, label)
      /\ UNCHANGED minted
      /\ PutRow(k, [issue[k] EXCEPT !.devs =
           IF places = {} THEN Append(@, new) ELSE [@ EXCEPT ![at] = Merged(issue[k].devs[at], new)]])

(* ---- the specification ---- *)
ParentStep ==
  \/ \E type \in Type \cup {""}, parent \in Key \cup {NoParent} : CreateIssue(type, parent)
  \/ \E k \in Key, type \in Type \cup {Absent}, parent \in Key \cup {NoParent, Absent} :
       UpdateIssue(k, type, parent)

LinkStep ==
  \/ \E link \in LinkType \X Key \X Key : AddIssueLink(link) \/ DeleteIssueLink(link)
  \/ SecondPut \/ CutOff

RecordStep ==
  \/ \E k \in Key, global \in Global, url \in Url : UpsertRemoteLink(k, global, url)
  \/ \E k \in Key, id \in 1..minted : DeleteRemoteLink(k, id)
  \/ \E k \in Key, kind \in Kind, url \in Url, label \in Label, a \in Client :
       \E state \in DevState[kind] : LinkDev(k, kind, url, label, state, a)

GraphNext == ParentStep \/ LinkStep \/ RecordStep
GraphSpec == GraphInit /\ [][GraphNext]_graphVars

(* ---- properties ---- *)
GraphTypeOK ==
  /\ \E n \in 0..Len(KeyOf) : DOMAIN issue = { KeyOf[i] : i \in 1..n }
  /\ DOMAIN judged = DOMAIN issue
  /\ \A k \in DOMAIN issue :
       /\ issue[k].type \in Type
       /\ issue[k].parent \in DOMAIN issue \cup {NoParent}
       /\ issue[k].updated \in 1..clock
       /\ \A s \in ToSet(issue[k].links) :
            s.type \in LinkType /\ s.other \in DOMAIN issue \ {k} /\ s.role \in {"inward", "outward"}
       /\ \A r \in ToSet(issue[k].remotes) : r.id \in 1..minted
  /\ second = NoWrite \/ second.key \in DOMAIN issue

\* How often row k shows the link.
Shown(k, link) ==
  Cardinality({ n \in DOMAIN issue[k].links : LinkID(k, issue[k].links[n]) = link })

\* Both ends of a link, and no other issue, show it once under one id after its creation was
\* answered, and not at all after its deletion was; this holds again, after a request of it
\* died between its two rows, once another request of it is answered (store.go:1563).
LinkSidesAgree ==
  second = NoWrite =>
    \A link \in (LinkType \X (DOMAIN issue) \X (DOMAIN issue)) \ cut : \A k \in DOMAIN issue :
      Shown(k, link) = IF link \in wanted /\ k \in {link[2], link[3]} THEN 1 ELSE 0

\* A parent that is not one level above its child was so when it was set: the type of one of
\* the two has been edited since (store.go:3173), in the request that set it at the earliest.
ParentsOnceFitted ==
  \A k \in InvalidParents :
    /\ issue[k].parent \in DOMAIN issue
    /\ Level[judged[k].parent] = Level[judged[k].child] + 1
    /\ judged[k] # [child |-> issue[k].type, parent |-> issue[issue[k].parent].type]

\* After an accepted create or edit that sets a parent, that parent is one level above.
AcceptedParentFits ==
  [][\A k \in DOMAIN issue' :
       issue'[k].parent # NoParent /\ (IF k \in DOMAIN issue THEN issue[k].parent ELSE NoParent) # issue'[k].parent
       => LET p == issue'[k].parent IN Level[issue'[p].type] = Level[issue'[k].type] + 1]_graphVars

KeepsRecords ==
  \A k \in DOMAIN issue :
    /\ \A m, n \in DOMAIN issue'[k].remotes :
         LET a == issue'[k].remotes[m] b == issue'[k].remotes[n]
         IN  a.id = b.id \/ (a.global = b.global /\ a.global # "") => m = n
    /\ \A was \in ToSet(issue[k].remotes), new \in ToSet(issue'[k].remotes) :
         (was.id = new.id => was.global = new.global)
         /\ (was.global = new.global /\ was.global # "" => was.id = new.id)
    /\ \A m, n \in DOMAIN issue'[k].devs : issue'[k].devs[m].id = issue'[k].devs[n].id => m = n
    /\ \A was \in ToSet(issue[k].devs) : \E new \in ToSet(issue'[k].devs) :
         /\ new.id = was.id
         /\ new.url = was.url \/ was.url = ""
         /\ was.label # "" => new.label # ""

\* Records with an outside identity: one remote link for a globalId, which keeps its id until
\* it is deleted, no id given twice, one record for a pull request, deployment or build, and
\* no url or name of it ever erased by a later report that does not know it.
IdentityKept == [][KeepsRecords]_graphVars
=============================================================================
