----------------------------- MODULE ContentProofs -----------------------------
(***************************************************************************)
(* Proofs about what the store holds: the issue graph, the attachments,    *)
(* the pages and the documents, for any keys, types, contents, clients and *)
(* numbers of requests.  Each part has its inductive invariant; the last   *)
(* section puts the parts together as MCContent does.                      *)
(*                                                                         *)
(* Of the issues, the row that a link handler has still to put is part of  *)
(* the invariant: it is the stored row but for the one side, or the second *)
(* half would take back what came between.  Of the uploads, what each has  *)
(* achieved by its stage.  Of the pages, that an update still on its way   *)
(* carries the number after the version its editor saw: the version check  *)
(* alone does not say that an update sent twice enters a history once.  Of *)
(* the documents, that a graph's counters and clock are past its ids and   *)
(* stamps (GraphOK): halfway through Apply they need not be (LooseOK), and *)
(* the seeding brings them there.                                          *)
(***************************************************************************)
EXTENDS MCContent, FiniteNats

-----------------------------------------------------------------------------
(* The issue graph.                                                        *)

SideRow == [type : LinkType, role : {"inward", "outward"}, other : Key]
RemoteRow == [id : Nat, global : Global, url : Url]
DevStates == {"OPEN"} \cup UNION { DevState[kind] : kind \in Kind }
DevRow == [id : Kind \X (Url \cup Label), url : Url, label : Label, actor : Client, state : DevStates]
IssueRow == [type : Type, parent : Key \cup {NoParent}, updated : Nat,
             links : Seq(SideRow), remotes : Seq(RemoteRow), devs : Seq(DevRow)]
Link == LinkType \X Key \X Key

NoRepeats(list) == \A m, n \in DOMAIN list : list[m] = list[n] => m = n

GraphTypes ==
  /\ \E n \in 0..Len(KeyOf) : DOMAIN issue = FirstOf(KeyOf, n)
  /\ issue \in [DOMAIN issue -> IssueRow]
  /\ judged \in [DOMAIN issue -> [child : Type, parent : Type]]
  /\ clock \in Nat /\ minted \in Nat
  /\ wanted \subseteq Link
  /\ \A k \in DOMAIN issue : issue[k].parent \in DOMAIN issue \cup {NoParent} /\ issue[k].updated \in 1..clock

\* A parent was one level above by the types it was judged by.
JudgedOK ==
  \A k \in DOMAIN issue :
    issue[k].parent # NoParent => Level[judged[k].parent] = Level[judged[k].child] + 1

\* The sides a row k may show: of other issues, each once.
SidesOK(k, row) ==
  NoRepeats(row.links) /\ \A s \in ToSet(row.links) : s.other \in DOMAIN issue \ {k}

\* What a link puts in the row of its second and of its third element.
OutSide(link) == Side(link[1], "inward", link[3])
InSide(link) == Side(link[1], "outward", link[2])
Shows(row, side) == side \in ToSet(row.links)

\* The row that is still to be put is the stored one but for the link's side, and its
\* first half has been put.
SecondOK ==
  second # NoWrite =>
    LET link == second.link  was == issue[second.key]  row == second.row
    IN  /\ link \in Link /\ link[2] \in DOMAIN issue /\ link[3] \in DOMAIN issue
        /\ link[2] # link[3] /\ second.key = link[3] /\ second.adds \in BOOLEAN
        /\ row \in IssueRow /\ row.updated \in 1..clock
        /\ row.type = was.type /\ row.parent = was.parent
        /\ row.remotes = was.remotes /\ row.devs = was.devs
        /\ SidesOK(second.key, row)
        /\ \A s \in SideRow : Shows(row, s) <=> IF s = InSide(link) THEN second.adds ELSE Shows(was, s)
        /\ Shows(issue[link[2]], OutSide(link)) <=> second.adds

\* The links about which nothing is said: a request of theirs died, or is under way.
Unsettled == cut \cup (IF second = NoWrite THEN {} ELSE {second.link})

\* A link is shown at both its ends if it is wanted, and at none otherwise.
Agrees(link) ==
  /\ Shows(issue[link[2]], OutSide(link)) <=> link \in wanted
  /\ Shows(issue[link[3]], InSide(link)) <=> link \in wanted

LinksOK ==
  /\ \A k \in DOMAIN issue : SidesOK(k, issue[k])
  /\ \A link \in wanted : link[2] # link[3]
  /\ \A link \in Link \ Unsettled :
       link[2] \in DOMAIN issue /\ link[3] \in DOMAIN issue /\ link[2] # link[3] => Agrees(link)
  /\ \A link \in wanted : link[2] \in DOMAIN issue /\ link[3] \in DOMAIN issue

RemotesOK(list, top) ==
  /\ \A n \in DOMAIN list : list[n].id \in 1..top
  /\ \A m, n \in DOMAIN list :
       list[m].id = list[n].id \/ (list[m].global = list[n].global /\ list[m].global # "") => m = n

\* A record with a url is filed under it.
Filed(d) == d.url # "" => d.id[2] = d.url
DevsOK(list) ==
  /\ \A m, n \in DOMAIN list : list[m].id = list[n].id => m = n
  /\ \A n \in DOMAIN list : Filed(list[n])

RecordsOK == \A k \in DOMAIN issue : RemotesOK(issue[k].remotes, minted) /\ DevsOK(issue[k].devs)

GraphInv == GraphTypes /\ JudgedOK /\ SecondOK /\ LinksOK /\ RecordsOK
-----------------------------------------------------------------------------
(* Lists of sides and of records.                                          *)

LEMMA AppendedEntries ==
  ASSUME NEW X, NEW list \in Seq(X), NEW x \in X
  PROVE  /\ Append(list, x) \in Seq(X) /\ Len(list) \in Nat /\ DOMAIN list = 1..Len(list)
         /\ DOMAIN Append(list, x) = 1..(Len(list) + 1)
         /\ Append(list, x)[Len(list) + 1] = x
         /\ \A n \in 1..Len(list) : Append(list, x)[n] = list[n]
OBVIOUS

LEMMA ReplacedEntries ==
  ASSUME NEW X, NEW list \in Seq(X), NEW at \in DOMAIN list, NEW x \in X
  PROVE  LET now == [list EXCEPT ![at] = x]
         IN  /\ now \in Seq(X) /\ DOMAIN now = DOMAIN list /\ now[at] = x
             /\ \A n \in DOMAIN list : n # at => now[n] = list[n]
OBVIOUS

LEMMA DomainOfSeq ==
  ASSUME NEW X, NEW list \in Seq(X)
  PROVE  DOMAIN list \subseteq Nat
OBVIOUS

LEMMA AppendedSet ==
  ASSUME NEW X, NEW list \in Seq(X), NEW x \in X
  PROVE  /\ Append(list, x) \in Seq(X)
         /\ ToSet(Append(list, x)) = ToSet(list) \cup {x}
         /\ NoRepeats(list) /\ x \notin ToSet(list) => NoRepeats(Append(list, x))
<1>1. /\ Append(list, x) \in Seq(X) /\ Len(list) \in Nat /\ DOMAIN list = 1..Len(list)
      /\ DOMAIN Append(list, x) = 1..(Len(list) + 1)
      /\ Append(list, x)[Len(list) + 1] = x
      /\ \A n \in 1..Len(list) : Append(list, x)[n] = list[n]
  OBVIOUS
<1>2. ToSet(Append(list, x)) = ToSet(list) \cup {x}
  <2>1. \A y \in ToSet(list) : y \in ToSet(Append(list, x))
    BY <1>1 DEF ToSet
  <2>2. x \in ToSet(Append(list, x))
    BY <1>1 DEF ToSet
  <2>3. ASSUME NEW n \in DOMAIN Append(list, x)
        PROVE  Append(list, x)[n] \in ToSet(list) \cup {x}
    BY <1>1 DEF ToSet
  <2> QED BY <2>1, <2>2, <2>3 DEF ToSet
<1>3. NoRepeats(list) /\ x \notin ToSet(list) => NoRepeats(Append(list, x))
  BY <1>1 DEF NoRepeats, ToSet
<1> QED BY <1>1, <1>2, <1>3

LEMMA PickedSet ==
  ASSUME NEW X, NEW list \in Seq(X), NEW kept \in SUBSET DOMAIN list
  PROVE  /\ Picked(list, kept) \in Seq(X)
         /\ ToSet(Picked(list, kept)) = { list[n] : n \in kept }
         /\ NoRepeats(list) => NoRepeats(Picked(list, kept))
<1> DEFINE w == Picked(list, kept)
<1>1. w \in Seq(X)
  BY PickedEntries
<1>2. PICK at \in [DOMAIN w -> kept] :
        /\ \A i \in DOMAIN w : w[i] = list[at[i]]
        /\ \A i, j \in DOMAIN w : at[i] = at[j] => i = j
        /\ \A n \in kept : \E i \in DOMAIN w : at[i] = n
  BY PickedEntries
<1> HIDE DEF w
<1>3. ToSet(w) = { list[n] : n \in kept }
  BY <1>2 DEF ToSet
<1>4. NoRepeats(list) => NoRepeats(w)
  BY <1>2 DEF NoRepeats
<1> QED BY <1>1, <1>3, <1>4 DEF w

\* No record breaks nothing, and a counter may grow.
LEMMA NoRecords ==
  ASSUME NEW top
  PROVE  RemotesOK(<<>>, top) /\ DevsOK(<<>>)
BY DEF RemotesOK, DevsOK

LEMMA LaterCounter ==
  ASSUME NEW list, NEW was \in Nat, NEW top \in Nat, was <= top, RemotesOK(list, was)
  PROVE  RemotesOK(list, top)
<1>1. \A id \in 1..was : id \in 1..top
  OBVIOUS
<1> QED BY <1>1 DEF RemotesOK

\* What no accepted request does to a record: give it another identity, or forget it.
RemotesKept(list, now) ==
  \A r \in ToSet(list), s \in ToSet(now) :
    (r.id = s.id => r.global = s.global) /\ (r.global = s.global /\ r.global # "" => r.id = s.id)

DevsKept(list, now) ==
  \A d \in ToSet(list) : \E e \in ToSet(now) :
    e.id = d.id /\ (e.url = d.url \/ d.url = "") /\ (d.label # "" => e.label # "")

LEMMA SameKept ==
  ASSUME NEW list, NEW top, RemotesOK(list, top)
  PROVE  RemotesKept(list, list)
BY DEF RemotesOK, RemotesKept, ToSet

LEMMA SameDevsKept ==
  ASSUME NEW list
  PROVE  DevsKept(list, list)
BY DEF DevsKept

\* The first of some places is one of them.
LEMMA EarliestIs ==
  ASSUME NEW places \in SUBSET Nat, places # {}
  PROVE  Earliest(places) \in places
<1>1. PICK n \in places : \A m \in places : ~(<<m, n>> \in OpToRel(<, Nat))
  BY NatLessThanWellFounded, WFMin
<1>2. \A m \in places : ~(m < n)
  BY <1>1 DEF OpToRel
<1>3. \A m \in places : n <= m
  BY <1>2
<1> QED BY <1>3 DEF Earliest

\* A remote link that is new to the list, and one that is there.
Unknown(list, global) == \A n \in DOMAIN list : ~(global # "" /\ list[n].global = global)

LEMMA RemoteAdded ==
  ASSUME NEW list \in Seq(RemoteRow), NEW top \in Nat, RemotesOK(list, top),
         NEW global \in Global, NEW url \in Url, Unknown(list, global)
  PROVE  LET new == [id |-> top + 1, global |-> global, url |-> url]
             longer == Append(list, new)
         IN  longer \in Seq(RemoteRow) /\ RemotesOK(longer, top + 1) /\ RemotesKept(list, longer)
<1> DEFINE new == [id |-> top + 1, global |-> global, url |-> url]
           longer == Append(list, new)
<1>1. new \in RemoteRow /\ new.id = top + 1 /\ new.global = global
  <2>1. top + 1 \in Nat
    OBVIOUS
  <2> QED BY <2>1 DEF RemoteRow
<1> HIDE DEF new
<1>2. /\ longer \in Seq(RemoteRow) /\ DOMAIN list = 1..Len(list) /\ Len(list) \in Nat
      /\ DOMAIN longer = 1..(Len(list) + 1) /\ longer[Len(list) + 1] = new
      /\ \A n \in 1..Len(list) : longer[n] = list[n]
  BY <1>1, AppendedEntries
<1> HIDE DEF longer
<1>3. \A n \in DOMAIN longer :
        \/ n \in DOMAIN list /\ longer[n] = list[n]
        \/ n = Len(list) + 1 /\ longer[n] = new
  BY <1>2
<1>4. \A n \in DOMAIN list : list[n].id \in 1..(top + 1) /\ list[n].id # top + 1
  <2>1. \A n \in DOMAIN list : list[n].id \in 1..top
    BY DEF RemotesOK
  <2>2. \A id \in 1..top : id \in 1..(top + 1) /\ id # top + 1
    OBVIOUS
  <2> QED BY <2>1, <2>2
<1>5. RemotesOK(longer, top + 1)
  <2>1. \A n \in DOMAIN longer : longer[n].id \in 1..(top + 1)
    <3>1. top + 1 \in 1..(top + 1)
      OBVIOUS
    <3> QED BY <3>1, <1>1, <1>3, <1>4
  <2>2. ASSUME NEW m \in DOMAIN longer, NEW n \in DOMAIN longer,
               longer[m].id = longer[n].id
                 \/ (longer[m].global = longer[n].global /\ longer[m].global # "")
        PROVE  m = n
    BY <1>1, <1>3, <1>4, <2>2 DEF RemotesOK, Unknown
  <2> QED BY <2>1, <2>2 DEF RemotesOK
<1>6. RemotesKept(list, longer)
  <2>1. ASSUME NEW m \in DOMAIN list, NEW n \in DOMAIN longer
        PROVE  /\ list[m].id = longer[n].id => list[m].global = longer[n].global
               /\ list[m].global = longer[n].global /\ list[m].global # ""
                    => list[m].id = longer[n].id
    BY <1>1, <1>3, <1>4 DEF RemotesOK, Unknown
  <2> QED BY <2>1 DEF RemotesKept, ToSet
<1> QED BY <1>2, <1>5, <1>6 DEF longer, new

LEMMA RemoteUpdated ==
  ASSUME NEW list \in Seq(RemoteRow), NEW top, RemotesOK(list, top),
         NEW at \in DOMAIN list, NEW url \in Url
  PROVE  LET new == [list EXCEPT ![at].url = url]
         IN  new \in Seq(RemoteRow) /\ RemotesOK(new, top) /\ RemotesKept(list, new)
<1> DEFINE new == [list EXCEPT ![at].url = url]
<1>1. \A n \in DOMAIN list : list[n] \in RemoteRow
  OBVIOUS
<1>2. /\ DOMAIN new = DOMAIN list
      /\ \A n \in DOMAIN list :
           new[n] \in RemoteRow /\ new[n].id = list[n].id /\ new[n].global = list[n].global
  BY <1>1 DEF RemoteRow
<1>3. new \in Seq(RemoteRow)
  <2>1. new = [n \in 1..Len(list) |-> new[n]] /\ Len(list) \in Nat
    OBVIOUS
  <2>2. \A n \in 1..Len(list) : new[n] \in RemoteRow
    BY <1>2
  <2> HIDE DEF new
  <2> QED BY <2>1, <2>2, IsASeq
<1> HIDE DEF new
<1>4. RemotesOK(new, top)
  BY <1>2 DEF RemotesOK
<1>5. RemotesKept(list, new)
  <2> SUFFICES ASSUME NEW r \in ToSet(list), NEW s \in ToSet(new)
               PROVE  /\ r.id = s.id => r.global = s.global
                      /\ r.global = s.global /\ r.global # "" => r.id = s.id
    BY DEF RemotesKept
  <2>1. PICK m \in DOMAIN list : r = list[m]
    BY DEF ToSet
  <2>2. PICK n \in DOMAIN list : s = new[n]
    BY <1>2 DEF ToSet
  <2>3. s.id = list[n].id /\ s.global = list[n].global
    BY <1>2, <2>2
  <2> QED BY <2>1, <2>3 DEF RemotesOK
<1> QED BY <1>3, <1>4, <1>5 DEF new

\* The remote links that are left when some are deleted.
LEMMA RemotesLeft ==
  ASSUME NEW list \in Seq(RemoteRow), NEW top, RemotesOK(list, top), NEW kept \in SUBSET DOMAIN list
  PROVE  LET left == Picked(list, kept)
         IN  left \in Seq(RemoteRow) /\ RemotesOK(left, top) /\ RemotesKept(list, left)
<1> DEFINE left == Picked(list, kept)
<1>1. left \in Seq(RemoteRow)
  BY PickedEntries
<1>2. PICK at \in [DOMAIN left -> kept] :
        /\ \A i \in DOMAIN left : left[i] = list[at[i]]
        /\ \A i, j \in DOMAIN left : at[i] = at[j] => i = j
  BY PickedEntries
<1> HIDE DEF left
<1>3. \A i \in DOMAIN left : at[i] \in DOMAIN list
  BY <1>2
<1>4. RemotesOK(left, top)
  <2>1. \A i \in DOMAIN left : left[i].id \in 1..top
    BY <1>2, <1>3 DEF RemotesOK
  <2>2. ASSUME NEW m \in DOMAIN left, NEW n \in DOMAIN left,
               left[m].id = left[n].id
                 \/ (left[m].global = left[n].global /\ left[m].global # "")
        PROVE  m = n
    <3>1. /\ left[m] = list[at[m]] /\ at[m] \in DOMAIN list
          /\ left[n] = list[at[n]] /\ at[n] \in DOMAIN list
      BY <1>2, <1>3
    <3>2. at[m] = at[n]
      BY <2>2, <3>1 DEF RemotesOK
    <3> QED BY <3>2, <1>2
  <2> QED BY <2>1, <2>2 DEF RemotesOK
<1>5. RemotesKept(list, left)
  <2>1. ASSUME NEW m \in DOMAIN list, NEW n \in DOMAIN left
        PROVE  /\ list[m].id = left[n].id => list[m].global = left[n].global
               /\ list[m].global = left[n].global /\ list[m].global # "" => list[m].id = left[n].id
    <3>1. left[n] = list[at[n]] /\ at[n] \in DOMAIN list
      BY <1>2, <1>3
    <3> QED BY <3>1 DEF RemotesOK
  <2> QED BY <2>1 DEF RemotesKept, ToSet
<1> QED BY <1>1, <1>4, <1>5 DEF left

\* A development record that is new to the list, and one that is merged with its earlier form.
UnknownDev(list, id) == \A n \in DOMAIN list : list[n].id # id

LEMMA DevAdded ==
  ASSUME NEW list \in Seq(DevRow), DevsOK(list), NEW new \in DevRow,
         Filed(new), UnknownDev(list, new.id)
  PROVE  LET longer == Append(list, new)
         IN  longer \in Seq(DevRow) /\ DevsOK(longer) /\ DevsKept(list, longer)
<1> DEFINE longer == Append(list, new)
<1>1. /\ longer \in Seq(DevRow) /\ DOMAIN list = 1..Len(list) /\ Len(list) \in Nat
      /\ DOMAIN longer = 1..(Len(list) + 1) /\ longer[Len(list) + 1] = new
      /\ \A n \in 1..Len(list) : longer[n] = list[n]
  BY AppendedEntries
<1> HIDE DEF longer
<1>2. \A n \in DOMAIN longer :
        \/ n \in DOMAIN list /\ longer[n] = list[n]
        \/ n = Len(list) + 1 /\ longer[n] = new
  BY <1>1
<1>3. DevsOK(longer)
  <2>1. ASSUME NEW n \in DOMAIN longer
        PROVE  Filed(longer[n])
    BY <1>2 DEF DevsOK
  <2>2. ASSUME NEW m \in DOMAIN longer, NEW n \in DOMAIN longer, longer[m].id = longer[n].id
        PROVE  m = n
    BY <1>2, <2>2 DEF DevsOK, UnknownDev
  <2> QED BY <2>1, <2>2 DEF DevsOK
<1>4. DevsKept(list, longer)
  <2>1. \A d \in ToSet(list) : d \in ToSet(longer)
    BY <1>1 DEF ToSet
  <2> QED BY <2>1 DEF DevsKept
<1> QED BY <1>1, <1>3, <1>4 DEF longer

LEMMA DevMerged ==
  ASSUME NEW list \in Seq(DevRow), DevsOK(list), NEW new \in DevRow,
         Filed(new), NEW at \in DOMAIN list, list[at].id = new.id
  PROVE  LET now == [list EXCEPT ![at] = Merged(list[at], new)]
         IN  now \in Seq(DevRow) /\ DevsOK(now) /\ DevsKept(list, now)
<1> DEFINE one == Merged(list[at], new)
           now == [list EXCEPT ![at] = one]
<1>1. list[at] \in DevRow
  OBVIOUS
<1>2. /\ one \in DevRow /\ one.id = new.id
      /\ one.url = IF new.url = "" THEN list[at].url ELSE new.url
      /\ one.label = IF new.label = "" THEN list[at].label ELSE new.label
  BY <1>1 DEF Merged, DevRow
<1> HIDE DEF one
<1>3. /\ now \in Seq(DevRow) /\ DOMAIN now = DOMAIN list /\ now[at] = one
      /\ \A n \in DOMAIN list : n # at => now[n] = list[n]
  BY <1>2, ReplacedEntries
<1> HIDE DEF now
<1>4. Filed(list[at])
  BY DEF DevsOK
<1>5. Filed(one)
  BY <1>2, <1>4 DEF Filed
<1>6. \A n \in DOMAIN list : now[n].id = list[n].id
  BY <1>2, <1>3
<1>7. DevsOK(now)
  <2>1. ASSUME NEW n \in DOMAIN now
        PROVE  Filed(now[n])
    BY <1>3, <1>5 DEF DevsOK
  <2>2. ASSUME NEW m \in DOMAIN now, NEW n \in DOMAIN now, now[m].id = now[n].id
        PROVE  m = n
    BY <1>3, <1>6, <2>2 DEF DevsOK
  <2> QED BY <2>1, <2>2 DEF DevsOK
<1>8. DevsKept(list, now)
  <2> SUFFICES ASSUME NEW d \in ToSet(list)
               PROVE  \E e \in ToSet(now) :
                        e.id = d.id /\ (e.url = d.url \/ d.url = "") /\ (d.label # "" => e.label # "")
    BY DEF DevsKept
  <2>3. PICK n \in DOMAIN list : d = list[n]
    BY DEF ToSet
  <2>4. now[n] \in ToSet(now)
    BY <1>3 DEF ToSet
  <2>5. /\ now[n].id = d.id
        /\ now[n].url = d.url \/ d.url = ""
        /\ d.label # "" => now[n].label # ""
    <3>1. CASE n = at
      <4>1. now[n] = one
        BY <1>3, <3>1
      <4> QED BY <4>1, <3>1, <2>3, <1>2, <1>4 DEF Filed
    <3>2. CASE n # at
      BY <1>3, <2>3, <3>2
    <3> QED BY <3>1, <3>2
  <2> QED BY <2>4, <2>5
<1> QED BY <1>3, <1>7, <1>8 DEF now, one

\* A row that a link writes differs by one side.
LEMMA WithSideIs ==
  ASSUME NEW k \in DOMAIN issue, issue[k] \in IssueRow, clock \in Nat, NEW side \in SideRow,
         NoRepeats(issue[k].links)
  PROVE  LET w == WithSide(k, side)
         IN  /\ w \in IssueRow /\ w.type = issue[k].type /\ w.parent = issue[k].parent
             /\ w.updated = clock + 1 /\ w.remotes = issue[k].remotes /\ w.devs = issue[k].devs
             /\ NoRepeats(w.links) /\ ToSet(w.links) = ToSet(issue[k].links) \cup {side}
<1> DEFINE list == issue[k].links
           new == IF HasDirectedLink(k, side) THEN list ELSE Append(list, side)
<1>1. list \in Seq(SideRow)
  BY DEF IssueRow
<1>2. new \in Seq(SideRow) /\ NoRepeats(new) /\ ToSet(new) = ToSet(list) \cup {side}
  <2> HIDE DEF list
  <2>1. CASE HasDirectedLink(k, side)
    BY <1>1, <2>1 DEF HasDirectedLink, list
  <2>2. CASE ~HasDirectedLink(k, side)
    BY <1>1, <2>2, AppendedSet DEF HasDirectedLink, list
  <2> QED BY <2>1, <2>2
<1> DEFINE w == WithSide(k, side)
           row == issue[k]
<1>3. w = [row EXCEPT !.links = new, !.updated = clock + 1] /\ row \in IssueRow
  BY DEF WithSide
<1> HIDE DEF new, w, row, list
<1>4. /\ w \in IssueRow /\ w.type = row.type /\ w.parent = row.parent
      /\ w.updated = clock + 1 /\ w.remotes = row.remotes /\ w.devs = row.devs
      /\ w.links = new
  <2>1. clock + 1 \in Nat /\ new \in Seq(SideRow)
    BY <1>2
  <2> QED BY <2>1, <1>3 DEF IssueRow
<1> QED BY <1>2, <1>4 DEF w, row, list

LEMMA WithoutSideIs ==
  ASSUME NEW k \in DOMAIN issue, issue[k] \in IssueRow, clock \in Nat, NEW side \in SideRow,
         NoRepeats(issue[k].links)
  PROVE  LET w == WithoutSide(k, side)
         IN  /\ w \in IssueRow /\ w.type = issue[k].type /\ w.parent = issue[k].parent
             /\ w.updated = clock + 1 /\ w.remotes = issue[k].remotes /\ w.devs = issue[k].devs
             /\ NoRepeats(w.links) /\ ToSet(w.links) = ToSet(issue[k].links) \ {side}
<1> DEFINE list == issue[k].links
           kept == { n \in DOMAIN list : list[n] # side }
           new == Picked(list, kept)
<1>1. list \in Seq(SideRow)
  BY DEF IssueRow
<1>2. new \in Seq(SideRow) /\ NoRepeats(new) /\ ToSet(new) = ToSet(list) \ {side}
  <2>1. { list[n] : n \in kept } = ToSet(list) \ {side} /\ kept \in SUBSET DOMAIN list
    BY DEF ToSet
  <2>2. NoRepeats(list)
    OBVIOUS
  <2> HIDE DEF list, kept
  <2> QED BY <1>1, <2>1, <2>2, PickedSet
<1> DEFINE w == WithoutSide(k, side)
           row == issue[k]
<1>3. w = [row EXCEPT !.links = new, !.updated = clock + 1] /\ row \in IssueRow
  BY DEF WithoutSide
<1> HIDE DEF new, w, row, list
<1>4. /\ w \in IssueRow /\ w.type = row.type /\ w.parent = row.parent
      /\ w.updated = clock + 1 /\ w.remotes = row.remotes /\ w.devs = row.devs
      /\ w.links = new
  <2>1. clock + 1 \in Nat /\ new \in Seq(SideRow)
    BY <1>2
  <2> QED BY <2>1, <1>3 DEF IssueRow
<1> QED BY <1>2, <1>4 DEF w, row, list
-----------------------------------------------------------------------------
(* The inductive invariant.                                                *)

LEMMA GraphInvInitially == GraphInit => GraphInv
<1> SUFFICES ASSUME GraphInit
             PROVE  GraphInv
  OBVIOUS
<1>1. /\ DOMAIN issue = {} /\ issue = << >> /\ judged = << >> /\ clock = 0 /\ minted = 0
      /\ wanted = {} /\ cut = {} /\ second = NoWrite
  BY DEF GraphInit
<1>2. GraphTypes
  <2>1. 0 \in 0..Len(KeyOf) /\ DOMAIN issue = FirstOf(KeyOf, 0)
    <3>1. FirstOf(KeyOf, 0) = {}
      BY DEF FirstOf
    <3>2. KeyOf \in Seq(STRING)
      BY IssueGraphAssumption
    <3>3. Len(KeyOf) \in Nat
      BY <3>2
    <3> QED BY <1>1, <3>1, <3>3
  <2>2. issue = [k \in {} |-> 0] /\ judged = [k \in {} |-> 0]
    BY <1>1
  <2> QED BY <1>1, <2>1, <2>2 DEF GraphTypes
<1>3. LinksOK
  BY <1>1 DEF LinksOK
<1> QED BY <1>1, <1>2, <1>3 DEF GraphInv, JudgedOK, SecondOK, RecordsOK

LEMMA KeysAreStrings == /\ \A k \in Key : k # NoParent
                        /\ NoWrite.key = NoParent
BY IssueGraphAssumption DEF Key, NoParent, NoWrite

LEMMA IssuesHaveKeys ==
  ASSUME GraphTypes
  PROVE  DOMAIN issue \subseteq Key
<1>1. PICK n \in 0..Len(KeyOf) : DOMAIN issue = FirstOf(KeyOf, n)
  BY DEF GraphTypes
<1>2. KeyOf \in Seq(STRING)
  BY IssueGraphAssumption
<1>3. \A i \in 1..n : i \in DOMAIN KeyOf
  BY <1>2
<1> QED BY <1>1, <1>3 DEF FirstOf, Key, ToSet

\* A step that is not about the records of any issue.
RecordsStay ==
  \A k \in DOMAIN issue : issue'[k].remotes = issue[k].remotes /\ issue'[k].devs = issue[k].devs

LEMMA CreateSteps ==
  ASSUME GraphInv, NEW asked, NEW parent \in Key \cup {NoParent}, CreateIssue(asked, parent)
  PROVE  GraphInv' /\ RecordsStay
<1> DEFINE key == KeyOf[Cardinality(DOMAIN issue) + 1]
           type == CreateType(asked)
           row == [type |-> type, parent |-> parent, updated |-> clock + 1,
                   links |-> <<>>, remotes |-> <<>>, devs |-> <<>>]
<1>a. GraphTypes /\ JudgedOK /\ LinksOK /\ RecordsOK
  BY DEF GraphInv
<1>1. /\ second = NoWrite /\ second' = NoWrite /\ clock' = clock + 1
      /\ minted' = minted /\ wanted' = wanted /\ cut' = cut
      /\ type \in Type /\ ParentFits(type, parent)
      /\ issue' = Extended(issue, key, row)
      /\ judged' = Extended(judged, key, Judgement(type, parent))
      /\ Cardinality(DOMAIN issue) < Len(KeyOf)
  BY DEF CreateIssue, Request
<1>2. /\ key \in Key /\ key \notin DOMAIN issue
      /\ \E n \in 0..Len(KeyOf) : DOMAIN issue \cup {key} = FirstOf(KeyOf, n)
  <2>1. PICK n \in 0..Len(KeyOf) : DOMAIN issue = FirstOf(KeyOf, n)
    BY <1>a DEF GraphTypes
  <2>2. KeyOf \in Seq(STRING) /\ \A i, j \in DOMAIN KeyOf : KeyOf[i] = KeyOf[j] => i = j
    BY IssueGraphAssumption
  <2>3. Cardinality(DOMAIN issue) = n
    <3>1. Cardinality(FirstOf(KeyOf, n)) = n
      BY <2>2, FirstOnes
    <3> QED BY <2>1, <3>1
  <2>4. n < Len(KeyOf) /\ key = KeyOf[n + 1] /\ n + 1 \in 0..Len(KeyOf) /\ n + 1 \in DOMAIN KeyOf
    BY <1>1, <2>1, <2>2, <2>3
  <2>5. key \in Key
    BY <2>4 DEF Key, ToSet
  <2> QED BY <2>1, <2>2, <2>4, <2>5, FirstOnes
<1>3. /\ DOMAIN issue' = DOMAIN issue \cup {key} /\ issue'[key] = row
      /\ \A k \in DOMAIN issue : issue'[k] = issue[k]
      /\ DOMAIN judged' = DOMAIN issue \cup {key} /\ judged'[key] = Judgement(type, parent)
      /\ \A k \in DOMAIN issue : judged'[k] = judged[k]
  BY <1>1, <1>2, <1>a DEF Extended, GraphTypes
<1>4. /\ parent \in DOMAIN issue \cup {NoParent}
      /\ parent # NoParent => Level[issue[parent].type] = Level[type] + 1
  BY <1>1 DEF ParentFits
<1>5. row \in IssueRow /\ row.links = <<>> /\ row.remotes = <<>> /\ row.devs = <<>>
      /\ row.parent = parent /\ row.updated = clock + 1 /\ row.type = type
  <2>1. clock + 1 \in Nat
    BY <1>a DEF GraphTypes
  <2> HIDE DEF type
  <2> QED BY <1>1, <2>1 DEF IssueRow
<1>6. /\ Judgement(type, parent) \in [child : Type, parent : Type]
      /\ Judgement(type, parent).child = type
      /\ parent # NoParent => Judgement(type, parent).parent = issue[parent].type
  <2>1. parent # NoParent => issue[parent].type \in Type
    BY <1>4, <1>a DEF GraphTypes, IssueRow
  <2> HIDE DEF type
  <2> QED BY <1>1, <2>1 DEF Judgement
<1> HIDE DEF key, row, type
<1>7. GraphTypes'
  <2>1. issue' \in [DOMAIN issue' -> IssueRow]
    BY <1>1, <1>3, <1>5, <1>a DEF GraphTypes, Extended
  <2>2. judged' \in [DOMAIN issue' -> [child : Type, parent : Type]]
    <3>1. \A k \in DOMAIN issue : judged[k] \in [child : Type, parent : Type]
      BY <1>a DEF GraphTypes
    <3>2. \A k \in DOMAIN issue' : judged'[k] \in [child : Type, parent : Type]
      BY <1>3, <1>6, <3>1
    <3>3. judged' = [k \in DOMAIN issue' |-> judged'[k]]
      BY <1>1, <1>3 DEF Extended
    <3> QED BY <3>2, <3>3
  <2>3. \A k \in DOMAIN issue' : issue'[k].parent \in DOMAIN issue' \cup {NoParent}
                                 /\ issue'[k].updated \in 1..clock'
    BY <1>1, <1>3, <1>4, <1>5, <1>a DEF GraphTypes
  <2>4. clock' \in Nat /\ minted' \in Nat /\ (wanted \subseteq Link)'
    <3>1. clock \in Nat /\ minted \in Nat /\ wanted \subseteq Link
      BY <1>a DEF GraphTypes
    <3> QED BY <1>1, <3>1 DEF Link
  <2>5. (\E n \in 0..Len(KeyOf) : DOMAIN issue = FirstOf(KeyOf, n))'
    BY <1>2, <1>3
  <2> QED BY <2>1, <2>2, <2>3, <2>4, <2>5 DEF GraphTypes
<1>8. JudgedOK'
  <2>1. ASSUME NEW k \in DOMAIN issue', issue'[k].parent # NoParent
        PROVE  Level[judged'[k].parent] = Level[judged'[k].child] + 1
    <3>1. CASE k = key
      <4>1. judged'[k] = Judgement(type, parent) /\ issue'[k] = row
        BY <1>3, <3>1
      <4>2. parent # NoParent
        BY <4>1, <2>1, <1>5
      <4> QED BY <4>1, <4>2, <1>4, <1>6
    <3>2. CASE k \in DOMAIN issue
      BY <1>3, <2>1, <3>2, <1>a DEF JudgedOK
    <3> QED BY <1>3, <3>1, <3>2
  <2> QED BY <2>1 DEF JudgedOK
<1>9. LinksOK'
  <2>1. ASSUME NEW k \in DOMAIN issue'
        PROVE  SidesOK(k, issue[k])'
    <3>1. CASE k = key
      BY <1>3, <1>5, <3>1 DEF SidesOK, NoRepeats, ToSet
    <3>2. CASE k \in DOMAIN issue
      BY <1>3, <3>2, <1>a DEF LinksOK, SidesOK
    <3> QED BY <1>3, <3>1, <3>2
  <2>2. ASSUME NEW link \in Link \ Unsettled', link[2] \in DOMAIN issue', link[3] \in DOMAIN issue',
               link[2] # link[3]
        PROVE  Agrees(link)'
    <3>1. CASE link[2] \in DOMAIN issue /\ link[3] \in DOMAIN issue
      <4>1. Agrees(link)
        BY <2>2, <3>1, <1>1, <1>a DEF LinksOK, Unsettled
      <4> QED BY <1>1, <1>3, <3>1, <4>1 DEF Agrees, Shows
    <3>2. CASE link[2] = key \/ link[3] = key
      <4>1. link \notin wanted
        BY <1>2, <3>2, <1>a DEF LinksOK
      <4>2. OutSide(link).other = link[3] /\ InSide(link).other = link[2]
        BY DEF OutSide, InSide, Side
      <4>3. ASSUME NEW k \in DOMAIN issue', NEW s, Shows(issue'[k], s)
            PROVE  k \in DOMAIN issue /\ s.other \in DOMAIN issue
        BY <1>3, <1>5, <4>3, <1>a DEF LinksOK, SidesOK, Shows, ToSet
      <4> QED BY <1>1, <1>2, <2>2, <3>2, <4>1, <4>2, <4>3 DEF Agrees
    <3> QED BY <1>3, <2>2, <3>1, <3>2
  <2> QED BY <1>1, <1>3, <2>1, <2>2, <1>a DEF LinksOK
<1>10. RecordsOK'
  <2>1. ASSUME NEW k \in DOMAIN issue'
        PROVE  RemotesOK(issue'[k].remotes, minted) /\ DevsOK(issue'[k].devs)
    <3>1. CASE k = key
      <4>1. issue'[k] = row
        BY <1>3, <3>1
      <4> QED BY <4>1, <1>5, NoRecords
    <3>2. CASE k \in DOMAIN issue
      <4>1. issue'[k] = issue[k]
        BY <1>3, <3>2
      <4> QED BY <4>1, <3>2, <1>a DEF RecordsOK
    <3> QED BY <1>3, <3>1, <3>2
  <2> QED BY <2>1, <1>1 DEF RecordsOK, RemotesOK, DevsOK
<1> QED BY <1>1, <1>3, <1>7, <1>8, <1>9, <1>10 DEF GraphInv, SecondOK, RecordsStay

\* One row is written anew with the links it had.
LEMMA RowWritten ==
  ASSUME GraphInv, second = NoWrite, NEW k \in DOMAIN issue, NEW row \in IssueRow,
         issue' = [issue EXCEPT ![k] = row], clock' = clock + 1,
         minted' \in Nat, minted <= minted',
         UNCHANGED <<second, wanted, cut>>,
         row.updated = clock + 1, row.parent \in DOMAIN issue \cup {NoParent},
         row.links = issue[k].links,
         judged' \in [DOMAIN issue -> [child : Type, parent : Type]],
         \A j \in DOMAIN issue \ {k} : judged'[j] = judged[j],
         row.parent # NoParent => Level[judged'[k].parent] = Level[judged'[k].child] + 1,
         RemotesOK(row.remotes, minted'), DevsOK(row.devs)
  PROVE  GraphInv'
<1>a. GraphTypes /\ JudgedOK /\ LinksOK /\ RecordsOK
  BY DEF GraphInv
<1>1. /\ DOMAIN issue' = DOMAIN issue /\ issue'[k] = row
      /\ \A j \in DOMAIN issue \ {k} : issue'[j] = issue[j]
      /\ \A j \in DOMAIN issue : issue'[j].links = issue[j].links
  BY <1>a DEF GraphTypes
<1>2. GraphTypes'
  <2>1. \A j \in DOMAIN issue' : issue'[j].parent \in DOMAIN issue' \cup {NoParent}
                                 /\ issue'[j].updated \in 1..clock'
    BY <1>1, <1>a DEF GraphTypes
  <2>2. issue' \in [DOMAIN issue' -> IssueRow]
    BY <1>1, <1>a DEF GraphTypes
  <2>3. clock' \in Nat /\ minted' \in Nat /\ (wanted \subseteq Link)'
        /\ (\E n \in 0..Len(KeyOf) : DOMAIN issue = FirstOf(KeyOf, n))'
        /\ judged' \in [DOMAIN issue' -> [child : Type, parent : Type]]
    BY <1>1, <1>a DEF GraphTypes
  <2> QED BY <2>1, <2>2, <2>3 DEF GraphTypes
<1>3. JudgedOK'
  BY <1>1, <1>a DEF JudgedOK
<1>4. LinksOK'
  BY <1>1, <1>a DEF LinksOK, SidesOK, Agrees, Shows, Unsettled, OutSide, InSide
<1>5. RecordsOK'
  <2>1. ASSUME NEW j \in DOMAIN issue'
        PROVE  RemotesOK(issue'[j].remotes, minted') /\ DevsOK(issue'[j].devs)
    <3>1. CASE j = k
      BY <1>1, <3>1
    <3>2. CASE j # k
      <4>1. issue'[j] = issue[j] /\ RemotesOK(issue[j].remotes, minted) /\ DevsOK(issue[j].devs)
        BY <1>1, <3>2, <1>a DEF RecordsOK
      <4>2. minted \in Nat
        BY <1>a DEF GraphTypes
      <4>3. RemotesOK(issue[j].remotes, minted')
        BY <4>1, <4>2, LaterCounter
      <4> QED BY <4>1, <4>3
    <3> QED BY <3>1, <3>2
  <2> QED BY <2>1 DEF RecordsOK, RemotesOK, DevsOK
<1> QED BY <1>2, <1>3, <1>4, <1>5 DEF GraphInv, SecondOK

\* An accepted edit.
LEMMA UpdateSteps ==
  ASSUME GraphInv, NEW k, NEW type \in Type \cup {Absent}, NEW parent,
         UpdateIssue(k, type, parent)
  PROVE  GraphInv' /\ RecordsStay
<1> DEFINE row == [issue[k] EXCEPT !.type = IF type = Absent THEN @ ELSE type,
                                   !.parent = IF parent = Absent THEN @ ELSE parent,
                                   !.updated = clock + 1]
           now == IF type = Absent THEN issue[k].type ELSE type
<1>a. GraphTypes /\ JudgedOK /\ RecordsOK
  BY DEF GraphInv
<1>1. /\ k \in DOMAIN issue /\ second = NoWrite /\ issue' = [issue EXCEPT ![k] = row]
      /\ clock' = clock + 1 /\ minted' = minted /\ UNCHANGED <<second, wanted, cut>>
      /\ parent # Absent => ParentFits(row.type, parent)
      /\ judged' = IF parent = Absent THEN judged
                   ELSE [judged EXCEPT ![k] = Judgement(row.type, parent)]
  BY DEF UpdateIssue, Request
<1>2. /\ issue[k] \in IssueRow /\ clock + 1 \in Nat /\ minted \in Nat
      /\ judged \in [DOMAIN issue -> [child : Type, parent : Type]]
      /\ issue[k].parent \in DOMAIN issue \cup {NoParent}
      /\ issue[k].parent # NoParent => Level[judged[k].parent] = Level[judged[k].child] + 1
      /\ \A j \in DOMAIN issue : issue[j].type \in Type
      /\ DOMAIN issue \subseteq Key
  <2>1. \A j \in DOMAIN issue : issue[j] \in IssueRow
    BY <1>a DEF GraphTypes
  <2>2. \A j \in DOMAIN issue : issue[j].type \in Type
    BY <2>1 DEF IssueRow
  <2>3. DOMAIN issue \subseteq Key
    BY <1>a, IssuesHaveKeys
  <2> QED BY <1>1, <1>a, <2>1, <2>2, <2>3 DEF GraphTypes, JudgedOK
<1>3. now \in Type
  BY <1>1, <1>2
<1>4. ASSUME parent # Absent
      PROVE  /\ parent \in DOMAIN issue \cup {NoParent}
             /\ parent # NoParent => Level[issue[parent].type] = Level[now] + 1
  <2>1. row.type = now
    BY <1>2 DEF IssueRow
  <2> HIDE DEF row, now
  <2> QED BY <1>1, <1>4, <2>1 DEF ParentFits
<1> HIDE DEF now
<1>5. /\ row \in IssueRow /\ row.type = now /\ row.updated = clock + 1
      /\ row.links = issue[k].links /\ row.remotes = issue[k].remotes /\ row.devs = issue[k].devs
      /\ row.parent = IF parent = Absent THEN issue[k].parent ELSE parent
      /\ row.parent \in DOMAIN issue \cup {NoParent}
  BY <1>2, <1>3, <1>4 DEF IssueRow, now
<1> HIDE DEF row
<1>6. /\ judged' \in [DOMAIN issue -> [child : Type, parent : Type]]
      /\ \A j \in DOMAIN issue \ {k} : judged'[j] = judged[j]
      /\ row.parent # NoParent => Level[judged'[k].parent] = Level[judged'[k].child] + 1
  <2>1. CASE parent = Absent
    <3>1. judged' = judged /\ row.parent = issue[k].parent
      BY <1>1, <1>5, <2>1
    <3> QED BY <3>1, <1>2
  <2>2. CASE parent # Absent
    <3> DEFINE j == Judgement(now, parent)
    <3>1. /\ j \in [child : Type, parent : Type] /\ j.child = now
          /\ parent # NoParent => j.parent = issue[parent].type
      <4>1. parent # NoParent => issue[parent].type \in Type
        BY <1>2, <1>4, <2>2
      <4> QED BY <4>1, <1>3 DEF Judgement
    <3> HIDE DEF j
    <3>2. judged' = [judged EXCEPT ![k] = j] /\ row.parent = parent
      BY <1>1, <1>5, <2>2 DEF j
    <3>3. /\ judged' \in [DOMAIN issue -> [child : Type, parent : Type]]
          /\ \A i \in DOMAIN issue \ {k} : judged'[i] = judged[i]
          /\ judged'[k] = j
      BY <1>1, <1>2, <3>1, <3>2
    <3>4. row.parent # NoParent => Level[j.parent] = Level[j.child] + 1
      BY <3>1, <3>2, <1>4, <2>2
    <3> QED BY <3>3, <3>4
  <2> QED BY <2>1, <2>2
<1>7. RemotesOK(row.remotes, minted') /\ DevsOK(row.devs)
  BY <1>1, <1>5, <1>a DEF RecordsOK
<1>8. minted' \in Nat /\ minted <= minted'
  BY <1>1, <1>2
<1>9. GraphInv'
  BY <1>1, <1>5, <1>6, <1>7, <1>8, RowWritten
<1>10. issue'[k] = row /\ \A j \in DOMAIN issue : j # k => issue'[j] = issue[j]
  BY <1>1, <1>a DEF GraphTypes
<1> QED BY <1>5, <1>9, <1>10 DEF RecordsStay

\* A request about the records of an issue: its row is put again with another list.
LEMMA RecordsPut ==
  ASSUME GraphInv, second = NoWrite, NEW k \in DOMAIN issue,
         NEW remotes \in Seq(RemoteRow), NEW devs \in Seq(DevRow),
         PutRow(k, [issue[k] EXCEPT !.remotes = remotes, !.devs = devs]),
         minted' \in Nat, minted <= minted', RemotesOK(remotes, minted'), DevsOK(devs)
  PROVE  GraphInv' /\ issue'[k].remotes = remotes /\ issue'[k].devs = devs
<1> DEFINE row == [issue[k] EXCEPT !.remotes = remotes, !.devs = devs, !.updated = clock + 1]
<1>a. GraphTypes /\ JudgedOK
  BY DEF GraphInv
<1>1. /\ issue[k] \in IssueRow /\ clock + 1 \in Nat
      /\ judged \in [DOMAIN issue -> [child : Type, parent : Type]]
      /\ issue[k].parent \in DOMAIN issue \cup {NoParent}
      /\ issue[k].parent # NoParent => Level[judged[k].parent] = Level[judged[k].child] + 1
  BY <1>a DEF GraphTypes, JudgedOK
<1>2. issue' = [issue EXCEPT ![k] = row] /\ clock' = clock + 1 /\ UNCHANGED <<second, wanted, cut, judged>>
  BY DEF PutRow, observed
<1>3. /\ row \in IssueRow /\ row.updated = clock + 1 /\ row.parent = issue[k].parent
      /\ row.links = issue[k].links /\ row.remotes = remotes /\ row.devs = devs
  BY <1>1 DEF IssueRow
<1> HIDE DEF row
<1>4. GraphInv'
  BY <1>1, <1>2, <1>3, RowWritten
<1> QED BY <1>2, <1>3, <1>4

LEMMA UpsertSteps ==
  ASSUME GraphInv, NEW k, NEW global \in Global, NEW url \in Url, UpsertRemoteLink(k, global, url)
  PROVE  /\ GraphInv' /\ k \in DOMAIN issue /\ \A j \in DOMAIN issue \ {k} : issue'[j] = issue[j]
         /\ RemotesKept(issue[k].remotes, issue'[k].remotes) /\ issue'[k].devs = issue[k].devs
<1> DEFINE list == issue[k].remotes
           places == { n \in DOMAIN list : global # "" /\ list[n].global = global }
           at == Earliest(places)
<1>a. GraphTypes /\ RecordsOK
  BY DEF GraphInv
<1>1. k \in DOMAIN issue /\ second = NoWrite
  BY DEF UpsertRemoteLink, Request
<1>2. /\ list \in Seq(RemoteRow) /\ issue[k].devs \in Seq(DevRow) /\ issue[k] \in IssueRow
      /\ RemotesOK(list, minted) /\ DevsOK(issue[k].devs) /\ minted \in Nat
  BY <1>1, <1>a DEF GraphTypes, IssueRow, RecordsOK
<1>3. \A remotes : PutRow(k, [issue[k] EXCEPT !.remotes = remotes])
        => /\ PutRow(k, [issue[k] EXCEPT !.remotes = remotes, !.devs = issue[k].devs])
           /\ \A j \in DOMAIN issue \ {k} : issue'[j] = issue[j]
  <2> TAKE remotes
  <2>1. [issue[k] EXCEPT !.remotes = remotes] = [issue[k] EXCEPT !.remotes = remotes, !.devs = issue[k].devs]
    BY <1>2 DEF IssueRow
  <2> QED BY <2>1, <1>1, <1>a DEF PutRow, GraphTypes
<1>4. CASE places = {}
  <2> DEFINE longer == Append(list, [id |-> minted + 1, global |-> global, url |-> url])
  <2>1. minted' = minted + 1 /\ PutRow(k, [issue[k] EXCEPT !.remotes = longer])
    BY <1>4 DEF UpsertRemoteLink, Places
  <2>2. Unknown(list, global)
    BY <1>4 DEF Unknown
  <2>3. longer \in Seq(RemoteRow) /\ RemotesOK(longer, minted + 1) /\ RemotesKept(list, longer)
    BY <1>2, <2>2, RemoteAdded
  <2> HIDE DEF longer
  <2>4. minted' \in Nat /\ minted <= minted'
    BY <1>2, <2>1
  <2> QED BY <1>1, <1>2, <1>3, <2>1, <2>3, <2>4, RecordsPut
<1>5. CASE places # {}
  <2> DEFINE now == [list EXCEPT ![at].url = url]
  <2>1. minted' = minted /\ PutRow(k, [issue[k] EXCEPT !.remotes[at].url = url])
    BY <1>5 DEF UpsertRemoteLink, Places
  <2>2. at \in DOMAIN list
    <3>1. places \in SUBSET Nat
      <4>1. places \subseteq DOMAIN list
        OBVIOUS
      <4>2. DOMAIN list \subseteq Nat
        BY <1>2, DomainOfSeq
      <4> QED BY <4>1, <4>2
    <3> HIDE DEF places
    <3>2. at \in places
      BY <1>5, <3>1, EarliestIs
    <3> QED BY <3>2 DEF places
  <2> HIDE DEF at
  <2>3. now \in Seq(RemoteRow) /\ RemotesOK(now, minted) /\ RemotesKept(list, now)
    BY <1>2, <2>2, RemoteUpdated
  <2>4. PutRow(k, [issue[k] EXCEPT !.remotes = now])
    <3>1. [issue[k] EXCEPT !.remotes[at].url = url] = [issue[k] EXCEPT !.remotes = now]
      OBVIOUS
    <3> QED BY <2>1, <3>1
  <2> HIDE DEF now
  <2>5. PutRow(k, [issue[k] EXCEPT !.remotes = now, !.devs = issue[k].devs])
        /\ \A j \in DOMAIN issue \ {k} : issue'[j] = issue[j]
    BY <1>3, <2>4
  <2>6. minted' \in Nat /\ minted <= minted' /\ RemotesOK(now, minted')
    BY <1>2, <2>1, <2>3
  <2>7. GraphInv' /\ issue'[k].remotes = now /\ issue'[k].devs = issue[k].devs
    BY <1>1, <1>2, <2>3, <2>5, <2>6, RecordsPut
  <2> QED BY <1>1, <2>3, <2>5, <2>7
<1> QED BY <1>4, <1>5

LEMMA DeleteRecordSteps ==
  ASSUME GraphInv, NEW k, NEW id, DeleteRemoteLink(k, id)
  PROVE  /\ GraphInv' /\ k \in DOMAIN issue /\ \A j \in DOMAIN issue \ {k} : issue'[j] = issue[j]
         /\ RemotesKept(issue[k].remotes, issue'[k].remotes) /\ issue'[k].devs = issue[k].devs
<1> DEFINE list == issue[k].remotes
           kept == { n \in DOMAIN list : list[n].id # id }
           left == Picked(list, kept)
<1>a. GraphTypes /\ RecordsOK
  BY DEF GraphInv
<1>1. k \in DOMAIN issue /\ second = NoWrite /\ minted' = minted
      /\ PutRow(k, [issue[k] EXCEPT !.remotes = left])
  BY DEF DeleteRemoteLink, Request
<1>2. /\ list \in Seq(RemoteRow) /\ issue[k].devs \in Seq(DevRow) /\ issue[k] \in IssueRow
      /\ RemotesOK(list, minted) /\ DevsOK(issue[k].devs) /\ minted \in Nat
  BY <1>1, <1>a DEF GraphTypes, IssueRow, RecordsOK
<1>3. left \in Seq(RemoteRow) /\ RemotesOK(left, minted) /\ RemotesKept(list, left)
  <2>1. kept \in SUBSET DOMAIN list
    OBVIOUS
  <2> HIDE DEF kept
  <2> QED BY <1>2, <2>1, RemotesLeft
<1> HIDE DEF left
<1>4. /\ PutRow(k, [issue[k] EXCEPT !.remotes = left, !.devs = issue[k].devs])
      /\ \A j \in DOMAIN issue \ {k} : issue'[j] = issue[j]
  <2>1. [issue[k] EXCEPT !.remotes = left] = [issue[k] EXCEPT !.remotes = left, !.devs = issue[k].devs]
    BY <1>2 DEF IssueRow
  <2> QED BY <2>1, <1>1, <1>a DEF PutRow, GraphTypes
<1>5. minted' \in Nat /\ minted <= minted' /\ RemotesOK(left, minted')
  BY <1>1, <1>2, <1>3
<1>6. GraphInv' /\ issue'[k].remotes = left /\ issue'[k].devs = issue[k].devs
  BY <1>1, <1>2, <1>3, <1>4, <1>5, RecordsPut
<1> QED BY <1>1, <1>3, <1>4, <1>6

LEMMA LinkDevSteps ==
  ASSUME GraphInv, NEW k, NEW kind \in Kind, NEW url \in Url, NEW label \in Label,
         NEW state \in DevState[kind], NEW a \in Client, LinkDev(k, kind, url, label, state, a)
  PROVE  /\ GraphInv' /\ k \in DOMAIN issue /\ \A j \in DOMAIN issue \ {k} : issue'[j] = issue[j]
         /\ DevsKept(issue[k].devs, issue'[k].devs) /\ issue'[k].remotes = issue[k].remotes
<1> DEFINE list == issue[k].devs
           new == [id |-> DevID(kind, url, label), url |-> url, label |-> label, actor |-> a,
                   state |-> IF kind = "pullrequest" /\ state = "" THEN "OPEN" ELSE state]
           places == { n \in DOMAIN list : list[n].id = new.id }
           at == Earliest(places)
           now == IF places = {} THEN Append(list, new)
                  ELSE [list EXCEPT ![at] = Merged(list[at], new)]
<1>a. GraphTypes /\ RecordsOK
  BY DEF GraphInv
<1>1. k \in DOMAIN issue /\ second = NoWrite /\ minted' = minted
      /\ PutRow(k, [issue[k] EXCEPT !.devs = now])
  BY DEF LinkDev, Request, Places
<1>2. /\ list \in Seq(DevRow) /\ issue[k].remotes \in Seq(RemoteRow) /\ issue[k] \in IssueRow
      /\ RemotesOK(issue[k].remotes, minted) /\ DevsOK(list) /\ minted \in Nat
  BY <1>1, <1>a DEF GraphTypes, IssueRow, RecordsOK
<1>3. new \in DevRow /\ Filed(new)
  <2>1. state \in DevStates /\ "OPEN" \in DevStates
    BY DEF DevStates
  <2>2. /\ DevID(kind, url, label) \in Kind \X (Url \cup Label)
        /\ url # "" => DevID(kind, url, label)[2] = url
    BY DEF DevID
  <2> QED BY <2>1, <2>2 DEF DevRow, Filed
<1> HIDE DEF new
<1>4. now \in Seq(DevRow) /\ DevsOK(now) /\ DevsKept(list, now)
  <2>1. CASE places = {}
    <3>1. UnknownDev(list, new.id)
      BY <2>1 DEF UnknownDev
    <3> QED BY <1>2, <1>3, <2>1, <3>1, DevAdded
  <2>2. CASE places # {}
    <3>1. places \in SUBSET Nat
      BY <1>2
    <3>2. at \in places
      <4> HIDE DEF places
      <4> QED BY <2>2, <3>1, EarliestIs
    <3>3. at \in DOMAIN list /\ list[at].id = new.id
      BY <3>2
    <3> HIDE DEF at
    <3> QED BY <1>2, <1>3, <2>2, <3>3, DevMerged
  <2> QED BY <2>1, <2>2
<1> HIDE DEF now
<1>5. /\ PutRow(k, [issue[k] EXCEPT !.remotes = issue[k].remotes, !.devs = now])
      /\ \A j \in DOMAIN issue \ {k} : issue'[j] = issue[j]
  <2>1. [issue[k] EXCEPT !.devs = now] = [issue[k] EXCEPT !.remotes = issue[k].remotes, !.devs = now]
    BY <1>2 DEF IssueRow
  <2> QED BY <2>1, <1>1, <1>a DEF PutRow, GraphTypes
<1>6. minted' \in Nat /\ minted <= minted' /\ RemotesOK(issue[k].remotes, minted')
  BY <1>1, <1>2
<1>7. GraphInv' /\ issue'[k].remotes = issue[k].remotes /\ issue'[k].devs = now
  BY <1>1, <1>2, <1>4, <1>5, <1>6, RecordsPut
<1> QED BY <1>1, <1>4, <1>5, <1>7
-----------------------------------------------------------------------------
(* The two rows of a link.                                                 *)

\* A row that is a stored one but for one side, which it shows or does not.
SideSet(row, was, side, adds) ==
  /\ row.type = was.type /\ row.parent = was.parent
  /\ row.remotes = was.remotes /\ row.devs = was.devs
  /\ \A s \in SideRow : Shows(row, s) <=> IF s = side THEN adds ELSE Shows(was, s)

LEMMA SidesAre ==
  ASSUME NEW link \in Link
  PROVE  /\ OutSide(link) \in SideRow /\ InSide(link) \in SideRow
         /\ OutSide(link).other = link[3] /\ InSide(link).other = link[2]
         /\ OutSide(link).role = "inward" /\ InSide(link).role = "outward"
         /\ OutSide(link).type = link[1] /\ InSide(link).type = link[1]
         /\ link = <<link[1], link[2], link[3]>>
         /\ link[1] \in LinkType /\ link[2] \in Key /\ link[3] \in Key
BY DEF OutSide, InSide, Side, SideRow, Link

\* Of two links at most one is shown by a given side of a given row.
LEMMA OneLinkASide ==
  ASSUME NEW link \in Link, NEW o \in Link
  PROVE  /\ OutSide(link) # InSide(o)
         /\ link[2] = o[2] /\ OutSide(link) = OutSide(o) => link = o
         /\ link[3] = o[3] /\ InSide(link) = InSide(o) => link = o
BY SidesAre

\* A row is put that shows or hides one side: all else in the store stays.
OneSideWritten(k, row, side, adds) ==
  /\ GraphTypes' /\ JudgedOK' /\ RecordsOK'
  /\ DOMAIN issue' = DOMAIN issue /\ issue'[k] = row
  /\ \A j \in DOMAIN issue \ {k} : issue'[j] = issue[j]
  /\ \A j \in DOMAIN issue : SidesOK(j, issue'[j])
  /\ \A j \in DOMAIN issue, s \in SideRow :
       ~(j = k /\ s = side) => (Shows(issue'[j], s) <=> Shows(issue[j], s))
  /\ Shows(issue'[k], side) <=> adds

LEMMA SideWritten ==
  ASSUME GraphInv, NEW k \in DOMAIN issue, NEW row \in IssueRow, NEW side \in SideRow,
         NEW adds \in BOOLEAN, SideSet(row, issue[k], side, adds), SidesOK(k, row),
         issue' = [issue EXCEPT ![k] = row],
         clock' \in Nat, clock <= clock', row.updated \in 1..clock',
         UNCHANGED <<minted, judged>>, wanted' \subseteq Link
  PROVE  OneSideWritten(k, row, side, adds)
<1>a. GraphTypes /\ JudgedOK /\ LinksOK /\ RecordsOK
  BY DEF GraphInv
<1>1. /\ DOMAIN issue' = DOMAIN issue /\ issue'[k] = row
      /\ \A j \in DOMAIN issue \ {k} : issue'[j] = issue[j]
  BY <1>a DEF GraphTypes
<1>2. /\ row.type = issue[k].type /\ row.parent = issue[k].parent
      /\ row.remotes = issue[k].remotes /\ row.devs = issue[k].devs
  BY DEF SideSet
<1>3. \A j \in DOMAIN issue :
        /\ issue'[j].parent = issue[j].parent /\ issue'[j].type = issue[j].type
        /\ issue'[j].remotes = issue[j].remotes /\ issue'[j].devs = issue[j].devs
  BY <1>1, <1>2
<1>4. GraphTypes'
  <2>1. issue' \in [DOMAIN issue' -> IssueRow]
    BY <1>1, <1>a DEF GraphTypes
  <2>2. ASSUME NEW j \in DOMAIN issue
        PROVE  issue'[j].parent \in DOMAIN issue \cup {NoParent} /\ issue'[j].updated \in 1..clock'
    <3>1. issue[j].parent \in DOMAIN issue \cup {NoParent} /\ issue[j].updated \in 1..clock /\ clock \in Nat
      BY <1>a DEF GraphTypes
    <3>2. issue[j].updated \in 1..clock'
      BY <3>1
    <3> QED BY <3>1, <3>2, <1>1, <1>3
  <2>3. minted' \in Nat /\ (\E n \in 0..Len(KeyOf) : DOMAIN issue = FirstOf(KeyOf, n))'
        /\ judged' \in [DOMAIN issue' -> [child : Type, parent : Type]]
    BY <1>1, <1>a DEF GraphTypes
  <2>4. (wanted \subseteq Link)'
    BY DEF Link
  <2> QED BY <1>1, <2>1, <2>2, <2>3, <2>4 DEF GraphTypes
<1>5. JudgedOK'
  BY <1>1, <1>3, <1>a DEF JudgedOK
<1>6. RecordsOK'
  <2>1. \A j \in DOMAIN issue' : RemotesOK(issue'[j].remotes, minted') /\ DevsOK(issue'[j].devs)
    BY <1>1, <1>3, <1>a DEF RecordsOK
  <2> QED BY <2>1 DEF RecordsOK, RemotesOK, DevsOK, Filed
<1>7. \A j \in DOMAIN issue : SidesOK(j, issue'[j])
  BY <1>1, <1>a DEF LinksOK
<1>8. \A j \in DOMAIN issue, s \in SideRow :
        ~(j = k /\ s = side) => (Shows(issue'[j], s) <=> Shows(issue[j], s))
  BY <1>1 DEF SideSet
<1>9. Shows(issue'[k], side) <=> adds
  BY <1>1 DEF SideSet
<1> QED BY <1>1, <1>4, <1>5, <1>6, <1>7, <1>8, <1>9 DEF OneSideWritten

\* A row that a link handler makes may show what it shows.
LEMMA NewSidesOK ==
  ASSUME GraphInv, NEW k \in DOMAIN issue, NEW row \in IssueRow, NEW side \in SideRow,
         NEW adds \in BOOLEAN, SideSet(row, issue[k], side, adds), NoRepeats(row.links),
         side.other \in DOMAIN issue \ {k}
  PROVE  SidesOK(k, row)
<1>1. SidesOK(k, issue[k])
  BY DEF GraphInv, LinksOK
<1>2. ASSUME NEW s \in ToSet(row.links)
      PROVE  s.other \in DOMAIN issue \ {k}
  <2>1. s \in SideRow
    BY DEF IssueRow, ToSet
  <2>2. s # side => Shows(issue[k], s)
    BY <2>1 DEF SideSet, Shows
  <2> QED BY <1>1, <2>2 DEF SidesOK, Shows
<1> QED BY <1>2 DEF SidesOK

\* Links other than the one that is being written agree as they did.
LEMMA OthersAgree ==
  ASSUME GraphInv, NEW link \in Link, NEW k \in DOMAIN issue, NEW side,
         \/ k = link[2] /\ side = OutSide(link)
         \/ k = link[3] /\ side = InSide(link),
         \A j \in DOMAIN issue, s \in SideRow :
           ~(j = k /\ s = side) => (Shows(issue'[j], s) <=> Shows(issue[j], s)),
         DOMAIN issue' = DOMAIN issue,
         \A o \in Link \ {link} : o \in wanted' <=> o \in wanted,
         NEW o \in Link \ {link}, o \notin Unsettled,
         o[2] \in DOMAIN issue, o[3] \in DOMAIN issue, o[2] # o[3]
  PROVE  Agrees(o)'
<1>1. Agrees(o)
  BY DEF GraphInv, LinksOK
<1>2. OutSide(o) \in SideRow /\ InSide(o) \in SideRow
  BY SidesAre
<1>3. ~(o[2] = k /\ OutSide(o) = side) /\ ~(o[3] = k /\ InSide(o) = side)
  BY OneLinkASide
<1>4. Shows(issue'[o[2]], OutSide(o)) <=> Shows(issue[o[2]], OutSide(o))
  BY <1>2, <1>3
<1>5. Shows(issue'[o[3]], InSide(o)) <=> Shows(issue[o[3]], InSide(o))
  BY <1>2, <1>3
<1>6. o \in wanted' <=> o \in wanted
  OBVIOUS
<1> QED BY <1>1, <1>4, <1>5, <1>6 DEF Agrees, Shows, OutSide, InSide

\* The first half of a link is put, or taken away.
LEMMA FirstPutSteps ==
  ASSUME GraphInv, second = NoWrite, NEW link \in Link, NEW adds \in BOOLEAN,
         link[2] \in DOMAIN issue, link[3] \in DOMAIN issue, link[2] # link[3],
         NEW outRow \in IssueRow, NEW inRow \in IssueRow,
         SideSet(outRow, issue[link[2]], OutSide(link), adds), NoRepeats(outRow.links),
         SideSet(inRow, issue[link[3]], InSide(link), adds), NoRepeats(inRow.links),
         outRow.updated = clock + 1, inRow.updated = clock + 1,
         FirstPut(link, adds, outRow, inRow), UNCHANGED <<minted, wanted, cut, judged>>
  PROVE  GraphInv' /\ RecordsStay
<1>a. GraphTypes /\ LinksOK
  BY DEF GraphInv
<1>1. /\ clock' = clock + 1 /\ issue' = [issue EXCEPT ![link[2]] = outRow]
      /\ second' = [key |-> link[3], row |-> inRow, link |-> link, adds |-> adds]
  BY DEF FirstPut
<1>2. clock \in Nat /\ clock + 1 \in Nat /\ clock + 1 \in 1..(clock + 1) /\ clock <= clock + 1
  <2>1. clock \in Nat
    BY <1>a DEF GraphTypes
  <2> QED BY <2>1
<1>3. SidesOK(link[2], outRow) /\ SidesOK(link[3], inRow)
  <2>1. OutSide(link).other \in DOMAIN issue \ {link[2]} /\ OutSide(link) \in SideRow
    BY SidesAre
  <2>2. InSide(link).other \in DOMAIN issue \ {link[3]} /\ InSide(link) \in SideRow
    BY SidesAre
  <2> QED BY <2>1, <2>2, NewSidesOK
<1>4. wanted' \subseteq Link
  BY <1>a DEF GraphTypes
<1>b. OneSideWritten(link[2], outRow, OutSide(link), adds)
  <2>1. OutSide(link) \in SideRow
    BY SidesAre
  <2>2. clock' \in Nat /\ clock <= clock' /\ outRow.updated \in 1..clock'
    BY <1>1, <1>2
  <2>3. issue' = [issue EXCEPT ![link[2]] = outRow] /\ UNCHANGED <<minted, judged>>
        /\ SidesOK(link[2], outRow)
    BY <1>1, <1>3
  <2> QED BY <1>4, <2>1, <2>2, <2>3, SideWritten
<1>5. /\ GraphTypes' /\ JudgedOK' /\ RecordsOK'
      /\ DOMAIN issue' = DOMAIN issue /\ issue'[link[2]] = outRow
      /\ \A j \in DOMAIN issue \ {link[2]} : issue'[j] = issue[j]
      /\ \A j \in DOMAIN issue : SidesOK(j, issue'[j])
      /\ \A j \in DOMAIN issue, s \in SideRow :
           ~(j = link[2] /\ s = OutSide(link)) => (Shows(issue'[j], s) <=> Shows(issue[j], s))
      /\ Shows(issue'[link[2]], OutSide(link)) <=> adds
  BY <1>b DEF OneSideWritten
<1>6. Unsettled' = cut \cup {link}
  <2>1. second' # NoWrite
    <3>1. second'.key = link[3] /\ link[3] \in Key
      BY <1>1, SidesAre
    <3> QED BY <3>1, KeysAreStrings DEF NoParent, NoWrite
  <2>2. second'.link = link
    BY <1>1
  <2> QED BY <2>1, <2>2 DEF Unsettled
<1>7. SecondOK'
  <2>1. issue'[link[3]] = issue[link[3]]
    BY <1>5
  <2>2. /\ second'.key = link[3] /\ second'.row = inRow
        /\ second'.link = link /\ second'.adds = adds
    BY <1>1
  <2>3. Shows(issue'[link[2]], OutSide(link)) <=> adds
    BY <1>5
  <2>4. SidesOK(link[3], inRow)'
    BY <1>3, <1>5 DEF SidesOK, NoRepeats, ToSet
  <2>5. inRow.updated \in 1..clock'
    BY <1>1, <1>2
  <2>6. /\ inRow.type = issue[link[3]].type /\ inRow.parent = issue[link[3]].parent
        /\ inRow.remotes = issue[link[3]].remotes /\ inRow.devs = issue[link[3]].devs
        /\ \A s \in SideRow : Shows(inRow, s) <=> IF s = InSide(link) THEN adds ELSE Shows(issue[link[3]], s)
    BY DEF SideSet
  <2> QED
    <3> SUFFICES ASSUME second' # NoWrite
                 PROVE  (LET was == issue[link[3]]
                         IN  /\ link \in Link /\ link[2] \in DOMAIN issue /\ link[3] \in DOMAIN issue
                             /\ link[2] # link[3] /\ second.key = link[3] /\ second.adds \in BOOLEAN
                             /\ inRow \in IssueRow /\ inRow.updated \in 1..clock
                             /\ inRow.type = was.type /\ inRow.parent = was.parent
                             /\ inRow.remotes = was.remotes /\ inRow.devs = was.devs
                             /\ SidesOK(link[3], inRow)
                             /\ \A s \in SideRow : Shows(inRow, s) <=> IF s = InSide(link) THEN second.adds ELSE Shows(was, s)
                             /\ Shows(issue[link[2]], OutSide(link)) <=> second.adds)'
      BY <2>2 DEF SecondOK
    <3> QED BY <1>5, <2>1, <2>2, <2>3, <2>4, <2>5, <2>6
<1>8. LinksOK'
  <2>1. \A j \in DOMAIN issue' : SidesOK(j, issue[j])'
    BY <1>5 DEF SidesOK, NoRepeats, ToSet
  <2>2. ASSUME NEW o \in Link \ Unsettled', o[2] \in DOMAIN issue, o[3] \in DOMAIN issue, o[2] # o[3]
        PROVE  Agrees(o)'
    <3>1. o \in Link \ {link} /\ o \notin Unsettled
      BY <1>6, <2>2 DEF Unsettled
    <3>2. \A q \in Link \ {link} : q \in wanted' <=> q \in wanted
      OBVIOUS
    <3> QED BY <1>5, <2>2, <3>1, <3>2, OthersAgree
  <2>3. \A o \in wanted' : o[2] # o[3] /\ o[2] \in DOMAIN issue' /\ o[3] \in DOMAIN issue'
    BY <1>5, <1>a DEF LinksOK
  <2> QED BY <1>5, <2>1, <2>2, <2>3 DEF LinksOK
<1>9. RecordsStay
  BY <1>5 DEF RecordsStay, SideSet
<1> QED BY <1>5, <1>7, <1>8, <1>9 DEF GraphInv

LEMMA AddLinkSteps ==
  ASSUME GraphInv, NEW link \in LinkType \X Key \X Key, AddIssueLink(link)
  PROVE  GraphInv' /\ RecordsStay
<1> DEFINE out == OutSide(link)
           in == InSide(link)
<1>a. GraphTypes /\ LinksOK
  BY DEF GraphInv
<1>1. /\ second = NoWrite /\ link \in Link
      /\ link[2] \in DOMAIN issue /\ link[3] \in DOMAIN issue /\ link[2] # link[3]
      /\ UNCHANGED <<minted, judged>>
      /\ \/ /\ Shows(issue[link[2]], out) /\ Shows(issue[link[3]], in)
            /\ Answered(link, TRUE) /\ UNCHANGED <<issue, clock, second>>
         \/ /\ FirstPut(link, TRUE, WithSide(link[2], out), WithSide(link[3], in))
            /\ UNCHANGED <<wanted, cut>>
  BY DEF AddIssueLink, Request, Ends, Link, OutSide, InSide, HasDirectedLink, Shows
<1>2. out \in SideRow /\ in \in SideRow
  BY <1>1, SidesAre
<1>3. CASE /\ Shows(issue[link[2]], out) /\ Shows(issue[link[3]], in)
           /\ Answered(link, TRUE) /\ UNCHANGED <<issue, clock, second>>
  <2>1. wanted' = wanted \cup {link} /\ cut' = cut \ {link}
    BY <1>3 DEF Answered
  <2>2. GraphTypes' /\ JudgedOK' /\ RecordsOK'
    <3>1. wanted \subseteq Link /\ (wanted \subseteq Link)'
      BY <1>1, <1>a, <2>1 DEF GraphTypes, Link
    <3> QED BY <1>1, <1>3, <3>1 DEF GraphInv, GraphTypes, JudgedOK, RecordsOK, RemotesOK, DevsOK, Filed
  <2>3. SecondOK'
    BY <1>1, <1>3 DEF SecondOK
  <2>4. LinksOK'
    <3>1. \A j \in DOMAIN issue' : SidesOK(j, issue[j])'
      BY <1>3, <1>a DEF LinksOK, SidesOK, NoRepeats, ToSet
    <3>2. ASSUME NEW o \in Link \ Unsettled', o[2] \in DOMAIN issue, o[3] \in DOMAIN issue, o[2] # o[3]
          PROVE  Agrees(o)'
      <4>1. CASE o = link
        <5>1. /\ Shows(issue[o[2]], OutSide(o)) /\ Shows(issue[o[3]], InSide(o)) /\ o \in wanted'
          BY <1>3, <2>1, <4>1
        <5> QED BY <5>1, <1>3 DEF Agrees, Shows, OutSide, InSide
      <4>2. CASE o # link
        <5>1. o \in Link \ Unsettled
          BY <1>1, <1>3, <2>1, <3>2, <4>2 DEF Unsettled
        <5>2. Agrees(o)
          BY <3>2, <5>1, <1>a DEF LinksOK
        <5>3. o \in wanted' <=> o \in wanted
          BY <2>1, <4>2
        <5> QED BY <5>2, <5>3, <1>3 DEF Agrees, Shows, OutSide, InSide
      <4> QED BY <4>1, <4>2
    <3>3. \A o \in wanted' : o[2] # o[3] /\ o[2] \in DOMAIN issue' /\ o[3] \in DOMAIN issue'
      BY <1>1, <1>3, <2>1, <1>a DEF LinksOK
    <3> QED BY <1>3, <3>1, <3>2, <3>3 DEF LinksOK
  <2> QED BY <2>2, <2>3, <2>4, <1>3 DEF GraphInv, RecordsStay
<1>4. CASE /\ FirstPut(link, TRUE, WithSide(link[2], out), WithSide(link[3], in))
           /\ UNCHANGED <<wanted, cut>>
  <2> DEFINE outRow == WithSide(link[2], out)
             inRow == WithSide(link[3], in)
  <2>1. /\ issue[link[2]] \in IssueRow /\ issue[link[3]] \in IssueRow /\ clock \in Nat
        /\ NoRepeats(issue[link[2]].links) /\ NoRepeats(issue[link[3]].links)
    BY <1>1, <1>a DEF GraphTypes, LinksOK, SidesOK
  <2>2. /\ outRow \in IssueRow /\ NoRepeats(outRow.links) /\ outRow.updated = clock + 1
        /\ SideSet(outRow, issue[link[2]], out, TRUE)
    <3> HIDE DEF out
    <3> QED BY <1>1, <1>2, <2>1, WithSideIs DEF SideSet, Shows
  <2>3. /\ inRow \in IssueRow /\ NoRepeats(inRow.links) /\ inRow.updated = clock + 1
        /\ SideSet(inRow, issue[link[3]], in, TRUE)
    <3> HIDE DEF in
    <3> QED BY <1>1, <1>2, <2>1, WithSideIs DEF SideSet, Shows
  <2> HIDE DEF outRow, inRow
  <2>4. FirstPut(link, TRUE, outRow, inRow) /\ UNCHANGED <<minted, wanted, cut, judged>>
    BY <1>1, <1>4 DEF outRow, inRow
  <2> QED BY <1>1, <2>2, <2>3, <2>4, FirstPutSteps
<1> HIDE DEF out, in
<1> QED BY <1>1, <1>3, <1>4

LEMMA DeleteLinkSteps ==
  ASSUME GraphInv, NEW link \in LinkType \X Key \X Key, DeleteIssueLink(link)
  PROVE  GraphInv' /\ RecordsStay
<1> DEFINE out == OutSide(link)
           in == InSide(link)
           outRow == WithoutSide(link[2], out)
           inRow == WithoutSide(link[3], in)
<1>a. GraphTypes /\ LinksOK
  BY DEF GraphInv
<1>1. /\ second = NoWrite /\ link \in Link
      /\ link[2] \in DOMAIN issue /\ link[3] \in DOMAIN issue
      /\ Shows(issue[link[2]], out) \/ Shows(issue[link[3]], in)
      /\ FirstPut(link, FALSE, outRow, inRow)
      /\ UNCHANGED <<minted, wanted, cut, judged>>
  BY DEF DeleteIssueLink, Request, Ends, Link, OutSide, InSide, HasDirectedLink, Shows, observed
<1>2. out \in SideRow /\ in \in SideRow /\ out.other = link[3] /\ in.other = link[2]
  BY <1>1, SidesAre
<1>3. /\ issue[link[2]] \in IssueRow /\ issue[link[3]] \in IssueRow /\ clock \in Nat
      /\ SidesOK(link[2], issue[link[2]]) /\ SidesOK(link[3], issue[link[3]])
  BY <1>1, <1>a DEF GraphTypes, LinksOK
<1>4. link[2] # link[3]
  <2> HIDE DEF out, in, outRow, inRow
  <2> QED BY <1>1, <1>2, <1>3 DEF SidesOK, Shows
<1>5. /\ outRow \in IssueRow /\ NoRepeats(outRow.links) /\ outRow.updated = clock + 1
      /\ SideSet(outRow, issue[link[2]], out, FALSE)
  <2> HIDE DEF out
  <2> QED BY <1>1, <1>2, <1>3, WithoutSideIs DEF SideSet, Shows, SidesOK
<1>6. /\ inRow \in IssueRow /\ NoRepeats(inRow.links) /\ inRow.updated = clock + 1
      /\ SideSet(inRow, issue[link[3]], in, FALSE)
  <2> HIDE DEF in
  <2> QED BY <1>1, <1>2, <1>3, WithoutSideIs DEF SideSet, Shows, SidesOK
<1> HIDE DEF outRow, inRow
<1> QED BY <1>1, <1>4, <1>5, <1>6, FirstPutSteps

LEMMA SecondPutSteps ==
  ASSUME GraphInv, SecondPut
  PROVE  GraphInv' /\ RecordsStay
<1> DEFINE link == second.link
           k == second.key
           row == second.row
           adds == second.adds
<1>a. GraphTypes /\ LinksOK /\ SecondOK
  BY DEF GraphInv
<1>1. /\ second # NoWrite /\ issue' = [issue EXCEPT ![k] = row] /\ second' = NoWrite
      /\ wanted' = IF adds THEN wanted \cup {link} ELSE wanted \ {link}
      /\ cut' = cut \ {link} /\ clock' = clock /\ UNCHANGED <<minted, judged>>
  BY DEF SecondPut, Answered
<1>2. /\ link \in Link /\ link[2] \in DOMAIN issue /\ link[3] \in DOMAIN issue
      /\ link[2] # link[3] /\ k = link[3] /\ adds \in BOOLEAN
      /\ row \in IssueRow /\ row.updated \in 1..clock /\ SidesOK(k, row)
      /\ SideSet(row, issue[k], InSide(link), adds)
      /\ Shows(issue[link[2]], OutSide(link)) <=> adds
  BY <1>1, <1>a DEF SecondOK, SideSet
<1>3. /\ link \notin Unsettled' /\ Unsettled' = Unsettled \ {link}
      /\ (link \in wanted' <=> adds) /\ \A o \in Link \ {link} : o \in wanted' <=> o \in wanted
  BY <1>1, <1>2 DEF Unsettled
<1> HIDE DEF link, k, row, adds
<1>4. clock \in Nat /\ clock' \in Nat /\ clock <= clock' /\ row.updated \in 1..clock'
      /\ wanted' \subseteq Link
  <2>1. clock \in Nat /\ wanted \subseteq Link
    BY <1>a DEF GraphTypes
  <2>2. clock' \in Nat /\ clock <= clock' /\ row.updated \in 1..clock'
    BY <1>1, <1>2, <2>1
  <2> QED BY <1>1, <1>2, <2>1, <2>2
<1>5. InSide(link) \in SideRow /\ k \in DOMAIN issue
  BY <1>2, SidesAre
<1>b. OneSideWritten(k, row, InSide(link), adds)
  BY <1>1, <1>2, <1>4, <1>5, SideWritten
<1>6. /\ GraphTypes' /\ JudgedOK' /\ RecordsOK'
      /\ DOMAIN issue' = DOMAIN issue /\ issue'[k] = row
      /\ \A j \in DOMAIN issue \ {k} : issue'[j] = issue[j]
      /\ \A j \in DOMAIN issue : SidesOK(j, issue'[j])
      /\ \A j \in DOMAIN issue, s \in SideRow :
           ~(j = k /\ s = InSide(link)) => (Shows(issue'[j], s) <=> Shows(issue[j], s))
      /\ Shows(issue'[k], InSide(link)) <=> adds
  BY <1>b DEF OneSideWritten
<1>7. LinksOK'
  <2>1. \A j \in DOMAIN issue' : SidesOK(j, issue[j])'
    BY <1>6 DEF SidesOK, NoRepeats, ToSet
  <2>2. ASSUME NEW o \in Link \ Unsettled', o[2] \in DOMAIN issue, o[3] \in DOMAIN issue, o[2] # o[3]
        PROVE  Agrees(o)'
    <3>1. CASE o = link
      <4>1. Shows(issue'[link[2]], OutSide(link)) <=> adds
        <5>1. issue'[link[2]] = issue[link[2]]
          BY <1>2, <1>6
        <5> QED BY <5>1, <1>2
      <4>2. Shows(issue'[link[3]], InSide(link)) <=> adds
        BY <1>2, <1>6
      <4> QED BY <3>1, <4>1, <4>2, <1>3 DEF Agrees, Shows, OutSide, InSide
    <3>2. CASE o # link
      <4>1. o \in Link \ {link} /\ o \notin Unsettled
        BY <1>3, <2>2, <3>2
      <4> QED BY <1>2, <1>3, <1>5, <1>6, <2>2, <4>1, OthersAgree
    <3> QED BY <3>1, <3>2
  <2>3. \A o \in wanted' : o[2] # o[3] /\ o[2] \in DOMAIN issue' /\ o[3] \in DOMAIN issue'
    <3>1. \A o \in wanted : o[2] # o[3] /\ o[2] \in DOMAIN issue /\ o[3] \in DOMAIN issue
      BY <1>a DEF LinksOK
    <3> QED BY <1>1, <1>2, <1>6, <3>1
  <2> QED BY <1>6, <2>1, <2>2, <2>3 DEF LinksOK
<1>8. RecordsStay
  BY <1>2, <1>6 DEF RecordsStay, SideSet
<1> QED BY <1>1, <1>6, <1>7, <1>8 DEF GraphInv, SecondOK

LEMMA CutOffSteps ==
  ASSUME GraphInv, CutOff
  PROVE  GraphInv' /\ RecordsStay
<1>1. /\ second # NoWrite /\ second' = NoWrite /\ cut' = cut \cup {second.link}
      /\ UNCHANGED <<issue, clock, minted, wanted, judged>>
  BY DEF CutOff
<1>2. Unsettled' = Unsettled
  BY <1>1 DEF Unsettled
<1>3. LinksOK'
  BY <1>1, <1>2 DEF GraphInv, LinksOK, SidesOK, NoRepeats, ToSet, Agrees, Shows, OutSide, InSide
<1>4. GraphTypes' /\ JudgedOK' /\ RecordsOK'
  BY <1>1 DEF GraphInv, GraphTypes, JudgedOK, RecordsOK, RemotesOK, DevsOK, Filed
<1> QED BY <1>1, <1>3, <1>4 DEF GraphInv, SecondOK, RecordsStay
-----------------------------------------------------------------------------
(* The specification.                                                      *)

AllKept ==
  \A k \in DOMAIN issue :
    RemotesKept(issue[k].remotes, issue'[k].remotes) /\ DevsKept(issue[k].devs, issue'[k].devs)

LEMMA StayIsKept ==
  ASSUME GraphInv, RecordsStay
  PROVE  AllKept
<1>1. \A k \in DOMAIN issue : RemotesKept(issue[k].remotes, issue[k].remotes)
  BY SameKept DEF GraphInv, RecordsOK
<1>2. \A k \in DOMAIN issue : DevsKept(issue[k].devs, issue[k].devs)
  BY SameDevsKept
<1> QED BY <1>1, <1>2 DEF RecordsStay, AllKept

LEMMA OneRowIsKept ==
  ASSUME GraphInv, NEW k \in DOMAIN issue, \A j \in DOMAIN issue \ {k} : issue'[j] = issue[j],
         RemotesKept(issue[k].remotes, issue'[k].remotes), DevsKept(issue[k].devs, issue'[k].devs)
  PROVE  AllKept
<1>1. \A j \in DOMAIN issue : RemotesKept(issue[j].remotes, issue[j].remotes)
  BY SameKept DEF GraphInv, RecordsOK
<1>2. \A j \in DOMAIN issue : DevsKept(issue[j].devs, issue[j].devs)
  BY SameDevsKept
<1> QED BY <1>1, <1>2 DEF AllKept

LEMMA GraphSteps ==
  ASSUME GraphInv, [GraphNext]_graphVars
  PROVE  GraphInv' /\ AllKept
<1>1. ASSUME NEW type \in Type \cup {""}, NEW parent \in Key \cup {NoParent}, CreateIssue(type, parent)
      PROVE  GraphInv' /\ RecordsStay
  BY <1>1, CreateSteps
<1>2. ASSUME NEW k \in Key, NEW type \in Type \cup {Absent}, NEW parent \in Key \cup {NoParent, Absent},
             UpdateIssue(k, type, parent)
      PROVE  GraphInv' /\ RecordsStay
  BY <1>2, UpdateSteps
<1>3. ASSUME NEW link \in LinkType \X Key \X Key, AddIssueLink(link) \/ DeleteIssueLink(link)
      PROVE  GraphInv' /\ RecordsStay
  BY <1>3, AddLinkSteps, DeleteLinkSteps
<1>4. ASSUME SecondPut \/ CutOff
      PROVE  GraphInv' /\ RecordsStay
  BY <1>4, SecondPutSteps, CutOffSteps
<1>5. ASSUME NEW k \in Key, NEW global \in Global, NEW url \in Url, UpsertRemoteLink(k, global, url)
      PROVE  GraphInv' /\ AllKept
  <2>1. /\ GraphInv' /\ k \in DOMAIN issue /\ \A j \in DOMAIN issue \ {k} : issue'[j] = issue[j]
        /\ RemotesKept(issue[k].remotes, issue'[k].remotes) /\ issue'[k].devs = issue[k].devs
    BY <1>5, UpsertSteps
  <2> QED BY <2>1, SameDevsKept, OneRowIsKept
<1>6. ASSUME NEW k \in Key, NEW id \in 1..minted, DeleteRemoteLink(k, id)
      PROVE  GraphInv' /\ AllKept
  <2>1. /\ GraphInv' /\ k \in DOMAIN issue /\ \A j \in DOMAIN issue \ {k} : issue'[j] = issue[j]
        /\ RemotesKept(issue[k].remotes, issue'[k].remotes) /\ issue'[k].devs = issue[k].devs
    BY <1>6, DeleteRecordSteps
  <2> QED BY <2>1, SameDevsKept, OneRowIsKept
<1>7. ASSUME NEW k \in Key, NEW kind \in Kind, NEW url \in Url, NEW label \in Label, NEW a \in Client,
             NEW state \in DevState[kind], LinkDev(k, kind, url, label, state, a)
      PROVE  GraphInv' /\ AllKept
  <2>1. /\ GraphInv' /\ k \in DOMAIN issue /\ \A j \in DOMAIN issue \ {k} : issue'[j] = issue[j]
        /\ DevsKept(issue[k].devs, issue'[k].devs) /\ issue'[k].remotes = issue[k].remotes
    BY <1>7, LinkDevSteps
  <2>2. RemotesKept(issue[k].remotes, issue[k].remotes)
    BY <2>1, SameKept DEF GraphInv, RecordsOK
  <2> QED BY <2>1, <2>2, OneRowIsKept
<1>8. ASSUME UNCHANGED graphVars
      PROVE  GraphInv' /\ RecordsStay
  <2>1. /\ issue' = issue /\ clock' = clock /\ minted' = minted /\ second' = second
        /\ wanted' = wanted /\ cut' = cut /\ judged' = judged
    BY <1>8 DEF graphVars, observed
  <2>2. GraphTypes' /\ JudgedOK' /\ RecordsOK'
    BY <2>1 DEF GraphInv, GraphTypes, JudgedOK, RecordsOK, RemotesOK, DevsOK, Filed
  <2>3. LinksOK' /\ SecondOK'
    BY <2>1 DEF GraphInv, LinksOK, Unsettled, SidesOK, NoRepeats, ToSet, Agrees, Shows, OutSide, InSide, SecondOK
  <2> QED BY <2>1, <2>2, <2>3 DEF GraphInv, RecordsStay
<1>9. CASE ParentStep
  BY <1>1, <1>2, <1>9, StayIsKept DEF ParentStep
<1>10. CASE LinkStep
  BY <1>3, <1>4, <1>10, StayIsKept DEF LinkStep
<1>11. CASE RecordStep
  BY <1>5, <1>6, <1>7, <1>11 DEF RecordStep
<1> QED BY <1>8, <1>9, <1>10, <1>11, StayIsKept DEF GraphNext

\* No issue is ever deleted.
LEMMA IssuesRemain ==
  ASSUME [GraphNext]_graphVars
  PROVE  DOMAIN issue \subseteq DOMAIN issue'
<1>1. ASSUME NEW type, NEW parent, CreateIssue(type, parent)
      PROVE  DOMAIN issue \subseteq DOMAIN issue'
  BY <1>1 DEF CreateIssue, Extended
<1>2. ASSUME NEW k, NEW type, NEW parent, UpdateIssue(k, type, parent)
      PROVE  DOMAIN issue' = DOMAIN issue
  BY <1>2 DEF UpdateIssue
<1>3. ASSUME NEW link, AddIssueLink(link) \/ DeleteIssueLink(link)
      PROVE  DOMAIN issue' = DOMAIN issue
  BY <1>3 DEF AddIssueLink, DeleteIssueLink, FirstPut
<1>4. ASSUME NEW k, NEW row, PutRow(k, row)
      PROVE  DOMAIN issue' = DOMAIN issue
  BY <1>4 DEF PutRow
<1>5. ASSUME NEW k, NEW global, NEW url, UpsertRemoteLink(k, global, url)
      PROVE  DOMAIN issue' = DOMAIN issue
  BY <1>4, <1>5 DEF UpsertRemoteLink
<1>6. ASSUME NEW k, NEW id, DeleteRemoteLink(k, id)
      PROVE  DOMAIN issue' = DOMAIN issue
  BY <1>4, <1>6 DEF DeleteRemoteLink
<1>7. ASSUME NEW k, NEW kind, NEW url, NEW label, NEW state, NEW a, LinkDev(k, kind, url, label, state, a)
      PROVE  DOMAIN issue' = DOMAIN issue
  BY <1>4, <1>7 DEF LinkDev
<1>8. CASE ParentStep
  BY <1>1, <1>2, <1>8 DEF ParentStep
<1>9. CASE LinkStep
  BY <1>3, <1>9 DEF LinkStep, SecondPut, CutOff
<1>10. CASE RecordStep
  BY <1>5, <1>6, <1>7, <1>10 DEF RecordStep
<1>11. CASE UNCHANGED graphVars
  BY <1>11 DEF graphVars
<1> QED BY <1>8, <1>9, <1>10, <1>11 DEF GraphNext

\* What the invariant says of the properties.
LEMMA GraphTypeOKHolds == ASSUME GraphInv PROVE GraphTypeOK
<1>a. GraphTypes /\ SecondOK /\ LinksOK /\ RecordsOK
  BY DEF GraphInv
<1>1. \E n \in 0..Len(KeyOf) : DOMAIN issue = { KeyOf[i] : i \in 1..n }
  BY <1>a DEF GraphTypes, FirstOf
<1>2. ASSUME NEW k \in DOMAIN issue
      PROVE  /\ issue[k].type \in Type
             /\ issue[k].parent \in DOMAIN issue \cup {NoParent}
             /\ issue[k].updated \in 1..clock
             /\ \A s \in ToSet(issue[k].links) :
                  s.type \in LinkType /\ s.other \in DOMAIN issue \ {k} /\ s.role \in {"inward", "outward"}
             /\ \A r \in ToSet(issue[k].remotes) : r.id \in 1..minted
  <2>1. issue[k] \in IssueRow
    BY <1>a DEF GraphTypes
  <2>2. issue[k].type \in Type /\ issue[k].links \in Seq(SideRow)
    BY <2>1 DEF IssueRow
  <2>3. issue[k].parent \in DOMAIN issue \cup {NoParent} /\ issue[k].updated \in 1..clock
    BY <1>a DEF GraphTypes
  <2>4. ASSUME NEW s \in ToSet(issue[k].links)
        PROVE  s.type \in LinkType /\ s.other \in DOMAIN issue \ {k} /\ s.role \in {"inward", "outward"}
    <3>1. s \in SideRow
      BY <2>2 DEF ToSet
    <3>2. s.other \in DOMAIN issue \ {k}
      BY <1>a DEF LinksOK, SidesOK
    <3> QED BY <3>1, <3>2 DEF SideRow
  <2>5. \A r \in ToSet(issue[k].remotes) : r.id \in 1..minted
    BY <1>a DEF RecordsOK, RemotesOK, ToSet
  <2> QED BY <2>2, <2>3, <2>4, <2>5
<1>3. second = NoWrite \/ second.key \in DOMAIN issue
  BY <1>a DEF SecondOK
<1>4. DOMAIN judged = DOMAIN issue
  BY <1>a DEF GraphTypes
<1> QED BY <1>1, <1>2, <1>3, <1>4 DEF GraphTypeOK

LEMMA ParentsOnceFittedHolds == ASSUME GraphInv PROVE ParentsOnceFitted
<1> SUFFICES ASSUME NEW k \in InvalidParents
             PROVE  /\ issue[k].parent \in DOMAIN issue
                    /\ Level[judged[k].parent] = Level[judged[k].child] + 1
                    /\ judged[k] # [child |-> issue[k].type, parent |-> issue[issue[k].parent].type]
  BY DEF ParentsOnceFitted
<1>1. /\ k \in DOMAIN issue /\ issue[k].parent # NoParent
      /\ issue[k].parent \in DOMAIN issue =>
           Level[issue[issue[k].parent].type] # Level[issue[k].type] + 1
  BY DEF InvalidParents
<1>2. issue[k].parent \in DOMAIN issue
  BY <1>1 DEF GraphInv, GraphTypes
<1>3. Level[judged[k].parent] = Level[judged[k].child] + 1
  BY <1>1 DEF GraphInv, JudgedOK
<1>4. ASSUME judged[k] = [child |-> issue[k].type, parent |-> issue[issue[k].parent].type]
      PROVE  FALSE
  <2>1. judged[k].child = issue[k].type /\ judged[k].parent = issue[issue[k].parent].type
    BY <1>4
  <2> QED BY <2>1, <1>1, <1>2, <1>3
<1> QED BY <1>2, <1>3, <1>4

\* A side of row k has the id of a link just when it is the link's side of that row.
LEMMA LinkOfSide ==
  ASSUME NEW link \in Link, NEW k, NEW s \in SideRow
  PROVE  LinkID(k, s) = link
           <=> (k = link[2] /\ s = OutSide(link)) \/ (k = link[3] /\ s = InSide(link))
<1>1. link = <<link[1], link[2], link[3]>>
  BY SidesAre
<1>2. s = [type |-> s.type, role |-> s.role, other |-> s.other] /\ s.role \in {"inward", "outward"}
  BY DEF SideRow
<1>3. CASE s.role = "outward"
  <2>1. LinkID(k, s) = link <=> s.type = link[1] /\ s.other = link[2] /\ k = link[3]
    BY <1>1, <1>3 DEF LinkID
  <2>2. s = InSide(link) <=> s.type = link[1] /\ s.other = link[2]
    BY <1>2, <1>3 DEF InSide, Side
  <2>3. s # OutSide(link)
    BY <1>3 DEF OutSide, Side
  <2> QED BY <2>1, <2>2, <2>3
<1>4. CASE s.role = "inward"
  <2>1. LinkID(k, s) = link <=> s.type = link[1] /\ k = link[2] /\ s.other = link[3]
    BY <1>1, <1>4 DEF LinkID
  <2>2. s = OutSide(link) <=> s.type = link[1] /\ s.other = link[3]
    BY <1>2, <1>4 DEF OutSide, Side
  <2>3. s # InSide(link)
    BY <1>4 DEF InSide, Side
  <2> QED BY <2>1, <2>2, <2>3
<1> QED BY <1>2, <1>3, <1>4

\* A row shows a side at one place or at none.
LEMMA OncePerSide ==
  ASSUME NEW list \in Seq(SideRow), NoRepeats(list), NEW side
  PROVE  Cardinality({ n \in DOMAIN list : list[n] = side }) = IF side \in ToSet(list) THEN 1 ELSE 0
<1> DEFINE places == { n \in DOMAIN list : list[n] = side }
<1>1. CASE side \in ToSet(list)
  <2>1. PICK n \in DOMAIN list : list[n] = side
    BY <1>1 DEF ToSet
  <2>2. places = {n}
    BY <2>1 DEF NoRepeats
  <2> QED BY <1>1, <2>2, FS_Singleton
<1>2. CASE side \notin ToSet(list)
  <2>1. places = {}
    BY <1>2 DEF ToSet
  <2> QED BY <1>2, <2>1, FS_EmptySet
<1> QED BY <1>1, <1>2

LEMMA LinkSidesAgreeHolds == ASSUME GraphInv PROVE LinkSidesAgree
<1>a. GraphTypes /\ LinksOK
  BY DEF GraphInv
<1> SUFFICES ASSUME second = NoWrite, NEW link \in (LinkType \X (DOMAIN issue) \X (DOMAIN issue)) \ cut,
                    NEW k \in DOMAIN issue
             PROVE  Shown(k, link) = IF link \in wanted /\ k \in {link[2], link[3]} THEN 1 ELSE 0
  BY DEF LinkSidesAgree
<1>1. link \in Link /\ link[2] \in DOMAIN issue /\ link[3] \in DOMAIN issue /\ link \notin Unsettled
  BY <1>a, IssuesHaveKeys DEF Link, Unsettled
<1> DEFINE list == issue[k].links
<1>2. list \in Seq(SideRow) /\ NoRepeats(list) /\ \A s \in ToSet(list) : s.other # k
  BY <1>a DEF GraphTypes, IssueRow, LinksOK, SidesOK
<1>3. \A n \in DOMAIN list :
        LinkID(k, list[n]) = link
          <=> (k = link[2] /\ list[n] = OutSide(link)) \/ (k = link[3] /\ list[n] = InSide(link))
  <2>1. \A n \in DOMAIN list : list[n] \in SideRow
    BY <1>2
  <2> QED BY <1>1, <2>1, LinkOfSide
<1>4. CASE link[2] = link[3]
  <2>1. OutSide(link).other = link[3] /\ InSide(link).other = link[2]
    BY <1>1, SidesAre
  <2>2. \A n \in DOMAIN list : LinkID(k, list[n]) # link
    <3>1. \A n \in DOMAIN list : list[n].other # k
      BY <1>2 DEF ToSet
    <3> HIDE DEF list
    <3> QED BY <1>3, <1>4, <2>1, <3>1
  <2>3. { n \in DOMAIN list : LinkID(k, list[n]) = link } = {}
    BY <2>2
  <2>4. link \notin wanted
    BY <1>4, <1>a DEF LinksOK
  <2> QED BY <2>3, <2>4, FS_EmptySet DEF Shown
<1>5. CASE link[2] # link[3] /\ k \notin {link[2], link[3]}
  <2>1. { n \in DOMAIN list : LinkID(k, list[n]) = link } = {}
    BY <1>3, <1>5
  <2> QED BY <2>1, <1>5, FS_EmptySet DEF Shown
<1>6. CASE link[2] # link[3] /\ k = link[2]
  <2>1. Shows(issue[k], OutSide(link)) <=> link \in wanted
    BY <1>1, <1>6, <1>a DEF LinksOK, Agrees
  <2>2. { n \in DOMAIN list : LinkID(k, list[n]) = link } = { n \in DOMAIN list : list[n] = OutSide(link) }
    BY <1>3, <1>6
  <2>3. Shown(k, link) = Cardinality({ n \in DOMAIN list : list[n] = OutSide(link) })
    BY <2>2 DEF Shown
  <2> HIDE DEF list
  <2> QED BY <1>2, <1>6, <2>1, <2>3, OncePerSide DEF Shows, list
<1>7. CASE link[2] # link[3] /\ k = link[3]
  <2>1. Shows(issue[k], InSide(link)) <=> link \in wanted
    BY <1>1, <1>7, <1>a DEF LinksOK, Agrees
  <2>2. { n \in DOMAIN list : LinkID(k, list[n]) = link } = { n \in DOMAIN list : list[n] = InSide(link) }
    BY <1>3, <1>7
  <2>3. Shown(k, link) = Cardinality({ n \in DOMAIN list : list[n] = InSide(link) })
    BY <2>2 DEF Shown
  <2> HIDE DEF list
  <2> QED BY <1>2, <1>7, <2>1, <2>3, OncePerSide DEF Shows, list
<1> QED BY <1>4, <1>5, <1>6, <1>7

\* The rows, records and the row still to be put are what the type invariant says.
THEOREM GraphTypesCorrect == GraphSpec => []GraphTypeOK
<1>1. GraphInv /\ [GraphNext]_graphVars => GraphInv'
  BY GraphSteps
<1> QED BY <1>1, GraphInvInitially, GraphTypeOKHolds, PTL DEF GraphSpec

\* Both ends of a link show it once after its creation was answered, and neither does after
\* its deletion was; a request of it that died between its rows is made good by the next.
THEOREM LinkSidesAlwaysAgree == GraphSpec => []LinkSidesAgree
<1>1. GraphInv /\ [GraphNext]_graphVars => GraphInv'
  BY GraphSteps
<1> QED BY <1>1, GraphInvInitially, LinkSidesAgreeHolds, PTL DEF GraphSpec

\* A parent that does not fit did so by the types it was judged by.
THEOREM ParentsAlwaysOnceFitted == GraphSpec => []ParentsOnceFitted
<1>1. GraphInv /\ [GraphNext]_graphVars => GraphInv'
  BY GraphSteps
<1> QED BY <1>1, GraphInvInitially, ParentsOnceFittedHolds, PTL DEF GraphSpec

\* No step gives a record another identity, gives an id twice or erases what is known of it.
THEOREM IdentityAlwaysKept == GraphSpec => IdentityKept
<1>1. GraphInv /\ [GraphNext]_graphVars => GraphInv'
  BY GraphSteps
<1>2. ASSUME GraphInv, [GraphNext]_graphVars
      PROVE  KeepsRecords
  <2>1. GraphInv' /\ AllKept
    BY <1>2, GraphSteps
  <2>2. DOMAIN issue \subseteq DOMAIN issue'
    BY <1>2, IssuesRemain
  <2> SUFFICES ASSUME NEW k \in DOMAIN issue
               PROVE  /\ RemotesKept(issue[k].remotes, issue'[k].remotes)
                      /\ DevsKept(issue[k].devs, issue'[k].devs)
                      /\ RemotesOK(issue'[k].remotes, minted') /\ DevsOK(issue'[k].devs)
    BY DEF KeepsRecords, RemotesKept, DevsKept, RemotesOK, DevsOK
  <2>3. RecordsOK'
    BY <2>1 DEF GraphInv
  <2> QED BY <2>1, <2>2, <2>3 DEF AllKept, RecordsOK
<1>3. GraphInv /\ [GraphNext]_graphVars => [KeepsRecords]_graphVars
  BY <1>2
<1> QED BY <1>1, <1>3, GraphInvInitially, PTL DEF GraphSpec, IdentityKept

-----------------------------------------------------------------------------
(* The attachments.                                                        *)

Record == [stage : Stage, by : Process \cup {""}, content : Content, newDir : BOOLEAN]

\* What is durable is there, and what is listed has its row.
DiskInv ==
  /\ up \in [Upload -> Record]
  /\ safeDir \subseteq buckets
  /\ safeFile \subseteq files
  /\ attached \subseteq blobRow

\* Past the look at the bucket its entry is durable, unless another upload was trusted with it.
BucketDurable(u) ==
  \/ up[u].stage \in {"ready", "named", "staged", "rowed", "done"}
  \/ up[u].stage = "looked" /\ ~up[u].newDir

\* What an upload has achieved, by its stage.
Achieved(u) ==
  /\ up[u].stage \notin {"none", "copying", "failed", "dead"} => up[u].content \notin TooLarge
  /\ up[u].stage = "made" => BucketOf(u) \in buckets
  /\ up[u].stage = "named" => up[u].content \in files
  /\ u \notin trusted /\ BucketDurable(u) => BucketOf(u) \in safeDir
  /\ u \notin trusted /\ up[u].stage \in {"staged", "rowed", "done"} => up[u].content \in safeFile
  /\ up[u].stage = "rowed" => u \in blobRow
  /\ u \in attached => up[u].stage = "done"

UploadsInv ==
  /\ DiskInv
  /\ attached \subseteq Upload
  /\ \A u \in Upload : Achieved(u)

-----------------------------------------------------------------------------
\* An upload that a step does not touch keeps what it has, if no durable entry, no file and
\* no row goes away.
LEMMA Untouched ==
  ASSUME NEW u \in Upload, Achieved(u), up'[u] = up[u],
         buckets \subseteq buckets', files \subseteq files', safeDir \subseteq safeDir',
         safeFile \subseteq safeFile', blobRow \subseteq blobRow',
         u \in trusted <=> u \in trusted', u \in attached <=> u \in attached'
  PROVE  Achieved(u)'
BY DEF Achieved, BucketDurable, BucketOf

LEMMA UploadSteps ==
  ASSUME UploadsInv, NEW u \in Upload, UploadStep(u)
  PROVE  UploadsInv'
<1> USE DEF UploadsInv, DiskInv, disk, rows
<1> DEFINE Others == \A v \in Upload \ {u} : Achieved(v)'
<1>1. CASE \E p \in Process, c \in Content : CreateTemp(u, p, c)
  <2>1. PICK p \in Process, c \in Content : CreateTemp(u, p, c)
    BY <1>1
  <2>2. DiskInv'
    BY <2>1 DEF CreateTemp, Record, Stage, Live
  <2>3. Others
    BY <2>1, Untouched DEF CreateTemp
  <2>4. Achieved(u)'
    BY <2>1 DEF CreateTemp, Achieved, BucketDurable, Record
  <2> QED BY <2>1, <2>2, <2>3, <2>4 DEF CreateTemp
<1>2. CASE CopyEnds(u)
  <2>1. DiskInv'
    BY <1>2 DEF CopyEnds, Moves, Record, Stage, Live
  <2>2. Others
    BY <1>2, Untouched DEF CopyEnds, Moves
  <2>3. Achieved(u)'
    BY <1>2 DEF CopyEnds, Moves, Achieved, BucketDurable, Record
  <2> QED BY <1>2, <2>1, <2>2, <2>3 DEF CopyEnds
<1>3. CASE CopyFails(u)
  <2>1. DiskInv'
    BY <1>3 DEF CopyFails, Moves, Record, Stage, Live
  <2>2. Others
    BY <1>3, Untouched DEF CopyFails, Moves
  <2>3. Achieved(u)'
    BY <1>3 DEF CopyFails, Moves, Achieved, BucketDurable, Record
  <2> QED BY <1>3, <2>1, <2>2, <2>3 DEF CopyFails
<1>4. CASE Look(u)
  <2>1. DiskInv'
    BY <1>4 DEF Look, Record, Stage, Live
  <2>2. Others
    BY <1>4, Untouched DEF Look
  <2>3. Achieved(u)'
    BY <1>4 DEF Look, Achieved, BucketDurable, BucketOf, Record
  <2> QED BY <1>4, <2>1, <2>2, <2>3 DEF Look
<1>5. CASE MakeBucket(u)
  <2>1. DiskInv'
    BY <1>5 DEF MakeBucket, Record, Stage, Live
  <2>2. Others
    BY <1>5, Untouched DEF MakeBucket
  <2>3. Achieved(u)'
    BY <1>5 DEF MakeBucket, Achieved, BucketDurable, BucketOf, Record
  <2> QED BY <1>5, <2>1, <2>2, <2>3 DEF MakeBucket
<1>6. CASE SyncRoot(u)
  <2>1. DiskInv'
    BY <1>6 DEF SyncRoot, Moves, Record, Stage, Live
  <2>2. Others
    BY <1>6, Untouched DEF SyncRoot, Moves
  <2>3. Achieved(u)'
    BY <1>6 DEF SyncRoot, Moves, Achieved, BucketDurable, BucketOf, Record
  <2> QED BY <1>6, <2>1, <2>2, <2>3 DEF SyncRoot
<1>7. CASE Rename(u)
  <2>1. DiskInv'
    BY <1>7 DEF Rename, Moves, Record, Stage, Live
  <2>2. Others
    BY <1>7, Untouched DEF Rename, Moves
  <2>3. Achieved(u)'
    BY <1>7 DEF Rename, Moves, Achieved, BucketDurable, BucketOf, Record
  <2> QED BY <1>7, <2>1, <2>2, <2>3 DEF Rename
<1>8. CASE RenameFails(u)
  <2>1. DiskInv'
    BY <1>8 DEF RenameFails, Moves, Record, Stage, Live
  <2>2. Others
    BY <1>8, Untouched DEF RenameFails, Moves
  <2>3. Achieved(u)'
    BY <1>8 DEF RenameFails, Moves, Achieved, BucketDurable, BucketOf, Record
  <2> QED BY <1>8, <2>1, <2>2, <2>3 DEF RenameFails
<1>9. CASE SyncBucket(u)
  <2>1. DiskInv'
    BY <1>9 DEF SyncBucket, Moves, Record, Stage, Live
  <2>2. Others
    BY <1>9, Untouched DEF SyncBucket, Moves
  <2>3. Achieved(u)'
    BY <1>9 DEF SyncBucket, Moves, Achieved, BucketDurable, BucketOf, Record
  <2> QED BY <1>9, <2>1, <2>2, <2>3 DEF SyncBucket
<1>10. CASE PutBlob(u)
  <2>1. DiskInv'
    BY <1>10 DEF PutBlob, Moves, Record, Stage, Live
  <2>2. Others
    BY <1>10, Untouched DEF PutBlob, Moves
  <2>3. Achieved(u)'
    BY <1>10 DEF PutBlob, Moves, Achieved, BucketDurable, BucketOf, Record
  <2> QED BY <1>10, <2>1, <2>2, <2>3 DEF PutBlob
<1>11. CASE PutAttachment(u)
  <2>1. DiskInv'
    BY <1>11 DEF PutAttachment, Moves, Record, Stage, Live, Achieved
  <2>2. Others
    BY <1>11, Untouched DEF PutAttachment, Moves
  <2>3. Achieved(u)'
    BY <1>11 DEF PutAttachment, Moves, Achieved, BucketDurable, BucketOf, Record
  <2> QED BY <1>11, <2>1, <2>2, <2>3 DEF PutAttachment
<1>12. QED
  BY <1>1, <1>2, <1>3, <1>4, <1>5, <1>6, <1>7, <1>8, <1>9, <1>10, <1>11 DEF UploadStep

\* A process that dies, or all of them in a power loss: an upload under way is dead, any
\* other one stays as it was.
LEMMA KilledOrKept ==
  ASSUME UploadsInv, NEW victims \in SUBSET Upload, Killed(victims)
  PROVE  /\ up' \in [Upload -> Record]
         /\ \A u \in Upload : up'[u] = up[u] \/ (up'[u].stage = "dead" /\ up[u].stage \in Live)
BY DEF UploadsInv, DiskInv, Killed, Record, Stage, Live

LEMMA DeadAchieveNothing ==
  ASSUME NEW u \in Upload, Achieved(u), up'[u].stage = "dead", up[u].stage \in Live,
         attached' = attached
  PROVE  Achieved(u)'
BY DEF Achieved, BucketDurable, Live

\* What a process's death or the sweep of temporary files leaves of the disk.
LEMMA DeathSteps ==
  ASSUME UploadsInv, NEW p \in Process, ProcessDies(p)
  PROVE  UploadsInv'
<1>1. /\ up' \in [Upload -> Record]
      /\ \A u \in Upload : up'[u] = up[u] \/ (up'[u].stage = "dead" /\ up[u].stage \in Live)
  BY KilledOrKept, { u \in Upload : up[u].by = p } \in SUBSET Upload DEF ProcessDies
<1>2. ASSUME NEW u \in Upload
      PROVE  Achieved(u)'
  BY <1>1, <1>2, Untouched, DeadAchieveNothing DEF UploadsInv, ProcessDies, disk, rows
<1>3. QED
  BY <1>1, <1>2 DEF UploadsInv, DiskInv, ProcessDies, disk, rows

\* A power loss keeps every durable directory and the durable files in them; a finished
\* upload stays finished, and one under way is dead.
LEMMA PowerLossSteps ==
  ASSUME UploadsInv, PowerLoss
  PROVE  UploadsInv'
<1>1. /\ up' \in [Upload -> Record]
      /\ \A u \in Upload : up'[u] = up[u] \/ (up'[u].stage = "dead" /\ up[u].stage \in Live)
  BY KilledOrKept DEF PowerLoss
<1>2. /\ safeDir \subseteq safeDir' /\ buckets' = safeDir' /\ files' = safeFile'
      /\ { c \in safeFile : Bucket[c] \in safeDir } \subseteq safeFile'
      /\ attached' = attached /\ blobRow' = blobRow /\ trusted' = trusted
  BY DEF PowerLoss, rows
<1>3. ASSUME NEW u \in Upload
      PROVE  Achieved(u)'
  <2>1. CASE up'[u] = up[u] /\ up[u].stage \notin Live
    BY <1>2, <2>1 DEF UploadsInv, Achieved, BucketDurable, BucketOf, Live
  <2>2. CASE up'[u].stage = "dead" /\ up[u].stage \in Live
    BY <1>2, <2>2, DeadAchieveNothing DEF UploadsInv
  <2>3. up[u].stage \in Live => up'[u].stage = "dead"
    BY DEF PowerLoss, Killed, UploadsInv, DiskInv, Record
  <2>4. QED
    BY <1>1, <2>1, <2>2, <2>3
<1>4. QED
  BY <1>1, <1>2, <1>3 DEF UploadsInv, DiskInv

LEMMA UploadsInvSteps ==
  ASSUME UploadsInv, [UploadsNext]_uploadVars
  PROVE  UploadsInv'
<1>1. ASSUME NEW u \in Upload, UploadStep(u)
      PROVE  UploadsInv'
  BY <1>1, UploadSteps
<1>2. ASSUME NEW u \in Upload, GrowsOld(u)
      PROVE  UploadsInv'
  BY <1>2, Untouched DEF UploadsInv, DiskInv, GrowsOld, rows
<1>3. CASE Sweep
  BY <1>3, Untouched DEF UploadsInv, DiskInv, Sweep, rows
<1>4. CASE PowerLoss
  BY <1>4, PowerLossSteps
<1>5. ASSUME NEW p \in Process, ProcessDies(p)
      PROVE  UploadsInv'
  BY <1>5, DeathSteps
<1>6. CASE UNCHANGED uploadVars
  BY <1>6, Untouched DEF UploadsInv, DiskInv, uploadVars, disk, rows
<1>7. QED
  BY <1>1, <1>2, <1>3, <1>4, <1>5, <1>6 DEF UploadsNext

LEMMA UploadsInvInitially == UploadsInit => UploadsInv
<1> SUFFICES ASSUME UploadsInit
             PROVE  UploadsInv
  OBVIOUS
<1> DEFINE first == CHOOSE c \in Content : TRUE
<1>1. first \in Content
  BY AttachmentsAssumption
<1>2. up = [u \in Upload |-> [stage |-> "none", by |-> "", content |-> first, newDir |-> FALSE]]
  BY DEF UploadsInit
<1>3. /\ safeDir = {} /\ buckets = {} /\ safeFile = {} /\ files = {}
      /\ attached = {} /\ blobRow = {}
  BY DEF UploadsInit
<1> HIDE DEF first
<1>4. DiskInv
  BY <1>1, <1>2, <1>3 DEF DiskInv, Record, Stage
<1>5. \A u \in Upload : Achieved(u)
  BY <1>2, <1>3 DEF Achieved, BucketDurable
<1>6. QED
  BY <1>3, <1>4, <1>5 DEF UploadsInv

LEMMA UploadsInvSuffices == UploadsInv => FileOutlivesRow
BY DEF UploadsInv, DiskInv, Achieved, BucketDurable, FileOutlivesRow, Readable, BucketOf

-----------------------------------------------------------------------------
\* However many uploads run, in however many processes, through deaths, power losses and
\* sweeps: an attachment that an issue lists has its row, its file and the directory of the
\* file, unless its upload found a bucket that was not durable yet (blobs.go: stage).
THEOREM ListedBytesSurvive == UploadsSpec => []FileOutlivesRow
<1>1. UploadsInit => UploadsInv
  BY UploadsInvInitially
<1>2. UploadsInv /\ [UploadsNext]_uploadVars => UploadsInv'
  BY UploadsInvSteps
<1>3. UploadsInv => FileOutlivesRow
  BY UploadsInvSuffices
<1>4. QED
  BY <1>1, <1>2, <1>3, PTL DEF UploadsSpec

\* The rest of the types: what the sweep, the directories and the observation range over.
HousekeepingOK ==
  /\ old \subseteq tmp /\ tmp \subseteq Upload
  /\ buckets \subseteq AllBuckets /\ files \subseteq Content /\ trusted \subseteq Upload

LEMMA HousekeepingSteps ==
  ASSUME UploadsInv, HousekeepingOK, [UploadsNext]_uploadVars
  PROVE  HousekeepingOK'
<1>1. \A u \in Upload : up[u].content \in Content /\ BucketOf(u) \in AllBuckets
  BY DEF UploadsInv, DiskInv, Record, AllBuckets, BucketOf
<1>2. ASSUME NEW u \in Upload, UploadStep(u) PROVE HousekeepingOK'
  <2>1. ASSUME NEW p \in Process, NEW c \in Content, CreateTemp(u, p, c) PROVE HousekeepingOK'
    BY <2>1 DEF HousekeepingOK, CreateTemp, rows
  <2>2. CASE CopyEnds(u) \/ Look(u) \/ RenameFails(u) \/ PutBlob(u) \/ PutAttachment(u)
    BY <2>2 DEF HousekeepingOK, CopyEnds, Look, RenameFails, PutBlob, PutAttachment, disk
  <2>3. CASE CopyFails(u)
    BY <2>3 DEF HousekeepingOK, CopyFails
  <2>4. CASE MakeBucket(u)
    BY <1>1, <2>4 DEF HousekeepingOK, MakeBucket
  <2>5. CASE SyncRoot(u) \/ SyncBucket(u)
    BY <2>5 DEF HousekeepingOK, SyncRoot, SyncBucket
  <2>6. CASE Rename(u)
    BY <1>1, <2>6 DEF HousekeepingOK, Rename
  <2> QED BY <1>2, <2>1, <2>2, <2>3, <2>4, <2>5, <2>6 DEF UploadStep
<1>3. ASSUME NEW u \in Upload, GrowsOld(u) PROVE HousekeepingOK'
  BY <1>3 DEF HousekeepingOK, GrowsOld
<1>4. CASE Sweep
  BY <1>4 DEF HousekeepingOK, Sweep
<1>5. CASE PowerLoss
  BY <1>5 DEF HousekeepingOK, PowerLoss
<1>6. ASSUME NEW p \in Process, ProcessDies(p) PROVE HousekeepingOK'
  BY <1>6 DEF HousekeepingOK, ProcessDies, disk
<1>7. CASE UNCHANGED uploadVars
  BY <1>7 DEF HousekeepingOK, uploadVars, disk
<1> QED BY <1>2, <1>3, <1>4, <1>5, <1>6, <1>7 DEF UploadsNext

LEMMA UploadsTypeOKHolds == ASSUME UploadsInv, HousekeepingOK PROVE UploadsTypeOK
<1>1. \A u \in Upload : up[u].stage \in Stage /\ up[u].content \in Content
  BY DEF UploadsInv, DiskInv, Record
<1> QED BY <1>1 DEF UploadsInv, DiskInv, HousekeepingOK, UploadsTypeOK

\* UploadsTypeOK always holds: no file, directory or row is durable or listed that is not there.
THEOREM UploadTypesCorrect == UploadsSpec => []UploadsTypeOK
<1>1. UploadsInit => UploadsInv
  BY UploadsInvInitially
<1>2. UploadsInit => HousekeepingOK
  BY DEF UploadsInit, HousekeepingOK
<1>3. UploadsInv /\ [UploadsNext]_uploadVars => UploadsInv'
  BY UploadsInvSteps
<1>4. UploadsInv /\ HousekeepingOK /\ [UploadsNext]_uploadVars => HousekeepingOK'
  BY HousekeepingSteps
<1>5. UploadsInv /\ HousekeepingOK => UploadsTypeOK
  BY UploadsTypeOKHolds
<1> QED BY <1>1, <1>2, <1>3, <1>4, <1>5, PTL DEF UploadsSpec

-----------------------------------------------------------------------------
(* The pages.                                                              *)

VersionRow == [number : Nat, edit : Edits, on : Edits \cup {NoEdit}]
EditorRow == [state : {"idle", "editing", "waiting"}, page : PageIds \cup {Blank}, version : Nat,
              saw : Edits \cup {NoEdit}, edits : 0..MaxEdits, sends : Nat, form : Form \cup {"none"}]

\* The inductive invariant.
\* The row of a page: its history ends at its version.
RowOK(row) ==
  /\ row.version \in Nat
  /\ row.versions \in Seq(VersionRow) /\ row.versions # << >>
  /\ \A n \in DOMAIN row.versions : row.versions[n].number = row.version - Len(row.versions) + n
  /\ row.title # Blank /\ row.space \in Space
  /\ \E n \in DOMAIN row.versions : row.versions[n].edit = row.text

DomainOK == \E n \in 0..Len(PageId) : DOMAIN page = FirstOf(PageId, n)

RowsOK == \A p \in DOMAIN page : RowOK(page[p]) /\ KnownParent(page[p].parent)

\* The version with a number is the given edit.
Stands(p, number, edit) ==
  \E n \in DOMAIN page[p].versions :
    page[p].versions[n].number = number /\ page[p].versions[n].edit = edit

EditorsOK ==
  /\ editor \in [Editor -> EditorRow]
  /\ \A e \in Editor : editor[e].state # "idle" =>
       /\ editor[e].edits \in 1..MaxEdits /\ editor[e].page \in DOMAIN page
       /\ editor[e].saw \in Edits
       /\ Stands(editor[e].page, editor[e].version, editor[e].saw)

\* An edit that was made is not one an editor is still to make.
Begun(edit) ==
  \A e \in Editor : edit.by = e =>
    edit.n <= editor[e].edits /\ (editor[e].state = "editing" => edit.n < editor[e].edits)

HistoryBegun == \A p \in DOMAIN page : \A n \in DOMAIN page[p].versions :
                  Begun(page[p].versions[n].edit)

\* Updates that may still arrive.
Arriving == { packet.m : packet \in wire } \cup { PutOf(e) : e \in {d \in Editor : editor[d].state = "waiting"} }

NotEarlier(m) ==
  \A n \in DOMAIN page[m.page].versions :
    page[m.page].versions[n].edit = m.edit => page[m.page].versions[n].number >= m.next

LiveOK(m) ==
  /\ m.page \in DOMAIN page /\ m.next \in Nat
  /\ m.edit \in [by : Editor, n : 1..MaxEdits] /\ m.on \in Edits
  /\ Begun(m.edit)
  /\ Stands(m.page, m.next - 1, m.on)
  /\ NotEarlier(m)

AllLiveOK == \A m \in Arriving : LiveOK(m)
OneUpdateOfAnEdit == \A m, o \in Arriving : m.edit = o.edit => m = o

PagesInv ==
  /\ DomainOK /\ RowsOK /\ EditorsOK /\ HistoryBegun /\ AllLiveOK /\ OneUpdateOfAnEdit

-----------------------------------------------------------------------------
(* Ids and histories.                                                      *)

\* The pages there are count as many as the ids handed out.
LEMMA HandedOut ==
  ASSUME NEW n \in 0..Len(PageId)
  PROVE  Cardinality(FirstOf(PageId, n)) = n
BY PagesAssumption, FirstOnes

\* The id a new page is given is none of those before it.
LEMMA NextIdIsNew ==
  ASSUME NEW n \in 0..Len(PageId), n < Len(PageId)
  PROVE  /\ PageId[n + 1] \in PageIds \ FirstOf(PageId, n)
         /\ FirstOf(PageId, n) \cup {PageId[n + 1]} = FirstOf(PageId, n + 1)
<1>1. /\ n + 1 \in DOMAIN PageId /\ 1..n \subseteq DOMAIN PageId
      /\ 1..(n + 1) = 1..n \cup {n + 1} /\ n + 1 \notin 1..n
  BY PagesAssumption
<1>2. \A i \in 1..n : PageId[i] # PageId[n + 1]
  BY <1>1, PagesAssumption
<1>3. PageId[n + 1] \in PageIds
  BY <1>1 DEF PageIds
<1>4. FirstOf(PageId, n + 1) = FirstOf(PageId, n) \cup {PageId[n + 1]}
  BY <1>1, Zenon DEF FirstOf
<1> QED BY <1>2, <1>3, <1>4 DEF FirstOf

\* In a history that ends at its row's version the last version is the one it is at.
LEMMA LastIsCurrent ==
  ASSUME NEW row, RowOK(row), NEW n \in DOMAIN row.versions
  PROVE  /\ Len(row.versions) \in Nat \ {0} /\ DOMAIN row.versions = 1..Len(row.versions)
         /\ row.versions[n].number <= row.version
         /\ row.versions[n].number = row.version <=> n = Len(row.versions)
BY DEF RowOK

LEMMA CurrentVersionIs ==
  ASSUME PagesInv, NEW p \in DOMAIN page
  PROVE  CurrentVersion(p) = page[p].versions[Len(page[p].versions)]
<1>1. RowOK(page[p])
  BY DEF PagesInv, RowsOK
<1>2. Len(page[p].versions) \in DOMAIN page[p].versions
  BY <1>1 DEF RowOK
<1>3. { n \in DOMAIN page[p].versions : page[p].versions[n].number = page[p].version }
        = {Len(page[p].versions)}
  BY <1>1, <1>2, LastIsCurrent
<1>4. Len(page[p].versions) \in Nat
  BY <1>1 DEF RowOK
<1> QED BY <1>3, <1>4 DEF CurrentVersion

\* The row of a page that is created, or updated with the next number.
LEMMA WrittenOK ==
  ASSUME NEW form \in Form, NEW edit \in Edits, form.title # Blank, form.space \in Space
  PROVE  RowOK(Written(form, edit))
<1> DEFINE row == Written(form, edit)
<1>1. /\ row.version = 1 /\ row.versions = << Version(1, edit, NoEdit) >>
      /\ row.title = form.title /\ row.space = form.space /\ row.text = edit
  BY DEF Written
<1>2. Version(1, edit, NoEdit) \in VersionRow /\ Version(1, edit, NoEdit).number = 1
      /\ Version(1, edit, NoEdit).edit = edit
  BY DEF Version, VersionRow
<1> HIDE DEF row
<1>3. /\ row.versions \in Seq(VersionRow) /\ Len(row.versions) = 1 /\ DOMAIN row.versions = {1}
      /\ row.versions[1] = Version(1, edit, NoEdit) /\ row.versions # << >>
  BY <1>1, <1>2
<1>4. row.version \in Nat /\ row.title # Blank /\ row.space \in Space
  BY <1>1
<1>5. \A n \in DOMAIN row.versions : row.versions[n].number = row.version - Len(row.versions) + n
  BY <1>1, <1>2, <1>3
<1>6. \E n \in DOMAIN row.versions : row.versions[n].edit = row.text
  BY <1>1, <1>2, <1>3
<1> QED BY <1>3, <1>4, <1>5, <1>6 DEF RowOK, row

LEMMA UpdatedOK ==
  ASSUME NEW row, RowOK(row), NEW m, m.next = row.version + 1, m.edit \in Edits,
         m.on \in Edits, m.form.title # Blank,
         m.form.space = Blank \/ m.form.space \in Space
  PROVE  /\ RowOK(Updated(row, m))
         /\ Updated(row, m).versions = Append(row.versions, Version(m.next, m.edit, m.on))
<1> DEFINE new == Updated(row, m)
           v == Version(m.next, m.edit, m.on)
<1>1. /\ new.version = row.version + 1 /\ new.versions = Append(row.versions, v)
      /\ new.title # Blank /\ new.space \in Space
      /\ new.text = IF m.form.body = Blank THEN row.text ELSE m.edit
  BY DEF Updated, RowOK
<1>2. v \in VersionRow /\ v.number = row.version + 1 /\ v.edit = m.edit
  BY DEF Version, VersionRow, RowOK
<1> HIDE DEF new, v
<1>3. /\ new.versions \in Seq(VersionRow) /\ Len(new.versions) = Len(row.versions) + 1
      /\ \A n \in DOMAIN row.versions : n \in DOMAIN new.versions /\ new.versions[n] = row.versions[n]
      /\ new.versions[Len(new.versions)] = v
      /\ DOMAIN new.versions = 1..(Len(row.versions) + 1) /\ DOMAIN row.versions = 1..Len(row.versions)
      /\ Len(row.versions) \in Nat
  BY <1>1, <1>2 DEF RowOK
<1>4. \A n \in DOMAIN new.versions : new.versions[n].number = new.version - Len(new.versions) + n
  <2> TAKE n \in DOMAIN new.versions
  <2>1. CASE n \in DOMAIN row.versions
    <3>1. row.versions[n].number = row.version - Len(row.versions) + n
      BY <2>1 DEF RowOK
    <3> QED BY <2>1, <3>1, <1>1, <1>3 DEF RowOK
  <2>2. CASE n = Len(row.versions) + 1
    BY <2>2, <1>1, <1>2, <1>3 DEF RowOK
  <2> QED BY <2>1, <2>2, <1>3
<1>5. \E n \in DOMAIN new.versions : new.versions[n].edit = new.text
  BY <1>1, <1>2, <1>3 DEF RowOK
<1>6. new.versions # << >> /\ new.version \in Nat
  BY <1>1, <1>3 DEF RowOK
<1> QED BY <1>1, <1>3, <1>4, <1>5, <1>6 DEF RowOK, new, v

-----------------------------------------------------------------------------
(* The initial states.                                                     *)

LEMMA InitRow ==
  ASSUME NEW p \in DOMAIN Fixture
  PROVE  RowOK(Loaded(p)) /\ Loaded(p).parent = Blank
<1> DEFINE row == Loaded(p)
           v == Version(Fixture[p], FixtureEdit(p), NoEdit)
<1>1. /\ row.version = Fixture[p] /\ row.versions = << v >> /\ row.parent = Blank
      /\ row.text = FixtureEdit(p) /\ row.title = "T" /\ row.space = CHOOSE s \in Space : TRUE
  BY DEF Loaded
<1>2. "T" # Blank
  BY DEF Blank
<1>3. row.space \in Space
  BY <1>1, PagesAssumption
<1>4. p \in PageIds
  BY PagesAssumption DEF PageIds
<1>5. v \in VersionRow /\ v.number = Fixture[p] /\ v.edit = FixtureEdit(p)
  BY <1>4, PagesAssumption DEF Version, VersionRow, Edits
<1> HIDE DEF row, v
<1>6. /\ row.versions \in Seq(VersionRow) /\ Len(row.versions) = 1 /\ DOMAIN row.versions = {1}
      /\ row.versions[1] = v /\ row.versions # << >>
  BY <1>1, <1>5
<1>7. row.version \in Nat /\ row.title # Blank
  BY <1>1, <1>2, PagesAssumption
<1>8. \A n \in DOMAIN row.versions : row.versions[n].number = row.version - Len(row.versions) + n
  BY <1>1, <1>5, <1>6, <1>7
<1>9. \E n \in DOMAIN row.versions : row.versions[n].edit = row.text
  BY <1>1, <1>5, <1>6
<1> QED BY <1>1, <1>3, <1>6, <1>7, <1>8, <1>9 DEF RowOK, row

LEMMA InvInitially == PagesInit => PagesInv
<1> SUFFICES ASSUME PagesInit PROVE PagesInv
  OBVIOUS
<1>1. DOMAIN page = DOMAIN Fixture /\ \A p \in DOMAIN page : page[p] = Loaded(p)
  BY DEF PagesInit
<1>2. DomainOK
  BY <1>1, PagesAssumption DEF DomainOK, FirstOf
<1>3. RowsOK
  BY <1>1, InitRow DEF RowsOK, KnownParent
<1>4. editor \in [Editor -> EditorRow] /\ \A e \in Editor : editor[e].state = "idle" /\ editor[e].edits = 0
  BY PagesAssumption DEF PagesInit, Idle, EditorRow
<1>5. EditorsOK
  BY <1>4 DEF EditorsOK
<1>6. HistoryBegun
  <2> SUFFICES ASSUME NEW p \in DOMAIN page, NEW n \in DOMAIN page[p].versions
               PROVE  Begun(page[p].versions[n].edit)
    BY DEF HistoryBegun
  <2>1. page[p].versions = << Version(Fixture[p], FixtureEdit(p), NoEdit) >>
    BY <1>1 DEF Loaded
  <2>2. page[p].versions[n].edit = FixtureEdit(p)
    BY <2>1 DEF Version
  <2> QED BY <2>2, <1>4 DEF Begun, FixtureEdit
<1>7. Arriving = {}
  BY <1>4 DEF Arriving, PagesInit
<1> QED BY <1>2, <1>3, <1>5, <1>6, <1>7 DEF PagesInv, AllLiveOK, OneUpdateOfAnEdit

-----------------------------------------------------------------------------
(* What no step takes back.                                                *)

\* Edit numbers rise before an editor starts a new edit.
CountersGrow ==
  \A e \in Editor :
    /\ editor'[e].edits >= editor[e].edits
    /\ editor'[e].state = "editing" =>
         \/ editor'[e].edits > editor[e].edits
         \/ editor[e].state = "editing"

\* Page p is as it was or has one version more.
Longer(p, v) == v \in VersionRow /\ page'[p].versions = Append(page[p].versions, v)
PageGrows(p) ==
  p \in DOMAIN page' /\ (page'[p].versions = page[p].versions \/ \E v \in VersionRow : Longer(p, v))

LEMMA BegunLasts ==
  ASSUME PagesInv, EditorsOK', CountersGrow, NEW edit, edit.n \in Nat, Begun(edit)
  PROVE  Begun(edit)'
<1> SUFFICES ASSUME NEW e \in Editor, edit.by = e
             PROVE  edit.n <= editor'[e].edits /\ (editor'[e].state = "editing" => edit.n < editor'[e].edits)
  BY DEF Begun
<1>1. editor[e].edits \in Nat /\ editor'[e].edits \in Nat
  BY PagesAssumption DEF PagesInv, EditorsOK, EditorRow
<1> QED BY <1>1 DEF Begun, CountersGrow

LEMMA VersionsOf ==
  ASSUME RowsOK, NEW p \in DOMAIN page
  PROVE  /\ page[p].versions \in Seq(VersionRow)
         /\ Len(page[p].versions) \in Nat \ {0}
         /\ DOMAIN page[p].versions = 1..Len(page[p].versions)
<1>1. RowOK(page[p])
  BY DEF RowsOK
<1> QED BY <1>1 DEF RowOK

\* The rows of a history that is a row longer.
LEMMA ExtendedRows ==
  ASSUME RowsOK, NEW p \in DOMAIN page, NEW v, Longer(p, v)
  PROVE  /\ DOMAIN page'[p].versions = 1..(Len(page[p].versions) + 1)
         /\ Len(page'[p].versions) = Len(page[p].versions) + 1
         /\ \A n \in DOMAIN page[p].versions : page'[p].versions[n] = page[p].versions[n]
         /\ page'[p].versions[Len(page[p].versions) + 1] = v
BY VersionsOf DEF Longer

LEMMA StandsLasts ==
  ASSUME RowsOK, NEW p \in DOMAIN page, PageGrows(p), NEW number, NEW edit, Stands(p, number, edit)
  PROVE  Stands(p, number, edit)'
<1>1. CASE page'[p].versions = page[p].versions
  BY <1>1 DEF Stands
<1>2. CASE \E v \in VersionRow : Longer(p, v)
  <2>1. PICK v \in VersionRow : Longer(p, v)
    BY <1>2
  <2>2. PICK n \in DOMAIN page[p].versions :
          page[p].versions[n].number = number /\ page[p].versions[n].edit = edit
    BY DEF Stands
  <2>3. n \in DOMAIN page'[p].versions
    BY <2>1, ExtendedRows, VersionsOf
  <2> QED BY <2>1, <2>2, <2>3, ExtendedRows DEF Stands
<1> QED BY <1>1, <1>2 DEF PageGrows

\* An update that may still arrive stays one, if its edit enters the history of its page no
\* earlier than it asks for.
LEMMA LiveLasts ==
  ASSUME PagesInv, EditorsOK', CountersGrow, NEW m, LiveOK(m), PageGrows(m.page),
         \A v \in VersionRow : Longer(m.page, v) /\ v.edit = m.edit => v.number >= m.next
  PROVE  LiveOK(m)'
<1> DEFINE p == m.page
<1>1. /\ p \in DOMAIN page /\ m.next \in Nat /\ RowsOK
      /\ m.edit \in [by : Editor, n : 1..MaxEdits] /\ m.on \in Edits
  BY DEF LiveOK, PagesInv
<1>2. p \in DOMAIN page'
  BY DEF PageGrows
<1>3. Begun(m.edit)'
  BY <1>1, BegunLasts, PagesAssumption DEF LiveOK
<1>4. Stands(p, m.next - 1, m.on)'
  BY <1>1, StandsLasts DEF LiveOK
<1>5. NotEarlier(m)'
  <2> SUFFICES ASSUME NEW n \in DOMAIN page'[p].versions, page'[p].versions[n].edit = m.edit
               PROVE  page'[p].versions[n].number >= m.next
    BY DEF NotEarlier
  <2>1. CASE page'[p].versions = page[p].versions
    BY <2>1 DEF LiveOK, NotEarlier
  <2>2. CASE \E v \in VersionRow : Longer(p, v)
    <3>1. PICK v \in VersionRow : Longer(p, v)
      BY <2>2
    <3>2. CASE n \in DOMAIN page[p].versions
      BY <3>2, <3>1, <1>1, ExtendedRows DEF LiveOK, NotEarlier
    <3>3. CASE n = Len(page[p].versions) + 1
      BY <3>3, <3>1, <1>1, ExtendedRows
    <3> QED BY <3>1, <3>2, <3>3, <1>1, ExtendedRows, VersionsOf
  <2> QED BY <2>1, <2>2 DEF PageGrows
<1> QED BY <1>1, <1>2, <1>3, <1>4, <1>5 DEF LiveOK

-----------------------------------------------------------------------------
(* The steps of the store.                                                 *)

\* A page is written: its row is a good one, and every other row is kept.
LEMMA NewPage ==
  ASSUME PagesInv, NEW edit \in Edits, NEW form \in Form, CreatePage(edit, form)
  PROVE  \E id \in PageIds \ DOMAIN page :
           /\ DOMAIN page' = DOMAIN page \cup {id} /\ page'[id] = Written(form, edit)
           /\ \A p \in DOMAIN page : page'[p] = page[p]
           /\ DomainOK' /\ RowsOK'
<1>1. PICK n \in 0..Len(PageId) : DOMAIN page = FirstOf(PageId, n)
  BY DEF PagesInv, DomainOK
<1>2. Cardinality(DOMAIN page) = n /\ n < Len(PageId)
  BY <1>1, HandedOut DEF CreatePage
<1> DEFINE id == PageId[n + 1]
<1>3. id \in PageIds \ DOMAIN page /\ DOMAIN page \cup {id} = FirstOf(PageId, n + 1)
  BY <1>1, <1>2, NextIdIsNew
<1>4. page' = [p \in DOMAIN page \cup {id} |-> IF p = id THEN Written(form, edit) ELSE page[p]]
  BY <1>2 DEF CreatePage
<1> HIDE DEF id
<1>5. /\ DOMAIN page' = DOMAIN page \cup {id} /\ page'[id] = Written(form, edit)
      /\ \A p \in DOMAIN page : page'[p] = page[p]
  BY <1>3, <1>4
<1>6. DomainOK'
  <2>1. n + 1 \in 0..Len(PageId)
    BY <1>2, PagesAssumption
  <2> QED BY <2>1, <1>3, <1>5 DEF DomainOK
<1>7. form.title # Blank /\ form.space \in Space /\ KnownParent(form.parent)
  BY DEF CreatePage, Accepts
<1>8. RowOK(page'[id]) /\ page'[id].parent = form.parent
  <2>1. Written(form, edit).parent = form.parent
    BY DEF Written
  <2> QED BY <2>1, <1>5, <1>7, WrittenOK
<1>9. RowsOK'
  <2> SUFFICES ASSUME NEW p \in DOMAIN page' PROVE RowOK(page'[p]) /\ KnownParent(page[p].parent)'
    BY DEF RowsOK
  <2> QED BY <1>5, <1>7, <1>8 DEF PagesInv, RowsOK, KnownParent
<1> QED BY <1>3, <1>5, <1>6, <1>9

\* An update is refused, or it adds the version it asks for.
LEMMA OnePageUpdated ==
  ASSUME PagesInv, NEW m, LiveOK(m), UpdatePage(m)
  PROVE  /\ DomainOK' /\ RowsOK' /\ DOMAIN page' = DOMAIN page
         /\ \A p \in DOMAIN page \ {m.page} : page'[p] = page[p]
         /\ \/ page' = page
            \/ /\ m.next = page[m.page].version + 1
               /\ Longer(m.page, Version(m.next, m.edit, m.on))
<1>1. m.page \in DOMAIN page /\ RowOK(page[m.page]) /\ m.edit \in Edits /\ m.on \in Edits /\ m.next \in Nat
  BY DEF LiveOK, PagesInv, RowsOK, Edits
<1>2. CASE page' = page
  BY <1>2 DEF PagesInv, DomainOK, RowsOK, KnownParent
<1>3. CASE page' # page
  <2>1. /\ m.next = page[m.page].version + 1 /\ Fits(m.page, m.form)
        /\ page' = [page EXCEPT ![m.page] = Updated(@, m)]
    BY <1>3 DEF UpdatePage, Conflicts
  <2>2. DOMAIN page' = DOMAIN page /\ page'[m.page] = Updated(page[m.page], m)
        /\ \A p \in DOMAIN page \ {m.page} : page'[p] = page[p]
    BY <2>1, <1>1
  <2>3. /\ m.form.title # Blank /\ KnownParent(m.form.parent)
        /\ m.form.space = Blank \/ m.form.space \in Space
    BY <2>1 DEF Fits
  <2>4. /\ RowOK(Updated(page[m.page], m))
        /\ Updated(page[m.page], m).versions
             = Append(page[m.page].versions, Version(m.next, m.edit, m.on))
    BY <1>1, <2>1, <2>3, UpdatedOK
  <2>5. Version(m.next, m.edit, m.on) \in VersionRow
    BY <1>1 DEF Version, VersionRow
  <2>6. KnownParent(Updated(page[m.page], m).parent)
    <3>1. Updated(page[m.page], m).parent
            = IF m.form.parent = Blank THEN page[m.page].parent ELSE m.form.parent
      BY DEF Updated
    <3> QED BY <3>1, <2>3, <1>1 DEF PagesInv, RowsOK
  <2>7. RowsOK'
    BY <1>1, <2>2, <2>4, <2>6 DEF PagesInv, RowsOK, KnownParent
  <2>8. DomainOK'
    BY <2>2 DEF PagesInv, DomainOK
  <2> QED BY <2>1, <2>2, <2>4, <2>5, <2>7, <2>8 DEF Longer
<1> QED BY <1>2, <1>3

-----------------------------------------------------------------------------
(* The steps of the editors.                                               *)

\* What a step that leaves the pages alone has still to show.
LEMMA SamePages ==
  ASSUME PagesInv, UNCHANGED page, EditorsOK', CountersGrow
  PROVE  /\ DomainOK' /\ RowsOK' /\ HistoryBegun'
         /\ \A m : LiveOK(m) => LiveOK(m)'
<1>1. DomainOK' /\ RowsOK'
  BY DEF PagesInv, DomainOK, RowsOK, KnownParent
<1>2. HistoryBegun'
  <2> SUFFICES ASSUME NEW p \in DOMAIN page, NEW n \in DOMAIN page[p].versions
               PROVE  Begun(page[p].versions[n].edit)'
    BY DEF HistoryBegun
  <2>1. page[p].versions[n].edit.n \in Nat
    <3>1. page[p].versions[n] \in VersionRow
      BY VersionsOf DEF PagesInv
    <3> QED BY <3>1, PagesAssumption DEF VersionRow, Edits, FixtureEdit
  <2>2. Begun(page[p].versions[n].edit)
    BY DEF PagesInv, HistoryBegun
  <2> DEFINE edit == page[p].versions[n].edit
  <2>3. edit' = edit
    OBVIOUS
  <2> SUFFICES \A e \in Editor : edit.by = e =>
         edit.n <= editor'[e].edits /\ (editor'[e].state = "editing" => edit.n < editor'[e].edits)
    BY DEF Begun
  <2> HIDE DEF edit
  <2> TAKE e \in Editor
  <2>4. editor[e].edits \in Nat /\ editor'[e].edits \in Nat
    BY PagesAssumption DEF PagesInv, EditorsOK, EditorRow
  <2>5. edit.n \in Nat /\ Begun(edit)
    BY <2>1, <2>2 DEF edit
  <2> QED BY <2>4, <2>5 DEF Begun, CountersGrow
<1>3. ASSUME NEW m, LiveOK(m) PROVE LiveOK(m)'
  <2>1. m.page \in DOMAIN page /\ m.edit \in [by : Editor, n : 1..MaxEdits]
    BY <1>3 DEF LiveOK
  <2>2. Begun(m.edit)'
    BY <2>1, <1>3, BegunLasts, PagesAssumption DEF LiveOK
  <2> QED BY <1>3, <2>1, <2>2 DEF LiveOK, Stands, NotEarlier
<1> QED BY <1>1, <1>2, <1>3

\* Updates an editor waits for: of another editor, or of the same in another state.
LEMMA PutOfOthers ==
  ASSUME NEW d \in Editor, editor'[d] = editor[d]
  PROVE  PutOf(d)' = PutOf(d)
BY DEF PutOf

\* A step that adds no update leaves those there are in order.
LEMMA FewerLive ==
  ASSUME PagesInv, Arriving' \subseteq Arriving, \A m \in Arriving : LiveOK(m) => LiveOK(m)'
  PROVE  AllLiveOK' /\ OneUpdateOfAnEdit'
BY DEF PagesInv, AllLiveOK, OneUpdateOfAnEdit

LEMMA PutOfIs ==
  ASSUME NEW e
  PROVE  /\ PutOf(e).page = editor[e].page /\ PutOf(e).next = editor[e].version + 1
         /\ PutOf(e).edit = [by |-> e, n |-> editor[e].edits] /\ PutOf(e).on = editor[e].saw
BY DEF PutOf

\* What an editor sees in a GET is a version of the page.
LEMMA Seen ==
  ASSUME PagesInv, NEW p \in DOMAIN page
  PROVE  /\ CurrentVersion(p).number \in Nat /\ CurrentVersion(p).edit \in Edits
         /\ Stands(p, CurrentVersion(p).number, CurrentVersion(p).edit)
<1>1. CurrentVersion(p) = page[p].versions[Len(page[p].versions)]
  BY CurrentVersionIs
<1>2. Len(page[p].versions) \in DOMAIN page[p].versions
      /\ page[p].versions[Len(page[p].versions)] \in VersionRow
  BY VersionsOf DEF PagesInv
<1> QED BY <1>1, <1>2 DEF Stands, VersionRow

\* The other editors: their rows and what they have seen are not touched.
LEMMA EditorsLast ==
  ASSUME PagesInv, NEW e \in Editor, NEW row \in EditorRow, editor' = [editor EXCEPT ![e] = row],
         \A p \in DOMAIN page : PageGrows(p),
         row.state # "idle" =>
           /\ row.edits \in 1..MaxEdits /\ row.page \in DOMAIN page /\ row.saw \in Edits
           /\ Stands(row.page, row.version, row.saw)
  PROVE  EditorsOK'
<1>1. editor' \in [Editor -> EditorRow]
  BY DEF PagesInv, EditorsOK
<1> SUFFICES ASSUME NEW d \in Editor, editor'[d].state # "idle"
             PROVE  /\ editor'[d].edits \in 1..MaxEdits /\ editor'[d].page \in DOMAIN page'
                    /\ editor'[d].saw \in Edits
                    /\ Stands(editor[d].page, editor[d].version, editor[d].saw)'
  BY <1>1 DEF EditorsOK
<1> DEFINE q == editor'[d].page  v == editor'[d].version  s == editor'[d].saw
<1>2. /\ editor'[d].edits \in 1..MaxEdits /\ q \in DOMAIN page /\ s \in Edits
      /\ Stands(q, v, s)
  <2>1. CASE d = e
    <3>1. editor'[d] = row
      BY <2>1 DEF PagesInv, EditorsOK
    <3> QED BY <3>1
  <2>2. CASE d # e
    <3>1. editor'[d] = editor[d]
      BY <2>2 DEF PagesInv, EditorsOK
    <3> QED BY <3>1 DEF PagesInv, EditorsOK
  <2> QED BY <2>1, <2>2
<1>3. q \in DOMAIN page'
  BY <1>2 DEF PageGrows
<1>4. \E n \in DOMAIN page'[q].versions :
        page'[q].versions[n].number = v /\ page'[q].versions[n].edit = s
  <2> HIDE DEF q, v, s
  <2>1. RowsOK /\ PageGrows(q)
    BY <1>2 DEF PagesInv
  <2> SUFFICES ASSUME NEW qq, qq = q, NEW vv, vv = v, NEW ss, ss = s
               PROVE  \E n \in DOMAIN page'[qq].versions :
                        page'[qq].versions[n].number = vv /\ page'[qq].versions[n].edit = ss
    OBVIOUS
  <2>2. Stands(qq, vv, ss)'
    BY <2>1, <1>2, StandsLasts
  <2> QED BY <2>2 DEF Stands
<1> QED BY <1>2, <1>3, <1>4 DEF Stands

\* An editor's own row, changed as a step of its own changes it.
LEMMA RowOfEditor ==
  ASSUME PagesInv, NEW e \in Editor
  PROVE  editor[e] \in EditorRow /\ editor[e].edits \in Nat /\ editor[e].version \in Nat
         /\ MaxEdits \in Nat
BY PagesAssumption DEF PagesInv, EditorsOK, EditorRow

LEMMA PostPageSteps ==
  ASSUME PagesInv, NEW e \in Editor, NEW form \in Form, PostPage(e, form)
  PROVE  PagesInv'
<1> DEFINE edit == [by |-> e, n |-> editor[e].edits + 1]
           row == [editor[e] EXCEPT !.edits = @ + 1]
<1>1. /\ editor[e].state = "idle" /\ editor[e].edits + 1 \in 1..MaxEdits
      /\ editor' = [editor EXCEPT ![e] = row] /\ wire' = wire
  BY RowOfEditor DEF PostPage, CanEdit
<1>2. edit \in Edits
  BY <1>1 DEF Edits
<1>3. PICK id \in PageIds \ DOMAIN page :
        /\ DOMAIN page' = DOMAIN page \cup {id} /\ page'[id] = Written(form, edit)
        /\ \A p \in DOMAIN page : page'[p] = page[p]
        /\ DomainOK' /\ RowsOK'
  BY <1>2, NewPage DEF PostPage
<1>4. row \in EditorRow /\ row.state = "idle" /\ row.edits = editor[e].edits + 1
  BY <1>1, RowOfEditor DEF EditorRow
<1>5. \A p \in DOMAIN page : PageGrows(p)
  BY <1>3 DEF PageGrows
<1> HIDE DEF row
<1>6. EditorsOK'
  BY <1>1, <1>4, <1>5, EditorsLast
<1>7. /\ editor'[e] = row /\ \A d \in Editor \ {e} : editor'[d] = editor[d]
      /\ \A d \in Editor : editor[d].edits \in Nat
  BY <1>1, RowOfEditor DEF PagesInv, EditorsOK
<1>8. CountersGrow
  BY <1>4, <1>7, RowOfEditor DEF CountersGrow
<1>9. HistoryBegun'
  <2> SUFFICES ASSUME NEW p \in DOMAIN page', NEW n \in DOMAIN page'[p].versions
               PROVE  \A d \in Editor : page'[p].versions[n].edit.by = d =>
                        page'[p].versions[n].edit.n <= editor'[d].edits
                        /\ (editor'[d].state = "editing" =>
                              page'[p].versions[n].edit.n < editor'[d].edits)
    BY DEF HistoryBegun, Begun
  <2>1. CASE p = id
    <3>1. page'[p].versions[n].edit = edit
      BY <2>1, <1>3 DEF Written, Version
    <3> QED BY <3>1, <1>1, <1>4, <1>7
  <2>2. CASE p \in DOMAIN page
    <3> DEFINE earlier == page[p].versions[n].edit
    <3>1. page'[p].versions[n].edit = earlier /\ n \in DOMAIN page[p].versions
      BY <2>2, <1>3
    <3>2. Begun(earlier) /\ earlier.n \in Nat
      <4>1. page[p].versions[n] \in VersionRow
        BY <2>2, <3>1, VersionsOf DEF PagesInv
      <4>2. earlier.n \in Nat
        BY <4>1, PagesAssumption DEF VersionRow, Edits, FixtureEdit
      <4> QED BY <2>2, <3>1, <4>2 DEF PagesInv, HistoryBegun
    <3> HIDE DEF earlier
    <3> QED BY <3>1, <3>2, <1>4, <1>7, <1>8 DEF Begun, CountersGrow
  <2> QED BY <2>1, <2>2, <1>3
<1>10. Arriving' \subseteq Arriving
  BY <1>1, <1>4, <1>7, PutOfOthers DEF Arriving
<1>11. ASSUME NEW m \in Arriving, LiveOK(m) PROVE LiveOK(m)'
  <2>1. m.page \in DOMAIN page /\ page'[m.page].versions = page[m.page].versions
    BY <1>11, <1>3 DEF LiveOK
  <2>2. ASSUME NEW v \in VersionRow PROVE ~Longer(m.page, v)
    <3>1. Len(page[m.page].versions) \in Nat
      BY <2>1, VersionsOf DEF PagesInv
    <3> QED BY <2>1, <3>1, VersionsOf DEF Longer, PagesInv
  <2> QED BY <1>5, <1>6, <1>8, <1>11, <2>1, <2>2, LiveLasts
<1> QED BY <1>3, <1>6, <1>9, <1>10, <1>11, FewerLive DEF PagesInv

LEMMA EditingRow ==
  ASSUME NEW earlier \in EditorRow, NEW p \in PageIds, NEW version, version.number \in Nat,
         version.edit \in Edits, earlier.edits + 1 \in 1..MaxEdits, MaxEdits \in Nat
  PROVE  LET row == Editing(earlier, p, version)
         IN  /\ row \in EditorRow /\ row.state = "editing" /\ row.edits = earlier.edits + 1
             /\ row.page = p /\ row.version = version.number /\ row.saw = version.edit
<1> SUFFICES ASSUME NEW row, row = Editing(earlier, p, version)
             PROVE  /\ row \in EditorRow /\ row.state = "editing" /\ row.edits = earlier.edits + 1
                    /\ row.page = p /\ row.version = version.number /\ row.saw = version.edit
  OBVIOUS
<1>1. row.state = "editing" /\ row.page = p /\ row.version = version.number /\ row.saw = version.edit
  BY DEF Editing, EditorRow
<1>2. row.edits = earlier.edits + 1
  BY DEF Editing, EditorRow
<1>3. row.sends = earlier.sends /\ row.form = earlier.form
  BY DEF Editing, EditorRow
<1>4. row = [state |-> row.state, page |-> row.page, version |-> row.version, saw |-> row.saw,
             edits |-> row.edits, sends |-> row.sends, form |-> row.form]
  BY DEF Editing, EditorRow
<1>5. earlier.sends \in Nat /\ earlier.form \in Form \cup {"none"}
  BY DEF EditorRow
<1> QED BY <1>1, <1>2, <1>3, <1>4, <1>5 DEF EditorRow

LEMMA GetPageSteps ==
  ASSUME PagesInv, NEW e \in Editor, NEW p \in PageIds, GetPage(e, p)
  PROVE  PagesInv'
<1> DEFINE row == Editing(editor[e], p, CurrentVersion(p))
<1>1. /\ editor[e].state = "idle" /\ editor[e].edits + 1 \in 1..MaxEdits /\ p \in DOMAIN page
      /\ editor' = [editor EXCEPT ![e] = row] /\ wire' = wire /\ page' = page
  BY RowOfEditor DEF GetPage, CanEdit
<1>2. /\ row \in EditorRow /\ row.state = "editing" /\ row.edits = editor[e].edits + 1 /\ row.page = p
      /\ row.version = CurrentVersion(p).number /\ row.saw = CurrentVersion(p).edit
  BY <1>1, Seen, RowOfEditor, EditingRow
<1>3. \A q \in DOMAIN page : PageGrows(q)
  BY <1>1 DEF PageGrows
<1> HIDE DEF row
<1>4. EditorsOK'
  BY <1>1, <1>2, <1>3, Seen, EditorsLast
<1>5. /\ editor'[e] = row /\ \A d \in Editor \ {e} : editor'[d] = editor[d]
      /\ \A d \in Editor : editor[d].edits \in Nat
  BY <1>1, RowOfEditor DEF PagesInv, EditorsOK
<1>6. CountersGrow
  BY <1>2, <1>5, RowOfEditor DEF CountersGrow
<1>7. Arriving' \subseteq Arriving
  BY <1>1, <1>2, <1>5, PutOfOthers DEF Arriving
<1> QED BY <1>1, <1>4, <1>6, <1>7, SamePages, FewerLive DEF PagesInv

LEMMA WalkAwaySteps ==
  ASSUME PagesInv, NEW e \in Editor, UNCHANGED page, wire' \subseteq wire,
         editor' = [editor EXCEPT ![e] = Idle(e, @.edits)]
  PROVE  PagesInv'
<1> DEFINE row == Idle(e, editor[e].edits)
<1>1. row \in EditorRow /\ row.state = "idle" /\ row.edits = editor[e].edits
  BY RowOfEditor DEF Idle, EditorRow
<1>2. \A q \in DOMAIN page : PageGrows(q)
  BY DEF PageGrows
<1>3. editor' = [editor EXCEPT ![e] = row]
  OBVIOUS
<1> HIDE DEF row
<1>4. EditorsOK'
  BY <1>1, <1>2, <1>3, EditorsLast
<1>5. /\ editor'[e] = row /\ \A d \in Editor \ {e} : editor'[d] = editor[d]
      /\ \A d \in Editor : editor[d].edits \in Nat
  BY <1>3, RowOfEditor DEF PagesInv, EditorsOK
<1>6. CountersGrow
  BY <1>1, <1>5, RowOfEditor DEF CountersGrow
<1>7. Arriving' \subseteq Arriving
  BY <1>1, <1>5, PutOfOthers DEF Arriving
<1> QED BY <1>4, <1>6, <1>7, SamePages, FewerLive DEF PagesInv

LEMMA SendUpdateSteps ==
  ASSUME PagesInv, NEW e \in Editor, NEW form \in Form, SendUpdate(e, form)
  PROVE  PagesInv'
<1> DEFINE row == [editor[e] EXCEPT !.state = "waiting", !.sends = 1, !.form = form]
<1> SUFFICES ASSUME NEW m, m = PutOf(e)' PROVE PagesInv'
  OBVIOUS
<1>1. /\ editor[e].state = "editing" /\ page' = page
      /\ wire' = wire \cup { [copy |-> 1, m |-> m] }
      /\ editor'[e] = row /\ \A d \in Editor \ {e} : editor'[d] = editor[d]
      /\ editor' = [editor EXCEPT ![e] = row]
  BY DEF SendUpdate, PagesInv, EditorsOK, EditorRow
<1>2. /\ row \in EditorRow /\ row.state = "waiting" /\ row.edits = editor[e].edits
      /\ row.page = editor[e].page /\ row.version = editor[e].version /\ row.saw = editor[e].saw
  BY RowOfEditor DEF EditorRow
<1>3. \A q \in DOMAIN page : PageGrows(q)
  BY <1>1 DEF PageGrows
<1>4. /\ m.page = editor[e].page /\ m.next = editor[e].version + 1
      /\ m.edit = [by |-> e, n |-> editor[e].edits] /\ m.on = editor[e].saw
  BY <1>1, <1>2 DEF PutOf
<1>5. /\ editor[e].edits \in 1..MaxEdits /\ editor[e].page \in DOMAIN page
      /\ editor[e].saw \in Edits /\ editor[e].version \in Nat
      /\ Stands(editor[e].page, editor[e].version, editor[e].saw)
  BY <1>1, RowOfEditor DEF PagesInv, EditorsOK
<1> HIDE DEF row
<1>6. EditorsOK'
  BY <1>1, <1>2, <1>3, <1>5, EditorsLast
<1>7. CountersGrow
  BY <1>1, <1>2, RowOfEditor DEF CountersGrow
<1>8. DomainOK' /\ RowsOK' /\ HistoryBegun' /\ \A o : LiveOK(o) => LiveOK(o)'
  BY <1>1, <1>6, <1>7, SamePages
<1>9. \A d \in Editor \ {e} : PutOf(d)' = PutOf(d)
  BY <1>1, PutOfOthers
<1>10. Arriving' \subseteq Arriving \cup {m}
  BY <1>1, <1>9 DEF Arriving
<1>11. \A o \in Arriving : o.edit # m.edit
  <2> SUFFICES ASSUME NEW o \in Arriving, o.edit = m.edit PROVE FALSE
    OBVIOUS
  <2>1. Begun(o.edit)
    BY DEF PagesInv, AllLiveOK, LiveOK
  <2>2. o.edit.by = e /\ o.edit.n = editor[e].edits
    BY <1>4
  <2> QED BY <1>1, <1>5, <2>1, <2>2 DEF Begun
<1>12. OneUpdateOfAnEdit'
  BY <1>10, <1>11 DEF PagesInv, OneUpdateOfAnEdit
<1>13. LiveOK(m)'
  <2>1. Begun(m.edit)'
    BY <1>1, <1>2, <1>4, <1>5 DEF Begun
  <2>2. Stands(m.page, m.next - 1, m.on)'
    <3>1. m.next - 1 = editor[e].version
      BY <1>4, <1>5
    <3> QED BY <3>1, <1>1, <1>4, <1>5 DEF Stands
  <2>3. NotEarlier(m)'
    <3> SUFFICES ASSUME NEW n \in DOMAIN page[m.page].versions,
                        page[m.page].versions[n].edit = m.edit
                 PROVE  FALSE
      BY <1>1 DEF NotEarlier
    <3>1. Begun(m.edit)
      BY <1>4, <1>5 DEF PagesInv, HistoryBegun
    <3> QED BY <3>1, <1>1, <1>4, <1>5 DEF Begun
  <2> QED BY <1>1, <1>4, <1>5, <2>1, <2>2, <2>3 DEF LiveOK
<1>14. AllLiveOK'
  BY <1>8, <1>10, <1>13 DEF PagesInv, AllLiveOK
<1> QED BY <1>6, <1>8, <1>12, <1>14 DEF PagesInv

LEMMA SendAgainSteps ==
  ASSUME PagesInv, NEW e \in Editor, SendAgain(e)
  PROVE  PagesInv'
<1> DEFINE row == [editor[e] EXCEPT !.sends = @ + 1]
<1>1. /\ editor[e].state = "waiting" /\ page' = page
      /\ wire' = wire \cup { [copy |-> editor[e].sends + 1, m |-> PutOf(e)] }
      /\ editor' = [editor EXCEPT ![e] = row]
  BY DEF SendAgain
<1>2. /\ row \in EditorRow /\ row.state = "waiting" /\ row.edits = editor[e].edits
      /\ row.page = editor[e].page /\ row.version = editor[e].version /\ row.saw = editor[e].saw
      /\ row.form = editor[e].form
  BY <1>1, RowOfEditor DEF EditorRow
<1>3. \A q \in DOMAIN page : PageGrows(q)
  BY <1>1 DEF PageGrows
<1>4. editor'[e] = row /\ \A d \in Editor \ {e} : editor'[d] = editor[d]
  BY <1>1 DEF PagesInv, EditorsOK
<1> HIDE DEF row
<1>5. EditorsOK'
  BY <1>1, <1>2, <1>3, EditorsLast DEF PagesInv, EditorsOK
<1>6. CountersGrow
  BY <1>2, <1>4, RowOfEditor DEF CountersGrow
<1>7. PutOf(e)' = PutOf(e)
  BY <1>2, <1>4 DEF PutOf
<1>8. Arriving' \subseteq Arriving
  BY <1>1, <1>4, <1>7, PutOfOthers DEF Arriving
<1> QED BY <1>1, <1>5, <1>6, <1>8, SamePages, FewerLive DEF PagesInv

LEMMA DeliverSteps ==
  ASSUME PagesInv, NEW packet \in wire, Deliver(packet)
  PROVE  PagesInv'
<1> SUFFICES ASSUME NEW m, m = packet.m, NEW e, e = m.edit.by PROVE PagesInv'
  OBVIOUS
<1>1. m \in Arriving /\ LiveOK(m) /\ e \in Editor
  BY DEF Arriving, PagesInv, AllLiveOK, LiveOK
<1>2. /\ DomainOK' /\ RowsOK' /\ DOMAIN page' = DOMAIN page
      /\ \A p \in DOMAIN page \ {m.page} : page'[p] = page[p]
      /\ page' = page \/ Longer(m.page, Version(m.next, m.edit, m.on))
  BY <1>1, OnePageUpdated DEF Deliver
<1>3. PICK row \in {editor[e], Idle(e, editor[e].edits)} : editor' = [editor EXCEPT ![e] = row]
  <2>1. CASE UNCHANGED editor
    <3>1. editor' = [editor EXCEPT ![e] = editor[e]]
      BY <2>1, <1>1 DEF PagesInv, EditorsOK
    <3> QED BY <3>1
  <2>2. CASE editor' = [editor EXCEPT ![e] = Idle(e, @.edits)]
    BY <2>2
  <2> QED BY <2>1, <2>2 DEF Deliver
<1>4. /\ row \in EditorRow
      /\ row = editor[e] \/ row.state = "idle"
      /\ row.edits = editor[e].edits
  BY <1>1, RowOfEditor DEF Idle, EditorRow
<1>5. \A p \in DOMAIN page : PageGrows(p)
  <2> TAKE p \in DOMAIN page
  <2>1. CASE p = m.page /\ Longer(m.page, Version(m.next, m.edit, m.on))
    BY <2>1, <1>2 DEF PageGrows, Longer
  <2>2. CASE page'[p] = page[p]
    BY <2>2, <1>2 DEF PageGrows
  <2> QED BY <2>1, <2>2, <1>2
<1>6. EditorsOK'
  <2>1. row.state # "idle" =>
          /\ row.edits \in 1..MaxEdits /\ row.page \in DOMAIN page /\ row.saw \in Edits
          /\ Stands(row.page, row.version, row.saw)
    BY <1>1, <1>4 DEF PagesInv, EditorsOK
  <2> QED BY <2>1, <1>1, <1>3, <1>4, <1>5, EditorsLast
<1>7. editor'[e] = row /\ \A d \in Editor \ {e} : editor'[d] = editor[d]
  BY <1>1, <1>3 DEF PagesInv, EditorsOK
<1>8. CountersGrow
  BY <1>1, <1>4, <1>7, RowOfEditor DEF CountersGrow
<1>9. Arriving' \subseteq Arriving
  <2>1. wire' \subseteq wire
    BY DEF Deliver
  <2>2. \A d \in Editor : editor'[d].state = "waiting" =>
          editor[d].state = "waiting" /\ PutOf(d)' = PutOf(d)
    BY <1>4, <1>7, PutOfOthers
  <2> QED BY <2>1, <2>2 DEF Arriving
<1>10. CASE page' = page
  BY <1>6, <1>8, <1>9, <1>10, SamePages, FewerLive DEF PagesInv
<1>11. CASE Longer(m.page, Version(m.next, m.edit, m.on))
  <2> DEFINE v == Version(m.next, m.edit, m.on)
  <2>1. m.page \in DOMAIN page /\ RowsOK /\ m.edit \in [by : Editor, n : 1..MaxEdits]
    BY <1>1 DEF PagesInv, LiveOK
  <2>2. v.edit = m.edit /\ v.number = m.next
    BY DEF Version
  <2> HIDE DEF v
  <2>3. HistoryBegun'
    <3> SUFFICES ASSUME NEW p \in DOMAIN page', NEW n \in DOMAIN page'[p].versions,
                        NEW edit, edit = page'[p].versions[n].edit
                 PROVE  Begun(edit)'
      BY DEF HistoryBegun, Begun
    <3>1. CASE p = m.page /\ n = Len(page[p].versions) + 1
      <4>1. edit = m.edit
        BY <3>1, <2>1, <2>2, <1>11, ExtendedRows DEF v
      <4> QED BY <4>1, <1>1, <1>6, <1>8, <2>1, BegunLasts, PagesAssumption DEF LiveOK
    <3>2. CASE n \in DOMAIN page[p].versions /\ page'[p].versions[n] = page[p].versions[n]
      <4>1. p \in DOMAIN page /\ page[p].versions[n] \in VersionRow
        BY <3>2, <1>2, VersionsOf DEF PagesInv
      <4>2. edit.n \in Nat
        BY <3>2, <4>1, PagesAssumption DEF VersionRow, Edits, FixtureEdit
      <4>3. Begun(edit)
        BY <3>2, <4>1 DEF PagesInv, HistoryBegun
      <4> QED BY <4>2, <4>3, <1>6, <1>8, BegunLasts
    <3>3. CASE p # m.page
      BY <3>2, <3>3, <1>2
    <3> QED BY <3>1, <3>2, <3>3, <2>1, <1>11, ExtendedRows, VersionsOf
  <2>4. ASSUME NEW o \in Arriving, LiveOK(o) PROVE LiveOK(o)'
    <3>1. o.page \in DOMAIN page /\ PageGrows(o.page)
      BY <1>5, <2>4 DEF LiveOK
    <3>2. ASSUME NEW w \in VersionRow, Longer(o.page, w), w.edit = o.edit PROVE w.number >= o.next
      <4>1. Len(page[o.page].versions) \in Nat
        BY <3>1, <2>1, VersionsOf
      <4>2. o.page = m.page
        <5> SUFFICES ASSUME page'[o.page] = page[o.page] PROVE FALSE
          BY <3>1, <1>2
        <5>1. Len(page'[o.page].versions) = Len(page[o.page].versions) + 1
          BY <3>1, <3>2, <2>1, ExtendedRows
        <5> QED BY <5>1, <4>1
      <4>3. w = v
        <5>1. page'[m.page].versions[Len(page[m.page].versions) + 1] = w
          BY <3>1, <3>2, <2>1, <4>2, ExtendedRows
        <5>2. page'[m.page].versions[Len(page[m.page].versions) + 1] = v
          BY <2>1, <1>11, ExtendedRows DEF v
        <5> QED BY <5>1, <5>2
      <4>4. o = m
        BY <3>2, <4>3, <2>2, <1>1 DEF PagesInv, OneUpdateOfAnEdit
      <4>5. m.next \in Nat
        BY <1>1 DEF LiveOK
      <4> QED BY <4>3, <4>4, <4>5, <2>2
    <3> QED BY <3>1, <3>2, <2>4, <1>6, <1>8, LiveLasts
  <2> QED BY <1>2, <1>6, <1>9, <2>3, <2>4, FewerLive DEF PagesInv
<1> QED BY <1>2, <1>10, <1>11

LEMMA InvSteps == PagesInv /\ [PagesNext]_pagesVars => PagesInv'
<1> SUFFICES ASSUME PagesInv, [PagesNext]_pagesVars PROVE PagesInv'
  OBVIOUS
<1>1. CASE UNCHANGED pagesVars
  <2>1. UNCHANGED page /\ UNCHANGED editor /\ UNCHANGED wire
    BY <1>1 DEF pagesVars
  <2>2. EditorsOK' /\ CountersGrow
    BY <2>1, RowOfEditor DEF PagesInv, EditorsOK, CountersGrow, Stands
  <2>3. Arriving' = Arriving
    BY <2>1 DEF Arriving, PutOf
  <2> QED BY <2>1, <2>2, <2>3, SamePages, FewerLive DEF PagesInv
<1>2. ASSUME NEW e \in Editor, NEW form \in Form, PostPage(e, form) PROVE PagesInv'
  BY <1>2, PostPageSteps
<1>3. ASSUME NEW e \in Editor, NEW form \in Form, SendUpdate(e, form) PROVE PagesInv'
  BY <1>3, SendUpdateSteps
<1>4. ASSUME NEW e \in Editor, NEW p \in PageIds, GetPage(e, p) PROVE PagesInv'
  BY <1>4, GetPageSteps
<1>5. ASSUME NEW e \in Editor, SendAgain(e) PROVE PagesInv'
  BY <1>5, SendAgainSteps
<1>6. ASSUME NEW e \in Editor, WalkAway(e) PROVE PagesInv'
  BY <1>6, WalkAwaySteps DEF WalkAway
<1>7. ASSUME NEW packet \in wire, Deliver(packet) PROVE PagesInv'
  BY <1>7, DeliverSteps
<1> QED BY <1>1, <1>2, <1>3, <1>4, <1>5, <1>6, <1>7 DEF PagesNext

-----------------------------------------------------------------------------
(* The refinement.                                                         *)

\* The edits of a history, as VersionedPage has them.
EditsOf(versions) == [n \in DOMAIN versions |-> [id |-> versions[n].edit, on |-> versions[n].on]]
Edit == [id : Edits, on : Edits \cup {NoEdit}]

LEMMA NumberedIs ==
  /\ DOMAIN Numbered = DOMAIN page
  /\ \A p \in DOMAIN page : Numbered[p] = EditsOf(page[p].versions)
BY DEF Numbered, EditsOf

LEMMA EditsOfTyped ==
  ASSUME NEW versions \in Seq(VersionRow)
  PROVE  EditsOf(versions) \in Seq(Edit) /\ Len(EditsOf(versions)) = Len(versions)
<1>1. Len(versions) \in Nat /\ DOMAIN versions = 1..Len(versions)
  OBVIOUS
<1>2. ASSUME NEW n \in 1..Len(versions)
      PROVE  [id |-> versions[n].edit, on |-> versions[n].on] \in Edit
  <2>1. versions[n] \in VersionRow
    BY <1>1
  <2> QED BY <2>1 DEF VersionRow, Edit
<1>3. EditsOf(versions) \in [1..Len(versions) -> Edit]
  BY <1>1, <1>2 DEF EditsOf
<1> QED BY <1>1, <1>3

LEMMA EditsOfAppend ==
  ASSUME NEW versions \in Seq(VersionRow), NEW v \in VersionRow
  PROVE  EditsOf(Append(versions, v)) = Append(EditsOf(versions), [id |-> v.edit, on |-> v.on])
<1> DEFINE long == Append(versions, v)
           e == [id |-> v.edit, on |-> v.on]
<1>1. /\ long \in Seq(VersionRow) /\ Len(long) = Len(versions) + 1 /\ Len(versions) \in Nat
      /\ DOMAIN long = 1..(Len(versions) + 1) /\ DOMAIN versions = 1..Len(versions)
      /\ \A n \in 1..Len(versions) : long[n] = versions[n]
      /\ long[Len(versions) + 1] = v
  OBVIOUS
<1>2. EditsOf(versions) \in Seq(Edit) /\ Len(EditsOf(versions)) = Len(versions)
  BY EditsOfTyped
<1>3. e \in Edit
  BY DEF Edit, VersionRow
<1> HIDE DEF long, e
<1>4. /\ DOMAIN Append(EditsOf(versions), e) = 1..(Len(versions) + 1)
      /\ \A n \in 1..Len(versions) : Append(EditsOf(versions), e)[n] = EditsOf(versions)[n]
      /\ Append(EditsOf(versions), e)[Len(versions) + 1] = e
      /\ Append(EditsOf(versions), e) \in Seq(Edit)
  BY <1>1, <1>2, <1>3
<1>5. DOMAIN EditsOf(long) = 1..(Len(versions) + 1)
  BY <1>1 DEF EditsOf
<1>6. \A n \in 1..(Len(versions) + 1) : EditsOf(long)[n] = Append(EditsOf(versions), e)[n]
  <2> TAKE n \in 1..(Len(versions) + 1)
  <2>1. EditsOf(long)[n] = [id |-> long[n].edit, on |-> long[n].on]
    BY <1>1 DEF EditsOf
  <2>2. CASE n \in 1..Len(versions)
    <3>1. EditsOf(versions)[n] = [id |-> versions[n].edit, on |-> versions[n].on]
      BY <2>2, <1>1 DEF EditsOf
    <3>2. long[n] = versions[n] /\ Append(EditsOf(versions), e)[n] = EditsOf(versions)[n]
      BY <2>2, <1>1, <1>4
    <3> QED BY <2>1, <3>1, <3>2, Zenon
  <2>3. CASE n = Len(versions) + 1
    BY <2>1, <2>3, <1>1, <1>4 DEF e
  <2>4. n \in 1..Len(versions) \/ n = Len(versions) + 1
    <3>1. Len(versions) \in Nat
      BY <1>1
    <3> QED BY <3>1
  <2> QED BY <2>2, <2>3, <2>4
<1>7. Len(EditsOf(long)) = Len(versions) + 1 /\ EditsOf(long) \in Seq(Edit)
  BY <1>1, EditsOfTyped
<1> HIDE DEF Edit
<1> QED BY <1>4, <1>5, <1>6, <1>7, <1>2, <1>3 DEF long, e

LEMMA InitRefines ==
  ASSUME PagesInit
  PROVE  Register!Init
<1> DEFINE o == [p \in DOMAIN Fixture |-> [id |-> FixtureEdit(p), on |-> NoEdit]]
<1>1. DOMAIN page = DOMAIN Fixture /\ \A p \in DOMAIN page : page[p] = Loaded(p)
  BY DEF PagesInit
<1>2. ASSUME NEW p \in DOMAIN Fixture PROVE Numbered[p] = << o[p] >>
  <2>1. page[p].versions = << Version(Fixture[p], FixtureEdit(p), NoEdit) >>
    BY <1>1 DEF Loaded
  <2> DEFINE v == Version(Fixture[p], FixtureEdit(p), NoEdit)
  <2>2. v.edit = FixtureEdit(p) /\ v.on = NoEdit
    BY DEF Version
  <2> HIDE DEF v
  <2>3. DOMAIN << v >> = {1} /\ << v >>[1] = v
    OBVIOUS
  <2>4. Numbered[p] = EditsOf(<< v >>)
    BY <1>1, <2>1, NumberedIs DEF v
  <2>5. EditsOf(<< v >>) = [n \in {1} |-> [id |-> FixtureEdit(p), on |-> NoEdit]]
    BY <2>2, <2>3 DEF EditsOf
  <2> QED BY <2>4, <2>5
<1>3. Numbered = [p \in DOMAIN o |-> << o[p] >>]
  BY <1>1, <1>2 DEF Numbered
<1> QED BY <1>3 DEF Register!Init

LEMMA Unnumbered == ASSUME UNCHANGED page PROVE Numbered' = Numbered
BY DEF Numbered

LEMMA CreateRefines ==
  ASSUME PagesInv, NEW edit \in Edits, NEW form \in Form, CreatePage(edit, form)
  PROVE  Register!Create
<1>1. PICK id \in PageIds \ DOMAIN page :
        /\ DOMAIN page' = DOMAIN page \cup {id} /\ page'[id] = Written(form, edit)
        /\ \A p \in DOMAIN page : page'[p] = page[p]
  BY NewPage
<1> DEFINE e == [id |-> edit, on |-> NoEdit]
<1>2. e \in [id : Edits, on : Edits \cup {NoEdit}]
  OBVIOUS
<1>3. Numbered'[id] = << e >>
  <2>1. page'[id].versions = << Version(1, edit, NoEdit) >>
    BY <1>1 DEF Written
  <2>2. Numbered'[id] = [n \in DOMAIN page'[id].versions |->
           [id |-> page'[id].versions[n].edit, on |-> page'[id].versions[n].on]]
    BY <1>1 DEF Numbered
  <2> QED BY <2>1, <2>2 DEF Version
<1>4. \A p \in DOMAIN page : Numbered'[p] = Numbered[p]
  BY <1>1 DEF Numbered
<1>5. Numbered' = [q \in DOMAIN Numbered \cup {id} |-> IF q = id THEN << e >> ELSE Numbered[q]]
  BY <1>1, <1>3, <1>4 DEF Numbered
<1> HIDE DEF e
<1>6. id \in PageIds \ DOMAIN Numbered
  BY <1>1 DEF Numbered
<1> QED BY <1>2, <1>5, <1>6 DEF Register!Create

LEMMA UpdateRefines ==
  ASSUME PagesInv, NEW m, LiveOK(m), UpdatePage(m), page' # page
  PROVE  Register!Update
<1> DEFINE p == m.page
           v == Version(m.next, m.edit, m.on)
           e == [id |-> m.edit, on |-> m.on]
           last == Len(page[p].versions)
<1>1. /\ m.next = page[p].version + 1 /\ Longer(p, v)
      /\ DOMAIN page' = DOMAIN page /\ \A q \in DOMAIN page \ {p} : page'[q] = page[q]
  BY OnePageUpdated
<1>2. /\ p \in DOMAIN page /\ RowOK(page[p]) /\ m.edit \in Edits /\ m.on \in Edits
      /\ m.next \in Nat
      /\ page[p].version \in Nat /\ page[p].versions \in Seq(VersionRow) /\ last \in Nat \ {0}
      /\ DOMAIN page[p].versions = 1..last
  BY VersionsOf DEF LiveOK, PagesInv, RowsOK, RowOK, Edits
<1>3. e \in [id : Edits, on : Edits \cup {NoEdit}]
  BY <1>2
<1>4. v \in VersionRow /\ v.edit = m.edit /\ v.on = m.on
  BY <1>2 DEF Version, VersionRow
<1>5. Numbered[p] = EditsOf(page[p].versions) /\ DOMAIN Numbered = DOMAIN page
  BY <1>2, NumberedIs
<1>6. Numbered'[p] = Append(Numbered[p], e)
  <2>1. Numbered'[p] = EditsOf(page'[p].versions)
    BY <1>1, <1>2 DEF Numbered, EditsOf
  <2> HIDE DEF v
  <2>2. EditsOf(Append(page[p].versions, v)) = Append(EditsOf(page[p].versions), e)
    BY <1>2, <1>4, EditsOfAppend
  <2> QED BY <2>1, <2>2, <1>1, <1>5 DEF Longer
<1>7. Numbered' = [Numbered EXCEPT ![p] = Append(@, e)]
  <2>1. \A q \in DOMAIN page \ {p} : Numbered'[q] = Numbered[q]
    BY <1>1 DEF Numbered
  <2> HIDE DEF e
  <2> QED BY <2>1, <1>1, <1>2, <1>6 DEF Numbered
<1>8. ~\E n \in DOMAIN Numbered[p] : Numbered[p][n] = e
  <2> SUFFICES ASSUME NEW n \in DOMAIN Numbered[p], Numbered[p][n] = e PROVE FALSE
    OBVIOUS
  <2>1. n \in DOMAIN page[p].versions /\ page[p].versions[n].edit = m.edit
    BY <1>5 DEF EditsOf
  <2>2. page[p].versions[n].number >= m.next
    BY <2>1 DEF LiveOK, NotEarlier
  <2>3. page[p].versions[n].number <= page[p].version /\ page[p].versions[n].number \in Nat
    <3>1. page[p].versions[n] \in VersionRow
      BY <1>2, <2>1
    <3>2. page[p].versions[n].number \in Nat
      BY <3>1 DEF VersionRow
    <3> QED BY <1>2, <2>1, <3>2, LastIsCurrent
  <2> QED BY <1>1, <1>2, <2>2, <2>3
<1>9. e.on = Numbered[p][Len(Numbered[p])].id
  <2>1. PICK n \in DOMAIN page[p].versions :
          page[p].versions[n].number = m.next - 1 /\ page[p].versions[n].edit = m.on
    BY DEF LiveOK, Stands
  <2>2. n = last
    BY <1>1, <1>2, <2>1, LastIsCurrent
  <2>3. Len(Numbered[p]) = last
    BY <1>2, <1>5, EditsOfTyped
  <2>4. Numbered[p][last].id = page[p].versions[last].edit
    BY <1>2, <1>5 DEF EditsOf
  <2> QED BY <2>1, <2>2, <2>3, <2>4
<1> HIDE DEF e, p
<1> QED BY <1>2, <1>3, <1>5, <1>7, <1>8, <1>9 DEF Register!Update, Register!Made

LEMMA StepRefines == PagesInv /\ [PagesNext]_pagesVars => [Register!Next]_Numbered
<1> SUFFICES ASSUME PagesInv, [PagesNext]_pagesVars, page' # page PROVE Register!Next
  BY Unnumbered
<1>1. ASSUME NEW e \in Editor, NEW form \in Form, PostPage(e, form) PROVE Register!Next
  <2>1. [by |-> e, n |-> editor[e].edits + 1] \in Edits
    BY <1>1, RowOfEditor DEF Edits, PostPage, CanEdit
  <2> QED BY <1>1, <2>1, CreateRefines DEF PostPage, Register!Next
<1>2. ASSUME NEW packet \in wire, Deliver(packet) PROVE Register!Next
  <2>1. LiveOK(packet.m)
    BY DEF Arriving, PagesInv, AllLiveOK
  <2> QED BY <1>2, <2>1, UpdateRefines DEF Deliver, Register!Next
<1> QED BY <1>1, <1>2 DEF PagesNext, pagesVars, GetPage, SendUpdate, SendAgain, WalkAway

\* However updates are repeated, overtaken, delayed or lost, the history of a page is its
\* accepted edits, each made on the one before it and none of them twice (store.go:
\* CreatePage, UpdatePage).
THEOREM PagesAreARegister == PagesSpec => ImplementsRegister
<1>1. PagesInit => Register!Init
  BY InitRefines
<1> QED BY <1>1, InvInitially, InvSteps, StepRefines, PTL DEF PagesSpec, ImplementsRegister, Register!Spec

LEMMA PagesTypeOKHolds == ASSUME PagesInv PROVE PagesTypeOK
<1>1. DomainOK /\ RowsOK /\ EditorsOK /\ AllLiveOK
  BY DEF PagesInv
<1>2. \E n \in 0..Len(PageId) : DOMAIN page = { PageId[i] : i \in 1..n }
  BY <1>1 DEF DomainOK, FirstOf
<1>3. ASSUME NEW p \in DOMAIN page
      PROVE  /\ page[p].title # Blank /\ page[p].space \in Space /\ KnownParent(page[p].parent)
             /\ page[p].versions # <<>>
             /\ \A n \in DOMAIN page[p].versions :
                  page[p].versions[n].number = page[p].version - Len(page[p].versions) + n
             /\ page[p].text \in { page[p].versions[n].edit : n \in DOMAIN page[p].versions }
  <2> DEFINE row == page[p]
  <2>1. RowOK(row) /\ KnownParent(row.parent)
    BY <1>1 DEF RowsOK
  <2> HIDE DEF row
  <2>2. row.text \in { row.versions[n].edit : n \in DOMAIN row.versions }
    BY <2>1 DEF RowOK
  <2>3. /\ row.title # Blank /\ row.space \in Space /\ KnownParent(row.parent) /\ row.versions # <<>>
        /\ \A n \in DOMAIN row.versions : row.versions[n].number = row.version - Len(row.versions) + n
    BY <2>1 DEF RowOK
  <2> QED BY <2>2, <2>3 DEF row
<1>4. \A packet \in wire : packet.m.page \in DOMAIN page
  BY <1>1 DEF AllLiveOK, Arriving, LiveOK
<1>5. \A e \in Editor : editor[e].state \in {"idle", "editing", "waiting"}
  BY <1>1 DEF EditorsOK, EditorRow
<1> QED BY <1>2, <1>3, <1>4, <1>5 DEF PagesTypeOK

\* PagesTypeOK always holds: the numbers of a page's history are consecutive and end at its
\* version, whatever updates are sent twice, late or never.
THEOREM PageTypesCorrect == PagesSpec => []PagesTypeOK
<1>1. PagesInv => PagesTypeOK
  BY PagesTypeOKHolds
<1> QED BY <1>1, InvInitially, InvSteps, PTL DEF PagesSpec

-----------------------------------------------------------------------------
(* The documents of a store.  First what puts, ranks and mints are.        *)

\* What holds of 0, and of n + 1 if it holds of n, holds up to any number.
LEMMA UpTo ==
  ASSUME NEW S, NEW top \in Nat, 0 \in S, \A n \in 0..(top - 1) : n \in S => n + 1 \in S
  PROVE  \A n \in 0..top : n \in S
<1> DEFINE bad == { n \in 0..top : n \notin S }
<1> SUFFICES ASSUME bad # {} PROVE FALSE
  OBVIOUS
<1>1. PICK n \in bad : \A m \in bad : n <= m
  <2>1. bad \subseteq Nat
    OBVIOUS
  <2> HIDE DEF bad
  <2> QED BY <2>1, LeastExists
<1>2. n \in 0..top /\ n \notin S /\ n # 0
  OBVIOUS
<1>3. n - 1 \in 0..(top - 1) /\ ~(n <= n - 1) /\ n - 1 \in 0..top
  BY <1>2
<1>4. n - 1 \in S
  BY <1>1, <1>3
<1>5. (n - 1) + 1 \in S
  BY <1>3, <1>4
<1> QED BY <1>2, <1>5

\* Puts one after the other: every put is of the graph that the one before left.
LEMMA PutsInOrder ==
  ASSUME NEW g, NEW d, Puts(d) \in Nat
  PROVE  Applied(g, d) = [n \in 0..Puts(d) |->
           IF n = 0 THEN PutSpace([g EXCEPT !.clock = 0], d.home) ELSE Put(Applied(g, d)[n - 1], d, n)]
<1> DEFINE start == PutSpace([g EXCEPT !.clock = 0], d.home)
           Good(f, m) == f = [n \in 0..m |-> IF n = 0 THEN start ELSE Put(f[n - 1], d, n)]
           found == { m \in Nat : \E f : Good(f, m) }
<1> HIDE DEF start
<1>1. 0 \in found
  <2> DEFINE f == [n \in {0} |-> start]
  <2>1. Good(f, 0)
    <3>1. 0..0 = {0}
      OBVIOUS
    <3> QED BY <3>1
  <2> HIDE DEF Good, f
  <2> QED BY <2>1
<1>2. ASSUME NEW m \in 0..(Puts(d) - 1), m \in found
      PROVE  m + 1 \in found
  <2>1. PICK f : Good(f, m)
    BY <1>2
  <2> DEFINE g1 == [n \in 0..(m + 1) |-> IF n = 0 THEN start ELSE Put(f[n - 1], d, n)]
  <2>2. \A n \in 0..m : g1[n] = f[n]
    BY <2>1
  <2>3. \A n \in 0..(m + 1) : n # 0 => g1[n - 1] = f[n - 1]
    <3> SUFFICES ASSUME NEW n \in 0..(m + 1), n # 0 PROVE n - 1 \in 0..m
      BY <2>2
    <3> QED OBVIOUS
  <2>4. Good(g1, m + 1)
    BY <2>3
  <2> HIDE DEF Good, g1
  <2> QED BY <2>4
<1>3. Puts(d) \in found
  <2> HIDE DEF found
  <2> QED BY <1>1, <1>2, UpTo
<1>4. \E f : Good(f, Puts(d))
  <2> HIDE DEF Good
  <2> QED BY <1>3
<1>5. Good(Applied(g, d), Puts(d))
  BY <1>4 DEF Applied, start
<1> QED BY <1>5 DEF start

-----------------------------------------------------------------------------
(* Numbers in their order.                                                 *)

\* The values of a function of finitely many arguments are finitely many.
LEMMA ValuesFinite ==
  ASSUME NEW f, IsFiniteSet(DOMAIN f), f = [x \in DOMAIN f |-> f[x]]
  PROVE  IsFiniteSet({ f[x] : x \in DOMAIN f })
<1> DEFINE T == { f[x] : x \in DOMAIN f }
<1>1. f \in [DOMAIN f -> T] /\ \A t \in T : \E x \in DOMAIN f : f[x] = t
  OBVIOUS
<1>2. f \in Surjection(DOMAIN f, T)
  <2> HIDE DEF T
  <2> QED BY <1>1 DEF Surjection
<1> HIDE DEF T
<1>3. IsFiniteSet(T)
  BY <1>2, FS_Surjection
<1> QED BY <1>3 DEF T

LEMMA ListDomain ==
  ASSUME NEW X, NEW list \in Seq(X)
  PROVE  /\ DOMAIN list = 1..Len(list) /\ Len(list) \in Nat
         /\ IsFiniteSet(DOMAIN list) /\ Cardinality(DOMAIN list) = Len(list)
         /\ list = [n \in DOMAIN list |-> list[n]]
<1>1. DOMAIN list = 1..Len(list) /\ Len(list) \in Nat /\ list = [n \in DOMAIN list |-> list[n]]
  OBVIOUS
<1> DEFINE c == Len(list)
<1>2. c \in Nat
  BY <1>1
<1> HIDE DEF c
<1>3. IsFiniteSet(1..c) /\ Cardinality(1..c) = c
  BY <1>2, FS_Interval
<1> QED BY <1>1, <1>3 DEF c

\* How many entries of a list are less than v, and how many no greater.
Below(list, v) == { n \in DOMAIN list : list[n] < v }
UpToValue(list, v) == { n \in DOMAIN list : list[n] <= v }

LEMMA CountsGrow ==
  ASSUME NEW list \in Seq(Nat), NEW v \in Nat, NEW w \in Nat
  PROVE  /\ IsFiniteSet(Below(list, v)) /\ Cardinality(Below(list, v)) \in Nat
         /\ IsFiniteSet(UpToValue(list, v)) /\ Cardinality(UpToValue(list, v)) \in Nat
         /\ v < w => Cardinality(UpToValue(list, v)) <= Cardinality(Below(list, w))
<1>1. DOMAIN list = 1..Len(list) /\ Len(list) \in Nat /\ IsFiniteSet(DOMAIN list)
  BY FS_Interval
<1>2. \A x \in Nat : Below(list, x) \in SUBSET DOMAIN list /\ UpToValue(list, x) \in SUBSET DOMAIN list
  BY DEF Below, UpToValue
<1>3. \A x \in Nat : /\ IsFiniteSet(Below(list, x)) /\ Cardinality(Below(list, x)) \in Nat
                     /\ IsFiniteSet(UpToValue(list, x)) /\ Cardinality(UpToValue(list, x)) \in Nat
  BY <1>1, <1>2, FS_Subset, FS_CardinalityType
<1>4. ASSUME v < w PROVE UpToValue(list, v) \in SUBSET Below(list, w)
  <2> SUFFICES ASSUME NEW n \in DOMAIN list, list[n] <= v PROVE list[n] < w
    BY DEF Below, UpToValue
  <2> QED BY <1>4
<1> QED BY <1>3, <1>4, FS_Subset

\* The value at place i of the order, as Ranked chooses it.
IsRank(list, i, v) ==
  /\ v \in ToSet(list)
  /\ Cardinality(Below(list, v)) < i /\ Cardinality(UpToValue(list, v)) >= i

\* There is one: of the values that are at least as great as i entries, the least.
LEMMA RankExists ==
  ASSUME NEW list \in Seq(Nat), NEW i \in DOMAIN list
  PROVE  \E v : IsRank(list, i, v)
<1> DEFINE enough == { v \in ToSet(list) : Cardinality(UpToValue(list, v)) >= i }
<1>1. /\ DOMAIN list = 1..Len(list) /\ Len(list) \in Nat /\ IsFiniteSet(DOMAIN list)
      /\ Cardinality(DOMAIN list) = Len(list)
  BY FS_Interval
<1>2. ToSet(list) \in SUBSET Nat /\ IsFiniteSet(ToSet(list)) /\ ToSet(list) # {}
  <2>1. ToSet(list) \in SUBSET Nat /\ list[i] \in ToSet(list)
    BY DEF ToSet
  <2>2. ToSet(list) = { list[n] : n \in DOMAIN list }
    BY DEF ToSet
  <2> QED BY <1>1, <2>1, <2>2, ValuesFinite
<1>3. enough # {}
  <2>1. PICK g \in ToSet(list) : \A v \in ToSet(list) : g >= v
    BY <1>2, GreatestExists
  <2>2. UpToValue(list, g) = DOMAIN list
    BY <2>1 DEF UpToValue, ToSet
  <2>3. g \in enough
    BY <1>1, <2>2
  <2> QED BY <2>3
<1>4. PICK v \in enough : \A w \in enough : v <= w
  <2>1. enough \in SUBSET Nat
    BY <1>2
  <2> HIDE DEF enough
  <2> QED BY <1>3, <2>1, LeastExists
<1>5. v \in Nat /\ v \in ToSet(list) /\ Cardinality(UpToValue(list, v)) >= i
  BY <1>2
<1>6. Cardinality(Below(list, v)) < i
  <2> SUFFICES ASSUME ~(Cardinality(Below(list, v)) < i) PROVE FALSE
    OBVIOUS
  <2> DEFINE less == { w \in ToSet(list) : w < v }
  <2>1. less # {}
    <3>1. Cardinality(Below(list, v)) # 0
      BY <1>1, <1>5, CountsGrow
    <3>2. PICK n : n \in Below(list, v)
      BY <3>1, FS_EmptySet
    <3>3. list[n] \in less
      BY <3>2 DEF Below, ToSet
    <3> QED BY <3>3
  <2>2. PICK w \in less : \A u \in less : w >= u
    <3>1. less \in SUBSET ToSet(list)
      OBVIOUS
    <3>2. IsFiniteSet(less) /\ less \in SUBSET Nat
      BY <1>2, <3>1, FS_Subset
    <3> HIDE DEF less
    <3> QED BY <2>1, <3>2, GreatestExists
  <2>3. w \in ToSet(list) /\ w < v /\ w \in Nat
    BY <1>2
  <2>4. Below(list, v) \in SUBSET UpToValue(list, w)
    <3> SUFFICES ASSUME NEW n \in DOMAIN list, list[n] < v PROVE list[n] <= w
      BY DEF Below, UpToValue
    <3>1. list[n] \in less
      BY DEF ToSet
    <3> QED BY <2>2, <2>3, <3>1
  <2>5. Cardinality(Below(list, v)) <= Cardinality(UpToValue(list, w))
    BY <2>3, <2>4, CountsGrow, FS_Subset
  <2>6. Cardinality(UpToValue(list, w)) >= i
    <3>1. Cardinality(UpToValue(list, w)) \in Nat /\ Cardinality(Below(list, v)) \in Nat
      BY <1>5, <2>3, CountsGrow
    <3> QED BY <1>1, <2>5, <3>1
  <2>7. w \in enough
    BY <2>3, <2>6
  <2>8. v <= w
    BY <1>4, <2>7
  <2> QED BY <1>5, <2>3, <2>8
<1> QED BY <1>5, <1>6 DEF IsRank

\* Ranked lists the values of a list, none before a lesser one, and leaves a list alone that
\* is in that order.
NeverFalls(list) == \A m, n \in DOMAIN list : m < n => list[m] <= list[n]

LEMMA RankedIsAFunction ==
  ASSUME NEW list
  PROVE  Ranked(list) = [i \in DOMAIN list |-> Ranked(list)[i]]
<1> DEFINE r(i) == CHOOSE v \in ToSet(list) : /\ Cardinality({ n \in DOMAIN list : list[n] < v }) < i
                                             /\ Cardinality({ n \in DOMAIN list : list[n] <= v }) >= i
<1>1. Ranked(list) = [i \in DOMAIN list |-> r(i)]
  BY DEF Ranked
<1> HIDE DEF r
<1> QED BY <1>1

LEMMA RankedIs ==
  ASSUME NEW list \in Seq(Nat)
  PROVE  /\ Ranked(list) \in Seq(Nat) /\ DOMAIN Ranked(list) = DOMAIN list
         /\ NeverFalls(Ranked(list))
         /\ \A i \in DOMAIN list : Ranked(list)[i] \in ToSet(list)
         /\ NeverFalls(list) => Ranked(list) = list
<1>1. DOMAIN list = 1..Len(list) /\ Len(list) \in Nat /\ ToSet(list) \in SUBSET Nat
  BY DEF ToSet
<1>2. \A i \in DOMAIN list : IsRank(list, i, Ranked(list)[i])
  <2> SUFFICES ASSUME NEW i \in DOMAIN list PROVE IsRank(list, i, Ranked(list)[i])
    OBVIOUS
  <2>1. Ranked(list)[i] = CHOOSE v \in ToSet(list) : /\ Cardinality(Below(list, v)) < i
                                                    /\ Cardinality(UpToValue(list, v)) >= i
    BY DEF Ranked, Below, UpToValue
  <2>2. \E v \in ToSet(list) : Cardinality(Below(list, v)) < i /\ Cardinality(UpToValue(list, v)) >= i
    BY RankExists DEF IsRank
  <2> QED BY <2>1, <2>2 DEF IsRank
<1>3. DOMAIN Ranked(list) = DOMAIN list /\ \A i \in DOMAIN list : Ranked(list)[i] \in ToSet(list)
  BY <1>2 DEF Ranked, IsRank
<1>4. Ranked(list) \in Seq(Nat)
  <2>1. Ranked(list) = [i \in 1..Len(list) |-> Ranked(list)[i]]
    BY <1>1, RankedIsAFunction
  <2>2. \A i \in 1..Len(list) : Ranked(list)[i] \in Nat
    BY <1>1, <1>3
  <2> QED BY <1>1, <2>1, <2>2, IsASeq
<1>5. ASSUME NEW i \in DOMAIN list, NEW j \in DOMAIN list, i <= j,
             NEW v \in Nat, NEW w \in Nat, IsRank(list, i, v), IsRank(list, j, w)
      PROVE  v <= w
  <2> SUFFICES ASSUME w < v PROVE FALSE
    OBVIOUS
  <2>1. Cardinality(UpToValue(list, w)) <= Cardinality(Below(list, v))
        /\ Cardinality(UpToValue(list, w)) \in Nat /\ Cardinality(Below(list, v)) \in Nat
    BY CountsGrow
  <2>2. i \in Nat /\ j \in Nat
    BY <1>1
  <2> QED BY <1>5, <2>1, <2>2 DEF IsRank
<1>6. NeverFalls(Ranked(list))
  <2> SUFFICES ASSUME NEW i \in DOMAIN list, NEW j \in DOMAIN list, i < j
               PROVE  Ranked(list)[i] <= Ranked(list)[j]
    BY <1>3 DEF NeverFalls
  <2>1. Ranked(list)[i] \in Nat /\ Ranked(list)[j] \in Nat /\ i <= j
    BY <1>1, <1>3
  <2> QED BY <1>2, <1>5, <2>1
<1>7. ASSUME NeverFalls(list), NEW i \in DOMAIN list
      PROVE  IsRank(list, i, list[i])
  <2>1. list[i] \in ToSet(list) /\ list[i] \in Nat /\ i \in Nat \ {0}
    BY <1>1 DEF ToSet
  <2>2. Below(list, list[i]) \in SUBSET 1..(i - 1)
    <3> SUFFICES ASSUME NEW n \in DOMAIN list, list[n] < list[i] PROVE n \in 1..(i - 1)
      BY DEF Below
    <3>1. list[n] \in Nat /\ n \in Nat \ {0} /\ n # i
      BY <1>1, <2>1
    <3>2. ~(i < n)
      BY <1>7, <2>1, <3>1 DEF NeverFalls
    <3> QED BY <2>1, <3>1, <3>2
  <2>3. 1..i \in SUBSET UpToValue(list, list[i])
    <3> SUFFICES ASSUME NEW n \in 1..i PROVE n \in DOMAIN list /\ list[n] <= list[i]
      BY DEF UpToValue
    <3>1. n \in DOMAIN list
      BY <1>1
    <3>2. CASE n = i
      BY <2>1, <3>1, <3>2
    <3>3. CASE n < i
      BY <1>7, <3>1, <3>3 DEF NeverFalls
    <3> QED BY <2>1, <3>1, <3>2, <3>3
  <2>4. /\ IsFiniteSet(1..(i - 1)) /\ Cardinality(1..(i - 1)) = i - 1
        /\ IsFiniteSet(1..i) /\ Cardinality(1..i) = i
    <3>1. i - 1 \in Int /\ i \in Int /\ 1 \in Int /\ i >= 1
      BY <2>1
    <3>2. /\ IsFiniteSet(1..(i - 1)) /\ Cardinality(1..(i - 1)) = IF 1 > i - 1 THEN 0 ELSE (i - 1) - 1 + 1
          /\ IsFiniteSet(1..i) /\ Cardinality(1..i) = IF 1 > i THEN 0 ELSE i - 1 + 1
      BY <3>1, FS_Interval
    <3> QED BY <3>1, <3>2
  <2>5. /\ Cardinality(Below(list, list[i])) <= i - 1
        /\ i <= Cardinality(UpToValue(list, list[i]))
    <3>1. IsFiniteSet(UpToValue(list, list[i]))
      BY <2>1, CountsGrow
    <3>2. /\ Cardinality(Below(list, list[i])) <= Cardinality(1..(i - 1))
          /\ Cardinality(1..i) <= Cardinality(UpToValue(list, list[i]))
      BY <2>2, <2>3, <2>4, <3>1, FS_Subset
    <3> QED BY <2>4, <3>2
  <2>6. Cardinality(Below(list, list[i])) \in Nat /\ Cardinality(UpToValue(list, list[i])) \in Nat
    BY <2>1, CountsGrow
  <2> QED BY <2>1, <2>5, <2>6 DEF IsRank
<1>8. ASSUME NeverFalls(list) PROVE Ranked(list) = list
  <2>1. ASSUME NEW i \in DOMAIN list PROVE Ranked(list)[i] = list[i]
    <3>1. IsRank(list, i, list[i]) /\ IsRank(list, i, Ranked(list)[i])
      BY <1>2, <1>7, <1>8
    <3>2. Ranked(list)[i] \in Nat /\ list[i] \in Nat /\ i <= i
      BY <1>1, <1>3
    <3>3. Ranked(list)[i] <= list[i] /\ list[i] <= Ranked(list)[i]
      BY <1>5, <3>1, <3>2
    <3> QED BY <3>2, <3>3
  <2>2. list = [i \in DOMAIN list |-> list[i]] /\ Ranked(list) = [i \in DOMAIN list |-> Ranked(list)[i]]
    BY RankedIsAFunction
  <2> QED BY <2>1, <2>2
<1> QED BY <1>3, <1>4, <1>6, <1>8

\* The elements of a finite set of numbers, each once.
LEMMA AscendingIs ==
  ASSUME NEW S \in SUBSET Nat, IsFiniteSet(S)
  PROVE  /\ Ascending(S) \in Seq(S) /\ Len(Ascending(S)) \in Nat
         /\ \A k \in S : \E n \in DOMAIN Ascending(S) : Ascending(S)[n] = k
         /\ \A m, n \in DOMAIN Ascending(S) : Ascending(S)[m] = Ascending(S)[n] => m = n
<1> DEFINE c == Cardinality(S)
           at(n) == CHOOSE k \in S : Place(S, k) = n
<1>1. c \in Nat
  BY FS_CardinalityType
<1>2. \A n \in 1..c : at(n) \in S /\ Place(S, at(n)) = n
  BY PlaceExists
<1>3. \A k \in S : Place(S, k) \in 1..c /\ at(Place(S, k)) = k
  <2> SUFFICES ASSUME NEW k \in S PROVE Place(S, k) \in 1..c /\ at(Place(S, k)) = k
    OBVIOUS
  <2>1. Place(S, k) \in 1..c
    BY PlaceBounds
  <2> DEFINE o == at(Place(S, k))
  <2>2. o \in S /\ Place(S, o) = Place(S, k)
    BY <1>2, <2>1
  <2> HIDE DEF o
  <2>3. o = k
    BY <2>2, OneAtAPlace
  <2> QED BY <2>1, <2>3 DEF o
<1>4. Ascending(S) = [n \in 1..c |-> at(n)]
  BY DEF Ascending
<1> HIDE DEF at, c
<1>5. DOMAIN Ascending(S) = 1..c /\ \A n \in 1..c : Ascending(S)[n] = at(n)
  BY <1>4
<1>6. Ascending(S) \in Seq(S) /\ Len(Ascending(S)) = c
  BY <1>1, <1>2, <1>4, IsASeq
<1> QED BY <1>1, <1>2, <1>3, <1>5, <1>6

LEMMA FirstNewIs == FirstNew \in ToSet(StatusById)
<1> DEFINE new == { n \in DOMAIN StatusById : StatusById[n] \in NewStatus }
<1>1. DOMAIN StatusById = 1..Len(StatusById) /\ Len(StatusById) \in Nat
  BY SnapshotAssumption
<1>2. new # {} /\ new \in SUBSET Nat
  BY <1>1, SnapshotAssumption DEF ToSet
<1>3. PICK n \in new : \A m \in new : n <= m
  <2> HIDE DEF new
  <2> QED BY <1>2, LeastExists
<1>4. n \in DOMAIN StatusById /\ StatusById[n] \in NewStatus
      /\ \A m \in 1..(n - 1) : StatusById[m] \notin NewStatus
  <2>1. n \in 1..Len(StatusById) /\ StatusById[n] \in NewStatus
    BY <1>1
  <2>2. ASSUME NEW m \in 1..(n - 1), StatusById[m] \in NewStatus PROVE FALSE
    <3>1. m \in new /\ ~(n <= m)
      BY <1>1, <2>1, <2>2
    <3> QED BY <1>3, <3>1
  <2> QED BY <1>1, <2>1, <2>2
<1> DEFINE First1(k) == StatusById[k] \in NewStatus /\ \A m \in 1..(k - 1) : StatusById[m] \notin NewStatus
           at == CHOOSE k \in DOMAIN StatusById : First1(k)
<1>5. at \in DOMAIN StatusById
  BY <1>4
<1>6. FirstNew = StatusById[at]
  BY DEF FirstNew
<1> HIDE DEF at
<1> QED BY <1>5, <1>6 DEF ToSet

-----------------------------------------------------------------------------
(* The graph and its documents.                                            *)

StoredComment == [id : Nat \ {0}, jsd : {"unset", "public", "hidden"}]
StoredHistory == [id : Nat \ {0}, field : FieldValue, from : FieldValue, to : FieldValue]
StoredFile == [id : Nat \ {0}, body : FileBody]
StoredIssue ==
  [status : ToSet(StatusById), history : Seq(StoredHistory), updated : Nat \ {0}, sprint : BOOLEAN,
   comments : Seq(StoredComment), files : Seq(StoredFile)]
StoredVersions == { row \in [version : Nat \ {0}, versions : Seq(Nat \ {0})] :
  /\ row.versions # <<>> /\ NeverFalls(row.versions)
  /\ row.versions[Len(row.versions)] <= row.version }
StoredTalk == Seq(Nat \ {0})

\* Tables of rows under ids that are no 0.
KeySet == { K \in SUBSET (Nat \ {0}) : IsFiniteSet(K) }
Table(Row) == UNION { [K -> Row] : K \in KeySet }

\* A graph whose counters may be behind its ids, as Apply has it before it seeds them.
LooseGraph ==
  [issue : Table(StoredIssue), page : Table(StoredVersions), talk : Table(StoredTalk),
   replies : StoredTalk, home : Nat, hist : Nat, comment : Nat, attach : Nat, clock : Nat]

LEMMA TableIs ==
  ASSUME NEW Row, NEW f \in Table(Row)
  PROVE  /\ IsFiniteSet(DOMAIN f) /\ DOMAIN f \in SUBSET (Nat \ {0}) /\ DOMAIN f \in SUBSET Nat
         /\ f = [k \in DOMAIN f |-> f[k]] /\ \A k \in DOMAIN f : f[k] \in Row
BY DEF Table, KeySet

LEMMA TableExtended ==
  ASSUME NEW Row, NEW f \in Table(Row), NEW x \in Nat \ {0}, NEW v \in Row
  PROVE  /\ Extended(f, x, v) \in Table(Row)
         /\ DOMAIN Extended(f, x, v) = DOMAIN f \cup {x}
         /\ Extended(f, x, v)[x] = v
         /\ \A k \in DOMAIN f \ {x} : Extended(f, x, v)[k] = f[k]
<1>0. IsFiniteSet(DOMAIN f) /\ DOMAIN f \in SUBSET (Nat \ {0})
  BY TableIs
<1>1. DOMAIN f \cup {x} \in KeySet
  BY <1>0, FS_AddElement DEF KeySet
<1>2. Extended(f, x, v) \in [DOMAIN f \cup {x} -> Row]
  BY TableIs DEF Extended
<1>3. Extended(f, x, v) \in Table(Row)
  BY <1>1, <1>2 DEF Table
<1> QED BY <1>3 DEF Extended

LEMMA EmptyTable ==
  ASSUME NEW Row
  PROVE  << >> \in Table(Row) /\ DOMAIN << >> = {}
<1>1. {} \in KeySet
  BY FS_EmptySet DEF KeySet
<1>2. << >> \in [{} -> Row] /\ DOMAIN << >> = {}
  OBVIOUS
<1> QED BY <1>1, <1>2 DEF Table

LEMMA MintedIs ==
  ASSUME NEW Entry, NEW list \in Seq(Entry), \A n \in DOMAIN list : list[n].id \in Nat, NEW count \in Nat
  PROVE  /\ \A n \in DOMAIN list : Minted(list, count, n) \in Nat \ {0}
         /\ Raised(list, count) \in Nat
         /\ (\A n \in DOMAIN list : list[n].id # 0) =>
              /\ \A n \in DOMAIN list : Minted(list, count, n) = list[n].id
              /\ Raised(list, count) = count
<1>1. DOMAIN list = 1..Len(list) /\ Len(list) \in Nat /\ IsFiniteSet(DOMAIN list)
  BY ListDomain
<1>2. ASSUME NEW n \in DOMAIN list PROVE Minted(list, count, n) \in Nat \ {0}
  <2> DEFINE Z == { m \in 1..n : list[m].id = 0 }
  <2>1. CASE list[n].id # 0
    BY <2>1 DEF Minted
  <2>2. CASE list[n].id = 0
    <3>0. n \in Nat \ {0} /\ n \in Int /\ 1 \in Int
      BY <1>1
    <3>1. n \in Nat \ {0} /\ IsFiniteSet(1..n)
      BY <3>0, FS_Interval
    <3>2. Z \in SUBSET 1..n /\ n \in Z
      BY <2>2, <3>1
    <3>3. IsFiniteSet(Z)
      BY <3>1, <3>2, FS_Subset
    <3>4. Cardinality(Z) \in Nat /\ Cardinality(Z) # 0
      <4> HIDE DEF Z
      <4> QED BY <3>2, <3>3, FS_CardinalityType, FS_EmptySet
    <3>5. Minted(list, count, n) = count + Cardinality(Z)
      BY <2>2 DEF Minted
    <3> HIDE DEF Z
    <3> QED BY <3>4, <3>5
  <2> QED BY <2>1, <2>2
<1> DEFINE Z == { n \in DOMAIN list : list[n].id = 0 }
<1>3. IsFiniteSet(Z) /\ Cardinality(Z) \in Nat
  <2>1. Z \in SUBSET DOMAIN list
    OBVIOUS
  <2> HIDE DEF Z
  <2> QED BY <1>1, <2>1, FS_Subset, FS_CardinalityType
<1>4. Raised(list, count) = count + Cardinality(Z)
  BY DEF Raised
<1>5. ASSUME \A n \in DOMAIN list : list[n].id # 0
      PROVE  /\ \A n \in DOMAIN list : Minted(list, count, n) = list[n].id
             /\ Raised(list, count) = count
  <2>1. Z = {}
    BY <1>5
  <2>2. Cardinality(Z) = 0
    BY <2>1, FS_EmptySet
  <2> HIDE DEF Z
  <2> QED BY <1>4, <1>5, <2>2 DEF Minted
<1> HIDE DEF Z
<1> QED BY <1>2, <1>3, <1>4, <1>5

-----------------------------------------------------------------------------
(* The rows that Apply makes of the entries of a document.                 *)

LEMMA CommentsMade ==
  ASSUME NEW list \in Seq(CommentEntry), NEW count \in Nat
  PROVE  MakeComment(list, count) \in Seq(StoredComment) /\ Raised(list, count) \in Nat
<1> DEFINE jsd(n) == CASE list[n].internal = "yes" -> "hidden" [] list[n].internal = "no" -> "public"
                       [] OTHER -> "unset"
           made(n) == [id |-> Minted(list, count, n), jsd |-> jsd(n)]
<1>0. DOMAIN list = 1..Len(list) /\ Len(list) \in Nat /\ \A n \in DOMAIN list : list[n] \in CommentEntry
  OBVIOUS
<1>1. DOMAIN list = 1..Len(list) /\ Len(list) \in Nat /\ \A n \in DOMAIN list : list[n].id \in Nat
  BY <1>0 DEF CommentEntry
<1>2. (\A n \in DOMAIN list : Minted(list, count, n) \in Nat \ {0}) /\ Raised(list, count) \in Nat
  BY <1>1, MintedIs
<1>3. \A n : jsd(n) \in {"unset", "public", "hidden"}
  OBVIOUS
<1>4. MakeComment(list, count) = [n \in 1..Len(list) |-> made(n)]
  BY <1>1 DEF MakeComment
<1>5. \A n \in 1..Len(list) : made(n) \in StoredComment
  <2> HIDE DEF jsd
  <2> QED BY <1>1, <1>2, <1>3 DEF StoredComment
<1> HIDE DEF made
<1> QED BY <1>1, <1>2, <1>4, <1>5, IsASeq

LEMMA FilesMade ==
  ASSUME NEW list \in Seq(FileEntry), NEW count \in Nat
  PROVE  MakeAttach(list, count) \in Seq(StoredFile) /\ Raised(list, count) \in Nat
<1> DEFINE body(n) == IF list[n].base64 # "" THEN list[n].base64
                      ELSE IF list[n].text # "" THEN list[n].text ELSE "placeholder"
           made(n) == [id |-> Minted(list, count, n), body |-> body(n)]
<1>0. DOMAIN list = 1..Len(list) /\ Len(list) \in Nat /\ \A n \in DOMAIN list : list[n] \in FileEntry
  OBVIOUS
<1>1. DOMAIN list = 1..Len(list) /\ Len(list) \in Nat
      /\ \A n \in DOMAIN list : list[n].id \in Nat /\ list[n].text \in FileBody /\ list[n].base64 \in FileBody
  BY <1>0 DEF FileEntry
<1>2. (\A n \in DOMAIN list : Minted(list, count, n) \in Nat \ {0}) /\ Raised(list, count) \in Nat
  BY <1>1, MintedIs
<1>3. \A n \in DOMAIN list : body(n) \in FileBody
  BY <1>1 DEF FileBody
<1>4. MakeAttach(list, count) = [n \in 1..Len(list) |-> made(n)]
  BY <1>1 DEF MakeAttach
<1>5. \A n \in 1..Len(list) : made(n) \in StoredFile
  <2> HIDE DEF body
  <2> QED BY <1>1, <1>2, <1>3 DEF StoredFile
<1> HIDE DEF made
<1> QED BY <1>1, <1>2, <1>4, <1>5, IsASeq

LEMMA HistoryMade ==
  ASSUME NEW list \in Seq(HistoryEntry), NEW count \in Nat
  PROVE  MakeHistory(list, count) \in Seq(StoredHistory) /\ Raised(list, count) \in Nat
<1> DEFINE made(n) == [list[n] EXCEPT !.id = Minted(list, count, n)]
<1>0. DOMAIN list = 1..Len(list) /\ Len(list) \in Nat /\ \A n \in DOMAIN list : list[n] \in HistoryEntry
  OBVIOUS
<1>1. DOMAIN list = 1..Len(list) /\ Len(list) \in Nat /\ \A n \in DOMAIN list : list[n].id \in Nat
  BY <1>0 DEF HistoryEntry
<1>2. (\A n \in DOMAIN list : Minted(list, count, n) \in Nat \ {0}) /\ Raised(list, count) \in Nat
  BY <1>1, MintedIs
<1>4. MakeHistory(list, count) = [n \in 1..Len(list) |-> made(n)]
  BY <1>1 DEF MakeHistory
<1>5. \A n \in 1..Len(list) : made(n) \in StoredHistory
  <2> SUFFICES ASSUME NEW n \in 1..Len(list) PROVE made(n) \in StoredHistory
    OBVIOUS
  <2>1. list[n] \in HistoryEntry /\ Minted(list, count, n) \in Nat \ {0}
    BY <1>1, <1>2
  <2> QED BY <2>1 DEF HistoryEntry, StoredHistory
<1> HIDE DEF made
<1> QED BY <1>1, <1>2, <1>4, <1>5, IsASeq

LEMMA PickedAll ==
  ASSUME NEW X, NEW list \in Seq(X)
  PROVE  Picked(list, DOMAIN list) = list /\ Picked(list, {}) = <<>>
<1> DEFINE D == DOMAIN list
           at(i) == CHOOSE n \in D : Place(D, n) = i
<1>1. D = 1..Len(list) /\ Len(list) \in Nat /\ IsFiniteSet(D) /\ Cardinality(D) = Len(list)
      /\ list = [n \in D |-> list[n]]
  BY ListDomain
<1>2. ASSUME NEW n \in D PROVE Place(D, n) = n
  <2>1. n \in Nat /\ n >= 1 /\ n <= Len(list)
    BY <1>1
  <2>2. { m \in D : m <= n } = 1..n
    BY <1>1, <2>1
  <2>3. Cardinality(1..n) = n
    BY <2>1, FS_Interval
  <2> HIDE DEF D
  <2> QED BY <2>2, <2>3 DEF Place
<1>3. \A i \in D : at(i) = i
  BY <1>2
<1>4. Picked(list, D) = [i \in 1..Len(list) |-> list[at(i)]]
  BY <1>1 DEF Picked
<1>5. Picked(list, {}) = <<>>
  <2>1. Cardinality({}) = 0
    BY FS_EmptySet
  <2>2. 1..Cardinality({}) = {}
    BY <2>1
  <2> QED BY <2>2 DEF Picked
<1> HIDE DEF at
<1>6. Picked(list, D) = [i \in D |-> list[i]]
  BY <1>1, <1>3, <1>4
<1> QED BY <1>1, <1>5, <1>6

LEMMA TalkMade ==
  ASSUME NEW list \in Seq(TalkEntry), NEW count \in Nat, NEW reply \in BOOLEAN
  PROVE  Talk(list, count, reply) \in StoredTalk /\ Raised(list, count) \in Nat
<1> DEFINE made == [n \in DOMAIN list |-> Minted(list, count, n)]
           kept == { n \in DOMAIN list : list[n].reply = reply }
<1>0. DOMAIN list = 1..Len(list) /\ Len(list) \in Nat /\ \A n \in DOMAIN list : list[n] \in TalkEntry
  OBVIOUS
<1>1. DOMAIN list = 1..Len(list) /\ Len(list) \in Nat /\ \A n \in DOMAIN list : list[n].id \in Nat
  BY <1>0 DEF TalkEntry
<1>2. (\A n \in DOMAIN list : Minted(list, count, n) \in Nat \ {0}) /\ Raised(list, count) \in Nat
  BY <1>1, MintedIs
<1>3. made \in Seq(Nat \ {0}) /\ DOMAIN made = DOMAIN list
  BY <1>1, <1>2, IsASeq
<1>4. Talk(list, count, reply) = Picked(made, kept)
  BY DEF Talk
<1>5. kept \in SUBSET DOMAIN made
  BY <1>3
<1> HIDE DEF kept, made
<1>6. Picked(made, kept) \in Seq(Nat \ {0})
  BY <1>3, <1>5, PickedEntries
<1> QED BY <1>2, <1>4, <1>6 DEF StoredTalk

\* The comments that a document has of a page come back as they are.
LEMMA TalkComesBack ==
  ASSUME NEW talk \in StoredTalk, NEW count \in Nat
  PROVE  LET list == [n \in DOMAIN talk |-> [id |-> talk[n], reply |-> FALSE]]
         IN  /\ list \in Seq(TalkEntry)
             /\ Talk(list, count, FALSE) = talk /\ Talk(list, count, TRUE) = <<>>
             /\ Raised(list, count) = count
<1> DEFINE list == [n \in DOMAIN talk |-> [id |-> talk[n], reply |-> FALSE]]
<1>1. /\ DOMAIN talk = 1..Len(talk) /\ Len(talk) \in Nat
      /\ \A n \in DOMAIN talk : talk[n] \in Nat \ {0}
      /\ talk = [n \in DOMAIN talk |-> talk[n]]
  BY ListDomain DEF StoredTalk
<1>2. DOMAIN list = DOMAIN talk /\ \A n \in DOMAIN talk : list[n].id = talk[n] /\ list[n].reply = FALSE
                                                         /\ list[n] \in TalkEntry
  BY <1>1 DEF TalkEntry
<1>3. list \in Seq(TalkEntry)
  BY <1>1, <1>2, IsASeq
<1> HIDE DEF list
<1>4. /\ \A n \in DOMAIN list : Minted(list, count, n) = list[n].id
      /\ Raised(list, count) = count
  BY <1>1, <1>2, <1>3, MintedIs
<1>5. [n \in DOMAIN list |-> Minted(list, count, n)] = talk
  BY <1>1, <1>2, <1>4
<1>6. { n \in DOMAIN list : list[n].reply = FALSE } = DOMAIN talk
      /\ { n \in DOMAIN list : list[n].reply = TRUE } = {}
  BY <1>2
<1>7. Talk(list, count, FALSE) = Picked(talk, DOMAIN talk) /\ Talk(list, count, TRUE) = Picked(talk, {})
  BY <1>5, <1>6 DEF Talk
<1>8. Talk(list, count, FALSE) = talk /\ Talk(list, count, TRUE) = <<>>
  BY <1>7, PickedAll DEF StoredTalk
<1> QED BY <1>3, <1>4, <1>8 DEF list

-----------------------------------------------------------------------------
(* One put.                                                                *)

NewHistory(g, in) ==
  IF in.history = <<>> THEN Synthesized(in.status, g.hist) ELSE MakeHistory(in.history, g.hist)
NewStamp(g, in) == IF in.updated = 0 THEN g.clock + 1 ELSE in.updated
NewIssue(g, in) ==
  [status |-> in.status, history |-> NewHistory(g, in), updated |-> NewStamp(g, in), sprint |-> FALSE,
   comments |-> MakeComment(in.comments, g.comment), files |-> MakeAttach(in.attachments, g.attach)]

LEMMA SynthesizedIs ==
  ASSUME NEW status \in ToSet(StatusById), NEW count \in Nat
  PROVE  /\ Synthesized(status, count) \in Seq(StoredHistory)
         /\ status = FirstNew => Synthesized(status, count) = <<>>
         /\ status # FirstNew => /\ Synthesized(status, count) = << StatusRow(count + 1, FirstNew, status) >>
                                 /\ Synthesized(status, count)[1].id = count + 1
                                 /\ Len(Synthesized(status, count)) = 1
<1> DEFINE row == StatusRow(count + 1, FirstNew, status)
<1>0. FirstNew \in FieldValue /\ status \in FieldValue /\ "status" \in FieldValue
  BY FirstNewIs DEF FieldValue
<1>1. row \in StoredHistory /\ row.id = count + 1
  BY <1>0 DEF StatusRow, HistoryRow, StoredHistory
<1>2. CASE status = FirstNew
  BY <1>2 DEF Synthesized
<1>3. CASE status # FirstNew
  <2>1. Synthesized(status, count) = <<row>>
    BY <1>3 DEF Synthesized
  <2> HIDE DEF row
  <2>2. <<row>> \in Seq(StoredHistory) /\ <<row>>[1] = row /\ Len(<<row>>) = 1
    BY <1>1
  <2> QED BY <1>1, <1>3, <2>1, <2>2 DEF row
<1> QED BY <1>2, <1>3

LEMMA NewIssueOK ==
  ASSUME NEW g \in LooseGraph, NEW in \in IssueDoc
  PROVE  /\ NewIssue(g, in) \in StoredIssue
         /\ Raised(in.comments, g.comment) \in Nat /\ Raised(in.attachments, g.attach) \in Nat
         /\ Raised(in.history, g.hist) \in Nat /\ Len(NewHistory(g, in)) \in Nat
<1>1. /\ in.status \in ToSet(StatusById) /\ in.history \in Seq(HistoryEntry) /\ in.updated \in Nat
      /\ in.comments \in Seq(CommentEntry) /\ in.attachments \in Seq(FileEntry)
      /\ g.hist \in Nat /\ g.comment \in Nat /\ g.attach \in Nat /\ g.clock \in Nat
  BY DEF IssueDoc, LooseGraph
<1>2. MakeComment(in.comments, g.comment) \in Seq(StoredComment) /\ Raised(in.comments, g.comment) \in Nat
  BY <1>1, CommentsMade
<1>3. MakeAttach(in.attachments, g.attach) \in Seq(StoredFile) /\ Raised(in.attachments, g.attach) \in Nat
  BY <1>1, FilesMade
<1>4. MakeHistory(in.history, g.hist) \in Seq(StoredHistory) /\ Raised(in.history, g.hist) \in Nat
  BY <1>1, HistoryMade
<1>9. Synthesized(in.status, g.hist) \in Seq(StoredHistory)
  BY <1>1, SynthesizedIs
<1>5. NewHistory(g, in) \in Seq(StoredHistory)
  BY <1>1, <1>4, SynthesizedIs DEF NewHistory
<1>6. NewStamp(g, in) \in Nat \ {0}
  BY <1>1 DEF NewStamp
<1>7. NewIssue(g, in) \in StoredIssue
  BY <1>1, <1>2, <1>3, <1>5, <1>6 DEF NewIssue, StoredIssue
<1>8. Len(NewHistory(g, in)) \in Nat
  BY <1>5
<1> QED BY <1>2, <1>3, <1>4, <1>7, <1>8

LEMMA IssuePut ==
  ASSUME NEW g \in LooseGraph, NEW in \in IssueDoc
  PROVE  LET now == PutIssue(g, in)
         IN  /\ now \in LooseGraph
             /\ now.issue = Extended(g.issue, in.key, NewIssue(g, in))
             /\ now.page = g.page /\ now.talk = g.talk /\ now.replies = g.replies /\ now.home = g.home
             /\ now.hist = IF in.history = <<>> THEN g.hist + Len(NewHistory(g, in))
                           ELSE Raised(in.history, g.hist)
             /\ now.comment = Raised(in.comments, g.comment)
             /\ now.attach = Raised(in.attachments, g.attach)
             /\ now.clock = IF in.updated = 0 THEN g.clock + 1 ELSE g.clock
<1> DEFINE now == PutIssue(g, in)
           table == Extended(g.issue, in.key, NewIssue(g, in))
           hist == IF in.history = <<>> THEN g.hist + Len(NewHistory(g, in)) ELSE Raised(in.history, g.hist)
           comment == Raised(in.comments, g.comment)
           attach == Raised(in.attachments, g.attach)
           tick == IF in.updated = 0 THEN g.clock + 1 ELSE g.clock
<1>1. now = [g EXCEPT !.issue = table, !.hist = hist, !.comment = comment, !.attach = attach, !.clock = tick]
  BY DEF PutIssue, NewIssue, NewHistory, NewStamp, LooseGraph
<1>2. table \in Table(StoredIssue)
  <2>1. g.issue \in Table(StoredIssue) /\ in.key \in Nat \ {0}
    BY DEF LooseGraph, IssueDoc
  <2> QED BY <2>1, NewIssueOK, TableExtended
<1>3. hist \in Nat /\ comment \in Nat /\ attach \in Nat /\ tick \in Nat
  <2>1. g.hist \in Nat /\ g.clock \in Nat
    BY DEF LooseGraph
  <2> QED BY <2>1, NewIssueOK
<1> HIDE DEF now, table, hist, comment, attach, tick
<1>4. /\ now \in LooseGraph
      /\ now.issue = table
      /\ now.page = g.page /\ now.talk = g.talk /\ now.replies = g.replies /\ now.home = g.home
      /\ now.hist = hist /\ now.comment = comment /\ now.attach = attach /\ now.clock = tick
  BY <1>1, <1>2, <1>3 DEF LooseGraph
<1> QED BY <1>4 DEF now, table, hist, comment, attach, tick

NewVersions(in) ==
  IF in.versions = <<>> THEN << First(in.version, 1) >>
  ELSE Ranked([n \in DOMAIN in.versions |-> First(in.versions[n], 1)])
NewVersion(in) ==
  LET version == First(in.version, 1)
      last == NewVersions(in)[Len(NewVersions(in))]
  IN  IF version < last THEN last ELSE version
NewPageRow(in) == [version |-> NewVersion(in), versions |-> NewVersions(in)]
TalkOf(g, p) == IF p \in DOMAIN g.talk THEN g.talk[p] ELSE <<>>
NewTalk(g, in) == TalkOf(g, in.id) \o Talk(in.comments, g.comment, FALSE)

LEMMA NewPageOK ==
  ASSUME NEW in \in PageDoc
  PROVE  NewPageRow(in) \in StoredVersions
<1> DEFINE version == First(in.version, 1)
           numbers == [n \in DOMAIN in.versions |-> First(in.versions[n], 1)]
           last == NewVersions(in)[Len(NewVersions(in))]
<1>1. in.version \in Nat /\ in.versions \in Seq(Nat)
  BY DEF PageDoc
<1>2. version \in Nat \ {0}
  BY <1>1 DEF First
<1>3. numbers \in Seq(Nat \ {0}) /\ DOMAIN numbers = DOMAIN in.versions
  <2>1. DOMAIN in.versions = 1..Len(in.versions) /\ Len(in.versions) \in Nat
    BY <1>1
  <2>2. \A n \in DOMAIN in.versions : First(in.versions[n], 1) \in Nat \ {0}
    BY <1>1 DEF First
  <2> QED BY <2>1, <2>2, IsASeq
<1> HIDE DEF version, numbers
<1>4. /\ NewVersions(in) \in Seq(Nat \ {0}) /\ NeverFalls(NewVersions(in))
      /\ NewVersions(in) # <<>>
  <2>1. CASE in.versions = <<>>
    <3>1. NewVersions(in) = <<version>>
      BY <2>1 DEF NewVersions, version
    <3> QED BY <1>2, <3>1 DEF NeverFalls
  <2>2. CASE in.versions # <<>>
    <3>1. NewVersions(in) = Ranked(numbers)
      BY <2>2 DEF NewVersions, numbers
    <3>2. numbers \in Seq(Nat) /\ \A i \in DOMAIN numbers : numbers[i] \in Nat \ {0}
      BY <1>3
    <3>3. /\ Ranked(numbers) \in Seq(Nat) /\ DOMAIN Ranked(numbers) = DOMAIN numbers
          /\ NeverFalls(Ranked(numbers))
          /\ \A i \in DOMAIN numbers : Ranked(numbers)[i] \in ToSet(numbers)
      BY <3>2, RankedIs
    <3>4. \A i \in DOMAIN numbers : Ranked(numbers)[i] \in Nat \ {0}
      BY <3>2, <3>3 DEF ToSet
    <3>5. Ranked(numbers) \in Seq(Nat \ {0})
      BY <3>3, <3>4, ListDomain, IsASeq
    <3>6. Ranked(numbers) # <<>>
      <4>1. Len(in.versions) # 0 /\ DOMAIN in.versions = 1..Len(in.versions) /\ Len(in.versions) \in Nat
        BY <1>1, <2>2, EmptySeq
      <4>2. DOMAIN Ranked(numbers) # {}
        BY <1>3, <3>3, <4>1
      <4> QED BY <4>2
    <3> QED BY <3>1, <3>3, <3>5, <3>6
  <2> QED BY <2>1, <2>2
<1>5. last \in Nat \ {0}
  BY <1>4
<1>6. NewVersion(in) \in Nat \ {0} /\ last <= NewVersion(in)
  <2>1. NewVersion(in) = IF version < last THEN last ELSE version
    BY DEF NewVersion, version
  <2> HIDE DEF last
  <2> QED BY <1>2, <1>5, <2>1
<1> QED BY <1>4, <1>6 DEF NewPageRow, StoredVersions

LEMMA PagePut ==
  ASSUME NEW g \in LooseGraph, NEW in \in PageDoc
  PROVE  LET now == PutPage(g, in)
         IN  /\ now \in LooseGraph
             /\ now.issue = g.issue /\ now.hist = g.hist /\ now.attach = g.attach /\ now.clock = g.clock
             /\ now.page = Extended(g.page, in.id, NewPageRow(in))
             /\ now.talk = Extended(g.talk, in.id, NewTalk(g, in))
             /\ now.replies = g.replies \o Talk(in.comments, g.comment, TRUE)
             /\ now.comment = Raised(in.comments, g.comment)
             /\ now.home = First(g.home, in.id)
<1> DEFINE now == PutPage(g, in)
           pages == Extended(g.page, in.id, NewPageRow(in))
           talk == Extended(g.talk, in.id, NewTalk(g, in))
           replies == g.replies \o Talk(in.comments, g.comment, TRUE)
           comment == Raised(in.comments, g.comment)
           home == First(g.home, in.id)
<1>1. now = [g EXCEPT !.page = pages, !.talk = talk, !.replies = replies, !.comment = comment, !.home = home]
  BY DEF PutPage, NewPageRow, NewVersions, NewVersion, NewTalk, TalkOf, LooseGraph
<1>2. /\ g.page \in Table(StoredVersions) /\ g.talk \in Table(StoredTalk) /\ g.replies \in StoredTalk
      /\ g.home \in Nat /\ g.comment \in Nat
      /\ in.id \in Nat \ {0} /\ in.comments \in Seq(TalkEntry)
  BY DEF LooseGraph, PageDoc
<1>3. pages \in Table(StoredVersions)
  BY <1>2, NewPageOK, TableExtended
<1>4. /\ Talk(in.comments, g.comment, FALSE) \in StoredTalk /\ Talk(in.comments, g.comment, TRUE) \in StoredTalk
      /\ comment \in Nat
  BY <1>2, TalkMade
<1>5. TalkOf(g, in.id) \in StoredTalk
  <2>1. \A k \in DOMAIN g.talk : g.talk[k] \in StoredTalk
    BY <1>2, TableIs
  <2> QED BY <2>1 DEF TalkOf, StoredTalk
<1>6. NewTalk(g, in) \in StoredTalk /\ replies \in StoredTalk
  <2>1. ASSUME NEW s \in StoredTalk, NEW t \in StoredTalk PROVE s \o t \in StoredTalk
    BY DEF StoredTalk
  <2> QED BY <1>2, <1>4, <1>5, <2>1 DEF NewTalk
<1>7. talk \in Table(StoredTalk)
  BY <1>2, <1>6, TableExtended
<1>8. home \in Nat
  BY <1>2 DEF First
<1> HIDE DEF now, pages, talk, replies, comment, home
<1>9. /\ now \in LooseGraph
      /\ now.issue = g.issue /\ now.hist = g.hist /\ now.attach = g.attach /\ now.clock = g.clock
      /\ now.page = pages /\ now.talk = talk /\ now.replies = replies /\ now.comment = comment
      /\ now.home = home
  BY <1>1, <1>3, <1>4, <1>6, <1>7, <1>8 DEF LooseGraph
<1> QED BY <1>9 DEF now, pages, talk, replies, comment, home

-----------------------------------------------------------------------------
(* The counters are seeded.                                                *)

LooseOK(g) == g \in LooseGraph /\ DOMAIN g.talk \subseteq DOMAIN g.page

Bounded(g) ==
  /\ HistoryIds(g) \subseteq 1..g.hist /\ FileIds(g) \subseteq 1..g.attach
  /\ CommentIds(g) \subseteq 1..g.comment /\ Stamps(g) \subseteq 1..g.clock

GraphOK(g) == LooseOK(g) /\ Bounded(g)

LEMMA LargestIs ==
  ASSUME NEW S \in SUBSET Nat, IsFiniteSet(S), S # {}
  PROVE  Largest(S) \in S /\ \A m \in S : m <= Largest(S)
<1>1. PICK x \in S : \A y \in S : x >= y
  BY GreatestExists
<1>2. \A m \in S : m <= x
  BY <1>1
<1> QED BY <1>2 DEF Largest

LEMMA IdsFinite ==
  ASSUME NEW Row, NEW list \in Seq(Row), \A row \in Row : row.id \in Nat \ {0}
  PROVE  IdsOf(list) \in SUBSET (Nat \ {0}) /\ IsFiniteSet(IdsOf(list))
<1> DEFINE f == [n \in DOMAIN list |-> list[n].id]
<1>1. IsFiniteSet(DOMAIN list) /\ \A n \in DOMAIN list : list[n] \in Row
  BY ListDomain
<1>2. IsFiniteSet({ f[n] : n \in DOMAIN f })
  <2>1. DOMAIN f = DOMAIN list /\ f = [n \in DOMAIN f |-> f[n]]
    OBVIOUS
  <2> HIDE DEF f
  <2> QED BY <1>1, <2>1, ValuesFinite
<1>3. { f[n] : n \in DOMAIN f } = IdsOf(list)
  BY DEF IdsOf
<1>4. IdsOf(list) \in SUBSET (Nat \ {0})
  BY <1>1 DEF IdsOf
<1> QED BY <1>2, <1>3, <1>4

LEMMA IssueIds ==
  ASSUME NEW row \in StoredIssue
  PROVE  /\ IdsOf(row.history) \in SUBSET (Nat \ {0}) /\ IsFiniteSet(IdsOf(row.history))
         /\ IdsOf(row.files) \in SUBSET (Nat \ {0}) /\ IsFiniteSet(IdsOf(row.files))
         /\ IdsOf(row.comments) \in SUBSET (Nat \ {0}) /\ IsFiniteSet(IdsOf(row.comments))
<1>1. /\ row.history \in Seq(StoredHistory) /\ row.files \in Seq(StoredFile)
      /\ row.comments \in Seq(StoredComment)
  BY DEF StoredIssue
<1>2. /\ \A r \in StoredHistory : r.id \in Nat \ {0}
      /\ \A r \in StoredFile : r.id \in Nat \ {0}
      /\ \A r \in StoredComment : r.id \in Nat \ {0}
  BY DEF StoredHistory, StoredFile, StoredComment
<1> QED BY <1>1, <1>2, IdsFinite

LEMMA TalkFinite ==
  ASSUME NEW talk \in StoredTalk
  PROVE  ToSet(talk) \in SUBSET (Nat \ {0}) /\ IsFiniteSet(ToSet(talk))
<1>1. IsFiniteSet(DOMAIN talk) /\ talk = [n \in DOMAIN talk |-> talk[n]]
      /\ \A n \in DOMAIN talk : talk[n] \in Nat \ {0}
  BY ListDomain DEF StoredTalk
<1>2. ToSet(talk) = { talk[n] : n \in DOMAIN talk }
  BY DEF ToSet
<1> QED BY <1>1, <1>2, ValuesFinite

LEMMA IdsInGraph ==
  ASSUME NEW g \in LooseGraph
  PROVE  /\ HistoryIds(g) \in SUBSET (Nat \ {0}) /\ IsFiniteSet(HistoryIds(g))
         /\ FileIds(g) \in SUBSET (Nat \ {0}) /\ IsFiniteSet(FileIds(g))
         /\ CommentIds(g) \in SUBSET (Nat \ {0}) /\ IsFiniteSet(CommentIds(g))
         /\ Stamps(g) \in SUBSET (Nat \ {0}) /\ IsFiniteSet(Stamps(g))
<1>1. /\ g.issue \in Table(StoredIssue) /\ g.talk \in Table(StoredTalk) /\ g.replies \in StoredTalk
  BY DEF LooseGraph
<1>2. /\ IsFiniteSet(DOMAIN g.issue) /\ g.issue = [k \in DOMAIN g.issue |-> g.issue[k]]
      /\ \A k \in DOMAIN g.issue : g.issue[k] \in StoredIssue
  BY <1>1, TableIs
<1>3. IsFiniteSet(Rows(g)) /\ \A row \in Rows(g) : row \in StoredIssue
  BY <1>2, ValuesFinite DEF Rows
<1>4. /\ IsFiniteSet(DOMAIN g.talk)
      /\ \A p \in DOMAIN g.talk : g.talk[p] \in StoredTalk
  BY <1>1, TableIs
<1> DEFINE ofHistory == [row \in Rows(g) |-> IdsOf(row.history)]
           ofFiles == [row \in Rows(g) |-> IdsOf(row.files)]
           ofComments == [row \in Rows(g) |-> IdsOf(row.comments)]
           ofTalk == [p \in DOMAIN g.talk |-> ToSet(g.talk[p])]
           stamp == [row \in Rows(g) |-> row.updated]
<1>5. ASSUME NEW f, NEW D, f = [x \in D |-> f[x]], IsFiniteSet(D),
             \A x \in D : f[x] \in SUBSET (Nat \ {0}) /\ IsFiniteSet(f[x])
      PROVE  LET U == UNION { f[x] : x \in D } IN U \in SUBSET (Nat \ {0}) /\ IsFiniteSet(U)
  <2>1. DOMAIN f = D
    BY <1>5
  <2>2. IsFiniteSet({ f[x] : x \in D })
    BY <1>5, <2>1, ValuesFinite
  <2>3. \A T \in { f[x] : x \in D } : IsFiniteSet(T) /\ T \in SUBSET (Nat \ {0})
    BY <1>5
  <2>4. IsFiniteSet(UNION { f[x] : x \in D })
    BY <2>2, <2>3, FS_UNION
  <2> QED BY <2>3, <2>4
<1>6. /\ \A row \in Rows(g) : ofHistory[row] \in SUBSET (Nat \ {0}) /\ IsFiniteSet(ofHistory[row])
      /\ \A row \in Rows(g) : ofFiles[row] \in SUBSET (Nat \ {0}) /\ IsFiniteSet(ofFiles[row])
      /\ \A row \in Rows(g) : ofComments[row] \in SUBSET (Nat \ {0}) /\ IsFiniteSet(ofComments[row])
  BY <1>3, IssueIds
<1>7. \A p \in DOMAIN g.talk : ofTalk[p] \in SUBSET (Nat \ {0}) /\ IsFiniteSet(ofTalk[p])
  BY <1>4, TalkFinite
<1>8. /\ HistoryIds(g) = UNION { ofHistory[row] : row \in Rows(g) }
      /\ FileIds(g) = UNION { ofFiles[row] : row \in Rows(g) }

      /\ Stamps(g) = { stamp[row] : row \in Rows(g) }
  BY DEF HistoryIds, FileIds, Stamps
<1>9. /\ ofHistory = [row \in Rows(g) |-> ofHistory[row]] /\ ofFiles = [row \in Rows(g) |-> ofFiles[row]]
      /\ ofComments = [row \in Rows(g) |-> ofComments[row]]
      /\ ofTalk = [p \in DOMAIN g.talk |-> ofTalk[p]]
      /\ stamp = [row \in Rows(g) |-> stamp[row]] /\ DOMAIN stamp = Rows(g)
  OBVIOUS
<1>10. \A row \in Rows(g) : stamp[row] \in Nat \ {0}
  BY <1>3 DEF StoredIssue
<1> HIDE DEF ofHistory, ofFiles, ofComments, ofTalk, stamp
<1>11. HistoryIds(g) \in SUBSET (Nat \ {0}) /\ IsFiniteSet(HistoryIds(g))
  BY <1>3, <1>5, <1>6, <1>8, <1>9
<1>12. FileIds(g) \in SUBSET (Nat \ {0}) /\ IsFiniteSet(FileIds(g))
  BY <1>3, <1>5, <1>6, <1>8, <1>9
<1>13. CommentIds(g) \in SUBSET (Nat \ {0}) /\ IsFiniteSet(CommentIds(g))
  <2> DEFINE A == UNION { ofComments[row] : row \in Rows(g) }
             B == UNION { ofTalk[p] : p \in DOMAIN g.talk }
  <2>1. A \in SUBSET (Nat \ {0}) /\ IsFiniteSet(A)
    BY <1>3, <1>5, <1>6, <1>9
  <2>2. B \in SUBSET (Nat \ {0}) /\ IsFiniteSet(B)
    <3> DEFINE D == DOMAIN g.talk
    <3>1. /\ IsFiniteSet(D) /\ ofTalk = [p \in D |-> ofTalk[p]]
          /\ \A p \in D : ofTalk[p] \in SUBSET (Nat \ {0}) /\ IsFiniteSet(ofTalk[p])
      BY <1>4, <1>7, <1>9
    <3>2. B = UNION { ofTalk[p] : p \in D }
      OBVIOUS
    <3> HIDE DEF D, B
    <3> QED BY <1>5, <3>1, <3>2
  <2>3. ToSet(g.replies) \in SUBSET (Nat \ {0}) /\ IsFiniteSet(ToSet(g.replies))
    BY <1>1, TalkFinite
  <2>4. CommentIds(g) = A \cup B \cup ToSet(g.replies)
    BY DEF CommentIds, ofComments, ofTalk
  <2> HIDE DEF A, B
  <2>5. IsFiniteSet(A \cup B)
    BY <2>1, <2>2, FS_Union
  <2>6. IsFiniteSet((A \cup B) \cup ToSet(g.replies))
    BY <2>3, <2>5, FS_Union
  <2> QED BY <2>1, <2>2, <2>3, <2>4, <2>6
<1>14. Stamps(g) \in SUBSET (Nat \ {0}) /\ IsFiniteSet(Stamps(g))
  BY <1>3, <1>8, <1>9, <1>10, ValuesFinite
<1> QED BY <1>11, <1>12, <1>13, <1>14

\* What the counters are after the seeding.
SeededCounters(g, now) ==
  /\ now.hist = Largest(HistoryIds(g) \cup {g.hist}) /\ now.attach = Largest(FileIds(g) \cup {g.attach})
  /\ now.comment = Largest(CommentIds(g) \cup {g.comment}) /\ now.clock = Largest(Stamps(g) \cup {0})

LEMMA SeededIs ==
  ASSUME NEW g, LooseOK(g)
  PROVE  LET now == Seeded(g)
         IN  /\ GraphOK(now) /\ SeededCounters(g, now)
             /\ now.issue = g.issue /\ now.page = g.page /\ now.talk = g.talk
             /\ now.replies = g.replies /\ now.home = g.home
<1> DEFINE now == Seeded(g)
           hist == Largest(HistoryIds(g) \cup {g.hist})
           attach == Largest(FileIds(g) \cup {g.attach})
           comment == Largest(CommentIds(g) \cup {g.comment})
           tick == Largest(Stamps(g) \cup {0})
<1>1. g \in LooseGraph /\ g.hist \in Nat /\ g.attach \in Nat /\ g.comment \in Nat
  BY DEF LooseOK, LooseGraph
<1>2. ASSUME NEW S \in SUBSET (Nat \ {0}), IsFiniteSet(S), NEW n \in Nat
      PROVE  Largest(S \cup {n}) \in Nat /\ S \subseteq 1..Largest(S \cup {n})
  <2>1. S \cup {n} \in SUBSET Nat /\ IsFiniteSet(S \cup {n}) /\ S \cup {n} # {}
    BY <1>2, FS_AddElement
  <2>2. Largest(S \cup {n}) \in S \cup {n} /\ \A m \in S \cup {n} : m <= Largest(S \cup {n})
    BY <2>1, LargestIs
  <2> HIDE DEF Largest
  <2>3. Largest(S \cup {n}) \in Nat
    BY <2>1, <2>2
  <2>4. \A m \in S : m \in 1..Largest(S \cup {n})
    BY <2>2, <2>3
  <2> QED BY <2>3, <2>4
<1>3. /\ hist \in Nat /\ HistoryIds(g) \subseteq 1..hist /\ attach \in Nat /\ FileIds(g) \subseteq 1..attach
      /\ comment \in Nat /\ CommentIds(g) \subseteq 1..comment
      /\ tick \in Nat /\ Stamps(g) \subseteq 1..tick
  BY <1>1, <1>2, IdsInGraph
<1>4. now = [g EXCEPT !.hist = hist, !.attach = attach, !.comment = comment, !.clock = tick]
  BY <1>1 DEF Seeded, LooseGraph
<1> HIDE DEF now, hist, attach, comment, tick
<1>5. /\ now \in LooseGraph
      /\ now.issue = g.issue /\ now.page = g.page /\ now.talk = g.talk
      /\ now.replies = g.replies /\ now.home = g.home
      /\ now.hist = hist /\ now.attach = attach /\ now.comment = comment /\ now.clock = tick
  BY <1>1, <1>3, <1>4 DEF LooseGraph
<1>6. /\ HistoryIds(now) = HistoryIds(g) /\ FileIds(now) = FileIds(g) /\ CommentIds(now) = CommentIds(g)
      /\ Stamps(now) = Stamps(g)
  BY <1>5 DEF HistoryIds, FileIds, CommentIds, Stamps, Rows
<1>7. GraphOK(now)
  BY <1>3, <1>5, <1>6 DEF GraphOK, LooseOK, Bounded
<1> QED BY <1>5, <1>7 DEF SeededCounters, now, hist, attach, comment, tick

-----------------------------------------------------------------------------
(* The round trip of an issue.                                             *)

\* A row as the store has it: every id is minted, and the stamp is set.
StoredRow(row) ==
  /\ row.updated # 0 /\ row.history \in Seq(StoredHistory)
  /\ row.comments \in Seq(StoredComment) /\ row.files \in Seq(StoredFile)

GraphFields == {"issue", "hist", "comment", "attach", "clock"}

LEMMA CommentsComeBack ==
  ASSUME NEW list \in Seq(StoredComment), NEW count
  PROVE  MakeComment([n \in DOMAIN list |-> CommentToFix(list[n])], count) = list
<1> DEFINE fix == [n \in DOMAIN list |-> CommentToFix(list[n])]
<1>1. ASSUME NEW n \in DOMAIN list
      PROVE  MakeComment(fix, count)[n] = list[n]
  <2>1. list[n] \in StoredComment
    OBVIOUS
  <2>2. /\ fix[n].id = list[n].id
        /\ fix[n].internal = CASE list[n].jsd = "public" -> "no" [] list[n].jsd = "hidden" -> "yes"
                                [] list[n].jsd = "unset" -> ""
    BY DEF CommentToFix
  <2>3. n \in DOMAIN fix
    OBVIOUS
  <2> HIDE DEF fix
  <2>4. Minted(fix, count, n) = list[n].id
    BY <2>1, <2>2 DEF Minted, StoredComment
  <2>5. MakeComment(fix, count)[n]
          = [id |-> list[n].id,
             jsd |-> CASE fix[n].internal = "yes" -> "hidden" [] fix[n].internal = "no" -> "public"
                       [] OTHER -> "unset"]
    BY <2>3, <2>4 DEF MakeComment
  <2>6. list[n].jsd \in {"unset", "public", "hidden"} /\ list[n] = [id |-> list[n].id, jsd |-> list[n].jsd]
    BY <2>1 DEF StoredComment
  <2> QED BY <2>2, <2>5, <2>6
<1>2. MakeComment(fix, count) = [n \in DOMAIN list |-> MakeComment(fix, count)[n]]
  BY DEF MakeComment
<1>3. list = [n \in DOMAIN list |-> list[n]]
  OBVIOUS
<1> HIDE DEF fix
<1> QED BY <1>1, <1>2, <1>3 DEF fix

LEMMA HistoryComesBack ==
  ASSUME NEW list \in Seq(StoredHistory), NEW count
  PROVE  MakeHistory(list, count) = list
<1>1. ASSUME NEW n \in DOMAIN list
      PROVE  [list[n] EXCEPT !.id = Minted(list, count, n)] = list[n]
  <2>1. list[n] \in StoredHistory
    OBVIOUS
  <2>2. Minted(list, count, n) = list[n].id
    BY <2>1 DEF Minted, StoredHistory
  <2> QED BY <2>1, <2>2 DEF StoredHistory
<1>2. list = [n \in DOMAIN list |-> list[n]]
  OBVIOUS
<1> QED BY <1>1, <1>2 DEF MakeHistory

FilesBack(list, back) ==
  /\ Len(back) = Len(list)
  /\ \A n \in DOMAIN list :
       /\ back[n].id = list[n].id
       /\ back[n].body = IF list[n].body = "" THEN "placeholder" ELSE list[n].body

LEMMA FilesComeBack ==
  ASSUME NEW list \in Seq(StoredFile), NEW count
  PROVE  FilesBack(list, MakeAttach([n \in DOMAIN list |-> AttachToFix(list[n])], count))
<1> DEFINE fix == [n \in DOMAIN list |-> AttachToFix(list[n])]
           back == MakeAttach(fix, count)
<1>1. DOMAIN back = 1..Len(list) /\ Len(list) \in Nat
  BY DEF MakeAttach
<1>2. ASSUME NEW n \in DOMAIN list
      PROVE  /\ back[n].id = list[n].id
             /\ back[n].body = IF list[n].body = "" THEN "placeholder" ELSE list[n].body
  <2>1. list[n] \in StoredFile
    OBVIOUS
  <2>2. /\ fix[n].id = list[n].id /\ n \in DOMAIN fix
        /\ fix[n].text = IF list[n].body = "binary" THEN "" ELSE list[n].body
        /\ fix[n].base64 = IF list[n].body = "binary" THEN list[n].body ELSE ""
    BY DEF AttachToFix
  <2> HIDE DEF fix
  <2>3. Minted(fix, count, n) = list[n].id
    BY <2>1, <2>2 DEF Minted, StoredFile
  <2> DEFINE body == IF fix[n].base64 # "" THEN fix[n].base64
                     ELSE IF fix[n].text # "" THEN fix[n].text ELSE "placeholder"
  <2>4. back[n] = [id |-> list[n].id, body |-> body]
    BY <2>2, <2>3 DEF MakeAttach
  <2>5. body = IF list[n].body = "" THEN "placeholder" ELSE list[n].body
    BY <2>2
  <2> HIDE DEF back, body
  <2>6. back[n].id = list[n].id /\ back[n].body = body
    BY <2>4
  <2> QED BY <2>5, <2>6
<1>3. Len(back) = Len(list)
  BY <1>1
<1> HIDE DEF back
<1> QED BY <1>2, <1>3 DEF back, FilesBack

\* Whatever a graph holds already, an issue that is loaded from the document of another
\* comes back in it, with all that RoundTrip promises of it (store.go: snapshotIssue,
\* putIssue).
THEOREM IssuesComeBack ==
  ASSUME NEW h, NEW k, StoredRow(h.issue[k]), NEW g, GraphFields \subseteq DOMAIN g
  PROVE  IssueComesBack(h.issue[k], PutIssue(g, IssueToFix(h, k)).issue[k])
<1> DEFINE was == h.issue[k]
           in == IssueToFix(h, k)
           is == PutIssue(g, in).issue[k]
<1>1. /\ in.key = k /\ in.status = was.status /\ in.updated = was.updated /\ in.history = was.history
      /\ in.comments = [n \in DOMAIN was.comments |-> CommentToFix(was.comments[n])]
      /\ in.attachments = [n \in DOMAIN was.files |-> AttachToFix(was.files[n])]
  BY DEF IssueToFix
<1> HIDE DEF in, was
<1> DEFINE history == IF in.history = <<>> THEN Synthesized(in.status, g.hist) ELSE MakeHistory(in.history, g.hist)
           now == IF in.updated = 0 THEN g.clock + 1 ELSE in.updated
           row == [status |-> in.status, history |-> history, updated |-> now, sprint |-> FALSE,
                   comments |-> MakeComment(in.comments, g.comment),
                   files |-> MakeAttach(in.attachments, g.attach)]
<1>2. is = row
  <2> HIDE DEF row
  <2>1. PutIssue(g, in).issue = Extended(g.issue, in.key, row)
    BY DEF PutIssue, GraphFields, row
  <2> QED BY <2>1, <1>1 DEF Extended
<1>3. /\ is.status = was.status /\ is.updated = was.updated /\ ~is.sprint
      /\ is.history = IF was.history = <<>> THEN Synthesized(was.status, g.hist)
                      ELSE MakeHistory(was.history, g.hist)
      /\ is.comments = MakeComment(in.comments, g.comment)
      /\ is.files = MakeAttach(in.attachments, g.attach)
  BY <1>1, <1>2 DEF StoredRow, was
<1> HIDE DEF is
<1>4. StoredRow(was)
  BY DEF was
<1>5. is.comments = was.comments
  BY <1>1, <1>3, <1>4, CommentsComeBack DEF StoredRow
<1>6. FilesBack(was.files, is.files)
  <2>1. FilesBack(was.files, MakeAttach([n \in DOMAIN was.files |-> AttachToFix(was.files[n])], g.attach))
    BY <1>4, FilesComeBack DEF StoredRow
  <2> QED BY <2>1, <1>1, <1>3
<1>7. IF was.history # <<>> \/ was.status = FirstNew THEN is.history = was.history
      ELSE is.history = << StatusRow(is.history[1].id, FirstNew, was.status) >>
  <2>1. CASE was.history # <<>>
    BY <1>3, <1>4, <2>1, HistoryComesBack DEF StoredRow
  <2>2. CASE was.history = <<>> /\ was.status = FirstNew
    BY <1>3, <2>2 DEF Synthesized
  <2>3. CASE was.history = <<>> /\ was.status # FirstNew
    <3>1. is.history = << StatusRow(g.hist + 1, FirstNew, was.status) >>
      BY <1>3, <2>3 DEF Synthesized
    <3>2. is.history[1].id = g.hist + 1
      BY <3>1 DEF StatusRow, HistoryRow
    <3> QED BY <2>3, <3>1, <3>2
  <2> QED BY <2>1, <2>2, <2>3
<1>8. IssueComesBack(was, is)
  BY <1>3, <1>5, <1>6, <1>7 DEF IssueComesBack, FilesBack
<1> QED BY <1>8 DEF was, is, in

-----------------------------------------------------------------------------
(* A document is applied.                                                  *)

Start(g, d) == PutSpace([g EXCEPT !.clock = 0], d.home)

LEMMA PutsNumbered ==
  ASSUME NEW d \in Document
  PROVE  /\ Len(d.issues) \in Nat /\ Len(d.pages) \in Nat /\ Puts(d) \in Nat
         /\ Puts(d) = Len(d.issues) + Len(d.pages)
         /\ \A n \in 1..Len(d.issues) : n \in 0..Puts(d) /\ n # 0 /\ n - 1 \in 0..Puts(d)
         /\ \A n \in 1..Len(d.pages) :
              /\ Len(d.issues) + n \in 0..Puts(d) /\ Len(d.issues) + n # 0
              /\ Len(d.issues) + n - 1 \in 0..Puts(d)
         /\ \A n \in 0..(Puts(d) - 1) : ~(n + 1 <= Len(d.issues)) =>
              /\ n + 1 - Len(d.issues) \in 1..Len(d.pages)
              /\ Len(d.issues) + (n + 1 - Len(d.issues)) = n + 1
              /\ Len(d.issues) + (n + 1 - Len(d.issues)) - 1 = n
<1> DEFINE i == Len(d.issues)
           p == Len(d.pages)
           sum == Puts(d)
<1>1. i \in Nat /\ p \in Nat /\ sum = i + p
  BY DEF Puts, Document
<1> HIDE DEF i, p, sum
<1>2. /\ sum \in Nat
      /\ \A n \in 1..i : n \in 0..sum /\ n # 0 /\ n - 1 \in 0..sum
      /\ \A n \in 1..p : i + n \in 0..sum /\ i + n # 0 /\ i + n - 1 \in 0..sum
      /\ \A n \in 0..(sum - 1) : ~(n + 1 <= i) =>
           n + 1 - i \in 1..p /\ i + (n + 1 - i) = n + 1 /\ i + (n + 1 - i) - 1 = n
  BY <1>1
<1> QED BY <1>1, <1>2 DEF i, p, sum

LEMMA EntriesPut ==
  ASSUME NEW d \in Document
  PROVE  /\ Len(d.issues) \in Nat /\ Len(d.pages) \in Nat /\ Puts(d) = Len(d.issues) + Len(d.pages)
         /\ \A n \in 1..Len(d.issues) : d.issues[n] \in IssueDoc /\ \A g : Put(g, d, n) = PutIssue(g, d.issues[n])
         /\ \A n \in 1..Len(d.pages) :
              /\ d.pages[n] \in PageDoc
              /\ \A g : Put(g, d, Len(d.issues) + n) = PutPage(g, d.pages[n])
<1>1. d.issues \in Seq(IssueDoc) /\ d.pages \in Seq(PageDoc)
  BY DEF Document
<1>2. Len(d.issues) \in Nat /\ Len(d.pages) \in Nat /\ Puts(d) = Len(d.issues) + Len(d.pages)
  BY <1>1 DEF Puts
<1>3. /\ \A n \in 1..Len(d.issues) : d.issues[n] \in IssueDoc
      /\ \A n \in 1..Len(d.pages) : d.pages[n] \in PageDoc
  BY <1>1
<1>4. ASSUME NEW n \in 1..Len(d.issues), NEW g PROVE Put(g, d, n) = PutIssue(g, d.issues[n])
  BY <1>2 DEF Put
<1>5. ASSUME NEW n \in 1..Len(d.pages), NEW g
      PROVE  Put(g, d, Len(d.issues) + n) = PutPage(g, d.pages[n])
  <2>1. ~(Len(d.issues) + n <= Len(d.issues)) /\ (Len(d.issues) + n) - Len(d.issues) = n
    BY <1>2
  <2> QED BY <2>1 DEF Put
<1> QED BY <1>2, <1>3, <1>4, <1>5

LEMMA StartIs ==
  ASSUME NEW g, LooseOK(g), NEW d \in Document
  PROVE  LET now == Start(g, d)
         IN  /\ LooseOK(now)
             /\ now.issue = g.issue /\ now.page = g.page /\ now.talk = g.talk /\ now.replies = g.replies
             /\ now.hist = g.hist /\ now.comment = g.comment /\ now.attach = g.attach /\ now.clock = 0
             /\ now.home = IF d.home = 0 THEN g.home ELSE d.home
<1> DEFINE home == IF d.home = 0 THEN g.home ELSE d.home
           now == Start(g, d)
<1>1. g \in LooseGraph /\ d.home \in Nat /\ g.home \in Nat /\ DOMAIN g.talk \subseteq DOMAIN g.page
  BY DEF LooseOK, LooseGraph, Document
<1>2. now = [g EXCEPT !.clock = 0, !.home = home]
  BY <1>1 DEF Start, PutSpace, LooseGraph
<1>3. home \in Nat
  BY <1>1
<1> HIDE DEF now, home
<1>4. /\ now \in LooseGraph
      /\ now.issue = g.issue /\ now.page = g.page /\ now.talk = g.talk /\ now.replies = g.replies
      /\ now.hist = g.hist /\ now.comment = g.comment /\ now.attach = g.attach /\ now.clock = 0
      /\ now.home = home
  BY <1>1, <1>2, <1>3 DEF LooseGraph
<1> QED BY <1>1, <1>4 DEF LooseOK, now, home

LEMMA AppliedSteps ==
  ASSUME NEW g, NEW d \in Document
  PROVE  /\ Applied(g, d)[0] = Start(g, d)
         /\ \A n \in 1..Len(d.issues) : Applied(g, d)[n] = PutIssue(Applied(g, d)[n - 1], d.issues[n])
         /\ \A n \in 1..Len(d.pages) :
              Applied(g, d)[Len(d.issues) + n] = PutPage(Applied(g, d)[Len(d.issues) + n - 1], d.pages[n])
<1>2. Puts(d) \in Nat
  BY PutsNumbered
<1>3. Applied(g, d) = [n \in 0..Puts(d) |-> IF n = 0 THEN Start(g, d) ELSE Put(Applied(g, d)[n - 1], d, n)]
  BY <1>2, PutsInOrder DEF Start
<1>4. \A n \in 0..Puts(d) :
        Applied(g, d)[n] = IF n = 0 THEN Start(g, d) ELSE Put(Applied(g, d)[n - 1], d, n)
  BY <1>3
<1>5. Applied(g, d)[0] = Start(g, d)
  BY <1>2, <1>4
<1>6. ASSUME NEW n \in 1..Len(d.issues)
      PROVE  Applied(g, d)[n] = PutIssue(Applied(g, d)[n - 1], d.issues[n])
  <2>1. n \in 0..Puts(d) /\ n # 0
    BY PutsNumbered
  <2>2. Applied(g, d)[n] = Put(Applied(g, d)[n - 1], d, n)
    BY <1>4, <2>1
  <2> DEFINE was == Applied(g, d)[n - 1]
  <2>3. Put(was, d, n) = PutIssue(was, d.issues[n])
    <3> HIDE DEF was
    <3> QED BY EntriesPut
  <2> QED BY <2>2, <2>3
<1>7. ASSUME NEW n \in 1..Len(d.pages)
      PROVE  Applied(g, d)[Len(d.issues) + n] = PutPage(Applied(g, d)[Len(d.issues) + n - 1], d.pages[n])
  <2>1. Len(d.issues) + n \in 0..Puts(d) /\ Len(d.issues) + n # 0
    BY PutsNumbered
  <2>2. Applied(g, d)[Len(d.issues) + n] = Put(Applied(g, d)[Len(d.issues) + n - 1], d, Len(d.issues) + n)
    BY <1>4, <2>1
  <2> DEFINE was == Applied(g, d)[Len(d.issues) + n - 1]
  <2>3. Put(was, d, Len(d.issues) + n) = PutPage(was, d.pages[n])
    <3> HIDE DEF was
    <3> QED BY EntriesPut
  <2> QED BY <2>2, <2>3
<1> QED BY <1>5, <1>6, <1>7

LEMMA IssuePutOK ==
  ASSUME NEW g, LooseOK(g), NEW in \in IssueDoc
  PROVE  LooseOK(PutIssue(g, in))
BY IssuePut DEF LooseOK

LEMMA PagePutOK ==
  ASSUME NEW g, LooseOK(g), NEW in \in PageDoc
  PROVE  LooseOK(PutPage(g, in))
<1> DEFINE now == PutPage(g, in)
<1>1. g \in LooseGraph /\ DOMAIN g.talk \subseteq DOMAIN g.page
  BY DEF LooseOK
<1>2. /\ now \in LooseGraph /\ now.page = Extended(g.page, in.id, NewPageRow(in))
      /\ now.talk = Extended(g.talk, in.id, NewTalk(g, in))
  BY <1>1, PagePut
<1> HIDE DEF now
<1>3. DOMAIN now.page = DOMAIN g.page \cup {in.id} /\ DOMAIN now.talk = DOMAIN g.talk \cup {in.id}
  BY <1>2 DEF Extended
<1> QED BY <1>1, <1>2, <1>3 DEF LooseOK, now

\* Every put leaves a graph.
LEMMA AppliedOK ==
  ASSUME NEW g, LooseOK(g), NEW d \in Document
  PROVE  /\ Puts(d) \in Nat
         /\ \A n \in 0..Puts(d) : LooseOK(Applied(g, d)[n])
<1> DEFINE S == { n \in Nat : LooseOK(Applied(g, d)[n]) }
<1>1. Len(d.issues) \in Nat /\ Puts(d) \in Nat
  BY PutsNumbered
<1>2. 0 \in S
  <2>1. LooseOK(Start(g, d)) /\ Applied(g, d)[0] = Start(g, d)
    BY StartIs, AppliedSteps
  <2> QED BY <2>1
<1>3. ASSUME NEW n \in 0..(Puts(d) - 1), n \in S PROVE n + 1 \in S
  <2>1. LooseOK(Applied(g, d)[n]) /\ n \in Nat /\ n + 1 \in Nat
    BY <1>3
  <2>2. CASE n + 1 <= Len(d.issues)
    <3>1. n + 1 \in 1..Len(d.issues) /\ (n + 1) - 1 = n
      BY <1>1, <2>1, <2>2
    <3>2. Applied(g, d)[n + 1] = PutIssue(Applied(g, d)[(n + 1) - 1], d.issues[n + 1])
      BY <3>1, AppliedSteps
    <3>3. d.issues[n + 1] \in IssueDoc
      BY <3>1, EntriesPut
    <3>4. LooseOK(PutIssue(Applied(g, d)[n], d.issues[n + 1]))
      BY <2>1, <3>3, IssuePutOK
    <3> QED BY <2>1, <3>1, <3>2, <3>4
  <2>3. CASE ~(n + 1 <= Len(d.issues))
    <3> DEFINE m == n + 1 - Len(d.issues)
    <3>1. m \in 1..Len(d.pages) /\ Len(d.issues) + m = n + 1 /\ Len(d.issues) + m - 1 = n
      BY <1>3, <2>3, PutsNumbered
    <3> HIDE DEF m
    <3>2. Applied(g, d)[Len(d.issues) + m] = PutPage(Applied(g, d)[Len(d.issues) + m - 1], d.pages[m])
      BY <3>1, AppliedSteps
    <3>3. d.pages[m] \in PageDoc
      BY <3>1, EntriesPut
    <3>4. LooseOK(PutPage(Applied(g, d)[n], d.pages[m]))
      BY <2>1, <3>3, PagePutOK
    <3> QED BY <2>1, <3>1, <3>2, <3>4
  <2> QED BY <2>2, <2>3
<1> HIDE DEF S
<1>4. \A n \in 0..Puts(d) : n \in S
  BY <1>1, <1>2, <1>3, UpTo
<1> QED BY <1>1, <1>4 DEF S

\* Whatever a document says, what Apply leaves is a graph whose counters are past its ids.
LEMMA ApplyOK ==
  ASSUME NEW g, LooseOK(g), NEW d \in Document
  PROVE  GraphOK(Apply(g, d))
<1>1. LooseOK(Applied(g, d)[Puts(d)])
  BY AppliedOK
<1> QED BY <1>1, SeededIs DEF Apply

-----------------------------------------------------------------------------
(* The document of a graph.                                                *)

LEMMA IssueFixed ==
  ASSUME NEW s, LooseOK(s), NEW k \in DOMAIN s.issue
  PROVE  /\ IssueToFix(s, k) \in IssueDoc /\ IssueToFix(s, k).key = k
         /\ StoredRow(s.issue[k]) /\ s.issue[k] \in StoredIssue
<1> DEFINE row == s.issue[k]
           comments == [n \in DOMAIN row.comments |-> CommentToFix(row.comments[n])]
           bodies == [n \in DOMAIN row.files |-> AttachToFix(row.files[n])]
<1>1. row \in StoredIssue /\ k \in Nat \ {0}
  <2>1. s.issue \in Table(StoredIssue)
    BY DEF LooseOK, LooseGraph
  <2> QED BY <2>1, TableIs
<1>2. /\ row.status \in ToSet(StatusById) /\ row.history \in Seq(StoredHistory)
      /\ row.updated \in Nat \ {0} /\ row.comments \in Seq(StoredComment) /\ row.files \in Seq(StoredFile)
  BY <1>1 DEF StoredIssue
<1>3. comments \in Seq(CommentEntry)
  <2>1. ASSUME NEW c \in StoredComment PROVE CommentToFix(c) \in CommentEntry
    BY DEF CommentToFix, CommentEntry, StoredComment
  <2>2. DOMAIN row.comments = 1..Len(row.comments) /\ Len(row.comments) \in Nat
    BY <1>2
  <2> HIDE DEF row
  <2>3. \A n \in 1..Len(row.comments) : CommentToFix(row.comments[n]) \in CommentEntry
    BY <1>2, <2>1
  <2> QED BY <2>2, <2>3, IsASeq
<1>4. bodies \in Seq(FileEntry)
  <2>1. ASSUME NEW f \in StoredFile PROVE AttachToFix(f) \in FileEntry
    BY DEF AttachToFix, FileEntry, StoredFile, FileBody
  <2>2. DOMAIN row.files = 1..Len(row.files) /\ Len(row.files) \in Nat
    BY <1>2
  <2> HIDE DEF row
  <2>3. \A n \in 1..Len(row.files) : AttachToFix(row.files[n]) \in FileEntry
    BY <1>2, <2>1
  <2> QED BY <2>2, <2>3, IsASeq
<1>5. row.history \in Seq(HistoryEntry)
  <2>1. StoredHistory \subseteq HistoryEntry
    BY DEF StoredHistory, HistoryEntry
  <2> QED BY <1>2, <2>1
<1>6. IssueToFix(s, k) = [key |-> k, status |-> row.status, updated |-> row.updated, history |-> row.history,
                          comments |-> comments, attachments |-> bodies]
  BY DEF IssueToFix
<1> HIDE DEF comments, bodies, row
<1>7. IssueToFix(s, k) \in IssueDoc /\ IssueToFix(s, k).key = k
  BY <1>1, <1>2, <1>3, <1>4, <1>5, <1>6 DEF IssueDoc
<1>8. StoredRow(row)
  BY <1>2 DEF StoredRow
<1> QED BY <1>1, <1>7, <1>8 DEF row

LEMMA PageFixed ==
  ASSUME NEW s, LooseOK(s), NEW p \in DOMAIN s.page
  PROVE  /\ PageToFix(s, p) \in PageDoc /\ PageToFix(s, p).id = p
         /\ PageToFix(s, p).version = s.page[p].version /\ PageToFix(s, p).versions = s.page[p].versions
         /\ PageToFix(s, p).comments
              = [n \in DOMAIN TalkOf(s, p) |-> [id |-> TalkOf(s, p)[n], reply |-> FALSE]]
         /\ TalkOf(s, p) \in StoredTalk /\ s.page[p] \in StoredVersions
<1>1. s.page[p] \in StoredVersions /\ p \in Nat \ {0} /\ \A q \in DOMAIN s.talk : s.talk[q] \in StoredTalk
  <2>1. s.page \in Table(StoredVersions) /\ s.talk \in Table(StoredTalk)
    BY DEF LooseOK, LooseGraph
  <2> QED BY <2>1, TableIs
<1>2. s.page[p].version \in Nat \ {0} /\ s.page[p].versions \in Seq(Nat \ {0})
  BY <1>1 DEF StoredVersions
<1>3. TalkOf(s, p) \in StoredTalk
  BY <1>1 DEF TalkOf, StoredTalk
<1> DEFINE comments == [n \in DOMAIN TalkOf(s, p) |-> [id |-> TalkOf(s, p)[n], reply |-> FALSE]]
<1>4. comments \in Seq(TalkEntry)
  BY <1>3, TalkComesBack, 0 \in Nat
<1>5. PageToFix(s, p) = [id |-> p, version |-> s.page[p].version, versions |-> s.page[p].versions,
                         comments |-> comments]
  <2>1. CASE p \in DOMAIN s.talk
    BY <2>1 DEF PageToFix, TalkOf
  <2>2. CASE p \notin DOMAIN s.talk
    <3>1. comments = <<>>
      BY <2>2 DEF TalkOf
    <3> HIDE DEF comments
    <3> QED BY <2>2, <3>1 DEF PageToFix
  <2> QED BY <2>1, <2>2
<1> HIDE DEF comments
<1>6. s.page[p].versions \in Seq(Nat)
  BY <1>2
<1>7. /\ PageToFix(s, p) \in PageDoc /\ PageToFix(s, p).id = p
      /\ PageToFix(s, p).version = s.page[p].version /\ PageToFix(s, p).versions = s.page[p].versions
      /\ PageToFix(s, p).comments = comments
  BY <1>1, <1>2, <1>4, <1>5, <1>6 DEF PageDoc
<1> QED BY <1>1, <1>3, <1>7 DEF comments

IssueKeys(s) == Ascending(DOMAIN s.issue)
PageKeys(s) == Ascending(DOMAIN s.page)

\* Once each, in some order.
Lists1(list, S) ==
  /\ list \in Seq(S) /\ Len(list) \in Nat /\ DOMAIN list = 1..Len(list)
  /\ \A k \in S : \E n \in 1..Len(list) : list[n] = k
  /\ \A m, n \in 1..Len(list) : list[m] = list[n] => m = n

LEMMA DocumentOf ==
  ASSUME NEW s, LooseOK(s)
  PROVE  LET d == SnapshotOf(s)
         IN  /\ d \in Document /\ d.home = s.home
             /\ Lists1(IssueKeys(s), DOMAIN s.issue) /\ Lists1(PageKeys(s), DOMAIN s.page)
             /\ Len(d.issues) = Len(IssueKeys(s)) /\ Len(d.pages) = Len(PageKeys(s))
             /\ \A n \in 1..Len(d.issues) : d.issues[n] = IssueToFix(s, IssueKeys(s)[n])
             /\ \A n \in 1..Len(d.pages) : d.pages[n] = PageToFix(s, PageKeys(s)[n])
<1> DEFINE d == SnapshotOf(s)
           ik == IssueKeys(s)
           pk == PageKeys(s)
           issues == [n \in DOMAIN ik |-> IssueToFix(s, ik[n])]
           pages == [n \in DOMAIN pk |-> PageToFix(s, pk[n])]
<1>1. /\ IsFiniteSet(DOMAIN s.issue) /\ DOMAIN s.issue \in SUBSET Nat
      /\ IsFiniteSet(DOMAIN s.page) /\ DOMAIN s.page \in SUBSET Nat /\ s.home \in Nat
  <2>1. s.issue \in Table(StoredIssue) /\ s.page \in Table(StoredVersions) /\ s.home \in Nat
    BY DEF LooseOK, LooseGraph
  <2> QED BY <2>1, TableIs
<1>2. ASSUME NEW S \in SUBSET Nat, IsFiniteSet(S) PROVE Lists1(Ascending(S), S)
  <2>1. /\ Ascending(S) \in Seq(S) /\ Len(Ascending(S)) \in Nat
        /\ \A k \in S : \E n \in DOMAIN Ascending(S) : Ascending(S)[n] = k
        /\ \A m, n \in DOMAIN Ascending(S) : Ascending(S)[m] = Ascending(S)[n] => m = n
    BY <1>2, AscendingIs
  <2>2. DOMAIN Ascending(S) = 1..Len(Ascending(S))
    BY <2>1
  <2> QED BY <2>1, <2>2 DEF Lists1
<1>3. Lists1(ik, DOMAIN s.issue) /\ Lists1(pk, DOMAIN s.page)
  BY <1>1, <1>2 DEF IssueKeys, PageKeys
<1>4. d = [home |-> s.home, issues |-> issues, pages |-> pages]
  BY DEF SnapshotOf, IssueKeys, PageKeys
<1> HIDE DEF ik, pk, d
<1>5. issues \in Seq(IssueDoc) /\ Len(issues) = Len(ik) /\ \A n \in 1..Len(ik) : issues[n] = IssueToFix(s, ik[n])
  <2>1. \A n \in 1..Len(ik) : IssueToFix(s, ik[n]) \in IssueDoc
    BY <1>3, IssueFixed DEF Lists1
  <2> QED BY <1>3, <2>1, IsASeq DEF Lists1
<1>6. pages \in Seq(PageDoc) /\ Len(pages) = Len(pk) /\ \A n \in 1..Len(pk) : pages[n] = PageToFix(s, pk[n])
  <2>0. \A n \in 1..Len(pk) : pk[n] \in DOMAIN s.page
    BY <1>3 DEF Lists1
  <2>1. \A n \in 1..Len(pk) : PageToFix(s, pk[n]) \in PageDoc
    BY <2>0, PageFixed
  <2> QED BY <1>3, <2>1, IsASeq DEF Lists1
<1> HIDE DEF issues, pages
<1>7. d \in Document /\ d.home = s.home /\ d.issues = issues /\ d.pages = pages
  BY <1>1, <1>4, <1>5, <1>6 DEF Document
<1> QED BY <1>3, <1>5, <1>6, <1>7 DEF d, ik, pk

-----------------------------------------------------------------------------
(* The document of one graph is applied to another.                        *)

LEMMA IssueRound ==
  ASSUME NEW g, LooseOK(g), NEW s, LooseOK(s), NEW k \in DOMAIN s.issue
  PROVE  LET in == IssueToFix(s, k)
             now == PutIssue(g, in)
             row == NewIssue(g, in)
         IN  /\ now.issue = Extended(g.issue, k, row)
             /\ row \in StoredIssue /\ IssueComesBack(s.issue[k], row)
             /\ now.page = g.page /\ now.talk = g.talk /\ now.replies = g.replies /\ now.home = g.home
             /\ now.comment = g.comment /\ now.attach = g.attach /\ now.clock = g.clock
             /\ now.hist = g.hist \/ now.hist \in IdsOf(row.history)
<1> DEFINE in == IssueToFix(s, k)
           now == PutIssue(g, in)
           row == NewIssue(g, in)
           was == s.issue[k]
<1>1. in \in IssueDoc /\ in.key = k /\ StoredRow(was) /\ was \in StoredIssue
  BY IssueFixed
<1>2. /\ g \in LooseGraph /\ GraphFields \subseteq DOMAIN g
      /\ g.hist \in Nat /\ g.comment \in Nat /\ g.attach \in Nat /\ g.clock \in Nat
  BY DEF LooseOK, LooseGraph, GraphFields
<1>3. /\ in.status = was.status /\ in.updated = was.updated /\ in.history = was.history
      /\ in.comments = [n \in DOMAIN was.comments |-> CommentToFix(was.comments[n])]
      /\ in.attachments = [n \in DOMAIN was.files |-> AttachToFix(was.files[n])]
  BY DEF IssueToFix
<1>4. IssueComesBack(was, now.issue[k])
  BY <1>1, <1>2, IssuesComeBack
<1>5. Raised(in.comments, g.comment) = g.comment
  <2> DEFINE list == in.comments
  <2>1. list \in Seq(CommentEntry)
    BY <1>1 DEF IssueDoc
  <2>2. DOMAIN list = DOMAIN was.comments /\ \A n \in DOMAIN list : list[n].id = was.comments[n].id
    <3>1. \A x : CommentToFix(x).id = x.id
      BY DEF CommentToFix
    <3>2. list = [n \in DOMAIN was.comments |-> CommentToFix(was.comments[n])]
      BY <1>3
    <3> HIDE DEF list, was
    <3> QED BY <3>1, <3>2
  <2>3. \A n \in DOMAIN list : list[n].id \in Nat /\ list[n].id # 0
    <3>1. was.comments \in Seq(StoredComment)
      BY <1>1 DEF StoredRow
    <3>2. \A n \in DOMAIN was.comments : was.comments[n] \in StoredComment
      BY <3>1
    <3> HIDE DEF list
    <3> QED BY <2>2, <3>2 DEF StoredComment
  <2> HIDE DEF list
  <2>4. Raised(list, g.comment) = g.comment
    BY <1>2, <2>1, <2>3, MintedIs
  <2> QED BY <2>4 DEF list
<1>6. Raised(in.attachments, g.attach) = g.attach
  <2> DEFINE list == in.attachments
  <2>1. list \in Seq(FileEntry)
    BY <1>1 DEF IssueDoc
  <2>2. DOMAIN list = DOMAIN was.files /\ \A n \in DOMAIN list : list[n].id = was.files[n].id
    <3>1. \A x : AttachToFix(x).id = x.id
      BY DEF AttachToFix
    <3>2. list = [n \in DOMAIN was.files |-> AttachToFix(was.files[n])]
      BY <1>3
    <3> HIDE DEF list, was
    <3> QED BY <3>1, <3>2
  <2>3. \A n \in DOMAIN list : list[n].id \in Nat /\ list[n].id # 0
    <3>1. was.files \in Seq(StoredFile)
      BY <1>1 DEF StoredRow
    <3>2. \A n \in DOMAIN was.files : was.files[n] \in StoredFile
      BY <3>1
    <3> HIDE DEF list
    <3> QED BY <2>2, <3>2 DEF StoredFile
  <2> HIDE DEF list
  <2>4. Raised(list, g.attach) = g.attach
    BY <1>2, <2>1, <2>3, MintedIs
  <2> QED BY <2>4 DEF list
<1>7. in.updated # 0 /\ was.history \in Seq(StoredHistory) /\ in.status \in ToSet(StatusById)
  BY <1>1, <1>3 DEF StoredRow, StoredIssue
<1>8. /\ now.issue = Extended(g.issue, k, row)
      /\ now.page = g.page /\ now.talk = g.talk /\ now.replies = g.replies /\ now.home = g.home
      /\ now.hist = IF in.history = <<>> THEN g.hist + Len(NewHistory(g, in)) ELSE Raised(in.history, g.hist)
      /\ now.comment = g.comment /\ now.attach = g.attach /\ now.clock = g.clock
  <2> HIDE DEF in
  <2> QED BY <1>1, <1>2, <1>5, <1>6, <1>7, IssuePut
<1>9. row \in StoredIssue
  <2> HIDE DEF in
  <2> QED BY <1>1, <1>2, NewIssueOK
<1>10. now.hist = g.hist \/ now.hist \in IdsOf(row.history)
  <2>1. row.history = NewHistory(g, in)
    BY DEF NewIssue
  <2> HIDE DEF in, now, row, was
  <2>2. CASE in.history # <<>>
    <3>1. \A n \in DOMAIN in.history : in.history[n].id \in Nat /\ in.history[n].id # 0
      <4>1. \A n \in DOMAIN in.history : in.history[n] \in StoredHistory
        BY <1>3, <1>7
      <4> QED BY <4>1 DEF StoredHistory
    <3>2. in.history \in Seq(StoredHistory)
      BY <1>3, <1>7
    <3> DEFINE list == in.history
    <3> HIDE DEF list
    <3>3. list \in Seq(StoredHistory) /\ \A n \in DOMAIN list : list[n].id \in Nat /\ list[n].id # 0
      BY <3>1, <3>2 DEF list
    <3>4. Raised(list, g.hist) = g.hist
      BY <1>2, <3>3, MintedIs
    <3>5. Raised(in.history, g.hist) = g.hist
      BY <3>4 DEF list
    <3> QED BY <1>8, <2>2, <3>5
  <2>3. CASE in.history = <<>>
    <3>1. NewHistory(g, in) = Synthesized(in.status, g.hist)
      BY <2>3 DEF NewHistory
    <3>2. CASE in.status = FirstNew
      <4>1. NewHistory(g, in) = <<>>
        BY <1>2, <1>7, <3>1, <3>2, SynthesizedIs
      <4>2. Len(NewHistory(g, in)) = 0
        BY <4>1
      <4> QED BY <1>2, <1>8, <2>3, <4>2
    <3>3. CASE in.status # FirstNew
      <4>1. NewHistory(g, in)[1].id = g.hist + 1 /\ Len(NewHistory(g, in)) = 1
            /\ NewHistory(g, in) \in Seq(StoredHistory)
        BY <1>2, <1>7, <3>1, <3>3, SynthesizedIs
      <4>2. 1 \in DOMAIN NewHistory(g, in)
        BY <4>1
      <4>3. g.hist + 1 \in IdsOf(row.history)
        BY <2>1, <4>1, <4>2 DEF IdsOf
      <4> QED BY <1>8, <2>3, <4>1, <4>3
    <3> QED BY <3>2, <3>3
  <2> QED BY <2>2, <2>3
<1>11. now.issue[k] = row
  BY <1>8 DEF Extended
<1> QED BY <1>4, <1>8, <1>9, <1>10, <1>11

LEMMA PageRound ==
  ASSUME NEW g, LooseOK(g), NEW s, LooseOK(s), NEW p \in DOMAIN s.page
  PROVE  LET now == PutPage(g, PageToFix(s, p))
         IN  /\ now.issue = g.issue /\ now.hist = g.hist /\ now.attach = g.attach /\ now.clock = g.clock
             /\ now.comment = g.comment /\ now.replies = g.replies
             /\ now.page = Extended(g.page, p, s.page[p])
             /\ now.talk = Extended(g.talk, p, TalkOf(g, p) \o TalkOf(s, p))
             /\ now.home = First(g.home, p)
<1> DEFINE in == PageToFix(s, p)
           now == PutPage(g, in)
           was == s.page[p]
<1>1. /\ in \in PageDoc /\ in.id = p /\ in.version = was.version /\ in.versions = was.versions
      /\ in.comments = [n \in DOMAIN TalkOf(s, p) |-> [id |-> TalkOf(s, p)[n], reply |-> FALSE]]
      /\ TalkOf(s, p) \in StoredTalk /\ was \in StoredVersions
  BY PageFixed
<1>2. g \in LooseGraph /\ g.comment \in Nat /\ g.replies \in StoredTalk
  BY DEF LooseOK, LooseGraph
<1> HIDE DEF in, was
<1>3. /\ Talk(in.comments, g.comment, FALSE) = TalkOf(s, p) /\ Talk(in.comments, g.comment, TRUE) = <<>>
      /\ Raised(in.comments, g.comment) = g.comment
  <2> DEFINE talk == TalkOf(s, p)
             list == [n \in DOMAIN talk |-> [id |-> talk[n], reply |-> FALSE]]
  <2>1. talk \in StoredTalk /\ in.comments = list
    BY <1>1
  <2> HIDE DEF talk
  <2>2. Talk(list, g.comment, FALSE) = talk /\ Talk(list, g.comment, TRUE) = <<>>
        /\ Raised(list, g.comment) = g.comment
    BY <1>2, <2>1, TalkComesBack
  <2> HIDE DEF list
  <2> QED BY <2>1, <2>2 DEF talk
<1>4. NewPageRow(in) = was
  <2>1. /\ was.version \in Nat \ {0} /\ was.versions \in Seq(Nat \ {0}) /\ was.versions # <<>>
        /\ NeverFalls(was.versions) /\ was.versions[Len(was.versions)] <= was.version
        /\ was = [version |-> was.version, versions |-> was.versions]
    BY <1>1 DEF StoredVersions
  <2>2. First(in.version, 1) = was.version
    BY <1>1, <2>1 DEF First
  <2>3. [n \in DOMAIN in.versions |-> First(in.versions[n], 1)] = was.versions
    <3>1. \A n \in DOMAIN was.versions : First(was.versions[n], 1) = was.versions[n]
      BY <2>1 DEF First
    <3>2. was.versions = [n \in DOMAIN was.versions |-> was.versions[n]]
      BY <2>1, ListDomain
    <3> QED BY <1>1, <3>1, <3>2
  <2>4. NewVersions(in) = was.versions
    <3>1. was.versions \in Seq(Nat)
      BY <2>1
    <3> QED BY <1>1, <2>1, <2>3, <3>1, RankedIs DEF NewVersions
  <2>5. was.versions[Len(was.versions)] \in Nat
    BY <2>1, EmptySeq
  <2>6. NewVersion(in) = was.version
    BY <2>1, <2>2, <2>4, <2>5 DEF NewVersion
  <2> QED BY <2>1, <2>4, <2>6 DEF NewPageRow
<1>5. /\ now.issue = g.issue /\ now.hist = g.hist /\ now.attach = g.attach /\ now.clock = g.clock
      /\ now.page = Extended(g.page, in.id, NewPageRow(in))
      /\ now.talk = Extended(g.talk, in.id, NewTalk(g, in))
      /\ now.replies = g.replies \o Talk(in.comments, g.comment, TRUE)
      /\ now.comment = Raised(in.comments, g.comment)
      /\ now.home = First(g.home, in.id)
  BY <1>1, <1>2, PagePut
<1>6. now.replies = g.replies
  BY <1>2, <1>3, <1>5, ConcatEmptySeq DEF StoredTalk
<1>7. NewTalk(g, in) = TalkOf(g, p) \o TalkOf(s, p)
  BY <1>1, <1>3 DEF NewTalk
<1> QED BY <1>1, <1>3, <1>4, <1>5, <1>6, <1>7 DEF in, was

\* The first n entries of a list.
Reached(list, n) == { list[i] : i \in 1..n }

LEMMA ReachedNext ==
  ASSUME NEW list, NEW S, Lists1(list, S), NEW n \in Nat, n < Len(list)
  PROVE  /\ list[n + 1] \in S /\ n + 1 \in 1..Len(list) /\ list[n + 1] \notin Reached(list, n)
         /\ Reached(list, n + 1) = Reached(list, n) \cup {list[n + 1]}
         /\ \A i \in 1..(n + 1) : i = n + 1 \/ i \in 1..n
         /\ \A i \in 1..n : i \in 1..Len(list) /\ list[i] \in S /\ list[i] # list[n + 1]
<1>1. n + 1 \in 1..Len(list) /\ \A i \in 1..n : i \in 1..Len(list) /\ i # n + 1
  BY DEF Lists1
<1>2. \A i \in 1..Len(list) : list[i] \in S
  BY DEF Lists1
<1>3. \A i \in 1..n : list[i] # list[n + 1]
  BY <1>1 DEF Lists1
<1>4. \A i \in 1..(n + 1) : i = n + 1 \/ i \in 1..n
  OBVIOUS
<1>5. Reached(list, n + 1) = Reached(list, n) \cup {list[n + 1]}
  <2>1. 1..(n + 1) = (1..n) \cup {n + 1}
    OBVIOUS
  <2> QED BY <2>1 DEF Reached
<1> QED BY <1>1, <1>2, <1>3, <1>4, <1>5 DEF Reached

LEMMA ReachedAll ==
  ASSUME NEW list, NEW S, Lists1(list, S)
  PROVE  Reached(list, Len(list)) = S
BY DEF Lists1, Reached

\* After the first n issues.
IssuesBack(g, s, now, n) ==
  LET keys == IssueKeys(s)
  IN  /\ DOMAIN now.issue = DOMAIN g.issue \cup Reached(keys, n)
      /\ \A i \in 1..n : IssueComesBack(s.issue[keys[i]], now.issue[keys[i]])
      /\ now.page = g.page /\ now.talk = g.talk /\ now.replies = g.replies
      /\ now.home = (IF s.home = 0 THEN g.home ELSE s.home)
      /\ now.comment = g.comment /\ now.attach = g.attach /\ now.clock = 0
      /\ now.hist = g.hist \/ \E i \in 1..n : now.hist \in IdsOf(now.issue[keys[i]].history)

LEMMA IssuesReturn ==
  ASSUME NEW g, LooseOK(g), NEW s, LooseOK(s), NEW n \in 0..Len(IssueKeys(s))
  PROVE  IssuesBack(g, s, Applied(g, SnapshotOf(s))[n], n)
<1> DEFINE d == SnapshotOf(s)
           keys == IssueKeys(s)
           After(m) == Applied(g, d)[m]
           S == { m \in Nat : IssuesBack(g, s, After(m), m) }
<1>1. /\ d \in Document /\ d.home = s.home /\ Lists1(keys, DOMAIN s.issue) /\ Len(d.issues) = Len(keys)
      /\ \A m \in 1..Len(d.issues) : d.issues[m] = IssueToFix(s, keys[m])
  BY DocumentOf
<1> HIDE DEF d, keys
<1>2. Len(keys) \in Nat
  BY <1>1 DEF Lists1
<1>3. 0 \in S
  <2>1. After(0) = Start(g, d)
    BY <1>1, AppliedSteps
  <2>2. Reached(keys, 0) = {} /\ 1..0 = {}
    BY DEF Reached
  <2>3. IssuesBack(g, s, Start(g, d), 0)
    BY <1>1, <2>2, StartIs DEF IssuesBack, keys
  <2> QED BY <2>1, <2>3
<1>4. ASSUME NEW m \in 0..(Len(keys) - 1), m \in S PROVE m + 1 \in S
  <2> DEFINE was == After(m)
             now == After(m + 1)
             k == keys[m + 1]
             row == NewIssue(was, IssueToFix(s, k))
  <2>1. m \in Nat /\ m < Len(keys) /\ m + 1 \in 1..Len(d.issues) /\ (m + 1) - 1 = m
    BY <1>1, <1>2
  <2>2. LooseOK(was)
    <3>1. m \in 0..Puts(d)
      BY <1>1, <2>1, PutsNumbered
    <3> QED BY <1>1, <3>1, AppliedOK
  <2>3. now = PutIssue(was, IssueToFix(s, k))
    <3>1. After(m + 1) = PutIssue(After((m + 1) - 1), d.issues[m + 1])
      BY <1>1, <2>1, AppliedSteps
    <3> QED BY <1>1, <2>1, <3>1
  <2>4. /\ k \in DOMAIN s.issue /\ k \notin Reached(keys, m)
        /\ Reached(keys, m + 1) = Reached(keys, m) \cup {k}
        /\ \A i \in 1..(m + 1) : i = m + 1 \/ i \in 1..m
        /\ \A i \in 1..m : keys[i] # k
    BY <1>1, <2>1, ReachedNext
  <2>5. IssuesBack(g, s, was, m)
    BY <1>4
  <2> HIDE DEF was, now, row, k
  <2>6. /\ now.issue = Extended(was.issue, k, row) /\ IssueComesBack(s.issue[k], row)
        /\ now.page = was.page /\ now.talk = was.talk /\ now.replies = was.replies /\ now.home = was.home
        /\ now.comment = was.comment /\ now.attach = was.attach /\ now.clock = was.clock
        /\ now.hist = was.hist \/ now.hist \in IdsOf(row.history)
    BY <2>2, <2>3, <2>4, IssueRound DEF row
  <2>7. /\ DOMAIN now.issue = DOMAIN was.issue \cup {k} /\ now.issue[k] = row
        /\ \A j \in DOMAIN was.issue \ {k} : now.issue[j] = was.issue[j]
    BY <2>6 DEF Extended
  <2>8. DOMAIN now.issue = DOMAIN g.issue \cup Reached(keys, m + 1)
    BY <2>4, <2>5, <2>7 DEF IssuesBack, keys
  <2>9. \A i \in 1..m : now.issue[keys[i]] = was.issue[keys[i]]
    <3> SUFFICES ASSUME NEW i \in 1..m PROVE keys[i] \in DOMAIN was.issue \ {k}
      BY <2>7
    <3>1. keys[i] \in Reached(keys, m)
      BY DEF Reached
    <3> QED BY <2>4, <2>5, <3>1 DEF IssuesBack, keys
  <2>10. \A i \in 1..(m + 1) : IssueComesBack(s.issue[keys[i]], now.issue[keys[i]])
    <3> SUFFICES ASSUME NEW i \in 1..(m + 1) PROVE IssueComesBack(s.issue[keys[i]], now.issue[keys[i]])
      OBVIOUS
    <3>1. CASE i = m + 1
      BY <2>6, <2>7, <3>1 DEF k
    <3>2. CASE i \in 1..m
      BY <2>5, <2>9, <3>2 DEF IssuesBack, keys
    <3> QED BY <2>4, <3>1, <3>2
  <2>11. now.hist = g.hist \/ \E i \in 1..(m + 1) : now.hist \in IdsOf(now.issue[keys[i]].history)
    <3>1. CASE now.hist = was.hist
      <4>1. CASE was.hist = g.hist
        BY <3>1, <4>1
      <4>2. CASE \E i \in 1..m : was.hist \in IdsOf(was.issue[keys[i]].history)
        <5>1. PICK i \in 1..m : was.hist \in IdsOf(was.issue[keys[i]].history)
          BY <4>2
        <5>2. i \in 1..(m + 1) /\ now.hist \in IdsOf(now.issue[keys[i]].history)
          BY <2>1, <2>9, <3>1, <5>1
        <5> QED BY <5>2
      <4> QED BY <2>5, <4>1, <4>2 DEF IssuesBack, keys
    <3>2. CASE now.hist \in IdsOf(row.history)
      <4>1. m + 1 \in 1..(m + 1) /\ now.issue[keys[m + 1]] = row
        BY <2>1, <2>7 DEF k
      <4> QED BY <3>2, <4>1
    <3> QED BY <2>6, <3>1, <3>2
  <2>12. IssuesBack(g, s, now, m + 1)
    BY <2>5, <2>6, <2>8, <2>10, <2>11 DEF IssuesBack, keys
  <2> QED BY <2>1, <2>12 DEF now
<1> HIDE DEF S, After
<1>5. \A m \in 0..Len(keys) : m \in S
  BY <1>2, <1>3, <1>4, UpTo
<1>6. n \in S
  BY <1>5 DEF keys
<1> QED BY <1>6 DEF S, After, d

\* After all the issues, which left the graph was, and the first n pages.
PagesBack(g, s, was, now, n) ==
  LET ids == PageKeys(s)
  IN  /\ now.issue = was.issue /\ now.hist = was.hist /\ now.attach = was.attach /\ now.clock = was.clock
      /\ now.comment = was.comment /\ now.replies = was.replies
      /\ DOMAIN now.page = DOMAIN g.page \cup Reached(ids, n)
      /\ DOMAIN now.talk = DOMAIN g.talk \cup Reached(ids, n)
      /\ \A i \in 1..n : /\ now.page[ids[i]] = s.page[ids[i]]
                         /\ now.talk[ids[i]] = TalkOf(g, ids[i]) \o TalkOf(s, ids[i])
      /\ \A p \in DOMAIN g.talk \ Reached(ids, n) : now.talk[p] = g.talk[p]
      /\ now.home = IF n = 0 THEN was.home ELSE First(was.home, ids[1])

LEMMA PagesReturn ==
  ASSUME NEW g, LooseOK(g), NEW s, LooseOK(s), NEW n \in 0..Len(PageKeys(s))
  PROVE  LET after == Applied(g, SnapshotOf(s))
             all == Len(IssueKeys(s))
         IN  PagesBack(g, s, after[all], after[all + n], n)
<1> DEFINE d == SnapshotOf(s)
           ids == PageKeys(s)
           all == Len(IssueKeys(s))
           first == Applied(g, d)[all]
           After(m) == Applied(g, d)[all + m]
           S == { m \in Nat : PagesBack(g, s, first, After(m), m) }
<1>1. /\ d \in Document /\ Lists1(ids, DOMAIN s.page) /\ Len(d.issues) = all /\ Len(d.pages) = Len(ids)
      /\ \A m \in 1..Len(d.pages) : d.pages[m] = PageToFix(s, ids[m])
      /\ Lists1(IssueKeys(s), DOMAIN s.issue)
  BY DocumentOf
<1>2. Len(ids) \in Nat /\ all \in Nat
  BY <1>1 DEF Lists1
<1>3. IssuesBack(g, s, first, all)
  <2>1. all \in 0..Len(IssueKeys(s))
    BY <1>2
  <2> QED BY <2>1, IssuesReturn
<1> HIDE DEF d, ids, all
<1>4. 0 \in S
  <2>1. After(0) = first
    BY <1>2
  <2>2. Reached(ids, 0) = {} /\ 1..0 = {}
    BY DEF Reached
  <2>3. first.page = g.page /\ first.talk = g.talk
    BY <1>3 DEF IssuesBack
  <2> HIDE DEF first
  <2>4. PagesBack(g, s, first, first, 0)
    BY <2>2, <2>3 DEF PagesBack, ids
  <2> QED BY <2>1, <2>4
<1>5. ASSUME NEW m \in 0..(Len(ids) - 1), m \in S PROVE m + 1 \in S
  <2> DEFINE was == After(m)
             now == After(m + 1)
             p == ids[m + 1]
  <2>1. m \in Nat /\ m < Len(ids) /\ m + 1 \in 1..Len(d.pages) /\ all + (m + 1) - 1 = all + m
    BY <1>1, <1>2
  <2>2. LooseOK(was)
    <3>1. all + (m + 1) - 1 \in 0..Puts(d)
      BY <1>1, <2>1, PutsNumbered
    <3>2. all + m \in 0..Puts(d)
      BY <2>1, <3>1
    <3> QED BY <1>1, <3>2, AppliedOK
  <2>3. now = PutPage(was, PageToFix(s, p))
    <3>1. Applied(g, d)[all + (m + 1)] = PutPage(Applied(g, d)[all + (m + 1) - 1], d.pages[m + 1])
      BY <1>1, <2>1, AppliedSteps
    <3> QED BY <1>1, <2>1, <3>1
  <2>4. /\ p \in DOMAIN s.page /\ p \notin Reached(ids, m)
        /\ Reached(ids, m + 1) = Reached(ids, m) \cup {p}
        /\ \A i \in 1..(m + 1) : i = m + 1 \/ i \in 1..m
        /\ \A i \in 1..m : ids[i] # p
    BY <1>1, <2>1, ReachedNext
  <2>5. PagesBack(g, s, first, was, m)
    BY <1>5
  <2> HIDE DEF was, now, p, first
  <2>6. /\ now.issue = was.issue /\ now.hist = was.hist /\ now.attach = was.attach /\ now.clock = was.clock
        /\ now.comment = was.comment /\ now.replies = was.replies
        /\ now.page = Extended(was.page, p, s.page[p])
        /\ now.talk = Extended(was.talk, p, TalkOf(was, p) \o TalkOf(s, p))
        /\ now.home = First(was.home, p)
    BY <2>2, <2>3, <2>4, PageRound
  <2>7. /\ DOMAIN now.page = DOMAIN was.page \cup {p} /\ DOMAIN now.talk = DOMAIN was.talk \cup {p}
        /\ now.page[p] = s.page[p] /\ now.talk[p] = TalkOf(was, p) \o TalkOf(s, p)
        /\ \A q \in DOMAIN was.page \ {p} : now.page[q] = was.page[q]
        /\ \A q \in DOMAIN was.talk \ {p} : now.talk[q] = was.talk[q]
    BY <2>6 DEF Extended
  <2>8. TalkOf(was, p) = TalkOf(g, p)
    <3>1. CASE p \in DOMAIN g.talk
      BY <2>4, <2>5, <3>1 DEF PagesBack, TalkOf, ids
    <3>2. CASE p \notin DOMAIN g.talk
      BY <2>4, <2>5, <3>2 DEF PagesBack, TalkOf, ids
    <3> QED BY <3>1, <3>2
  <2>9. /\ DOMAIN now.page = DOMAIN g.page \cup Reached(ids, m + 1)
        /\ DOMAIN now.talk = DOMAIN g.talk \cup Reached(ids, m + 1)
    BY <2>4, <2>5, <2>7 DEF PagesBack, ids
  <2>10. \A i \in 1..(m + 1) : /\ now.page[ids[i]] = s.page[ids[i]]
                              /\ now.talk[ids[i]] = TalkOf(g, ids[i]) \o TalkOf(s, ids[i])
    <3> SUFFICES ASSUME NEW i \in 1..(m + 1)
                 PROVE  /\ now.page[ids[i]] = s.page[ids[i]]
                        /\ now.talk[ids[i]] = TalkOf(g, ids[i]) \o TalkOf(s, ids[i])
      OBVIOUS
    <3>1. CASE i = m + 1
      BY <2>7, <2>8, <3>1 DEF p
    <3>2. CASE i \in 1..m
      <4>1. ids[i] \in Reached(ids, m) /\ ids[i] # p
        BY <2>4, <3>2 DEF Reached
      <4>2. ids[i] \in DOMAIN was.page \ {p} /\ ids[i] \in DOMAIN was.talk \ {p}
        BY <2>5, <4>1 DEF PagesBack, ids
      <4>3. /\ was.page[ids[i]] = s.page[ids[i]]
            /\ was.talk[ids[i]] = TalkOf(g, ids[i]) \o TalkOf(s, ids[i])
        BY <2>5, <3>2 DEF PagesBack, ids
      <4> QED BY <2>7, <4>2, <4>3
    <3> QED BY <2>4, <3>1, <3>2
  <2>11. \A q \in DOMAIN g.talk \ Reached(ids, m + 1) : now.talk[q] = g.talk[q]
    <3> SUFFICES ASSUME NEW q \in DOMAIN g.talk \ Reached(ids, m + 1) PROVE now.talk[q] = g.talk[q]
      OBVIOUS
    <3>1. q \notin Reached(ids, m) /\ q # p
      BY <2>4
    <3>2. was.talk[q] = g.talk[q] /\ q \in DOMAIN was.talk
      BY <2>5, <3>1 DEF PagesBack, ids
    <3> QED BY <2>7, <3>1, <3>2
  <2>12. now.home = First(first.home, ids[1])
    <3>1. CASE m = 0
      BY <2>5, <2>6, <3>1 DEF PagesBack, ids, p
    <3>2. CASE m # 0
      <4>1. was.home = First(first.home, ids[1])
        BY <2>5, <3>2 DEF PagesBack, ids
      <4>2. first.home # 0 \/ ids[1] # 0
        <5>1. ids[1] \in DOMAIN s.page
          BY <1>1, <2>1 DEF Lists1
        <5>2. s.page \in Table(StoredVersions)
          BY DEF LooseOK, LooseGraph
        <5> QED BY <5>1, <5>2, TableIs
      <4> QED BY <2>6, <4>1, <4>2 DEF First
    <3> QED BY <3>1, <3>2
  <2>13. m + 1 # 0 /\ m + 1 \in Nat
    BY <2>1
  <2>14. PagesBack(g, s, first, now, m + 1)
    BY <2>5, <2>6, <2>9, <2>10, <2>11, <2>12, <2>13 DEF PagesBack, ids
  <2> QED BY <2>13, <2>14 DEF now
<1> HIDE DEF S, After
<1>6. \A m \in 0..Len(ids) : m \in S
  BY <1>2, <1>4, <1>5, UpTo
<1>7. n \in S
  BY <1>6 DEF ids
<1> QED BY <1>7 DEF S, After, d, first, all

\* A row that has come back once comes back as it is.
LEMMA SettledRow ==
  ASSUME NEW a \in StoredIssue, NEW b \in StoredIssue, NEW c \in StoredIssue,
         IssueComesBack(a, b), IssueComesBack(b, c)
  PROVE  c = b
<1>1. c.status = b.status /\ c.updated = b.updated /\ c.comments = b.comments
  BY DEF IssueComesBack
<1>2. c.sprint = FALSE /\ b.sprint = FALSE
  BY DEF IssueComesBack, StoredIssue
<1>3. c.history = b.history
  <2>1. b.history = <<>> => b.status = FirstNew
    <3>1. CASE a.history # <<>> \/ a.status = FirstNew
      BY <3>1 DEF IssueComesBack
    <3>2. CASE ~(a.history # <<>> \/ a.status = FirstNew)
      <4>1. b.history = << StatusRow(b.history[1].id, FirstNew, a.status) >>
        BY <3>2 DEF IssueComesBack
      <4>2. b.history # <<>>
        BY <4>1
      <4> QED BY <4>2
    <3> QED BY <3>1, <3>2
  <2> QED BY <2>1 DEF IssueComesBack
<1>4. c.files = b.files
  <2>1. a.files \in Seq(StoredFile) /\ b.files \in Seq(StoredFile) /\ c.files \in Seq(StoredFile)
    BY DEF StoredIssue
  <2>2. Len(b.files) = Len(a.files) /\ Len(c.files) = Len(b.files)
    BY DEF IssueComesBack
  <2>3. /\ DOMAIN b.files = DOMAIN a.files /\ DOMAIN c.files = DOMAIN b.files
        /\ b.files = [n \in DOMAIN b.files |-> b.files[n]] /\ c.files = [n \in DOMAIN c.files |-> c.files[n]]
    BY <2>1, <2>2
  <2>4. ASSUME NEW n \in DOMAIN b.files PROVE c.files[n] = b.files[n]
    <3>1. a.files[n] \in StoredFile /\ b.files[n] \in StoredFile /\ c.files[n] \in StoredFile
      BY <2>1, <2>3
    <3>2. /\ c.files[n].id = b.files[n].id
          /\ c.files[n].body = (IF b.files[n].body = "" THEN "placeholder" ELSE b.files[n].body)
          /\ b.files[n].body = (IF a.files[n].body = "" THEN "placeholder" ELSE a.files[n].body)
      BY <2>3 DEF IssueComesBack
    <3>3. c.files[n].body = b.files[n].body
      BY <3>2
    <3>4. ASSUME NEW x \in StoredFile PROVE x = [id |-> x.id, body |-> x.body]
      BY DEF StoredFile
    <3>5. /\ c.files[n] = [id |-> c.files[n].id, body |-> c.files[n].body]
          /\ b.files[n] = [id |-> b.files[n].id, body |-> b.files[n].body]
      BY <3>1, <3>4
    <3> QED BY <3>2, <3>3, <3>5
  <2> QED BY <2>3, <2>4
<1>5. ASSUME NEW x \in StoredIssue
      PROVE  x = [status |-> x.status, history |-> x.history, updated |-> x.updated,
                  sprint |-> x.sprint, comments |-> x.comments, files |-> x.files]
  BY DEF StoredIssue
<1>6. /\ c = [status |-> c.status, history |-> c.history, updated |-> c.updated,
              sprint |-> c.sprint, comments |-> c.comments, files |-> c.files]
      /\ b = [status |-> b.status, history |-> b.history, updated |-> b.updated,
              sprint |-> b.sprint, comments |-> b.comments, files |-> b.files]
  BY <1>5
<1> QED BY <1>1, <1>2, <1>3, <1>4, <1>6

LEMMA EmptyOK == LooseOK(Empty)
<1>1. << >> \in StoredTalk
  BY EmptySeq DEF StoredTalk
<1>2. /\ << >> \in Table(StoredIssue) /\ << >> \in Table(StoredVersions) /\ << >> \in Table(StoredTalk)
      /\ DOMAIN << >> = {}
  BY EmptyTable
<1>3. Empty \in LooseGraph
  BY <1>1, <1>2 DEF Empty, LooseGraph
<1>4. Empty.talk = << >> /\ Empty.page = << >>
  BY DEF Empty
<1> QED BY <1>3, <1>4 DEF LooseOK

\* Loaded into any graph, every issue and page of the document is there.
LEMMA LoadedBack ==
  ASSUME NEW g, LooseOK(g), NEW s, LooseOK(s)
  PROVE  LET now == Apply(g, SnapshotOf(s))
             after == Applied(g, SnapshotOf(s))
             last == after[Puts(SnapshotOf(s))]
         IN  /\ GraphOK(now) /\ LooseOK(last) /\ SeededCounters(last, now)
             /\ now.issue = last.issue /\ now.page = last.page /\ now.talk = last.talk
             /\ now.replies = last.replies /\ now.home = last.home
             /\ IssuesBack(g, s, after[Len(IssueKeys(s))], Len(IssueKeys(s)))
             /\ PagesBack(g, s, after[Len(IssueKeys(s))], last, Len(PageKeys(s)))
             /\ Lists1(IssueKeys(s), DOMAIN s.issue) /\ Lists1(PageKeys(s), DOMAIN s.page)
<1> DEFINE d == SnapshotOf(s)
           all == Len(IssueKeys(s))
           rest == Len(PageKeys(s))
           last == Applied(g, d)[Puts(d)]
<1>1. /\ d \in Document /\ Lists1(IssueKeys(s), DOMAIN s.issue) /\ Lists1(PageKeys(s), DOMAIN s.page)
      /\ Len(d.issues) = all /\ Len(d.pages) = rest
  BY DocumentOf
<1> HIDE DEF d
<1>2. all \in Nat /\ rest \in Nat /\ Puts(d) = all + rest /\ Puts(d) \in Nat
  BY <1>1, PutsNumbered DEF Lists1
<1>3. LooseOK(last)
  BY <1>1, <1>2, AppliedOK
<1>4. IssuesBack(g, s, Applied(g, d)[all], all)
  <2>1. all \in 0..Len(IssueKeys(s))
    BY <1>2
  <2> HIDE DEF all
  <2> QED BY <2>1, IssuesReturn DEF d
<1>5. PagesBack(g, s, Applied(g, d)[all], Applied(g, d)[all + rest], rest)
  <2>1. rest \in 0..Len(PageKeys(s))
    BY <1>2
  <2> HIDE DEF rest
  <2> QED BY <2>1, PagesReturn DEF d
<1>6. Apply(g, d) = Seeded(last)
  BY DEF Apply
<1> HIDE DEF last
<1>7. /\ GraphOK(Seeded(last)) /\ SeededCounters(last, Seeded(last))
      /\ Seeded(last).issue = last.issue /\ Seeded(last).page = last.page /\ Seeded(last).talk = last.talk
      /\ Seeded(last).replies = last.replies /\ Seeded(last).home = last.home
  BY <1>3, SeededIs
<1> QED BY <1>1, <1>2, <1>3, <1>4, <1>5, <1>6, <1>7 DEF d, last

LEMMA AllThere ==
  ASSUME NEW g, LooseOK(g), NEW s, LooseOK(s)
  PROVE  LET now == Apply(g, SnapshotOf(s))
         IN  /\ \A k \in DOMAIN s.issue : k \in DOMAIN now.issue /\ IssueComesBack(s.issue[k], now.issue[k])
             /\ \A p \in DOMAIN s.page : p \in DOMAIN now.page /\ now.page[p] = s.page[p]
<1> DEFINE now == Apply(g, SnapshotOf(s))
           after == Applied(g, SnapshotOf(s))
           first == after[Len(IssueKeys(s))]
           last == after[Puts(SnapshotOf(s))]
<1>1. /\ now.issue = last.issue /\ now.page = last.page
      /\ IssuesBack(g, s, first, Len(IssueKeys(s))) /\ PagesBack(g, s, first, last, Len(PageKeys(s)))
      /\ Lists1(IssueKeys(s), DOMAIN s.issue) /\ Lists1(PageKeys(s), DOMAIN s.page)
  BY LoadedBack
<1> HIDE DEF now, first, last
<1>2. last.issue = first.issue
  BY <1>1 DEF PagesBack
<1>3. ASSUME NEW k \in DOMAIN s.issue
      PROVE  k \in DOMAIN now.issue /\ IssueComesBack(s.issue[k], now.issue[k])
  <2>1. PICK i \in 1..Len(IssueKeys(s)) : IssueKeys(s)[i] = k
    BY <1>1 DEF Lists1
  <2>2. k \in Reached(IssueKeys(s), Len(IssueKeys(s)))
    BY <2>1 DEF Reached
  <2> QED BY <1>1, <1>2, <2>1, <2>2 DEF IssuesBack
<1>4. ASSUME NEW p \in DOMAIN s.page PROVE p \in DOMAIN now.page /\ now.page[p] = s.page[p]
  <2>1. PICK i \in 1..Len(PageKeys(s)) : PageKeys(s)[i] = p
    BY <1>1 DEF Lists1
  <2>2. p \in Reached(PageKeys(s), Len(PageKeys(s)))
    BY <2>1 DEF Reached
  <2> QED BY <1>1, <2>1, <2>2 DEF PagesBack
<1> QED BY <1>3, <1>4 DEF now

\* What a start on an empty store makes of the document of a graph.
Restored(s, now) ==
  /\ GraphOK(now)
  /\ DOMAIN now.issue = DOMAIN s.issue
  /\ \A k \in DOMAIN s.issue : IssueComesBack(s.issue[k], now.issue[k])
  /\ now.page = s.page
  /\ DOMAIN now.talk = DOMAIN s.page /\ \A p \in DOMAIN s.page : now.talk[p] = TalkOf(s, p)
  /\ now.replies = <<>>
  /\ s.home # 0 \/ s.page = << >> => now.home = s.home
  /\ s.home = 0 /\ s.page # << >> => now.home # 0
  /\ now.hist = Largest(HistoryIds(now) \cup {0}) /\ now.attach = Largest(FileIds(now) \cup {0})
  /\ now.comment = Largest(CommentIds(now) \cup {0}) /\ now.clock = Largest(Stamps(now) \cup {0})

LEMMA FreshIsRestored ==
  ASSUME NEW s, LooseOK(s)
  PROVE  Restored(s, Apply(Empty, SnapshotOf(s)))
<1> DEFINE g == Empty
           now == Apply(g, SnapshotOf(s))
           after == Applied(g, SnapshotOf(s))
           first == after[Len(IssueKeys(s))]
           last == after[Puts(SnapshotOf(s))]
<1>1. LooseOK(g)
  BY EmptyOK
<1>2. /\ g.issue = << >> /\ g.page = << >> /\ g.talk = << >> /\ g.replies = <<>> /\ g.home = 0
      /\ g.hist = 0 /\ g.comment = 0 /\ g.attach = 0 /\ DOMAIN << >> = {}
  BY DEF Empty
<1> HIDE DEF g
<1>3. /\ GraphOK(now) /\ LooseOK(last) /\ SeededCounters(last, now)
      /\ now.issue = last.issue /\ now.page = last.page /\ now.talk = last.talk
      /\ now.replies = last.replies /\ now.home = last.home
      /\ IssuesBack(g, s, first, Len(IssueKeys(s))) /\ PagesBack(g, s, first, last, Len(PageKeys(s)))
      /\ Lists1(IssueKeys(s), DOMAIN s.issue) /\ Lists1(PageKeys(s), DOMAIN s.page)
  BY <1>1, LoadedBack
<1>4. /\ \A k \in DOMAIN s.issue : IssueComesBack(s.issue[k], now.issue[k])
      /\ \A p \in DOMAIN s.page : now.page[p] = s.page[p]
  BY <1>1, AllThere
<1> HIDE DEF now, first, last
<1>5. /\ Reached(IssueKeys(s), Len(IssueKeys(s))) = DOMAIN s.issue
      /\ Reached(PageKeys(s), Len(PageKeys(s))) = DOMAIN s.page
  BY <1>3, ReachedAll
<1>6. DOMAIN now.issue = DOMAIN s.issue /\ DOMAIN now.page = DOMAIN s.page /\ DOMAIN now.talk = DOMAIN s.page
  BY <1>2, <1>3, <1>5 DEF IssuesBack, PagesBack
<1>7. /\ s.page = [p \in DOMAIN s.page |-> s.page[p]] /\ DOMAIN s.page \in SUBSET (Nat \ {0})
      /\ now.page = [p \in DOMAIN now.page |-> now.page[p]]
      /\ \A p \in DOMAIN s.talk : s.talk[p] \in StoredTalk
  <2>1. s.page \in Table(StoredVersions) /\ now.page \in Table(StoredVersions) /\ s.talk \in Table(StoredTalk)
    BY <1>3 DEF LooseOK, LooseGraph, GraphOK
  <2> QED BY <2>1, TableIs
<1>8. now.page = s.page
  BY <1>4, <1>6, <1>7
<1>9. ASSUME NEW p \in DOMAIN s.page PROVE now.talk[p] = TalkOf(s, p)
  <2>1. PICK i \in 1..Len(PageKeys(s)) : PageKeys(s)[i] = p
    BY <1>3 DEF Lists1
  <2>2. now.talk[p] = TalkOf(g, p) \o TalkOf(s, p)
    BY <1>3, <2>1 DEF PagesBack
  <2>3. TalkOf(g, p) = <<>> /\ TalkOf(s, p) \in StoredTalk
    BY <1>2, <1>7 DEF TalkOf, StoredTalk
  <2> QED BY <2>2, <2>3, ConcatEmptySeq DEF StoredTalk
<1>10. now.replies = <<>> /\ first.home = s.home
  BY <1>2, <1>3 DEF IssuesBack, PagesBack
<1>11. /\ s.home # 0 \/ s.page = << >> => now.home = s.home
       /\ s.home = 0 /\ s.page # << >> => now.home # 0
  <2> DEFINE c == Len(PageKeys(s))
  <2>1. now.home = IF c = 0 THEN s.home ELSE First(s.home, PageKeys(s)[1])
    BY <1>3, <1>10 DEF PagesBack
  <2>2. CASE s.page = << >>
    <3>1. c = 0
      BY <1>2, <1>3, <2>2 DEF Lists1
    <3> QED BY <2>1, <2>2, <3>1
  <2>3. CASE s.page # << >>
    <3>1. DOMAIN s.page # {}
      <4>1. ASSUME NEW f, f = [p \in DOMAIN f |-> f[p]], DOMAIN f = {} PROVE f = << >>
        BY <4>1
      <4> DEFINE f == s.page
      <4>2. f = [p \in DOMAIN f |-> f[p]] /\ f # << >>
        BY <1>7, <2>3
      <4> HIDE DEF f
      <4>3. DOMAIN f # {}
        BY <4>1, <4>2
      <4> QED BY <4>3 DEF f
    <3>2. c # 0 /\ 1 \in 1..c
      BY <1>3, <3>1 DEF Lists1
    <3>3. PageKeys(s)[1] # 0
      BY <1>3, <1>7, <3>2 DEF Lists1
    <3> QED BY <2>1, <2>3, <3>2, <3>3 DEF First
  <2> QED BY <2>2, <2>3
<1>12. /\ HistoryIds(now) = HistoryIds(last) /\ FileIds(now) = FileIds(last)
       /\ CommentIds(now) = CommentIds(last) /\ Stamps(now) = Stamps(last)
  BY <1>3 DEF HistoryIds, FileIds, CommentIds, Stamps, Rows
<1>13. last.attach = 0 /\ last.comment = 0 /\ last.issue = first.issue /\ last.hist = first.hist
  BY <1>2, <1>3 DEF IssuesBack, PagesBack
<1>14. now.hist = Largest(HistoryIds(now) \cup {0})
  <2>1. now.hist = Largest(HistoryIds(now) \cup {last.hist})
    BY <1>3, <1>12 DEF SeededCounters
  <2>2. CASE last.hist = 0
    BY <2>1, <2>2
  <2>3. CASE \E i \in 1..Len(IssueKeys(s)) : last.hist \in IdsOf(last.issue[IssueKeys(s)[i]].history)
    <3>1. last.hist \in HistoryIds(now)
      <4>1. PICK i \in 1..Len(IssueKeys(s)) : last.hist \in IdsOf(last.issue[IssueKeys(s)[i]].history)
        BY <2>3
      <4>2. IssueKeys(s)[i] \in DOMAIN now.issue
        BY <1>3, <1>6 DEF Lists1
      <4> QED BY <1>3, <4>1, <4>2 DEF HistoryIds, Rows
    <3>2. HistoryIds(now) \in SUBSET (Nat \ {0}) /\ IsFiniteSet(HistoryIds(now))
      BY <1>3, IdsInGraph DEF GraphOK, LooseOK
    <3> DEFINE H == HistoryIds(now)
               x == Largest(H \cup {last.hist})
               y == Largest(H \cup {0})
    <3> HIDE DEF H
    <3>3. H \cup {last.hist} = H /\ H # {} /\ H \in SUBSET (Nat \ {0}) /\ IsFiniteSet(H)
      BY <3>1, <3>2 DEF H
    <3>4. x \in H /\ \A m \in H : m <= x
      BY <3>3, LargestIs
    <3>5. y \in H \cup {0} /\ \A m \in H \cup {0} : m <= y
      <4>1. H \cup {0} \in SUBSET Nat /\ IsFiniteSet(H \cup {0}) /\ H \cup {0} # {}
        BY <3>3, FS_AddElement
      <4> QED BY <4>1, LargestIs
    <3> HIDE DEF x, y
    <3>6. x = y
      BY <3>3, <3>4, <3>5
    <3> QED BY <2>1, <3>6 DEF x, y, H
  <2> QED BY <1>2, <1>3, <1>13, <2>2, <2>3 DEF IssuesBack
<1>15. /\ now.attach = Largest(FileIds(now) \cup {0}) /\ now.comment = Largest(CommentIds(now) \cup {0})
       /\ now.clock = Largest(Stamps(now) \cup {0})
  BY <1>3, <1>12, <1>13 DEF SeededCounters
<1> QED BY <1>3, <1>4, <1>6, <1>8, <1>9, <1>10, <1>11, <1>14, <1>15 DEF Restored, now, g

\* A graph that a start made of a document comes back from its own document as it is.
LEMMA RestoredTwice ==
  ASSUME NEW s, LooseOK(s), NEW g, Restored(s, g)
  PROVE  Apply(Empty, SnapshotOf(g)) = g
<1> DEFINE h == Apply(Empty, SnapshotOf(g))
<1>1. LooseOK(g)
  BY DEF Restored, GraphOK
<1>2. Restored(g, h)
  BY <1>1, FreshIsRestored
<1> HIDE DEF h
<1>3. g \in LooseGraph /\ h \in LooseGraph /\ s \in LooseGraph
  BY <1>1, <1>2 DEF Restored, GraphOK, LooseOK
<1>4. h.issue = g.issue
  <2>1. /\ h.issue = [k \in DOMAIN h.issue |-> h.issue[k]] /\ g.issue = [k \in DOMAIN g.issue |-> g.issue[k]]
        /\ \A k \in DOMAIN h.issue : h.issue[k] \in StoredIssue
        /\ \A k \in DOMAIN g.issue : g.issue[k] \in StoredIssue
        /\ \A k \in DOMAIN s.issue : s.issue[k] \in StoredIssue
    <3>1. h.issue \in Table(StoredIssue) /\ g.issue \in Table(StoredIssue) /\ s.issue \in Table(StoredIssue)
      BY <1>3 DEF LooseGraph
    <3> QED BY <3>1, TableIs
  <2>2. DOMAIN h.issue = DOMAIN g.issue /\ DOMAIN g.issue = DOMAIN s.issue
    BY <1>2 DEF Restored
  <2>3. ASSUME NEW k \in DOMAIN g.issue PROVE h.issue[k] = g.issue[k]
    <3>1. IssueComesBack(s.issue[k], g.issue[k]) /\ IssueComesBack(g.issue[k], h.issue[k])
      BY <1>2, <2>2 DEF Restored
    <3> QED BY <2>1, <2>2, <3>1, SettledRow
  <2> QED BY <2>1, <2>2, <2>3
<1>5. h.page = g.page /\ g.page = s.page
  BY <1>2 DEF Restored
<1>6. h.talk = g.talk
  <2>1. h.talk = [p \in DOMAIN h.talk |-> h.talk[p]] /\ g.talk = [p \in DOMAIN g.talk |-> g.talk[p]]
    <3>1. h.talk \in Table(StoredTalk) /\ g.talk \in Table(StoredTalk)
      BY <1>3 DEF LooseGraph
    <3> QED BY <3>1, TableIs
  <2>2. DOMAIN h.talk = DOMAIN g.talk /\ DOMAIN g.talk = DOMAIN g.page
    BY <1>2, <1>5 DEF Restored
  <2>3. \A p \in DOMAIN g.talk : h.talk[p] = g.talk[p]
    BY <1>2, <2>2 DEF Restored, TalkOf
  <2> QED BY <2>1, <2>2, <2>3
<1>7. h.replies = g.replies
  BY <1>2 DEF Restored
<1>8. h.home = g.home
  BY <1>2, <1>5 DEF Restored
<1>9. /\ HistoryIds(h) = HistoryIds(g) /\ FileIds(h) = FileIds(g)
      /\ CommentIds(h) = CommentIds(g) /\ Stamps(h) = Stamps(g)
  BY <1>4, <1>6, <1>7 DEF HistoryIds, FileIds, CommentIds, Stamps, Rows
<1>10. h.hist = g.hist /\ h.attach = g.attach /\ h.comment = g.comment /\ h.clock = g.clock
  BY <1>2, <1>9 DEF Restored
<1>11. h = g
  BY <1>3, <1>4, <1>5, <1>6, <1>7, <1>8, <1>10 DEF LooseGraph
<1> QED BY <1>11 DEF h

-----------------------------------------------------------------------------
(* The writes in between.                                                  *)

LEMMA IdsAppended ==
  ASSUME NEW Row, NEW list \in Seq(Row), NEW x \in Row
  PROVE  /\ Append(list, x) \in Seq(Row) /\ Append(list, x) # <<>>
         /\ IdsOf(Append(list, x)) = IdsOf(list) \cup {x.id}
<1> DEFINE now == Append(list, x)
           c == Len(list)
<1>1. /\ c \in Nat /\ DOMAIN list = 1..c /\ now \in Seq(Row) /\ now # <<>> /\ DOMAIN now = 1..(c + 1)
      /\ now[c + 1] = x /\ \A n \in 1..c : now[n] = list[n]
  OBVIOUS
<1> HIDE DEF c, now
<1>2. 1..(c + 1) = (1..c) \cup {c + 1}
  BY <1>1
<1>3. IdsOf(now) = IdsOf(list) \cup {x.id}
  BY <1>1, <1>2 DEF IdsOf
<1> QED BY <1>1, <1>3 DEF now

LEMMA IssueRowPut ==
  ASSUME NEW g \in LooseGraph, NEW k \in Nat \ {0}, NEW row \in StoredIssue
  PROVE  LET issues == Extended(g.issue, k, row)
         IN  /\ issues \in Table(StoredIssue) /\ DOMAIN issues = DOMAIN g.issue \cup {k} /\ issues[k] = row
             /\ \A x \in DOMAIN g.issue \ {k} : issues[x] = g.issue[x]
<1>1. g.issue \in Table(StoredIssue)
  BY DEF LooseGraph
<1> DEFINE f == g.issue
           issues == Extended(f, k, row)
<1>2. f \in Table(StoredIssue)
  BY <1>1
<1> HIDE DEF f
<1>3. issues \in Table(StoredIssue)
  BY <1>2, TableExtended
<1>4. DOMAIN issues = DOMAIN f \cup {k} /\ issues[k] = row /\ \A x \in DOMAIN f \ {k} : issues[x] = f[x]
  BY DEF Extended
<1> QED BY <1>3, <1>4 DEF f

\* A graph after the write of an issue, and after that of a page.
IssueWrite(g, issues, hist, comment, attach) ==
  [g EXCEPT !.issue = issues, !.hist = hist, !.comment = comment, !.attach = attach, !.clock = g.clock + 1]
PageWrite(g, pages, talk, comment) ==
  [g EXCEPT !.page = pages, !.talk = talk, !.comment = comment, !.clock = g.clock + 1]

\* One issue is written at the next stamp, and the counters do not fall.
LEMMA IssueWritten ==
  ASSUME NEW g, GraphOK(g), NEW k \in Nat \ {0}, NEW row \in StoredIssue, row.updated = g.clock + 1,
         NEW hist \in Nat, g.hist <= hist, IdsOf(row.history) \subseteq 1..hist,
         NEW comment \in Nat, g.comment <= comment, IdsOf(row.comments) \subseteq 1..comment,
         NEW attach \in Nat, g.attach <= attach, IdsOf(row.files) \subseteq 1..attach
  PROVE  GraphOK(IssueWrite(g, Extended(g.issue, k, row), hist, comment, attach))
<1> DEFINE issues == Extended(g.issue, k, row)
           now == IssueWrite(g, issues, hist, comment, attach)
<1>1. g \in LooseGraph /\ DOMAIN g.talk \subseteq DOMAIN g.page
  BY DEF GraphOK, LooseOK
<1>2. g.issue \in Table(StoredIssue) /\ g.clock \in Nat /\ g.hist \in Nat /\ g.comment \in Nat /\ g.attach \in Nat
  BY <1>1 DEF LooseGraph
<1>3. /\ issues \in Table(StoredIssue) /\ DOMAIN issues = DOMAIN g.issue \cup {k} /\ issues[k] = row
      /\ \A x \in DOMAIN g.issue \ {k} : issues[x] = g.issue[x]
  BY <1>1, IssueRowPut
<1> DEFINE tick == g.clock + 1
<1>0. now = [g EXCEPT !.issue = issues, !.hist = hist, !.comment = comment, !.attach = attach, !.clock = tick]
      /\ tick \in Nat
  BY <1>2 DEF IssueWrite
<1> HIDE DEF issues, tick, now
<1>4. /\ now \in LooseGraph
      /\ now.issue = issues /\ now.page = g.page /\ now.talk = g.talk /\ now.replies = g.replies
      /\ now.hist = hist /\ now.comment = comment /\ now.attach = attach /\ now.clock = tick
  BY <1>0, <1>1, <1>3 DEF LooseGraph
<1> USE DEF tick
<1>5. Rows(now) \subseteq Rows(g) \cup {row}
  BY <1>3, <1>4 DEF Rows
<1>6. HistoryIds(now) \subseteq HistoryIds(g) \cup IdsOf(row.history)
  <2>1. ASSUME NEW x \in HistoryIds(now) PROVE x \in HistoryIds(g) \cup IdsOf(row.history)
    <3>1. PICK r \in Rows(now) : x \in IdsOf(r.history)
      BY DEF HistoryIds
    <3> QED BY <1>5, <3>1 DEF HistoryIds
  <2> QED BY <2>1
<1>7. FileIds(now) \subseteq FileIds(g) \cup IdsOf(row.files)
  BY <1>5 DEF FileIds
<1>8. CommentIds(now) \subseteq CommentIds(g) \cup IdsOf(row.comments)
  BY <1>4, <1>5 DEF CommentIds
<1>9. Stamps(now) \subseteq Stamps(g) \cup {row.updated}
  BY <1>5 DEF Stamps
<1>10. /\ 1..g.hist \subseteq 1..hist /\ 1..g.comment \subseteq 1..comment /\ 1..g.attach \subseteq 1..attach
       /\ 1..g.clock \subseteq 1..(g.clock + 1) /\ g.clock + 1 \in 1..(g.clock + 1)
  BY <1>2
<1>11. Bounded(g)
  BY DEF GraphOK
<1>12. Bounded(now)
  BY <1>4, <1>6, <1>7, <1>8, <1>9, <1>10, <1>11 DEF Bounded
<1>13. GraphOK(now)
  BY <1>1, <1>4, <1>12 DEF GraphOK, LooseOK
<1> QED BY <1>13 DEF now, issues

\* The page is written, or a comment on it.
LEMMA PageWritten ==
  ASSUME NEW g, GraphOK(g), NEW pages \in Table(StoredVersions), NEW talk \in Table(StoredTalk),
         DOMAIN talk \subseteq DOMAIN pages,
         NEW comment \in Nat, g.comment <= comment,
         \A p \in DOMAIN talk : ToSet(talk[p]) \subseteq 1..comment
  PROVE  GraphOK(PageWrite(g, pages, talk, comment))
<1> DEFINE now == PageWrite(g, pages, talk, comment)
<1>1. g \in LooseGraph /\ g.clock \in Nat /\ g.comment \in Nat /\ Bounded(g)
  BY DEF GraphOK, LooseOK, LooseGraph
<1> DEFINE tick == g.clock + 1
<1>0. now = [g EXCEPT !.page = pages, !.talk = talk, !.comment = comment, !.clock = tick] /\ tick \in Nat
  BY <1>1 DEF PageWrite
<1> HIDE DEF tick, now
<1>2. /\ now \in LooseGraph
      /\ now.issue = g.issue /\ now.page = pages /\ now.talk = talk /\ now.replies = g.replies
      /\ now.hist = g.hist /\ now.comment = comment /\ now.attach = g.attach /\ now.clock = tick
  BY <1>0, <1>1 DEF LooseGraph
<1> USE DEF tick
<1>3. 1..g.comment \subseteq 1..comment /\ 1..g.clock \subseteq 1..(g.clock + 1)
  BY <1>1
<1>4. /\ HistoryIds(now) = HistoryIds(g) /\ FileIds(now) = FileIds(g) /\ Stamps(now) = Stamps(g)
      /\ CommentIds(now) \subseteq CommentIds(g) \cup (UNION { ToSet(talk[p]) : p \in DOMAIN talk })
  BY <1>2 DEF HistoryIds, FileIds, CommentIds, Stamps, Rows
<1>5. (UNION { ToSet(talk[p]) : p \in DOMAIN talk }) \subseteq 1..comment
  OBVIOUS
<1>6. Bounded(now)
  BY <1>1, <1>2, <1>3, <1>4, <1>5 DEF Bounded
<1>7. GraphOK(now)
  BY <1>2, <1>6 DEF GraphOK, LooseOK
<1> QED BY <1>7 DEF now

\* What a graph says of one of its issues.
LEMMA IssueOf ==
  ASSUME NEW g, GraphOK(g), NEW k \in DOMAIN g.issue
  PROVE  /\ g \in LooseGraph /\ g.issue[k] \in StoredIssue /\ k \in Nat \ {0}
         /\ \A row : [g.issue EXCEPT ![k] = row] = Extended(g.issue, k, row)
         /\ g.hist \in Nat /\ g.comment \in Nat /\ g.attach \in Nat /\ g.clock \in Nat
         /\ IdsOf(g.issue[k].history) \subseteq 1..g.hist
         /\ IdsOf(g.issue[k].comments) \subseteq 1..g.comment
         /\ IdsOf(g.issue[k].files) \subseteq 1..g.attach
         /\ g.issue[k].updated \in 1..g.clock
<1>1. g \in LooseGraph /\ Bounded(g)
  BY DEF GraphOK, LooseOK
<1>2. /\ g.issue \in Table(StoredIssue) /\ g.hist \in Nat /\ g.comment \in Nat /\ g.attach \in Nat
      /\ g.clock \in Nat
  BY <1>1 DEF LooseGraph
<1>3. g.issue[k] \in StoredIssue /\ k \in Nat \ {0}
  BY <1>2, TableIs
<1>4. ASSUME NEW row PROVE [g.issue EXCEPT ![k] = row] = Extended(g.issue, k, row)
  <2>1. DOMAIN g.issue \cup {k} = DOMAIN g.issue
    OBVIOUS
  <2>2. g.issue = [x \in DOMAIN g.issue |-> g.issue[x]]
    BY <1>2, TableIs
  <2> QED BY <2>1, <2>2 DEF Extended
<1>5. g.issue[k] \in Rows(g)
  BY DEF Rows
<1>6. /\ IdsOf(g.issue[k].history) \subseteq HistoryIds(g)
      /\ IdsOf(g.issue[k].comments) \subseteq CommentIds(g)
      /\ IdsOf(g.issue[k].files) \subseteq FileIds(g)
      /\ g.issue[k].updated \in Stamps(g)
  BY <1>5 DEF HistoryIds, CommentIds, FileIds, Stamps
<1> QED BY <1>1, <1>2, <1>3, <1>4, <1>6 DEF Bounded

LEMMA FileIssueOK ==
  ASSUME GraphOK(graph), FileIssue
  PROVE  GraphOK(graph')
<1> DEFINE k == Cardinality(DOMAIN graph.issue) + 1
           row == [status |-> Initial, history |-> <<>>, updated |-> graph.clock + 1, sprint |-> FALSE,
                   comments |-> <<>>, files |-> <<>>]
           issues == Extended(graph.issue, k, row)
           tick == graph.clock + 1
<1>1. /\ graph \in LooseGraph /\ graph.issue \in Table(StoredIssue)
      /\ graph.hist \in Nat /\ graph.comment \in Nat /\ graph.attach \in Nat /\ graph.clock \in Nat
  BY DEF GraphOK, LooseOK, LooseGraph
<1>2. k \in Nat \ {0}
  <2>1. IsFiniteSet(DOMAIN graph.issue)
    BY <1>1, TableIs
  <2>2. Cardinality(DOMAIN graph.issue) \in Nat
    BY <2>1, FS_CardinalityType
  <2> QED BY <2>2
<1>3. row \in StoredIssue
  <2>1. Initial \in ToSet(StatusById)
    BY SnapshotAssumption
  <2> QED BY <1>1, <2>1, EmptySeq DEF StoredIssue
<1>4. row.updated = tick /\ row.history = <<>> /\ row.comments = <<>> /\ row.files = <<>>
  OBVIOUS
<1>5. graph' = [[graph EXCEPT !.issue = issues] EXCEPT !.clock = graph.clock + 1]
  BY <1>1 DEF FileIssue, Write, LooseGraph
<1> HIDE DEF issues
<1>6. graph' = IssueWrite(graph, issues, graph.hist, graph.comment, graph.attach)
  BY <1>1, <1>5 DEF LooseGraph, IssueWrite
<1> HIDE DEF k, row
<1>7. IdsOf(<<>>) = {}
  BY DEF IdsOf
<1>8. /\ IdsOf(row.history) \subseteq 1..graph.hist /\ IdsOf(row.comments) \subseteq 1..graph.comment
      /\ IdsOf(row.files) \subseteq 1..graph.attach
      /\ graph.hist <= graph.hist /\ graph.comment <= graph.comment /\ graph.attach <= graph.attach
  BY <1>1, <1>4, <1>7
<1> DEFINE now == graph'
<1> HIDE DEF now
<1>9. GraphOK(IssueWrite(graph, issues, graph.hist, graph.comment, graph.attach))
  BY <1>1, <1>2, <1>3, <1>4, <1>8, IssueWritten DEF issues
<1>10. GraphOK(now)
  BY <1>6, <1>9 DEF now
<1> QED BY <1>10 DEF now

\* An issue gets one entry more of its changelog.
LEMMA HistoryGrows ==
  ASSUME NEW g, GraphOK(g), NEW k \in DOMAIN g.issue, NEW entry \in StoredHistory, entry.id = g.hist + 1,
         NEW row \in StoredIssue, row.updated = g.clock + 1,
         row.history = Append(g.issue[k].history, entry),
         row.comments = g.issue[k].comments, row.files = g.issue[k].files
  PROVE  GraphOK(IssueWrite(g, Extended(g.issue, k, row), g.hist + 1, g.comment, g.attach))
<1> DEFINE was == g.issue[k]
<1>1. /\ g \in LooseGraph /\ was \in StoredIssue /\ k \in Nat \ {0}
      /\ g.hist \in Nat /\ g.comment \in Nat /\ g.attach \in Nat /\ g.clock \in Nat
      /\ IdsOf(was.history) \subseteq 1..g.hist /\ IdsOf(was.comments) \subseteq 1..g.comment
      /\ IdsOf(was.files) \subseteq 1..g.attach
  BY IssueOf
<1>2. row.history = Append(was.history, entry) /\ row.comments = was.comments /\ row.files = was.files
  OBVIOUS
<1> HIDE DEF was
<1>3. was.history \in Seq(StoredHistory)
  BY <1>1 DEF StoredIssue
<1>4. IdsOf(row.history) = IdsOf(was.history) \cup {g.hist + 1}
  BY <1>2, <1>3, IdsAppended
<1>5. IdsOf(row.history) \subseteq 1..(g.hist + 1)
  BY <1>1, <1>4
<1>6. g.hist + 1 \in Nat /\ g.hist <= g.hist + 1 /\ g.comment <= g.comment /\ g.attach <= g.attach
  BY <1>1
<1>7. IdsOf(row.comments) \subseteq 1..g.comment /\ IdsOf(row.files) \subseteq 1..g.attach
  BY <1>1, <1>2
<1> QED BY <1>1, <1>5, <1>6, <1>7, IssueWritten

LEMMA ChangeStatusOK ==
  ASSUME GraphOK(graph), NEW k, NEW to \in ToSet(StatusById), ChangeStatus(k, to)
  PROVE  GraphOK(graph')
<1> DEFINE was == graph.issue[k]
           entry == StatusRow(graph.hist + 1, was.status, to)
           row == [[was EXCEPT !.status = to, !.history = Append(was.history, entry)]
                     EXCEPT !.updated = graph.clock + 1]
           issues == Extended(graph.issue, k, row)
           now == graph'
<1>1. k \in DOMAIN graph.issue
  BY DEF ChangeStatus
<1>2. /\ graph \in LooseGraph /\ was \in StoredIssue /\ graph.hist \in Nat /\ graph.clock \in Nat
      /\ [graph.issue EXCEPT ![k] = row] = Extended(graph.issue, k, row)
  BY <1>1, IssueOf
<1>3. entry \in StoredHistory /\ entry.id = graph.hist + 1
  <2>1. was.status \in FieldValue /\ to \in FieldValue /\ "status" \in FieldValue
    <3>1. was.status \in ToSet(StatusById)
      BY <1>2 DEF StoredIssue
    <3> QED BY <3>1 DEF FieldValue
  <2>2. graph.hist + 1 \in Nat \ {0}
    BY <1>2
  <2> QED BY <2>1, <2>2 DEF StatusRow, HistoryRow, StoredHistory
<1>4. graph' = [[graph EXCEPT !.hist = graph.hist + 1, !.issue = [graph.issue EXCEPT ![k] = row]]
                  EXCEPT !.clock = graph.clock + 1]
  <2>1. graph' = [[graph EXCEPT !.hist = graph.hist + 1, !.issue[k] = row] EXCEPT !.clock = @ + 1]
    BY DEF ChangeStatus, Write, Stamped
  <2> HIDE DEF row
  <2> QED BY <1>2, <2>1 DEF LooseGraph
<1>5. graph' = IssueWrite(graph, issues, graph.hist + 1, graph.comment, graph.attach)
  <2> HIDE DEF row
  <2> QED BY <1>2, <1>4 DEF LooseGraph, IssueWrite
<1> HIDE DEF entry
<1>6. /\ row \in StoredIssue /\ row.updated = graph.clock + 1 /\ row.history = Append(was.history, entry)
      /\ row.comments = was.comments /\ row.files = was.files
  <2> DEFINE history == Append(was.history, entry)
             tick == graph.clock + 1
  <2>1. was.history \in Seq(StoredHistory)
    BY <1>2 DEF StoredIssue
  <2>2. history \in Seq(StoredHistory) /\ tick \in Nat \ {0}
    BY <1>2, <1>3, <2>1
  <2>3. row = [was EXCEPT !.status = to, !.history = history, !.updated = tick]
    BY <1>2 DEF StoredIssue
  <2> HIDE DEF history, row, tick, was
  <2>4. /\ row \in StoredIssue /\ row.updated = tick /\ row.history = history
        /\ row.comments = was.comments /\ row.files = was.files
    BY <1>2, <2>2, <2>3 DEF StoredIssue
  <2> QED BY <2>4 DEF history, tick
<1> HIDE DEF row, now
<1>7. GraphOK(IssueWrite(graph, issues, graph.hist + 1, graph.comment, graph.attach))
  BY <1>1, <1>3, <1>6, HistoryGrows
<1>8. GraphOK(now)
  BY <1>5, <1>7 DEF now
<1> QED BY <1>8 DEF now

LEMMA EnterSprintOK ==
  ASSUME GraphOK(graph), NEW k, EnterSprint(k)
  PROVE  GraphOK(graph')
<1> DEFINE was == graph.issue[k]
           entry == HistoryRow(graph.hist + 1, "sprint", "", "s")
           row == [[was EXCEPT !.sprint = TRUE, !.history = Append(was.history, entry)]
                     EXCEPT !.updated = graph.clock + 1]
           issues == Extended(graph.issue, k, row)
           now == graph'
<1>1. k \in DOMAIN graph.issue
  BY DEF EnterSprint
<1>2. /\ graph \in LooseGraph /\ was \in StoredIssue /\ graph.hist \in Nat /\ graph.clock \in Nat
      /\ [graph.issue EXCEPT ![k] = row] = Extended(graph.issue, k, row)
  BY <1>1, IssueOf
<1>3. entry \in StoredHistory /\ entry.id = graph.hist + 1
  <2> DEFINE id == graph.hist + 1
  <2>1. "sprint" \in FieldValue /\ "" \in FieldValue /\ "s" \in FieldValue
    BY Zenon DEF FieldValue
  <2>2. id \in Nat \ {0}
    BY <1>2
  <2>3. ASSUME NEW n \in Nat \ {0}, NEW field \in FieldValue, NEW from \in FieldValue, NEW to \in FieldValue
        PROVE  HistoryRow(n, field, from, to) \in StoredHistory /\ HistoryRow(n, field, from, to).id = n
    BY DEF HistoryRow, StoredHistory
  <2> HIDE DEF id
  <2>4. HistoryRow(id, "sprint", "", "s") \in StoredHistory /\ HistoryRow(id, "sprint", "", "s").id = id
    BY <2>1, <2>2, <2>3, Zenon
  <2> QED BY <2>4 DEF id
<1> HIDE DEF entry
<1>4. graph' = [[graph EXCEPT !.hist = graph.hist + 1, !.issue = [graph.issue EXCEPT ![k] = row]]
                  EXCEPT !.clock = graph.clock + 1]
  <2>1. graph' = [[graph EXCEPT !.hist = graph.hist + 1, !.issue[k] = row] EXCEPT !.clock = @ + 1]
    BY Zenon DEF EnterSprint, Write, Stamped, entry
  <2> HIDE DEF row
  <2> QED BY <1>2, <2>1 DEF LooseGraph
<1>5. graph' = IssueWrite(graph, issues, graph.hist + 1, graph.comment, graph.attach)
  <2> HIDE DEF row
  <2> QED BY <1>2, <1>4 DEF LooseGraph, IssueWrite
<1>6. /\ row \in StoredIssue /\ row.updated = graph.clock + 1 /\ row.history = Append(was.history, entry)
      /\ row.comments = was.comments /\ row.files = was.files
  <2> DEFINE history == Append(was.history, entry)
             tick == graph.clock + 1
  <2>1. was.history \in Seq(StoredHistory)
    BY <1>2 DEF StoredIssue
  <2>2. history \in Seq(StoredHistory) /\ tick \in Nat \ {0}
    BY <1>2, <1>3, <2>1
  <2>3. row = [was EXCEPT !.sprint = TRUE, !.history = history, !.updated = tick]
    BY <1>2 DEF StoredIssue
  <2> HIDE DEF history, row, tick, was
  <2>4. /\ row \in StoredIssue /\ row.updated = tick /\ row.history = history
        /\ row.comments = was.comments /\ row.files = was.files
    BY <1>2, <2>2, <2>3 DEF StoredIssue
  <2> QED BY <2>4 DEF history, tick
<1> HIDE DEF row, now
<1>7. GraphOK(IssueWrite(graph, issues, graph.hist + 1, graph.comment, graph.attach))
  BY <1>1, <1>3, <1>6, HistoryGrows
<1>8. GraphOK(now)
  BY <1>5, <1>7 DEF now
<1> QED BY <1>8 DEF now

LEMMA CommentIssueOK ==
  ASSUME GraphOK(graph), NEW k, NEW jsd \in {"unset", "public", "hidden"}, CommentIssue(k, jsd)
  PROVE  GraphOK(graph')
<1> DEFINE was == graph.issue[k]
           entry == [id |-> graph.comment + 1, jsd |-> jsd]
           row == [[was EXCEPT !.comments = Append(was.comments, entry)] EXCEPT !.updated = graph.clock + 1]
           issues == Extended(graph.issue, k, row)
           top == graph.comment + 1
           now == graph'
<1>1. k \in DOMAIN graph.issue
  BY DEF CommentIssue
<1>2. /\ graph \in LooseGraph /\ was \in StoredIssue /\ k \in Nat \ {0}
      /\ graph.hist \in Nat /\ graph.comment \in Nat /\ graph.attach \in Nat /\ graph.clock \in Nat
      /\ [graph.issue EXCEPT ![k] = row] = Extended(graph.issue, k, row)
      /\ IdsOf(was.history) \subseteq 1..graph.hist /\ IdsOf(was.comments) \subseteq 1..graph.comment
      /\ IdsOf(was.files) \subseteq 1..graph.attach
  BY <1>1, IssueOf
<1>3. entry \in StoredComment /\ entry.id = top
  BY <1>2 DEF StoredComment
<1>4. graph' = [[graph EXCEPT !.comment = top, !.issue = [graph.issue EXCEPT ![k] = row]]
                  EXCEPT !.clock = graph.clock + 1]
  <2>1. graph' = [[graph EXCEPT !.comment = graph.comment + 1, !.issue[k] = row] EXCEPT !.clock = @ + 1]
    BY DEF CommentIssue, Write, Stamped
  <2> HIDE DEF row
  <2> QED BY <1>2, <2>1 DEF LooseGraph
<1>5. graph' = IssueWrite(graph, issues, graph.hist, top, graph.attach)
  <2> HIDE DEF row, top
  <2> QED BY <1>2, <1>4 DEF LooseGraph, IssueWrite
<1> HIDE DEF entry, top
<1>6. /\ row \in StoredIssue /\ row.updated = graph.clock + 1 /\ row.history = was.history
      /\ IdsOf(row.comments) = IdsOf(was.comments) \cup {top} /\ row.files = was.files
  <2> DEFINE comments == Append(was.comments, entry)
             tick == graph.clock + 1
  <2>1. was.comments \in Seq(StoredComment)
    BY <1>2 DEF StoredIssue
  <2>2. comments \in Seq(StoredComment) /\ tick \in Nat \ {0} /\ IdsOf(comments) = IdsOf(was.comments) \cup {top}
    BY <1>2, <1>3, <2>1, IdsAppended
  <2>3. row = [was EXCEPT !.comments = comments, !.updated = tick]
    BY <1>2 DEF StoredIssue
  <2> HIDE DEF comments, row, tick, was
  <2>4. /\ row \in StoredIssue /\ row.updated = tick /\ row.history = was.history
        /\ row.comments = comments /\ row.files = was.files
    BY <1>2, <2>2, <2>3 DEF StoredIssue
  <2> QED BY <2>2, <2>4 DEF tick
<1>7. /\ top \in Nat /\ graph.comment <= top /\ 1..graph.comment \subseteq 1..top /\ top \in 1..top
      /\ graph.hist <= graph.hist /\ graph.attach <= graph.attach
  BY <1>2 DEF top
<1>8. /\ IdsOf(row.history) \subseteq 1..graph.hist /\ IdsOf(row.comments) \subseteq 1..top
      /\ IdsOf(row.files) \subseteq 1..graph.attach
  <2> HIDE DEF row
  <2> QED BY <1>2, <1>6, <1>7
<1> HIDE DEF row, now
<1>9. GraphOK(IssueWrite(graph, issues, graph.hist, top, graph.attach))
  BY <1>2, <1>6, <1>7, <1>8, IssueWritten
<1>10. GraphOK(now)
  BY <1>5, <1>9 DEF now
<1> QED BY <1>10 DEF now

LEMMA AttachFileOK ==
  ASSUME GraphOK(graph), NEW k, NEW body \in FileBody, AttachFile(k, body)
  PROVE  GraphOK(graph')
<1> DEFINE was == graph.issue[k]
           entry == [id |-> graph.attach + 1, body |-> body]
           row == [[was EXCEPT !.files = Append(was.files, entry)] EXCEPT !.updated = graph.clock + 1]
           issues == Extended(graph.issue, k, row)
           top == graph.attach + 1
           now == graph'
<1>1. k \in DOMAIN graph.issue
  BY DEF AttachFile
<1>2. /\ graph \in LooseGraph /\ was \in StoredIssue /\ k \in Nat \ {0}
      /\ graph.hist \in Nat /\ graph.comment \in Nat /\ graph.attach \in Nat /\ graph.clock \in Nat
      /\ [graph.issue EXCEPT ![k] = row] = Extended(graph.issue, k, row)
      /\ IdsOf(was.history) \subseteq 1..graph.hist /\ IdsOf(was.comments) \subseteq 1..graph.comment
      /\ IdsOf(was.files) \subseteq 1..graph.attach
  BY <1>1, IssueOf
<1>3. entry \in StoredFile /\ entry.id = top
  <2>2. top \in Nat \ {0}
    BY <1>2
  <2>3. ASSUME NEW n \in Nat \ {0}, NEW b \in FileBody
        PROVE  [id |-> n, body |-> b] \in StoredFile /\ [id |-> n, body |-> b].id = n
    BY DEF StoredFile
  <2> HIDE DEF top
  <2>4. [id |-> top, body |-> body] \in StoredFile /\ [id |-> top, body |-> body].id = top
    BY <2>2, <2>3, Zenon
  <2> QED BY <2>4 DEF top
<1>4. graph' = [[graph EXCEPT !.attach = top, !.issue = [graph.issue EXCEPT ![k] = row]]
                  EXCEPT !.clock = graph.clock + 1]
  <2>1. graph' = [[graph EXCEPT !.attach = graph.attach + 1, !.issue[k] = row] EXCEPT !.clock = @ + 1]
    BY DEF AttachFile, Write, Stamped
  <2> HIDE DEF row
  <2> QED BY <1>2, <2>1 DEF LooseGraph
<1>5. graph' = IssueWrite(graph, issues, graph.hist, graph.comment, top)
  <2> HIDE DEF row, top
  <2> QED BY <1>2, <1>4 DEF LooseGraph, IssueWrite
<1> HIDE DEF entry, top
<1>6. /\ row \in StoredIssue /\ row.updated = graph.clock + 1 /\ row.history = was.history
      /\ IdsOf(row.files) = IdsOf(was.files) \cup {top} /\ row.comments = was.comments
  <2> DEFINE bodies == Append(was.files, entry)
             tick == graph.clock + 1
  <2>1. was.files \in Seq(StoredFile)
    BY <1>2 DEF StoredIssue
  <2>2. bodies \in Seq(StoredFile) /\ tick \in Nat \ {0} /\ IdsOf(bodies) = IdsOf(was.files) \cup {top}
    BY <1>2, <1>3, <2>1, IdsAppended
  <2>3. row = [was EXCEPT !.files = bodies, !.updated = tick]
    BY <1>2 DEF StoredIssue
  <2> HIDE DEF bodies, row, tick, was
  <2>4. /\ row \in StoredIssue /\ row.updated = tick /\ row.history = was.history
        /\ row.files = bodies /\ row.comments = was.comments
    BY <1>2, <2>2, <2>3 DEF StoredIssue
  <2> QED BY <2>2, <2>4 DEF tick
<1>7. /\ top \in Nat /\ graph.attach <= top /\ 1..graph.attach \subseteq 1..top /\ top \in 1..top
      /\ graph.hist <= graph.hist /\ graph.comment <= graph.comment
  BY <1>2 DEF top
<1>8. /\ IdsOf(row.history) \subseteq 1..graph.hist /\ IdsOf(row.files) \subseteq 1..top
      /\ IdsOf(row.comments) \subseteq 1..graph.comment
  <2> HIDE DEF row
  <2> QED BY <1>2, <1>6, <1>7
<1> HIDE DEF row, now
<1>9. GraphOK(IssueWrite(graph, issues, graph.hist, graph.comment, top))
  BY <1>2, <1>6, <1>7, <1>8, IssueWritten
<1>10. GraphOK(now)
  BY <1>5, <1>9 DEF now
<1> QED BY <1>10 DEF now

LEMMA WritePageOK ==
  ASSUME GraphOK(graph), WritePage
  PROVE  GraphOK(graph')
<1> DEFINE now == graph'
<1>1. /\ graph \in LooseGraph /\ graph.page \in Table(StoredVersions) /\ graph.talk \in Table(StoredTalk)
      /\ graph.comment \in Nat /\ graph.clock \in Nat /\ DOMAIN graph.talk \subseteq DOMAIN graph.page
      /\ Bounded(graph)
  BY DEF GraphOK, LooseOK, LooseGraph
<1>2. \A p \in DOMAIN graph.talk : ToSet(graph.talk[p]) \subseteq 1..graph.comment
  BY <1>1 DEF Bounded, CommentIds
<1>3. ASSUME NEW row \in StoredVersions, NEW pages, pages = Extended(graph.page, 1, row),
             graph' = PageWrite(graph, pages, graph.talk, graph.comment)
      PROVE  GraphOK(graph')
  <2>1. pages \in Table(StoredVersions) /\ DOMAIN pages = DOMAIN graph.page \cup {1}
    <3> DEFINE f == graph.page
    <3>1. f \in Table(StoredVersions) /\ 1 \in Nat \ {0}
      BY <1>1
    <3> HIDE DEF f
    <3>2. Extended(f, 1, row) \in Table(StoredVersions)
      BY <3>1, TableExtended
    <3>3. DOMAIN Extended(f, 1, row) = DOMAIN f \cup {1}
      BY DEF Extended
    <3> QED BY <1>3, <3>2, <3>3 DEF f
  <2>2. DOMAIN graph.talk \subseteq DOMAIN pages /\ graph.comment <= graph.comment
    BY <1>1, <2>1
  <2>3. GraphOK(PageWrite(graph, pages, graph.talk, graph.comment))
    BY <1>1, <1>2, <2>1, <2>2, PageWritten
  <2> HIDE DEF now
  <2>4. GraphOK(now)
    BY <1>3, <2>3 DEF now
  <2> QED BY <2>4 DEF now
<1>4. CASE /\ graph.page = << >>
           /\ Write([graph EXCEPT !.page = Extended(@, 1, [version |-> 1, versions |-> <<1>>])])
  <2> DEFINE row == [version |-> 1, versions |-> <<1>>]
             pages == Extended(graph.page, 1, row)
  <2>1. row \in StoredVersions
    <3>1. <<1>> \in Seq(Nat \ {0}) /\ <<1>> # <<>> /\ Len(<<1>>) = 1 /\ <<1>>[1] = 1 /\ DOMAIN <<1>> = {1}
      OBVIOUS
    <3>2. NeverFalls(<<1>>)
      BY <3>1 DEF NeverFalls
    <3> QED BY <3>1, <3>2 DEF StoredVersions
  <2> HIDE DEF row
  <2>2. graph' = [[graph EXCEPT !.page = pages] EXCEPT !.clock = @ + 1]
    BY <1>4 DEF Write, row
  <2> HIDE DEF pages
  <2>3. graph' = PageWrite(graph, pages, graph.talk, graph.comment)
    BY <1>1, <2>2 DEF LooseGraph, PageWrite
  <2> QED BY <1>3, <2>1, <2>3 DEF pages
<1>5. CASE /\ 1 \in DOMAIN graph.page
           /\ Write([graph EXCEPT !.page[1] = [version |-> @.version + 1, versions |-> Append(@.versions, @.version + 1)]])
  <2> DEFINE was == graph.page[1]
             v == was.version + 1
             list == was.versions
             row == [version |-> v, versions |-> Append(list, v)]
             pages == Extended(graph.page, 1, row)
  <2>1. was \in StoredVersions /\ graph.page = [p \in DOMAIN graph.page |-> graph.page[p]]
    BY <1>1, <1>5, TableIs
  <2>2. row \in StoredVersions
    <3>1. /\ list \in Seq(Nat \ {0}) /\ list # <<>> /\ NeverFalls(list)
          /\ was.version \in Nat \ {0} /\ list[Len(list)] <= was.version
      BY <2>1 DEF StoredVersions
    <3>2. v \in Nat \ {0} /\ was.version <= v
      BY <3>1
    <3> DEFINE before == was.version
               c == Len(list)
               next == Append(list, v)
    <3> HIDE DEF v, list, before
    <3>3. /\ c \in Nat /\ c # 0 /\ DOMAIN list = 1..c /\ \A n \in 1..c : list[n] \in Nat
          /\ next \in Seq(Nat \ {0}) /\ next # <<>> /\ Len(next) = c + 1 /\ DOMAIN next = 1..(c + 1)
          /\ next[c + 1] = v /\ \A n \in 1..c : next[n] = list[n]
      BY <3>1, <3>2, EmptySeq
    <3>4. list[c] <= before
      BY <3>1 DEF before
    <3>5. before \in Nat /\ before <= v /\ v \in Nat
      BY <3>1, <3>2 DEF before
    <3> HIDE DEF next, c
    <3>6. \A n \in 1..c : list[n] <= v
      <4>1. c \in 1..c /\ list[c] \in Nat
        BY <3>3
      <4>2. list[c] <= v
        BY <3>4, <3>5, <4>1
      <4>3. ASSUME NEW n \in 1..c PROVE list[n] <= v
        <5>1. list[n] \in Nat /\ (n = c \/ n < c)
          BY <3>3
        <5>2. list[n] <= list[c]
          <6>1. CASE n = c
            BY <4>1, <6>1
          <6>2. CASE n < c
            BY <3>1, <3>3, <4>1, <6>2 DEF NeverFalls
          <6> QED BY <5>1, <6>1, <6>2
        <5> QED BY <3>5, <4>1, <4>2, <5>1, <5>2
      <4> QED BY <4>3
    <3>7. NeverFalls(next)
      <4>1. ASSUME NEW m \in 1..(c + 1), NEW n \in 1..(c + 1), m < n PROVE next[m] <= next[n]
        <5>1. m \in 1..c
          BY <3>3, <4>1
        <5>2. CASE n = c + 1
          BY <3>3, <3>6, <5>1, <5>2
        <5>3. CASE n # c + 1
          <6>1. n \in 1..c
            BY <3>3, <5>3
          <6> QED BY <3>1, <3>3, <4>1, <5>1, <6>1 DEF NeverFalls
        <5> QED BY <5>2, <5>3
      <4> QED BY <3>3, <4>1 DEF NeverFalls
    <3>8. next[Len(next)] <= v
      BY <3>3, <3>5
    <3>9. row = [version |-> v, versions |-> next]
      BY DEF next
    <3> HIDE DEF row
    <3> QED BY <3>2, <3>3, <3>7, <3>8, <3>9 DEF StoredVersions
  <2>3. graph' = [[graph EXCEPT !.page = [graph.page EXCEPT ![1] = row]] EXCEPT !.clock = @ + 1]
    BY <1>5 DEF Write
  <2> HIDE DEF row
  <2>4. pages = [graph.page EXCEPT ![1] = row]
    <3>1. DOMAIN graph.page \cup {1} = DOMAIN graph.page
      BY <1>5
    <3> QED BY <2>1, <3>1 DEF Extended
  <2> HIDE DEF pages
  <2>5. graph' = PageWrite(graph, pages, graph.talk, graph.comment)
    BY <1>1, <2>3, <2>4 DEF LooseGraph, PageWrite
  <2> QED BY <1>3, <2>2, <2>5 DEF pages
<1> QED BY <1>4, <1>5 DEF WritePage

LEMMA CommentPageOK ==
  ASSUME GraphOK(graph), CommentPage
  PROVE  GraphOK(graph')
<1> DEFINE now == graph'
           top == graph.comment + 1
           was == TalkOf(graph, 1)
           all == was \o <<top>>
           talk == Extended(graph.talk, 1, all)
<1>1. /\ graph \in LooseGraph /\ graph.page \in Table(StoredVersions) /\ graph.talk \in Table(StoredTalk)
      /\ graph.comment \in Nat /\ graph.clock \in Nat /\ DOMAIN graph.talk \subseteq DOMAIN graph.page
      /\ Bounded(graph)
  BY DEF GraphOK, LooseOK, LooseGraph
<1>2. \A p \in DOMAIN graph.talk : graph.talk[p] \in StoredTalk /\ ToSet(graph.talk[p]) \subseteq 1..graph.comment
  BY <1>1, TableIs DEF Bounded, CommentIds
<1>3. was \in StoredTalk /\ ToSet(was) \subseteq 1..graph.comment
  <2>1. <<>> \in StoredTalk /\ ToSet(<<>>) = {}
    BY EmptySeq DEF StoredTalk, ToSet
  <2> QED BY <1>2, <2>1 DEF TalkOf
<1>4. graph' = PageWrite(graph, graph.page, talk, top)
  <2>1. graph' = [[graph EXCEPT !.comment = top, !.talk = talk] EXCEPT !.clock = @ + 1]
    BY DEF CommentPage, Write, TalkOf
  <2> HIDE DEF talk, top
  <2> QED BY <1>1, <2>1 DEF LooseGraph, PageWrite
<1>5. /\ top \in Nat \ {0} /\ top \in Nat /\ graph.comment <= top /\ 1..graph.comment \subseteq 1..top
      /\ top \in 1..top
  BY <1>1
<1> HIDE DEF top, was
<1>6. all \in StoredTalk /\ ToSet(all) \subseteq 1..top
  <2> DEFINE c == Len(was)
  <2>1. /\ c \in Nat /\ DOMAIN was = 1..c /\ all \in StoredTalk /\ DOMAIN all = 1..(c + 1)
        /\ \A n \in 1..c : all[n] = was[n] /\ all[c + 1] = top
    BY <1>3, <1>5 DEF StoredTalk
  <2>2. all[c + 1] = top
    BY <1>3, <1>5 DEF StoredTalk
  <2>3. \A n \in 1..c : was[n] \in 1..top
    BY <1>3, <1>5, <2>1 DEF ToSet
  <2> HIDE DEF c, all
  <2>4. \A n \in 1..(c + 1) : all[n] \in 1..top
    <3>1. \A n \in 1..(c + 1) : n \in 1..c \/ n = c + 1
      BY <2>1
    <3> QED BY <1>5, <2>1, <2>2, <2>3, <3>1
  <2> QED BY <2>1, <2>4 DEF ToSet
<1> HIDE DEF all
<1>7. /\ talk \in Table(StoredTalk) /\ DOMAIN talk = DOMAIN graph.talk \cup {1}
      /\ \A p \in DOMAIN talk : ToSet(talk[p]) \subseteq 1..top
  <2> DEFINE f == graph.talk
  <2>1. f \in Table(StoredTalk) /\ 1 \in Nat \ {0}
    BY <1>1
  <2>2. \A p \in DOMAIN f : ToSet(f[p]) \subseteq 1..top
    BY <1>2, <1>5
  <2> HIDE DEF f
  <2>3. Extended(f, 1, all) \in Table(StoredTalk)
    BY <1>6, <2>1, TableExtended
  <2>4. /\ DOMAIN Extended(f, 1, all) = DOMAIN f \cup {1}
        /\ \A p \in DOMAIN f \cup {1} : Extended(f, 1, all)[p] = IF p = 1 THEN all ELSE f[p]
    BY DEF Extended
  <2>5. \A p \in DOMAIN Extended(f, 1, all) : ToSet(Extended(f, 1, all)[p]) \subseteq 1..top
    BY <1>6, <2>2, <2>4
  <2> QED BY <2>3, <2>4, <2>5 DEF f
<1>8. DOMAIN talk \subseteq DOMAIN graph.page
  BY <1>1, <1>7 DEF CommentPage
<1> HIDE DEF talk, now
<1>9. GraphOK(PageWrite(graph, graph.page, talk, top))
  BY <1>1, <1>5, <1>7, <1>8, PageWritten
<1>10. GraphOK(now)
  BY <1>4, <1>9 DEF now
<1> QED BY <1>10 DEF now

-----------------------------------------------------------------------------
(* The invariant and its theorems.                                         *)

\* The document that is kept is that of a graph, and it comes back.
SnapshotInv ==
  /\ GraphOK(graph) /\ loaded \in {"lived", "fresh", "live"}
  /\ doc = NoDoc \/ (LooseOK(saved) /\ doc = SnapshotOf(saved))
  /\ RoundTrip

LEMMA SnapshotInvInitially == SnapshotInit => SnapshotInv
<1> SUFFICES ASSUME SnapshotInit PROVE SnapshotInv
  OBVIOUS
<1>1. NoDoc \in Document
  <2>1. /\ <<>> \in Seq(IssueDoc) /\ <<>> \in Seq(PageDoc)
    BY EmptySeq
  <2> QED BY <2>1 DEF NoDoc, Document
<1>2. PICK d \in Authored \cup {NoDoc} : graph = Apply(Empty, d)
  BY DEF SnapshotInit
<1>3. d \in Document
  BY <1>1, SnapshotAssumption
<1>4. GraphOK(Apply(Empty, d))
  BY <1>3, EmptyOK, ApplyOK
<1>5. doc = NoDoc /\ loaded = "lived"
  BY DEF SnapshotInit
<1>6. RoundTrip
  BY <1>5 DEF RoundTrip
<1> QED BY <1>2, <1>4, <1>5, <1>6 DEF SnapshotInv

\* A load of the document that is kept brings back the graph it was written from.
LEMMA LoadRoundTrips ==
  ASSUME SnapshotInv, Load
  PROVE  SnapshotInv'
<1>1. /\ GraphOK(graph) /\ LooseOK(saved) /\ doc = SnapshotOf(saved) /\ doc' = doc /\ saved' = saved
  BY DEF SnapshotInv, Load
<1>2. LooseOK(graph) /\ LooseOK(Empty) /\ doc \in Document
  BY <1>1, EmptyOK, DocumentOf DEF GraphOK
<1> DEFINE now == graph'
<1>3. ASSUME NEW g, LooseOK(g), graph' = Apply(g, doc)
      PROVE  /\ GraphOK(now)
             /\ \A k \in DOMAIN saved.issue : k \in DOMAIN now.issue /\ IssueComesBack(saved.issue[k], now.issue[k])
             /\ \A p \in DOMAIN saved.page : p \in DOMAIN now.page /\ now.page[p] = saved.page[p]
  <2>0. now = Apply(g, doc)
    BY <1>3
  <2> HIDE DEF now
  <2>1. GraphOK(now)
    BY <1>2, <1>3, <2>0, ApplyOK
  <2>2. now = Apply(g, SnapshotOf(saved))
    BY <1>1, <2>0
  <2> QED BY <1>1, <1>3, <2>1, <2>2, AllThere
<1>4. CASE graph' = Apply(graph, doc) /\ loaded' = "live"
  <2>1. /\ GraphOK(now)
        /\ \A k \in DOMAIN saved.issue : k \in DOMAIN now.issue /\ IssueComesBack(saved.issue[k], now.issue[k])
        /\ \A p \in DOMAIN saved.page : p \in DOMAIN now.page /\ now.page[p] = saved.page[p]
    BY <1>2, <1>3, <1>4
  <2>2. loaded' # "fresh"
    BY <1>4
  <2>3. RoundTrip'
    BY <1>1, <2>1, <2>2 DEF RoundTrip
  <2> QED BY <1>1, <1>4, <2>1, <2>3 DEF SnapshotInv
<1>5. CASE graph' = Apply(Empty, doc) /\ loaded' = "fresh"
  <2>1. /\ GraphOK(now)
        /\ \A k \in DOMAIN saved.issue : k \in DOMAIN now.issue /\ IssueComesBack(saved.issue[k], now.issue[k])
        /\ \A p \in DOMAIN saved.page : p \in DOMAIN now.page /\ now.page[p] = saved.page[p]
    BY <1>2, <1>3, <1>5
  <2>2. Restored(saved, now)
    <3>1. now = Apply(Empty, SnapshotOf(saved))
      BY <1>1, <1>5
    <3> HIDE DEF now
    <3> QED BY <1>1, <3>1, FreshIsRestored
  <2>3. Apply(Empty, SnapshotOf(now)) = now
    <3> HIDE DEF now
    <3> QED BY <1>1, <2>2, RestoredTwice
  <2>4. DOMAIN now.issue = DOMAIN saved.issue
    BY <2>2 DEF Restored
  <2>5. \A p \in DOMAIN saved.talk : now.talk[p] = saved.talk[p]
    BY <1>1, <2>2 DEF Restored, TalkOf, LooseOK
  <2>6. saved.home # 0 => now.home = saved.home
    BY <2>2 DEF Restored
  <2>7. RoundTrip'
    BY <1>1, <2>1, <2>3, <2>4, <2>5, <2>6 DEF RoundTrip
  <2> QED BY <1>1, <1>5, <2>1, <2>7 DEF SnapshotInv
<1> QED BY <1>4, <1>5 DEF Load

LEMMA SnapshotInvSteps == SnapshotInv /\ [SnapshotNext]_snapshotVars => SnapshotInv'
<1> SUFFICES ASSUME SnapshotInv, [SnapshotNext]_snapshotVars PROVE SnapshotInv'
  OBVIOUS
<1>1. GraphOK(graph) /\ (doc = NoDoc \/ (LooseOK(saved) /\ doc = SnapshotOf(saved)))
  BY DEF SnapshotInv
<1>2. ASSUME GraphOK(graph'), loaded' = "lived", doc' = doc, saved' = saved PROVE SnapshotInv'
  <2>1. RoundTrip'
    BY <1>2 DEF RoundTrip
  <2> QED BY <1>1, <1>2, <2>1 DEF SnapshotInv
<1>3. CASE FileIssue
  BY <1>1, <1>2, <1>3, FileIssueOK DEF FileIssue, Write
<1>4. ASSUME NEW k \in {1, 2}, NEW to \in ToSet(StatusById), ChangeStatus(k, to) PROVE SnapshotInv'
  BY <1>1, <1>2, <1>4, ChangeStatusOK DEF ChangeStatus, Write
<1>5. ASSUME NEW k \in {1, 2}, EnterSprint(k) PROVE SnapshotInv'
  <2>1. loaded' = "lived" /\ doc' = doc /\ saved' = saved
    BY <1>5, Zenon DEF EnterSprint, Write
  <2> QED BY <1>1, <1>2, <1>5, <2>1, EnterSprintOK
<1>6. ASSUME NEW k \in {1, 2}, NEW jsd \in {"unset", "public", "hidden"}, CommentIssue(k, jsd) PROVE SnapshotInv'
  BY <1>1, <1>2, <1>6, CommentIssueOK DEF CommentIssue, Write
<1>7. ASSUME NEW k \in {1, 2}, NEW body \in FileBody, AttachFile(k, body) PROVE SnapshotInv'
  BY <1>1, <1>2, <1>7, AttachFileOK DEF AttachFile, Write
<1>8. CASE WritePage
  BY <1>1, <1>2, <1>8, WritePageOK DEF WritePage, Write
<1>9. CASE CommentPage
  BY <1>1, <1>2, <1>9, CommentPageOK DEF CommentPage, Write
<1>10. CASE Save
  <2>1. /\ loaded = "lived" /\ loaded' = loaded /\ graph' = graph /\ saved' = graph /\ doc' = SnapshotOf(graph)
    BY <1>10 DEF Save
  <2>2. RoundTrip'
    BY <2>1 DEF RoundTrip
  <2>3. SnapshotOf(graph)' = SnapshotOf(graph')
    OBVIOUS
  <2> QED BY <1>1, <2>1, <2>2 DEF SnapshotInv, GraphOK
<1>11. CASE Load
  BY <1>11, LoadRoundTrips
<1>12. CASE UNCHANGED snapshotVars
  BY <1>12 DEF snapshotVars, SnapshotInv, RoundTrip
<1>13. \A body \in {"", "text", "binary"} : body \in FileBody
  BY Zenon DEF FileBody
<1>14. SnapshotNext =>
         \/ FileIssue \/ WritePage \/ CommentPage \/ Save \/ Load
         \/ \E k \in {1, 2} : \/ \E to \in ToSet(StatusById) : ChangeStatus(k, to)
                              \/ EnterSprint(k)
                              \/ \E jsd \in {"unset", "public", "hidden"} : CommentIssue(k, jsd)
                              \/ \E body \in FileBody : AttachFile(k, body)
  BY <1>13, Zenon DEF SnapshotNext
<1> QED BY <1>3, <1>4, <1>5, <1>6, <1>7, <1>8, <1>9, <1>10, <1>11, <1>12, <1>14

LEMMA SnapshotTypeOKHolds == ASSUME SnapshotInv PROVE SnapshotTypeOK
<1>1. GraphOK(graph) /\ loaded \in {"lived", "fresh", "live"}
  BY DEF SnapshotInv
<1>2. ASSUME NEW k \in DOMAIN graph.issue
      PROVE  /\ graph.issue[k].status \in ToSet(StatusById)
             /\ graph.issue[k].updated \in 1..graph.clock
             /\ IdsOf(graph.issue[k].history) \subseteq 1..graph.hist
             /\ IdsOf(graph.issue[k].comments) \subseteq 1..graph.comment
             /\ IdsOf(graph.issue[k].files) \subseteq 1..graph.attach
  <2>1. /\ graph.issue[k] \in StoredIssue
        /\ IdsOf(graph.issue[k].history) \subseteq 1..graph.hist
        /\ IdsOf(graph.issue[k].comments) \subseteq 1..graph.comment
        /\ IdsOf(graph.issue[k].files) \subseteq 1..graph.attach
        /\ graph.issue[k].updated \in 1..graph.clock
    BY <1>1, IssueOf
  <2> QED BY <2>1 DEF StoredIssue
<1>3. \A p \in DOMAIN graph.talk : ToSet(graph.talk[p]) \subseteq 1..graph.comment
  BY <1>1 DEF GraphOK, Bounded, CommentIds
<1> QED BY <1>1, <1>2, <1>3 DEF SnapshotTypeOK

\* SnapshotTypeOK always holds: what Apply and the requests leave is a graph whose counters
\* and clock are past every id and stamp in it.
THEOREM SnapshotTypesCorrect == SnapshotSpec => []SnapshotTypeOK
<1>1. SnapshotInv => SnapshotTypeOK
  BY SnapshotTypeOKHolds
<1> QED BY <1>1, SnapshotInvInitially, SnapshotInvSteps, PTL DEF SnapshotSpec

\* RoundTrip always holds: the document of any graph that documents and requests can make
\* brings its issues, pages and page comments back, by a start or into a live server, and a
\* graph that came of a document comes back from its own as it is.
THEOREM DocumentsRoundTrip == SnapshotSpec => []RoundTrip
<1>1. SnapshotInv => RoundTrip
  BY DEF SnapshotInv
<1> QED BY <1>1, SnapshotInvInitially, SnapshotInvSteps, PTL DEF SnapshotSpec

-----------------------------------------------------------------------------
(* The whole store: what of it MCContent exercises together.               *)

\* A step of the whole is one of each part, or leaves the part alone.
LEMMA StepsOfParts ==
  ASSUME [MCNext]_mcVars
  PROVE  /\ [GraphNext]_graphVars /\ [PagesNext]_pagesVars
         /\ [UploadsNext]_uploadVars /\ [SnapshotNext]_snapshotVars
<1>1. GraphStep => GraphNext
  <2>1. CreateIssue("", NoParent) => ParentStep
    BY Zenon DEF ParentStep
  <2> QED BY <2>1, Zenon DEF GraphStep, GraphNext
<1>2. CASE UNCHANGED mcVars
  BY <1>2, Zenon DEF mcVars
<1>3. CASE MCNext
  BY <1>1, <1>3, Zenon DEF MCNext
<1> QED BY <1>2, <1>3

\* A behaviour of the whole is one of each of its parts.
LEMMA BehavesAsParts == MCSpec => GraphSpec /\ PagesSpec /\ UploadsSpec /\ SnapshotSpec
<1>1. MCInit => GraphInit /\ PagesInit /\ UploadsInit /\ SnapshotInit
  BY DEF MCInit
<1>2. [MCNext]_mcVars => [GraphNext]_graphVars
  BY StepsOfParts
<1>3. [MCNext]_mcVars => [PagesNext]_pagesVars
  BY StepsOfParts
<1>4. [MCNext]_mcVars => [UploadsNext]_uploadVars
  BY StepsOfParts
<1>5. [MCNext]_mcVars => [SnapshotNext]_snapshotVars
  BY StepsOfParts
<1> QED BY <1>1, <1>2, <1>3, <1>4, <1>5, PTL DEF MCSpec, GraphSpec, PagesSpec, UploadsSpec, SnapshotSpec

\* TypeOK always holds of the store whose parts take turns.
THEOREM ContentTypesCorrect == MCSpec => []TypeOK
<1>1. GraphTypeOK /\ PagesTypeOK /\ UploadsTypeOK /\ SnapshotTypeOK => TypeOK
  BY DEF TypeOK
<1> QED BY <1>1, BehavesAsParts, GraphTypesCorrect, PageTypesCorrect, UploadTypesCorrect,
           SnapshotTypesCorrect, PTL
=============================================================================
