------------------------------- MODULE PagedWalk -------------------------------
(***************************************************************************)
(* Why a walk by offsets through an answer that is computed afresh for     *)
(* each page can be trusted at all: an issue that nobody touches keeps     *)
(* its place or moves back, never forward, so the walk meets it.  What may *)
(* break that - an issue that leaves the answer, an order that sends a     *)
(* written issue past those behind it, a page served from elsewhere -      *)
(* spoils the walk.                                                        *)
(***************************************************************************)
EXTENDS Functions, FiniteNats

CONSTANT Item

VARIABLES
  answer,    \* the items in their order, as they would be answered now
  offset,    \* where the walker asks its next page from
  got,       \* the items it has received
  state,     \* "walking", "done" or "refused"
  held,      \* the page on its way to it
  base,      \* the items there were when the walk began
  touched,   \* the items written since
  spoilt     \* whether the walk has been spoilt

vars == <<answer, offset, got, state, held, base, touched, spoilt>>

Page == [items : SUBSET Item, next : Nat, last : BOOLEAN]
NoPage == [items |-> {}, next |-> 0, last |-> FALSE]

Items(seq) == { seq[n] : n \in DOMAIN seq }

\* Item y comes before x.
Ahead(seq, y, x) == \E m, n \in DOMAIN seq : m < n /\ seq[m] = y /\ seq[n] = x

IsAnswer(seq) == seq \in Seq(Item) /\ IsInjective(seq)

Init ==
  /\ IsAnswer(answer)
  /\ offset = 0 /\ got = {} /\ state = "walking" /\ held = NoPage
  /\ base = Items(answer) /\ touched = {}
  /\ spoilt \in BOOLEAN

\* The next n items there are from offset on.
Serve(n) ==
  /\ n = 0 \/ offset + n <= Len(answer)
  /\ held' = [items |-> { answer[i] : i \in (offset + 1)..(offset + n) },
              next |-> offset + n, last |-> offset + n >= Len(answer)]
  /\ UNCHANGED <<offset, got, state, base, touched, spoilt, answer>>

\* Another page, or none.
Spoil ==
  /\ spoilt' = TRUE /\ held' \in Page
  /\ UNCHANGED <<offset, got, state, base, touched, answer>>

Receive ==
  /\ state = "walking" /\ held # NoPage
  /\ got' = got \cup held.items /\ offset' = held.next
  /\ state' = IF held.last THEN "done" ELSE "walking"
  /\ held' = NoPage
  /\ UNCHANGED <<base, touched, spoilt, answer>>

\* The page is lost on its way, and the walker will ask for it again.
Lose == held' = NoPage /\ UNCHANGED <<offset, got, state, base, touched, spoilt, answer>>

\* The walker gives up on a refusal.
Refuse ==
  /\ state = "walking" /\ state' = "refused" /\ held' = NoPage
  /\ UNCHANGED <<answer, offset, got, base, touched, spoilt>>

\* Nothing that was before x comes to be behind it.
StaysBehind(x, old, new) == \A y \in Item : Ahead(old, y, x) => Ahead(new, y, x)

\* One item is written.
Write(k) ==
  /\ touched' = touched \cup {k}
  /\ UNCHANGED <<offset, got, state, held, base>>
  /\ spoilt' \in BOOLEAN /\ (spoilt => spoilt')
  /\ IsAnswer(answer')
  /\ ~spoilt' => \A x \in Items(answer) \ touched' :
                   x \in Items(answer') /\ StaysBehind(x, answer, answer')

Next ==
  \/ Receive \/ Lose \/ Refuse \/ Spoil
  \/ \E n \in 0..Len(answer) : Serve(n)
  \/ \E k \in Item : Write(k)

Spec == Init /\ [][Next]_vars

\* A walk that is not spoilt misses no item that was there when it began and that nobody
\* touched.
MissesNothing == state = "done" /\ ~spoilt => base \ touched \subseteq got
-----------------------------------------------------------------------------
(* A walk misses nothing.                                                   *)

\* Whoever nobody touched and the walker does not have yet is still in front of it.
Waiting(had) == (base \ touched) \ had
InFront(place, had) == \A n \in DOMAIN answer : answer[n] \in Waiting(had) => n > place

HeldOK ==
  held # NoPage => /\ InFront(held.next, got \cup held.items)
                   /\ held.last => Waiting(got \cup held.items) = {}

WalkTypes ==
  /\ IsAnswer(answer) /\ offset \in Nat /\ held \in Page /\ base \subseteq Item
  /\ spoilt \in BOOLEAN

Unspoilt ==
  /\ base \ touched \subseteq Items(answer)
  /\ InFront(offset, got)
  /\ HeldOK
  /\ state = "done" => Waiting(got) = {}

WalkInv == WalkTypes /\ (~spoilt => Unspoilt)

LEMMA AnswerIs ==
  ASSUME NEW seq, IsAnswer(seq)
  PROVE  /\ seq \in Seq(Item) /\ DOMAIN seq = 1..Len(seq) /\ Len(seq) \in Nat
         /\ \A m, n \in DOMAIN seq : seq[m] = seq[n] => m = n
BY DEF IsAnswer, IsInjective

\* Who is before the n-th item: the first n - 1.
LEMMA AheadAreFirst ==
  ASSUME NEW seq, IsAnswer(seq), NEW n \in DOMAIN seq
  PROVE  /\ { y \in Item : Ahead(seq, y, seq[n]) } = FirstOf(seq, n - 1)
         /\ IsFiniteSet(FirstOf(seq, n - 1)) /\ Cardinality(FirstOf(seq, n - 1)) = n - 1
<1>1. /\ seq \in Seq(Item) /\ DOMAIN seq = 1..Len(seq) /\ Len(seq) \in Nat
      /\ \A i, j \in DOMAIN seq : seq[i] = seq[j] => i = j
  BY AnswerIs
<1>2. n - 1 \in 0..Len(seq)
  BY <1>1
<1>3. IsFiniteSet(FirstOf(seq, n - 1)) /\ Cardinality(FirstOf(seq, n - 1)) = n - 1
  BY <1>1, <1>2, FirstOnes
<1>4. ASSUME NEW y \in Item
      PROVE  Ahead(seq, y, seq[n]) <=> y \in FirstOf(seq, n - 1)
  <2>1. ASSUME Ahead(seq, y, seq[n]) PROVE y \in FirstOf(seq, n - 1)
    <3>1. PICK i, j \in DOMAIN seq : i < j /\ seq[i] = y /\ seq[j] = seq[n]
      BY <2>1 DEF Ahead
    <3>2. j = n
      BY <1>1, <3>1
    <3>3. i \in 1..(n - 1)
      BY <1>1, <3>1, <3>2
    <3> QED BY <3>1, <3>3 DEF FirstOf
  <2>2. ASSUME y \in FirstOf(seq, n - 1) PROVE Ahead(seq, y, seq[n])
    <3>1. PICK i \in 1..(n - 1) : seq[i] = y
      BY <2>2 DEF FirstOf
    <3>2. i \in DOMAIN seq /\ i < n
      BY <1>1
    <3> QED BY <3>1, <3>2 DEF Ahead
  <2> QED BY <2>1, <2>2
<1>5. FirstOf(seq, n - 1) \subseteq Item
  <2> SUFFICES ASSUME NEW i \in 1..(n - 1) PROVE seq[i] \in Item
    BY DEF FirstOf
  <2>1. i \in 1..Len(seq)
    BY <1>1
  <2> QED BY <1>1, <2>1
<1> QED BY <1>3, <1>4, <1>5

\* An item that nothing overtakes backwards does not come forward.
LEMMA MovesBack ==
  ASSUME NEW a, IsAnswer(a), NEW b, IsAnswer(b), NEW n \in DOMAIN a, NEW m \in DOMAIN b,
         a[n] = b[m], StaysBehind(a[n], a, b)
  PROVE  n <= m
<1> DEFINE A == FirstOf(a, n - 1)
           B == FirstOf(b, m - 1)
<1>1. A = { y \in Item : Ahead(a, y, a[n]) } /\ B = { y \in Item : Ahead(b, y, a[n]) }
  BY AheadAreFirst
<1>2. A \subseteq B
  BY <1>1 DEF StaysBehind
<1>3. /\ IsFiniteSet(A) /\ Cardinality(A) = n - 1
      /\ IsFiniteSet(B) /\ Cardinality(B) = m - 1
  BY AheadAreFirst
<1> HIDE DEF A, B
<1>4. Cardinality(A) <= Cardinality(B)
  BY <1>2, <1>3, FS_Subset
<1>5. n \in Nat /\ m \in Nat
  BY AnswerIs
<1> QED BY <1>3, <1>4, <1>5

LEMMA WalkInitially == Init => WalkInv
<1> SUFFICES ASSUME Init PROVE WalkInv
  OBVIOUS
<1>1. \A n \in DOMAIN answer : n > 0 /\ answer[n] \in Item
  BY AnswerIs DEF Init
<1>2. base \subseteq Item
  BY <1>1 DEF Init, Items
<1>3. NoPage \in Page
  BY DEF Page, NoPage
<1>4. Unspoilt
  BY <1>1 DEF Init, Unspoilt, InFront, HeldOK
<1> QED BY <1>2, <1>3, <1>4 DEF Init, WalkInv, WalkTypes

LEMMA ServeSteps ==
  ASSUME WalkInv, NEW n \in 0..Len(answer), Serve(n)
  PROVE  WalkInv'
<1> DEFINE page == { answer[i] : i \in (offset + 1)..(offset + n) }
<1>1. /\ held' = [items |-> page, next |-> offset + n, last |-> offset + n >= Len(answer)]
      /\ UNCHANGED <<offset, got, state, base, touched, spoilt, answer>>
      /\ n = 0 \/ offset + n <= Len(answer)
  BY DEF Serve
<1>2. /\ answer \in Seq(Item) /\ DOMAIN answer = 1..Len(answer) /\ Len(answer) \in Nat
      /\ offset \in Nat /\ n \in Nat
  BY AnswerIs DEF WalkInv, WalkTypes
<1>3. page \subseteq Item
  <2> SUFFICES ASSUME NEW i \in (offset + 1)..(offset + n) PROVE answer[i] \in Item
    OBVIOUS
  <2>1. i \in 1..Len(answer)
    BY <1>1, <1>2
  <2> QED BY <1>2, <2>1
<1>4. held'.items = page /\ held'.next = offset + n /\ held'.last = (offset + n >= Len(answer))
  BY <1>1
<1>5. WalkTypes'
  BY <1>1, <1>2, <1>3 DEF WalkInv, WalkTypes, Page
<1>6. ASSUME ~spoilt PROVE Unspoilt'
  <2>1. ASSUME NEW m \in DOMAIN answer, answer[m] \in Waiting(got \cup page)
        PROVE  m > offset + n
    <3>1. m > offset
      BY <1>6, <2>1 DEF WalkInv, Unspoilt, InFront, Waiting
    <3>2. m \notin (offset + 1)..(offset + n)
      BY <2>1 DEF Waiting
    <3> QED BY <3>1, <3>2, <1>2, <2>1
  <2>2. ASSUME offset + n >= Len(answer), NEW x \in Waiting(got \cup page)
        PROVE  FALSE
    <3>1. PICK m \in DOMAIN answer : answer[m] = x
      BY <1>6, <2>2 DEF WalkInv, Unspoilt, Items, Waiting
    <3>2. m > offset + n
      BY <2>1, <2>2, <3>1
    <3> QED BY <3>1, <3>2, <2>2, <1>2
  <2> HIDE DEF page
  <2>3. HeldOK'
    BY <1>1, <1>4, <2>1, <2>2 DEF HeldOK, InFront, Waiting
  <2> QED BY <1>1, <1>6, <2>3 DEF WalkInv, Unspoilt, InFront, Waiting
<1> QED BY <1>1, <1>5, <1>6 DEF WalkInv

LEMMA ReceiveSteps ==
  ASSUME WalkInv, Receive
  PROVE  WalkInv'
<1>1. /\ got' = got \cup held.items /\ offset' = held.next /\ held # NoPage /\ held' = NoPage
      /\ state' = IF held.last THEN "done" ELSE "walking"
      /\ UNCHANGED <<base, touched, spoilt, answer>>
  BY DEF Receive
<1>2. WalkTypes'
  BY <1>1 DEF WalkInv, WalkTypes, Page, NoPage
<1>3. ASSUME ~spoilt PROVE Unspoilt'
  BY <1>1, <1>3 DEF WalkInv, Unspoilt, InFront, Waiting, HeldOK
<1> QED BY <1>1, <1>2, <1>3 DEF WalkInv

\* Whoever is untouched after a write was so before, and is no nearer now.
LEMMA WriteSteps ==
  ASSUME WalkInv, NEW k \in Item, Write(k)
  PROVE  WalkInv'
<1>1. /\ touched' = touched \cup {k} /\ UNCHANGED <<offset, got, state, held, base>>
      /\ spoilt' \in BOOLEAN /\ (spoilt => spoilt') /\ IsAnswer(answer')
  BY DEF Write
<1>2. WalkTypes'
  BY <1>1 DEF WalkInv, WalkTypes
<1>3. ASSUME ~spoilt' PROVE Unspoilt'
  <2>1. Unspoilt /\ IsAnswer(answer)
    BY <1>1, <1>3 DEF WalkInv, WalkTypes
  <2>2. ASSUME NEW x \in base \ touched'
        PROVE  /\ x \in Items(answer) /\ x \in Items(answer') /\ StaysBehind(x, answer, answer')
               /\ x \in base \ touched
    BY <1>1, <1>3, <2>1, <2>2 DEF Write, Unspoilt
  <2>3. ASSUME NEW place \in Nat, NEW had, InFront(place, had)
        PROVE  InFront(place, had)'
    <3> SUFFICES ASSUME NEW m \in DOMAIN answer', answer'[m] \in Waiting(had)'
                 PROVE  m > place
      BY <1>1 DEF InFront
    <3>1. answer'[m] \in base \ touched' /\ answer'[m] \notin had
      BY <1>1 DEF Waiting
    <3>2. PICK n \in DOMAIN answer : answer[n] = answer'[m]
      BY <2>2, <3>1 DEF Items
    <3>3. n > place
      BY <2>2, <2>3, <3>1, <3>2 DEF InFront, Waiting
    <3>4. n <= m
      BY <1>1, <2>1, <2>2, <3>1, <3>2, MovesBack
    <3>5. n \in Nat /\ m \in Nat
      BY <1>1, <2>1, AnswerIs
    <3> QED BY <3>3, <3>4, <3>5
  <2> QED BY <1>1, <2>1, <2>2, <2>3 DEF Unspoilt, HeldOK, Waiting, WalkInv, WalkTypes, Page
<1> QED BY <1>2, <1>3 DEF WalkInv

LEMMA WalkSteps == WalkInv /\ [Next]_vars => WalkInv'
<1> SUFFICES ASSUME WalkInv, [Next]_vars PROVE WalkInv'
  OBVIOUS
<1>1. ASSUME NEW n \in 0..Len(answer), Serve(n) PROVE WalkInv'
  BY <1>1, ServeSteps
<1>2. CASE Spoil
  BY <1>2 DEF Spoil, WalkInv, WalkTypes
<1>3. CASE Receive
  BY <1>3, ReceiveSteps
<1>4. CASE Lose
  <2>1. NoPage \in Page
    BY DEF NoPage, Page
  <2> QED BY <1>4, <2>1 DEF Lose, WalkInv, WalkTypes, Unspoilt, HeldOK, InFront, Waiting
<1>5. CASE Refuse
  <2>1. NoPage \in Page
    BY DEF NoPage, Page
  <2> QED BY <1>5, <2>1 DEF Refuse, WalkInv, WalkTypes, Unspoilt, HeldOK, InFront, Waiting
<1>6. ASSUME NEW k \in Item, Write(k) PROVE WalkInv'
  BY <1>6, WriteSteps
<1>7. CASE UNCHANGED vars
  BY <1>7 DEF vars, WalkInv, WalkTypes, Unspoilt, HeldOK, InFront, Waiting
<1> QED BY <1>1, <1>2, <1>3, <1>4, <1>5, <1>6, <1>7 DEF Next

\* Whatever the pages' sizes, however often a page is lost and asked again, and however many
\* writes there are, a walk misses nothing that nobody touched as long as nothing spoils it
\* (jira.go: postSearchJQL, legacySearch; Search refines this walk).
THEOREM PagedWalksMissNothing == Spec => []MissesNothing
<1>1. WalkInv => MissesNothing
  BY DEF WalkInv, Unspoilt, Waiting, MissesNothing
<1> QED BY <1>1, WalkInitially, WalkSteps, PTL DEF Spec
=============================================================================
