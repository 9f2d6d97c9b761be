----------------------------- MODULE SprintsProofs -----------------------------
(***************************************************************************)
(* Proofs about Sprints, for any number of issues and sprints, any         *)
(* requests and any sound file: types, the changelog, membership, the      *)
(* stamps, and that Sprints implements SprintBoard.                        *)
(***************************************************************************)
EXTENDS Sprints, FiniteNats, FiniteSetTheorems, SequenceTheorems, TLAPS

-----------------------------------------------------------------------------
(* The helpers.                                                            *)

\* Leaving s out of a list gives a list without s that repeats nothing the list did not.
LEMMA WithoutIsList ==
  ASSUME NEW list \in Seq(SprintId), NEW s
  PROVE  /\ Without(list, s) \in Seq(SprintId)
         /\ \A i \in DOMAIN Without(list, s) : Without(list, s)[i] # s
         /\ IsInjective(list) => IsInjective(Without(list, s))
         /\ ToSet(Without(list, s)) \subseteq ToSet(list)
<1> DEFINE rest == {n \in DOMAIN list : list[n] # s}
           w == Picked(list, rest)
<1>1. rest \in SUBSET DOMAIN list /\ \A n \in rest : list[n] # s
  OBVIOUS
<1> HIDE DEF rest
<1>2. PICK at \in [DOMAIN w -> rest] :
        /\ \A i \in DOMAIN w : w[i] = list[at[i]]
        /\ \A i, j \in DOMAIN w : at[i] = at[j] => i = j
  BY <1>1, PickedEntries
<1>3. w \in Seq(SprintId) /\ Without(list, s) = w
  BY <1>1, PickedEntries DEF Without, rest
<1>4. \A i \in DOMAIN w : w[i] # s /\ at[i] \in DOMAIN list
  BY <1>1, <1>2
<1> HIDE DEF w
<1>5. IsInjective(list) => IsInjective(w)
  BY <1>2, <1>4 DEF IsInjective
<1>6. ToSet(w) \subseteq ToSet(list)
  BY <1>2, <1>4 DEF ToSet
<1> QED BY <1>3, <1>4, <1>5, <1>6

LEMMA CurrentOf ==
  ASSUME NEW iss \in Issue
  PROVE  /\ Current(iss) \in SprintId \cup {0}
         /\ Current(iss) = 0 <=> iss.members = << >>
         /\ ChangeRef(Current(iss)) \in SprintId \cup {NoRef}
BY SprintsAssumption DEF Current, Issue, Last, ChangeRef

\* What is kept of an issue through every handler.
Sound(iss) == Replays(iss) /\ IsInjective(iss.members)

\* A changelog row from the present sprint to the next one extends the chain.
LEMMA ChainedRow ==
  ASSUME NEW iss \in Issue, Replays(iss),
         NEW members \in Seq(SprintId), NEW t \in Nat,
         NEW to \in SprintId \cup {NoRef},
         to = (IF members = << >> THEN NoRef ELSE Last(members))
  PROVE  LET new == Logged(iss, members, to, t)
         IN  new \in Issue /\ Replays(new) /\ new.members = members /\ new.updated = t
             /\ new.done = iss.done
<1> DEFINE row == [from |-> ChangeRef(Current(iss)), to |-> to]
           h == iss.history
           new == Logged(iss, members, to, t)
<1>1. row \in SprintRow /\ h \in Seq(SprintRow)
  BY CurrentOf DEF SprintRow, Issue
<1>2. /\ new \in Issue /\ new.members = members /\ new.updated = t /\ new.done = iss.done
      /\ new.history = Append(h, row)
  <2>1. Append(h, row) \in Seq(SprintRow)
    BY <1>1
  <2> HIDE DEF row, h
  <2>2. new = [iss EXCEPT !.members = members, !.updated = t, !.history = Append(h, row)]
    BY DEF Logged, h, row
  <2> QED BY <2>1, <2>2 DEF Issue
<1>3. /\ Append(h, row) \in Seq(SprintRow) /\ Len(Append(h, row)) = Len(h) + 1
      /\ Append(h, row)[Len(h) + 1] = row
      /\ \A i \in 1..Len(h) : Append(h, row)[i] = h[i]
  BY <1>1
<1>4. ASSUME NEW i \in 1..(Len(h) + 1)
      PROVE  Append(h, row)[i].from = IF i = 1 THEN NoRef ELSE Append(h, row)[i - 1].to
  <2>1. CASE i \in 1..Len(h)
    BY <1>1, <1>3, <2>1 DEF Replays
  <2>2. CASE i = Len(h) + 1 /\ h = << >>
    <3>1. ChangeRef(Current(iss)) = NoRef
      BY <2>2, CurrentOf DEF Replays, ChangeRef
    <3> QED BY <3>1, <2>2, <1>3
  <2>3. CASE i = Len(h) + 1 /\ h # << >>
    <3>1. Len(h) \in Nat \ {0}
      BY <2>3, <1>1, EmptySeq
    <3> QED BY <3>1, <2>3, <1>3 DEF Replays, Last
  <2> QED BY <2>1, <2>2, <2>3, <1>1
<1>5. Last(Append(h, row)).to = ChangeRef(Current(new))
  <2>1. Current(new) = IF members = << >> THEN 0 ELSE Last(members)
    BY <1>2 DEF Current
  <2>2. members # << >> => Last(members) # 0
    BY SprintsAssumption DEF Last
  <2> QED BY <2>1, <2>2, <1>1, <1>3 DEF Last, ChangeRef
<1>6. Append(h, row) # << >>
  BY <1>1
<1>7. Replays(new)
  <2> HIDE DEF new
  <2>1. DOMAIN Append(h, row) = 1..(Len(h) + 1)
    BY <1>1
  <2> HIDE DEF row, h
  <2> QED BY <2>1, <1>2, <1>4, <1>5, <1>6 DEF Replays
<1> QED BY <1>2, <1>7

LEMMA ClearedIsSound ==
  ASSUME NEW iss \in Issue, Sound(iss), NEW t \in Nat
  PROVE  /\ Cleared(iss, t) \in Issue /\ Sound(Cleared(iss, t))
         /\ Current(Cleared(iss, t)) = 0
         /\ Cleared(iss, t).updated = t /\ Cleared(iss, t).done = iss.done
         /\ Cleared(iss, t).members = << >>
<1>1. << >> \in Seq(SprintId) /\ IsInjective(<< >>)
  BY DEF IsInjective
<1>2. QED
  <2>1. /\ Cleared(iss, t) \in Issue /\ Replays(Cleared(iss, t))
        /\ Cleared(iss, t).members = << >>
        /\ Cleared(iss, t).updated = t /\ Cleared(iss, t).done = iss.done
    <3> DEFINE none == << >>
    <3>1. NoRef = (IF none = << >> THEN NoRef ELSE Last(none)) /\ none \in Seq(SprintId)
      BY <1>1
    <3> HIDE DEF none
    <3>2. LET new == Logged(iss, none, NoRef, t)
          IN  new \in Issue /\ Replays(new) /\ new.members = none /\ new.updated = t
              /\ new.done = iss.done
      BY <3>1, ChainedRow DEF Sound
    <3> QED BY <3>2 DEF Cleared, none
  <2> QED BY <2>1, <1>1 DEF Sound, Current

LEMMA MovedIsSound ==
  ASSUME NEW iss \in Issue, Sound(iss), NEW t \in Nat, NEW s \in SprintId
  PROVE  /\ Moved(iss, s, t) \in Issue /\ Sound(Moved(iss, s, t))
         /\ Current(Moved(iss, s, t)) = s
         /\ Moved(iss, s, t).updated = t /\ Moved(iss, s, t).done = iss.done
         /\ ToSet(Moved(iss, s, t).members) \subseteq ToSet(iss.members) \cup {s}
<1> DEFINE w == Without(iss.members, s)
           m == Append(w, s)
<1>1. /\ w \in Seq(SprintId) /\ IsInjective(w) /\ \A i \in DOMAIN w : w[i] # s
      /\ ToSet(w) \subseteq ToSet(iss.members)
  BY WithoutIsList DEF Issue, Sound
<1> HIDE DEF w
<1>2. /\ m \in Seq(SprintId) /\ Len(m) = Len(w) + 1 /\ m[Len(w) + 1] = s
      /\ \A i \in 1..Len(w) : m[i] = w[i]
  BY <1>1
<1>3. m # << >> /\ Last(m) = s
  BY <1>1, <1>2 DEF Last
<1>4. IsInjective(m) /\ ToSet(m) \subseteq ToSet(iss.members) \cup {s}
  <2>1. DOMAIN m = 1..(Len(w) + 1) /\ DOMAIN w = 1..Len(w) /\ Len(w) \in Nat
    BY <1>1, <1>2
  <2>2. IsInjective(m)
    BY <2>1, <1>1, <1>2 DEF IsInjective
  <2>3. \A i \in DOMAIN m : m[i] \in ToSet(w) \cup {s}
    BY <2>1, <1>2 DEF ToSet
  <2> QED BY <2>2, <2>3, <1>1 DEF ToSet
<1>5. Moved(iss, s, t) = Logged(iss, m, s, t)
  BY DEF Moved, w
<1> HIDE DEF m
<1>6. /\ Moved(iss, s, t) \in Issue /\ Replays(Moved(iss, s, t))
      /\ Moved(iss, s, t).members = m
      /\ Moved(iss, s, t).updated = t /\ Moved(iss, s, t).done = iss.done
  BY <1>2, <1>3, <1>5, ChainedRow DEF Sound
<1> QED BY <1>3, <1>4, <1>6 DEF Sound, Current

LEMMA ResolvedRows ==
  ASSUME issueRows \in [Rank -> Issue], NEW keys \in Seq(Rank)
  PROVE  /\ Resolved(keys) \in Seq(Copy)
         /\ \A i \in DOMAIN Resolved(keys) : Resolved(keys)[i].row = issueRows[Resolved(keys)[i].key]
<1>1. \A i \in DOMAIN keys : Resolved(keys)[i] \in Copy /\ Resolved(keys)[i].row = issueRows[Resolved(keys)[i].key]
  BY DEF Resolved, Copy
<1>2. DOMAIN keys = 1..Len(keys) /\ Len(keys) \in Nat
  BY LenProperties
<1>3. Resolved(keys) = [i \in 1..Len(keys) |-> Resolved(keys)[i]]
  BY <1>2 DEF Resolved
<1>4. QED
  BY <1>1, <1>2, <1>3, IsASeq

LEMMA AllIssuesRows ==
  ASSUME issueRows \in [Rank -> Issue]
  PROVE  /\ AllIssues \in Seq(Copy)
         /\ \A i \in DOMAIN AllIssues : AllIssues[i].row = issueRows[AllIssues[i].key]
         /\ \A k \in Rank : k \in DOMAIN AllIssues /\ AllIssues[k].key = k
<1>1. [k \in Rank |-> k] \in Seq(Rank)
  BY IsASeq, SprintsAssumption DEF Rank
<1>2. QED
  BY <1>1, ResolvedRows DEF AllIssues, Resolved, Rank

\* The clock a process starts with is not before any row.
LEMMA SeededPast ==
  ASSUME issueRows \in [Rank -> Issue]
  PROVE  SeededClock \in Nat /\ \A k \in Rank : issueRows[k].updated <= SeededClock
<1> DEFINE stamps == {0} \cup {issueRows[k].updated : k \in Rank}
<1>1. stamps \in SUBSET Nat /\ stamps # {}
  BY DEF Issue
<1>2. IsFiniteSet(stamps)
  <2>1. IsFiniteSet(Rank)
    BY FS_Interval, SprintsAssumption DEF Rank
  <2>2. IsFiniteSet({issueRows[k].updated : k \in Rank})
    <3> DEFINE f == [k \in Rank |-> issueRows[k].updated]
               im == {issueRows[k].updated : k \in Rank}
    <3>1. f \in Surjection(Rank, im)
      BY DEF Surjection
    <3> QED BY <2>1, <3>1, FS_Surjection
  <2> QED BY <2>2, FS_Singleton, FS_Union
<1>3. \E t \in stamps : \A u \in stamps : t >= u
  <2> HIDE DEF stamps
  <2> QED BY <1>1, <1>2, GreatestExists
<1>4. \E t \in stamps : \A u \in stamps : u <= t
  BY <1>1, <1>3
<1>5. SeededClock \in stamps /\ \A u \in stamps : u <= SeededClock
  BY <1>4 DEF SeededClock
<1> QED BY <1>1, <1>5

\* What is to be done, once the next copy is done or passed over.
NextOp == [op EXCEPT !.todo = Tail(@)]

LEMMA NotIdle ==
  ASSUME NEW o, o.kind # "idle"
  PROVE  o # NoOp
BY DEF NoOp

LEMMA OpTurn ==
  ASSUME op \in Op, op # NoOp
  PROVE  /\ op.kind \in {"sweep", "move", "backlog"}
         /\ op.todo \in Seq(Copy)
         /\ op.kind \in {"sweep", "move"} => op.sprint \in SprintId
         /\ op.kind = "sweep" => op.stamp \in Nat
         /\ op.todo # << >> =>
              /\ NextOp \in Op /\ NextOp # NoOp /\ NextOp.kind = op.kind
              /\ NextOp.todo = Tail(op.todo)
              /\ op.kind \in {"sweep", "move"} => NextOp.sprint = op.sprint
<1> DEFINE sweeps == [kind: {"sweep"}, sprint: SprintId, stamp: Nat, todo: Seq(Copy)]
           moves == [kind: {"move"}, sprint: SprintId, todo: Seq(Copy)]
           backlogs == [kind: {"backlog"}, todo: Seq(Copy)]
<1>1. op \in sweeps \/ op \in moves \/ op \in backlogs
  BY DEF Op
<1>2. op.todo \in Seq(Copy) /\ op.kind \in {"sweep", "move", "backlog"}
  BY <1>1
<1>3. op.todo # << >> => Tail(op.todo) \in Seq(Copy)
  BY <1>2
<1>4. ASSUME op.todo # << >>
      PROVE  NextOp \in Op /\ NextOp # NoOp /\ NextOp.kind = op.kind /\ NextOp.todo = Tail(op.todo)
             /\ (op.kind \in {"sweep", "move"} => NextOp.sprint = op.sprint)
  <2>1. CASE op \in sweeps
    <3>1. NextOp \in sweeps /\ NextOp.kind = op.kind /\ NextOp.todo = Tail(op.todo)
          /\ NextOp.sprint = op.sprint
      BY <2>1, <1>3, <1>4 DEF NextOp
    <3> QED BY <3>1, NotIdle DEF Op
  <2>2. CASE op \in moves
    <3>1. NextOp \in moves /\ NextOp.kind = op.kind /\ NextOp.todo = Tail(op.todo)
          /\ NextOp.sprint = op.sprint
      BY <2>2, <1>3, <1>4 DEF NextOp
    <3> QED BY <3>1, NotIdle DEF Op
  <2>3. CASE op \in backlogs
    <3>1. NextOp \in backlogs /\ NextOp.kind = op.kind /\ NextOp.todo = Tail(op.todo)
      BY <2>3, <1>3, <1>4 DEF NextOp
    <3> QED BY <3>1, NotIdle, <2>3 DEF Op
  <2> QED BY <1>1, <2>1, <2>2, <2>3
<1>5. QED
  BY <1>1, <1>2, <1>4

LEMMA OpTodo ==
  ASSUME NEW o \in Op, o # NoOp
  PROVE  o.todo \in Seq(Copy)
BY DEF Op

\* The members of a list that is not empty: its head and those of its tail.
LEMMA HeadAndTail ==
  ASSUME NEW list \in Seq(Copy), list # << >>
  PROVE  /\ Head(list) \in Copy /\ Head(list) \in ToSet(list)
         /\ ToSet(list) = {Head(list)} \cup ToSet(Tail(list))
<1>1. Len(list) \in Nat \ {0} /\ Tail(list) \in Seq(Copy) /\ Len(Tail(list)) = Len(list) - 1
      /\ Head(list) = list[1]
      /\ \A i \in 1..(Len(list) - 1) : Tail(list)[i] = list[i + 1]
  BY HeadTailProperties, EmptySeq
<1>2. Head(list) \in Copy /\ Head(list) \in ToSet(list)
  BY <1>1 DEF ToSet
<1>3. ASSUME NEW i \in DOMAIN list
      PROVE  list[i] \in {Head(list)} \cup ToSet(Tail(list))
  <2>1. CASE i = 1
    BY <2>1, <1>1
  <2>2. CASE i # 1
    <3>1. i - 1 \in DOMAIN Tail(list) /\ Tail(list)[i - 1] = list[i]
      BY <2>2, <1>1
    <3> QED BY <3>1 DEF ToSet
  <2> QED BY <2>1, <2>2
<1>4. ASSUME NEW i \in DOMAIN Tail(list)
      PROVE  Tail(list)[i] \in ToSet(list)
  <2>1. i + 1 \in DOMAIN list /\ Tail(list)[i] = list[i + 1]
    BY <1>1
  <2> QED BY <2>1 DEF ToSet
<1>5. QED
  BY <1>2, <1>3, <1>4 DEF ToSet

-----------------------------------------------------------------------------
(* The invariant.                                                          *)

\* What a handler has still to write: rows whose changelog replays, of the category their
\* issue still has.
TodoSound ==
  \A c \in ToSet(op.todo) : Sound(c.row) /\ c.row.done = issueRows[c.key].done

\* A sweep has every unfinished issue of its sprint before it, as it is in the database.
SweepReaches ==
  /\ op.sprint \in DOMAIN sprints /\ sprints[op.sprint].state = "active"
  /\ \A k \in Rank : Current(issueRows[k]) = op.sprint /\ ~issueRows[k].done =>
       [key |-> k, row |-> issueRows[k]] \in ToSet(op.todo)

SprintsInv ==
  /\ SprintsTypeOK
  /\ \A k \in Rank : Sound(issueRows[k])
  /\ opened => \A k \in Rank : issueRows[k].updated <= clk
  /\ op # NoOp => opened /\ TodoSound
  /\ op.kind = "sweep" => SweepReaches
  /\ op.kind = "move" => op.sprint \in DOMAIN sprints /\ sprints[op.sprint].state # "closed"

LEMMA SprintsInvInitially == SprintsInit => SprintsInv
<1> SUFFICES ASSUME SprintsInit
             PROVE  SprintsInv
  OBVIOUS
<1>1. PICK db \in Databases : sprints = db.sprints /\ issueRows = db.issues
  BY DEF SprintsInit
<1>2. /\ issueRows \in [Rank -> Issue] /\ DOMAIN sprints \subseteq SprintId
      /\ \A s \in DOMAIN sprints : sprints[s] \in Sprint
  BY <1>1, SprintsAssumption
<1>3. SeededClock \in Nat /\ \A k \in Rank : issueRows[k].updated <= SeededClock
  BY <1>2, SeededPast
<1>4. \A k \in Rank : Sound(issueRows[k])
  BY <1>1, DatabasesAssumption DEF Sound
<1>5. op = NoOp /\ op.kind = "idle" /\ op \in Op
  BY DEF SprintsInit, NoOp, Op
<1>6. QED
  BY <1>2, <1>3, <1>4, <1>5 DEF SprintsInit, SprintsInv, SprintsTypeOK

\* A handler begins: the copies it took are the rows.
LEMMA FreshTodo ==
  ASSUME SprintsTypeOK, \A k \in Rank : Sound(issueRows[k]), NEW keys \in Seq(Rank)
  PROVE  \A c \in ToSet(Resolved(keys)) :
           c \in Copy /\ c.row = issueRows[c.key] /\ Sound(c.row) /\ c.row.done = issueRows[c.key].done
<1>1. \A i \in DOMAIN Resolved(keys) :
        Resolved(keys)[i] \in Copy /\ Resolved(keys)[i].row = issueRows[Resolved(keys)[i].key]
  BY ResolvedRows, ElementOfSeq DEF SprintsTypeOK
<1>2. QED
  BY <1>1 DEF ToSet, Copy

LEMMA AllKeys == [k \in Rank |-> k] \in Seq(Rank)
BY IsASeq, SprintsAssumption DEF Rank

\* The database is as it was and so is the handler.
LEMMA Unmoved ==
  ASSUME SprintsInv, UNCHANGED <<opened, clk, sprints, issueRows, op>>
  PROVE  SprintsInv'
BY DEF SprintsInv, SprintsTypeOK, TodoSound, SweepReaches

LEMMA BeginSteps ==
  ASSUME SprintsInv, opened, op = NoOp, UNCHANGED <<opened, sprints, issueRows>>,
         clk' \in Nat, clk' >= clk,
         op' \in Op, op' # NoOp, NEW keys \in Seq(Rank), op'.todo = Resolved(keys),
         op'.kind = "sweep" => /\ op'.sprint \in DOMAIN sprints
                               /\ sprints[op'.sprint].state = "active"
                               /\ keys = [k \in Rank |-> k],
         op'.kind = "move" => op'.sprint \in DOMAIN sprints /\ sprints[op'.sprint].state # "closed"
  PROVE  SprintsInv'
<1>1. SprintsTypeOK'
  BY DEF SprintsInv, SprintsTypeOK
<1>2. opened' => \A k \in Rank : issueRows'[k].updated <= clk'
  <2>1. \A k \in Rank : issueRows[k].updated \in Nat /\ clk \in Nat
    BY DEF SprintsInv, SprintsTypeOK, Issue
  <2> QED BY <2>1 DEF SprintsInv
<1>3. TodoSound'
  BY FreshTodo DEF SprintsInv, TodoSound
<1>4. ASSUME op'.kind = "sweep"
      PROVE  SweepReaches'
  <2>1. \A k \in Rank : k \in DOMAIN Resolved(keys) /\ Resolved(keys)[k] = [key |-> k, row |-> issueRows[k]]
    BY <1>4 DEF Resolved
  <2>2. \A k \in Rank : [key |-> k, row |-> issueRows[k]] \in ToSet(Resolved(keys))
    BY <2>1 DEF ToSet
  <2> QED BY <1>4, <2>2 DEF SweepReaches
<1>5. QED
  BY <1>1, <1>2, <1>3, <1>4 DEF SprintsInv

\* The row of the next copy once it is written.
NewRow ==
  IF op.kind = "move" THEN Moved(Head(op.todo).row, op.sprint, clk + 1)
  ELSE Cleared(Head(op.todo).row, clk + 1)

LEMMA TurnOfLoop ==
  ASSUME SprintsInv, opened, op # NoOp, op.todo # << >>
  PROVE  /\ Head(op.todo) \in Copy /\ Head(op.todo).key \in Rank
         /\ ToSet(op.todo) = {Head(op.todo)} \cup ToSet(NextOp.todo)
         /\ NextOp \in Op /\ NextOp # NoOp /\ NextOp.kind = op.kind
         /\ op.kind \in {"sweep", "move"} => NextOp.sprint = op.sprint /\ op.sprint \in SprintId
         /\ NewRow \in Issue /\ Sound(NewRow) /\ NewRow.updated = clk + 1
         /\ NewRow.done = issueRows[Head(op.todo).key].done
         /\ Current(NewRow) = IF op.kind = "move" THEN op.sprint ELSE 0
<1> DEFINE c == Head(op.todo)
<1>1. /\ op.todo \in Seq(Copy) /\ op.kind \in {"sweep", "move", "backlog"}
      /\ NextOp \in Op /\ NextOp # NoOp /\ NextOp.kind = op.kind /\ NextOp.todo = Tail(op.todo)
      /\ op.kind \in {"sweep", "move"} => NextOp.sprint = op.sprint /\ op.sprint \in SprintId
  BY OpTurn DEF SprintsInv, SprintsTypeOK
<1>2. c \in Copy /\ c \in ToSet(op.todo) /\ ToSet(op.todo) = {c} \cup ToSet(Tail(op.todo))
  BY <1>1, HeadAndTail
<1>3. Sound(c.row) /\ c.row.done = issueRows[c.key].done
  BY <1>2 DEF SprintsInv, TodoSound
<1>4. c.row \in Issue /\ c.key \in Rank /\ clk + 1 \in Nat
  BY <1>2 DEF Copy, SprintsInv, SprintsTypeOK
<1> HIDE DEF c
<1>5. CASE op.kind = "move"
  <2>1. NewRow = Moved(c.row, op.sprint, clk + 1)
    BY <1>5 DEF NewRow, c
  <2>2. /\ NewRow \in Issue /\ Sound(NewRow) /\ NewRow.updated = clk + 1
        /\ NewRow.done = c.row.done /\ Current(NewRow) = op.sprint
    BY <2>1, <1>1, <1>3, <1>4, <1>5, MovedIsSound
  <2> QED BY <2>2, <1>1, <1>2, <1>3, <1>4, <1>5 DEF c
<1>6. CASE op.kind # "move"
  <2>1. NewRow = Cleared(c.row, clk + 1)
    BY <1>6 DEF NewRow, c
  <2>2. /\ NewRow \in Issue /\ Sound(NewRow) /\ NewRow.updated = clk + 1
        /\ NewRow.done = c.row.done /\ Current(NewRow) = 0
    BY <2>1, <1>3, <1>4, ClearedIsSound
  <2> QED BY <2>2, <1>1, <1>2, <1>3, <1>4, <1>6 DEF c
<1>7. QED
  BY <1>5, <1>6

LEMMA SkipSteps ==
  ASSUME SprintsInv, SkipNext
  PROVE  SprintsInv'
<1>1. /\ opened /\ op # NoOp /\ op.todo # << >> /\ Skipped(op, Head(op.todo)) /\ op' = NextOp
      /\ UNCHANGED <<opened, clk, sprints, issueRows>>
  BY DEF SkipNext, NextOp
<1>2. /\ ToSet(op.todo) = {Head(op.todo)} \cup ToSet(op'.todo)
      /\ op' \in Op /\ op' # NoOp /\ op'.kind = op.kind
      /\ op.kind \in {"sweep", "move"} => op'.sprint = op.sprint
  BY <1>1, TurnOfLoop
<1>3. TodoSound'
  BY <1>1, <1>2 DEF SprintsInv, TodoSound
<1>4. ASSUME op.kind = "sweep"
      PROVE  SweepReaches'
  <2>1. ASSUME NEW k \in Rank, Current(issueRows[k]) = op.sprint, ~issueRows[k].done
        PROVE  [key |-> k, row |-> issueRows[k]] \in ToSet(op'.todo)
    <3>1. [key |-> k, row |-> issueRows[k]] \in ToSet(op.todo)
      BY <1>4, <2>1 DEF SprintsInv, SweepReaches
    <3>2. Head(op.todo) # [key |-> k, row |-> issueRows[k]]
      BY <1>1, <1>4, <2>1 DEF Skipped
    <3> QED BY <3>1, <3>2, <1>2
  <2>2. op.sprint \in DOMAIN sprints /\ sprints[op.sprint].state = "active"
    BY <1>4 DEF SprintsInv, SweepReaches
  <2> QED BY <1>1, <1>2, <1>4, <2>1, <2>2 DEF SweepReaches
<1>5. QED
  BY <1>1, <1>2, <1>3, <1>4 DEF SprintsInv, SprintsTypeOK

LEMMA WriteSteps ==
  ASSUME SprintsInv, WriteNext
  PROVE  SprintsInv'
<1> DEFINE j == Head(op.todo).key
<1>1. /\ opened /\ op # NoOp /\ op.todo # << >> /\ ~Skipped(op, Head(op.todo)) /\ op' = NextOp
      /\ clk' = clk + 1 /\ issueRows' = [issueRows EXCEPT ![j] = NewRow]
      /\ UNCHANGED <<opened, sprints>>
  BY DEF WriteNext, Tick, NextOp, NewRow
<1>2. /\ j \in Rank
      /\ ToSet(op.todo) = {Head(op.todo)} \cup ToSet(op'.todo)
      /\ op' \in Op /\ op' # NoOp /\ op'.kind = op.kind
      /\ op.kind \in {"sweep", "move"} => op'.sprint = op.sprint /\ op.sprint \in SprintId
      /\ NewRow \in Issue /\ Sound(NewRow) /\ NewRow.updated = clk + 1
      /\ NewRow.done = issueRows[j].done
      /\ Current(NewRow) = IF op.kind = "move" THEN op.sprint ELSE 0
  BY <1>1, TurnOfLoop
<1> HIDE DEF j
<1>3. issueRows' \in [Rank -> Issue] /\ clk' \in Nat /\ issueRows'[j] = NewRow
      /\ \A k \in Rank : k # j => issueRows'[k] = issueRows[k]
  BY <1>1, <1>2 DEF SprintsInv, SprintsTypeOK
<1>4. SprintsTypeOK'
  BY <1>1, <1>2, <1>3 DEF SprintsInv, SprintsTypeOK
<1>5. \A k \in Rank : Sound(issueRows'[k])
  BY <1>2, <1>3 DEF SprintsInv
<1>6. \A k \in Rank : issueRows'[k].updated <= clk'
  <2>1. \A k \in Rank : issueRows[k].updated \in Nat /\ clk \in Nat /\ issueRows[k].updated <= clk
    BY <1>1 DEF SprintsInv, SprintsTypeOK, Issue
  <2> QED BY <2>1, <1>1, <1>2, <1>3
<1>7. TodoSound'
  <2>1. \A c \in ToSet(op'.todo) : Sound(c.row) /\ c.row.done = issueRows[c.key].done /\ c.key \in Rank
    <3>1. op'.todo \in Seq(Copy)
      BY <1>2, OpTodo
    <3>2. \A c \in ToSet(op'.todo) : c \in Copy
      BY <3>1 DEF ToSet
    <3> QED BY <3>2, <1>1, <1>2 DEF SprintsInv, TodoSound, Copy
  <2> QED BY <2>1, <1>2, <1>3 DEF TodoSound
<1>8. ASSUME op.kind = "sweep"
      PROVE  SweepReaches'
  <2>1. ASSUME NEW k \in Rank, Current(issueRows'[k]) = op.sprint, ~issueRows'[k].done
        PROVE  [key |-> k, row |-> issueRows'[k]] \in ToSet(op'.todo)
    <3>1. k # j
      BY <1>2, <1>3, <1>8, <2>1, SprintsAssumption
    <3>2. [key |-> k, row |-> issueRows'[k]] \in ToSet(op.todo)
      BY <1>3, <1>8, <2>1, <3>1 DEF SprintsInv, SweepReaches
    <3>3. Head(op.todo) # [key |-> k, row |-> issueRows'[k]]
      BY <3>1 DEF j
    <3> QED BY <3>2, <3>3, <1>2
  <2>2. op.sprint \in DOMAIN sprints /\ sprints[op.sprint].state = "active"
    BY <1>8 DEF SprintsInv, SweepReaches
  <2> QED BY <1>1, <1>2, <1>8, <2>1, <2>2 DEF SweepReaches
<1>9. QED
  BY <1>1, <1>2, <1>4, <1>5, <1>6, <1>7, <1>8 DEF SprintsInv

LEMMA SprintsInvSteps ==
  ASSUME SprintsInv, [SprintsNext]_sprintsVars
  PROVE  SprintsInv'
<1>a. /\ SprintsTypeOK /\ clk \in Nat /\ issueRows \in [Rank -> Issue] /\ op \in Op
      /\ NoOp.kind = "idle" /\ NoOp \in Op
      /\ \A k \in Rank : Sound(issueRows[k]) /\ issueRows[k].updated \in Nat
  BY DEF SprintsInv, SprintsTypeOK, Issue, NoOp, Op
<1>1. ASSUME NEW s \in SprintId, CreateSprint(s)
      PROVE  SprintsInv'
  <2>1. [state |-> "future", activated |-> 0, completed |-> 0] \in Sprint
    BY DEF Sprint, States
  <2>2. SprintsTypeOK'
    BY <1>1, <1>a, <2>1 DEF CreateSprint, SprintsTypeOK
  <2> QED BY <1>1, <1>a, <2>2 DEF CreateSprint, Ready, SprintsInv
<1>2. ASSUME NEW s \in SprintId, StartSprint(s)
      PROVE  SprintsInv'
  <2>1. /\ s \in DOMAIN sprints /\ sprints[s] \in Sprint /\ clk' = clk + 1
        /\ sprints' = [sprints EXCEPT ![s] = [@ EXCEPT !.state = "active", !.activated = clk + 1]]
        /\ UNCHANGED <<opened, issueRows, op>> /\ opened /\ op = NoOp
    BY <1>2 DEF StartSprint, Ready, Tick, SprintsInv, SprintsTypeOK
  <2>2. [sprints[s] EXCEPT !.state = "active", !.activated = clk + 1] \in Sprint
    <3>1. clk + 1 \in Nat /\ sprints[s] \in Sprint
      BY <2>1, <1>a
    <3> QED BY <3>1 DEF Sprint, States
  <2>3. SprintsTypeOK'
    BY <2>1, <2>2, <1>a DEF SprintsTypeOK
  <2>4. \A k \in Rank : issueRows[k].updated <= clk + 1
    BY <2>1, <1>a DEF SprintsInv
  <2> QED BY <2>1, <2>3, <2>4, <1>a DEF SprintsInv
<1>3. ASSUME NEW s \in SprintId, CloseSprint(s)
      PROVE  SprintsInv'
  <2> DEFINE o == [kind |-> "sweep", sprint |-> s, stamp |-> clk + 1, todo |-> AllIssues]
  <2>1. /\ opened /\ op = NoOp /\ s \in DOMAIN sprints /\ sprints[s].state = "active"
        /\ clk' = clk + 1 /\ op' = o /\ UNCHANGED <<opened, sprints, issueRows>>
    BY <1>3 DEF CloseSprint, Ready, Tick
  <2>2. o \in Op /\ o # NoOp
    BY <1>a, AllIssuesRows, NotIdle DEF Op
  <2>3. /\ o.kind = "sweep" /\ o.sprint = s /\ o.todo = Resolved([k \in Rank |-> k])
    BY DEF AllIssues
  <2> HIDE DEF o
  <2> QED BY <2>1, <2>2, <2>3, <1>a, AllKeys, BeginSteps
<1>4. ASSUME NEW s \in SprintId, NEW keys \in KeyLists, MoveIssuesToSprint(s, keys)
      PROVE  SprintsInv'
  <2> DEFINE o == [kind |-> "move", sprint |-> s, todo |-> Resolved(keys)]
  <2>1. /\ opened /\ op = NoOp /\ s \in DOMAIN sprints /\ sprints[s].state # "closed"
        /\ op' = o /\ UNCHANGED <<opened, clk, sprints, issueRows>>
    BY <1>4 DEF MoveIssuesToSprint, Ready
  <2>2. keys \in Seq(Rank)
    BY SprintsAssumption
  <2>3. o \in Op /\ o # NoOp
    BY <2>2, <1>a, ResolvedRows, NotIdle DEF Op
  <2>4. o.kind = "move" /\ o.sprint = s /\ o.todo = Resolved(keys)
    OBVIOUS
  <2> HIDE DEF o
  <2> QED BY <2>1, <2>2, <2>3, <2>4, <1>a, BeginSteps
<1>5. ASSUME NEW keys \in KeyLists, MoveIssuesToBacklog(keys)
      PROVE  SprintsInv'
  <2> DEFINE o == [kind |-> "backlog", todo |-> Resolved(keys)]
  <2>1. opened /\ op = NoOp /\ op' = o /\ UNCHANGED <<opened, clk, sprints, issueRows>>
    BY <1>5 DEF MoveIssuesToBacklog, Ready
  <2>2. keys \in Seq(Rank)
    BY SprintsAssumption
  <2>3. o \in Op /\ o # NoOp
    BY <2>2, <1>a, ResolvedRows, NotIdle DEF Op
  <2>4. o.kind = "backlog" /\ o.todo = Resolved(keys)
    OBVIOUS
  <2> HIDE DEF o
  <2> QED BY <2>1, <2>2, <2>3, <2>4, <1>a, BeginSteps
<1>6. CASE SkipNext
  BY <1>6, SkipSteps
<1>7. CASE WriteNext
  BY <1>7, WriteSteps
<1>8. CASE FinishClose
  <2>1. /\ opened /\ op.kind = "sweep" /\ UNCHANGED <<opened, clk, issueRows>> /\ op' = NoOp
        /\ sprints' = [sprints EXCEPT ![op.sprint] = [@ EXCEPT !.state = "closed",
                                                              !.completed = op.stamp]]
    BY <1>8 DEF FinishClose
  <2>2. op # NoOp /\ op.stamp \in Nat
    BY <2>1, <1>a, OpTurn
  <2>3. op.sprint \in DOMAIN sprints /\ sprints[op.sprint] \in Sprint
    BY <2>1 DEF SprintsInv, SweepReaches, SprintsTypeOK
  <2>4. [sprints[op.sprint] EXCEPT !.state = "closed", !.completed = op.stamp] \in Sprint
    BY <2>2, <2>3 DEF Sprint, States
  <2>5. SprintsTypeOK'
    BY <2>1, <2>3, <2>4, <1>a DEF SprintsTypeOK
  <2> QED BY <2>1, <2>5, <1>a DEF SprintsInv
<1>9. CASE FinishBatch
  BY <1>9, <1>a DEF FinishBatch, SprintsInv, SprintsTypeOK
<1>10. ASSUME NEW k \in Rank, Transition(k)
       PROVE  SprintsInv'
  <2> DEFINE new == [issueRows[k] EXCEPT !.done = ~@, !.updated = clk + 1]
  <2>1. /\ opened /\ op = NoOp /\ clk' = clk + 1 /\ UNCHANGED <<opened, sprints, op>>
        /\ issueRows' = [issueRows EXCEPT ![k] = new]
    BY <1>10, <1>a DEF Transition, Ready, Tick
  <2>2. new \in Issue /\ new.members = issueRows[k].members /\ new.history = issueRows[k].history
        /\ new.updated = clk + 1
    <3>1. clk + 1 \in Nat /\ issueRows[k] \in Issue
      BY <1>a
    <3>2. ASSUME NEW d \in BOOLEAN
          PROVE  LET row == [issueRows[k] EXCEPT !.done = d, !.updated = clk + 1]
                 IN  row \in Issue /\ row.members = issueRows[k].members
                     /\ row.history = issueRows[k].history /\ row.updated = clk + 1
      BY <3>1 DEF Issue
    <3>3. (~issueRows[k].done) \in BOOLEAN
      OBVIOUS
    <3> QED BY <3>2, <3>3
  <2>3. Sound(new)
    BY <2>2, <1>a DEF Sound, Replays, Current
  <2> HIDE DEF new
  <2>4. SprintsTypeOK'
    BY <2>1, <2>2, <1>a DEF SprintsTypeOK
  <2>5. \A i \in Rank : Sound(issueRows'[i]) /\ issueRows'[i].updated <= clk + 1
    BY <2>1, <2>2, <2>3, <1>a DEF SprintsInv
  <2> QED BY <2>1, <2>4, <2>5, <1>a DEF SprintsInv
<1>11. CASE ServerDies
  BY <1>11, <1>a DEF ServerDies, SprintsInv, SprintsTypeOK
<1>12. CASE Open
  <2>1. SeededClock \in Nat /\ \A k \in Rank : issueRows[k].updated <= SeededClock
    BY <1>a, SeededPast
  <2>2. op = NoOp
    BY <1>12 DEF Open, SprintsInv
  <2> QED BY <1>12, <2>1, <2>2, <1>a DEF Open, SprintsInv, SprintsTypeOK
<1>13. CASE UNCHANGED sprintsVars
  BY <1>13, Unmoved DEF sprintsVars
<1>14. QED
  BY <1>1, <1>2, <1>3, <1>4, <1>5, <1>6, <1>7, <1>8, <1>9, <1>10, <1>11, <1>12, <1>13 DEF SprintsNext

-----------------------------------------------------------------------------
(* The theorems.                                                           *)

\* Every row, and every copy a handler has still to write, has its type.
THEOREM SprintsTypes == SprintsSpec => []SprintsTypeOK
<1>1. SprintsInv => SprintsTypeOK
  BY DEF SprintsInv
<1> QED BY <1>1, SprintsInvInitially, SprintsInvSteps, PTL DEF SprintsSpec

\* Whatever dies in the middle of a sweep or of a batch, the Sprint rows of every changelog
\* lead to the issue's current sprint (agile.go: sweepSprintIssuesLocked, MoveIssuesToSprint).
THEOREM SprintLogReplays == SprintsSpec => []SprintReplays
<1>1. SprintsInv => SprintReplays
  BY DEF SprintsInv, SprintReplays, Sound
<1> QED BY <1>1, SprintsInvInitially, SprintsInvSteps, PTL DEF SprintsSpec

\* However often an issue returns to a sprint, its list names the sprint once.
THEOREM ListedOnce == SprintsSpec => []MemberOnce
<1>1. SprintsInv => MemberOnce
  BY DEF SprintsInv, MemberOnce, Sound
<1> QED BY <1>1, SprintsInvInitially, SprintsInvSteps, PTL DEF SprintsSpec

\* Through restarts, every write of an issue is stamped after every row there was
\* (store.go: seedClockLocked).
THEOREM StampsAlwaysAdvance == SprintsSpec => StampsAdvance
<1> DEFINE Later == \A k \in Rank : issueRows'[k] # issueRows[k] =>
                      \A j \in Rank : issueRows'[k].updated > issueRows[j].updated
<1>1. ASSUME SprintsInv, [SprintsNext]_sprintsVars
      PROVE  [Later]_sprintsVars
  <2>a. /\ clk \in Nat /\ issueRows \in [Rank -> Issue]
        /\ \A k \in Rank : issueRows[k].updated \in Nat
        /\ opened => \A k \in Rank : issueRows[k].updated <= clk
    BY <1>1 DEF SprintsInv, SprintsTypeOK, Issue
  <2>1. CASE issueRows' = issueRows
    BY <2>1
  <2>2. CASE WriteNext
    <3> DEFINE j == Head(op.todo).key
    <3>1. /\ opened /\ issueRows' = [issueRows EXCEPT ![j] = NewRow]
          /\ NewRow.updated = clk + 1
      BY <1>1, <2>2, TurnOfLoop DEF WriteNext, NewRow, Tick
    <3> HIDE DEF j
    <3>2. \A k \in Rank : issueRows'[k] # issueRows[k] => issueRows'[k] = NewRow
      BY <3>1, <2>a
    <3> QED BY <3>1, <3>2, <2>a
  <2>3. ASSUME NEW i \in Rank, Transition(i)
        PROVE  Later
    <3> DEFINE new == [issueRows[i] EXCEPT !.done = ~@, !.updated = clk + 1]
    <3>1. opened /\ issueRows' = [issueRows EXCEPT ![i] = new] /\ new.updated = clk + 1
      BY <2>3, <2>a DEF Transition, Ready, Issue
    <3> HIDE DEF new
    <3>2. \A k \in Rank : issueRows'[k] # issueRows[k] => issueRows'[k] = new
      BY <3>1, <2>a
    <3> QED BY <3>1, <3>2, <2>a
  <2> QED BY <1>1, <2>1, <2>2, <2>3 DEF SprintsNext, sprintsVars, CreateSprint, StartSprint, CloseSprint,
          MoveIssuesToSprint, MoveIssuesToBacklog, SkipNext, FinishClose, FinishBatch, ServerDies, Open
<1> QED BY <1>1, SprintsInvInitially, SprintsInvSteps, PTL DEF SprintsSpec, StampsAdvance

-----------------------------------------------------------------------------
(* Sprints implements SprintBoard: its first state is one of the board's,  *)
(* each of its steps is one step of the board, or none.                    *)

LEMMA BoardInitially == SprintsInit => Board!Init
<1> SUFFICES ASSUME SprintsInit
             PROVE  Board!Init
  OBVIOUS
<1>1. PICK db \in Databases : sprints = db.sprints /\ issueRows = db.issues
  BY DEF SprintsInit
<1>2. /\ issueRows \in [Rank -> Issue] /\ DOMAIN sprints \subseteq SprintId
      /\ \A s \in DOMAIN sprints : sprints[s] \in Sprint
  BY <1>1, SprintsAssumption
<1>3. BoardState \in [SprintId -> {"none", "future", "active", "closed"}]
  BY <1>2 DEF BoardState, Sprint, States
<1>4. BoardCurrent \in [Rank -> SprintId \cup {0}]
  BY <1>2, CurrentOf DEF BoardCurrent
<1>5. ASSUME NEW k \in Rank, BoardCurrent[k] # 0
      PROVE  BoardState[BoardCurrent[k]] # "none"
  <2> DEFINE m == issueRows[k].members
  <2>1. m \in Seq(SprintId) /\ m # << >> /\ BoardCurrent[k] = Last(m)
    BY <1>2, <1>5 DEF BoardCurrent, Current, Issue
  <2>2. Last(m) \in ToSet(m)
    <3>1. Len(m) \in DOMAIN m
      BY <2>1, EmptySeq
    <3> QED BY <3>1 DEF Last, ToSet
  <2>3. Last(m) \in DOMAIN sprints
    BY <2>2, <1>1, DatabasesAssumption
  <2> QED BY <2>1, <2>3, <1>2 DEF BoardState, Sprint, States
<1>6. BoardDone \in SUBSET Rank
  BY DEF BoardDone
<1>7. QED
  BY <1>3, <1>4, <1>5, <1>6 DEF Board!Init

\* The board sees the rows alone.
LEMMA BoardSeesRows ==
  /\ sprints' = sprints => BoardState' = BoardState
  /\ issueRows' = issueRows => BoardCurrent' = BoardCurrent /\ BoardDone' = BoardDone
BY DEF BoardState, BoardCurrent, BoardDone

\* One sprint row is written.
LEMMA BoardAdvances ==
  ASSUME SprintsTypeOK, SprintsTypeOK', NEW s \in SprintId, s \in DOMAIN sprints', issueRows' = issueRows,
         \A t \in SprintId : t # s =>
           (t \in DOMAIN sprints' <=> t \in DOMAIN sprints)
           /\ (t \in DOMAIN sprints => sprints'[t].state = sprints[t].state)
  PROVE  /\ BoardState' = [BoardState EXCEPT ![s] = sprints'[s].state]
         /\ UNCHANGED <<BoardCurrent, BoardDone>>
BY BoardSeesRows DEF BoardState

\* One issue row is written.
LEMMA BoardRewrites ==
  ASSUME SprintsTypeOK, SprintsTypeOK', NEW k \in Rank, NEW row \in Issue, issueRows' = [issueRows EXCEPT ![k] = row],
         sprints' = sprints
  PROVE  /\ BoardCurrent' = [BoardCurrent EXCEPT ![k] = Current(row)]
         /\ row.done = issueRows[k].done => BoardDone' = BoardDone
         /\ Current(row) = Current(issueRows[k]) => BoardCurrent' = BoardCurrent
         /\ row.done # issueRows[k].done =>
              BoardDone' = (IF k \in BoardDone THEN BoardDone \ {k} ELSE BoardDone \cup {k})
         /\ UNCHANGED BoardState
<1>1. /\ issueRows'[k] = row /\ issueRows' \in [Rank -> Issue] /\ issueRows \in [Rank -> Issue]
      /\ \A j \in Rank : j # k => issueRows'[j] = issueRows[j]
  BY DEF SprintsTypeOK
<1>2. BoardCurrent' = [j \in Rank |-> Current(issueRows'[j])]
  BY DEF BoardCurrent, Current
<1>3. BoardCurrent' = [BoardCurrent EXCEPT ![k] = Current(row)]
  BY <1>1, <1>2 DEF BoardCurrent
<1>4. Current(row) = Current(issueRows[k]) => BoardCurrent' = BoardCurrent
  BY <1>1, <1>2 DEF BoardCurrent
<1>5. row.done = issueRows[k].done => BoardDone' = BoardDone
  BY <1>1 DEF BoardDone
<1>6. row.done # issueRows[k].done =>
        BoardDone' = (IF k \in BoardDone THEN BoardDone \ {k} ELSE BoardDone \cup {k})
  <2>1. row.done \in BOOLEAN /\ issueRows[k].done \in BOOLEAN
    BY <1>1 DEF Issue
  <2> QED BY <2>1, <1>1 DEF BoardDone
<1>7. QED
  BY <1>3, <1>4, <1>5, <1>6, BoardSeesRows

LEMMA BoardSteps ==
  ASSUME SprintsInv, SprintsInv', [SprintsNext]_sprintsVars
  PROVE  [Board!Next]_(Board!vars)
<1>a. SprintsTypeOK /\ SprintsTypeOK'
  BY DEF SprintsInv
<1>b. ASSUME UNCHANGED <<sprints, issueRows>>
      PROVE  UNCHANGED Board!vars
  BY <1>b, BoardSeesRows DEF Board!vars
<1>1. ASSUME NEW s \in SprintId, CreateSprint(s)
      PROVE  Board!Create(s)
  <2>1. /\ s \notin DOMAIN sprints /\ s \in DOMAIN sprints' /\ sprints'[s].state = "future"
        /\ issueRows' = issueRows
        /\ \A t \in SprintId : t # s =>
             (t \in DOMAIN sprints' <=> t \in DOMAIN sprints)
             /\ (t \in DOMAIN sprints => sprints'[t].state = sprints[t].state)
    BY <1>1, SprintsAssumption DEF CreateSprint
  <2>2. BoardState[s] = "none"
    BY <2>1 DEF BoardState
  <2>3. /\ BoardState' = [BoardState EXCEPT ![s] = "future"]
        /\ UNCHANGED <<BoardCurrent, BoardDone>>
    BY <2>1, <1>a, BoardAdvances
  <2> QED BY <2>2, <2>3 DEF Board!Create, Board!Advance
<1>2. ASSUME NEW s \in SprintId, StartSprint(s)
      PROVE  Board!Start(s)
  <2>1. /\ s \in DOMAIN sprints /\ s \in DOMAIN sprints' /\ sprints[s].state = "future"
        /\ sprints[s] \in Sprint /\ issueRows' = issueRows
        /\ sprints' = [sprints EXCEPT ![s] = [@ EXCEPT !.state = "active", !.activated = clk + 1]]
    BY <1>2, <1>a DEF StartSprint, SprintsTypeOK
  <2>2. sprints'[s].state = "active"
    BY <2>1 DEF Sprint
  <2>3. BoardState[s] = "future"
    BY <2>1 DEF BoardState
  <2>4. /\ BoardState' = [BoardState EXCEPT ![s] = "active"]
        /\ UNCHANGED <<BoardCurrent, BoardDone>>
    BY <2>1, <2>2, <1>a, BoardAdvances
  <2> QED BY <2>3, <2>4 DEF Board!Start, Board!Advance
<1>3. CASE FinishClose
  <2> DEFINE s == op.sprint
  <2>1. /\ op.kind = "sweep" /\ op.todo = << >> /\ issueRows' = issueRows
        /\ sprints' = [sprints EXCEPT ![s] = [@ EXCEPT !.state = "closed", !.completed = op.stamp]]
    BY <1>3 DEF FinishClose
  <2>2. /\ s \in DOMAIN sprints /\ sprints[s].state = "active" /\ s \in SprintId
        /\ sprints[s] \in Sprint
    BY <2>1, <1>a DEF SprintsInv, SweepReaches, SprintsTypeOK
  <2>3. \A k \in Rank : ~(Current(issueRows[k]) = s /\ ~issueRows[k].done)
    BY <2>1 DEF SprintsInv, SweepReaches, ToSet
  <2>4. \A k \in Rank : BoardCurrent[k] = s => k \in BoardDone
    BY <2>3 DEF BoardCurrent, BoardDone
  <2>5. sprints'[s].state = "closed" /\ s \in DOMAIN sprints'
    BY <2>1, <2>2 DEF Sprint
  <2>6. BoardState[s] = "active"
    BY <2>2 DEF BoardState
  <2> HIDE DEF s
  <2>7. /\ BoardState' = [BoardState EXCEPT ![s] = "closed"]
        /\ UNCHANGED <<BoardCurrent, BoardDone>>
    BY <2>1, <2>2, <2>5, <1>a, BoardAdvances
  <2>8. Board!Close(s)
    BY <2>4, <2>6, <2>7 DEF Board!Close, Board!Advance
  <2> QED BY <2>2, <2>8 DEF Board!Next
<1>4. CASE WriteNext
  <2> DEFINE j == Head(op.todo).key
  <2>1. /\ issueRows' = [issueRows EXCEPT ![j] = NewRow] /\ sprints' = sprints
        /\ NewRow \in Issue /\ NewRow.done = issueRows[j].done /\ j \in Rank
        /\ Current(NewRow) = IF op.kind = "move" THEN op.sprint ELSE 0
        /\ op.kind = "move" => op.sprint \in SprintId
    BY <1>4, TurnOfLoop DEF WriteNext, NewRow
  <2> HIDE DEF j
  <2>2. /\ BoardCurrent' = [BoardCurrent EXCEPT ![j] = Current(NewRow)]
        /\ UNCHANGED <<BoardState, BoardDone>>
    BY <2>1, <1>a, BoardRewrites
  <2>3. CASE op.kind = "move"
    <3>1. BoardState[op.sprint] \in {"future", "active"}
      BY <2>1, <2>3, <1>a DEF SprintsInv, BoardState, SprintsTypeOK, Sprint, States
    <3>2. Board!Join(j, op.sprint)
      BY <2>1, <2>2, <2>3, <3>1 DEF Board!Join
    <3> QED BY <2>1, <2>3, <3>2 DEF Board!Next
  <2>4. CASE op.kind # "move"
    <3>1. Board!Leave(j)
      BY <2>1, <2>2, <2>4 DEF Board!Leave
    <3> QED BY <2>1, <3>1 DEF Board!Next
  <2> QED BY <2>3, <2>4
<1>5. ASSUME NEW k \in Rank, Transition(k)
      PROVE  Board!Resolve(k)
  <2> DEFINE new == [issueRows[k] EXCEPT !.done = ~@, !.updated = clk + 1]
  <2>1. issueRows' = [issueRows EXCEPT ![k] = new] /\ sprints' = sprints /\ issueRows[k] \in Issue
        /\ issueRows'[k] \in Issue /\ issueRows'[k] = new
    BY <1>5, <1>a DEF Transition, SprintsTypeOK
  <2>2. new.members = issueRows[k].members /\ new.done # issueRows[k].done
    <3>1. new.members = issueRows[k].members
      BY <2>1 DEF Issue
    <3>2. new.done = ~issueRows[k].done
      BY <2>1 DEF Issue
    <3>3. (~issueRows[k].done) # issueRows[k].done
      BY Zenon
    <3> QED BY <3>1, <3>2, <3>3
  <2> HIDE DEF new
  <2>3. Current(new) = Current(issueRows[k])
    BY <2>2 DEF Current
  <2>4. /\ BoardDone' = (IF k \in BoardDone THEN BoardDone \ {k} ELSE BoardDone \cup {k})
        /\ UNCHANGED <<BoardState, BoardCurrent>>
    BY <2>1, <2>2, <2>3, <1>a, BoardRewrites
  <2> QED BY <2>4 DEF Board!Resolve
<1>6. QED
  BY <1>b, <1>1, <1>2, <1>3, <1>4, <1>5 DEF SprintsNext, sprintsVars, Board!Next, CloseSprint,
     MoveIssuesToSprint, MoveIssuesToBacklog, SkipNext, FinishBatch, ServerDies, Open

\* Crashes in the middle of a sweep or of a batch and all, the store behaves as SprintBoard
\* promises: whenever a sprint row says closed no unfinished issue is left in it, and no
\* issue joins a closed sprint.
THEOREM ImplementsTheBoard == SprintsSpec => ImplementsBoard
<1>1. ASSUME SprintsInv, SprintsInv', [SprintsNext]_sprintsVars
      PROVE  [Board!Next]_(Board!vars)
  BY <1>1, BoardSteps
<1>2. QED
  BY <1>1, BoardInitially, SprintsInvInitially, SprintsInvSteps, PTL DEF SprintsSpec, ImplementsBoard, Board!Spec
=============================================================================
