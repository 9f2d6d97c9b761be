---------------------------- MODULE WorkflowProofs ----------------------------
(***************************************************************************)
(* Proofs about Workflow, for every value of its constants.  The runs of   *)
(* MCWorkflow check the same formulas on a small instance.                 *)
(***************************************************************************)
EXTENDS Workflow, FiniteSetTheorems, TLAPS

(* What the row-rewriting helpers return. *)

\* A changelog row of two field values is a row.
LEMMA HistoryRowType ==
  ASSUME NEW f \in Axis, NEW a \in FieldValue, NEW b \in FieldValue, NEW t \in Nat
  PROVE  HistoryRow(f, a, b, t) \in Row
BY DEF HistoryRow, Row

\* A resolution stays in the catalog, or empty, whatever status it enters.
LEMMA ResolutionInType ==
  ASSUME NEW to \in Status, NEW r \in Resolution \cup {NoResolution}
  PROVE  ResolutionIn(to, r) \in Resolution \cup {NoResolution}
BY WorkflowAssumption DEF ResolutionIn

\* applyTransitionLocked turns an issue into an issue.
LEMMA TransitionedType ==
  ASSUME NEW iss \in Issue, NEW to \in Status,
         NEW res \in Resolution \cup {NoResolution}, NEW t \in Nat
  PROVE  Transitioned(iss, to, res, t) \in Issue
<1>1. HistoryRow("status", iss.status, to, t) \in Row
  BY HistoryRowType DEF Axis, FieldValue, Issue
<1>2. Append(iss.history, HistoryRow("status", iss.status, to, t)) \in Seq(Row)
  BY <1>1 DEF Issue
<1>3. ResolutionIn(to, IF res = NoResolution THEN iss.resolution ELSE res)
        \in Resolution \cup {NoResolution}
  BY ResolutionInType DEF Issue
<1>4. QED
  BY <1>2, <1>3 DEF Transitioned, Issue

\* setAssigneeLocked turns an issue into an issue.
LEMMA AssignedType ==
  ASSUME NEW iss \in Issue, NEW a \in Assignee, NEW t \in Nat
  PROVE  Assigned(iss, a, t) \in Issue
<1>1. HistoryRow("assignee", iss.assignee, a, t) \in Row
  BY HistoryRowType DEF Axis, FieldValue, Issue
<1>2. Append(iss.history, HistoryRow("assignee", iss.assignee, a, t)) \in Seq(Row)
  BY <1>1 DEF Issue
<1>3. QED
  BY <1>2 DEF Assigned, Issue

\* UpdateIssue turns an issue into an issue.
LEMMA EditedType ==
  ASSUME NEW iss \in Issue, NEW a \in Assignee, NEW txt \in Text, NEW t \in Nat
  PROVE  Edited(iss, a, txt, t) \in Issue
<1>1. Changed("assignee", iss.assignee, a, t) \in Seq(Row)
  BY HistoryRowType DEF Changed, Axis, FieldValue, Issue
<1>2. Changed("summary", iss.summary, txt, t) \in Seq(Row)
  BY HistoryRowType DEF Changed, Axis, FieldValue, Issue
<1>3. iss.history \o Changed("assignee", iss.assignee, a, t)
                  \o Changed("summary", iss.summary, txt, t) \in Seq(Row)
  BY <1>1, <1>2 DEF Issue
<1>4. QED
  BY <1>3 DEF Edited, Issue

\* mergeStatusRefs turns an issue into an issue.
LEMMA MergedType ==
  ASSUME NEW iss \in Issue, NEW from \in Status, NEW to \in Status, NEW t \in Nat
  PROVE  Merged(iss, from, to, t) \in Issue
<1>1. \A row \in Row : MergedRow(row, from, to) \in Row
  BY DEF MergedRow, Row, FieldValue
<1>2. [i \in DOMAIN iss.history |-> MergedRow(iss.history[i], from, to)] \in Seq(Row)
  BY <1>1 DEF Issue
<1>3. QED
  BY <1>2 DEF Merged, Issue

\* A 200 of Claim adds a grant.
LEMMA GrantedType ==
  ASSUME TypeOK, NEW k \in Key, NEW a \in Actor, NEW takeOver \in BOOLEAN, NEW s
  PROVE  Granted(k, a, takeOver, s) \in SUBSET Grant
<1> DEFINE w == InProgress(s)
<1>1. w \in BOOLEAN
  BY DEF InProgress
<1>2. granted[k] \subseteq Grant
  BY DEF TypeOK
<1>3. Granted(k, a, takeOver, s) = {[by |-> a, working |-> w]} \cup (IF takeOver THEN {} ELSE granted[k])
  BY DEF Granted
<1> HIDE DEF w
<1>4. [by |-> a, working |-> w] \in Grant
  BY <1>1 DEF Grant
<1>5. QED
  BY <1>2, <1>3, <1>4

-----------------------------------------------------------------------------
\* Every row, the catalog and the clock keep their types in every handler.
THEOREM TypeCorrect == Spec => []TypeOK
<1>1. Init => TypeOK
  <2> SUFFICES ASSUME Init PROVE TypeOK
    OBVIOUS
  <2>1. catalog \in SUBSET Status /\ screens \in [Status -> ScreenRules] /\ clock \in Nat
    BY WorkflowAssumption DEF Init, EvictShadowedStatuses, ScreenRules
  <2>2. DOMAIN issues \subseteq Key /\ \A k \in DOMAIN issues : issues[k] \in Issue
    BY DEF Init, EvictShadowedStatuses
  <2>3. /\ granted \in [Key -> SUBSET Grant] /\ listing \in [Reader -> Listing \cup {NoListing}]
        /\ strays \subseteq DOMAIN issues
    BY DEF Init, EvictShadowedStatuses
  <2>4. QED
    BY <2>1, <2>2, <2>3 DEF TypeOK
<1>2. TypeOK /\ [Next]_vars => TypeOK'
  <2> SUFFICES ASSUME TypeOK, [Next]_vars PROVE TypeOK'
    OBVIOUS
  <2> USE DEF TypeOK
  <2>1. ASSUME NEW k \in Key, NEW a \in Assignee, NEW txt \in Text, CreateIssue(k, a, txt)
        PROVE  TypeOK'
    <3>1. [status |-> InitialStatus, assignee |-> a, summary |-> txt,
           resolution |-> NoResolution, updated |-> clock + 1, history |-> << >>] \in Issue
      BY WorkflowAssumption DEF Issue
    <3>2. QED
      BY <2>1, <3>1 DEF CreateIssue, Tick
  <2>2. ASSUME NEW k, NEW id, NEW res \in Resolution \cup {NoResolution},
               ApplyTransition(k, id, res), listing' \in [Reader -> Listing \cup {NoListing}]
        PROVE  TypeOK'
    <3>1. PICK to \in Destinations(catalog, issues[k].status) :
             /\ Tick(1)
             /\ issues' = [issues EXCEPT ![k] = Transitioned(@, to, res, clock + 1)]
             /\ granted' = [granted EXCEPT ![k] = KeptGrants(k, to)]
             /\ UNCHANGED <<catalog, screens, strays>>
      BY <2>2 DEF ApplyTransition
    <3>2. k \in DOMAIN issues /\ k \in Key /\ to \in Status
      BY <2>2, <3>1 DEF ApplyTransition, Destinations
    <3>3. Transitioned(issues[k], to, res, clock + 1) \in Issue
      <4>1. issues[k] \in Issue /\ clock + 1 \in Nat
        BY <3>2
      <4>2. QED
        BY <4>1, <3>2, TransitionedType
    <3>4. KeptGrants(k, to) \in SUBSET Grant
      BY <3>2 DEF KeptGrants
    <3>5. QED
      BY <2>2, <3>1, <3>2, <3>3, <3>4 DEF Tick
  <2>3. ASSUME NEW r \in Reader, NEW k \in Key, ListTransitions(r, k)
        PROVE  TypeOK'
    <3>1. PICK d \in Destinations(catalog, issues[k].status) :
             listing' = [listing EXCEPT ![r] =
               [key |-> k, from |-> issues[k].status, catalog |-> catalog, wanted |-> d,
                id |-> ListedId(k, d)]]
      BY <2>3 DEF ListTransitions
    <3>2. ListedId(k, d) \in Nat
      <4>1. IsFiniteSet({e \in Destinations(catalog, issues[k].status) : e <= d})
        BY WorkflowAssumption, FS_Subset DEF Destinations
      <4>2. QED
        BY <4>1, FS_CardinalityType DEF ListedId, Position
    <3>3. QED
      BY <2>3, <3>1, <3>2 DEF ListTransitions, Destinations, Listing, Issue
  <2>4. ASSUME NEW k \in Key, NEW a \in Assignee, SetAssignee(k, a)
        PROVE  TypeOK'
    BY <2>4, AssignedType DEF SetAssignee, GrantsOf, Tick
  <2>5. ASSUME NEW k \in Key, NEW a \in Assignee, NEW txt \in Text, UpdateIssue(k, a, txt)
        PROVE  TypeOK'
    BY <2>5, EditedType DEF UpdateIssue, GrantsOf, Tick
  <2>6. ASSUME NEW k \in Key, NEW a \in Actor, NEW takeOver \in BOOLEAN,
               NEW explicit \in BOOLEAN, ClaimFresh(k, a, takeOver, explicit)
        PROVE  TypeOK'
    <3>1. PICK to \in ClaimTargets(issues[k].status, explicit) :
             /\ LET moved == Transitioned(issues[k], to, NoResolution, clock + 1)
                IN  IF moved.assignee = a
                    THEN Tick(1) /\ issues' = [issues EXCEPT ![k] = moved]
                    ELSE Tick(2) /\ issues' = [issues EXCEPT ![k] = Assigned(moved, a, clock + 2)]
             /\ granted' = [granted EXCEPT ![k] = Granted(k, a, takeOver, to)]
      BY <2>6 DEF ClaimFresh
    <3> DEFINE moved == Transitioned(issues[k], to, NoResolution, clock + 1)
    <3>2. to \in Status
      BY <3>1 DEF ClaimTargets, FirstInProgress, Destinations
    <3>3. moved \in Issue
      <4>1. issues[k] \in Issue /\ clock + 1 \in Nat
        BY <2>6 DEF ClaimFresh
      <4>2. QED
        BY <4>1, <3>2, TransitionedType
    <3>4. Assigned(moved, a, clock + 2) \in Issue
      BY <3>3, AssignedType DEF Assignee
    <3>5. Granted(k, a, takeOver, to) \in SUBSET Grant
      BY GrantedType
    <3> HIDE DEF moved
    <3>6. QED
      BY <2>6, <3>1, <3>3, <3>4, <3>5 DEF ClaimFresh, Tick, moved
  <2>7. ASSUME NEW k \in Key, NEW a \in Actor, NEW takeOver \in BOOLEAN,
               ClaimHeld(k, a, takeOver)
        PROVE  TypeOK'
    <3>1. Assigned(issues[k], a, clock + 1) \in Issue
      BY <2>7, AssignedType DEF ClaimHeld, Assignee
    <3>2. Granted(k, a, takeOver, issues[k].status) \in SUBSET Grant
      BY GrantedType
    <3>3. QED
      BY <2>7, <3>1, <3>2 DEF ClaimHeld, Tick
  <2>8. ASSUME NEW from \in Status, NEW to \in Status, MergeStatus(from, to)
        PROVE  TypeOK'
    <3>1. \A k \in DOMAIN issues : Merged(issues[k], from, to, clock + 1) \in Issue
      BY MergedType
    <3>2. QED
      BY <2>8, <3>1 DEF MergeStatus, Tick, ScreenRules
  <2>9. CASE UNCHANGED vars
    BY <2>9 DEF vars
  <2>10. QED
    <3>1. ASSUME NEW k \in Key, NEW id, NEW res \in Resolution \cup {NoResolution},
                 PostTransition(k, id, res)
          PROVE  TypeOK'
      BY <2>2, <3>1 DEF PostTransition
    <3>2. ASSUME NEW r \in Reader, NEW res \in Resolution \cup {NoResolution},
                 PostListed(r, res)
          PROVE  TypeOK'
      BY <2>2, <3>2 DEF PostListed
    <3>3. QED
      BY <2>1, <2>3, <2>4, <2>5, <2>6, <2>7, <2>8, <2>9, <3>1, <3>2 DEF Next
<1>3. QED
  BY <1>1, <1>2, PTL DEF Spec

-----------------------------------------------------------------------------
(* The changelog chains.                                                   *)

\* A row that starts at the present value extends its own axis.
LEMMA ChainedAppend ==
  ASSUME NEW h \in Seq(Row), NEW row \in Row, NEW now,
         Chained(h, row.field, now), row.from = now
  PROVE  Chained(Append(h, row), row.field, row.to)
<1> DEFINE g == Append(h, row)
           n == Len(h)
           f == row.field
<1>1. /\ n \in Nat /\ DOMAIN h = 1..n /\ DOMAIN g = 1..(n + 1)
      /\ g[n + 1] = row /\ \A i \in 1..n : g[i] = h[i]
  OBVIOUS
<1>2. OnAxis(g, f) = OnAxis(h, f) \cup {n + 1}
  BY <1>1 DEF OnAxis
<1>3. \A i \in OnAxis(h, f) : i \in 1..n
  BY <1>1 DEF OnAxis
<1>4. ASSUME NEW i \in OnAxis(g, f), NEW j \in OnAxis(g, f), i < j,
             \A m \in OnAxis(g, f) : m <= i \/ j <= m
      PROVE  g[j].from = g[i].to
  <2>1. i \in OnAxis(h, f) /\ g[i] = h[i]
    BY <1>1, <1>2, <1>3, <1>4
  <2>2. CASE j = n + 1
    <3>1. \A m \in OnAxis(h, f) : m <= i
      BY <1>2, <1>3, <1>4, <2>2, <1>1
    <3>2. h[i].to = now
      BY <2>1, <3>1 DEF Chained
    <3>3. QED
      BY <1>1, <2>1, <2>2, <3>2
  <2>3. CASE j # n + 1
    <3>1. j \in OnAxis(h, f) /\ g[j] = h[j]
      BY <1>1, <1>2, <1>3, <2>3
    <3>2. QED
      BY <1>2, <1>4, <2>1, <3>1 DEF Chained
  <2>4. QED
    BY <2>2, <2>3
<1>5. ASSUME NEW i \in OnAxis(g, f), \A m \in OnAxis(g, f) : m <= i
      PROVE  g[i].to = row.to
  <2>1. i = n + 1
    BY <1>1, <1>2, <1>3, <1>5
  <2>2. QED
    BY <2>1, <1>1
<1>6. QED
  BY <1>4, <1>5 DEF Chained

\* A row of another axis leaves a chain as it was.
LEMMA ChainedSkip ==
  ASSUME NEW h \in Seq(Row), NEW row \in Row, NEW f, NEW now,
         Chained(h, f, now), row.field # f
  PROVE  Chained(Append(h, row), f, now)
<1> DEFINE g == Append(h, row)
           n == Len(h)
<1>1. /\ n \in Nat /\ DOMAIN h = 1..n /\ DOMAIN g = 1..(n + 1)
      /\ g[n + 1] = row /\ \A i \in 1..n : g[i] = h[i]
  OBVIOUS
<1>2. OnAxis(g, f) = OnAxis(h, f) /\ \A i \in OnAxis(h, f) : g[i] = h[i]
  BY <1>1 DEF OnAxis
<1>3. QED
  BY <1>2 DEF Chained

\* applyTransitionLocked extends the status chain and leaves the others.
LEMMA TransitionedReplays ==
  ASSUME NEW iss \in Issue, NEW to \in Status,
         NEW res \in Resolution \cup {NoResolution}, NEW t \in Nat,
         IssueReplays(iss)
  PROVE  IssueReplays(Transitioned(iss, to, res, t))
<1> DEFINE row == HistoryRow("status", iss.status, to, t)
           new == Transitioned(iss, to, res, t)
<1>1. iss.history \in Seq(Row)
  BY DEF Issue
<1>2. row \in Row
  BY HistoryRowType DEF Axis, FieldValue, Issue
<1>3. row.field = "status" /\ row.from = iss.status /\ row.to = to
  BY DEF HistoryRow
<1>4. /\ new.history = Append(iss.history, row) /\ new.status = to
      /\ new.assignee = iss.assignee /\ new.summary = iss.summary
  BY DEF Transitioned, Issue
<1> HIDE DEF row, new
<1>5. Chained(new.history, "status", new.status)
  BY <1>1, <1>2, <1>3, <1>4, ChainedAppend DEF IssueReplays
<1>6. Chained(new.history, "assignee", new.assignee)
  BY <1>1, <1>2, <1>3, <1>4, ChainedSkip DEF IssueReplays
<1>7. Chained(new.history, "summary", new.summary)
  BY <1>1, <1>2, <1>3, <1>4, ChainedSkip DEF IssueReplays
<1>8. QED
  BY <1>5, <1>6, <1>7 DEF IssueReplays, new

\* setAssigneeLocked extends the assignee chain and leaves the others.
LEMMA AssignedReplays ==
  ASSUME NEW iss \in Issue, NEW a \in Assignee, NEW t \in Nat, IssueReplays(iss)
  PROVE  IssueReplays(Assigned(iss, a, t))
<1> DEFINE row == HistoryRow("assignee", iss.assignee, a, t)
           new == Assigned(iss, a, t)
<1>1. iss.history \in Seq(Row)
  BY DEF Issue
<1>2. row \in Row
  BY HistoryRowType DEF Axis, FieldValue, Issue
<1>3. row.field = "assignee" /\ row.from = iss.assignee /\ row.to = a
  BY DEF HistoryRow
<1>4. /\ new.history = IF iss.assignee = a THEN iss.history ELSE Append(iss.history, row)
      /\ new.status = iss.status /\ new.assignee = a /\ new.summary = iss.summary
  BY DEF Assigned, Issue
<1> HIDE DEF row, new
<1>5. CASE iss.assignee = a
  BY <1>4, <1>5 DEF IssueReplays, new
<1>6. CASE iss.assignee # a
  <2>1. Chained(new.history, "assignee", new.assignee)
    BY <1>1, <1>2, <1>3, <1>4, <1>6, ChainedAppend DEF IssueReplays
  <2>2. /\ Chained(new.history, "status", new.status)
        /\ Chained(new.history, "summary", new.summary)
    BY <1>1, <1>2, <1>3, <1>4, <1>6, ChainedSkip DEF IssueReplays
  <2>3. QED
    BY <2>1, <2>2 DEF IssueReplays, new
<1>7. QED
  BY <1>5, <1>6

\* One changelog item of UpdateIssue extends the chain of its field.
LEMMA ChangedReplays ==
  ASSUME NEW h \in Seq(Row), NEW f \in Axis, NEW a \in FieldValue, NEW b \in FieldValue,
         NEW t \in Nat, Chained(h, f, a)
  PROVE  /\ h \o Changed(f, a, b, t) \in Seq(Row)
         /\ Chained(h \o Changed(f, a, b, t), f, b)
         /\ \A g, now : g # f /\ Chained(h, g, now) => Chained(h \o Changed(f, a, b, t), g, now)
<1>1. CASE a = b
  <2>1. h \o Changed(f, a, b, t) = h
    BY <1>1 DEF Changed
  <2>2. QED
    BY <1>1, <2>1
<1>2. CASE a # b
  <2> DEFINE row == HistoryRow(f, a, b, t)
  <2>1. row \in Row
    BY HistoryRowType
  <2>2. row.field = f /\ row.from = a /\ row.to = b
    BY DEF HistoryRow
  <2>3. h \o Changed(f, a, b, t) = Append(h, row)
    BY <1>2, <2>1 DEF Changed
  <2> HIDE DEF row
  <2>4. Append(h, row) \in Seq(Row)
    BY <2>1
  <2>5. Chained(Append(h, row), f, b)
    BY <2>1, <2>2, ChainedAppend
  <2>6. \A g, now : g # f /\ Chained(h, g, now) => Chained(Append(h, row), g, now)
    BY <2>1, <2>2, ChainedSkip
  <2>7. QED
    BY <2>3, <2>4, <2>5, <2>6
<1>3. QED
  BY <1>1, <1>2

\* UpdateIssue extends the chains of the fields it changed and only those.
LEMMA EditedReplays ==
  ASSUME NEW iss \in Issue, NEW a \in Assignee, NEW txt \in Text, NEW t \in Nat,
         IssueReplays(iss)
  PROVE  IssueReplays(Edited(iss, a, txt, t))
<1> DEFINE h1 == iss.history \o Changed("assignee", iss.assignee, a, t)
           h2 == h1 \o Changed("summary", iss.summary, txt, t)
           new == Edited(iss, a, txt, t)
<1>1. /\ iss.history \in Seq(Row)
      /\ {"assignee", "summary"} \subseteq Axis
      /\ {iss.assignee, a, iss.summary, txt} \subseteq FieldValue
  BY DEF Issue, Axis, FieldValue
<1>2. /\ h1 \in Seq(Row)
      /\ Chained(h1, "assignee", a)
      /\ Chained(h1, "status", iss.status)
      /\ Chained(h1, "summary", iss.summary)
  BY <1>1, ChangedReplays DEF IssueReplays
<1> HIDE DEF h1
<1>3. /\ Chained(h2, "summary", txt)
      /\ Chained(h2, "status", iss.status)
      /\ Chained(h2, "assignee", a)
  BY <1>1, <1>2, ChangedReplays
<1>4. /\ new.history = h2 /\ new.status = iss.status
      /\ new.assignee = a /\ new.summary = txt
  BY DEF Edited, Issue, h1
<1> HIDE DEF h2, new
<1>5. QED
  BY <1>3, <1>4 DEF IssueReplays, new

\* mergeStatusRefs renames one end of the status chain everywhere at once.
LEMMA MergedReplays ==
  ASSUME NEW iss \in Issue, NEW from \in Status, NEW to \in Status, NEW t \in Nat,
         IssueReplays(iss)
  PROVE  IssueReplays(Merged(iss, from, to, t))
<1>1. CASE ~RefersTo(iss, from)
  BY <1>1 DEF Merged
<1>2. CASE RefersTo(iss, from)
  <2> DEFINE h == iss.history
             g == [i \in DOMAIN h |-> MergedRow(h[i], from, to)]
             Ren(s) == IF s = from THEN to ELSE s
             new == Merged(iss, from, to, t)
  <2>1. h \in Seq(Row) /\ \A i \in DOMAIN h : h[i] \in Row
    BY DEF Issue
  <2>2. /\ new.history = g /\ new.status = Ren(iss.status)
        /\ new.assignee = iss.assignee /\ new.summary = iss.summary
    BY <1>2 DEF Merged, Issue
  <2>3. \A i \in DOMAIN h :
          /\ g[i].field = h[i].field
          /\ h[i].field # "status" => g[i] = h[i]
          /\ h[i].field = "status" => g[i].from = Ren(h[i].from) /\ g[i].to = Ren(h[i].to)
    BY <2>1 DEF MergedRow, Row
  <2>4. DOMAIN g = DOMAIN h
    OBVIOUS
  <2>5. \A f : OnAxis(g, f) = OnAxis(h, f)
    BY <2>3, <2>4 DEF OnAxis
  <2>6. \A i \in OnAxis(h, "status") : g[i].from = Ren(h[i].from) /\ g[i].to = Ren(h[i].to)
    BY <2>3 DEF OnAxis
  <2>7. \A f : f # "status" => \A i \in OnAxis(h, f) : g[i] = h[i]
    BY <2>3 DEF OnAxis
  <2>8. /\ Chained(h, "status", iss.status)
         /\ Chained(h, "assignee", iss.assignee) /\ Chained(h, "summary", iss.summary)
    BY DEF IssueReplays
  <2> HIDE DEF g, new, Ren
  <2>9. Chained(g, "status", Ren(iss.status))
    BY <2>5, <2>6, <2>8 DEF Chained
  <2>10. Chained(g, "assignee", iss.assignee) /\ Chained(g, "summary", iss.summary)
    BY <2>5, <2>7, <2>8 DEF Chained
  <2>11. QED
    BY <2>2, <2>9, <2>10 DEF IssueReplays, new
<1>3. QED
  BY <1>1, <1>2

-----------------------------------------------------------------------------
(* What one step of Next may do to one row, for all the proofs that follow. *)

Filed(iss) ==
  \E a \in Assignee, txt \in Text, t \in Nat :
    iss = [status |-> InitialStatus, assignee |-> a, summary |-> txt,
           resolution |-> NoResolution, updated |-> t, history |-> << >>]

Rewritten(old, new) ==
  \/ new = old
  \/ \E to \in catalog, res \in Resolution \cup {NoResolution}, t \in Nat :
       new = Transitioned(old, to, res, t)
  \/ \E a \in Assignee, t \in Nat : new = Assigned(old, a, t)
  \/ \E a \in Assignee, txt \in Text, t \in Nat : new = Edited(old, a, txt, t)
  \/ \E to \in catalog, a \in Assignee, t \in Nat :
       new = Assigned(Transitioned(old, to, NoResolution, t), a, t + 1)
  \/ \E from \in Status, to \in Status, t \in Nat :
       /\ {from, to} \subseteq catalog /\ MayMerge(from, to)
       /\ catalog' = catalog \ {from}
       /\ new = Merged(old, from, to, t)

RowStep(k) ==
  IF k \in DOMAIN issues THEN Rewritten(issues[k], issues'[k]) ELSE Filed(issues'[k])

\* Every step files a row, leaves it alone, or rewrites it by one of the helpers.
LEMMA RowSteps ==
  ASSUME TypeOK, [Next]_vars, NEW k \in DOMAIN issues'
  PROVE  RowStep(k)
<1> USE DEF TypeOK
<1>1. ASSUME NEW j \in Key, NEW a \in Assignee, NEW txt \in Text, CreateIssue(j, a, txt)
      PROVE  RowStep(k)
  <2>1. CASE k = j
    BY <1>1, <2>1 DEF CreateIssue, RowStep, Filed
  <2>2. CASE k # j
    BY <1>1, <2>2 DEF CreateIssue, RowStep, Rewritten
  <2>3. QED
    BY <2>1, <2>2
<1>2. ASSUME NEW j, NEW id, NEW res \in Resolution \cup {NoResolution},
             ApplyTransition(j, id, res)
      PROVE  RowStep(k)
  <2>1. PICK to \in catalog :
           issues' = [issues EXCEPT ![j] = Transitioned(@, to, res, clock + 1)]
    BY <1>2 DEF ApplyTransition, Destinations
  <2>2. CASE k = j
    BY <1>2, <2>1, <2>2 DEF ApplyTransition, RowStep, Rewritten
  <2>3. CASE k # j
    BY <2>1, <2>3 DEF RowStep, Rewritten
  <2>4. QED
    BY <2>2, <2>3
<1>3. ASSUME NEW r \in Reader, NEW j \in Key, ListTransitions(r, j)
      PROVE  RowStep(k)
  BY <1>3 DEF ListTransitions, RowStep, Rewritten
<1>4. ASSUME NEW j \in Key, NEW a \in Assignee, SetAssignee(j, a)
      PROVE  RowStep(k)
  BY <1>4 DEF SetAssignee, RowStep, Rewritten
<1>5. ASSUME NEW j \in Key, NEW a \in Assignee, NEW txt \in Text, UpdateIssue(j, a, txt)
      PROVE  RowStep(k)
  BY <1>5 DEF UpdateIssue, RowStep, Rewritten
<1>6. ASSUME NEW j \in Key, NEW a \in Actor, NEW takeOver \in BOOLEAN,
             NEW explicit \in BOOLEAN, ClaimFresh(j, a, takeOver, explicit)
      PROVE  RowStep(k)
  <2>1. PICK to \in ClaimTargets(issues[j].status, explicit) :
           LET moved == Transitioned(issues[j], to, NoResolution, clock + 1)
           IN  \/ issues' = [issues EXCEPT ![j] = moved]
               \/ issues' = [issues EXCEPT ![j] = Assigned(moved, a, clock + 2)]
    BY <1>6 DEF ClaimFresh
  <2>2. to \in catalog
    BY DEF ClaimTargets, FirstInProgress, Destinations
  <2>3. a \in Assignee /\ clock + 1 \in Nat /\ (clock + 1) + 1 = clock + 2
    BY DEF Assignee
  <2>4. CASE k # j
    BY <2>1, <2>4 DEF RowStep, Rewritten
  <2>5. CASE k = j
    <3>1. j \in DOMAIN issues
      BY <1>6 DEF ClaimFresh
    <3>2. \/ issues'[k] = Transitioned(issues[k], to, NoResolution, clock + 1)
          \/ issues'[k] = Assigned(Transitioned(issues[k], to, NoResolution, clock + 1),
                                   a, (clock + 1) + 1)
      BY <2>1, <2>3, <2>5, <3>1
    <3>3. Rewritten(issues[k], issues'[k])
      BY <2>2, <2>3, <3>2 DEF Rewritten
    <3>4. QED
      BY <2>5, <3>1, <3>3 DEF RowStep
  <2>6. QED
    BY <2>4, <2>5
<1>7. ASSUME NEW j \in Key, NEW a \in Actor, NEW takeOver \in BOOLEAN,
             ClaimHeld(j, a, takeOver)
      PROVE  RowStep(k)
  BY <1>7 DEF ClaimHeld, RowStep, Rewritten, Assignee
<1>8. ASSUME NEW from \in Status, NEW to \in Status, MergeStatus(from, to)
      PROVE  RowStep(k)
  BY <1>8 DEF MergeStatus, RowStep, Rewritten
<1>9. CASE UNCHANGED vars
  BY <1>9 DEF vars, RowStep, Rewritten
<1>10. QED
  <2>1. ASSUME NEW j \in Key, NEW id, NEW res \in Resolution \cup {NoResolution},
               PostTransition(j, id, res)
        PROVE  RowStep(k)
    BY <1>2, <2>1 DEF PostTransition
  <2>2. ASSUME NEW r \in Reader, NEW res \in Resolution \cup {NoResolution},
               PostListed(r, res)
        PROVE  RowStep(k)
    BY <1>2, <2>2 DEF PostListed
  <2>3. QED
    BY <1>1, <1>3, <1>4, <1>5, <1>6, <1>7, <1>8, <1>9, <2>1, <2>2 DEF Next

(* An empty changelog replays: CreateIssue files an issue without history. *)
LEMMA UnwrittenReplays ==
  ASSUME NEW iss, iss.history = << >>
  PROVE  IssueReplays(iss)
<1>1. ASSUME NEW f PROVE OnAxis(iss.history, f) = {}
  BY DEF OnAxis
<1>2. ASSUME NEW f, NEW now PROVE Chained(iss.history, f, now)
  BY <1>1 DEF Chained
<1>3. QED
  BY <1>2 DEF IssueReplays

-----------------------------------------------------------------------------
\* The changelog of every issue replays to its present status, assignee and
\* summary, whatever mix of handlers ran: ChangelogReplays is inductive.
THEOREM ChangelogAlwaysReplays == Spec => []ChangelogReplays
<1>1. Init => ChangelogReplays
  BY DEF Init, ChangelogReplays
<1>2. TypeOK /\ ChangelogReplays /\ [Next]_vars => ChangelogReplays'
  <2> SUFFICES ASSUME TypeOK, ChangelogReplays, [Next]_vars, NEW k \in DOMAIN issues'
               PROVE  IssueReplays(issues'[k])
    BY DEF ChangelogReplays, IssueReplays, Chained, OnAxis
  <2>1. RowStep(k)
    BY RowSteps
  <2>2. CASE k \notin DOMAIN issues
    <3>1. issues'[k].history = << >>
      BY <2>1, <2>2 DEF RowStep, Filed
    <3>2. QED
      BY <3>1, UnwrittenReplays
  <2>3. CASE k \in DOMAIN issues
    <3> DEFINE old == issues[k]
               new == issues'[k]
    <3>1. old \in Issue /\ IssueReplays(old) /\ Rewritten(old, new) /\ catalog \subseteq Status
      BY <2>1, <2>3 DEF TypeOK, ChangelogReplays, RowStep
    <3> HIDE DEF old, new
    <3>2. ASSUME new = old PROVE IssueReplays(new)
      BY <3>1, <3>2
    <3>3. ASSUME NEW to \in catalog, NEW res \in Resolution \cup {NoResolution}, NEW t \in Nat,
                 new = Transitioned(old, to, res, t)
          PROVE  IssueReplays(new)
      BY <3>1, <3>3, TransitionedReplays
    <3>4. ASSUME NEW a \in Assignee, NEW t \in Nat, new = Assigned(old, a, t)
          PROVE  IssueReplays(new)
      BY <3>1, <3>4, AssignedReplays
    <3>5. ASSUME NEW a \in Assignee, NEW txt \in Text, NEW t \in Nat,
                 new = Edited(old, a, txt, t)
          PROVE  IssueReplays(new)
      BY <3>1, <3>5, EditedReplays
    <3>6. ASSUME NEW to \in catalog, NEW a \in Assignee, NEW t \in Nat,
                 new = Assigned(Transitioned(old, to, NoResolution, t), a, t + 1)
          PROVE  IssueReplays(new)
      <4>1. /\ Transitioned(old, to, NoResolution, t) \in Issue
            /\ IssueReplays(Transitioned(old, to, NoResolution, t))
        BY <3>1, TransitionedType, TransitionedReplays
      <4>2. QED
        BY <3>6, <4>1, AssignedReplays
    <3>7. ASSUME NEW from \in Status, NEW to \in Status, NEW t \in Nat,
                 new = Merged(old, from, to, t)
          PROVE  IssueReplays(new)
      BY <3>1, <3>7, MergedReplays
    <3>8. IssueReplays(new)
      BY <3>1, <3>2, <3>3, <3>4, <3>5, <3>6, <3>7 DEF Rewritten
    <3>9. QED
      BY <3>8 DEF new
  <2>4. QED
    BY <2>2, <2>3
<1>3. QED
  BY <1>1, <1>2, TypeCorrect, PTL DEF Spec

-----------------------------------------------------------------------------
\* An issue has a resolution exactly while its status is in the done category.
THEOREM ResolutionFollowsCategory == Spec => []ResolvedIffDone
<1> DEFINE Resolved(iss) == iss.resolution # NoResolution <=> Category[iss.status] = "done"
<1>1. Init => ResolvedIffDone
  BY DEF Init, ResolvedIffDone
<1>2. TypeOK /\ ResolvedIffDone /\ [Next]_vars => ResolvedIffDone'
  <2> SUFFICES ASSUME TypeOK, ResolvedIffDone, [Next]_vars, NEW k \in DOMAIN issues'
               PROVE  Resolved(issues'[k])
    BY DEF ResolvedIffDone
  <2>1. RowStep(k)
    BY RowSteps
  <2>2. CASE k \notin DOMAIN issues
    BY <2>1, <2>2, WorkflowAssumption DEF RowStep, Filed
  <2>3. CASE k \in DOMAIN issues
    <3> DEFINE old == issues[k]
               new == issues'[k]
    <3>1. old \in Issue /\ Resolved(old) /\ Rewritten(old, new) /\ catalog \subseteq Status
      BY <2>1, <2>3 DEF TypeOK, ResolvedIffDone, RowStep
    <3> HIDE DEF old, new
    <3>2. ASSUME NEW iss \in Issue, NEW to \in catalog,
                 NEW res \in Resolution \cup {NoResolution}, NEW t \in Nat
          PROVE  Resolved(Transitioned(iss, to, res, t))
      BY <3>1, WorkflowAssumption DEF Transitioned, ResolutionIn, Issue
    <3>3. ASSUME NEW iss \in Issue, NEW a \in Assignee, NEW t \in Nat, Resolved(iss)
          PROVE  Resolved(Assigned(iss, a, t))
      BY <3>3 DEF Assigned, Issue
    <3>4. ASSUME NEW a \in Assignee, NEW txt \in Text, NEW t \in Nat,
                 new = Edited(old, a, txt, t)
          PROVE  Resolved(new)
      BY <3>1, <3>4 DEF Edited, Issue
    <3>5. ASSUME NEW to \in catalog, NEW a \in Assignee, NEW t \in Nat,
                 new = Assigned(Transitioned(old, to, NoResolution, t), a, t + 1)
          PROVE  Resolved(new)
      <4>1. Transitioned(old, to, NoResolution, t) \in Issue
        BY <3>1, TransitionedType
      <4>2. QED
        BY <3>1, <3>2, <3>3, <3>5, <4>1
    <3>6. ASSUME NEW from \in Status, NEW to \in Status, NEW t \in Nat,
                 MayMerge(from, to), new = Merged(old, from, to, t)
          PROVE  Resolved(new)
      BY <3>1, <3>6 DEF Merged, MayMerge, Issue
    <3>7. Resolved(new)
      BY <3>1, <3>2, <3>3, <3>4, <3>5, <3>6 DEF Rewritten
    <3>8. QED
      BY <3>7 DEF new
  <2>4. QED
    BY <2>2, <2>3
<1>3. QED
  BY <1>1, <1>2, TypeCorrect, PTL DEF Spec

-----------------------------------------------------------------------------
(* Claims. *)

\* The grants of issue k are as ClaimExclusive wants them.
GrantsRight(k) ==
  \A g \in granted[k] : g.working =>
    /\ \A h \in granted[k] : h.working => h = g
    /\ k \in DOMAIN issues
    /\ issues[k].assignee = g.by /\ InProgress(issues[k].status)

\* A transition revokes the grants of an issue it takes out of progress.
LEMMA ApplyTransitionKeepsGrants ==
  ASSUME TypeOK, ClaimExclusive, NEW k0, NEW id, NEW res, ApplyTransition(k0, id, res)
  PROVE  ClaimExclusive'
<1>1. PICK to \in Destinations(catalog, issues[k0].status) :
        /\ issues' = [issues EXCEPT ![k0] = Transitioned(@, to, res, clock + 1)]
        /\ granted' = [granted EXCEPT ![k0] = KeptGrants(k0, to)]
        /\ catalog' = catalog
  BY DEF ApplyTransition
<1>2. k0 \in DOMAIN issues /\ DOMAIN issues' = DOMAIN issues
  BY <1>1 DEF ApplyTransition
<1>3. /\ issues'[k0].status = to
      /\ issues'[k0].assignee = issues[k0].assignee
  BY <1>1, <1>2 DEF Transitioned, TypeOK, Issue
<1>4. QED
  BY <1>1, <1>2, <1>3 DEF ClaimExclusive, KeptGrants, TypeOK, InProgress

\* Who names an assignee leaves no grant but that one's.
LEMMA AssigningKeepsGrants ==
  ASSUME TypeOK, ClaimExclusive, NEW k0 \in DOMAIN issues, NEW a, NEW iss \in Issue,
         iss.assignee = a, iss.status = issues[k0].status,
         issues' = [issues EXCEPT ![k0] = iss], catalog' = catalog,
         granted' = [granted EXCEPT ![k0] = GrantsOf(k0, a)]
  PROVE  ClaimExclusive'
<1>1. issues'[k0] = iss /\ DOMAIN issues' = DOMAIN issues /\ k0 \in Key
  BY DEF TypeOK
<1>2. ASSUME NEW k \in Key PROVE GrantsRight(k)'
  <2>1. GrantsRight(k)
    BY DEF ClaimExclusive, GrantsRight
  <2>2. CASE k = k0
    BY <1>1, <2>1, <2>2 DEF GrantsRight, GrantsOf, TypeOK, InProgress
  <2>3. CASE k # k0
    BY <1>1, <2>1, <2>3 DEF GrantsRight, TypeOK, InProgress
  <2>4. QED
    BY <2>2, <2>3
<1>3. QED
  BY <1>2 DEF ClaimExclusive, GrantsRight

\* Of the claims that were told the issue is in progress at most one is unrevoked,
\* and its actor is at work on the issue, whatever destinations claims may name.
THEOREM ClaimIsExclusive == Spec => []ClaimExclusive
<1>1. Init => ClaimExclusive
  BY DEF Init, ClaimExclusive
<1>2. TypeOK /\ ClaimExclusive /\ [Next]_vars => ClaimExclusive'
  <2> SUFFICES ASSUME TypeOK, ClaimExclusive, [Next]_vars
               PROVE  ClaimExclusive'
    OBVIOUS
  <2>1. ASSUME NEW k0 \in Key, NEW a \in Assignee, NEW txt \in Text, CreateIssue(k0, a, txt)
        PROVE  ClaimExclusive'
    BY <2>1 DEF CreateIssue, ClaimExclusive, InProgress
  <2>2. ASSUME NEW k0 \in Key, NEW id, NEW res, PostTransition(k0, id, res)
        PROVE  ClaimExclusive'
    BY <2>2, ApplyTransitionKeepsGrants DEF PostTransition
  <2>3. ASSUME NEW r \in Reader, NEW k0 \in Key, ListTransitions(r, k0)
        PROVE  ClaimExclusive'
    BY <2>3 DEF ListTransitions, ClaimExclusive, InProgress
  <2>4. ASSUME NEW r \in Reader, NEW res, PostListed(r, res)
        PROVE  ClaimExclusive'
    BY <2>4, ApplyTransitionKeepsGrants DEF PostListed
  <2>5. ASSUME NEW k0 \in Key, NEW a \in Assignee, SetAssignee(k0, a)
        PROVE  ClaimExclusive'
    <3>1. k0 \in DOMAIN issues /\ issues[k0] \in Issue /\ clock + 1 \in Nat
      BY <2>5 DEF SetAssignee, TypeOK
    <3>2. /\ Assigned(issues[k0], a, clock + 1) \in Issue
          /\ Assigned(issues[k0], a, clock + 1).assignee = a
          /\ Assigned(issues[k0], a, clock + 1).status = issues[k0].status
      BY <3>1, AssignedType DEF Assigned, Issue
    <3>3. QED
      BY <2>5, <3>1, <3>2, AssigningKeepsGrants DEF SetAssignee
  <2>6. ASSUME NEW k0 \in Key, NEW a \in Assignee, NEW txt \in Text, UpdateIssue(k0, a, txt)
        PROVE  ClaimExclusive'
    <3>1. k0 \in DOMAIN issues /\ issues[k0] \in Issue /\ clock + 1 \in Nat
      BY <2>6 DEF UpdateIssue, TypeOK
    <3>2. /\ Edited(issues[k0], a, txt, clock + 1) \in Issue
          /\ Edited(issues[k0], a, txt, clock + 1).assignee = a
          /\ Edited(issues[k0], a, txt, clock + 1).status = issues[k0].status
      BY <3>1, EditedType DEF Edited, Issue
    <3>3. QED
      BY <2>6, <3>1, <3>2, AssigningKeepsGrants DEF UpdateIssue
  <2>7. ASSUME NEW k0 \in Key, NEW a \in Actor, NEW takeOver \in BOOLEAN,
               NEW explicit \in BOOLEAN, ClaimFresh(k0, a, takeOver, explicit)
        PROVE  ClaimExclusive'
    <3>1. \A g \in granted[k0] : ~g.working
      BY <2>7 DEF ClaimFresh, ClaimExclusive
    <3>2. PICK to \in ClaimTargets(issues[k0].status, explicit) :
            /\ LET moved == Transitioned(issues[k0], to, NoResolution, clock + 1)
               IN  \/ issues' = [issues EXCEPT ![k0] = moved] /\ moved.assignee = a
                   \/ issues' = [issues EXCEPT ![k0] = Assigned(moved, a, clock + 2)]
            /\ granted' = [granted EXCEPT ![k0] = Granted(k0, a, takeOver, to)]
      BY <2>7 DEF ClaimFresh
    <3>3. k0 \in DOMAIN issues /\ DOMAIN issues' = DOMAIN issues /\ catalog' = catalog
      BY <2>7, <3>2 DEF ClaimFresh
    <3>4. issues'[k0].status = to /\ issues'[k0].assignee = a
      <4> DEFINE moved == Transitioned(issues[k0], to, NoResolution, clock + 1)
      <4>1. moved \in Issue /\ moved.status = to
        <5>1. issues[k0] \in Issue /\ to \in Status /\ clock + 1 \in Nat
          BY <3>2, <3>3 DEF ClaimTargets, FirstInProgress, Destinations, TypeOK
        <5>2. moved \in Issue
          BY <5>1, TransitionedType
        <5>3. moved.status = to
          BY <5>1 DEF Transitioned, Issue
        <5>4. QED
          BY <5>2, <5>3
      <4>2. /\ Assigned(moved, a, clock + 2).status = moved.status
            /\ Assigned(moved, a, clock + 2).assignee = a
        <5> HIDE DEF moved
        <5>1. QED
          BY <4>1 DEF Assigned, Issue
      <4>3. \/ issues'[k0] = moved /\ moved.assignee = a
            \/ issues'[k0] = Assigned(moved, a, clock + 2)
        BY <3>2, <3>3
      <4>4. QED
        BY <4>1, <4>2, <4>3
    <3>5. granted'[k0] = Granted(k0, a, takeOver, to)
      BY <3>2 DEF TypeOK
    <3>6. ASSUME NEW g \in granted'[k0], g.working
          PROVE  g = [by |-> a, working |-> InProgress(to)] /\ InProgress(to)
      BY <3>1, <3>5, <3>6 DEF Granted
    <3>7. GrantsRight(k0)'
      BY <3>3, <3>4, <3>6 DEF GrantsRight, InProgress
    <3>8. \A k \in Key : k # k0 => GrantsRight(k)'
      BY <3>2, <3>3 DEF ClaimExclusive, GrantsRight, TypeOK, InProgress
    <3>9. QED
      BY <3>7, <3>8 DEF ClaimExclusive, GrantsRight
  <2>8. ASSUME NEW k0 \in Key, NEW a \in Actor, NEW takeOver \in BOOLEAN,
               ClaimHeld(k0, a, takeOver)
        PROVE  ClaimExclusive'
    <3> DEFINE new == [by |-> a, working |-> TRUE]
    <3>1. k0 \in DOMAIN issues /\ InProgress(issues[k0].status) /\ catalog' = catalog
      BY <2>8 DEF ClaimHeld
    <3>2. granted'[k0] = {new} \cup (IF takeOver THEN {} ELSE granted[k0])
      BY <2>8, <3>1 DEF ClaimHeld, Granted, TypeOK, InProgress
    <3>3. /\ DOMAIN issues' = DOMAIN issues
          /\ issues'[k0].status = issues[k0].status
          /\ issues'[k0].assignee = a
          /\ \A k \in DOMAIN issues : k # k0 => issues'[k] = issues[k]
      BY <2>8, <3>1 DEF ClaimHeld, Assigned, TypeOK, Issue
    <3>4. ASSUME NEW g \in granted[k0], g.working, ~takeOver
          PROVE  g = new
      <4>1. g.by \in Actor /\ g = [by |-> g.by, working |-> g.working]
        BY DEF TypeOK, Grant
      <4>2. issues[k0].assignee = g.by
        BY <3>4 DEF ClaimExclusive
      <4>3. issues[k0].assignee \in {NoOne, a}
        BY <2>8, <3>1, <3>4 DEF ClaimHeld, Conflicts
      <4>4. QED
        BY <3>4, <4>1, <4>2, <4>3, WorkflowAssumption DEF TypeOK, Grant
    <3>5. \A g \in granted'[k0] : g.working => g = new
      BY <3>2, <3>4
    <3> HIDE DEF new
    <3>6. InProgress(issues[k0].status)'
      BY <3>1, <3>3 DEF InProgress
    <3>7. GrantsRight(k0)'
      <4>1. new.by = a
        BY DEF new
      <4>2. QED
        BY <3>1, <3>3, <3>5, <3>6, <4>1 DEF GrantsRight
    <3>8. \A k \in Key : k # k0 => GrantsRight(k)'
      BY <2>8, <3>1, <3>3 DEF ClaimHeld, ClaimExclusive, GrantsRight, TypeOK, InProgress
    <3>9. QED
      BY <3>7, <3>8 DEF ClaimExclusive, GrantsRight
  <2>9. ASSUME NEW from \in Status, NEW to \in Status, MergeStatus(from, to)
        PROVE  ClaimExclusive'
    <3>1. /\ DOMAIN issues' = DOMAIN issues /\ granted' = granted
          /\ catalog' = catalog \ {from} /\ to \in catalog
          /\ to # from /\ Category[from] = Category[to]
      BY <2>9 DEF MergeStatus, MayMerge
    <3>2. ASSUME NEW k \in DOMAIN issues
          PROVE  /\ issues'[k].assignee = issues[k].assignee
                 /\ issues'[k].status = IF issues[k].status = from THEN to ELSE issues[k].status
      <4>1. issues[k] \in Issue /\ issues'[k] = Merged(issues[k], from, to, clock + 1)
        BY <2>9, <3>2 DEF MergeStatus, TypeOK
      <4>2. QED
        BY <4>1 DEF Merged, RefersTo, Issue
    <3>3. ASSUME NEW k \in DOMAIN issues, InProgress(issues[k].status)
          PROVE  InProgress(issues[k].status)'
      BY <3>1, <3>2, <3>3 DEF InProgress
    <3>4. QED
      BY <3>1, <3>2, <3>3 DEF ClaimExclusive
  <2>10. CASE UNCHANGED vars
    BY <2>10 DEF vars, ClaimExclusive, InProgress
  <2>11. QED
    BY <2>1, <2>2, <2>3, <2>4, <2>5, <2>6, <2>7, <2>8, <2>9, <2>10 DEF Next
<1>3. QED
  BY <1>1, <1>2, TypeCorrect, PTL DEF Spec

-----------------------------------------------------------------------------
(* Status merges. *)

\* An issue and its changelog name statuses of the catalog only.
HistoryIn(h, cat) == \A i \in OnAxis(h, "status") : {h[i].from, h[i].to} \subseteq cat
StatusesIn(iss, cat) == iss.status \in cat /\ HistoryIn(iss.history, cat)

\* A row appended to the changelog is all there is to look at.
LEMMA AppendIn ==
  ASSUME NEW h \in Seq(Row), NEW row \in Row, NEW cat, HistoryIn(h, cat),
         row.field = "status" => {row.from, row.to} \subseteq cat
  PROVE  HistoryIn(Append(h, row), cat)
<1> DEFINE g == Append(h, row)
<1>1. /\ DOMAIN g = 1..(Len(h) + 1) /\ DOMAIN h = 1..Len(h) /\ Len(h) \in Nat
      /\ g[Len(h) + 1] = row
      /\ \A i \in 1..Len(h) : g[i] = h[i]
  OBVIOUS
<1> HIDE DEF g
<1>2. ASSUME NEW i \in OnAxis(g, "status")
      PROVE  {g[i].from, g[i].to} \subseteq cat
  <2>1. i \in 1..(Len(h) + 1) /\ g[i].field = "status"
    BY <1>1 DEF OnAxis
  <2>2. CASE i = Len(h) + 1
    BY <1>1, <2>1, <2>2
  <2>3. CASE i \in 1..Len(h)
    BY <1>1, <2>1, <2>3 DEF HistoryIn, OnAxis
  <2>4. QED
    BY <1>1, <2>1, <2>2, <2>3
<1>3. QED
  BY <1>2 DEF HistoryIn, g

\* A changelog item of UpdateIssue is not about the status.
LEMMA ChangedIn ==
  ASSUME NEW h \in Seq(Row), NEW f \in Axis, f # "status", NEW x \in FieldValue,
         NEW y \in FieldValue, NEW t \in Nat, NEW cat, HistoryIn(h, cat)
  PROVE  h \o Changed(f, x, y, t) \in Seq(Row) /\ HistoryIn(h \o Changed(f, x, y, t), cat)
<1>1. CASE x = y
  <2>1. h \o Changed(f, x, y, t) = h
    BY <1>1 DEF Changed
  <2>2. QED
    BY <2>1
<1>2. CASE x # y
  <2> DEFINE row == HistoryRow(f, x, y, t)
  <2>1. row \in Row
    BY HistoryRowType
  <2>2. row.field # "status"
    BY DEF HistoryRow
  <2>3. h \o Changed(f, x, y, t) = Append(h, row)
    BY <1>2, <2>1 DEF Changed
  <2> HIDE DEF row
  <2>4. QED
    BY <2>1, <2>2, <2>3, AppendIn
<1>3. QED
  BY <1>1, <1>2

\* A transition into a status of the catalog names no other.
LEMMA TransitionedIn ==
  ASSUME NEW iss \in Issue, NEW cat \in SUBSET Status, NEW to \in cat,
         NEW res \in Resolution \cup {NoResolution}, NEW t \in Nat, StatusesIn(iss, cat)
  PROVE  StatusesIn(Transitioned(iss, to, res, t), cat)
<1> DEFINE row == HistoryRow("status", iss.status, to, t)
           new == Transitioned(iss, to, res, t)
<1>1. new.status = to /\ new.history = Append(iss.history, row) /\ iss.history \in Seq(Row)
  BY DEF Transitioned, Issue
<1>2. row \in Row /\ row.from \in cat /\ row.to \in cat
  BY HistoryRowType DEF HistoryRow, StatusesIn, Axis, FieldValue
<1> HIDE DEF row, new
<1>3. HistoryIn(new.history, cat)
  BY <1>1, <1>2, AppendIn DEF StatusesIn
<1>4. QED
  BY <1>1, <1>3 DEF StatusesIn, new

\* A change of the assignee names no status at all.
LEMMA AssignedIn ==
  ASSUME NEW iss \in Issue, NEW cat, NEW a \in Assignee, NEW t \in Nat, StatusesIn(iss, cat)
  PROVE  StatusesIn(Assigned(iss, a, t), cat)
<1> DEFINE row == HistoryRow("assignee", iss.assignee, a, t)
           new == Assigned(iss, a, t)
<1>1. /\ new.status = iss.status /\ iss.history \in Seq(Row)
      /\ new.history = iss.history \/ new.history = Append(iss.history, row)
  BY DEF Assigned, Issue
<1>2. row \in Row
  BY HistoryRowType DEF Axis, FieldValue, Issue
<1>3. row.field # "status"
  BY DEF HistoryRow
<1> HIDE DEF row, new
<1>4. HistoryIn(new.history, cat)
  BY <1>1, <1>2, <1>3, AppendIn DEF StatusesIn
<1>5. QED
  BY <1>1, <1>4 DEF StatusesIn, new

\* Neither does an edit.
LEMMA EditedIn ==
  ASSUME NEW iss \in Issue, NEW cat, NEW a \in Assignee, NEW txt \in Text, NEW t \in Nat,
         StatusesIn(iss, cat)
  PROVE  StatusesIn(Edited(iss, a, txt, t), cat)
<1> DEFINE h1 == iss.history \o Changed("assignee", iss.assignee, a, t)
           h2 == h1 \o Changed("summary", iss.summary, txt, t)
           new == Edited(iss, a, txt, t)
<1>1. /\ iss.history \in Seq(Row)
      /\ {"assignee", "summary"} \subseteq Axis
      /\ {iss.assignee, a, iss.summary, txt} \subseteq FieldValue
  BY DEF Issue, Axis, FieldValue
<1>2. h1 \in Seq(Row) /\ HistoryIn(h1, cat)
  BY <1>1, ChangedIn DEF StatusesIn
<1> HIDE DEF h1
<1>3. HistoryIn(h2, cat)
  BY <1>1, <1>2, ChangedIn
<1>4. new.history = h2 /\ new.status = iss.status
  BY DEF Edited, Issue, h1
<1> HIDE DEF h2, new
<1>5. QED
  BY <1>3, <1>4 DEF StatusesIn, new

\* A merge takes the merged status out of the issue and out of its changelog.
LEMMA MergedIn ==
  ASSUME NEW iss \in Issue, NEW cat, NEW from \in cat, NEW to \in cat, NEW t \in Nat,
         from # to, StatusesIn(iss, cat)
  PROVE  StatusesIn(Merged(iss, from, to, t), cat \ {from})
<1>1. \A i \in DOMAIN iss.history : iss.history[i] \in Row
  BY DEF Issue
<1>2. CASE ~RefersTo(iss, from)
  BY <1>1, <1>2 DEF Merged, RefersTo, StatusesIn, HistoryIn, OnAxis
<1>3. CASE RefersTo(iss, from)
  <2> DEFINE g == [i \in DOMAIN iss.history |-> MergedRow(iss.history[i], from, to)]
             new == Merged(iss, from, to, t)
  <2>1. new.history = g /\ new.status = IF iss.status = from THEN to ELSE iss.status
    BY <1>3 DEF Merged, Issue
  <2>2. ASSUME NEW i \in OnAxis(g, "status")
        PROVE  /\ i \in OnAxis(iss.history, "status")
               /\ g[i].from = IF iss.history[i].from = from THEN to ELSE iss.history[i].from
               /\ g[i].to = IF iss.history[i].to = from THEN to ELSE iss.history[i].to
    BY <1>1, <2>2 DEF OnAxis, MergedRow, Row
  <2> HIDE DEF g, new
  <2>3. QED
    BY <2>1, <2>2 DEF StatusesIn, HistoryIn, new
<1>4. QED
  BY <1>2, <1>3

\* Once the initial status has left the catalog it is not coming back.
StraysLate == strays # {} => InitialStatus \notin catalog

\* No issue, changelog row or screen names a status that has left the catalog, but
\* for the issues CreateIssue filed into it afterwards, and they name no other.
THEOREM NothingDangles == Spec => []NoDanglingStatus
<1> DEFINE Inv == NoDanglingStatus /\ StraysLate
<1>1. Init => Inv
  BY DEF Init, EvictShadowedStatuses, NoDanglingStatus, StraysLate
<1>2. TypeOK /\ Inv /\ [Next]_vars => Inv'
  <2> SUFFICES ASSUME TypeOK, NoDanglingStatus, StraysLate, [Next]_vars
               PROVE  Inv'
    OBVIOUS
  <2>0. \A k \in DOMAIN issues : issues[k] \in Issue /\ StatusesIn(issues[k], Known(k))
    BY DEF TypeOK, NoDanglingStatus, StatusesIn, HistoryIn
  <2>1. CASE \E from \in Status, to \in Status : MergeStatus(from, to)
    <3>1. PICK from \in Status, to \in Status : MergeStatus(from, to)
      BY <2>1
    <3>2. /\ from \in catalog /\ to \in catalog /\ from # to
          /\ catalog' = catalog \ {from}
          /\ screens' = [screens EXCEPT ![from] = "noScreen",
                                        ![to] = IF @ = "noScreen" THEN screens[from] ELSE @]
          /\ issues' = [k \in DOMAIN issues |-> Merged(issues[k], from, to, clock + 1)]
          /\ strays' = strays
      BY <3>1 DEF MergeStatus, MayMerge
    <3>3. ASSUME NEW k \in DOMAIN issues'
          PROVE  StatusesIn(issues'[k], Known(k)')
      <4>1. from \in Known(k) /\ to \in Known(k) /\ clock + 1 \in Nat
        BY <3>2 DEF Known, TypeOK
      <4>2. StatusesIn(Merged(issues[k], from, to, clock + 1), Known(k) \ {from})
        BY <2>0, <3>2, <4>1, MergedIn
      <4>3. Known(k)' = Known(k) \ {from}
        BY <3>2 DEF Known, StraysLate
      <4>4. QED
        BY <3>2, <4>2, <4>3
    <3>4. \A s \in Status \ catalog' : screens'[s] = "noScreen"
      BY <3>2 DEF TypeOK, NoDanglingStatus
    <3>5. StraysLate'
      BY <3>2 DEF StraysLate
    <3>6. QED
      BY <3>2, <3>3, <3>4, <3>5 DEF NoDanglingStatus, StatusesIn, HistoryIn
  <2>2. CASE ~ \E from \in Status, to \in Status : MergeStatus(from, to)
    <3>1. catalog' = catalog /\ screens' = screens
      BY <2>2 DEF Next, CreateIssue, PostTransition, ApplyTransition, ListTransitions,
                  PostListed, SetAssignee, UpdateIssue, ClaimFresh, ClaimHeld, vars
    <3>2. /\ strays \subseteq strays'
          /\ strays' # strays => InitialStatus \notin catalog
          /\ \A k \in DOMAIN issues' \ DOMAIN issues : InitialStatus \in catalog \/ k \in strays'
      <4> DEFINE Late == /\ strays \subseteq strays'
                         /\ strays' # strays => InitialStatus \notin catalog
                         /\ \A k \in DOMAIN issues' \ DOMAIN issues :
                              InitialStatus \in catalog \/ k \in strays'
      <4>1. ASSUME NEW k \in Key, NEW a, NEW txt, CreateIssue(k, a, txt)
            PROVE  Late
        BY <4>1 DEF CreateIssue
      <4>2. ASSUME strays' = strays, DOMAIN issues' = DOMAIN issues
            PROVE  Late
        BY <4>2
      <4> HIDE DEF Late
      <4>3. Late
        BY <2>2, <4>1, <4>2 DEF Next, PostTransition, ApplyTransition, ListTransitions,
           PostListed, SetAssignee, UpdateIssue, ClaimFresh, ClaimHeld, vars
      <4>4. QED
        BY <4>3 DEF Late
    <3>3. ASSUME NEW k \in DOMAIN issues'
          PROVE  StatusesIn(issues'[k], Known(k)')
      <4>1. RowStep(k)
        BY RowSteps
      <4>2. CASE k \notin DOMAIN issues
        <5>1. InitialStatus \in Known(k)'
          BY <3>1, <3>2, <4>2 DEF Known
        <5>2. QED
          BY <4>1, <4>2, <5>1 DEF RowStep, Filed, StatusesIn, HistoryIn, OnAxis
      <4>3. CASE k \in DOMAIN issues
        <5> DEFINE old == issues[k]
                   new == issues'[k]
                   cat == Known(k)'
        <5>1. Known(k) \subseteq cat /\ catalog \subseteq cat /\ cat \in SUBSET Status
          BY <3>1, <3>2, WorkflowAssumption DEF Known, TypeOK
        <5>2. old \in Issue /\ StatusesIn(old, cat) /\ Rewritten(old, new)
          BY <2>0, <4>1, <4>3, <5>1 DEF RowStep, StatusesIn, HistoryIn
        <5> HIDE DEF old, new, cat
        <5>3. ASSUME NEW to \in catalog, NEW res \in Resolution \cup {NoResolution}, NEW t \in Nat
              PROVE  /\ StatusesIn(Transitioned(old, to, res, t), cat)
                     /\ Transitioned(old, to, res, t) \in Issue
          BY <5>1, <5>2, TransitionedIn, TransitionedType
        <5>4. ASSUME NEW iss \in Issue, NEW a \in Assignee, NEW t \in Nat, StatusesIn(iss, cat)
              PROVE  StatusesIn(Assigned(iss, a, t), cat)
          BY <5>4, AssignedIn
        <5>5. ASSUME NEW a \in Assignee, NEW txt \in Text, NEW t \in Nat
              PROVE  StatusesIn(Edited(old, a, txt, t), cat)
          BY <5>2, EditedIn
        <5>6. ASSUME NEW to \in catalog, NEW a \in Assignee, NEW t \in Nat
              PROVE  StatusesIn(Assigned(Transitioned(old, to, NoResolution, t), a, t + 1), cat)
          BY <5>3, <5>4
        <5>7. \A from : from \in catalog => catalog' # catalog \ {from}
          BY <3>1
        <5>8. \/ new = old
              \/ \E to \in catalog, res \in Resolution \cup {NoResolution}, t \in Nat :
                   new = Transitioned(old, to, res, t)
              \/ \E a \in Assignee, t \in Nat : new = Assigned(old, a, t)
              \/ \E a \in Assignee, txt \in Text, t \in Nat : new = Edited(old, a, txt, t)
              \/ \E to \in catalog, a \in Assignee, t \in Nat :
                   new = Assigned(Transitioned(old, to, NoResolution, t), a, t + 1)
          BY <5>2, <5>7 DEF Rewritten
        <5>9. StatusesIn(new, cat)
          BY <5>2, <5>3, <5>4, <5>5, <5>6, <5>8
        <5>10. QED
          BY <5>9 DEF new, cat
      <4>4. QED
        BY <4>2, <4>3
    <3>4. StraysLate'
      BY <3>1, <3>2 DEF StraysLate
    <3>5. QED
      BY <3>1, <3>3, <3>4 DEF NoDanglingStatus, StatusesIn, HistoryIn
  <2>3. QED
    BY <2>1, <2>2
<1>3. QED
  <2>1. Inv => NoDanglingStatus
    OBVIOUS
  <2>2. QED
    BY <1>1, <1>2, <2>1, TypeCorrect, PTL DEF Spec

-----------------------------------------------------------------------------
(* Stamps. *)

Stamped == \A k \in DOMAIN issues : issues[k].updated <= clock

\* A step leaves a row as it was or stamps it with a tick of its own.
Fresh(k) ==
  \/ k \in DOMAIN issues /\ issues'[k] = issues[k]
  \/ clock < issues'[k].updated /\ issues'[k].updated <= clock'

LEMMA TransitionStamps ==
  ASSUME TypeOK, NEW j, NEW id, NEW res, ApplyTransition(j, id, res), NEW k \in DOMAIN issues'
  PROVE  Fresh(k) /\ clock <= clock'
<1>1. PICK to : issues' = [issues EXCEPT ![j] = Transitioned(@, to, res, clock + 1)]
  BY DEF ApplyTransition
<1>2. clock' = clock + 1 /\ clock \in Nat
  BY DEF ApplyTransition, Tick, TypeOK
<1>3. CASE k = j
  <2>1. j \in DOMAIN issues /\ issues[j] \in Issue
    BY DEF ApplyTransition, TypeOK
  <2>2. Transitioned(issues[j], to, res, clock + 1).updated = clock + 1
    BY <2>1 DEF Transitioned, Issue
  <2>3. issues'[j] = Transitioned(issues[j], to, res, clock + 1)
    BY <1>1, <2>1
  <2>4. QED
    BY <1>2, <1>3, <2>2, <2>3 DEF Fresh
<1>4. CASE k # j
  BY <1>1, <1>2, <1>4 DEF Fresh
<1>5. QED
  BY <1>3, <1>4

\* Every handler that writes a row ticks the clock for it; none turns it back.
LEMMA StampSteps ==
  ASSUME TypeOK, [Next]_vars, NEW k \in DOMAIN issues'
  PROVE  Fresh(k) /\ clock <= clock'
<1> USE DEF TypeOK
<1>1. ASSUME NEW j \in Key, NEW a \in Assignee, NEW txt \in Text, CreateIssue(j, a, txt)
      PROVE  Fresh(k) /\ clock <= clock'
  BY <1>1 DEF CreateIssue, Tick, Fresh
<1>2. ASSUME NEW j \in Key, NEW a \in Assignee, SetAssignee(j, a)
      PROVE  Fresh(k) /\ clock <= clock'
  BY <1>2 DEF SetAssignee, Assigned, Tick, Fresh, Issue
<1>3. ASSUME NEW j \in Key, NEW a \in Assignee, NEW txt \in Text, UpdateIssue(j, a, txt)
      PROVE  Fresh(k) /\ clock <= clock'
  BY <1>3 DEF UpdateIssue, Edited, Tick, Fresh, Issue
<1>4. ASSUME NEW j \in Key, NEW a \in Actor, NEW takeOver \in BOOLEAN, ClaimHeld(j, a, takeOver)
      PROVE  Fresh(k) /\ clock <= clock'
  <2>1. j \in DOMAIN issues /\ issues[j] \in Issue
    BY <1>4 DEF ClaimHeld
  <2>2. Assigned(issues[j], a, clock + 1).updated = clock + 1
    BY <2>1 DEF Assigned, Issue
  <2>3. \/ issues' = issues /\ clock' = clock
        \/ /\ clock' = clock + 1
           /\ issues' = [issues EXCEPT ![j] = Assigned(issues[j], a, clock + 1)]
    BY <1>4 DEF ClaimHeld, Tick
  <2>4. QED
    BY <2>1, <2>2, <2>3 DEF Fresh
<1>5. ASSUME NEW j \in Key, NEW a \in Actor, NEW takeOver \in BOOLEAN,
             NEW explicit \in BOOLEAN, ClaimFresh(j, a, takeOver, explicit)
      PROVE  Fresh(k) /\ clock <= clock'
  <2>1. PICK to \in ClaimTargets(issues[j].status, explicit) :
          LET moved == Transitioned(issues[j], to, NoResolution, clock + 1)
          IN  \/ Tick(1) /\ issues' = [issues EXCEPT ![j] = moved]
              \/ Tick(2) /\ issues' = [issues EXCEPT ![j] = Assigned(moved, a, clock + 2)]
    BY <1>5 DEF ClaimFresh
  <2> DEFINE moved == Transitioned(issues[j], to, NoResolution, clock + 1)
  <2>2. moved \in Issue /\ moved.updated = clock + 1
    <3>1. issues[j] \in Issue /\ to \in Status /\ clock + 1 \in Nat
      BY <1>5, <2>1 DEF ClaimFresh, ClaimTargets, FirstInProgress, Destinations
    <3>2. moved \in Issue
      BY <3>1, TransitionedType
    <3>3. moved.updated = clock + 1
      BY <3>1 DEF Transitioned, Issue
    <3>4. QED
      BY <3>2, <3>3
  <2>3. \/ Tick(1) /\ issues' = [issues EXCEPT ![j] = moved]
        \/ Tick(2) /\ issues' = [issues EXCEPT ![j] = Assigned(moved, a, clock + 2)]
    BY <2>1
  <2> HIDE DEF moved
  <2>4. Assigned(moved, a, clock + 2).updated = clock + 2
    BY <2>2 DEF Assigned, Issue
  <2>5. QED
    BY <2>2, <2>3, <2>4 DEF Tick, Fresh
<1>6. ASSUME NEW from \in Status, NEW to \in Status, MergeStatus(from, to)
      PROVE  Fresh(k) /\ clock <= clock'
  <2>1. /\ clock' = clock + 1 /\ k \in DOMAIN issues /\ issues[k] \in Issue
        /\ issues'[k] = Merged(issues[k], from, to, clock + 1)
    BY <1>6 DEF MergeStatus, Tick
  <2>2. \/ Merged(issues[k], from, to, clock + 1) = issues[k]
        \/ Merged(issues[k], from, to, clock + 1).updated = clock + 1
    BY <2>1 DEF Merged, Issue
  <2>3. QED
    BY <2>1, <2>2 DEF Fresh
<1>7. ASSUME NEW r \in Reader, NEW j \in Key, ListTransitions(r, j)
      PROVE  Fresh(k) /\ clock <= clock'
  BY <1>7 DEF ListTransitions, Fresh
<1>8. CASE UNCHANGED vars
  BY <1>8 DEF vars, Fresh
<1>9. QED
  BY <1>1, <1>2, <1>3, <1>4, <1>5, <1>6, <1>7, <1>8, TransitionStamps
     DEF Next, PostTransition, PostListed

\* A row that is written gets a stamp later than every row had: the delta reader's
\* `updated >=` never misses a write.
THEOREM DeltaReaderMissesNothing == Spec => WritesMoveUpdated
<1> DEFINE Later ==
      \A k \in DOMAIN issues' :
        (k \notin DOMAIN issues \/ issues'[k] # issues[k]) =>
          \A j \in DOMAIN issues : issues'[k].updated > issues[j].updated
<1>1. Init => Stamped
  BY DEF Init, Stamped
<1>2. TypeOK /\ TypeOK' /\ Stamped /\ [Next]_vars => Stamped' /\ Later
  <2> SUFFICES ASSUME TypeOK, TypeOK', Stamped, [Next]_vars, NEW k \in DOMAIN issues'
               PROVE  /\ issues'[k].updated <= clock'
                      /\ (k \notin DOMAIN issues \/ issues'[k] # issues[k]) =>
                           \A j \in DOMAIN issues : issues'[k].updated > issues[j].updated
    BY DEF Stamped
  <2>1. Fresh(k) /\ clock <= clock'
    BY StampSteps
  <2>2. clock \in Nat /\ clock' \in Nat /\ issues'[k].updated \in Nat
        /\ \A j \in DOMAIN issues : issues[j].updated \in Nat /\ issues[j].updated <= clock
    BY DEF TypeOK, Stamped, Issue
  <2>3. QED
    BY <2>1, <2>2 DEF Fresh
<1>3. Later => [Later]_vars
  OBVIOUS
<1>4. QED
  BY <1>1, <1>2, <1>3, TypeCorrect, PTL DEF Spec, WritesMoveUpdated
-----------------------------------------------------------------------------
(* Transition ids.                                                         *)

\* No two destinations have the same position, so an id names one at most.
LEMMA OneAtAPosition ==
  ASSUME NEW D \in SUBSET Status, NEW d \in D, NEW e \in D, Position(D, d) = Position(D, e)
  PROVE  d = e
<1> DEFINE UpTo(x) == {s \in D : s <= x}
<1>1. D \subseteq Nat /\ IsFiniteSet(D)
  BY WorkflowAssumption, FS_Subset
<1>2. ASSUME NEW x \in D, NEW y \in D, Position(D, x) = Position(D, y), x < y
      PROVE  FALSE
  <2>1. IsFiniteSet(UpTo(y))
    BY <1>1, FS_Subset, UpTo(y) \subseteq D
  <2>2. UpTo(x) \in SUBSET UpTo(y) /\ y \in UpTo(y) /\ y \notin UpTo(x)
    <3>1. x \in Nat /\ y \in Nat /\ x < y
      BY <1>1, <1>2
    <3>2. ASSUME NEW s \in D, s <= x
          PROVE  s <= y
      BY <1>1, <3>1, <3>2
    <3>3. y <= y /\ ~(y <= x)
      BY <3>1
    <3> QED BY <3>2, <3>3
  <2>3. Cardinality(UpTo(x)) = Cardinality(UpTo(y))
    BY <1>2 DEF Position
  <2> HIDE DEF UpTo
  <2>4. UpTo(x) = UpTo(y)
    BY <2>1, <2>2, <2>3, FS_Subset
  <2> QED BY <2>2, <2>4
<1>3. d \in Nat /\ e \in Nat
  BY <1>1
<1>4. ~(d < e) /\ ~(e < d)
  BY <1>2
<1> QED BY <1>3, <1>4

\* What a client remembers is the position its destination had.
ListingOK(l) ==
  l # NoListing =>
    /\ l.catalog \subseteq Status
    /\ l.wanted \in Destinations(l.catalog, l.from)
    /\ l.id = Position(Destinations(l.catalog, l.from), l.wanted)

ListingsOK == \A r \in Reader : ListingOK(listing[r])

LEMMA ListingSteps ==
  ASSUME TypeOK, ListingsOK, [Next]_vars
  PROVE  ListingsOK'
<1>1. ASSUME NEW r \in Reader, NEW k \in Key, ListTransitions(r, k)
      PROVE  ListingsOK'
  <2>1. PICK d \in Destinations(catalog, issues[k].status) :
          listing' = [listing EXCEPT ![r] =
            [key |-> k, from |-> issues[k].status, catalog |-> catalog, wanted |-> d,
             id |-> ListedId(k, d)]]
    BY <1>1 DEF ListTransitions
  <2> DEFINE new == [key |-> k, from |-> issues[k].status, catalog |-> catalog, wanted |-> d,
                     id |-> ListedId(k, d)]
  <2>2. ListingOK(new)
    BY DEF ListingOK, ListedId, TypeOK
  <2>3. listing' = [listing EXCEPT ![r] = new]
    BY <2>1
  <2> HIDE DEF new
  <2> QED BY <2>2, <2>3 DEF ListingsOK, TypeOK
<1>2. ASSUME NEW r \in Reader, listing' = [listing EXCEPT ![r] = NoListing]
      PROVE  ListingsOK'
  <2>1. ListingOK(NoListing)
    BY DEF ListingOK
  <2> QED BY <1>2, <2>1 DEF ListingsOK, TypeOK
<1>3. CASE UNCHANGED listing
  BY <1>3 DEF ListingsOK
<1> QED
  BY <1>1, <1>2, <1>3 DEF Next, vars, CreateIssue, PostTransition, PostListed, SetAssignee,
     UpdateIssue, ClaimHeld, ClaimFresh, MergeStatus

\* Nothing but the request that uses a listing forgets it.
LEMMA ForgottenByUse ==
  ASSUME TypeOK, [Next]_vars, NEW r \in Reader,
         listing[r] # NoListing, listing'[r] = NoListing
  PROVE  \E res : ApplyTransition(listing[r].key, listing[r].id, res)
<1>1. ASSUME NEW q \in Reader, NEW k \in Key, ListTransitions(q, k)
      PROVE  listing'[r] # NoListing
  <2>1. PICK d : listing' = [listing EXCEPT ![q] =
            [key |-> k, from |-> issues[k].status, catalog |-> catalog, wanted |-> d,
             id |-> ListedId(k, d)]]
    BY <1>1 DEF ListTransitions
  <2> DEFINE new == [key |-> k, from |-> issues[k].status, catalog |-> catalog, wanted |-> d,
                     id |-> ListedId(k, d)]
  <2>2. new # NoListing
    <3>1. "from" \in DOMAIN new /\ "from" \notin DOMAIN NoListing
      BY DEF NoListing
    <3> QED BY <3>1
  <2>3. listing' = [listing EXCEPT ![q] = new]
    BY <2>1
  <2> HIDE DEF new
  <2> QED BY <2>2, <2>3 DEF TypeOK
<1>2. ASSUME NEW q \in Reader, NEW res, PostListed(q, res)
      PROVE  \E x : ApplyTransition(listing[r].key, listing[r].id, x)
  <2>1. q = r
    BY <1>2 DEF PostListed, TypeOK
  <2> QED BY <1>2, <2>1 DEF PostListed
<1>3. ~UNCHANGED listing
  OBVIOUS
<1> QED
  BY <1>1, <1>2, <1>3 DEF Next, vars, CreateIssue, PostTransition, SetAssignee,
     UpdateIssue, ClaimHeld, ClaimFresh, MergeStatus

\* A transition id kept from a listing lands on the status it was listed for, as long as
\* the issue's status and the catalog are what they were.
THEOREM ListedIdAlwaysLands == Spec => ListedIdLands
<1> DEFINE Lands ==
      \A r \in Reader :
        LET l == listing[r]
        IN  l # NoListing /\ listing'[r] = NoListing
            /\ l.from = issues[l.key].status /\ l.catalog = catalog
              => issues'[l.key].status = l.wanted
<1>1. Init => ListingsOK
  BY DEF Init, ListingsOK, ListingOK
<1>2. TypeOK /\ ListingsOK /\ [Next]_vars => Lands
  <2> SUFFICES ASSUME TypeOK, ListingsOK, [Next]_vars, NEW r \in Reader,
                      listing[r] # NoListing, listing'[r] = NoListing,
                      listing[r].from = issues[listing[r].key].status,
                      listing[r].catalog = catalog
               PROVE  issues'[listing[r].key].status = listing[r].wanted
    OBVIOUS
  <2> DEFINE k == listing[r].key
             D == Destinations(catalog, issues[k].status)
  <2>1. PICK res : ApplyTransition(k, listing[r].id, res)
    BY ForgottenByUse
  <2>2. PICK to \in D : /\ Position(D, to) = listing[r].id
                        /\ issues' = [issues EXCEPT ![k] = Transitioned(@, to, res, clock + 1)]
    BY <2>1 DEF ApplyTransition
  <2>3. /\ listing[r].wanted \in D /\ Position(D, listing[r].wanted) = listing[r].id
        /\ D \in SUBSET Status
    BY DEF ListingsOK, ListingOK, Destinations, TypeOK
  <2> HIDE DEF D
  <2>4. to = listing[r].wanted
    BY <2>2, <2>3, OneAtAPosition
  <2>5. k \in DOMAIN issues /\ issues[k] \in Issue
    BY <2>1 DEF ApplyTransition, TypeOK
  <2>6. issues'[k] = Transitioned(issues[k], to, res, clock + 1)
    BY <2>2, <2>5
  <2>7. Transitioned(issues[k], to, res, clock + 1).status = to
    BY <2>5 DEF Transitioned, Issue
  <2> QED BY <2>4, <2>6, <2>7
<1>3. Lands => [Lands]_vars
  OBVIOUS
<1> HIDE DEF Lands
<1>4. Spec => [][Lands]_vars
  BY <1>1, <1>2, <1>3, ListingSteps, TypeCorrect, PTL DEF Spec
<1> QED BY <1>4 DEF ListedIdLands, Lands
=============================================================================
