------------------------------ MODULE SprintBoard ------------------------------
(***************************************************************************)
(* What the Agile API promises of sprints, apart from how agile.go does    *)
(* it: a sprint goes future, active, closed and never back; an issue has   *)
(* at most one current sprint, which is never a closed one it joined late; *)
(* and at the instant a sprint closes no unfinished issue is left in it.   *)
(***************************************************************************)
CONSTANTS Key, SprintId, NoSprint

VARIABLES
  state,    \* of every sprint, "none" until it is created
  current,  \* the current sprint of every issue
  done      \* issues whose status category is done

vars == <<state, current, done>>

\* A board is taken over as an earlier process left it.
Init ==
  /\ state \in [SprintId -> {"none", "future", "active", "closed"}]
  /\ current \in [Key -> SprintId \cup {NoSprint}]
  /\ \A k \in Key : current[k] # NoSprint => state[current[k]] # "none"
  /\ done \in SUBSET Key

Advance(s, from, to) ==
  /\ state[s] = from
  /\ state' = [state EXCEPT ![s] = to]
  /\ UNCHANGED <<current, done>>

Create(s) == Advance(s, "none", "future")
Start(s) == Advance(s, "future", "active")
Close(s) ==
  /\ \A k \in Key : current[k] = s => k \in done
  /\ Advance(s, "active", "closed")

Join(k, s) ==
  /\ state[s] \in {"future", "active"}
  /\ current' = [current EXCEPT ![k] = s]
  /\ UNCHANGED <<state, done>>

Leave(k) ==
  /\ current' = [current EXCEPT ![k] = NoSprint]
  /\ UNCHANGED <<state, done>>

\* A workflow transition into or out of the done category.
Resolve(k) ==
  /\ done' = IF k \in done THEN done \ {k} ELSE done \cup {k}
  /\ UNCHANGED <<state, current>>

Next ==
  \/ \E s \in SprintId : Create(s) \/ Start(s) \/ Close(s)
  \/ \E k \in Key, s \in SprintId : Join(k, s)
  \/ \E k \in Key : Leave(k) \/ Resolve(k)

Spec == Init /\ [][Next]_vars
=============================================================================
