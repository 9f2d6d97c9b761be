----------------------------- MODULE VersionedPage -----------------------------
(***************************************************************************)
(* What Confluence's optimistic concurrency promises: the history of a     *)
(* page only grows, one edit at a time, no edit enters it twice, and each  *)
(* edit was made by someone who had seen the one right before it.          *)
(***************************************************************************)
EXTENDS Sequences

CONSTANTS
  Page,   \* page ids
  Edit,   \* edits, each with the edit it was made on: records with a field on
  Origin  \* the edits of the pages there are at first: a set of functions from page ids

VARIABLE history   \* the edits of each existing page, oldest first

Made(p, e) == \E n \in DOMAIN history[p] : history[p][n] = e

Init == history \in { [p \in DOMAIN o |-> <<o[p]>>] : o \in Origin }

Create ==
  \E p \in Page \ DOMAIN history, e \in Edit :
    history' = [q \in DOMAIN history \cup {p} |-> IF q = p THEN <<e>> ELSE history[q]]

Update ==
  \E p \in DOMAIN history, e \in Edit :
    /\ ~Made(p, e)
    /\ e.on = history[p][Len(history[p])].id
    /\ history' = [history EXCEPT ![p] = Append(@, e)]

Next == Create \/ Update
Spec == Init /\ [][Next]_history
=============================================================================
