------------------------------- MODULE MCSprints -------------------------------
(* Two issues and two sprints; a request names one key, both, or one twice.  *)
(* The file opened first is one with nothing planned, or one with a sprint   *)
(* under way that holds both issues.                                         *)
EXTENDS Sprints

CONSTANT none

MCKeyLists == {<<1>>, <<2, 1>>, <<1, 1>>}
Planned(d, m, h) == [done |-> d, members |-> m, updated |-> 0, history |-> h]
Unplanned == [sprints |-> << >>,
              issues |-> << Planned(FALSE, << >>, << >>), Planned(TRUE, << >>, << >>) >>]
UnderWay ==
  LET joined == Planned(FALSE, <<1>>, << [from |-> none, to |-> 1] >>)
  IN  [sprints |-> << [state |-> "active", activated |-> 0, completed |-> 0] >>,
       issues |-> << joined, joined >>]
MCDatabases == {Unplanned, UnderWay}
=============================================================================
