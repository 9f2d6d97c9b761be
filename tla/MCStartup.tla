------------------------------- MODULE MCStartup -------------------------------
(* Two processes start on one path with a fixture of two issue comments, one   *)
(* with an id and one without; clients create two more rows of any kind.       *)
EXTENDS Startup, TLC

CONSTANTS p1, p2, f1, f2, c1, c2

MCFixture ==
  << [key |-> f1, kind |-> "issueComment", id |-> 2],
     [key |-> f2, kind |-> "issueComment", id |-> 0] >>

MCKind == {"issueComment", "pageComment", "project"}

\* Processes differ in nothing, nor do the keys clients give to new rows.
Alike == Permutations(Process) \cup Permutations(ClientKey)
=============================================================================
