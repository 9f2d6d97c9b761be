------------------------------- MODULE MCCommits -------------------------------
(* Several processes on one file, and what may come between two commits of   *)
(* one: another opener in a migration, another process in a request.  They   *)
(* are different times in the life of a file, so a behaviour exercises one   *)
(* and leaves the other at its beginning.                                    *)
EXTENDS MCMigrate, MCSharedStore

VARIABLE part

mcVars == <<migrateVars, vars, part>>

\* Only the requests have a choice of processes.
MCInit ==
  /\ MigrateInit /\ Init
  /\ part \in {"migration", "requests"}
  /\ part = "requests" \/ home = [t \in Thread |-> p1]

MCNext ==
  /\ UNCHANGED part
  /\ \/ part = "migration" /\ MigrateNext /\ UNCHANGED vars
     \/ part = "requests" /\ Next /\ UNCHANGED migrateVars

\* The fairness of the openers and of the request threads; a part that is left at
\* its beginning has nobody with a step that is due.
MCSpec == MCInit /\ [][MCNext]_mcVars /\ OpenersKeepGoing /\ ThreadsKeepGoing
=============================================================================
