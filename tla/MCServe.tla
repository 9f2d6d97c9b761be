-------------------------------- MODULE MCServe --------------------------------
(* A graph from its file to its workflow: how starts make or find the file,  *)
(* and what its clients do to issues, statuses and screens once one serves   *)
(* it.  A behaviour is one of the two; the other is left at its beginning.   *)
(* The workflow of a graph whose fixture evicts the initial status has one   *)
(* tick less than that of a graph with the whole catalog.                    *)
EXTENDS MCStartup, MCWorkflow

VARIABLE part

mcVars == <<startupVars, vars, part>>

MCInit ==
  /\ StartupInit /\ Init
  /\ part \in {"start", "workflow", "shadowed"}
  /\ catalog = Status <=> part # "shadowed"

MCNext ==
  /\ UNCHANGED part
  /\ \/ part = "start" /\ StartupNext /\ UNCHANGED vars
     \/ part = "workflow" /\ Next /\ UNCHANGED startupVars
     \/ part = "shadowed" /\ Next /\ clock' < MaxClock /\ UNCHANGED startupVars

MCSpec == MCInit /\ [][MCNext]_mcVars

\* Processes and keys are alike in both; see the two modules.
AllAlike == Alike \cup KeysAndTexts
=============================================================================
