------------------------------ MODULE MCWorkflow ------------------------------
(* Values for the constants of Workflow: the default catalog plus a second   *)
(* to-do, in-progress and done status, as a cutover leaves it (GDK-1522), so *)
(* that every category has two statuses to merge.                            *)
EXTENDS Workflow, TLC

CONSTANTS ada, grok, fixed, k1, k2, t1, t2

\* Ranks under ORDER BY id of "10000", "10001", "10002", "10003", "10004", "3".
MCStatus == 1..6
MCCategory == << "new", "indeterminate", "new", "done", "done", "indeterminate" >>
\* One done screen asks for a resolution, the other done status has none.
MCScreens == << "noScreen", "optional", "noScreen", "required", "noScreen", "noScreen" >>
\* Keys and texts are interchangeable; actors are not, one of them is the Reader.
KeysAndTexts == Permutations({k1, k2}) \cup Permutations({t1, t2})
=============================================================================
