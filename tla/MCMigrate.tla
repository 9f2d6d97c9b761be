------------------------------- MODULE MCMigrate -------------------------------
(* Two processes open a file with one attachment; an older build may add one *)
(* and a newer one may add one.                                              *)
EXTENDS Migrate

CONSTANTS o1, o2, a1, a2, a3
=============================================================================
