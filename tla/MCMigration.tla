----------------------------- MODULE MCMigration -----------------------------
(***************************************************************************)
(* Instances of module Migration for TLC.                                  *)
(***************************************************************************)
EXTENDS Migration, TLC

CONSTANTS p1, p2, p3

\* Two openers of one build and one of the build before it.
MCBuild == p1 :> 1 @@ p2 :> 2 @@ p3 :> 2
=============================================================================
