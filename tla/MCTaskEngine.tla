---------------------------- MODULE MCTaskEngine ----------------------------
(***************************************************************************)
(* Small instances of TaskEngine.  One cancellable operation and the mail  *)
(* migration; the two ids are interchangeable, so TLC may permute them.    *)
(***************************************************************************)
EXTENDS TaskEngine, TLC

Symmetry == Permutations(Tasks)
=============================================================================
