----------------------------- MODULE MCJobQueue -----------------------------
(***************************************************************************)
(* Model-checking instances of JobQueue.  Workers are interchangeable: the *)
(* safety run uses the symmetry, the liveness runs do not.                 *)
(***************************************************************************)
EXTENDS JobQueue, TLC

WorkerSymmetry == Permutations(Workers)
=============================================================================
