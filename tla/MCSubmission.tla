---------------------------- MODULE MCSubmission ----------------------------
(***************************************************************************)
(* The model-checking instance of Submission.  Requests are                *)
(* interchangeable, and so are request hashes: of the initial states that  *)
(* differ only by a renaming of either, one is enough.  (A SYMMETRY set    *)
(* would not be sound for the liveness property.)                          *)
(***************************************************************************)
EXTENDS Submission

CONSTANTS r1, r2, r3,   \* the three requests
          h1            \* one of the two request hashes

\* Requests without a key come first, and among equals those with hash h1.
Rank(r) == (IF Keyed(r) THEN 2 ELSE 0) + (IF hash[r] = h1 THEN 0 ELSE 1)

MCInit == Init /\ hash[r1] = h1 /\ Rank(r1) <= Rank(r2) /\ Rank(r2) <= Rank(r3)

MCSpec == MCInit /\ [][Next]_vars /\ Fairness
=============================================================================
