------------------------------ MODULE MCAccess ------------------------------
(***************************************************************************)
(* Model-checking instances of Access and Dialects.  Sessions, invitations and calls    *)
(* are interchangeable.                                                    *)
(***************************************************************************)
EXTENDS Dialects, TLC

AccessSymmetry ==
    Permutations(Sessions) \cup Permutations(Invitations) \cup Permutations(Calls)
=============================================================================
