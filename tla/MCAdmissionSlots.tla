-------------------------- MODULE MCAdmissionSlots --------------------------
(***************************************************************************)
(* The model-checking instance of AdmissionSlots.  Its run checks a        *)
(* liveness property too, so requests are not declared symmetric.          *)
(***************************************************************************)
EXTENDS AdmissionSlots
=============================================================================
