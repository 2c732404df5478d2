----------------------------- MODULE MCReferral -----------------------------
(* A small instance of Referral for TLC: one friend makes the target, and months *)
(* and rewards last two clock units, so that a reward ends within the run.       *)
EXTENDS Referral
=============================================================================
