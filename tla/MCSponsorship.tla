---------------------------- MODULE MCSponsorship ----------------------------
(* Instances of Sponsorship for TLC: two venues and two or three requests, a *)
(* lease of two clock units, so that every term can end, be taken over and   *)
(* be cleaned up while a request is still under way.                         *)
EXTENDS Sponsorship
===============================================================================
