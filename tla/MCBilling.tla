------------------------------ MODULE MCBilling ------------------------------
(* Instances of Billing for TLC: two tiers, of which the higher is granted *)
(* credits; a grace period of one clock unit.                              *)
EXTENDS Billing

\* Bound: a behaviour is not followed beyond the first save of an outdated document, of
\* which the properties say nothing but the type, and the type is proved.
Fresh == ~stale
===============================================================================
