---------------------------- MODULE PresenceOrder -----------------------------
(***************************************************************************)
(* What the presence field of a user's document promises, without saying   *)
(* how: it is a register written by requests that carry the time they      *)
(* started at.  A request never overwrites one that started after it; a    *)
(* clean-up may only empty the register.                                   *)
(***************************************************************************)
EXTENDS Naturals

CONSTANTS Place, NoPlace

VARIABLES
    place,  \* where the user is, or NoPlace
    stamp   \* the start time of the request that wrote last, 0 at first

Init == place = NoPlace /\ stamp = 0

\* The next writer is one that did not start before the last one.
LaterStamp == stamp' \in Nat /\ stamp <= stamp'

\* It records where the user is, or that the user is nowhere ...
Put(p) == LaterStamp /\ place' = p

\* ... or leaves the user where it is.
Confirm == LaterStamp /\ place' = place

CleanUp ==
    /\ place # NoPlace
    /\ place' = NoPlace
    /\ stamp' = stamp

Next ==
    \/ \E p \in Place \cup {NoPlace} : Put(p)
    \/ Confirm
    \/ CleanUp

Spec == Init /\ [][Next]_<<place, stamp>>
===============================================================================
