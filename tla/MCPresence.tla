------------------------------ MODULE MCPresence ------------------------------
(* A small instance of Presence: two venues a few metres apart. *)
EXTENDS Presence, TLC

CONSTANTS v1, v2, first

ASSUME FirstAssumption == first \in Req

At(v, d) == [id |-> v, dist |-> d, radius |-> 50]

\* Nowhere; v2 clearly nearest while v1 is just inside, then just outside, its
\* hysteresis of 55 m; v1 and v2 too close to tell.
MCSightings ==
    { << >>,
      << At(v2, 20), At(v1, 55) >>,
      << At(v2, 20), At(v1, 56) >>,
      << At(v1, 10), At(v2, 15) >> }

Others == {req[r] : r \in Req \ {first}}

\* Bounds: a third request is a manual check-in that is over before the others start,
\* and they are then of the kinds whose overlaps with a stay need three requests.
EarlyOnly ==
    req[first].phase # "new" =>
        /\ \A q \in Others : q.kind \in {"heartbeat", "checkInManual", "activateBoost"}
        /\ req[first].phase # "done" => now = 1 /\ \A q \in Others : q.phase = "new"

\* Bound: one of the venues launches no Ultra Boost.
OneOffer == ultra[v2].until = NoTime

PresenceInit == Init /\ req[first].kind = "checkInManual"

PresenceNext == Next /\ EarlyOnly' /\ OneOffer'

PresenceSpec == PresenceInit /\ [][PresenceNext]_vars /\ Fairness
===============================================================================
