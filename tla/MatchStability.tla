---------------------------- MODULE MatchStability ----------------------------
(***************************************************************************)
(* A phone that lies still: its heartbeats see the same venues at the same *)
(* distances again and again.  What VenueMatch makes of them, from any     *)
(* venue and any pending candidate the user's document may hold, when no   *)
(* boost and no grace window holds the user.                               *)
(***************************************************************************)
EXTENDS VenueMatch, FiniteSets

CONSTANT Lists  \* the candidate lists explored

VARIABLES
    cands,   \* what every heartbeat sees
    old,     \* currentLocation
    pending, \* pendingLocation
    beats,   \* heartbeats so far, at most MaxBeats
    gpsOnly  \* no heartbeat so far was decided by Bluetooth

vars == <<cands, old, pending, beats, gpsOnly>>

MaxBeats == 3

TypeOK ==
    /\ cands \in Seq(Candidate)
    /\ old \in Venue \cup {NoVenue} /\ pending \in Venue \cup {NoVenue}
    /\ beats \in 0 .. MaxBeats
    /\ gpsOnly \in BOOLEAN

Init ==
    /\ cands \in Lists
    /\ old \in Venue \cup {NoVenue}
    /\ pending \in Venue \cup {NoVenue}
    /\ beats = 0
    /\ gpsOnly = TRUE

Beat ==
    /\ beats < MaxBeats
    /\ \E ble \in BleAnswers(cands, old) :
          /\ old' = Matched(cands, old, pending, ble)
          /\ pending' = PendingAfter(cands, old, pending, ble)
          /\ gpsOnly' = (gpsOnly /\ ble = NoVenue)
    /\ beats' = beats + 1
    /\ cands' = cands

Spec == Init /\ [][Beat]_vars

\* A user within the radius of the nearest venue is present somewhere after two
\* heartbeats at the latest: an ambiguity costs one heartbeat, it never blocks.
Settles == gpsOnly /\ beats >= 2 /\ NearestInRange(cands) => old # NoVenue

\* Once the GPS alone has put a user who does not move in a venue, no later
\* heartbeat moves the user out of it or on to a neighbour.
NoFlapping == [][gpsOnly' /\ beats >= 1 /\ old # NoVenue => old' = old]_vars

\* Nobody is counted in a venue far away, whatever radius its document holds: at
\* most 110 % of the cap, or within the lead of a nearest venue that is in range.
MatchIsNear ==
    beats >= 1 /\ old # NoVenue =>
        \E i \in DOMAIN cands :
            /\ cands[i].id = old
            /\ \/ 10 * cands[i].dist <= 11 * MaxRadius
               \/ /\ cands[1].dist <= MaxRadius
                  /\ cands[i].dist - cands[1].dist < MinLead

\* A candidate left pending is one the next heartbeat will confirm: it is in range
\* and the user is not present anywhere else.
PendingIsConfirmable ==
    beats >= 1 /\ pending # NoVenue =>
        NearestInRange(cands) /\ pending = cands[1].id /\ old = NoVenue

\* All of it: two heartbeats put a user who does not move in a venue, it is one nearby, a
\* pending candidate is one the next heartbeat confirms, and what the GPS alone decided it
\* does not undo.
MatchSound == [](Settles /\ MatchIsNear /\ PendingIsConfirmable) /\ NoFlapping
===============================================================================
