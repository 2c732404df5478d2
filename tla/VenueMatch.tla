------------------------------ MODULE VenueMatch ------------------------------
(***************************************************************************)
(* How one GPS heartbeat decides which venue its user is in: the pure part *)
(* of updateLocation in services/user.service.js.  A heartbeat sees the    *)
(* venues found within 200 m, nearest first, and remembers two venues of   *)
(* the user's document: the one the user is in and the one left pending by *)
(* an earlier ambiguous heartbeat.  Distances are whole metres.            *)
(***************************************************************************)
EXTENDS Integers, Sequences

CONSTANTS
    Venue,      \* the venues (documents of the Location collection)
    NoVenue,    \* "null" in a field that holds a venue
    MaxRadius,  \* MAX_RADIUS: the cap on a venue's detection radius
    MinLead     \* MIN_LEAD_M: the lead the nearest venue needs over the next

ASSUME VenueAssumption == NoVenue \notin Venue
ASSUME RadiusAssumption == MaxRadius \in Nat /\ MinLead \in Nat

\* A candidate as $geoNear returns it.  A radius of 0 stands for a venue whose
\* document has none.
Candidate == [id : Venue, dist : Nat, radius : Nat]

\* Mutant of EffectiveRadius: the cap applies only to venues without a radius.
EffectiveRadius_NoCap(c) == IF c.radius = 0 THEN MaxRadius ELSE c.radius

EffectiveRadius(c) ==
    IF c.radius = 0 \/ c.radius > MaxRadius THEN MaxRadius ELSE c.radius

\* Mutant of StillInside: no hysteresis.
StillInside_Never(cands, old) == FALSE

\* Hysteresis: the user is still in the venue it was in, up to 110 % of the
\* venue's radius, whatever other venue is nearer.
StillInside(cands, old) ==
    \E i \in DOMAIN cands :
        /\ cands[i].id = old
        /\ 10 * cands[i].dist <= 11 * EffectiveRadius(cands[i])

NearestInRange(cands) ==
    cands # << >> /\ cands[1].dist <= EffectiveRadius(cands[1])

HasLead(cands) ==
    Len(cands) < 2 \/ cands[2].dist - cands[1].dist >= MinLead

\* The nearest venue is in range but another is too close behind it to tell.
Ambiguous(cands, old) ==
    ~StillInside(cands, old) /\ NearestInRange(cands) /\ ~HasLead(cands)

\* The venues Bluetooth is asked to choose from in an ambiguous heartbeat.
Rivals(cands) ==
    {cands[i].id : i \in {j \in DOMAIN cands :
                             cands[j].dist - cands[1].dist < MinLead}}

\* What resolveAmbiguousVenueViaBle may answer: a rival in which a peer heard
\* nearby is present, or nothing.
BleAnswers(cands, old) ==
    IF Ambiguous(cands, old) THEN Rivals(cands) \cup {NoVenue} ELSE {NoVenue}

\* Mutant of Matched: a pending candidate is never confirmed.
Matched_NeverConfirms(cands, old, pending, ble) ==
    CASE StillInside(cands, old) -> old
      [] ~StillInside(cands, old) /\ ~NearestInRange(cands) -> NoVenue
      [] ~StillInside(cands, old) /\ NearestInRange(cands) /\ HasLead(cands)
           -> cands[1].id
      [] Ambiguous(cands, old) -> ble

\* matchedLocationId
Matched(cands, old, pending, ble) ==
    CASE StillInside(cands, old) -> old
      [] ~StillInside(cands, old) /\ ~NearestInRange(cands) -> NoVenue
      [] ~StillInside(cands, old) /\ NearestInRange(cands) /\ HasLead(cands)
           -> cands[1].id
      [] Ambiguous(cands, old) ->
           IF ble # NoVenue THEN ble
           ELSE IF pending = cands[1].id THEN pending ELSE NoVenue

\* Mutants of PendingAfter: the candidate instead of its id; a pending candidate that
\* survives an unambiguous heartbeat.
PendingAfter_Record(cands, old, pending, ble) ==
    IF Ambiguous(cands, old) /\ ble = NoVenue /\ pending # cands[1].id
    THEN cands[1]
    ELSE NoVenue
PendingAfter_Kept(cands, old, pending, ble) ==
    IF Ambiguous(cands, old) /\ ble = NoVenue THEN cands[1].id ELSE pending

\* pendingLocationId: the candidate to be confirmed by the next heartbeat.
PendingAfter(cands, old, pending, ble) ==
    IF Ambiguous(cands, old) /\ ble = NoVenue /\ pending # cands[1].id
    THEN cands[1].id
    ELSE NoVenue
===============================================================================
