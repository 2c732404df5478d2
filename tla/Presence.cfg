SPECIFICATION PresenceSpec
CONSTANTS
    v1 = v1
    v2 = v2
    Venue = {v1, v2}
    NoVenue = NoVenue
    MaxRadius = 50
    MinLead = 12
    Req = {r0, r1, r2}
    first = r0
    Sightings <- MCSightings
    ManualGrace = 2
    StaleAfter = 1
    AdminAfter = 1
    BoostLength = 2
    UltraStay = 1
    LastStart = 2
    LastWork = 3
    MaxTime = 6
    Kinds = {"heartbeat", "checkInManual", "checkInAuto", "checkOut", "checkInBle", "activateBoost"}
CHECK_DEADLOCK FALSE
INVARIANTS TypeOK GraceNotFromGps FreeBoostOnce
PROPERTIES OrderSpec BoostHoldsVenue GraceHoldsVenue NoGhost
