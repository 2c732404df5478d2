SPECIFICATION FairSpec
CONSTANTS
    Venue = {v1, v2}
    NoVenue = NoVenue
    Req = {r1, r2, r3}
    Lease = 2
    Cap = 1
    LastStart = 3
    MaxTime = 5
CHECK_DEADLOCK FALSE
INVARIANTS
    TypeOK
    OneSponsor
PROPERTIES SponsorKeepsTerm SlotComesBack
