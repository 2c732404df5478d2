SPECIFICATION Algorithms
CONSTANTS
    Places = 4
    Limits = {1, 3}
    Kms = {10, 150, 400, 600}
    Radii = {10, 30, 100, 500}
    Scores = {0, 1}
    Ahead = 200
    Window = 2
    MaxVisitors = 3
    v1 = v1
    v2 = v2
    v3 = v3
    Venue = {v1, v2, v3}
    NoVenue = NoVenue
    Lists <- MCLists
    MaxRadius = 50
    MinLead = 12
INVARIANTS AlgorithmsTypeOK RankedFairly
PROPERTY MatchSound
CHECK_DEADLOCK FALSE
