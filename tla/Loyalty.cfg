SPECIFICATION Loyalty
CONSTANTS
    Friend = {u1, u2}
    Beat = {b1, b2}
    Target = 2
    MonthLen = 2
    RewardLen = 2
    MaxVisits = 2
    LastWork = 3
    MaxTime = 5
    Worker = {w1, w2}
    Half = 2
    Full = 3
    DayLen = 2
    MaxRewards = 4
    LastVisit = 11
    Evening = 16
INVARIANTS LoyaltyTypeOK CountsRight RewardsEarned
PROPERTIES DecaySparesActive EndsAtLast
CHECK_DEADLOCK FALSE
