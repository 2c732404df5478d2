SPECIFICATION Spec
CONSTANTS
    Friend = {u1}
    Beat = {b1, b2}
    Target = 1
    MonthLen = 2
    RewardLen = 2
    MaxVisits = 1
    LastWork = 3
    MaxTime = 5
CHECK_DEADLOCK FALSE
INVARIANT PaidStaysPremium
