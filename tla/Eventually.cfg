SPECIFICATION Eventually
CONSTANTS
    Addr = {a}
    Pwd = {p}
    Req = {r1, r2}
    None = None
    Gone = Gone
    Worker = {w1, w2}
    MaxWrites = 1
PROPERTIES FlightsGoOn VerifiedAtLast PagesServed
CHECK_DEADLOCK FALSE
