SPECIFICATION PolicyAndMail
CONSTANTS
    Users = 3
    Jobs = 1
    BatchSize = 2
    Tick = {t1, t2}
    MaxVersions = 2
    Req = {r1, r2}
    V1 = V1
    None = None
INVARIANTS PolicyTypeOK NobodySkipped
PROPERTY EveryoneInformed
CHECK_DEADLOCK FALSE
