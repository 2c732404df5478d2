SPECIFICATION Accounts
CONSTANTS
  Addr = {a, b}
  Pwd = {p, q}
  Req = {r1, r2}
  None = None
  Gone = Gone
  Venue = {p1, p2}
  Manual = {p1}
  Company = {p, q}
  Claim = {c1, c2}
  User = {p, q}
  Floor = 2
  Pack = {1}
  MaxBalance = 1
INVARIANTS AccountsTypeOK AddressProved OneToOne NothingForFree
PROPERTIES NothingUndone
SYMMETRY Sym
CHECK_DEADLOCK FALSE
