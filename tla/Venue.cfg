SPECIFICATION VenueSpec
CONSTANTS
  Item = {i1, i2}
  Picture = {f1, f2}
  Req = {r1, r2}
  Cap = 1
  None = None
INVARIANTS TypeOK ShownOnDisk
PROPERTIES NothingLost
SYMMETRY Sym
CHECK_DEADLOCK FALSE
