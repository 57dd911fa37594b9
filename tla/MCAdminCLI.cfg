\* Users of the acl command whose requests and answers may be lost.
SPECIFICATION Spec
CONSTANTS
  WordSize = 4
  Nil = Nil
  Unset = Unset
  Malformed = Malformed
  AnyNet = AnyNet
  Absent = Absent
  k1 = k1
  k2 = k2
  tcp = tcp
  home = home
  work = work
  Network = {tcp}
  Addr = {home, work}
  Key = {k1, k2}
  Cli = {p1, p2}
  Commands <- AllCommands
  Starts <- LimitedOrNot
  Traffic <- Some
  MaxRuns = 3
INVARIANTS
  TypeOK
  DoneMeansDoneOnce
  LostAsAWhole
  ListsEnforced
SYMMETRY UserSymmetry
CHECK_DEADLOCK FALSE
