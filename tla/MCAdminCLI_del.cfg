\* Whether taking an item off the whitelist can only allow less.
SPECIFICATION Spec
CONSTANTS
  WordSize = 4
  Nil = Nil
  Unset = Unset
  Malformed = Malformed
  AnyNet = AnyNet
  Absent = Absent
  k1 = k1
  k2 = k2
  tcp = tcp
  home = home
  work = work
  Network = {tcp}
  Addr = {home, work}
  Key = {k1, k2}
  Cli = {p1}
  Commands <- DelCommand
  Starts <- Limited
  Traffic <- Some
  MaxRuns = 1
PROPERTIES
  DelAdmitsNothing
CHECK_DEADLOCK FALSE
