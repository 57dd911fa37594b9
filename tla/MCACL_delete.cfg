\* Whether a deleted key is gone.
SPECIFICATION Spec
CONSTANTS
  WordSize = 4
  Nil = Nil
  Unset = Unset
  Malformed = Malformed
  AnyNet = AnyNet
  Absent = Absent
  Free = Free
  Live = Live
  Missing = Missing
  Damaged = Damaged
  k1 = k1
  k2 = k2
  k3 = k3
  tcp = tcp
  home = home
  Network = {tcp}
  Addr = {home}
  Key = {k1, k2}
  Admin = {h1}
  Stream = {}
  Targets <- NoTargets
  LimitSpecs <- OneLimit
  Traffic <- NoEvents
  InitFiles <- TwoKeys
  AdminEnabled = TRUE
  MaxOps = 3
  MaxEvents = 0
  MaxCrashes = 1
  MaxFails = 0
INVARIANTS
  DeleteTakesEffect
CHECK_DEADLOCK FALSE
