\* One handler, traffic, a stream being checked and a failing disk against the
\* persist loop.
SPECIFICATION FairSpec
CONSTANTS
  WordSize = 4
  Nil = Nil
  Unset = Unset
  Malformed = Malformed
  AnyNet = AnyNet
  Absent = Absent
  Free = Free
  Live = Live
  Missing = Missing
  Damaged = Damaged
  k1 = k1
  k2 = k2
  k3 = k3
  tcp = tcp
  home = home
  Network = {tcp}
  Addr = {home}
  Key = {k1, k2}
  Admin = {h1}
  Stream = {s1}
  Targets <- OneTarget
  LimitSpecs <- ListLimits
  Traffic <- BigEvent
  InitFiles <- UsedKeyOrNone
  AdminEnabled = TRUE
  MaxOps = 2
  MaxEvents = 1
  MaxCrashes = 1
  MaxFails = 1
INVARIANTS
  TypeOK
  PendingCoversChanges
  NoAdmissionAfterDelete
  DamagedOnlyWhilePersisting
PROPERTIES
  ChangesReachFile
CHECK_DEADLOCK FALSE
