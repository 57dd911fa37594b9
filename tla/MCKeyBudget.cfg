\* One key: limits in every combination, traffic up to overflow.
SPECIFICATION Spec
CONSTANTS
  WordSize = 5
  Nil = Nil
  Unset = Unset
  Malformed = Malformed
  AnyNet = AnyNet
  tcp = tcp
  home = home
  Network = {tcp}
  Addr = {home}
  Specs <- Specifications
  Amount = {0, 1, 3}
INVARIANTS
  TypeOK
  BudgetHonoured
  RetryIsHarmless
  ReloadKeepsVerdict
PROPERTIES
  RefusalIsStable
