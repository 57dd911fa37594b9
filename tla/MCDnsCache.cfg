\* Queries and a lookup that share the entries of two names.
SPECIFICATION MCSpec
CONSTANTS
  q1 = q1
  q2 = q2
  q3 = q3
  l1 = l1
  n1 = n1
  n2 = n2
  ip4 = ip4
  ip6 = ip6
  None = None
  Query = {q1, q2, q3}
  Asked <- Questions
  Lookup = {l1}
  Host <- Hosts
  Name = {n1, n2}
  Ip = {ip4, ip6}
  Answers <- Upstream
  Evict = 1
  Minute = 1
  Uint32 = 1
  Horizon = 4
INVARIANTS
  DnsTypeOK
  AnswerIsMine
  StaleIsBounded
  ReverseIsTrue
  LookupIsWhole
PROPERTIES
  StaleIsRefreshed
CHECK_DEADLOCK FALSE
