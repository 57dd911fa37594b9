----------------------------- MODULE MCDnsCache -----------------------------
(***************************************************************************)
(* A small instance of DnsCache for TLC: three queries, or one and a       *)
(* lookup, for the addresses of two names that share one.                  *)
(***************************************************************************)
EXTENDS DnsCache, TLC, FiniteSets

CONSTANTS q1, q2, q3, l1, n1, n2, ip4, ip6

Questions == [q \in Query |-> IF q = q3 THEN <<n2, "A">> ELSE <<n1, "A">>]
Hosts == [l \in Lookup |-> n1]

A(ip, ttl) == [type |-> "A", ip |-> ip, ttl |-> ttl]
Alias(ttl) == [type |-> "CNAME", ip |-> "", ttl |-> ttl]
Is(records) == [records |-> records, question |-> TRUE]
Refused == [records |-> {}, question |-> FALSE]

\* Two names share an address; an answer may be an alias, empty, or lack even
\* its question.
Upstream ==
  (<<n1, "A">> :> {Is({A(ip4, 1), Alias(0)}), Refused}) @@
  (<<n2, "A">> :> {Is({A(ip4, 0)})}) @@
  (<<n1, "AAAA">> :> {Is({[type |-> "AAAA", ip |-> ip6, ttl |-> 0]}), Is({})}) @@
  (<<n2, "AAAA">> :> {})

\* A lookup runs beside one query at most.
Started == {q \in Query : query'[q].pc # "idle"}
MCNext ==
  /\ Next
  /\ (\E l \in Lookup : lookup'[l].pc # "A") => Cardinality(Started) <= 1
MCSpec == Init /\ [][MCNext]_vars /\ Fairness
=============================================================================
