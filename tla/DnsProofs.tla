----------------------------- MODULE DnsProofs ------------------------------
(***************************************************************************)
(* Proofs about DnsCache, for every set of queries, lookups and names, any *)
(* answers of the upstream, and any settings of the evict loop: whose      *)
(* answer a query gets, how old what is found may be, and that a lookup    *)
(* leaves nothing out.                                                     *)
(***************************************************************************)
EXTENDS DnsCache, SequenceTheorems, WellFoundedInduction, TLAPS

USE ClockAssumption

-----------------------------------------------------------------------------
\* A bounded set of naturals has a greatest element.

LEMMA MaxIs ==
  ASSUME NEW b \in Nat, NEW T \in SUBSET (0 .. b), T # {}
  PROVE  Max(T) \in T /\ \A y \in T : Max(T) >= y
<1> DEFINE R == OpToRel(<, Nat)
           M == {n \in Nat : \E t \in T : n = b - t}
<1>1. IsWellFoundedOn(R, Nat)
  BY NatLessThanWellFounded
<1>2. M \subseteq Nat /\ M # {}
  <2>1. PICK t \in T : TRUE
    OBVIOUS
  <2>2. b - t \in Nat
    OBVIOUS
  <2> QED
    BY <2>2
<1> HIDE DEF R, M
<1>3. PICK m \in M : \A n \in M : ~(<<n, m>> \in R)
  BY <1>1, <1>2, WFMin
<1>4. \A n \in M : ~(n < m)
  BY <1>2, <1>3 DEF R, OpToRel
<1>5. PICK x \in T : m = b - x
  BY DEF M
<1>6. \A y \in T : x >= y
  <2> SUFFICES ASSUME NEW y \in T, ~(x >= y)
               PROVE  FALSE
    OBVIOUS
  <2>1. b - y \in M
    BY DEF M
  <2>2. b - y < b - x
    OBVIOUS
  <2> QED
    BY <1>4, <1>5, <2>1, <2>2
<1> QED
  BY <1>6, Zenon DEF Max

LEMMA MaxOfTwo ==
  ASSUME NEW m \in Nat, NEW n \in Nat
  PROVE  Max({m, n}) \in Nat /\ Max({m, n}) >= m /\ Max({m, n}) >= n
<1>1. m + n \in Nat /\ {m, n} \in SUBSET (0 .. m + n) /\ {m, n} # {}
  OBVIOUS
<1>2. Max({m, n}) \in {m, n} /\ \A y \in {m, n} : Max({m, n}) >= y
  BY <1>1, MaxIs
<1> QED
  BY <1>2

LEMMA IntervalType == Interval \in Nat /\ Interval >= 1
<1>1. Evict \div 20 \in Nat
  OBVIOUS
<1> DEFINE e == Evict \div 20
<1> HIDE DEF e
<1>2. Max({e, Minute}) \in Nat /\ Max({e, Minute}) >= Minute
  BY <1>1, MaxOfTwo DEF e
<1>3. Interval = Max({e, Minute})
  BY DEF Interval, e
<1> QED
  BY <1>2, <1>3

LEMMA MaxTTLType ==
  ASSUME NEW records \in SUBSET Record
  PROVE  MaxTTL(records) \in TTL /\ \A r \in records : r.ttl <= MaxTTL(records)
<1> DEFINE T == {0} \cup {r.ttl : r \in records}
<1>1. \A r \in records : r.ttl \in TTL
  BY DEF Record
<1>2. T \in SUBSET (0 .. Uint32) /\ T # {}
  BY <1>1 DEF TTL
<1> HIDE DEF T
<1>3. Max(T) \in T /\ \A y \in T : Max(T) >= y
  BY <1>2, MaxIs
<1>4. Max(T) \in TTL
  BY <1>2, <1>3 DEF TTL
<1>5. \A r \in records : r.ttl \in T
  BY DEF T
<1>6. \A r \in records : r.ttl <= Max(T)
  BY <1>1, <1>3, <1>4, <1>5 DEF TTL
<1> QED
  BY <1>4, <1>6 DEF MaxTTL, T

\* No answer of the upstream has a higher TTL than Longest.
LEMMA LongestBounds ==
  ASSUME NEW k \in Question, NEW a \in Answers[k]
  PROVE  Longest \in Nat /\ MaxTTL(a.records) <= Longest
<1> DEFINE All == UNION {Answers[j] : j \in Question}
           T == {MaxTTL(b.records) : b \in All}
<1>1. \A b \in All : b.records \in SUBSET Record
  BY DnsAssumption DEF Answer
<1>2. a \in All
  OBVIOUS
<1> HIDE DEF All
<1>3. \A b \in All : MaxTTL(b.records) \in 0 .. Uint32
  BY <1>1, MaxTTLType DEF TTL
<1>4. T \in SUBSET (0 .. Uint32) /\ MaxTTL(a.records) \in T
  BY <1>2, <1>3
<1>4a. \A y \in T : y \in Nat
  BY <1>4
<1> HIDE DEF T
<1>5. Max(T) \in T /\ \A y \in T : Max(T) >= y
  BY <1>4, MaxIs
<1>6. Longest = Max(T)
  BY DEF Longest, T, All
<1> DEFINE m == MaxTTL(a.records)
           x == Max(T)
<1>7. x \in Nat /\ m \in Nat /\ x >= m
  <2>1. x \in T /\ m \in T
    BY <1>4, <1>5
  <2>2. x >= m
    BY <1>5, <2>1
  <2> QED
    BY <1>4a, <2>1, <2>2
<1> HIDE DEF m, x
<1>8. m <= x
  BY <1>7
<1> QED
  BY <1>6, <1>7, <1>8 DEF m, x

LEMMA OfType ==
  ASSUME NEW f \in Fetch
  PROVE  Of(f) \in Question
<1>1. CASE f \in Query
  BY <1>1, DnsAssumption DEF Of
<1>2. CASE f \in Lookup \X Type
  BY <1>2, DnsAssumption DEF Of, Question
<1> QED
  BY <1>1, <1>2 DEF Fetch

LEMMA HalfOf ==
  ASSUME NEW l \in Lookup, NEW t \in Type
  PROVE  <<l, t>> \in Fetch /\ <<l, t>> \notin Query /\ Of(<<l, t>>) = <<Host[l], t>>
BY DnsAssumption DEF Fetch, Of

LEMMA QueryIsFetch == \A q \in Query : q \in Fetch /\ Of(q) = Asked[q]
BY DEF Fetch, Of

-----------------------------------------------------------------------------
\* What a step leaves alone.

Stable ==
  \A e \in Fetch : fetch[e] = "stored" =>
    /\ fetch'[e] = "stored"
    /\ msg'[e].records = msg[e].records /\ msg'[e].expire = msg[e].expire

LEMMA QueryFrame ==
  ASSUME DnsTypeOK, NEW q \in Query, QueryFits(q), Stable,
         query'[q] = query[q], beside'[q] = beside[q],
         fetch[q] = "idle" => fetch'[q] = "idle",
         query[q].pc = "write" => msg'[query[q].entry].id = msg[query[q].entry].id
  PROVE  QueryFits(q)'
<1>1. query[q].entry # None => query[q].entry \in Fetch
  BY DEF DnsTypeOK, QueryRec
<1> QED
  BY <1>1 DEF QueryFits, Stable

LEMMA SameAddresses ==
  ASSUME NEW CONSTANT e, NEW CONSTANT t, e # None => msg'[e].records = msg[e].records
  PROVE  Addresses(e, t)' = Addresses(e, t)
BY DEF Addresses

LEMMA HalfFrame ==
  ASSUME DnsTypeOK, NEW l \in Lookup, NEW t \in Type, HalfFits(l, t), Stable,
         lookup'[l] = lookup[l],
         fetch[<<l, t>>] \in {"idle", "stored", "failed"} => fetch'[<<l, t>>] = fetch[<<l, t>>]
  PROVE  HalfFits(l, t)'
<1>0. PICK e : e = lookup[l].entry[t]
  OBVIOUS
<1>1. e # None => e \in Fetch
  BY <1>0 DEF DnsTypeOK, LookupRec
<1>2. e # None => fetch[e] = "stored" /\ fetch'[e] = "stored" /\ msg'[e].records = msg[e].records
  BY <1>0, <1>1 DEF HalfFits, Stable
<1>3. Addresses(e, t)' = Addresses(e, t)
  BY <1>2, SameAddresses
<1>4. fetch[<<l, t>>] = "stored" => Addresses(<<l, t>>, t)' = Addresses(<<l, t>>, t)
  BY HalfOf, SameAddresses DEF Stable
<1>5. lookup'[l].entry[t] = e /\ lookup'[l].pc = lookup[l].pc /\ lookup'[l].told = lookup[l].told
  BY <1>0
<1> DEFINE f == fetch[<<l, t>>]
           g == fetch'[<<l, t>>]
           c == lookup[l]
<1>6. /\ c.pc = "A" \/ c.pc = t => f = "idle"
      /\ c.pc = "done" =>
           /\ f = "stored" => Addresses(<<l, t>>, t) \subseteq c.told
           /\ f = "idle" => Addresses(e, t) \subseteq c.told
           /\ f \in {"idle", "stored", "failed"}
  BY <1>0 DEF HalfFits
<1>7. f \in {"idle", "stored", "failed"} => g = f
  OBVIOUS
<1> HIDE DEF f, g, c
<1>8. /\ c.pc = "A" \/ c.pc = t => g = "idle"
      /\ c.pc = "done" =>
           /\ g = "stored" => Addresses(<<l, t>>, t)' \subseteq c.told
           /\ g = "idle" => Addresses(e, t)' \subseteq c.told
           /\ g \in {"idle", "stored", "failed"}
  BY <1>3, <1>4, <1>6, <1>7 DEF f
<1> QED
  BY <1>2, <1>5, <1>8 DEF HalfFits, c, g

LEMMA EntryFrame ==
  ASSUME DnsTypeOK, NEW k \in Question, EntryFits(k), Stable, cache'[k] = cache[k], swept' = swept
  PROVE  EntryFits(k)'
<1>1. cache[k] # None => cache[k] \in Fetch /\ fetch[cache[k]] = "stored"
  BY DEF DnsTypeOK
<1> QED
  BY <1>1 DEF EntryFits, Stable

LEMMA SameSource ==
  ASSUME NEW CONSTANT f \in Fetch, NEW CONSTANT name, NEW CONSTANT ip, NEW CONSTANT expire,
         Stable, Source(f, name, ip, expire)
  PROVE  Source(f, name, ip, expire)'
BY DEF Source, Stable

LEMMA HostFrame ==
  ASSUME DnsTypeOK, NEW ip \in Addr, HostFits(ip), Stable, hosts[ip] # None => Longest \in Nat,
         hosts'[ip] = hosts[ip], swept' = swept, now' \in Nat, now <= now'
  PROVE  HostFits(ip)'
<1> SUFFICES ASSUME hosts'[ip] # None
             PROVE  HostFits(ip)'
  BY DEF HostFits
<1>1. PICK h : h = hosts[ip]
  OBVIOUS
<1>2. h \in HostRec /\ hosts'[ip] = h
  BY <1>1 DEF DnsTypeOK
<1>3. /\ h.names # << >> /\ swept <= h.expire + Evict /\ h.expire <= now + Longest
      /\ \A i \in DOMAIN h.names : \E f \in Fetch : Source(f, h.names[i], ip, h.expire)
  BY <1>1, <1>2 DEF HostFits
<1>4. \A i \in DOMAIN h.names : \E f \in Fetch : Source(f, h.names[i], ip, h.expire)'
  BY <1>3, SameSource
<1>5. h.expire \in Nat /\ now \in Nat
  BY <1>2 DEF HostRec, DnsTypeOK
<1>6. h.expire <= now' + Longest
  <2>1. Longest \in Nat
    OBVIOUS
  <2> QED
    BY <1>3, <1>5, <2>1
<1> QED
  BY <1>2, <1>3, <1>4, <1>6 DEF HostFits

-----------------------------------------------------------------------------
\* Responses and the TTLs in them.

LEMMA ResponseFields ==
  ASSUME NEW m \in Response
  PROVE  /\ m.id \in Fetch /\ m.records \in SUBSET Record /\ m.question \in BOOLEAN
         /\ m.expire \in Nat
BY DEF Response

LEMMA ResponseThere ==
  ASSUME DnsTypeOK, NEW f \in Fetch, FetchFits(f), fetch[f] \in {"store", "stored"}
  PROVE  /\ msg[f] \in Response
         /\ Longest \in Nat /\ MaxTTL(msg[f].records) \in TTL
         /\ MaxTTL(msg[f].records) <= Longest
<1>1. msg[f] \in Response
  BY DEF DnsTypeOK, FetchFits
<1>2. PICK a \in Answers[Of(f)] : msg[f].records = a.records
  BY DEF FetchFits
<1>3. Longest \in Nat /\ MaxTTL(a.records) <= Longest
  BY OfType, LongestBounds
<1>4. MaxTTL(msg[f].records) \in TTL
  BY <1>1, ResponseFields, MaxTTLType
<1> QED
  BY <1>1, <1>2, <1>3, <1>4

LEMMA NamedIsLong ==
  ASSUME DnsInv, NEW ip \in Addr, hosts[ip] # None
  PROVE  Longest \in Nat
<1>1. hosts[ip] \in HostRec /\ HostFits(ip)
  BY DEF DnsInv, DnsTypeOK
<1>2. hosts[ip].names \in Seq(Name) /\ hosts[ip].names # << >>
  BY <1>1 DEF HostRec, HostFits
<1>3. 1 \in DOMAIN hosts[ip].names
  BY <1>2
<1>4. PICK f \in Fetch : Source(f, hosts[ip].names[1], ip, hosts[ip].expire)
  BY <1>1, <1>3 DEF HostFits
<1>5. fetch[f] = "stored" /\ FetchFits(f)
  BY <1>4 DEF Source, DnsInv
<1> QED
  BY <1>5, ResponseThere DEF DnsInv

\* A step that disturbs neither entries nor hosts.
LEMMA FetchesOnly ==
  ASSUME DnsInv, DnsTypeOK', Stable, UNCHANGED <<swept, cache, hosts>>, now' \in Nat, now <= now'
  PROVE  /\ \A k \in Question : EntryFits(k)'
         /\ \A ip \in Addr : HostFits(ip)'
<1>1. ASSUME NEW k \in Question PROVE EntryFits(k)'
  BY EntryFrame DEF DnsInv
<1>2. ASSUME NEW ip \in Addr PROVE HostFits(ip)'
  BY HostFrame, NamedIsLong DEF DnsInv
<1> QED
  BY <1>1, <1>2

LEMMA QuietQueries ==
  ASSUME DnsInv, Stable, UNCHANGED <<query, beside>>,
         \A f \in Fetch : fetch[f] = "idle" => fetch'[f] = "idle",
         \A f \in Fetch : fetch[f] = "stored" => msg'[f].id = msg[f].id
  PROVE  \A q \in Query : QueryFits(q)'
<1> SUFFICES ASSUME NEW q \in Query PROVE QueryFits(q)'
  OBVIOUS
<1>1. DnsTypeOK /\ QueryFits(q)
  BY DEF DnsInv
<1>2. query[q].pc = "write" => msg'[query[q].entry].id = msg[query[q].entry].id
  <2>1. query[q].entry # None => query[q].entry \in Fetch
    BY <1>1 DEF DnsTypeOK, QueryRec
  <2> QED
    BY <1>1, <2>1 DEF QueryFits
<1> QED
  BY <1>1, <1>2, QueryIsFetch, QueryFrame

LEMMA QuietLookups ==
  ASSUME DnsInv, Stable, UNCHANGED lookup,
         \A l \in Lookup, t \in Type : fetch[<<l, t>>] \in {"idle", "stored", "failed"} =>
           fetch'[<<l, t>>] = fetch[<<l, t>>]
  PROVE  \A l \in Lookup, t \in Type : HalfFits(l, t)'
<1> SUFFICES ASSUME NEW l \in Lookup, NEW t \in Type PROVE HalfFits(l, t)'
  OBVIOUS
<1>1. DnsTypeOK /\ HalfFits(l, t)
  BY DEF DnsInv
<1> QED
  BY <1>1, HalfFrame

-----------------------------------------------------------------------------
\* The clock and the evict loop.

LEMMA NowType == DnsTypeOK => now \in Nat /\ swept \in Nat /\ swept <= now
BY DEF DnsTypeOK

LEMMA ClockStep ==
  ASSUME DnsInv, Enable \/ Tick
  PROVE  DnsInv'
<1>1. UNCHANGED <<swept, cache, hosts, msg, fetch, query, lookup, beside>>
  BY DEF Enable, Tick
<1>2. now \in Nat /\ now' \in Nat /\ now <= now'
  BY NowType DEF Enable, Tick, DnsInv
<1>3. Stable
  BY <1>1 DEF Stable
<1>4. DnsTypeOK'
  <2>1. now' \in 0 .. Horizon /\ swept \in 0 .. now' /\ now' <= swept + Interval
    BY IntervalType DEF Enable, Tick, DnsInv, DnsTypeOK
  <2>2. up' \in {"starting", "enabled", "dead"}
    BY DEF Enable, Tick, DnsInv, DnsTypeOK
  <2> QED
    BY <1>1, <2>1, <2>2 DEF DnsInv, DnsTypeOK
<1>5. \A f \in Fetch : FetchFits(f)'
  BY <1>1 DEF DnsInv, FetchFits
<1>6. (\A k \in Question : EntryFits(k)') /\ (\A ip \in Addr : HostFits(ip)')
  BY <1>1, <1>2, <1>3, <1>4, FetchesOnly
<1>7. \A q \in Query : QueryFits(q)'
  BY <1>1, <1>3, QuietQueries
<1>8. \A l \in Lookup, t \in Type : HalfFits(l, t)'
  BY <1>1, <1>3, QuietLookups
<1> QED
  BY <1>4, <1>5, <1>6, <1>7, <1>8 DEF DnsInv

LEMMA SweepStep ==
  ASSUME DnsInv, Sweep
  PROVE  DnsInv'
<1>1. UNCHANGED <<now, up, msg, fetch, query, lookup, beside>>
  BY DEF Sweep
<1>2. now \in Nat /\ swept \in Nat /\ now = swept + Interval /\ swept' = now /\ now \in 0 .. Horizon
  BY NowType DEF Sweep, DnsInv, DnsTypeOK
<1>3. Stable
  BY <1>1 DEF Stable
<1>4. \A k \in Question : /\ cache'[k] \in {None, cache[k]}
                          /\ cache'[k] # None => ~Old(msg[cache[k]].expire)
  BY DEF Sweep, SweptCache
<1>5. \A ip \in Addr : /\ hosts'[ip] \in {None, hosts[ip]}
                       /\ hosts'[ip] # None => ~Old(hosts[ip].expire)
  BY DEF Sweep, SweptHosts
<1>6. DnsTypeOK'
  <2>1. cache' \in [Question -> Fetch \cup {None}]
    BY DEF Sweep, SweptCache, DnsInv, DnsTypeOK
  <2>2. hosts' \in [Addr -> HostRec \cup {None}]
    BY DEF Sweep, SweptHosts, DnsInv, DnsTypeOK
  <2>3. \A k \in Question : cache'[k] # None => fetch'[cache'[k]] = "stored" /\ Of(cache'[k]) = k
    BY <1>1, <1>4 DEF DnsInv, DnsTypeOK
  <2>4. now' \in 0 .. Horizon /\ swept' \in 0 .. now' /\ now' <= swept' + Interval
    BY <1>1, <1>2, IntervalType
  <2> QED
    BY <1>1, <2>1, <2>2, <2>3, <2>4 DEF DnsInv, DnsTypeOK
<1>7. \A f \in Fetch : FetchFits(f)'
  BY <1>1 DEF DnsInv, FetchFits
<1>8. ASSUME NEW k \in Question PROVE EntryFits(k)'
  <2> SUFFICES ASSUME cache'[k] # None PROVE swept' <= msg'[cache'[k]].expire + Evict
    BY DEF EntryFits
  <2>1. cache'[k] = cache[k] /\ ~Old(msg[cache[k]].expire)
    BY <1>4
  <2>2. cache[k] \in Fetch /\ fetch[cache[k]] = "stored" /\ FetchFits(cache[k])
    BY <2>1 DEF DnsInv, DnsTypeOK
  <2>3. msg[cache[k]].expire \in Nat
    BY <2>2, ResponseThere, ResponseFields DEF DnsInv
  <2> QED
    BY <1>1, <1>2, <2>1, <2>3 DEF Old
<1>9. ASSUME NEW ip \in Addr PROVE HostFits(ip)'
  <2> SUFFICES ASSUME hosts'[ip] # None PROVE HostFits(ip)'
    BY DEF HostFits
  <2>1. hosts'[ip] = hosts[ip] /\ ~Old(hosts[ip].expire)
    BY <1>5
  <2>2. hosts[ip].expire \in Nat
    BY <2>1 DEF DnsInv, DnsTypeOK, HostRec
  <2>3. swept' <= hosts[ip].expire + Evict
    BY <1>2, <2>1, <2>2 DEF Old
  <2>4. \A f \in Fetch : \A name, expire :
          Source(f, name, ip, expire)' = Source(f, name, ip, expire)
    BY <1>1 DEF Source
  <2> QED
    BY <1>1, <2>1, <2>3, <2>4 DEF HostFits, DnsInv
<1>10. \A q \in Query : QueryFits(q)'
  BY <1>1, <1>3, QuietQueries
<1>11. \A l \in Lookup, t \in Type : HalfFits(l, t)'
  BY <1>1, <1>3, QuietLookups
<1> QED
  BY <1>6, <1>7, <1>8, <1>9, <1>10, <1>11 DEF DnsInv

-----------------------------------------------------------------------------
\* The exchanges.

LEMMA FetchStep ==
  ASSUME DnsInv, NEW f \in Fetch, Exchange(f) \/ Direct(f)
  PROVE  DnsInv'
<1>1. UNCHANGED <<now, swept, up, cache, hosts, query, lookup, beside>>
  BY DEF Exchange, Direct
<1>2. fetch \in [Fetch -> FetchPhases] /\ msg \in [Fetch -> Response \cup {None}]
  BY DEF DnsInv, DnsTypeOK
<1>3. fetch[f] \in {"exchange", "direct"}
  BY DEF Exchange, Direct
<1>4. Answered(f) \/ Ends(f, "failed") \/ (f \in Query /\ Ends(f, "direct"))
  BY DEF Exchange, Direct
<1>5. PICK how \in {"store", "failed", "direct"}, m \in Response \cup {None} :
        /\ fetch' = [fetch EXCEPT ![f] = how] /\ msg' = [msg EXCEPT ![f] = m]
        /\ how = "direct" => f \in Query
        /\ how = "store" => m # None /\ \E a \in Answers[Of(f)] : m.records = a.records
  <2>1. CASE Answered(f)
    <3>1. PICK a \in Answers[Of(f)] :
            msg' = [msg EXCEPT ![f] = [id |-> f, records |-> a.records, question |-> a.question, expire |-> 0]]
      BY <2>1 DEF Answered
    <3> DEFINE m == [id |-> f, records |-> a.records, question |-> a.question, expire |-> 0]
    <3>2. a \in Answer
      BY OfType, DnsAssumption
    <3>3. m \in Response /\ m.records = a.records
      BY <3>2 DEF Response, Answer
    <3>4. m # None
      BY <3>3, NoneAssumption
    <3> HIDE DEF m
    <3>5. msg' = [msg EXCEPT ![f] = m]
      BY <3>1 DEF m
    <3>6. fetch' = [fetch EXCEPT ![f] = "store"]
      BY <2>1 DEF Answered
    <3> QED
      BY <3>3, <3>4, <3>5, <3>6
  <2>2. CASE Ends(f, "failed") \/ (f \in Query /\ Ends(f, "direct"))
    <3>1. msg' = [msg EXCEPT ![f] = msg[f]] /\ msg[f] \in Response \cup {None}
      BY <1>2, <2>2 DEF Ends
    <3> QED
      BY <2>2, <3>1 DEF Ends
  <2> QED
    BY <1>4, <2>1, <2>2
<1>6. \A e \in Fetch : e # f => fetch'[e] = fetch[e] /\ msg'[e] = msg[e]
  BY <1>2, <1>5
<1>7. fetch'[f] = how /\ msg'[f] = m
  BY <1>2, <1>5
<1>8. Stable
  BY <1>3, <1>6 DEF Stable
<1>9. DnsTypeOK'
  <2>1. fetch' \in [Fetch -> FetchPhases] /\ msg' \in [Fetch -> Response \cup {None}]
    BY <1>2, <1>5 DEF FetchPhases
  <2>2. \A k \in Question : cache[k] # None => fetch'[cache[k]] = "stored"
    BY <1>8 DEF Stable, DnsInv, DnsTypeOK
  <2> QED
    BY <1>1, <2>1, <2>2 DEF DnsInv, DnsTypeOK
<1>10. ASSUME NEW e \in Fetch PROVE FetchFits(e)'
  <2>1. FetchFits(e)
    BY DEF DnsInv
  <2>2. CASE e = f
    BY <1>5, <1>7, <2>2 DEF FetchFits
  <2>3. CASE e # f
    BY <1>6, <2>1, <2>3 DEF FetchFits
  <2> QED
    BY <2>2, <2>3
<1>11. (\A k \in Question : EntryFits(k)') /\ (\A ip \in Addr : HostFits(ip)')
  BY <1>1, <1>8, <1>9, NowType, FetchesOnly DEF DnsInv
<1>12. \A q \in Query : QueryFits(q)'
  BY <1>1, <1>3, <1>6, <1>8, QuietQueries
<1>13. \A l \in Lookup, t \in Type : HalfFits(l, t)'
  <2>1. \A l \in Lookup, t \in Type : fetch[<<l, t>>] \in {"idle", "stored", "failed"} =>
          fetch'[<<l, t>>] = fetch[<<l, t>>]
    BY <1>3, <1>6, HalfOf
  <2> QED
    BY <1>1, <1>8, <2>1, QuietLookups
<1> QED
  BY <1>9, <1>10, <1>11, <1>12, <1>13 DEF DnsInv

LEMMA HostingIs ==
  ASSUME DnsTypeOK, NEW ip \in Addr, NEW name \in Name, NEW expire \in Nat
  PROVE  LET h == Hosting(ip, name, expire)
             old == hosts[ip]
         IN  /\ h \in HostRec
             /\ old = None => h.names = <<name>> /\ h.expire = expire
             /\ old # None => h.names = Append(old.names, name) /\ h.expire = old.expire
<1>1. CASE hosts[ip] = None
  <2>1. <<name>> \in Seq(Name)
    OBVIOUS
  <2> QED
    BY <1>1, <2>1 DEF Hosting, HostRec
<1>2. CASE hosts[ip] # None
  <2> DEFINE old == hosts[ip]
             names == Append(old.names, name)
  <2>1. old \in HostRec
    BY <1>2 DEF DnsTypeOK
  <2>2. names \in Seq(Name)
    BY <2>1, AppendProperties DEF HostRec
  <2>3. Hosting(ip, name, expire) = [old EXCEPT !.names = names]
    BY <1>2 DEF Hosting
  <2> HIDE DEF old, names
  <2>4. LET h == [old EXCEPT !.names = names]
        IN  h \in HostRec /\ h.names = names /\ h.expire = old.expire
    BY <2>1, <2>2 DEF HostRec
  <2> QED
    BY <1>2, <2>3, <2>4 DEF old, names
<1> QED
  BY <1>1, <1>2

\* The names of a host entry after one more answer, and where they come from.
LEMMA HostingFits ==
  ASSUME DnsInv, NEW f \in Fetch, CacheResponse(f), Stable, NEW ip \in Addr,
         NEW expire \in Nat, expire = now + MaxTTL(msg[f].records),
         ip \in {r.ip : r \in msg[f].records},
         fetch'[f] = "stored", msg'[f].records = msg[f].records, msg'[f].expire = expire,
         hosts'[ip] = Hosting(ip, Of(f)[1], expire), UNCHANGED <<now, swept>>
  PROVE  HostFits(ip)'
<1> DEFINE name == Of(f)[1]
           ttl == MaxTTL(msg[f].records)
<1>1. PICK h : h = hosts'[ip]
  OBVIOUS
<1>2. name \in Name
  BY OfType DEF Question
<1>3. DnsTypeOK /\ now \in Nat /\ swept \in Nat /\ swept <= now
  BY NowType DEF DnsInv
<1>4. fetch[f] = "store" /\ FetchFits(f)
  BY DEF CacheResponse, DnsInv
<1>5. ttl \in Nat /\ Longest \in Nat /\ ttl <= Longest
  BY <1>3, <1>4, ResponseThere DEF TTL
<1> HIDE DEF name, ttl
<1>6. PICK old : old = hosts[ip]
  OBVIOUS
<1>7. /\ h \in HostRec
      /\ old = None => h.names = <<name>> /\ h.expire = expire
      /\ old # None => h.names = Append(old.names, name) /\ h.expire = old.expire
  BY <1>1, <1>2, <1>3, <1>6, HostingIs DEF name
<1>8. expire = now + ttl
  BY DEF ttl
<1>9. \A e \in Nat : e <= now + Longest => Source(f, name, ip, e)'
  <2> SUFFICES ASSUME NEW e \in Nat, e <= now + Longest
               PROVE  Source(f, name, ip, e)'
    OBVIOUS
  <2>1. e + ttl <= expire + Longest
    BY <1>3, <1>5, <1>8
  <2>2. Of(f)[1] = name /\ MaxTTL(msg'[f].records) = ttl
    BY DEF name, ttl
  <2> QED
    BY <2>1, <2>2 DEF Source
<1>10. CASE old = None
  <2>1. h.names = <<name>> /\ h.expire = expire
    BY <1>7, <1>10
  <2>2. expire <= now + Longest /\ swept <= expire + Evict
    BY <1>3, <1>5, <1>8
  <2>3. \A i \in DOMAIN h.names : Source(f, h.names[i], ip, h.expire)'
    BY <1>9, <2>1, <2>2
  <2>4. h.names # << >>
    BY <2>1
  <2> QED
    BY <1>1, <2>1, <2>2, <2>3, <2>4 DEF HostFits
<1>11. CASE old # None
  <2>1. h.names = Append(old.names, name) /\ h.expire = old.expire
    BY <1>7, <1>11
  <2>2. /\ swept <= old.expire + Evict /\ old.expire <= now + Longest
        /\ \A i \in DOMAIN old.names : \E g \in Fetch : Source(g, old.names[i], ip, old.expire)
    BY <1>6, <1>11 DEF DnsInv, HostFits
  <2>3. old.names \in Seq(Name) /\ old.expire \in Nat
    BY <1>3, <1>6, <1>11 DEF DnsTypeOK, HostRec
  <2> DEFINE names == old.names
  <2> HIDE DEF names
  <2>4. /\ names \in Seq(Name) /\ Len(Append(names, name)) = Len(names) + 1
        /\ \A i \in 1 .. Len(names) : Append(names, name)[i] = names[i]
        /\ Append(names, name)[Len(names) + 1] = name
        /\ Append(names, name) \in Seq(Name)
    BY <1>2, <2>3, AppendProperties DEF names
  <2>5. ASSUME NEW i \in DOMAIN Append(names, name)
        PROVE  \E g \in Fetch : Source(g, Append(names, name)[i], ip, old.expire)'
    <3>1. i \in 1 .. Len(names) + 1 /\ Len(names) \in Nat
      BY <2>4
    <3>2. CASE i = Len(names) + 1
      <4>1. Source(f, name, ip, old.expire)'
        BY <1>9, <2>2, <2>3
      <4>2. Append(names, name)[i] = name
        BY <2>4, <3>2
      <4> QED
        BY <4>1, <4>2
    <3>3. CASE i # Len(names) + 1
      <4>1. i \in 1 .. Len(names)
        BY <3>1, <3>3
      <4>2. Append(names, name)[i] = names[i] /\ i \in DOMAIN names
        BY <2>4, <4>1
      <4>3. PICK g \in Fetch : Source(g, names[i], ip, old.expire)
        BY <2>2, <4>2 DEF names
      <4>4. PICK n, x : n = names[i] /\ x = old.expire
        OBVIOUS
      <4>5. Source(g, n, ip, x)'
        BY <4>3, <4>4, SameSource
      <4>6. Source(g, names[i], ip, old.expire)'
        BY <4>4, <4>5
      <4> QED
        BY <4>2, <4>6
    <3> QED
      BY <3>2, <3>3
  <2>6. Append(names, name) # << >>
    <3>1. Len(names) \in Nat /\ Len(Append(names, name)) # 0
      BY <2>4
    <3>2. Len(<< >>) = 0
      OBVIOUS
    <3> QED
      BY <3>1, <3>2
  <2>7. h.names = Append(names, name)
    BY <2>1 DEF names
  <2> QED
    BY <1>1, <2>1, <2>2, <2>5, <2>6, <2>7 DEF HostFits
<1> QED
  BY <1>10, <1>11

LEMMA CacheStep ==
  ASSUME DnsInv, NEW f \in Fetch, CacheResponse(f)
  PROVE  DnsInv'
<1> DEFINE expire == now + MaxTTL(msg[f].records)
           named == {r.ip : r \in msg[f].records}
<1>1. /\ fetch[f] = "store" /\ fetch' = [fetch EXCEPT ![f] = "stored"]
      /\ msg' = [msg EXCEPT ![f].expire = expire] /\ cache' = [cache EXCEPT ![Of(f)] = f]
      /\ UNCHANGED <<now, swept, query, lookup, beside>>
      /\ \/ hosts' = [ip \in Addr |-> IF ip \in named THEN Hosting(ip, Of(f)[1], expire) ELSE hosts[ip]]
            /\ UNCHANGED up
         \/ up' = "dead" /\ UNCHANGED hosts
  BY DEF CacheResponse
<1>2. DnsTypeOK /\ FetchFits(f) /\ now \in Nat /\ swept \in Nat /\ swept <= now
  BY NowType DEF DnsInv
<1>3. /\ fetch \in [Fetch -> FetchPhases] /\ msg \in [Fetch -> Response \cup {None}]
      /\ cache \in [Question -> Fetch \cup {None}] /\ hosts \in [Addr -> HostRec \cup {None}]
  BY <1>2 DEF DnsTypeOK
<1>4. msg[f] \in Response /\ MaxTTL(msg[f].records) \in Nat /\ Longest \in Nat
  BY <1>1, <1>2, ResponseThere DEF TTL
<1>5. expire \in Nat /\ expire >= swept
  BY <1>2, <1>4
<1> HIDE DEF expire
<1>6. PICK m \in Response : /\ m = [msg[f] EXCEPT !.expire = expire]
                            /\ m.records = msg[f].records /\ m.expire = expire /\ m.id = msg[f].id
  <2>1. [msg[f] EXCEPT !.expire = expire] \in Response
    BY <1>4, <1>5 DEF Response
  <2> QED
    BY <1>4, <2>1 DEF Response
<1>7. msg' = [msg EXCEPT ![f] = m]
  BY <1>1, <1>6
<1>8. \A e \in Fetch : e # f => fetch'[e] = fetch[e] /\ msg'[e] = msg[e]
  BY <1>1, <1>3, <1>7
<1>9. fetch'[f] = "stored" /\ msg'[f] = m
  BY <1>1, <1>3, <1>7
<1>10. Stable
  BY <1>1, <1>8 DEF Stable
<1>11. Of(f) \in Question /\ Of(f)[1] \in Name
  BY OfType DEF Question
<1>12. \A k \in Question : cache'[k] = IF k = Of(f) THEN f ELSE cache[k]
  BY <1>1, <1>3, <1>11
<1>13. DnsTypeOK'
  <2>1. fetch' \in [Fetch -> FetchPhases]
    BY <1>1, <1>3 DEF FetchPhases
  <2>2. msg' \in [Fetch -> Response \cup {None}]
    BY <1>3, <1>7
  <2>3. cache' \in [Question -> Fetch \cup {None}]
    BY <1>1, <1>3, <1>11
  <2>4. hosts' \in [Addr -> HostRec \cup {None}]
    <3>1. \A ip \in Addr : Hosting(ip, Of(f)[1], expire) \in HostRec
      BY <1>2, <1>5, <1>11, HostingIs
    <3> QED
      BY <1>1, <1>3, <3>1
  <2>5. up' \in {"starting", "enabled", "dead"}
    BY <1>1, <1>2 DEF DnsTypeOK
  <2>6. \A k \in Question : cache'[k] # None => fetch'[cache'[k]] = "stored" /\ Of(cache'[k]) = k
    <3> SUFFICES ASSUME NEW k \in Question, cache'[k] # None
                 PROVE  fetch'[cache'[k]] = "stored" /\ Of(cache'[k]) = k
      OBVIOUS
    <3>1. CASE k = Of(f)
      BY <1>9, <1>12, <3>1
    <3>2. CASE k # Of(f)
      <4>1. cache'[k] = cache[k]
        BY <1>12, <3>2
      <4>2. cache[k] \in Fetch /\ fetch[cache[k]] = "stored" /\ Of(cache[k]) = k
        BY <1>2, <4>1 DEF DnsTypeOK
      <4> QED
        BY <1>10, <4>1, <4>2 DEF Stable
    <3> QED
      BY <3>1, <3>2
  <2> QED
    BY <1>1, <1>2, <2>1, <2>2, <2>3, <2>4, <2>5, <2>6 DEF DnsTypeOK
<1>14. ASSUME NEW e \in Fetch PROVE FetchFits(e)'
  <2>1. FetchFits(e)
    BY DEF DnsInv
  <2>2. CASE e = f
    <3>1. m # None
      BY NoneAssumption
    <3> QED
      BY <1>1, <1>6, <1>9, <2>1, <2>2, <3>1 DEF FetchFits
  <2>3. CASE e # f
    BY <1>8, <2>1, <2>3 DEF FetchFits
  <2> QED
    BY <2>2, <2>3
<1>15. ASSUME NEW k \in Question PROVE EntryFits(k)'
  <2>1. CASE k = Of(f)
    <3>1. cache'[k] = f /\ msg'[f].expire = expire /\ swept' = swept
      BY <1>1, <1>6, <1>9, <1>12, <2>1
    <3> QED
      BY <1>2, <1>5, <3>1 DEF EntryFits
  <2>2. CASE k # Of(f)
    <3>1. cache'[k] = cache[k] /\ swept' = swept /\ EntryFits(k)
      BY <1>1, <1>12, <2>2 DEF DnsInv
    <3> QED
      BY <1>2, <1>10, <3>1, EntryFrame
  <2> QED
    BY <2>1, <2>2
<1>16. ASSUME NEW ip \in Addr PROVE HostFits(ip)'
  <2>1. CASE hosts'[ip] = hosts[ip]
    <3>1. HostFits(ip) /\ swept' = swept /\ now' = now
      BY <1>1 DEF DnsInv
    <3> QED
      BY <1>2, <1>4, <1>10, <2>1, <3>1, HostFrame
  <2>2. CASE hosts'[ip] # hosts[ip]
    <3>1. ip \in named /\ hosts'[ip] = Hosting(ip, Of(f)[1], expire)
      BY <1>1, <2>2
    <3>2. msg'[f].records = msg[f].records /\ msg'[f].expire = expire
      BY <1>6, <1>9
    <3>3. expire = now + MaxTTL(msg[f].records)
      BY DEF expire
    <3> QED
      BY <1>1, <1>5, <1>9, <1>10, <3>1, <3>2, <3>3, HostingFits
  <2> QED
    BY <2>1, <2>2
<1>17. \A q \in Query : QueryFits(q)'
  BY <1>1, <1>8, <1>10, QuietQueries
<1>18. \A l \in Lookup, t \in Type : HalfFits(l, t)'
  <2>1. \A l \in Lookup, t \in Type : fetch[<<l, t>>] \in {"idle", "stored", "failed"} =>
          fetch'[<<l, t>>] = fetch[<<l, t>>]
    BY <1>1, <1>8, HalfOf
  <2> QED
    BY <1>1, <1>10, <2>1, QuietLookups
<1> QED
  BY <1>13, <1>14, <1>15, <1>16, <1>17, <1>18 DEF DnsInv

-----------------------------------------------------------------------------
\* The queries.

LEMMA QueryRecFields ==
  ASSUME DnsTypeOK, NEW q \in Query
  PROVE  /\ query[q] \in QueryRec
         /\ query[q].pc \in QueryPhases
         /\ query[q].entry \in Fetch \cup {None} /\ query[q].told \in Fetch \cup {None}
BY DEF DnsTypeOK, QueryRec

\* A step of the queries and of their exchanges alone.
LEMMA QueryStep ==
  ASSUME DnsInv, NEW q \in Query, NEW r \in QueryRec,
         query' = [query EXCEPT ![q] = r], fetch' \in [Fetch -> FetchPhases],
         \A e \in Fetch : e # q => fetch'[e] = fetch[e],
         fetch'[q] = fetch[q] \/ (fetch[q] = "idle" /\ fetch'[q] = "exchange"),
         msg' \in [Fetch -> Response \cup {None}], beside' \in [Query -> SUBSET Query],
         \A e \in Fetch : msg[e] # None =>
           msg'[e] # None /\ msg'[e].records = msg[e].records /\ msg'[e].expire = msg[e].expire,
         \A p \in Query : p # q /\ query[p].pc = "write" =>
           msg'[query[p].entry].id \in {p} \cup beside'[p],
         \A p \in Query : beside[p] \subseteq beside'[p],
         UNCHANGED <<now, swept, up, cache, hosts, lookup>>,
         QueryFits(q)'
  PROVE  DnsInv'
<1>1. DnsTypeOK
  BY DEF DnsInv
<1>2. query \in [Query -> QueryRec] /\ q \in Fetch
  BY <1>1, QueryIsFetch DEF DnsTypeOK
<1>3. \A e \in Fetch : fetch[e] = "stored" => msg[e] # None
  BY DEF DnsInv, FetchFits
<1>4. Stable
  BY <1>3 DEF Stable
<1>5. DnsTypeOK'
  <2>1. query' \in [Query -> QueryRec]
    BY <1>2
  <2>2. \A k \in Question : cache[k] # None => fetch'[cache[k]] = "stored"
    BY <1>1, <1>4 DEF Stable, DnsTypeOK
  <2> QED
    BY <1>1, <2>1, <2>2 DEF DnsTypeOK
<1>6. ASSUME NEW e \in Fetch PROVE FetchFits(e)'
  <2>1. FetchFits(e)
    BY DEF DnsInv
  <2>2. fetch'[e] = fetch[e] \/ fetch'[e] = "exchange"
    OBVIOUS
  <2> QED
    BY <2>1, <2>2 DEF FetchFits
<1>7. (\A k \in Question : EntryFits(k)') /\ (\A ip \in Addr : HostFits(ip)')
  BY <1>1, <1>4, <1>5, NowType, FetchesOnly
<1>8. ASSUME NEW p \in Query PROVE QueryFits(p)'
  <2>1. CASE p = q
    BY <2>1
  <2>2. CASE p # q
    <3>1. query'[p] = query[p] /\ fetch'[p] = fetch[p] /\ QueryFits(p)
      BY <1>2, <2>2, QueryIsFetch DEF DnsInv
    <3>2. query[p].entry \in Fetch \cup {None}
      BY <1>1, QueryRecFields
    <3>3. PICK c, e : c = query[p] /\ e = c.entry
      OBVIOUS
    <3>4. c.pc = "write" => msg'[e].id \in {p} \cup beside'[p]
      BY <2>2, <3>3
    <3>5. beside[p] \subseteq beside'[p]
      OBVIOUS
    <3>6. /\ c.pc = "idle" => fetch[p] = "idle"
          /\ c.pc \in {"idle", "wait", "id", "write"} => c.told = None
          /\ c.pc \in {"id", "write", "check"} =>
               /\ e # None /\ fetch[e] = "stored" /\ Of(e) = Asked[p]
               /\ e # p => fetch[p] = "idle"
          /\ c.pc = "check" => e # p
          /\ c.told # None => e # None /\ Of(e) = Asked[p] /\ c.told \in {p} \cup beside[p]
      BY <3>1, <3>3 DEF QueryFits
    <3>7. e # None /\ fetch[e] = "stored" => fetch'[e] = "stored"
      BY <1>4, <3>2, <3>3 DEF Stable
    <3> QED
      BY <3>1, <3>3, <3>4, <3>5, <3>6, <3>7 DEF QueryFits
  <2> QED
    BY <2>1, <2>2
<1>9. ASSUME NEW l \in Lookup, NEW t \in Type PROVE HalfFits(l, t)'
  <2>1. <<l, t>> \in Fetch /\ <<l, t>> # q
    BY HalfOf
  <2>2. fetch'[<<l, t>>] = fetch[<<l, t>>] /\ lookup'[l] = lookup[l]
    BY <2>1
  <2>3. HalfFits(l, t)
    BY DEF DnsInv
  <2> QED
    BY <1>1, <1>4, <2>2, <2>3, HalfFrame
<1> QED
  BY <1>5, <1>6, <1>7, <1>8, <1>9 DEF DnsInv

LEMMA PutPc ==
  ASSUME NEW c \in QueryRec, NEW pc \in QueryPhases
  PROVE  LET r == [c EXCEPT !.pc = pc]
         IN  r \in QueryRec /\ r.pc = pc /\ r.entry = c.entry /\ r.told = c.told
BY DEF QueryRec

LEMMA PutEntry ==
  ASSUME NEW c \in QueryRec, NEW e \in Fetch
  PROVE  LET r == [c EXCEPT !.entry = e]
         IN  r \in QueryRec /\ r.pc = c.pc /\ r.entry = e /\ r.told = c.told
BY DEF QueryRec

LEMMA PutTold ==
  ASSUME NEW c \in QueryRec, NEW id \in Fetch
  PROVE  LET r == [c EXCEPT !.told = id]
         IN  r \in QueryRec /\ r.pc = c.pc /\ r.entry = c.entry /\ r.told = id
BY DEF QueryRec

\* A step of a query that touches no response.
LEMMA QueryMoves ==
  ASSUME DnsInv, NEW q \in Query, NEW r \in QueryRec,
         query' = [query EXCEPT ![q] = r], NEW how \in FetchPhases,
         fetch' = [fetch EXCEPT ![q] = how],
         how = fetch[q] \/ (fetch[q] = "idle" /\ how = "exchange"),
         UNCHANGED <<now, swept, up, cache, hosts, msg, lookup, beside>>,
         QueryFits(q)'
  PROVE  DnsInv'
<1>1. fetch \in [Fetch -> FetchPhases] /\ q \in Fetch
  BY QueryIsFetch DEF DnsInv, DnsTypeOK
<1>2. msg' \in [Fetch -> Response \cup {None}] /\ beside' \in [Query -> SUBSET Query]
  BY DEF DnsInv, DnsTypeOK
<1>3. fetch' \in [Fetch -> FetchPhases] /\ fetch'[q] = how /\ \A e \in Fetch : e # q => fetch'[e] = fetch[e]
  BY <1>1
<1>4. \A p \in Query : query[p].pc = "write" => msg'[query[p].entry].id \in {p} \cup beside'[p]
  BY DEF DnsInv, QueryFits
<1>5. \A e \in Fetch : msg[e] # None =>
        msg'[e] # None /\ msg'[e].records = msg[e].records /\ msg'[e].expire = msg[e].expire
  OBVIOUS
<1>6. \A p \in Query : beside[p] \subseteq beside'[p]
  OBVIOUS
<1> QED
  BY <1>2, <1>3, <1>4, <1>5, <1>6, QueryStep

LEMMA QueryFitsIs ==
  ASSUME NEW q \in Query, DnsInv
  PROVE  /\ query[q] \in QueryRec /\ fetch[q] \in FetchPhases /\ q \in Fetch /\ Of(q) = Asked[q]
         /\ Asked[q] \in Question
         /\ query \in [Query -> QueryRec] /\ fetch \in [Fetch -> FetchPhases]
         /\ fetch = [fetch EXCEPT ![q] = fetch[q]]
         /\ QueryFits(q)
BY QueryIsFetch, DnsAssumption DEF DnsInv, DnsTypeOK

LEMMA GetStep ==
  ASSUME DnsInv, NEW q \in Query, Get(q)
  PROVE  DnsInv'
<1>1. /\ query[q] \in QueryRec /\ fetch[q] \in FetchPhases /\ q \in Fetch /\ Of(q) = Asked[q]
      /\ Asked[q] \in Question /\ query \in [Query -> QueryRec] /\ fetch \in [Fetch -> FetchPhases]
      /\ fetch = [fetch EXCEPT ![q] = fetch[q]] /\ QueryFits(q)
  BY QueryFitsIs
<1>2. /\ query[q].pc = "idle" /\ fetch[q] = "idle" /\ query[q].told = None
      /\ UNCHANGED <<now, swept, up, cache, hosts, msg, lookup, beside>>
  BY <1>1 DEF Get, QueryFits
<1> DEFINE e == cache[Asked[q]]
<1>3. CASE e # None
  <2> DEFINE r == [query[q] EXCEPT !.pc = "id", !.entry = e]
  <2>1. query' = [query EXCEPT ![q] = r] /\ fetch' = [fetch EXCEPT ![q] = fetch[q]]
    BY <1>1, <1>3 DEF Get
  <2>2. e \in Fetch /\ fetch[e] = "stored" /\ Of(e) = Asked[q]
    BY <1>1, <1>3 DEF DnsInv, DnsTypeOK
  <2>3. r \in QueryRec /\ r.pc = "id" /\ r.entry = e /\ r.told = None
    <3>1. "id" \in QueryPhases
      BY DEF QueryPhases
    <3>2. PICK c, pc, g : c = query[q] /\ pc = "id" /\ g = e
      OBVIOUS
    <3>3. LET s == [c EXCEPT !.pc = pc, !.entry = g]
          IN  s \in QueryRec /\ s.pc = pc /\ s.entry = g /\ s.told = c.told
      <4>1. c \in QueryRec /\ pc \in QueryPhases /\ g \in Fetch
        BY <1>1, <2>2, <3>1, <3>2
      <4> HIDE DEF e, r
      <4> DEFINE a == [c EXCEPT !.pc = pc]
                 b == [a EXCEPT !.entry = g]
      <4>2. a \in QueryRec /\ a.pc = pc /\ a.told = c.told
        BY <4>1, PutPc
      <4> HIDE DEF a
      <4>3. b \in QueryRec /\ b.pc = a.pc /\ b.entry = g /\ b.told = a.told
        BY <4>1, <4>2, PutEntry
      <4> QED
        BY <4>2, <4>3 DEF a, b
    <3> HIDE DEF e
    <3> QED
      BY <1>2, <3>2, <3>3
  <2> HIDE DEF e, r
  <2>4. query'[q] = r /\ fetch' = fetch
    BY <1>1, <2>1
  <2>5. QueryFits(q)'
    BY <1>2, <1>3, <2>2, <2>3, <2>4 DEF QueryFits
  <2> QED
    BY <1>1, <1>2, <2>1, <2>3, <2>5, QueryMoves
<1>4. CASE e = None
  <2> DEFINE r == [query[q] EXCEPT !.pc = "wait"]
  <2>1. query' = [query EXCEPT ![q] = r] /\ fetch' = [fetch EXCEPT ![q] = "exchange"]
    BY <1>4 DEF Get
  <2>2. r \in QueryRec /\ r.pc = "wait" /\ r.told = None
    BY <1>1, <1>2, PutPc DEF QueryPhases
  <2> HIDE DEF e, r
  <2>3. query'[q] = r
    BY <1>1, <2>1
  <2>4. QueryFits(q)'
    BY <2>2, <2>3 DEF QueryFits
  <2>5. "exchange" \in FetchPhases
    BY DEF FetchPhases
  <2> QED
    BY <1>2, <2>1, <2>2, <2>4, <2>5, QueryMoves
<1> QED
  BY <1>3, <1>4

LEMMA FetchedStep ==
  ASSUME DnsInv, NEW q \in Query, Fetched(q)
  PROVE  DnsInv'
<1>1. /\ query[q] \in QueryRec /\ fetch[q] \in FetchPhases /\ q \in Fetch /\ Of(q) = Asked[q]
      /\ query \in [Query -> QueryRec] /\ fetch = [fetch EXCEPT ![q] = fetch[q]] /\ QueryFits(q)
  BY QueryFitsIs
<1>2. /\ query[q].pc = "wait" /\ query[q].told = None
      /\ UNCHANGED <<now, swept, up, cache, hosts, msg, fetch, lookup, beside>>
  BY <1>1 DEF Fetched, QueryFits
<1>3. CASE fetch[q] = "stored" /\ query' = [query EXCEPT ![q].pc = "id", ![q].entry = q]
  <2> DEFINE r == [query[q] EXCEPT !.pc = "id", !.entry = q]
  <2>1. query' = [query EXCEPT ![q] = r] /\ fetch' = [fetch EXCEPT ![q] = fetch[q]]
    BY <1>1, <1>2, <1>3
  <2>2. r \in QueryRec /\ r.pc = "id" /\ r.entry = q /\ r.told = None
    <3>1. "id" \in QueryPhases
      BY DEF QueryPhases
    <3>2. PICK c, pc : c = query[q] /\ pc = "id"
      OBVIOUS
    <3>3. LET s == [c EXCEPT !.pc = pc, !.entry = q]
          IN  s \in QueryRec /\ s.pc = pc /\ s.entry = q /\ s.told = c.told
      <4>1. c \in QueryRec /\ pc \in QueryPhases /\ q \in Fetch
        BY <1>1, <3>1, <3>2
      <4> HIDE DEF r
      <4> DEFINE a == [c EXCEPT !.pc = pc]
                 b == [a EXCEPT !.entry = q]
      <4>2. a \in QueryRec /\ a.pc = pc /\ a.told = c.told
        BY <4>1, PutPc
      <4> HIDE DEF a
      <4>3. b \in QueryRec /\ b.pc = a.pc /\ b.entry = q /\ b.told = a.told
        BY <4>1, <4>2, PutEntry
      <4> QED
        BY <4>2, <4>3 DEF a, b
    <3> QED
      BY <1>2, <3>2, <3>3
  <2> HIDE DEF r
  <2>3. query'[q] = r /\ fetch' = fetch
    BY <1>1, <1>2, <2>1
  <2>4. q # None
    BY <1>1, NoneAssumption
  <2>5. QueryFits(q)'
    BY <1>1, <1>3, <2>2, <2>3, <2>4 DEF QueryFits
  <2> QED
    BY <1>1, <1>2, <2>1, <2>2, <2>5, QueryMoves
<1>4. CASE query' = [query EXCEPT ![q].pc = "done"]
  <2> DEFINE r == [query[q] EXCEPT !.pc = "done"]
  <2>1. query' = [query EXCEPT ![q] = r] /\ fetch' = [fetch EXCEPT ![q] = fetch[q]]
    BY <1>1, <1>2, <1>4
  <2>2. r \in QueryRec /\ r.pc = "done" /\ r.told = None
    BY <1>1, <1>2, PutPc DEF QueryPhases
  <2> HIDE DEF r
  <2>3. query'[q] = r
    BY <1>1, <2>1
  <2>4. QueryFits(q)'
    BY <2>2, <2>3 DEF QueryFits
  <2> QED
    BY <1>1, <1>2, <2>1, <2>2, <2>4, QueryMoves
<1> QED
  BY <1>3, <1>4 DEF Fetched

LEMMA WriteStep ==
  ASSUME DnsInv, NEW q \in Query, WriteMsg(q)
  PROVE  DnsInv'
<1>1. /\ query[q] \in QueryRec /\ fetch[q] \in FetchPhases /\ q \in Fetch /\ Of(q) = Asked[q]
      /\ query \in [Query -> QueryRec] /\ fetch = [fetch EXCEPT ![q] = fetch[q]] /\ QueryFits(q)
  BY QueryFitsIs
<1>2. PICK c, e : c = query[q] /\ e = c.entry
  OBVIOUS
<1>3. /\ c.pc = "write" /\ UNCHANGED <<now, swept, up, cache, hosts, msg, fetch, lookup, beside>>
  BY <1>2 DEF WriteMsg
<1>4. /\ e # None /\ fetch[e] = "stored" /\ Of(e) = Asked[q] /\ (e # q => fetch[q] = "idle")
      /\ msg[e].id \in {q} \cup beside[q]
  BY <1>1, <1>2, <1>3 DEF QueryFits
<1>5. e \in Fetch
  BY <1>1, <1>2, <1>4 DEF QueryRec
<1>6. PICK id \in Fetch : id = msg[e].id
  BY <1>4, <1>5, ResponseThere, ResponseFields DEF DnsInv
<1>7. PICK pc \in QueryPhases : pc = (IF e = q THEN "done" ELSE "check")
  BY DEF QueryPhases
<1> DEFINE r == [c EXCEPT !.told = id, !.pc = pc]
<1>8. query' = [query EXCEPT ![q] = r]
  BY <1>2, <1>6, <1>7 DEF WriteMsg
<1>9. r \in QueryRec /\ r.pc = pc /\ r.entry = e /\ r.told = id
  <2>1. c \in QueryRec
    BY <1>1, <1>2
  <2> DEFINE a == [c EXCEPT !.told = id]
             b == [a EXCEPT !.pc = pc]
  <2>2. a \in QueryRec /\ a.entry = c.entry /\ a.told = id
    BY <2>1, PutTold
  <2> HIDE DEF a
  <2>3. b \in QueryRec /\ b.pc = pc /\ b.entry = a.entry /\ b.told = a.told
    BY <2>2, PutPc
  <2>4. r \in QueryRec /\ r.pc = pc /\ r.entry = c.entry /\ r.told = id
    BY <2>2, <2>3 DEF a, b
  <2> HIDE DEF r
  <2> QED
    BY <1>2, <2>4
<1> HIDE DEF r
<1>10. query'[q] = r /\ fetch' = fetch /\ beside' = beside
  BY <1>1, <1>3, <1>8
<1>11. QueryFits(q)'
  BY <1>4, <1>6, <1>7, <1>9, <1>10 DEF QueryFits
<1>12. fetch' = [fetch EXCEPT ![q] = fetch[q]]
  BY <1>1, <1>3
<1> QED
  BY <1>1, <1>3, <1>8, <1>9, <1>11, <1>12, QueryMoves

LEMMA CheckStep ==
  ASSUME DnsInv, NEW q \in Query, Check(q)
  PROVE  DnsInv'
<1>1. /\ query[q] \in QueryRec /\ fetch[q] \in FetchPhases /\ q \in Fetch /\ Of(q) = Asked[q]
      /\ query \in [Query -> QueryRec] /\ fetch \in [Fetch -> FetchPhases] /\ QueryFits(q)
  BY QueryFitsIs
<1>2. PICK c : c = query[q]
  OBVIOUS
<1>3. /\ c.pc = "check" /\ UNCHANGED <<now, swept, up, cache, hosts, msg, lookup, beside>>
  BY <1>2 DEF Check
<1>4. /\ c.entry # None /\ c.entry # q /\ fetch[q] = "idle"
      /\ c.told # None => Of(c.entry) = Asked[q] /\ c.told \in {q} \cup beside[q]
  BY <1>1, <1>2, <1>3 DEF QueryFits
<1>5. PICK how \in FetchPhases : /\ how \in {"idle", "exchange"}
                                 /\ fetch' = [fetch EXCEPT ![q] = how]
  <2>1. "idle" \in FetchPhases /\ "exchange" \in FetchPhases
    BY DEF FetchPhases
  <2>2. fetch' = [fetch EXCEPT ![q] = IF now > msg[query[q].entry].expire THEN "exchange" ELSE fetch[q]]
    BY DEF Check
  <2> QED
    BY <1>4, <2>1, <2>2
<1> DEFINE r == [c EXCEPT !.pc = "done"]
<1>6. query' = [query EXCEPT ![q] = r]
  BY <1>2 DEF Check
<1>7. r \in QueryRec /\ r.pc = "done" /\ r.entry = c.entry /\ r.told = c.told
  <2>1. c \in QueryRec /\ "done" \in QueryPhases
    BY <1>1, <1>2 DEF QueryPhases
  <2> QED
    BY <2>1, PutPc
<1> HIDE DEF r
<1>8. query'[q] = r /\ beside' = beside
  BY <1>1, <1>3, <1>6
<1>9. QueryFits(q)'
  BY <1>4, <1>7, <1>8 DEF QueryFits
<1> QED
  BY <1>3, <1>4, <1>5, <1>6, <1>7, <1>9, QueryMoves

LEMMA SetIdStep ==
  ASSUME DnsInv, NEW q \in Query, SetId(q)
  PROVE  DnsInv'
<1>1. /\ query[q] \in QueryRec /\ fetch[q] \in FetchPhases /\ q \in Fetch /\ Of(q) = Asked[q]
      /\ query \in [Query -> QueryRec] /\ fetch \in [Fetch -> FetchPhases] /\ QueryFits(q)
  BY QueryFitsIs
<1>2. PICK c, e : c = query[q] /\ e = c.entry
  OBVIOUS
<1>3. /\ c.pc = "id" /\ msg' = [msg EXCEPT ![e].id = q]
      /\ beside' = [p \in Query |-> IF p \in Writers(e) THEN beside[p] \cup {q} ELSE beside[p]]
      /\ UNCHANGED <<now, swept, up, cache, hosts, fetch, lookup>>
  BY <1>2 DEF SetId
<1>4. /\ e # None /\ fetch[e] = "stored" /\ Of(e) = Asked[q] /\ (e # q => fetch[q] = "idle")
      /\ c.told = None
  BY <1>1, <1>2, <1>3 DEF QueryFits
<1>5. e \in Fetch
  BY <1>1, <1>2, <1>4 DEF QueryRec
<1>6. msg[e] \in Response /\ msg \in [Fetch -> Response \cup {None}]
  BY <1>4, <1>5, ResponseThere DEF DnsInv, DnsTypeOK
<1>7. PICK m \in Response : /\ m = [msg[e] EXCEPT !.id = q] /\ m.id = q
                            /\ m.records = msg[e].records /\ m.expire = msg[e].expire
  <2>1. [msg[e] EXCEPT !.id = q] \in Response
    BY <1>1, <1>6 DEF Response
  <2> QED
    BY <1>6, <2>1 DEF Response
<1>8. msg' = [msg EXCEPT ![e] = m]
  BY <1>3, <1>7
<1>9. msg' \in [Fetch -> Response \cup {None}] /\ msg'[e] = m /\ \A g \in Fetch : g # e => msg'[g] = msg[g]
  BY <1>5, <1>6, <1>8
<1>10. beside \in [Query -> SUBSET Query]
  BY DEF DnsInv, DnsTypeOK
<1>11. beside' \in [Query -> SUBSET Query] /\ \A p \in Query : beside[p] \subseteq beside'[p]
  BY <1>3, <1>10
<1>12. \A g \in Fetch : msg[g] # None =>
         msg'[g] # None /\ msg'[g].records = msg[g].records /\ msg'[g].expire = msg[g].expire
  <2>1. m # None
    BY NoneAssumption
  <2> QED
    BY <1>7, <1>9, <2>1
<1>13. ASSUME NEW p \in Query, p # q, query[p].pc = "write"
       PROVE  msg'[query[p].entry].id \in {p} \cup beside'[p]
  <2>1. /\ query[p].entry # None /\ msg[query[p].entry].id \in {p} \cup beside[p]
    BY <1>13 DEF DnsInv, QueryFits
  <2>2. query[p].entry \in Fetch
    BY <2>1, QueryRecFields DEF DnsInv
  <2>3. CASE query[p].entry = e
    <3>1. p \in Writers(e)
      BY <1>13, <2>3 DEF Writers
    <3>2. q \in beside'[p]
      BY <1>3, <3>1
    <3> QED
      BY <1>7, <1>9, <2>3, <3>2
  <2>4. CASE query[p].entry # e
    <3>1. msg'[query[p].entry] = msg[query[p].entry]
      BY <1>9, <2>2, <2>4
    <3>2. beside[p] \subseteq beside'[p]
      BY <1>11
    <3> QED
      BY <2>1, <3>1, <3>2
  <2> QED
    BY <2>3, <2>4
<1> DEFINE r == [c EXCEPT !.pc = "write"]
<1>14. query' = [query EXCEPT ![q] = r]
  BY <1>2 DEF SetId
<1>15. r \in QueryRec /\ r.pc = "write" /\ r.entry = e /\ r.told = c.told
  <2>1. c \in QueryRec /\ "write" \in QueryPhases
    BY <1>1, <1>2 DEF QueryPhases
  <2>2. r \in QueryRec /\ r.pc = "write" /\ r.entry = c.entry /\ r.told = c.told
    BY <2>1, PutPc
  <2> HIDE DEF r
  <2> QED
    BY <1>2, <2>2
<1> HIDE DEF r
<1>16. query'[q] = r /\ fetch' = fetch
  BY <1>1, <1>3, <1>14
<1>17. QueryFits(q)'
  BY <1>4, <1>7, <1>9, <1>15, <1>16 DEF QueryFits
<1>18. fetch' \in [Fetch -> FetchPhases] /\ fetch'[q] = fetch[q] /\ \A g \in Fetch : g # q => fetch'[g] = fetch[g]
  BY <1>1, <1>3
<1> QED
  BY <1>3, <1>9, <1>11, <1>12, <1>13, <1>14, <1>15, <1>17, <1>18, QueryStep

-----------------------------------------------------------------------------
\* The lookups.

LEMMA LookupFields ==
  ASSUME DnsTypeOK, NEW l \in Lookup
  PROVE  /\ lookup \in [Lookup -> LookupRec] /\ lookup[l] \in LookupRec
         /\ lookup[l].entry \in [Type -> Fetch \cup {None}]
         /\ lookup[l].told \in SUBSET Ip
BY DEF DnsTypeOK, LookupRec

\* A step of one lookup and the exchanges it starts.
LEMMA LookupStep ==
  ASSUME DnsInv, NEW l \in Lookup, NEW r \in LookupRec,
         lookup' = [lookup EXCEPT ![l] = r], fetch' \in [Fetch -> FetchPhases],
         \A e \in Fetch : \/ fetch'[e] = fetch[e]
                          \/ /\ fetch[e] = "idle" /\ fetch'[e] = "exchange"
                             /\ \E t \in Type : e = <<l, t>>,
         UNCHANGED <<now, swept, up, cache, hosts, msg, query, beside>>,
         \A t \in Type : HalfFits(l, t)'
  PROVE  DnsInv'
<1>1. DnsTypeOK
  BY DEF DnsInv
<1>2. Stable
  BY DEF Stable
<1>3. DnsTypeOK'
  <2>1. lookup' \in [Lookup -> LookupRec]
    BY <1>1, LookupFields
  <2>2. \A k \in Question : cache[k] # None => fetch'[cache[k]] = "stored"
    BY <1>1, <1>2 DEF Stable, DnsTypeOK
  <2> QED
    BY <1>1, <2>1, <2>2 DEF DnsTypeOK
<1>4. ASSUME NEW e \in Fetch PROVE FetchFits(e)'
  <2>1. FetchFits(e) /\ msg' = msg
    BY DEF DnsInv
  <2>2. fetch'[e] = fetch[e] \/ fetch'[e] = "exchange"
    OBVIOUS
  <2> QED
    BY <2>1, <2>2 DEF FetchFits
<1>5. (\A k \in Question : EntryFits(k)') /\ (\A ip \in Addr : HostFits(ip)')
  BY <1>1, <1>2, <1>3, NowType, FetchesOnly
<1>6. ASSUME NEW q \in Query PROVE QueryFits(q)'
  <2>1. q \in Fetch /\ \A t \in Type : q # <<l, t>>
    BY QueryIsFetch, HalfOf
  <2>2. fetch'[q] = fetch[q] /\ query' = query /\ beside' = beside /\ msg' = msg
    BY <2>1
  <2>3. QueryFits(q)
    BY DEF DnsInv
  <2> QED
    BY <1>1, <1>2, <2>2, <2>3, QueryFrame
<1>7. ASSUME NEW m \in Lookup, NEW t \in Type PROVE HalfFits(m, t)'
  <2>1. CASE m = l
    BY <2>1
  <2>2. CASE m # l
    <3>1. <<m, t>> \in Fetch /\ \A s \in Type : <<m, t>> # <<l, s>>
      BY <2>2, HalfOf
    <3>2. fetch'[<<m, t>>] = fetch[<<m, t>>]
      BY <3>1
    <3>3. lookup'[m] = lookup[m] /\ HalfFits(m, t)
      BY <1>1, <2>2, LookupFields DEF DnsInv
    <3> QED
      BY <1>1, <1>2, <3>2, <3>3, HalfFrame
  <2> QED
    BY <2>1, <2>2
<1> QED
  BY <1>3, <1>4, <1>5, <1>6, <1>7 DEF DnsInv

LEMMA LookupGetStep ==
  ASSUME DnsInv, NEW l \in Lookup, LookupGet(l)
  PROVE  DnsInv'
<1>1. DnsTypeOK /\ \A t \in Type : HalfFits(l, t)
  BY DEF DnsInv
<1>2. PICK c, t : c = lookup[l] /\ t = c.pc
  OBVIOUS
<1>3. t \in Type /\ UNCHANGED <<now, swept, up, cache, hosts, msg, query, beside>>
  BY <1>2 DEF LookupGet
<1>4. /\ c \in LookupRec /\ c.entry \in [Type -> Fetch \cup {None}] /\ c.told \in SUBSET Ip
      /\ lookup \in [Lookup -> LookupRec] /\ fetch \in [Fetch -> FetchPhases]
  BY <1>1, <1>2, LookupFields DEF DnsTypeOK
<1>5. CASE lookup' = [lookup EXCEPT ![l].pc = "disabled"] /\ UNCHANGED fetch
  <2> DEFINE r == [c EXCEPT !.pc = "disabled"]
  <2>1. lookup' = [lookup EXCEPT ![l] = r]
    BY <1>2, <1>5
  <2>2. r \in LookupRec /\ r.pc = "disabled" /\ r.entry = c.entry
    <3>1. "disabled" \in LookupPhases
      BY DEF LookupPhases
    <3> QED
      BY <1>4, <3>1 DEF LookupRec
  <2> HIDE DEF r
  <2>3. lookup'[l] = r
    BY <1>4, <2>1
  <2>4. ASSUME NEW s \in Type PROVE HalfFits(l, s)'
    <3>1. c.entry[s] # None => fetch[c.entry[s]] = "stored"
      BY <1>1, <1>2 DEF HalfFits
    <3>2. r.pc # "A" /\ r.pc # s /\ r.pc # "done"
      BY <2>2 DEF Type
    <3> QED
      BY <1>5, <2>2, <2>3, <3>1, <3>2 DEF HalfFits
  <2> QED
    BY <1>3, <1>4, <1>5, <2>1, <2>2, <2>4, LookupStep
<1>6. CASE ~(up # "enabled" /\ t = "A")
  <2> DEFINE k == <<Host[l], t>>
             e == cache[k]
  <2>1. PICK then \in LookupPhases : then = IF t = "A" THEN "AAAA" ELSE "wait"
    BY DEF LookupPhases, Type
  <2>2. /\ lookup' = [lookup EXCEPT ![l].pc = then, ![l].entry[t] = e]
        /\ fetch' = IF e # None THEN fetch ELSE [fetch EXCEPT ![<<l, t>>] = "exchange"]
    BY <1>2, <1>6, <2>1 DEF LookupGet
  <2>3. k \in Question
    BY <1>3, DnsAssumption DEF Question
  <2>4. e \in Fetch \cup {None} /\ (e # None => fetch[e] = "stored")
    BY <1>1, <2>3 DEF DnsTypeOK
  <2> HIDE DEF k, e
  <2> DEFINE entry == [c.entry EXCEPT ![t] = e]
             a == [c EXCEPT !.pc = then]
             r == [a EXCEPT !.entry = entry]
  <2>5. /\ entry \in [Type -> Fetch \cup {None}] /\ entry[t] = e
        /\ \A s \in Type : s # t => entry[s] = c.entry[s]
    BY <1>3, <1>4, <2>4
  <2>6. a \in LookupRec /\ a.pc = then /\ a.entry = c.entry
    BY <1>4 DEF LookupRec
  <2>7. lookup' = [lookup EXCEPT ![l] = r]
    <3>1. [lookup EXCEPT ![l].pc = then, ![l].entry[t] = e] = [lookup EXCEPT ![l] = [c EXCEPT !.pc = then, !.entry[t] = e]]
      BY <1>2, <1>4
    <3>2. [c EXCEPT !.pc = then, !.entry[t] = e] = [a EXCEPT !.entry = entry]
      BY <1>4, <2>6 DEF LookupRec
    <3> QED
      BY <2>2, <3>1, <3>2
  <2> HIDE DEF a, entry
  <2>8. r \in LookupRec /\ r.pc = then /\ r.entry = entry
    BY <2>5, <2>6 DEF LookupRec
  <2> HIDE DEF r
  <2>9. lookup'[l] = r
    BY <1>4, <2>7
  <2>10. PICK f \in Fetch : f = <<l, t>> /\ fetch[f] = "idle"
    <3>1. HalfFits(l, t)
      BY <1>1, <1>3
    <3> QED
      BY <1>2, <1>3, <3>1, HalfOf DEF HalfFits
  <2>11. fetch' = fetch \/ fetch' = [fetch EXCEPT ![f] = "exchange"]
    BY <2>2, <2>10
  <2>12. /\ fetch' \in [Fetch -> FetchPhases]
         /\ \A g \in Fetch : fetch'[g] = fetch[g] \/ (g = f /\ fetch'[g] = "exchange")
    <3>1. "exchange" \in FetchPhases
      BY DEF FetchPhases
    <3> QED
      BY <1>4, <2>11, <3>1
  <2>13. \A g \in Fetch : \/ fetch'[g] = fetch[g]
                          \/ /\ fetch[g] = "idle" /\ fetch'[g] = "exchange"
                             /\ \E s \in Type : g = <<l, s>>
    BY <1>3, <2>10, <2>12
  <2>14. ASSUME NEW s \in Type PROVE HalfFits(l, s)'
    <3>1. r.pc # "done" /\ r.pc # "A"
      BY <2>1, <2>8
    <3>2. r.pc = s => fetch'[<<l, s>>] = "idle"
      <4> SUFFICES ASSUME r.pc = s PROVE fetch'[<<l, s>>] = "idle"
        OBVIOUS
      <4>1. t = "A" /\ s # t
        BY <2>1, <2>8 DEF Type
      <4>2. fetch[<<l, s>>] = "idle"
        BY <1>1, <1>2, <4>1 DEF HalfFits
      <4>3. <<l, s>> \in Fetch /\ <<l, s>> # f
        BY <2>10, <4>1, HalfOf
      <4> QED
        BY <2>12, <4>2, <4>3
    <3>3. r.entry[s] # None => fetch'[r.entry[s]] = "stored"
      <4>1. r.entry[s] \in Fetch \cup {None}
        BY <2>5, <2>8
      <4>2. r.entry[s] # None => fetch[r.entry[s]] = "stored"
        <5>1. CASE s = t
          BY <2>4, <2>5, <2>8, <5>1
        <5>2. CASE s # t
          <6>1. HalfFits(l, s)
            BY <1>1
          <6> QED
            BY <1>2, <2>5, <2>8, <5>2, <6>1 DEF HalfFits
        <5> QED
          BY <5>1, <5>2
      <4> QED
        BY <2>10, <2>12, <4>1, <4>2
    <3> QED
      BY <2>9, <3>1, <3>2, <3>3 DEF HalfFits
  <2> QED
    BY <1>3, <2>7, <2>8, <2>12, <2>13, <2>14, LookupStep
<1> QED
  BY <1>2, <1>5, <1>6 DEF LookupGet

LEMMA AddressesType ==
  ASSUME DnsInv, NEW e \in Fetch \cup {None}, NEW t \in Type, e # None => fetch[e] = "stored"
  PROVE  Addresses(e, t) \subseteq Ip
<1> SUFFICES ASSUME e # None
             PROVE  Addresses(e, t) \subseteq Ip
  BY DEF Addresses
<1>1. FetchFits(e) /\ DnsTypeOK
  BY DEF DnsInv
<1>2. msg[e].records \in SUBSET Record
  BY <1>1, ResponseThere, ResponseFields
<1>3. \A s \in Record : s.type = t => s.ip \in Ip
  BY DEF Record, Type
<1> QED
  BY <1>2, <1>3 DEF Addresses

LEMMA LookupEndsStep ==
  ASSUME DnsInv, NEW l \in Lookup, LookupEnds(l)
  PROVE  DnsInv'
<1>1. DnsTypeOK /\ \A t \in Type : HalfFits(l, t)
  BY DEF DnsInv
<1>2. PICK c, told : c = lookup[l] /\ told = Found(l)
  OBVIOUS
<1>3. /\ c.pc = "wait" /\ (\A t \in Type : fetch[<<l, t>>] \notin {"exchange", "store"})
      /\ lookup' = [lookup EXCEPT ![l].pc = "done", ![l].told = told]
      /\ UNCHANGED <<now, swept, up, cache, hosts, msg, fetch, query, beside>>
  BY <1>2 DEF LookupEnds, Report, Running
<1>4. /\ c \in LookupRec /\ c.entry \in [Type -> Fetch \cup {None}]
      /\ lookup \in [Lookup -> LookupRec] /\ fetch \in [Fetch -> FetchPhases]
  BY <1>1, <1>2, LookupFields DEF DnsTypeOK
<1>5. ASSUME NEW t \in Type
      PROVE  /\ fetch[<<l, t>>] \in {"idle", "stored", "failed"}
             /\ EntryOf(l, t) \in Fetch \cup {None}
             /\ EntryOf(l, t) # None => fetch[EntryOf(l, t)] = "stored"
             /\ Addresses(EntryOf(l, t), t) \subseteq told
  <2>1. <<l, t>> \in Fetch /\ <<l, t>> \notin Query
    BY HalfOf
  <2>2. fetch[<<l, t>>] # "direct"
    BY <2>1 DEF DnsInv, FetchFits
  <2>3. fetch[<<l, t>>] \in FetchPhases
    BY <1>4, <2>1
  <2>4. fetch[<<l, t>>] \in {"idle", "stored", "failed"}
    BY <1>3, <2>2, <2>3 DEF FetchPhases
  <2>5. c.entry[t] \in Fetch \cup {None} /\ (c.entry[t] # None => fetch[c.entry[t]] = "stored")
    BY <1>1, <1>2, <1>4 DEF HalfFits
  <2>6. /\ EntryOf(l, t) \in Fetch \cup {None}
        /\ EntryOf(l, t) # None => fetch[EntryOf(l, t)] = "stored"
    BY <1>2, <2>1, <2>5 DEF EntryOf
  <2>7. Addresses(EntryOf(l, t), t) \subseteq told
    BY <1>2 DEF Found
  <2> QED
    BY <2>4, <2>6, <2>7
<1>6. told \in SUBSET Ip
  <2>1. ASSUME NEW t \in Type PROVE Addresses(EntryOf(l, t), t) \subseteq Ip
    <3>1. PICK e \in Fetch \cup {None} : e = EntryOf(l, t)
      BY <1>5
    <3>2. e # None => fetch[e] = "stored"
      BY <1>5, <3>1
    <3>3. Addresses(e, t) \subseteq Ip
      BY <3>2, AddressesType
    <3> QED
      BY <3>1, <3>3
  <2> QED
    BY <1>2, <2>1, Zenon DEF Found
<1> DEFINE a == [c EXCEPT !.pc = "done"]
           r == [a EXCEPT !.told = told]
<1>7. a \in LookupRec /\ a.pc = "done" /\ a.entry = c.entry
  <2>1. "done" \in LookupPhases
    BY DEF LookupPhases
  <2> QED
    BY <1>4, <2>1 DEF LookupRec
<1>8. lookup' = [lookup EXCEPT ![l] = r]
  <2>1. [lookup EXCEPT ![l].pc = "done", ![l].told = told]
          = [lookup EXCEPT ![l] = [c EXCEPT !.pc = "done", !.told = told]]
    BY <1>2, <1>4
  <2>2. [c EXCEPT !.pc = "done", !.told = told] = [a EXCEPT !.told = told]
    BY <1>4, <1>7 DEF LookupRec
  <2> QED
    BY <1>3, <2>1, <2>2
<1> HIDE DEF a
<1>9. r \in LookupRec /\ r.pc = "done" /\ r.entry = c.entry /\ r.told = told
  BY <1>6, <1>7 DEF LookupRec
<1> HIDE DEF r
<1>10. lookup'[l] = r
  BY <1>4, <1>8
<1>11. ASSUME NEW t \in Type PROVE HalfFits(l, t)'
  <2>1. c.entry[t] # None => fetch[c.entry[t]] = "stored"
    BY <1>1, <1>2 DEF HalfFits
  <2>2. fetch[<<l, t>>] = "stored" => Addresses(<<l, t>>, t) \subseteq told
    BY <1>5 DEF EntryOf
  <2>3. fetch[<<l, t>>] = "idle" => Addresses(c.entry[t], t) \subseteq told
    BY <1>2, <1>5 DEF EntryOf
  <2>4. \A e : Addresses(e, t)' = Addresses(e, t)
    BY <1>3 DEF Addresses
  <2>5. r.pc # "A" /\ r.pc # t
    BY <1>9 DEF Type
  <2>6. fetch[<<l, t>>] \in {"idle", "stored", "failed"} /\ fetch' = fetch
    BY <1>3, <1>5
  <2> QED
    BY <1>9, <1>10, <2>1, <2>2, <2>3, <2>4, <2>5, <2>6 DEF HalfFits
<1>12. fetch' \in [Fetch -> FetchPhases] /\ fetch' = fetch
  BY <1>3, <1>4
<1> QED
  BY <1>3, <1>8, <1>9, <1>11, <1>12, LookupStep

-----------------------------------------------------------------------------
\* The invariant, and what it says.

LEMMA InitOK == Init => DnsInv
<1> SUFFICES ASSUME Init PROVE DnsInv
  OBVIOUS
<1>1. /\ \A k \in Question : cache[k] = None
      /\ \A ip \in Addr : hosts[ip] = None
      /\ \A f \in Fetch : fetch[f] = "idle"
  BY DEF Init
<1>2. DnsTypeOK
  <2>1. now \in 0 .. Horizon /\ swept \in 0 .. now /\ now <= swept + Interval
    BY IntervalType DEF Init
  <2>2. /\ cache \in [Question -> Fetch \cup {None}] /\ hosts \in [Addr -> HostRec \cup {None}]
        /\ msg \in [Fetch -> Response \cup {None}] /\ beside \in [Query -> SUBSET Query]
    BY DEF Init
  <2>3. fetch \in [Fetch -> FetchPhases]
    BY DEF Init, FetchPhases
  <2>4. query \in [Query -> QueryRec]
    BY DEF Init, QueryRec, QueryPhases
  <2>5. lookup \in [Lookup -> LookupRec]
    BY DEF Init, LookupRec, LookupPhases, Type
  <2> QED
    BY <1>1, <2>1, <2>2, <2>3, <2>4, <2>5 DEF Init, DnsTypeOK
<1>3. \A f \in Fetch : FetchFits(f)
  BY <1>1 DEF FetchFits
<1>4. ASSUME NEW q \in Query PROVE QueryFits(q)
  <2>1. query[q].pc = "idle" /\ query[q].told = None
    BY DEF Init
  <2>2. fetch[q] = "idle"
    BY <1>1, QueryIsFetch
  <2> QED
    BY <2>1, <2>2 DEF QueryFits
<1>5. ASSUME NEW l \in Lookup, NEW t \in Type PROVE HalfFits(l, t)
  <2>1. lookup[l].pc = "A" /\ lookup[l].entry[t] = None
    BY DEF Init
  <2>2. fetch[<<l, t>>] = "idle"
    BY <1>1, HalfOf
  <2> QED
    BY <2>1, <2>2 DEF HalfFits
<1>6. (\A k \in Question : EntryFits(k)) /\ (\A ip \in Addr : HostFits(ip))
  BY <1>1 DEF EntryFits, HostFits
<1> QED
  BY <1>2, <1>3, <1>4, <1>5, <1>6 DEF DnsInv

LEMMA StutterOK ==
  ASSUME DnsInv, UNCHANGED vars
  PROVE  DnsInv'
<1>1. UNCHANGED <<now, swept, up, cache, hosts, msg, fetch, query, lookup, beside>>
  BY DEF vars
<1>2. DnsTypeOK' /\ \A f \in Fetch : FetchFits(f)'
  BY <1>1 DEF DnsInv, DnsTypeOK, FetchFits
<1>3. Stable /\ now' \in Nat /\ now <= now'
  BY <1>1, NowType DEF Stable, DnsInv
<1>4. (\A k \in Question : EntryFits(k)') /\ (\A ip \in Addr : HostFits(ip)')
  BY <1>1, <1>2, <1>3, FetchesOnly
<1>5. (\A q \in Query : QueryFits(q)') /\ (\A l \in Lookup, t \in Type : HalfFits(l, t)')
  BY <1>1, <1>3, QuietQueries, QuietLookups
<1> QED
  BY <1>2, <1>4, <1>5 DEF DnsInv

LEMMA NilAnswerStep == ASSUME DnsInv, NEW f \in Fetch, NilAnswer(f) PROVE DnsInv'
<1>1. UNCHANGED <<now, swept, cache, hosts, msg, fetch, query, lookup, beside>> /\ up' = "dead"
  BY DEF NilAnswer
<1>2. DnsTypeOK' /\ \A e \in Fetch : FetchFits(e)'
  BY <1>1 DEF DnsInv, DnsTypeOK, FetchFits
<1>3. Stable /\ now' \in Nat /\ now <= now'
  BY <1>1, NowType DEF Stable, DnsInv
<1>4. (\A k \in Question : EntryFits(k)') /\ (\A ip \in Addr : HostFits(ip)')
  BY <1>1, <1>2, <1>3, FetchesOnly
<1>5. (\A q \in Query : QueryFits(q)') /\ (\A l \in Lookup, t \in Type : HalfFits(l, t)')
  BY <1>1, <1>3, QuietQueries, QuietLookups
<1> QED
  BY <1>2, <1>4, <1>5 DEF DnsInv

LEMMA StepOK == DnsInv /\ [Next]_vars => DnsInv'
<1> SUFFICES ASSUME DnsInv, [Next]_vars
             PROVE  DnsInv'
  OBVIOUS
<1>1. CASE Enable \/ Tick
  BY <1>1, ClockStep
<1>2. CASE Sweep
  BY <1>2, SweepStep
<1>3. ASSUME NEW f \in Fetch, Exchange(f) \/ NilAnswer(f) \/ Direct(f) \/ CacheResponse(f)
      PROVE  DnsInv'
  BY <1>3, FetchStep, NilAnswerStep, CacheStep
<1>4. ASSUME NEW q \in Query, Get(q) \/ Fetched(q) \/ SetId(q) \/ WriteMsg(q) \/ Check(q)
      PROVE  DnsInv'
  BY <1>4, GetStep, FetchedStep, SetIdStep, WriteStep, CheckStep
<1>5. ASSUME NEW l \in Lookup, LookupGet(l) \/ LookupEnds(l)
      PROVE  DnsInv'
  BY <1>5, LookupGetStep, LookupEndsStep
<1>6. CASE UNCHANGED vars
  BY <1>6, StutterOK
<1> QED
  BY <1>1, <1>2, <1>3, <1>4, <1>5, <1>6 DEF Next, Works, Arrives

LEMMA AlwaysOK == Spec => []DnsInv
BY InitOK, StepOK, PTL DEF Spec

\* Every state fits its types; the clock is at most one interval ahead of the
\* evict loop, and what the cache holds for a question is a stored answer to that
\* question (updateCache and set, dns.go:62-98; dnsCacheEvictLoop, dns.go:101-124).
THEOREM DnsTyped == Spec => []DnsTypeOK
<1>1. DnsInv => DnsTypeOK
  BY DEF DnsInv
<1> QED
  BY <1>1, AlwaysOK, PTL

\* A query gets an answer to its own question, under its own Id unless another
\* query set the Id of the shared response between its two steps (dnsQuery,
\* dns.go:240-254).
THEOREM OwnAnswers == Spec => []AnswerIsMine
<1>1. DnsInv => AnswerIsMine
  BY DEF DnsInv, QueryFits, AnswerIsMine
<1> QED
  BY <1>1, AlwaysOK, PTL

\* Nothing that expired more than Evict and one interval of the evict loop ago is
\* found in either map (dnsCacheEvictLoop, dns.go:101-124).
THEOREM StaleBounded == Spec => []StaleIsBounded
<1>1. ASSUME DnsInv PROVE StaleIsBounded
  <2>1. now \in Nat /\ swept \in Nat /\ now <= swept + Interval /\ Interval \in Nat
    BY <1>1, NowType, IntervalType DEF DnsInv, DnsTypeOK
  <2>2. \A x \in Nat : swept <= x + Evict => now <= x + Evict + Interval
    BY <2>1
  <2>3. ASSUME NEW k \in Question, cache[k] # None
        PROVE  now <= msg[cache[k]].expire + Evict + Interval
    <3>1. cache[k] \in Fetch /\ fetch[cache[k]] = "stored" /\ FetchFits(cache[k])
      BY <1>1, <2>3 DEF DnsInv, DnsTypeOK
    <3>2. msg[cache[k]].expire \in Nat
      BY <1>1, <3>1, ResponseThere, ResponseFields DEF DnsInv
    <3>3. swept <= msg[cache[k]].expire + Evict
      BY <1>1, <2>3 DEF DnsInv, EntryFits
    <3> QED
      BY <2>2, <3>2, <3>3
  <2>4. ASSUME NEW ip \in Addr, hosts[ip] # None
        PROVE  now <= hosts[ip].expire + Evict + Interval
    <3>1. hosts[ip].expire \in Nat /\ swept <= hosts[ip].expire + Evict
      BY <1>1, <2>4 DEF DnsInv, DnsTypeOK, HostFits, HostRec
    <3> QED
      BY <2>2, <3>1
  <2> QED
    BY <2>3, <2>4 DEF StaleIsBounded
<1> QED
  BY <1>1, AlwaysOK, PTL

\* A name found for an address was answered with it, and not longer ago than the
\* longest TTL, Evict and one interval: a host entry keeps its first expiry,
\* however often its address is answered (set, dns.go:86-98).
THEOREM ReverseTrue == Spec => []ReverseIsTrue
<1>1. ASSUME DnsInv PROVE ReverseIsTrue
  <2> SUFFICES ASSUME NEW ip \in Addr, NEW n \in ReverseLookup(ip)
               PROVE  \E f \in Fetch :
                        /\ fetch[f] = "stored" /\ Of(f)[1] = n /\ ip \in {r.ip : r \in msg[f].records}
                        /\ now <= msg[f].expire - MaxTTL(msg[f].records) + Longest + Evict + Interval
    BY DEF ReverseIsTrue
  <2>1. now \in Nat /\ swept \in Nat /\ now <= swept + Interval /\ Interval \in Nat
    BY <1>1, NowType, IntervalType DEF DnsInv, DnsTypeOK
  <2>2. hosts[ip] # None /\ n \in ToSet(hosts[ip].names)
    BY DEF ReverseLookup
  <2>3. PICK i \in DOMAIN hosts[ip].names : n = hosts[ip].names[i]
    BY <2>2 DEF ToSet
  <2>4. hosts[ip].expire \in Nat /\ HostFits(ip)
    BY <1>1, <2>2 DEF DnsInv, DnsTypeOK, HostRec
  <2>5. PICK f \in Fetch : Source(f, n, ip, hosts[ip].expire)
    BY <2>2, <2>3, <2>4 DEF HostFits
  <2>6. swept <= hosts[ip].expire + Evict
    BY <2>2, <2>4 DEF HostFits
  <2>7. fetch[f] = "stored" /\ Of(f)[1] = n /\ ip \in {r.ip : r \in msg[f].records}
    BY <2>5 DEF Source
  <2>8. PICK h, x, m : h = hosts[ip].expire /\ x = msg[f].expire /\ m = MaxTTL(msg[f].records)
    OBVIOUS
  <2>9. h \in Nat /\ x \in Nat /\ m \in Nat /\ Longest \in Nat /\ h + m <= x + Longest
    <3>1. FetchFits(f) /\ DnsTypeOK
      BY <1>1 DEF DnsInv
    <3>2. msg[f] \in Response /\ MaxTTL(msg[f].records) \in Nat /\ Longest \in Nat
      BY <2>7, <3>1, ResponseThere DEF TTL
    <3> QED
      BY <2>4, <2>5, <2>8, <3>2, ResponseFields DEF Source
  <2>10. now <= x - m + Longest + Evict + Interval
    <3>1. now <= h + Evict + Interval
      BY <2>1, <2>6, <2>8, <2>9
    <3>2. h <= x - m + Longest
      BY <2>9
    <3>3. \A z \in Int : h <= z => now <= z + Evict + Interval
      BY <2>1, <2>9, <3>1
    <3>4. x - m + Longest \in Int
      BY <2>9
    <3> QED
      BY <3>2, <3>3, <3>4
  <2> QED
    BY <2>7, <2>8, <2>10
<1> QED
  BY <1>1, AlwaysOK, PTL

\* A lookup that has reported leaves no exchange behind and has reported every
\* address that was found or fetched for either half (LookupIP, dns.go:168-218).
THEOREM LookupsWhole == Spec => []LookupIsWhole
<1>1. DnsInv => LookupIsWhole
  BY DEF DnsInv, HalfFits, LookupIsWhole
<1> QED
  BY <1>1, AlwaysOK, PTL
=============================================================================
