------------------------------ MODULE DnsCache ------------------------------
(***************************************************************************)
(* The local DNS server with its cache (dns/dns.go).  Each query runs in a *)
(* goroutine of its own; so does each refresh of an expired entry and each *)
(* half of a LookupIP.  An entry holds the response of the upstream        *)
(* itself, which all that found it share, and whose Id each query sets     *)
(* before it writes it.  The evict loop removes entries some time after    *)
(* they expired.  The upstream, its answers and its failures are external. *)
(***************************************************************************)
EXTENDS Naturals, Sequences, FiniteSetsExt, SequencesExt

CONSTANTS
  Query,     \* queries of apps, each with an Id of its own
  Asked,     \* the question of each
  Lookup,    \* calls of LookupIP
  Host,      \* the name each looks up
  Name, Ip,
  Answers,   \* what the upstream may answer to a question
  Evict,     \* Options.Evict
  Minute,
  Uint32,    \* the highest TTL of a record
  Horizon,   \* bounds the clock
  None       \* nothing there

ASSUME ClockAssumption ==
  Evict \in Nat /\ Minute \in Nat \ {0} /\ Uint32 \in Nat /\ Horizon \in Nat

Type == {"A", "AAAA"}
Question == Name \X Type
Fetch == Query \cup (Lookup \X Type)
Of(f) == IF f \in Query THEN Asked[f] ELSE <<Host[f[1]], f[2]>>

\* Every record that is neither A nor AAAA counts for the empty address.
TTL == 0 .. Uint32
Record == [type: Type, ip: Ip, ttl: TTL] \cup [type: {"CNAME"}, ip: {""}, ttl: TTL]
Answer == [records: SUBSET Record, question: BOOLEAN]
Addr == Ip \cup {""}

ASSUME DnsAssumption ==
  /\ Asked \in [Query -> Question]
  /\ Host \in [Lookup -> Name]
  /\ Answers \in [Question -> SUBSET Answer]
  /\ Query \cap (Lookup \X Type) = {}

Interval == Max({Evict \div 20, Minute})

VARIABLES
  now,
  swept,    \* when the evict loop last ran
  up,       \* "starting", "enabled", or "dead" after a panic
  cache,    \* question -> whose response the entry holds
  hosts,    \* address -> its host entry
  msg,      \* the response each fetch obtained, with the entry's expiry
  fetch,    \* where each exchange with the upstream is
  query,    \* where each query is, the entry it found, what was written to its app
  lookup,   \* the same of each lookup
  beside    \* history: queries that set the Id between a query's own two steps

vars == <<now, swept, up, cache, hosts, msg, fetch, query, lookup, beside>>

Response == [id: Fetch, records: SUBSET Record, question: BOOLEAN, expire: Nat]
HostRec == [names: Seq(Name), expire: Nat]
ASSUME NoneAssumption == None \notin Fetch \cup Response \cup HostRec

FetchPhases == {"idle", "exchange", "direct", "store", "stored", "failed"}
QueryPhases == {"idle", "wait", "id", "write", "check", "done"}
QueryRec == [pc: QueryPhases, entry: Fetch \cup {None}, told: Fetch \cup {None}]
LookupPhases == Type \cup {"wait", "disabled", "done"}
LookupRec == [pc: LookupPhases, entry: [Type -> Fetch \cup {None}], told: SUBSET Ip]

DnsTypeOK ==
  /\ now \in 0 .. Horizon /\ swept \in 0 .. now /\ now <= swept + Interval
  /\ up \in {"starting", "enabled", "dead"}
  /\ cache \in [Question -> Fetch \cup {None}]
  /\ hosts \in [Addr -> HostRec \cup {None}]
  /\ msg \in [Fetch -> Response \cup {None}]
  /\ fetch \in [Fetch -> FetchPhases]
  /\ query \in [Query -> QueryRec]
  /\ lookup \in [Lookup -> LookupRec]
  /\ beside \in [Query -> SUBSET Query]
  /\ \A k \in Question : cache[k] # None => fetch[cache[k]] = "stored" /\ Of(cache[k]) = k

Init ==
  /\ now = 0 /\ swept = 0 /\ up = "starting"
  /\ cache = [k \in Question |-> None]
  /\ hosts = [ip \in Addr |-> None]
  /\ msg = [f \in Fetch |-> None]
  /\ fetch = [f \in Fetch |-> "idle"]
  /\ query = [q \in Query |-> [pc |-> "idle", entry |-> None, told |-> None]]
  /\ lookup = [l \in Lookup |-> [pc |-> "A", entry |-> [t \in Type |-> None], told |-> {}]]
  /\ beside = [q \in Query |-> {}]

\* Run serves queries before it lets LookupIP answer.
Enable ==
  /\ up = "starting"
  /\ up' = "enabled"
  /\ UNCHANGED <<now, swept, cache, hosts, msg, fetch, query, lookup, beside>>

\* The evict loop holds the lock over both maps and keeps up with its ticker.
Old(expire) == now > expire + Evict
SweptCache ==
  [k \in Question |-> IF cache[k] # None /\ Old(msg[cache[k]].expire) THEN None ELSE cache[k]]
SweptHosts ==
  [ip \in Addr |-> IF hosts[ip] # None /\ Old(hosts[ip].expire) THEN None ELSE hosts[ip]]

\* Mutant: the expired keys of the cache are removed from the host cache.
SweepWrongMap ==
  /\ now = swept + Interval
  /\ swept' = now
  /\ hosts' = SweptHosts
  /\ UNCHANGED <<now, up, cache, msg, fetch, query, lookup, beside>>

Sweep ==
  /\ now = swept + Interval
  /\ swept' = now
  /\ cache' = SweptCache
  /\ hosts' = SweptHosts
  /\ UNCHANGED <<now, up, msg, fetch, query, lookup, beside>>

Tick ==
  /\ now < Horizon /\ now < swept + Interval
  /\ now' = now + 1
  /\ UNCHANGED <<swept, up, cache, hosts, msg, fetch, query, lookup, beside>>

-----------------------------------------------------------------------------
\* updateCache asks opts.Exchange and, when that returns neither an answer nor
\* an error, the upstream itself; the halves of a lookup ask once.
Answered(f) ==
  /\ \E a \in Answers[Of(f)] :
       msg' = [msg EXCEPT ![f] = [id |-> f, records |-> a.records, question |-> a.question, expire |-> 0]]
  /\ fetch' = [fetch EXCEPT ![f] = "store"]
Ends(f, how) == fetch' = [fetch EXCEPT ![f] = how] /\ UNCHANGED msg
Exchange(f) ==
  /\ fetch[f] = "exchange"
  /\ Answered(f) \/ Ends(f, "failed") \/ (f \in Query /\ Ends(f, "direct"))
  /\ UNCHANGED <<now, swept, up, cache, hosts, query, lookup, beside>>
\* A lookup that gets neither an answer nor an error passes nil on to
\* cacheResponse, which panics.
NilAnswer(f) ==
  /\ fetch[f] = "exchange" /\ f \notin Query
  /\ up' = "dead"
  /\ UNCHANGED <<now, swept, cache, hosts, msg, fetch, query, lookup, beside>>
Direct(f) ==
  /\ fetch[f] = "direct"
  /\ Answered(f) \/ Ends(f, "failed")
  /\ UNCHANGED <<now, swept, up, cache, hosts, query, lookup, beside>>

\* Mutant: every answer renews the entry's expiry.
HostingRenewed(ip, name, expire) ==
  IF hosts[ip] = None THEN [names |-> <<name>>, expire |-> expire]
  ELSE [names |-> Append(hosts[ip].names, name), expire |-> expire]

\* A new host entry takes the expiry of the answer, one that exists keeps its own.
Hosting(ip, name, expire) ==
  IF hosts[ip] = None THEN [names |-> <<name>>, expire |-> expire]
  ELSE [hosts[ip] EXCEPT !.names = Append(@, name)]

\* The highest TTL of the records counts, 0 if there are none.
MaxTTL(records) == Max({0} \cup {r.ttl : r \in records})

\* Mutant: entries are stored by name alone.
CacheByName(f) ==
  /\ fetch[f] = "store" /\ msg[f].question
  /\ fetch' = [fetch EXCEPT ![f] = "stored"]
  /\ msg' = [msg EXCEPT ![f].expire = now + MaxTTL(msg[f].records)]
  /\ cache' = [cache EXCEPT ![<<Of(f)[1], "A">>] = f]
  /\ UNCHANGED <<now, swept, up, hosts, query, lookup, beside>>

\* An answer that does not repeat the question panics in set.
CacheResponse(f) ==
  LET expire == now + MaxTTL(msg[f].records)
      named == {r.ip : r \in msg[f].records}
  IN  /\ fetch[f] = "store"
      /\ fetch' = [fetch EXCEPT ![f] = "stored"]
      /\ msg' = [msg EXCEPT ![f].expire = expire]
      /\ cache' = [cache EXCEPT ![Of(f)] = f]
      /\ IF msg[f].question
           THEN hosts' = [ip \in Addr |-> IF ip \in named THEN Hosting(ip, Of(f)[1], expire) ELSE hosts[ip]]
                /\ UNCHANGED up
           ELSE up' = "dead" /\ UNCHANGED hosts
      /\ UNCHANGED <<now, swept, query, lookup, beside>>

-----------------------------------------------------------------------------
\* dnsQuery: the entry, its Id, the write, and a refresh if it had expired.
Get(q) ==
  /\ query[q].pc = "idle"
  /\ IF cache[Asked[q]] # None
       THEN query' = [query EXCEPT ![q].pc = "id", ![q].entry = cache[Asked[q]]] /\ UNCHANGED fetch
       ELSE query' = [query EXCEPT ![q].pc = "wait"] /\ fetch' = [fetch EXCEPT ![q] = "exchange"]
  /\ UNCHANGED <<now, swept, up, cache, hosts, msg, lookup, beside>>

\* The entry the query waited for, or no answer.
Fetched(q) ==
  /\ query[q].pc = "wait"
  /\ \/ fetch[q] = "stored" /\ query' = [query EXCEPT ![q].pc = "id", ![q].entry = q]
     \/ fetch[q] = "failed" /\ query' = [query EXCEPT ![q].pc = "done"]
  /\ UNCHANGED <<now, swept, up, cache, hosts, msg, fetch, lookup, beside>>

Writers(e) == {q \in Query : query[q].pc = "write" /\ query[q].entry = e}
\* Mutant: the Id of an entry that was found is not set.
SetIdOfOwn(q) ==
  /\ query[q].pc = "id"
  /\ query' = [query EXCEPT ![q].pc = "write"]
  /\ UNCHANGED <<now, swept, up, cache, hosts, fetch, lookup, msg, beside>>

SetId(q) ==
  LET e == query[q].entry
  IN  /\ query[q].pc = "id"
      /\ msg' = [msg EXCEPT ![e].id = q]
      /\ query' = [query EXCEPT ![q].pc = "write"]
      /\ beside' = [p \in Query |-> IF p \in Writers(e) THEN beside[p] \cup {q} ELSE beside[p]]
      /\ UNCHANGED <<now, swept, up, cache, hosts, fetch, lookup>>

WriteMsg(q) ==
  /\ query[q].pc = "write"
  /\ query' = [query EXCEPT ![q].told = msg[query[q].entry].id,
                            ![q].pc = IF query[q].entry = q THEN "done" ELSE "check"]
  /\ UNCHANGED <<now, swept, up, cache, hosts, msg, fetch, lookup, beside>>

\* Mutant: an entry is refreshed only once it is due to be evicted.
CheckLate(q) ==
  /\ query[q].pc = "check"
  /\ query' = [query EXCEPT ![q].pc = "done"]
  /\ fetch' = [fetch EXCEPT ![q] = IF Old(msg[query[q].entry].expire) THEN "exchange" ELSE @]
  /\ UNCHANGED <<now, swept, up, cache, hosts, msg, lookup, beside>>

\* updateCache runs on its own; its result goes to the cache only.
Check(q) ==
  /\ query[q].pc = "check"
  /\ query' = [query EXCEPT ![q].pc = "done"]
  /\ fetch' = [fetch EXCEPT ![q] = IF now > msg[query[q].entry].expire THEN "exchange" ELSE @]
  /\ UNCHANGED <<now, swept, up, cache, hosts, msg, lookup, beside>>

-----------------------------------------------------------------------------
\* LookupIP looks for both halves, A first, and asks for those it misses.  It
\* takes what it finds, expired or not.
LookupGet(l) ==
  LET t == lookup[l].pc
      k == <<Host[l], t>>
      then == IF t = "A" THEN "AAAA" ELSE "wait"
  IN  /\ t \in Type
      /\ IF up # "enabled" /\ t = "A"
           THEN lookup' = [lookup EXCEPT ![l].pc = "disabled"] /\ UNCHANGED fetch
           ELSE /\ lookup' = [lookup EXCEPT ![l].pc = then, ![l].entry[t] = cache[k]]
                /\ fetch' = IF cache[k] # None THEN fetch ELSE [fetch EXCEPT ![<<l, t>>] = "exchange"]
      /\ UNCHANGED <<now, swept, up, cache, hosts, msg, query, beside>>

\* Both halves are there: found, fetched, or failed and left out.  No address
\* at all is ErrDNSRecordNotFound.
Running(f) == fetch[f] \in {"exchange", "store"}
EntryOf(l, t) == IF fetch[<<l, t>>] = "stored" THEN <<l, t>> ELSE lookup[l].entry[t]
Addresses(e, t) == IF e = None THEN {} ELSE {r.ip : r \in {s \in msg[e].records : s.type = t}}
Found(l) == UNION {Addresses(EntryOf(l, t), t) : t \in Type}
Report(l) == lookup' = [lookup EXCEPT ![l].pc = "done", ![l].told = Found(l)]
\* Mutant: the second goroutine is not counted before it is started.
LookupEndsEarly(l) ==
  /\ lookup[l].pc = "wait"
  /\ ~Running(<<l, "A">>)
  /\ Report(l)
  /\ UNCHANGED <<now, swept, up, cache, hosts, msg, fetch, query, beside>>

LookupEnds(l) ==
  /\ lookup[l].pc = "wait"
  /\ \A t \in Type : ~Running(<<l, t>>)
  /\ Report(l)
  /\ UNCHANGED <<now, swept, up, cache, hosts, msg, fetch, query, beside>>

ReverseLookup(ip) ==
  IF up # "enabled" \/ hosts[ip] = None THEN {} ELSE ToSet(hosts[ip].names)

-----------------------------------------------------------------------------
Works ==
  \/ \E f \in Fetch : Exchange(f) \/ NilAnswer(f) \/ Direct(f) \/ CacheResponse(f)
  \/ \E q \in Query : Fetched(q) \/ SetId(q) \/ WriteMsg(q) \/ Check(q)
  \/ \E l \in Lookup : LookupEnds(l)
Arrives == (\E q \in Query : Get(q)) \/ (\E l \in Lookup : LookupGet(l))

Next == up # "dead" /\ (Works \/ Arrives \/ Enable \/ Sweep \/ Tick)

\* Go runs what can run.  That every exchange ends is assumed of opts.Exchange,
\* which is called without a deadline.  Nothing makes a query arrive or the clock
\* go on.
Fairness ==
  /\ \A f \in Fetch : WF_vars(up # "dead" /\ (Exchange(f) \/ Direct(f) \/ CacheResponse(f)))
  /\ \A q \in Query : WF_vars(up # "dead" /\ (Fetched(q) \/ SetId(q) \/ WriteMsg(q) \/ Check(q)))

Spec == Init /\ [][Next]_vars /\ Fairness

-----------------------------------------------------------------------------
\* A query gets an answer to its own question, under its own Id unless another
\* query for the same entry came between the two steps that set the Id and
\* write the response (dnsQuery, dns.go:240-254).
AnswerIsMine ==
  \A q \in Query : query[q].told # None =>
    /\ Of(query[q].entry) = Asked[q]
    /\ query[q].told \in {q} \cup beside[q]

\* Nothing older than Evict and one interval of the evict loop after its expiry
\* is found in either map, by queries or by lookups (dnsCacheEvictLoop,
\* dns.go:101-124; LookupIP never refreshes what it finds, dns.go:168-196).
StaleIsBounded ==
  LET fits(expire) == now <= expire + Evict + Interval
  IN  /\ \A k \in Question : cache[k] # None => fits(msg[cache[k]].expire)
      /\ \A ip \in Addr : hosts[ip] # None => fits(hosts[ip].expire)

\* A name found for an address was answered with it, and not longer ago than
\* the longest TTL, Evict and one interval, however often the address was
\* answered since (set, dns.go:86-98: an entry keeps its first expiry).
Longest == Max({MaxTTL(a.records) : a \in UNION {Answers[k] : k \in Question}})
ReverseIsTrue ==
  \A ip \in Addr : \A n \in ReverseLookup(ip) :
    \E f \in Fetch :
      /\ fetch[f] = "stored" /\ Of(f)[1] = n /\ ip \in {r.ip : r \in msg[f].records}
      /\ now <= msg[f].expire - MaxTTL(msg[f].records) + Longest + Evict + Interval

\* A lookup that has reported leaves no exchange behind and has the addresses
\* of both halves, found or fetched: that none was found says that there were
\* none, or that an exchange failed (LookupIP, dns.go:168-218).
LookupIsWhole ==
  \A l \in Lookup, t \in Type : lookup[l].pc = "done" =>
    /\ fetch[<<l, t>>] = "stored" => Addresses(<<l, t>>, t) \subseteq lookup[l].told
    /\ fetch[<<l, t>>] = "idle" => Addresses(lookup[l].entry[t], t) \subseteq lookup[l].told
    /\ fetch[<<l, t>>] \in {"idle", "stored", "failed"}

\* What the proofs rest on.  A response that is to be stored or is stored is
\* one the upstream gave; only a query asks the upstream itself.
FetchFits(f) ==
  /\ fetch[f] \in {"store", "stored"} =>
       msg[f] # None /\ \E a \in Answers[Of(f)] : msg[f].records = a.records
  /\ fetch[f] = "direct" => f \in Query

\* A query holds a stored entry for its question from the time it found it, and
\* asks for another only when it is done with that.
QueryFits(q) ==
  LET c == query[q]
  IN  /\ c.pc = "idle" => fetch[q] = "idle"
      /\ c.pc \in {"idle", "wait", "id", "write"} => c.told = None
      /\ c.pc \in {"id", "write", "check"} =>
           /\ c.entry # None /\ fetch[c.entry] = "stored" /\ Of(c.entry) = Asked[q]
           /\ c.entry # q => fetch[q] = "idle"
      /\ c.pc = "check" => c.entry # q
      /\ c.pc = "write" => msg[c.entry].id \in {q} \cup beside[q]
      /\ c.told # None =>
           c.entry # None /\ Of(c.entry) = Asked[q] /\ c.told \in {q} \cup beside[q]

\* The half t of a lookup is asked for once, if its entry is missing.
HalfFits(l, t) ==
  LET c == lookup[l]
  IN  /\ c.pc = "A" \/ c.pc = t => fetch[<<l, t>>] = "idle"
      /\ c.entry[t] # None => fetch[c.entry[t]] = "stored"
      /\ c.pc = "done" =>
           /\ fetch[<<l, t>>] = "stored" => Addresses(<<l, t>>, t) \subseteq c.told
           /\ fetch[<<l, t>>] = "idle" => Addresses(c.entry[t], t) \subseteq c.told
           /\ fetch[<<l, t>>] \in {"idle", "stored", "failed"}

\* What the evict loop left has not been expired for Evict since.
EntryFits(k) == cache[k] # None => swept <= msg[cache[k]].expire + Evict

\* Each name of an address was answered with it, and by an answer that came so
\* late that the expiry of the host entry is no later than its own may be.
Source(f, name, ip, expire) ==
  /\ fetch[f] = "stored" /\ Of(f)[1] = name /\ ip \in {r.ip : r \in msg[f].records}
  /\ expire + MaxTTL(msg[f].records) <= msg[f].expire + Longest
HostFits(ip) ==
  hosts[ip] # None =>
    /\ hosts[ip].names # << >>
    /\ swept <= hosts[ip].expire + Evict
    /\ hosts[ip].expire <= now + Longest
    /\ \A i \in DOMAIN hosts[ip].names :
         \E f \in Fetch : Source(f, hosts[ip].names[i], ip, hosts[ip].expire)

DnsInv ==
  /\ DnsTypeOK
  /\ \A f \in Fetch : FetchFits(f)
  /\ \A q \in Query : QueryFits(q)
  /\ \A l \in Lookup, t \in Type : HalfFits(l, t)
  /\ \A k \in Question : EntryFits(k)
  /\ \A ip \in Addr : HostFits(ip)

\* A query that was answered from an entry that had expired by then has the
\* entry replaced, unless the exchange fails or the server dies (dns.go:244-246).
ServedStale(q) ==
  query[q].pc = "check" /\ query[q].entry # q /\ now > msg[query[q].entry].expire
StaleIsRefreshed ==
  \A q \in Query : ServedStale(q) ~> (fetch[q] \in {"stored", "failed"} \/ up = "dead")
=============================================================================
