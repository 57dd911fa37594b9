------------------------------- MODULE Quota -------------------------------
(***************************************************************************)
(* The decisions of server/acl/acl.go that touch no shared state: how a    *)
(* limit sent by an administrator becomes the numbers a key is checked     *)
(* against, and what those numbers and lists answer for a given usage and  *)
(* target.  Byte counts are uint64 in the code; WordSize stands for 2^64,  *)
(* so sums and differences wrap around at WordSize.                        *)
(***************************************************************************)
EXTENDS Naturals

CONSTANTS
  WordSize,    \* 2^64 in the code
  Nil,         \* a nil slice, pointer or missing JSON member
  Unset,       \* the empty string in a byte field of a limit
  Malformed,   \* a string humanize.ParseBytes rejects
  Network,     \* "tcp", "udp", ...
  Addr,        \* dialled addresses
  AnyNet          \* the network of a list entry that names only an address

ASSUME WordAssumption == WordSize \in Nat \ {0}
ASSUME ByteSpecAssumption == Unset # Malformed /\ {Unset, Malformed} \cap Nat = {}

Word == 0 .. WordSize - 1
Target == [network: Network, addr: Addr]
Pattern == [addr: Addr, net: Network \cup {AnyNet}]
PatternList == (SUBSET Pattern) \cup {Nil}
ByteSpec == Word \cup {Unset, Malformed}

Limit == [bytes: ByteSpec, inBytes: ByteSpec, outBytes: ByteSpec,
          whitelist: PatternList, blacklist: PatternList]
EmptyLimit == [bytes |-> Unset, inBytes |-> Unset, outBytes |-> Unset,
               whitelist |-> Nil, blacklist |-> Nil]

ASSUME NilAssumption == Nil \notin Limit
ASSUME NilListAssumption == \A list \in SUBSET Pattern : list # Nil

KeyEntry == [bytesLimit: Word, inBytesLimit: Word, outBytesLimit: Word,
             whitelist: PatternList, blacklist: PatternList]
FreshEntry == [bytesLimit |-> 0, inBytesLimit |-> 0, outBytesLimit |-> 0,
               whitelist |-> Nil, blacklist |-> Nil]

Usage == [in: Word, out: Word]
NoUsage == [in |-> 0, out |-> 0]

-----------------------------------------------------------------------------
\* uint64 arithmetic.
\* Mutant: sums that do not wrap around.
WidePlus(a, b) == a + b

Plus(a, b) == IF a + b < WordSize THEN a + b ELSE a + b - WordSize
Minus(a, b) == IF b <= a THEN a - b ELSE a + WordSize - b

\* Mutant: the total refuses only the exact amount.
TotalHit(ke, u) == Plus(u.in, u.out) = ke.bytesLimit

TotalLimited(ke, u) == Plus(u.in, u.out) >= ke.bytesLimit

inBytesLimited(ke, u) ==
  \/ ke.inBytesLimit > 0 /\ u.in >= ke.inBytesLimit
  \/ /\ ke.inBytesLimit = 0
     /\ ke.bytesLimit > 0
     /\ \/ ke.outBytesLimit > 0 /\ u.in >= Minus(ke.bytesLimit, ke.outBytesLimit)
        \/ ke.outBytesLimit = 0 /\ TotalLimited(ke, u)

\* Mutant: a limit on the bytes received is not taken from the total.
OutIgnoresIn(ke, u) ==
  \/ ke.outBytesLimit > 0 /\ u.out >= ke.outBytesLimit
  \/ /\ ke.outBytesLimit = 0
     /\ ke.bytesLimit > 0
     /\ \/ ke.inBytesLimit > 0 /\ u.out >= ke.bytesLimit
        \/ ke.inBytesLimit = 0 /\ TotalLimited(ke, u)

outBytesLimited(ke, u) ==
  \/ ke.outBytesLimit > 0 /\ u.out >= ke.outBytesLimit
  \/ /\ ke.outBytesLimit = 0
     /\ ke.bytesLimit > 0
     /\ \/ ke.inBytesLimit > 0 /\ u.out >= Minus(ke.bytesLimit, ke.inBytesLimit)
        \/ ke.inBytesLimit = 0 /\ TotalLimited(ke, u)

\* The answer of CheckKey for a key that is in the table.
QuotaVerdict(ke, u) ==
  IF inBytesLimited(ke, u) THEN "inLimited"
  ELSE IF outBytesLimited(ke, u) THEN "outLimited" ELSE "ok"

\* An entry names an address, or an address and a network ("addr/network").
Matches(list, t) == \E p \in list : p.addr = t.addr /\ p.net \in {AnyNet, t.network}

\* A whitelist, even an empty one, decides alone; the blacklist is read only
\* without one.
ListVerdict(ke, t) ==
  IF \/ ke.whitelist # Nil /\ ~Matches(ke.whitelist, t)
     \/ ke.whitelist = Nil /\ ke.blacklist # Nil /\ Matches(ke.blacklist, t)
  THEN "denied" ELSE "ok"

-----------------------------------------------------------------------------
\* Mutant: an empty field is applied too.
OverrideAlways(parsed, s, old) == IF parsed THEN s ELSE old

\* humanize.ParseBytes stops at the first field it rejects: what was applied
\* before it stays applied.  Empty fields leave the old number in place, the
\* lists are always replaced.
Override(parsed, s, old) == IF parsed /\ s # Unset THEN s ELSE old

LimitFails(l) == Malformed \in {l.bytes, l.inBytes, l.outBytes}

\* Mutant: a new total is added to the old one.
LimitAdds(ke, l) ==
  [ke EXCEPT !.bytesLimit = IF l.bytes \in Word THEN Plus(@, l.bytes) ELSE @]

applyACLKeyLimit(ke, l) ==
  LET bytesOk == l.bytes # Malformed
      inOk    == bytesOk /\ l.inBytes # Malformed
      outOk   == inOk /\ l.outBytes # Malformed
  IN  [bytesLimit    |-> Override(bytesOk, l.bytes, ke.bytesLimit),
       inBytesLimit  |-> Override(inOk, l.inBytes, ke.inBytesLimit),
       outBytesLimit |-> Override(outOk, l.outBytes, ke.outBytesLimit),
       whitelist     |-> IF outOk THEN l.whitelist ELSE ke.whitelist,
       blacklist     |-> IF outOk THEN l.blacklist ELSE ke.blacklist]

\* The entry NewACL builds for a stored limit; a parse error is ignored there.
EntryOf(l) == IF l = Nil THEN FreshEntry ELSE applyACLKeyLimit(FreshEntry, l)

\* What a limit reads back as after encoding/json: "omitempty" drops an empty
\* list, which then decodes as nil.
SavedList(list) == IF list = {} THEN Nil ELSE list
\* Mutant: the blacklist is missing from the file.
SavedNoBlacklist(l) ==
  IF l = Nil THEN Nil ELSE [l EXCEPT !.whitelist = SavedList(@), !.blacklist = Nil]

SavedLimit(l) ==
  IF l = Nil THEN Nil
  ELSE [l EXCEPT !.whitelist = SavedList(l.whitelist),
                 !.blacklist = SavedList(l.blacklist)]

-----------------------------------------------------------------------------
\* A budget an administrator can mean: the parts fit into the whole.
Sound(ke) ==
  ke.bytesLimit > 0 /\ ke.inBytesLimit + ke.outBytesLimit <= ke.bytesLimit

NoOverflow(u) == u.in + u.out < WordSize

\* A key CheckKey lets through has not used up its total, whichever of the
\* three numbers the administrator set, as long as the parts fit into the
\* whole and the counters have not overflowed (acl.go:48-72).
BudgetHolds(ke, u) ==
  Sound(ke) /\ NoOverflow(u) /\ QuotaVerdict(ke, u) = "ok" => u.in + u.out < ke.bytesLimit

\* Traffic alone, here from usage u to usage v, never turns a refusal into an
\* admission while the counters do not overflow (acl.go:48-72,198-206).
RefusalHolds(ke, u, v) ==
  /\ QuotaVerdict(ke, u) # "ok"
  /\ u.in <= v.in /\ u.out <= v.out /\ NoOverflow(v)
  => QuotaVerdict(ke, v) # "ok"

\* A retried PATCH changes nothing more, also if it fails to parse halfway
\* (applyACLKeyLimit, acl.go:294-321).
RetryHolds(ke, l) ==
  applyACLKeyLimit(applyACLKeyLimit(ke, l), l) = applyACLKeyLimit(ke, l)

\* Saving a limit and loading it again answers every check alike, except that
\* an empty whitelist, which refuses every target, comes back as none, which
\* refuses no target (api.go:12, acl.go:171-182,294-321).
ReloadHolds(l, u, t) ==
  l.whitelist # {} =>
    /\ QuotaVerdict(EntryOf(SavedLimit(l)), u) = QuotaVerdict(EntryOf(l), u)
    /\ ListVerdict(EntryOf(SavedLimit(l)), t) = ListVerdict(EntryOf(l), t)
=============================================================================
