-------------------------- MODULE KeyBudgetProofs --------------------------
(***************************************************************************)
(* The properties of KeyBudget for every word size, every set of limits    *)
(* and every set of targets.                                               *)
(***************************************************************************)
EXTENDS KeyBudget, TLAPS

\* Wrapping arithmetic stays within a word.
LEMMA WordArithmetic ==
  ASSUME NEW a \in Word, NEW b \in Word
  PROVE  Plus(a, b) \in Word /\ Minus(a, b) \in Word
BY WordAssumption DEF Word, Plus, Minus

\* Below overflow a sum of words is their sum, and a difference that does not
\* go below zero is their difference.
LEMMA ExactArithmetic ==
  ASSUME NEW a \in Word, NEW b \in Word
  PROVE  /\ a + b < WordSize => Plus(a, b) = a + b
         /\ b <= a => Minus(a, b) = a - b
BY WordAssumption DEF Word, Plus, Minus

\* Applying a limit to an entry gives an entry.
LEMMA ApplyType ==
  ASSUME NEW ke \in KeyEntry, NEW l \in Limit
  PROVE  applyACLKeyLimit(ke, l) \in KeyEntry
BY DEF KeyEntry, Limit, ByteSpec, applyACLKeyLimit, Override

LEMMA FreshType == FreshEntry \in KeyEntry /\ NoUsage \in Usage
BY WordAssumption DEF FreshEntry, NoUsage, KeyEntry, Usage, PatternList, Word

-----------------------------------------------------------------------------
\* The entry stays an entry and the counters stay words (acl.go:42-46,198-206).
THEOREM Typing == Spec => []TypeOK
<1>1. Init => TypeOK
  BY FreshType DEF Init, TypeOK
<1>2. TypeOK /\ [Next]_vars => TypeOK'
  <2> SUFFICES ASSUME TypeOK, [Next]_vars
               PROVE  TypeOK'
    OBVIOUS
  <2>1. ASSUME NEW l \in Specs, Patch(l)
        PROVE  TypeOK'
    BY <2>1, ApplyType, BudgetAssumption DEF TypeOK, Patch
  <2>2. ASSUME NEW n \in Amount, CountIn(n)
        PROVE  TypeOK'
    BY <2>2, WordArithmetic, BudgetAssumption DEF TypeOK, CountIn, Usage
  <2>3. ASSUME NEW n \in Amount, CountOut(n)
        PROVE  TypeOK'
    BY <2>3, WordArithmetic, BudgetAssumption DEF TypeOK, CountOut, Usage
  <2>4. CASE ResetUsage
    BY <2>4, FreshType DEF TypeOK, ResetUsage
  <2>5. CASE UNCHANGED vars
    BY <2>5 DEF TypeOK, vars
  <2> QED
    BY <2>1, <2>2, <2>3, <2>4, <2>5 DEF Next
<1> QED
  BY <1>1, <1>2, PTL DEF Spec

-----------------------------------------------------------------------------
\* The budget argument, one case per way the administrator split the total.
LEMMA BudgetLemma ==
  ASSUME NEW ke \in KeyEntry, NEW u \in Usage
  PROVE  BudgetHolds(ke, u)
<1> SUFFICES ASSUME Sound(ke), NoOverflow(u), QuotaVerdict(ke, u) = "ok"
             PROVE  u.in + u.out < ke.bytesLimit
  BY DEF BudgetHolds
<1>1. ~inBytesLimited(ke, u) /\ ~outBytesLimited(ke, u)
  BY DEF QuotaVerdict
<1>2. /\ ke.bytesLimit \in Word /\ ke.inBytesLimit \in Word /\ ke.outBytesLimit \in Word
      /\ u.in \in Word /\ u.out \in Word
  BY DEF KeyEntry, Usage
<1>3. /\ ke.bytesLimit \in Nat /\ ke.inBytesLimit \in Nat /\ ke.outBytesLimit \in Nat
      /\ u.in \in Nat /\ u.out \in Nat
  BY <1>2, WordAssumption DEF Word
<1>4. CASE ke.inBytesLimit = 0 /\ ke.outBytesLimit = 0
  <2>1. Plus(u.in, u.out) = u.in + u.out
    BY <1>2, ExactArithmetic DEF NoOverflow
  <2> QED
    BY <1>1, <1>3, <1>4, <2>1 DEF inBytesLimited, TotalLimited, Sound
<1>5. CASE ke.inBytesLimit > 0 /\ ke.outBytesLimit = 0
  <2>1. Minus(ke.bytesLimit, ke.inBytesLimit) = ke.bytesLimit - ke.inBytesLimit
    BY <1>2, <1>3, <1>5, ExactArithmetic DEF Sound
  <2> QED
    BY <1>1, <1>3, <1>5, <2>1 DEF inBytesLimited, outBytesLimited, Sound
<1>6. CASE ke.inBytesLimit = 0 /\ ke.outBytesLimit > 0
  <2>1. Minus(ke.bytesLimit, ke.outBytesLimit) = ke.bytesLimit - ke.outBytesLimit
    BY <1>2, <1>3, <1>6, ExactArithmetic DEF Sound
  <2> QED
    BY <1>1, <1>3, <1>6, <2>1 DEF inBytesLimited, outBytesLimited, Sound
<1>7. CASE ke.inBytesLimit > 0 /\ ke.outBytesLimit > 0
  BY <1>1, <1>3, <1>7 DEF inBytesLimited, outBytesLimited, Sound
<1> QED
  BY <1>3, <1>4, <1>5, <1>6, <1>7

\* A key CheckKey admits is within its total budget (acl.go:48-72,146-160).
THEOREM BudgetSafe == Spec => []BudgetHonoured
<1>1. TypeOK => BudgetHonoured
  BY BudgetLemma DEF TypeOK, BudgetHonoured
<1> QED
  BY <1>1, Typing, PTL

-----------------------------------------------------------------------------
\* Each direction's limit is a threshold on counters that only grow.
LEMMA RefusalLemma ==
  ASSUME NEW ke \in KeyEntry, NEW u \in Usage, NEW v \in Usage
  PROVE  RefusalHolds(ke, u, v)
<1> SUFFICES ASSUME QuotaVerdict(ke, u) # "ok", u.in <= v.in, u.out <= v.out, NoOverflow(v)
             PROVE  QuotaVerdict(ke, v) # "ok"
  BY DEF RefusalHolds
<1>1. /\ u.in \in Word /\ u.out \in Word /\ v.in \in Word /\ v.out \in Word
      /\ ke.bytesLimit \in Word /\ ke.inBytesLimit \in Word /\ ke.outBytesLimit \in Word
  BY DEF Usage, KeyEntry
<1>2. /\ u.in \in Nat /\ u.out \in Nat /\ v.in \in Nat /\ v.out \in Nat
      /\ ke.bytesLimit \in Nat /\ ke.inBytesLimit \in Nat /\ ke.outBytesLimit \in Nat
  BY <1>1, WordAssumption DEF Word
<1>3. /\ Minus(ke.bytesLimit, ke.outBytesLimit) \in Nat
      /\ Minus(ke.bytesLimit, ke.inBytesLimit) \in Nat
  <2>1. /\ Minus(ke.bytesLimit, ke.outBytesLimit) \in Word
        /\ Minus(ke.bytesLimit, ke.inBytesLimit) \in Word
    BY <1>1, WordArithmetic
  <2> QED
    BY <2>1, WordAssumption DEF Word
<1>4. TotalLimited(ke, u) => TotalLimited(ke, v)
  <2>1. u.in + u.out <= v.in + v.out /\ u.in + u.out < WordSize
    BY <1>2, WordAssumption DEF NoOverflow
  <2>2. Plus(u.in, u.out) = u.in + u.out /\ Plus(v.in, v.out) = v.in + v.out
    BY <1>1, <2>1, ExactArithmetic DEF NoOverflow
  <2> QED
    BY <1>2, <2>1, <2>2 DEF TotalLimited
<1>5. inBytesLimited(ke, u) => inBytesLimited(ke, v)
  BY <1>2, <1>3, <1>4 DEF inBytesLimited
<1>6. outBytesLimited(ke, u) => outBytesLimited(ke, v)
  BY <1>2, <1>3, <1>4 DEF outBytesLimited
<1> QED
  BY <1>5, <1>6 DEF QuotaVerdict

\* Counting bytes never lifts a refusal (acl.go:48-72,198-206).
THEOREM RefusalSafe == Spec => RefusalIsStable
<1>1. TypeOK /\ TypeOK' /\ [Next]_vars
        => [UNCHANGED entry /\ usage.in <= usage'.in /\ usage.out <= usage'.out
              => RefusalHolds(entry, usage, usage')]_vars
  BY RefusalLemma DEF TypeOK
<1> QED
  BY <1>1, Typing, PTL DEF Spec, RefusalIsStable

-----------------------------------------------------------------------------
\* Applying the same limit twice leaves what applying it once left.
LEMMA RetryLemma ==
  ASSUME NEW ke \in KeyEntry, NEW l \in Limit
  PROVE  RetryHolds(ke, l)
BY DEF RetryHolds, applyACLKeyLimit, Override, KeyEntry, Limit

\* A PATCH sent twice is a PATCH sent once (acl.go:240-256,294-321).
THEOREM RetrySafe == Spec => []RetryIsHarmless
<1>1. TypeOK => RetryIsHarmless
  BY RetryLemma, BudgetAssumption DEF TypeOK, RetryIsHarmless
<1> QED
  BY <1>1, Typing, PTL

-----------------------------------------------------------------------------
\* The numbers survive the JSON round trip untouched; of the lists only an
\* empty one changes, and an empty blacklist matches nothing, like none.
LEMMA ReloadLemma ==
  ASSUME NEW l \in Limit, NEW u \in Usage, NEW t \in Target
  PROVE  ReloadHolds(l, u, t)
<1> DEFINE r == SavedLimit(l)
           a == EntryOf(r)
           b == EntryOf(l)
<1> SUFFICES ASSUME l.whitelist # {}
             PROVE  QuotaVerdict(a, u) = QuotaVerdict(b, u) /\ ListVerdict(a, t) = ListVerdict(b, t)
  BY DEF ReloadHolds
<1>1. r \in Limit
  BY NilAssumption DEF SavedLimit, SavedList, Limit, PatternList
<1>2. /\ r.bytes = l.bytes /\ r.inBytes = l.inBytes /\ r.outBytes = l.outBytes
      /\ r.whitelist = l.whitelist /\ r.blacklist = SavedList(l.blacklist)
  BY NilAssumption DEF SavedLimit, SavedList, Limit
<1>3. a = applyACLKeyLimit(FreshEntry, r) /\ b = applyACLKeyLimit(FreshEntry, l)
  BY <1>1, NilAssumption DEF EntryOf
<1> HIDE DEF r, a, b
<1>4. SavedList(FreshEntry.blacklist) = FreshEntry.blacklist
  BY DEF SavedList, FreshEntry
<1>5. /\ a.bytesLimit = b.bytesLimit
      /\ a.inBytesLimit = b.inBytesLimit
      /\ a.outBytesLimit = b.outBytesLimit
      /\ a.whitelist = b.whitelist
      /\ a.blacklist = SavedList(b.blacklist)
  BY <1>2, <1>3, <1>4 DEF applyACLKeyLimit
<1>6. QuotaVerdict(a, u) = QuotaVerdict(b, u)
  BY <1>5 DEF QuotaVerdict, inBytesLimited, outBytesLimited, TotalLimited
<1>7. ListVerdict(a, t) = ListVerdict(b, t)
  BY <1>5 DEF ListVerdict, Matches, SavedList
<1> QED
  BY <1>6, <1>7

\* A restart answers every check as the limit that was sent, but for the empty
\* whitelist (api.go:12, acl.go:123-132).
THEOREM ReloadSafe == Spec => []ReloadKeepsVerdict
<1>1. TypeOK => ReloadKeepsVerdict
  BY ReloadLemma, BudgetAssumption DEF TypeOK, ReloadKeepsVerdict
<1> QED
  BY <1>1, Typing, PTL
=============================================================================
