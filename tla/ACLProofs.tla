----------------------------- MODULE ACLProofs -----------------------------
(***************************************************************************)
(* What holds of the ACL store for any number of keys, handlers and        *)
(* streams, any limits, any traffic and any number of crashes.             *)
(***************************************************************************)
EXTENDS ACL, SequenceTheorems, WellFoundedInduction, TLAPS

LEMMA WordZero == 0 \in Word
BY WordAssumption DEF Word

LEMMA PlusType == ASSUME NEW a \in Word, NEW b \in Word PROVE Plus(a, b) \in Word
BY WordAssumption DEF Word, Plus

LEMMA FreshType == FreshEntry \in KeyEntry /\ NoUsage \in Usage /\ EmptyLimit \in Limit
BY WordZero DEF FreshEntry, NoUsage, EmptyLimit, KeyEntry, Usage, Limit, PatternList, ByteSpec

LEMMA ApplyType ==
  ASSUME NEW ke \in KeyEntry, NEW l \in Limit
  PROVE  applyACLKeyLimit(ke, l) \in KeyEntry
BY DEF KeyEntry, Limit, ByteSpec, applyACLKeyLimit, Override

LEMMA EntryType == ASSUME NEW l \in Limit \cup {Nil} PROVE EntryOf(l) \in KeyEntry
BY ApplyType, FreshType DEF EntryOf

LEMMA SavedLimitType == ASSUME NEW l \in Limit \cup {Nil} PROVE SavedLimit(l) \in Limit \cup {Nil}
BY NilAssumption DEF SavedLimit, SavedList, Limit, PatternList

\* A nonempty set of naturals has a least element, and one that is bounded a
\* greatest.
LEMMA LeastNat ==
  ASSUME NEW S \in SUBSET Nat, S # {}
  PROVE  \E m \in S : \A j \in S : m <= j
<1> DEFINE R == {ss \in Nat \X Nat : ss[1] < ss[2]}
<1>1. IsWellFoundedOn(R, Nat)
  BY NatLessThanWellFounded DEF OpToRel
<1>2. \E m \in S : \A j \in S : ~(<<j, m>> \in R)
  <2> HIDE DEF R
  <2> QED
    BY <1>1, WFMin
<1>3. PICK m \in S : \A j \in S : ~(<<j, m>> \in R)
  BY <1>2
<1>4. \A j \in S : m <= j
  <2> TAKE j \in S
  <2>1. m \in Nat /\ j \in Nat /\ ~(j < m)
    BY <1>3
  <2> QED
    BY <2>1
<1> QED
  BY <1>4

LEMMA GreatestNat ==
  ASSUME NEW n \in Nat, NEW S \in SUBSET (1 .. n), S # {}
  PROVE  \E m \in S : \A j \in S : j <= m
<1> DEFINE T == {n - j : j \in S}
<1>1. T \in SUBSET Nat /\ T # {}
  <2>1. \A j \in S : n - j \in Nat
    BY SMT
  <2> QED
    BY <2>1
<1>2. PICK d \in T : \A e \in T : d <= e
  BY <1>1, LeastNat
<1>3. PICK m \in S : d = n - m
  BY <1>2
<1>4. \A j \in S : j <= m
  <2> TAKE j \in S
  <2>1. d <= n - j
    BY <1>2
  <2> QED
    BY <2>1, <1>3
<1> QED
  BY <1>4

\* The last record of a key that occurs is one of that key.
LEMMA LastOfType ==
  ASSUME NEW f \in Seq(FileRec), NEW k \in KeysOf(f)
  PROVE  LastOf(f, k) \in DOMAIN f /\ f[LastOf(f, k)].key = k
<1> DEFINE S == {i \in DOMAIN f : f[i].key = k}
<1>1. S \in SUBSET (1 .. Len(f)) /\ S # {} /\ Len(f) \in Nat
  BY LenProperties DEF KeysOf
<1>2. \E i \in S : \A j \in S : j <= i
  BY <1>1, GreatestNat
<1> QED
  BY <1>2 DEF LastOf

\* A list indexed from 1 with elements of S is a sequence over S.
LEMMA MakeSeq ==
  ASSUME NEW S, NEW n \in Nat, NEW f \in [1 .. n -> S]
  PROVE  f \in Seq(S) /\ Len(f) = n
OBVIOUS

LEMMA KeysType ==
  ASSUME NEW f, f \in Seq(FileRec) \/ f \in Seq(StoRec)
  PROVE  KeysOf(f) \subseteq Key
<1>1. \A i \in DOMAIN f : f[i] \in FileRec \/ f[i] \in StoRec
  BY LenProperties, ElementOfSeq
<1>2. \A i \in DOMAIN f : f[i].key \in Key
  BY <1>1 DEF FileRec, StoRec
<1> QED
  BY <1>2 DEF KeysOf

-----------------------------------------------------------------------------
\* The control states hold together as types: one named part per variable that
\* a step may change, so that a step names the part it has to show.
LEMMA InitType == Init => TypeOK
<1> SUFFICES ASSUME Init
             PROVE  TypeOK
  OBVIOUS
<1>1. file \in Seq(FileRec) \cup {Missing, Damaged} /\ used \subseteq Key
  BY ACLAssumption, KeysType DEF Init
<1>2. pst \in PersistRec
  BY DEF Init, IdlePersist, PersistRec
<1>3. adm \in [Admin -> AdminRec]
  BY DEF Init, IdleAdmin, AdminRec
<1>4. chk \in [Stream -> StreamRec]
  BY DEF Init, IdleStream, StreamRec, Verdict
<1>5. sto \in Seq(StoRec)
  BY DEF Init
<1> QED
  BY <1>1, <1>2, <1>3, <1>4, <1>5, FreshType, WordZero DEF Init, TypeOK, IdleConsumer, ConsumerRec

LEMMA VolatileType ==
  ASSUME Volatile0
  PROVE  /\ keys' \in [Key -> KeyEntry \cup {Absent}]
         /\ bytesUsage' \in [Key -> Usage]
         /\ sto' \in Seq(StoRec)
         /\ pending' \in Nat
         /\ lock' \in Admin \cup {Free}
         /\ pst' \in PersistRec
         /\ adm' \in [Admin -> AdminRec]
         /\ con' \in ConsumerRec
         /\ chk' \in [Stream -> StreamRec]
BY FreshType, WordZero
   DEF Volatile0, IdlePersist, IdleAdmin, IdleConsumer, IdleStream,
       PersistRec, AdminRec, ConsumerRec, StreamRec, Verdict

LEMMA DieType == TypeOK /\ Die /\ spent' \in [Bound -> Nat] => TypeOK'
BY VolatileType DEF Die, TypeOK, history

LEMMA SpendType ==
  ASSUME TypeOK, NEW w \in Bound, Spend(w)
  PROVE  spent' \in [Bound -> Nat]
BY DEF TypeOK, Spend

LEMMA LoadType ==
  ASSUME TypeOK, NEW f \in Seq(FileRec), NEW bare, Load(f, bare)
  PROVE  /\ keys' \in [Key -> KeyEntry \cup {Absent}]
         /\ bytesUsage' \in [Key -> Usage]
         /\ sto' \in Seq(StoRec)
<1>1. \A k \in KeysOf(f) : f[LastOf(f, k)] \in FileRec
  BY LastOfType
<1>2. keys' \in [Key -> KeyEntry \cup {Absent}]
  BY <1>1, EntryType DEF Load, FileRec
<1>3. bytesUsage' \in [Key -> Usage]
  BY <1>1, FreshType DEF Load, FileRec
<1>4. sto' \in Seq(StoRec)
  <2> DEFINE g(i) == [f[i] EXCEPT !.usage = IF i \in bare THEN Nil
                                  ELSE IF i = LastOf(f, f[i].key) THEN Live ELSE @]
  <2>1. \A i \in 1 .. Len(f) : g(i) \in StoRec
    <3> TAKE i \in 1 .. Len(f)
    <3>1. f[i] \in FileRec
      OBVIOUS
    <3> QED
      BY <3>1 DEF FileRec, StoRec
  <2>2. sto' = [i \in 1 .. Len(f) |-> g(i)] /\ Len(f) \in Nat
    BY LenProperties DEF Load
  <2>3. sto' \in [1 .. Len(f) -> StoRec]
    <3> HIDE DEF g
    <3> QED
      BY <2>1, <2>2
  <2> QED
    BY <2>3, MakeSeq
<1> QED
  BY <1>2, <1>3, <1>4

-----------------------------------------------------------------------------
\* One lemma per group of actions: the server's life cycle ...
LEMMA LifeCycleType ==
  ASSUME TypeOK, Start \/ StartCreate \/ FinishCreate \/ Crash
  PROVE  TypeOK'
<1>1. CASE Start
  <2>1. file \in Seq(FileRec)
    BY <1>1 DEF Start, TypeOK
  <2>2. PICK bare : Load(file, bare)
    BY <1>1 DEF Start
  <2>3. /\ keys' \in [Key -> KeyEntry \cup {Absent}]
        /\ bytesUsage' \in [Key -> Usage]
        /\ sto' \in Seq(StoRec)
    BY <2>1, <2>2, LoadType
  <2>4. server' = "up" /\ deleted' \subseteq deleted
        /\ UNCHANGED <<pending, lock, pst, adm, con, chk, raced, spent>>
    BY <2>2 DEF Load
  <2>5. UNCHANGED <<file, used, failed>>
    BY <1>1 DEF Start
  <2> QED
    BY <2>3, <2>4, <2>5 DEF TypeOK
<1>2. CASE StartCreate
  BY <1>2 DEF StartCreate, TypeOK, store, history
<1>3. CASE FinishCreate
  <2>1. PICK k \in Key \ used, written \in BOOLEAN :
          /\ file' = IF written THEN DefaultFile(k) ELSE file
          /\ failed' = ~written
          /\ used' = used \cup {k}
          /\ Load(DefaultFile(k), {1})
    BY <1>3 DEF FinishCreate
  <2>2. DefaultFile(k) \in Seq(FileRec)
    BY FreshType DEF DefaultFile, FileRec
  <2> QED
    BY <2>1, <2>2, LoadType DEF Load, TypeOK
<1>4. CASE Crash
  BY <1>4, DieType, SpendType DEF Crash, Bound
<1> QED
  BY <1>1, <1>2, <1>3, <1>4

\* ... the handlers' map write ...
LEMMA MapWriteType ==
  ASSUME TypeOK, NEW t \in Admin, NEW k \in Key, NEW e \in KeyEntry \cup {Absent},
         MapWrite(t, k, e)
  PROVE  keys' \in [Key -> KeyEntry \cup {Absent}] /\ raced' \in BOOLEAN
BY DEF MapWrite, TypeOK, MapBusy

LEMMA IdlePersistType == IdlePersist \in PersistRec
BY DEF IdlePersist, PersistRec

LEMMA IdleAdminType == IdleAdmin \in AdminRec
BY DEF IdleAdmin, AdminRec

\* ... the requests ...
LEMMA RequestType ==
  ASSUME TypeOK, NEW t \in Admin, AdminRequest(t)
  PROVE  TypeOK'
<1> USE DEF TypeOK
<1>1. spent' \in [Bound -> Nat]
  <2>1. Spend("ops")
    BY DEF AdminRequest, NewKeyBegin, DelKeyStart, SetLimit, DelUsage, Request
  <2> QED
    BY <2>1, SpendType DEF Bound
<1>2. CASE NewKeyBegin(t)
  <2>1. PICK k \in Key \ used :
          /\ used' = used \cup {k}
          /\ adm' = [adm EXCEPT ![t] = [IdleAdmin EXCEPT !.pc = "insert", !.key = k]]
    BY <1>2 DEF NewKeyBegin
  <2>2. [IdleAdmin EXCEPT !.pc = "insert", !.key = k] \in AdminRec
    BY IdleAdminType DEF AdminRec
  <2> QED
    BY <1>1, <1>2, <2>1, <2>2 DEF NewKeyBegin, store
<1>3. CASE DelKeyStart(t)
  <2>1. PICK k \in Known :
          /\ MapWrite(t, k, Absent)
          /\ adm' = [adm EXCEPT ![t] = [IdleAdmin EXCEPT !.pc = "scan", !.key = k]]
          /\ deleted' = deleted \cup {k}
    BY <1>3 DEF DelKeyStart
  <2>2. k \in Key
    BY DEF Known
  <2>3. [IdleAdmin EXCEPT !.pc = "scan", !.key = k] \in AdminRec
    BY <2>2, IdleAdminType DEF AdminRec
  <2>4. keys' \in [Key -> KeyEntry \cup {Absent}] /\ raced' \in BOOLEAN
    BY <2>1, <2>2, MapWriteType
  <2> QED
    BY <1>1, <1>3, <2>1, <2>2, <2>3, <2>4 DEF DelKeyStart
<1>4. CASE SetLimit(t)
  <2>1. PICK k \in Known, l \in LimitSpecs :
       /\ keys' = IF Present(k) THEN [keys EXCEPT ![k] = applyACLKeyLimit(@, l)] ELSE keys
       /\ sto' = IF Present(k) /\ ~LimitFails(l)
                 THEN [i \in DOMAIN sto |-> IF sto[i].key = k THEN [sto[i] EXCEPT !.limit = l] ELSE sto[i]]
                 ELSE sto
    BY <1>4 DEF SetLimit
  <2>2. k \in Key /\ l \in Limit
    BY ACLAssumption DEF Known
  <2>3. keys' \in [Key -> KeyEntry \cup {Absent}]
    <3>1. Present(k) => applyACLKeyLimit(keys[k], l) \in KeyEntry
      BY <2>2, ApplyType DEF Present
    <3> QED
      BY <2>1, <2>2, <3>1
  <2>4. sto' \in Seq(StoRec)
    <3> DEFINE g(i) == IF sto[i].key = k THEN [sto[i] EXCEPT !.limit = l] ELSE sto[i]
    <3>1. \A i \in 1 .. Len(sto) : g(i) \in StoRec
      <4> TAKE i \in 1 .. Len(sto)
      <4>1. sto[i] \in StoRec
        OBVIOUS
      <4> QED
        BY <2>2, <4>1 DEF StoRec
    <3>2. DOMAIN sto = 1 .. Len(sto) /\ Len(sto) \in Nat
      OBVIOUS
    <3> HIDE DEF g
    <3>3. [i \in 1 .. Len(sto) |-> g(i)] \in [1 .. Len(sto) -> StoRec]
      BY <3>1
    <3> USE DEF g
    <3> QED
      BY <2>1, <3>2, <3>3, MakeSeq
  <2> QED
    BY <1>1, <1>4, <2>3, <2>4 DEF SetLimit, history
<1>5. CASE DelUsage(t)
  <2>1. PICK k \in Known :
       /\ sto' = IF Present(k) THEN Unlink(k) ELSE sto
       /\ bytesUsage' = IF Present(k) THEN [bytesUsage EXCEPT ![k] = NoUsage] ELSE bytesUsage
    BY <1>5 DEF DelUsage
  <2>2. k \in Key
    BY DEF Known
  <2>3. bytesUsage' \in [Key -> Usage]
    BY <2>1, <2>2, FreshType
  <2>4. Unlink(k) \in Seq(StoRec)
    <3> DEFINE g(i) == IF sto[i].key = k /\ sto[i].usage = Live
                       THEN [sto[i] EXCEPT !.usage = bytesUsage[k]] ELSE sto[i]
    <3>1. \A i \in 1 .. Len(sto) : g(i) \in StoRec
      <4> TAKE i \in 1 .. Len(sto)
      <4>1. sto[i] \in StoRec
        OBVIOUS
      <4> QED
        BY <2>2, <4>1 DEF StoRec
    <3>2. DOMAIN sto = 1 .. Len(sto) /\ Len(sto) \in Nat
      OBVIOUS
    <3> HIDE DEF g
    <3>3. [i \in 1 .. Len(sto) |-> g(i)] \in [1 .. Len(sto) -> StoRec]
      BY <3>1
    <3> USE DEF g
    <3> QED
      BY <3>2, <3>3, MakeSeq DEF Unlink
  <2> QED
    BY <1>1, <1>5, <2>1, <2>3, <2>4 DEF DelUsage, history
<1> QED
  BY <1>2, <1>3, <1>4, <1>5 DEF AdminRequest

\* ... the steps of a request that is under way ...
LEMMA SlotsType ==
  ASSUME TypeOK, NEW t \in Admin, Hit(t) # {}
  PROVE  NextHit(t) \in Hit(t) /\ NextHit(t) \in Nat \ {0}
<1>1. adm[t].i \in Nat \ {0}
  BY DEF TypeOK, AdminRec
<1>2. Hit(t) \in SUBSET (Nat \ {0})
  BY <1>1 DEF Hit
<1>3. \E j \in Hit(t) : \A h \in Hit(t) : j <= h
  BY <1>2, LeastNat
<1> QED
  BY <1>2, <1>3 DEF NextHit

LEMMA AdminStepType ==
  ASSUME TypeOK, ControlOK, NEW t \in Admin, AdminStep(t)
  PROVE  TypeOK'
<1> USE DEF TypeOK
<1>0. sto \in Seq(StoRec) /\ DOMAIN sto = 1 .. Len(sto) /\ Len(sto) \in Nat
  OBVIOUS
<1>1. CASE NewKeyInsert(t)
  <2>1. adm[t].key \in Key
    BY <1>1 DEF NewKeyInsert, ControlOK
  <2>2. MapWrite(t, adm[t].key, FreshEntry)
    BY <1>1 DEF NewKeyInsert
  <2>3. keys' \in [Key -> KeyEntry \cup {Absent}] /\ raced' \in BOOLEAN
    BY <2>1, <2>2, FreshType, MapWriteType
  <2>4. adm' \in [Admin -> AdminRec]
    BY <1>1, ZenonT(60) DEF NewKeyInsert, AdminRec
  <2>5. bytesUsage' \in [Key -> Usage]
    BY <1>1, FreshType DEF NewKeyInsert
  <2> QED
    BY <1>1, <2>3, <2>4, <2>5 DEF NewKeyInsert
<1>2. CASE NewKeyAppend(t)
  <2>1. adm[t].key \in Key
    BY <1>2 DEF NewKeyAppend, ControlOK
  <2>2. [key |-> adm[t].key, limit |-> Nil, usage |-> Nil] \in StoRec
    BY <2>1 DEF StoRec
  <2>3. sto' \in Seq(StoRec)
    <3> DEFINE r == [key |-> adm[t].key, limit |-> Nil, usage |-> Nil]
    <3>1. sto' = Append(sto, r)
      BY <1>2 DEF NewKeyAppend
    <3> HIDE DEF r
    <3> QED
      BY <2>2, <3>1, AppendProperties DEF r
  <2> QED
    BY <1>2, <2>3, IdleAdminType DEF NewKeyAppend, history
<1>3. CASE DelKeyShift(t)
  <2>1. sto' \in Seq(StoRec)
    <3> DEFINE g(j) == IF NextHit(t) <= j /\ j < Len(sto) THEN sto[j + 1] ELSE sto[j]
    <3>1. \A j \in 1 .. Len(sto) : g(j) \in StoRec
      <4> TAKE j \in 1 .. Len(sto)
      <4>1. sto[j] \in StoRec /\ (j < Len(sto) => sto[j + 1] \in StoRec)
        BY <1>0
      <4> QED
        BY <4>1
    <3> HIDE DEF g
    <3>2. [j \in 1 .. Len(sto) |-> g(j)] \in [1 .. Len(sto) -> StoRec]
      BY <3>1
    <3> USE DEF g
    <3> QED
      BY <1>0, <1>3, <3>2, MakeSeq DEF DelKeyShift
  <2>2. NextHit(t) + 1 \in Nat \ {0}
    BY <1>3, SlotsType DEF DelKeyShift
  <2>3. adm' \in [Admin -> AdminRec]
    BY <1>3, <2>2, ZenonT(60) DEF DelKeyShift, AdminRec
  <2> QED
    BY <1>3, <2>1, <2>3 DEF DelKeyShift, history
<1>4. CASE DelKeyCut(t)
  <2>1. Len(sto) \in 1 .. Len(sto)
    BY <1>0, <1>4 DEF DelKeyCut, ControlOK
  <2>2. sto[Len(sto)] \in StoRec
    BY <2>1, ElementOfSeq
  <2>3. sto' \in Seq(StoRec)
    <3>1. \A j \in 1 .. Len(sto) - 1 : sto[j] \in StoRec
      BY <1>0
    <3>2. Len(sto) - 1 \in Int
      BY <1>0
    <3> QED
      BY <1>4, <3>1, <3>2, SubSeqProperties DEF DelKeyCut
  <2> DEFINE cut == <<sto[Len(sto)]>> \o adm[t].stale
  <2>4. cut \in Seq(StoRec)
    <3>1. adm[t].stale \in Seq(StoRec)
      BY DEF AdminRec
    <3>2. <<sto[Len(sto)]>> \in Seq(StoRec)
      BY <2>2
    <3> QED
      BY <3>1, <3>2, ConcatProperties
  <2>5. adm' \in [Admin -> AdminRec]
    <3>1. adm' = [adm EXCEPT ![t].pc = "scan", ![t].stale = cut]
      BY <1>4 DEF DelKeyCut
    <3> HIDE DEF cut
    <3>2. [adm[t] EXCEPT !.pc = "scan", !.stale = cut] \in AdminRec
      BY <2>4 DEF AdminRec
    <3> QED
      BY <3>1, <3>2
  <2> QED
    BY <1>4, <2>3, <2>5 DEF DelKeyCut, history
<1>5. CASE DelKeyEnd(t)
  BY <1>5, IdleAdminType DEF DelKeyEnd, store, history
<1> QED
  BY <1>1, <1>2, <1>3, <1>4, <1>5 DEF AdminStep

\* ... the consumer ...
LEMMA ConsumerType ==
  ASSUME TypeOK, ControlOK, CountIn \/ ConsumerStep
  PROVE  TypeOK'
<1> USE DEF TypeOK
<1>1. CASE CountIn
  <2>1. PICK k \in {key \in Key : Present(key)}, e \in Traffic :
          /\ bytesUsage' = [bytesUsage EXCEPT ![k].in = Plus(@, e[1])]
          /\ con' = [pc |-> "out", key |-> k, out |-> e[2]]
    BY <1>1 DEF CountIn
  <2>2. e[1] \in Word /\ e[2] \in Word
    BY ACLAssumption
  <2>3. Plus(bytesUsage[k].in, e[1]) \in Word
    BY <2>2, PlusType DEF Usage
  <2>4. bytesUsage' \in [Key -> Usage]
    BY <2>1, <2>3 DEF Usage
  <2>5. spent' \in [Bound -> Nat]
    BY <1>1, SpendType DEF CountIn, Bound
  <2>6. con' \in ConsumerRec
    BY <2>1, <2>2 DEF ConsumerRec
  <2> QED
    BY <1>1, <2>4, <2>5, <2>6 DEF CountIn, history
<1>2. CASE CountOut
  <2>1. con.key \in Key /\ con.out \in Word
    BY <1>2 DEF CountOut, ControlOK, ConsumerRec
  <2>2. Plus(bytesUsage[con.key].out, con.out) \in Word
    BY <2>1, PlusType DEF Usage
  <2>3. bytesUsage' \in [Key -> Usage]
    BY <1>2, <2>1, <2>2 DEF CountOut, Usage
  <2>4. con' \in ConsumerRec
    BY <1>2 DEF CountOut, ConsumerRec
  <2> QED
    BY <1>2, <2>3, <2>4 DEF CountOut, history
<1>3. CASE CountPending
  BY <1>3, WordZero DEF CountPending, IdleConsumer, ConsumerRec, store, history
<1> QED
  BY <1>1, <1>2, <1>3 DEF ConsumerStep

\* ... the persist loop ...
LEMMA SavedType ==
  ASSUME TypeOK, NEW rec \in StoRec
  PROVE  Saved(rec) \in FileRec
<1>1. SavedLimit(rec.limit) \in Limit \cup {Nil}
  BY SavedLimitType DEF StoRec
<1> QED
  BY <1>1, FreshType DEF Saved, StoRec, FileRec, TypeOK

LEMMA LinkType ==
  ASSUME TypeOK, PersistLink
  PROVE  /\ sto' \in Seq(StoRec) /\ Len(sto') = Len(sto)
         /\ \A i \in DOMAIN sto : sto'[i] \in {sto[i], [sto[i] EXCEPT !.usage = Live]}
<1>0. sto \in Seq(StoRec) /\ DOMAIN sto = 1 .. Len(sto) /\ Len(sto) \in Nat
  BY DEF TypeOK
<1>1. PICK j \in InSlot(pst.i) :
        sto' = IF j > 0 /\ Present(sto[j].key) THEN [sto EXCEPT ![j].usage = Live] ELSE sto
  BY DEF PersistLink
<1>2. j \in 0 .. Len(sto)
  BY <1>0 DEF InSlot, TypeOK, PersistRec
<1>3. CASE j \in 1 .. Len(sto)
  <2>1. [sto[j] EXCEPT !.usage = Live] \in StoRec
    <3>1. sto[j] \in StoRec
      BY <1>0, <1>3
    <3> QED
      BY <3>1 DEF StoRec
  <2>2. [sto EXCEPT ![j] = [sto[j] EXCEPT !.usage = Live]] \in Seq(StoRec)
    BY <1>0, <1>3, <2>1, ExceptSeq
  <2>3. sto' \in Seq(StoRec) /\ DOMAIN sto' = DOMAIN sto
    BY <1>0, <1>1, <2>2
  <2>4. Len(sto') = Len(sto)
    BY <1>0, <2>3, LenProperties
  <2> QED
    BY <1>0, <1>1, <2>3, <2>4
<1>4. CASE j \notin 1 .. Len(sto)
  BY <1>0, <1>1, <1>2, <1>4
<1> QED
  BY <1>3, <1>4

LEMMA PersistType ==
  ASSUME TypeOK, PersistStep
  PROVE  TypeOK'
<1>0. /\ sto \in Seq(StoRec) /\ DOMAIN sto = 1 .. Len(sto) /\ Len(sto) \in Nat
      /\ pst.buf \in Seq(FileRec) /\ Len(pst.buf) \in Nat /\ pst.i \in Nat \ {0} /\ pst \in PersistRec
  BY DEF TypeOK, PersistRec
<1>1. CASE PersistWake \/ PersistReset \/ PersistOpen \/ PersistBegin
  <2>1. pst' \in PersistRec
    <3>1. CASE PersistWake \/ PersistReset
      BY <1>0, <3>1 DEF PersistWake, PersistReset, PersistRec
    <3>2. CASE PersistOpen
      <4> DEFINE m == Len(sto)
                 one == 1
      <4>1. /\ pst' = [pst EXCEPT !.pc = "link", !.i = one, !.n = m]
            /\ m \in Nat /\ one \in Nat \ {0}
        BY <1>0, <3>2 DEF PersistOpen
      <4> HIDE DEF m, one
      <4> QED
        BY <1>0, <4>1 DEF PersistRec
    <3>3. CASE PersistBegin
      <4> DEFINE m == Len(sto)
                 e == <<>>
      <4>1. pst' = [pst EXCEPT !.pc = "encode", !.n = m, !.buf = e] /\ m \in Nat
        BY <1>0, <3>3 DEF PersistBegin
      <4>2. e \in Seq(FileRec)
        OBVIOUS
      <4> HIDE DEF m, e
      <4> QED
        BY <1>0, <4>1, <4>2 DEF PersistRec
    <3> QED
      BY <1>1, <3>1, <3>2, <3>3
  <2> QED
    BY <1>1, <2>1 DEF PersistWake, PersistReset, PersistOpen, PersistBegin, TypeOK, store, history
<1>2. CASE PersistOpenFails \/ PersistWriteFails
  <2>1. spent' \in [Bound -> Nat]
    BY <1>2, SpendType DEF PersistOpenFails, PersistWriteFails, Bound
  <2> QED
    BY <1>2, <2>1, IdlePersistType DEF PersistOpenFails, PersistWriteFails, TypeOK, store, history
<1>3. CASE PersistLink
  <2>1. sto' \in Seq(StoRec)
    BY <1>3, LinkType
  <2>2. pst' \in PersistRec
    BY <1>0, <1>3 DEF PersistLink, PersistRec
  <2> QED
    BY <1>3, <2>1, <2>2 DEF PersistLink, TypeOK, history
<1>4. CASE PersistEncode
  <2> DEFINE r == Saved(sto[Len(pst.buf) + 1])
  <2>1. r \in FileRec
    <3>1. Len(pst.buf) + 1 \in 1 .. Len(sto)
      BY <1>0, <1>4 DEF PersistEncode
    <3> QED
      BY <1>0, <3>1, SavedType
  <2>2. pst' = [pst EXCEPT !.buf = Append(pst.buf, r)]
    BY <1>4 DEF PersistEncode
  <2> HIDE DEF r
  <2>3. Append(pst.buf, r) \in Seq(FileRec)
    BY <1>0, <2>1, AppendProperties
  <2>4. pst' \in PersistRec
    BY <2>2, <2>3 DEF TypeOK, PersistRec
  <2> QED
    BY <1>4, <2>4 DEF PersistEncode, TypeOK, store
<1>5. CASE PersistPanic
  <2>1. Die /\ spent' \in [Bound -> Nat]
    BY <1>5 DEF PersistPanic, TypeOK
  <2> QED
    BY <2>1, DieType
<1>6. CASE PersistWrite
  BY <1>0, <1>6, IdlePersistType DEF PersistWrite, TypeOK, store, history
<1> QED
  BY <1>1, <1>2, <1>3, <1>4, <1>5, <1>6 DEF PersistStep

\* ... and the checks.
LEMMA CheckType ==
  ASSUME TypeOK, NEW s \in Stream, CheckStep(s)
  PROVE  TypeOK'
<1>1. CASE CheckBegin(s)
  <2>1. PICK k \in Known, t \in Targets :
          chk' = [chk EXCEPT ![s] =
                [pc |-> IF CheckKey(k) = "ok" THEN "lists" ELSE "done",
                 key |-> k, target |-> t, late |-> k \in deleted,
                 verdict |-> IF CheckKey(k) = "ok" THEN "none" ELSE CheckKey(k)]]
    BY <1>1 DEF CheckBegin
  <2>2. k \in Key
    BY DEF Known, TypeOK
  <2>3. CheckKey(k) \in Verdict
    BY DEF CheckKey, QuotaVerdict, Verdict
  <2>4. chk' \in [Stream -> StreamRec]
    <3>1. [pc |-> IF CheckKey(k) = "ok" THEN "lists" ELSE "done",
           key |-> k, target |-> t, late |-> k \in deleted,
           verdict |-> IF CheckKey(k) = "ok" THEN "none" ELSE CheckKey(k)] \in StreamRec
      BY <2>2, <2>3 DEF StreamRec, Verdict
    <3> QED
      BY <2>1, <3>1 DEF TypeOK
  <2> QED
    BY <1>1, <2>4 DEF CheckBegin, TypeOK, store, history
<1>2. CASE CheckLists(s)
  <2>1. ListVerdict(keys[chk[s].key], chk[s].target) \in Verdict
    BY DEF ListVerdict, Verdict
  <2>2. chk' \in [Stream -> StreamRec]
    <3> DEFINE v == ListVerdict(keys[chk[s].key], chk[s].target)
    <3>1. chk' = [chk EXCEPT ![s].pc = "done", ![s].verdict = v]
      BY <1>2 DEF CheckLists
    <3> HIDE DEF v
    <3>2. chk[s] \in StreamRec /\ v \in Verdict
      BY <2>1 DEF TypeOK, v
    <3>3. [chk[s] EXCEPT !.pc = "done", !.verdict = v] \in StreamRec
      BY <3>2 DEF StreamRec
    <3> QED
      BY <3>1, <3>3 DEF TypeOK
  <2> QED
    BY <1>2, <2>2 DEF CheckLists, TypeOK, store, history
<1>3. CASE CheckFault(s)
  <2>1. Die /\ spent' \in [Bound -> Nat]
    BY <1>3 DEF CheckFault, TypeOK
  <2> QED
    BY <2>1, DieType
<1> QED
  BY <1>1, <1>2, <1>3 DEF CheckStep

LEMMA StepType == ASSUME TypeOK, ControlOK, [Next]_vars PROVE TypeOK'
<1>1. CASE UNCHANGED vars
  BY <1>1 DEF TypeOK, vars, store, history
<1> QED
  BY <1>1, LifeCycleType, RequestType, AdminStepType, ConsumerType, PersistType, CheckType
     DEF Next

-----------------------------------------------------------------------------
\* The control states fit together (ControlOK): the part that needs the mutex.
LEMMA DieControl == ASSUME Die PROVE ControlOK'
BY DEF Die, Volatile0, ControlOK, Up, IdleAdmin, IdleConsumer, IdlePersist

\* Steps of goroutines other than the handlers, which leave the length of the
\* list and the mutex alone.
LEMMA QuietControl ==
  ASSUME TypeOK, ControlOK, Up, UNCHANGED <<server, adm, lock>>, Len(sto') = Len(sto),
         con'.pc # "idle" => con'.key \in Key
  PROVE  ControlOK'
BY DEF ControlOK, Up

LEMMA LifeCycleControl ==
  ASSUME TypeOK, ControlOK, Start \/ StartCreate \/ FinishCreate \/ Crash
  PROVE  ControlOK'
<1>1. CASE Crash
  BY <1>1, DieControl DEF Crash
<1>2. CASE StartCreate
  BY <1>2 DEF StartCreate, store, ControlOK, Up
<1>3. CASE Start \/ FinishCreate
  <2>1. ~Up /\ Up' /\ UNCHANGED <<adm, con, pst>>
    BY <1>3 DEF Start, FinishCreate, Load, Up
  <2> QED
    BY <2>1 DEF ControlOK
<1> QED
  BY <1>1, <1>2, <1>3

LEMMA RequestControl ==
  ASSUME TypeOK, ControlOK, NEW t \in Admin, AdminRequest(t)
  PROVE  ControlOK'
<1>1. Up /\ server' = server /\ con' = con /\ pst' = pst /\ adm[t].pc = "idle"
  BY DEF AdminRequest, NewKeyBegin, DelKeyStart, SetLimit, DelUsage, Request, Up
<1>2. CASE NewKeyBegin(t)
  <2>1. PICK k \in Key : adm' = [adm EXCEPT ![t] = [IdleAdmin EXCEPT !.pc = "insert", !.key = k]]
    BY <1>2 DEF NewKeyBegin
  <2>2. adm'[t].pc = "insert" /\ adm'[t].key \in Key
    BY <2>1 DEF TypeOK, IdleAdmin
  <2>3. \A u \in Admin \ {t} : adm'[u] = adm[u]
    BY <2>1 DEF TypeOK
  <2>4. lock' = lock /\ sto' = sto
    BY <1>2 DEF NewKeyBegin, store
  <2> QED
    BY <1>1, <2>2, <2>3, <2>4 DEF ControlOK, Up
<1>3. CASE DelKeyStart(t)
  <2>1. PICK k \in Known : adm' = [adm EXCEPT ![t] = [IdleAdmin EXCEPT !.pc = "scan", !.key = k]]
    BY <1>3 DEF DelKeyStart
  <2>2. adm'[t].pc = "scan" /\ adm'[t].key \in Key
    BY <2>1 DEF TypeOK, IdleAdmin, Known
  <2>3. \A u \in Admin \ {t} : adm'[u] = adm[u] /\ adm[u].pc \notin {"scan", "cut"}
    BY <2>1, <1>3, ValueAssumption DEF TypeOK, ControlOK, DelKeyStart, LockFree
  <2>4. lock' = t /\ sto' = sto
    BY <1>3 DEF DelKeyStart
  <2> QED
    BY <1>1, <2>2, <2>3, <2>4 DEF ControlOK, Up
<1>4. CASE SetLimit(t) \/ DelUsage(t)
  <2>1. UNCHANGED <<lock, adm>>
    BY <1>4 DEF SetLimit, DelUsage
  <2>2. \A u \in Admin : adm[u].pc # "cut"
    BY <1>4, ValueAssumption DEF SetLimit, DelUsage, LockFree, ControlOK
  <2> QED
    BY <1>1, <2>1, <2>2 DEF ControlOK, Up
<1> QED
  BY <1>2, <1>3, <1>4 DEF AdminRequest

LEMMA AdminStepControl ==
  ASSUME TypeOK, ControlOK, NEW t \in Admin, AdminStep(t)
  PROVE  ControlOK'
<1>1. Up /\ server' = server /\ con' = con /\ pst' = pst
  BY DEF AdminStep, NewKeyInsert, NewKeyAppend, DelKeyShift, DelKeyCut, DelKeyEnd, ControlOK, store
<1>2. CASE NewKeyInsert(t)
  <2>1. /\ adm'[t].pc = "append" /\ adm'[t].key = adm[t].key /\ adm[t].pc = "insert"
        /\ \A u \in Admin \ {t} : adm'[u] = adm[u]
        /\ lock' = lock /\ sto' = sto
    BY <1>2 DEF NewKeyInsert, TypeOK, AdminRec
  <2> QED
    BY <1>1, <2>1 DEF ControlOK, Up
<1>3. CASE NewKeyAppend(t)
  <2>1. /\ adm'[t].pc = "idle"
        /\ \A u \in Admin \ {t} : adm'[u] = adm[u]
        /\ lock' = lock /\ lock = Free
    BY <1>3 DEF NewKeyAppend, TypeOK, IdleAdmin, LockFree
  <2>2. \A u \in Admin : adm[u].pc \notin {"scan", "cut"}
    BY <2>1, ValueAssumption DEF ControlOK
  <2> QED
    BY <1>1, <2>1, <2>2 DEF ControlOK, Up
<1>4. CASE DelKeyShift(t)
  <2>1. /\ adm[t].pc = "scan" /\ adm'[t].pc = "cut" /\ adm'[t].key = adm[t].key
        /\ \A u \in Admin \ {t} : adm'[u] = adm[u]
        /\ lock' = lock
    BY <1>4 DEF DelKeyShift, TypeOK, AdminRec
  <2>2. Len(sto') = Len(sto) /\ Len(sto) > 0
    <3>1. NextHit(t) \in Nat \ {0} /\ NextHit(t) <= Len(sto)
      BY <1>4, SlotsType DEF DelKeyShift
    <3>2. sto \in Seq(StoRec) /\ DOMAIN sto = 1 .. Len(sto) /\ Len(sto) \in Nat
      BY DEF TypeOK
    <3>3. sto' \in Seq(StoRec) /\ DOMAIN sto' = DOMAIN sto
      BY <1>4, AdminStepType DEF DelKeyShift, TypeOK
    <3>4. Len(sto') = Len(sto)
      BY <3>2, <3>3
    <3> QED
      BY <3>1, <3>2, <3>4
  <2> QED
    BY <1>1, <2>1, <2>2 DEF ControlOK, Up
<1>5. CASE DelKeyCut(t) \/ DelKeyEnd(t)
  <2>1. /\ adm[t].pc \in {"scan", "cut"}
        /\ \A u \in Admin \ {t} : adm'[u] = adm[u]
    BY <1>5 DEF DelKeyCut, DelKeyEnd, TypeOK
  <2>2. \A u \in Admin \ {t} : adm[u].pc \notin {"scan", "cut"}
    BY <2>1 DEF ControlOK
  <2>3. CASE DelKeyCut(t)
    <3>1. adm'[t].pc = "scan" /\ adm'[t].key = adm[t].key /\ lock' = lock
      BY <2>3 DEF DelKeyCut, TypeOK, AdminRec
    <3> QED
      BY <1>1, <2>1, <2>2, <3>1 DEF ControlOK, Up
  <2>4. CASE DelKeyEnd(t)
    <3>1. adm'[t].pc = "idle"
      BY <2>4 DEF DelKeyEnd, TypeOK, IdleAdmin
    <3> QED
      BY <1>1, <2>1, <2>2, <3>1 DEF ControlOK, Up
  <2> QED
    BY <1>5, <2>3, <2>4
<1> QED
  BY <1>2, <1>3, <1>4, <1>5 DEF AdminStep

LEMMA ConsumerControl ==
  ASSUME TypeOK, ControlOK, CountIn \/ ConsumerStep
  PROVE  ControlOK'
<1>1. Up /\ UNCHANGED <<server, adm, lock, sto>>
  BY DEF CountIn, ConsumerStep, CountOut, CountPending, ControlOK, store
<1>2. con'.pc # "idle" => con'.key \in Key
  <2>1. CASE CountIn
    <3>1. PICK k \in Key, n \in Word : con' = [pc |-> "out", key |-> k, out |-> n]
      BY <2>1, ACLAssumption DEF CountIn
    <3> QED
      BY <3>1
  <2>2. CASE CountOut
    BY <2>2 DEF CountOut, TypeOK, ConsumerRec, ControlOK
  <2>3. CASE CountPending
    BY <2>3 DEF CountPending, IdleConsumer
  <2> QED
    BY <2>1, <2>2, <2>3 DEF ConsumerStep
<1> QED
  BY <1>1, <1>2, QuietControl

LEMMA PersistControl ==
  ASSUME TypeOK, ControlOK, PersistStep
  PROVE  ControlOK'
<1>1. CASE PersistPanic
  BY <1>1, DieControl DEF PersistPanic
<1>2. CASE ~PersistPanic
  <2>1. Up /\ UNCHANGED <<server, adm, lock, con>>
    BY <1>2 DEF PersistStep, PersistWake, PersistReset, PersistOpen, PersistOpenFails,
                PersistLink, PersistBegin, PersistEncode, PersistWrite, PersistWriteFails,
                ControlOK, store
  <2>2. Len(sto') = Len(sto)
    <3>1. CASE PersistLink
      BY <3>1, LinkType
    <3>2. CASE ~PersistLink
      BY <1>2, <3>2 DEF PersistStep, PersistWake, PersistReset, PersistOpen, PersistOpenFails,
                PersistBegin, PersistEncode, PersistWrite, PersistWriteFails, store
    <3> QED
      BY <3>1, <3>2
  <2> QED
    BY <2>1, <2>2, QuietControl DEF ControlOK
<1> QED
  BY <1>1, <1>2

LEMMA CheckControl ==
  ASSUME TypeOK, ControlOK, NEW s \in Stream, CheckStep(s)
  PROVE  ControlOK'
<1>1. CASE CheckFault(s)
  BY <1>1, DieControl DEF CheckFault
<1>2. CASE CheckBegin(s) \/ CheckLists(s)
  BY <1>2 DEF CheckBegin, CheckLists, ControlOK, Up, store
<1> QED
  BY <1>1, <1>2 DEF CheckStep

LEMMA StepControl == ASSUME TypeOK, ControlOK, [Next]_vars PROVE ControlOK'
<1>1. CASE UNCHANGED vars
  BY <1>1 DEF ControlOK, Up, vars, store
<1> QED
  BY <1>1, LifeCycleControl, RequestControl, AdminStepControl, ConsumerControl,
     PersistControl, CheckControl
     DEF Next

LEMMA Controlled == Spec => [](TypeOK /\ ControlOK)
<1>1. Init => TypeOK /\ ControlOK
  BY InitType DEF Init, ControlOK, Up, IdleAdmin, IdleConsumer, IdlePersist
<1> QED
  BY <1>1, StepType, StepControl, PTL DEF Spec

\* Every variable stays within its type, through any interleaving, failure and
\* crash (acl.go:29-46).
THEOREM Typing == Spec => []TypeOK
BY Controlled, PTL

-----------------------------------------------------------------------------
\* The file is undecodable only during a save or after one that failed: this
\* holds from step to step.
LEMMA StepDamaged ==
  ASSUME TypeOK, ControlOK, DamagedOnlyWhilePersisting, [Next]_vars
  PROVE  DamagedOnlyWhilePersisting'
<1> USE DEF DamagedOnlyWhilePersisting, Up
<1>1. CASE UNCHANGED vars
  BY <1>1 DEF vars
<1>2. CASE Start \/ StartCreate \/ FinishCreate
  <2>1. CASE Start
    BY <2>1, ValueAssumption DEF Start
  <2>2. CASE StartCreate
    BY <2>2 DEF StartCreate
  <2>3. CASE FinishCreate
    <3>1. PICK k \in Key \ used, written \in BOOLEAN :
            /\ file' = IF written THEN DefaultFile(k) ELSE file
            /\ failed' = ~written
      BY <2>3 DEF FinishCreate
    <3>2. DefaultFile(k) \in Seq(FileRec)
      BY FreshType DEF DefaultFile, FileRec
    <3>3. DefaultFile(k) # Damaged
      BY <3>2, ValueAssumption
    <3> QED
      BY <3>1, <3>3
  <2> QED
    BY <1>2, <2>1, <2>2, <2>3
<1>3. CASE Crash \/ PersistPanic \/ \E s \in Stream : CheckFault(s)
  BY <1>3 DEF Crash, PersistPanic, CheckFault, Die
<1>4. ASSUME NEW t \in Admin, AdminRequest(t) \/ AdminStep(t)
      PROVE  DamagedOnlyWhilePersisting'
  BY <1>4 DEF AdminRequest, NewKeyBegin, DelKeyStart, SetLimit, DelUsage,
              AdminStep, NewKeyInsert, NewKeyAppend, DelKeyShift, DelKeyCut, DelKeyEnd
<1>5. CASE CountIn \/ ConsumerStep
  BY <1>5 DEF CountIn, ConsumerStep, CountOut, CountPending
<1>6. CASE PersistWake \/ PersistReset \/ PersistOpen \/ PersistOpenFails \/ PersistLink
           \/ PersistBegin \/ PersistEncode
  <2> USE <1>6
  <2>1. CASE PersistWake \/ PersistReset
    BY <2>1 DEF PersistWake, PersistReset
  <2>2. CASE PersistOpen
    BY <2>2 DEF PersistOpen, TypeOK, PersistRec
  <2>3. CASE PersistOpenFails
    BY <2>3 DEF PersistOpenFails
  <2>4. CASE PersistLink
    BY <2>4 DEF PersistLink, TypeOK, PersistRec
  <2>5. CASE PersistBegin
    BY <2>5 DEF PersistBegin, TypeOK, PersistRec
  <2>6. CASE PersistEncode
    BY <2>6 DEF PersistEncode, TypeOK, PersistRec
  <2> QED
    BY <2>1, <2>2, <2>3, <2>4, <2>5, <2>6
<1>7. CASE PersistWrite
  <2>1. file' \in Seq(FileRec)
    BY <1>7 DEF PersistWrite, TypeOK, PersistRec
  <2> QED
    BY <2>1, ValueAssumption
<1>8. CASE PersistWriteFails
  BY <1>8 DEF PersistWriteFails
<1>9. ASSUME NEW s \in Stream, CheckBegin(s) \/ CheckLists(s)
      PROVE  DamagedOnlyWhilePersisting'
  BY <1>9 DEF CheckBegin, CheckLists
<1> QED
  BY <1>1, <1>2, <1>3, <1>4, <1>5, <1>6, <1>7, <1>8, <1>9 DEF Next, PersistStep, CheckStep

\* A running server leaves the file undecodable only from the Truncate to the
\* end of the same save, or after a save that failed (acl.go:323-342).
THEOREM DamageSafe == Spec => []DamagedOnlyWhilePersisting
<1>1. Init => DamagedOnlyWhilePersisting
  BY DEF Init, DamagedOnlyWhilePersisting, Up
<1> QED
  BY <1>1, StepDamaged, Controlled, PTL DEF Spec

-----------------------------------------------------------------------------
\* Facts about lists of records.
LEMMA SubKeys ==
  ASSUME NEW f, NEW g, \A i \in DOMAIN f : \E j \in DOMAIN g : f[i].key = g[j].key
  PROVE  KeysOf(f) \subseteq KeysOf(g)
BY DEF KeysOf

LEMMA AppendKeys ==
  ASSUME NEW S, NEW f \in Seq(S), NEW r \in S
  PROVE  KeysOf(Append(f, r)) = KeysOf(f) \cup {r.key}
<1>1. /\ DOMAIN Append(f, r) = 1 .. Len(f) + 1 /\ DOMAIN f = 1 .. Len(f) /\ Len(f) \in Nat
      /\ Append(f, r)[Len(f) + 1] = r
      /\ \A i \in 1 .. Len(f) : Append(f, r)[i] = f[i]
  BY AppendProperties, LenProperties
<1>2. KeysOf(Append(f, r)) \subseteq KeysOf(f) \cup {r.key}
  <2> SUFFICES ASSUME NEW i \in DOMAIN Append(f, r)
               PROVE  Append(f, r)[i].key \in KeysOf(f) \cup {r.key}
    BY DEF KeysOf
  <2>1. i \in 1 .. Len(f) \/ i = Len(f) + 1
    BY <1>1
  <2> QED
    BY <1>1, <2>1 DEF KeysOf
<1>3. KeysOf(f) \cup {r.key} \subseteq KeysOf(Append(f, r))
  <2>1. r.key \in KeysOf(Append(f, r))
    <3>1. Len(f) + 1 \in DOMAIN Append(f, r)
      BY <1>1
    <3> QED
      BY <1>1, <3>1 DEF KeysOf
  <2>2. ASSUME NEW i \in DOMAIN f
        PROVE  f[i].key \in KeysOf(Append(f, r))
    <3>1. i \in DOMAIN Append(f, r) /\ Append(f, r)[i] = f[i]
      BY <1>1
    <3> QED
      BY <3>1 DEF KeysOf
  <2> QED
    BY <2>1, <2>2 DEF KeysOf
<1> QED
  BY <1>2, <1>3

LEMMA EmptyKeys == KeysOf(<<>>) = {} /\ Reloadable(<<>>)
BY DEF KeysOf, Reloadable

LEMMA DefaultKeys ==
  ASSUME NEW k \in Key
  PROVE  /\ DefaultFile(k) \in Seq(FileRec)
         /\ KeysOf(DefaultFile(k)) = {k}
         /\ Reloadable(DefaultFile(k))
<1>1. DefaultFile(k) \in Seq(FileRec)
  BY FreshType DEF DefaultFile, FileRec
<1>2. DOMAIN DefaultFile(k) = {1} /\ DefaultFile(k)[1].key = k /\ DefaultFile(k)[1].limit = Nil
  BY DEF DefaultFile
<1> QED
  BY <1>1, <1>2 DEF KeysOf, Reloadable, SavedLimit

\* A limit that has been through the file once does not change again.
LEMMA SavedTwice ==
  ASSUME NEW l \in Limit \cup {Nil}
  PROVE  SavedLimit(SavedLimit(l)) = SavedLimit(l)
<1>1. CASE l = Nil
  BY <1>1 DEF SavedLimit
<1>2. CASE l \in Limit
  <2> DEFINE r == SavedLimit(l)
  <2>1. /\ r = [l EXCEPT !.whitelist = SavedList(l.whitelist), !.blacklist = SavedList(l.blacklist)]
        /\ r \in Limit
    BY <1>2, NilAssumption, SavedLimitType DEF SavedLimit, SavedList, Limit, PatternList
  <2>2. r.whitelist = SavedList(l.whitelist) /\ r.blacklist = SavedList(l.blacklist)
    BY <1>2, <2>1 DEF Limit
  <2>3. SavedList(r.whitelist) = r.whitelist /\ SavedList(r.blacklist) = r.blacklist
    BY <2>2 DEF SavedList
  <2>4. [r EXCEPT !.whitelist = r.whitelist, !.blacklist = r.blacklist] = r
    BY <2>1 DEF Limit
  <2>5. r # Nil
    BY <2>1, NilAssumption
  <2> HIDE DEF r
  <2>6. SavedLimit(r) = r
    BY <2>3, <2>4, <2>5 DEF SavedLimit
  <2> QED
    BY <2>6 DEF r
<1> QED
  BY <1>1, <1>2

-----------------------------------------------------------------------------
\* A new key is nobody else's until it is in the list (KeysOK).
Making(t) == adm[t].pc \in {"insert", "append"}

\* Steps that create no key and bring none into the list or the file.
LEMMA KeysFrame ==
  ASSUME TypeOK, KeysOK, used' = used,
         KeysOf(sto') \subseteq KeysOf(sto),
         KeysOf(pst'.buf) \subseteq used,
         file' \in {Missing, Damaged} \/ KeysOf(file') \subseteq used,
         \A t \in Admin : adm'[t].pc \in {"insert", "append"} => Making(t) /\ adm'[t].key = adm[t].key
  PROVE  KeysOK'
BY DEF KeysOK, Making

LEMMA DieKeys == ASSUME TypeOK, KeysOK, Die PROVE KeysOK'
<1>1. /\ KeysOf(sto') = {} /\ KeysOf(pst'.buf) = {} /\ used' = used /\ file' = file
      /\ \A t \in Admin : adm'[t].pc = "idle"
  BY EmptyKeys DEF Die, Volatile0, IdlePersist, IdleAdmin, history
<1> QED
  BY <1>1, KeysFrame DEF KeysOK

LEMMA LoadKeys == ASSUME NEW f \in Seq(FileRec), NEW bare, Load(f, bare) PROVE KeysOf(sto') = KeysOf(f)
<1>1. DOMAIN sto' = DOMAIN f /\ \A i \in DOMAIN f : sto'[i].key = f[i].key
  <2>1. DOMAIN sto' = DOMAIN f
    BY DEF Load
  <2>2. ASSUME NEW i \in DOMAIN f PROVE sto'[i].key = f[i].key
    <3>1. f[i] \in FileRec
      BY LenProperties, ElementOfSeq
    <3>2. sto'[i] = [f[i] EXCEPT !.usage = IF i \in bare THEN Nil
                                           ELSE IF i = LastOf(f, f[i].key) THEN Live ELSE @]
      BY DEF Load
    <3> QED
      BY <3>1, <3>2 DEF FileRec
  <2> QED
    BY <2>1, <2>2
<1> QED
  BY <1>1 DEF KeysOf

LEMMA LifeCycleKeys ==
  ASSUME TypeOK, ControlOK, KeysOK, Start \/ StartCreate \/ FinishCreate \/ Crash
  PROVE  KeysOK'
<1>1. CASE Crash
  BY <1>1, DieKeys DEF Crash
<1>2. CASE StartCreate
  BY <1>2, KeysFrame DEF StartCreate, store, history, KeysOK, Making
<1>3. CASE Start
  <2>0. PICK bare : Load(file, bare)
    BY <1>3 DEF Start
  <2>1. file \in Seq(FileRec) /\ file' = file /\ used' = used /\ pst' = pst /\ ~Up
    BY <1>3, <2>0 DEF Start, Load, TypeOK, Up
  <2>2. KeysOf(sto') \subseteq used
    BY <1>3, <2>0, <2>1, LoadKeys DEF KeysOK, Start
  <2>3. \A t \in Admin : adm'[t].pc = "idle"
    BY <2>0, <2>1 DEF ControlOK, Load
  <2> QED
    BY <2>1, <2>2, <2>3 DEF KeysOK
<1>4. CASE FinishCreate
  <2>1. PICK k \in Key \ used, written \in BOOLEAN :
          /\ file' = IF written THEN DefaultFile(k) ELSE file
          /\ used' = used \cup {k}
          /\ Load(DefaultFile(k), {1})
    BY <1>4 DEF FinishCreate
  <2>2. KeysOf(sto') \subseteq used' /\ (file' \in {Missing, Damaged} \/ KeysOf(file') \subseteq used')
    BY <2>1, DefaultKeys, LoadKeys DEF KeysOK
  <2>3. (\A t \in Admin : adm'[t].pc = "idle") /\ pst' = pst
    BY <1>4, <2>1 DEF ControlOK, Load, Up, FinishCreate
  <2> QED
    BY <2>1, <2>2, <2>3 DEF KeysOK
<1> QED
  BY <1>1, <1>2, <1>3, <1>4

LEMMA RequestKeys ==
  ASSUME TypeOK, ControlOK, KeysOK, NEW t \in Admin, AdminRequest(t)
  PROVE  KeysOK'
<1>0. pst' = pst /\ file' = file
  BY DEF AdminRequest, NewKeyBegin, DelKeyStart, SetLimit, DelUsage
<1>1. CASE NewKeyBegin(t)
  <2>1. PICK k \in Key \ used :
          /\ used' = used \cup {k}
          /\ adm' = [adm EXCEPT ![t] = [IdleAdmin EXCEPT !.pc = "insert", !.key = k]]
    BY <1>1 DEF NewKeyBegin
  <2>2. adm'[t].key = k /\ \A u \in Admin \ {t} : adm'[u] = adm[u]
    BY <2>1 DEF TypeOK, IdleAdmin
  <2>3. sto' = sto
    BY <1>1 DEF NewKeyBegin, store
  <2> QED
    BY <1>0, <2>1, <2>2, <2>3 DEF KeysOK
<1>2. CASE DelKeyStart(t)
  <2>1. PICK k \in Known : adm' = [adm EXCEPT ![t] = [IdleAdmin EXCEPT !.pc = "scan", !.key = k]]
    BY <1>2 DEF DelKeyStart
  <2>2. adm'[t].pc = "scan" /\ \A u \in Admin \ {t} : adm'[u] = adm[u]
    BY <2>1 DEF TypeOK, IdleAdmin
  <2>3. sto' = sto /\ used' = used
    BY <1>2 DEF DelKeyStart
  <2> QED
    BY <1>0, <2>2, <2>3 DEF KeysOK
<1>3. CASE SetLimit(t) \/ DelUsage(t)
  <2>1. adm' = adm /\ used' = used
    BY <1>3 DEF SetLimit, DelUsage, history
  <2>2. DOMAIN sto' = DOMAIN sto /\ \A i \in DOMAIN sto : sto'[i].key = sto[i].key
    <3>1. \A i \in DOMAIN sto : sto[i] \in StoRec
      BY LenProperties, ElementOfSeq DEF TypeOK
    <3>2. CASE SetLimit(t)
      BY <3>1, <3>2 DEF SetLimit, StoRec
    <3>3. CASE DelUsage(t)
      BY <3>1, <3>3 DEF DelUsage, Unlink, StoRec
    <3> QED
      BY <1>3, <3>2, <3>3
  <2>3. KeysOf(sto') \subseteq KeysOf(sto)
    BY <2>2, SubKeys
  <2> QED
    BY <1>0, <2>1, <2>3, KeysFrame DEF KeysOK, Making
<1> QED
  BY <1>1, <1>2, <1>3 DEF AdminRequest

LEMMA AdminStepKeys ==
  ASSUME TypeOK, ControlOK, KeysOK, NEW t \in Admin, AdminStep(t)
  PROVE  KeysOK'
<1>0. pst' = pst /\ file' = file /\ used' = used
  BY DEF AdminStep, NewKeyInsert, NewKeyAppend, DelKeyShift, DelKeyCut, DelKeyEnd, history
<1>a. sto \in Seq(StoRec) /\ DOMAIN sto = 1 .. Len(sto) /\ Len(sto) \in Nat
  BY DEF TypeOK
<1>1. CASE NewKeyInsert(t)
  <2>1. sto' = sto /\ adm[t].pc = "insert" /\ adm' = [adm EXCEPT ![t].pc = "append"]
    BY <1>1 DEF NewKeyInsert
  <2>2. \A u \in Admin : adm'[u].pc \in {"insert", "append"} => Making(u) /\ adm'[u].key = adm[u].key
    BY <2>1 DEF TypeOK, AdminRec, Making
  <2> QED
    BY <1>0, <2>1, <2>2, KeysFrame DEF KeysOK
<1>2. CASE NewKeyAppend(t)
  <2> DEFINE r == [key |-> adm[t].key, limit |-> Nil, usage |-> Nil]
  <2>1. r \in StoRec /\ r.key = adm[t].key /\ sto' = Append(sto, r) /\ Making(t)
    BY <1>2 DEF NewKeyAppend, ControlOK, StoRec, Making
  <2> HIDE DEF r
  <2>2. KeysOf(sto') = KeysOf(sto) \cup {adm[t].key}
    BY <1>a, <2>1, AppendKeys
  <2>3. adm'[t].pc = "idle" /\ \A u \in Admin \ {t} : adm'[u] = adm[u]
    BY <1>2 DEF NewKeyAppend, TypeOK, IdleAdmin
  <2> QED
    BY <1>0, <2>1, <2>2, <2>3 DEF KeysOK, Making
<1>3. CASE DelKeyShift(t) \/ DelKeyCut(t) \/ DelKeyEnd(t)
  <2>1. \A u \in Admin : adm'[u].pc \in {"insert", "append"} => Making(u) /\ adm'[u].key = adm[u].key
    <3>1. adm'[t].pc \notin {"insert", "append"} /\ \A u \in Admin \ {t} : adm'[u] = adm[u]
      BY <1>3 DEF DelKeyShift, DelKeyCut, DelKeyEnd, TypeOK, AdminRec, IdleAdmin
    <3> QED
      BY <3>1 DEF Making
  <2>2. \A i \in DOMAIN sto' : \E j \in DOMAIN sto : sto'[i].key = sto[j].key
    <3>1. CASE DelKeyShift(t)
      <4> TAKE i \in DOMAIN sto'
      <4>1. i \in 1 .. Len(sto)
        BY <1>a, <3>1 DEF DelKeyShift
      <4>2. sto'[i] = sto[i] \/ (i + 1 \in 1 .. Len(sto) /\ sto'[i] = sto[i + 1])
        BY <1>a, <3>1, <4>1 DEF DelKeyShift
      <4> QED
        BY <1>a, <4>1, <4>2
    <3>2. CASE DelKeyCut(t)
      <4>1. sto' = SubSeq(sto, 1, Len(sto) - 1)
        BY <3>2 DEF DelKeyCut
      <4>2. DOMAIN sto' \subseteq DOMAIN sto /\ \A i \in DOMAIN sto' : sto'[i] = sto[i]
        BY <1>a, <4>1
      <4> QED
        BY <4>2
    <3>3. CASE DelKeyEnd(t)
      BY <3>3 DEF DelKeyEnd, store
    <3> QED
      BY <1>3, <3>1, <3>2, <3>3
  <2>3. KeysOf(sto') \subseteq KeysOf(sto)
    BY <2>2, SubKeys
  <2> QED
    BY <1>0, <2>1, <2>3, KeysFrame DEF KeysOK
<1> QED
  BY <1>1, <1>2, <1>3 DEF AdminStep

LEMMA PersistKeys ==
  ASSUME TypeOK, ControlOK, KeysOK, PersistStep
  PROVE  KeysOK'
<1>a. sto \in Seq(StoRec) /\ DOMAIN sto = 1 .. Len(sto) /\ pst.buf \in Seq(FileRec) /\ pst \in PersistRec
  BY DEF TypeOK, PersistRec
<1>1. CASE PersistPanic
  BY <1>1, DieKeys DEF PersistPanic
<1>2. CASE ~PersistPanic
  <2>1. adm' = adm /\ used' = used
    BY <1>2 DEF PersistStep, PersistWake, PersistReset, PersistOpen, PersistOpenFails,
                PersistLink, PersistBegin, PersistEncode, PersistWrite, PersistWriteFails, history
  <2>2. KeysOf(sto') \subseteq KeysOf(sto)
    <3>1. CASE PersistLink
      <4>1. \A i \in DOMAIN sto : sto[i] \in StoRec
        BY <1>a
      <4>2. DOMAIN sto' = DOMAIN sto /\ \A i \in DOMAIN sto : sto'[i].key = sto[i].key
        BY <1>a, <3>1, <4>1, LinkType, LenProperties DEF StoRec
      <4> QED
        BY <4>2, SubKeys
    <3>2. CASE ~PersistLink
      <4>1. sto' = sto
        BY <1>2, <3>2 DEF PersistStep, PersistWake, PersistReset, PersistOpen, PersistOpenFails,
                PersistBegin, PersistEncode, PersistWrite, PersistWriteFails, store
      <4> QED
        BY <4>1
    <3> QED
      BY <3>1, <3>2
  <2>3. KeysOf(pst'.buf) \subseteq used
    <3>1. CASE PersistEncode
      <4> DEFINE r == Saved(sto[Len(pst.buf) + 1])
      <4>1. pst' = [pst EXCEPT !.buf = Append(pst.buf, r)]
        BY <3>1 DEF PersistEncode
      <4>2. Len(pst.buf) + 1 \in DOMAIN sto
        BY <1>a, <3>1, LenProperties DEF PersistEncode
      <4>3. r.key \in used
        BY <4>2 DEF Saved, KeysOK, KeysOf
      <4>4. r \in FileRec
        BY <1>a, <4>2, SavedType
      <4> HIDE DEF r
      <4>5. pst'.buf = Append(pst.buf, r)
        BY <1>a, <4>1 DEF PersistRec
      <4> QED
        BY <1>a, <4>3, <4>4, <4>5, AppendKeys DEF KeysOK
    <3>2. CASE ~PersistEncode
      <4>1. pst'.buf = pst.buf \/ pst'.buf = <<>>
        <5>1. CASE PersistWake \/ PersistReset \/ PersistLink
          BY <1>a, <5>1 DEF PersistWake, PersistReset, PersistLink, PersistRec
        <5>2. CASE PersistOpen
          <6> DEFINE m == Len(sto)
          <6>1. \E one : pst' = [pst EXCEPT !.pc = "link", !.i = one, !.n = m]
            BY <5>2 DEF PersistOpen
          <6> HIDE DEF m
          <6> QED
            BY <1>a, <6>1 DEF PersistRec
        <5>3. CASE PersistBegin
          <6> DEFINE m == Len(sto)
                     e == <<>>
          <6>1. pst' = [pst EXCEPT !.pc = "encode", !.n = m, !.buf = e]
            BY <5>3 DEF PersistBegin
          <6> HIDE DEF m, e
          <6>2. pst'.buf = e
            BY <1>a, <6>1 DEF PersistRec
          <6> QED
            BY <6>2 DEF e
        <5>4. CASE PersistOpenFails \/ PersistWrite \/ PersistWriteFails
          BY <5>4 DEF PersistOpenFails, PersistWrite, PersistWriteFails, IdlePersist
        <5> QED
          BY <1>2, <3>2, <5>1, <5>2, <5>3, <5>4 DEF PersistStep
      <4> QED
        BY <4>1, EmptyKeys DEF KeysOK
    <3> QED
      BY <3>1, <3>2
  <2>4. file' \in {Missing, Damaged} \/ KeysOf(file') \subseteq used
    BY <1>2 DEF PersistStep, PersistWake, PersistReset, PersistOpen, PersistOpenFails,
                PersistLink, PersistBegin, PersistEncode, PersistWrite, PersistWriteFails, KeysOK
  <2> QED
    BY <2>1, <2>2, <2>3, <2>4, KeysFrame DEF Making
<1> QED
  BY <1>1, <1>2

LEMMA StepKeys == ASSUME TypeOK, ControlOK, KeysOK, [Next]_vars PROVE KeysOK'
<1>1. CASE UNCHANGED vars
  BY <1>1 DEF KeysOK, vars, store, history
<1>2. CASE CountIn \/ ConsumerStep
  BY <1>2 DEF CountIn, ConsumerStep, CountOut, CountPending, KeysOK, store, history
<1>3. ASSUME NEW s \in Stream, CheckStep(s)
      PROVE  KeysOK'
  <2>1. CASE CheckFault(s)
    BY <2>1, DieKeys DEF CheckFault
  <2>2. CASE CheckBegin(s) \/ CheckLists(s)
    BY <2>2 DEF CheckBegin, CheckLists, KeysOK, store, history
  <2> QED
    BY <1>3, <2>1, <2>2 DEF CheckStep
<1> QED
  BY <1>1, <1>2, <1>3, LifeCycleKeys, RequestKeys, AdminStepKeys, PersistKeys DEF Next
=============================================================================
