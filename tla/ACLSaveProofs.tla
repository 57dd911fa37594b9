--------------------------- MODULE ACLSaveProofs ---------------------------
(***************************************************************************)
(* What reaches the ACL file: the last part of the inductive invariant of  *)
(* ACL, the properties of saving it implies, and the proof that the        *)
(* goroutines together implement DurableStore.                             *)
(***************************************************************************)
EXTENDS ACLProofs

-----------------------------------------------------------------------------
\* A step that leaves the list, the save and every listed key's entry alone, and
\* forgets no change, keeps what the save has achieved.
LEMMA ImageFrame ==
  ASSUME sto' = sto,
         \A i \in DOMAIN sto : /\ keys'[sto[i].key] = keys[sto[i].key]
                               /\ bytesUsage'[sto[i].key] = bytesUsage[sto[i].key]
  PROVE  /\ Image' = Image
         /\ \A i \in DOMAIN sto : Linked(sto[i])' = Linked(sto[i])
<1>1. \A i \in DOMAIN sto : ImageOf(sto[i])' = ImageOf(sto[i])
  BY DEF ImageOf, Saved, Present
<1>2. \A i \in DOMAIN sto : Linked(sto[i])' = Linked(sto[i])
  BY DEF Linked, Present
<1> QED
  BY <1>1, <1>2 DEF Image

LEMMA SaveFrame ==
  ASSUME TypeOK, SaveOK, UNCHANGED <<server, sto, file, pst, failed>>,
         \A i \in DOMAIN sto : /\ keys'[sto[i].key] = keys[sto[i].key]
                               /\ bytesUsage'[sto[i].key] = bytesUsage[sto[i].key],
         Covered => Covered',
         lock' # Free => pending' > 0
  PROVE  SaveOK'
<1>1. Image' = Image /\ \A i \in 1 .. Len(sto) : Linked(sto[i])' = Linked(sto[i])
  BY ImageFrame DEF TypeOK
<1>2. RoundOK'
  BY <1>1 DEF SaveOK, RoundOK, Up
<1> QED
  BY <1>2 DEF SaveOK, Reloadable

\* A step after which another save is due owes nothing to the one under way.
LEMMA DueSave ==
  ASSUME SaveOK, Covered', UNCHANGED <<file, pst>>, lock' # Free => pending' > 0
  PROVE  SaveOK'
BY DEF SaveOK, RoundOK, Reloadable

LEMMA DieSave == ASSUME SaveOK, Die PROVE SaveOK'
BY EmptyKeys DEF Die, Volatile0, SaveOK, RoundOK, Up, IdlePersist, Reloadable

\* A start gives every record of a key the usage of its last one; a file that
\* names no key twice is then what the store holds.
LEMMA LoadRestores ==
  ASSUME NEW f \in Seq(FileRec), NEW bare, Load(f, bare), Reloadable(f)
  PROVE  Image' = Restored(f)
<1>1. DOMAIN sto' = DOMAIN f
  BY DEF Load
<1>2. ASSUME NEW i \in DOMAIN f
      PROVE  ImageOf(sto[i])' = [f[i] EXCEPT !.usage = f[LastOf(f, f[i].key)].usage]
  <2>1. f[i] \in FileRec /\ f[i].key \in KeysOf(f)
    BY LenProperties, ElementOfSeq DEF KeysOf
  <2>2. f[LastOf(f, f[i].key)] \in FileRec
    BY <2>1, LastOfType, LenProperties, ElementOfSeq
  <2> DEFINE last == f[LastOf(f, f[i].key)]
             u == IF i \in bare THEN Nil ELSE IF i = LastOf(f, f[i].key) THEN Live ELSE f[i].usage
             r == [f[i] EXCEPT !.usage = u]
  <2>3. sto'[i] = r
    BY DEF Load
  <2>4. r.key = f[i].key /\ r.limit = f[i].limit
    <3> HIDE DEF u
    <3> QED
      BY <2>1 DEF FileRec
  <2>5. f[i].key \in Key
    BY <2>1 DEF FileRec
  <2>6. keys'[f[i].key] = EntryOf(last.limit) /\ bytesUsage'[f[i].key] = last.usage
    BY <2>1, <2>5 DEF Load
  <2>7. Present(f[i].key)'
    BY <2>2, <2>6, EntryType, ValueAssumption DEF Present, FileRec
  <2> HIDE DEF r, last
  <2> DEFINE s == Saved(sto[i])'
  <2>8. s.key = f[i].key /\ s.limit = SavedLimit(f[i].limit) /\ s = [key |-> s.key, limit |-> s.limit, usage |-> s.usage]
    BY <2>3, <2>4 DEF Saved
  <2>9. SavedLimit(f[i].limit) = f[i].limit
    BY DEF Reloadable
  <2>10. ImageOf(sto[i])' = [s EXCEPT !.usage = last.usage]
    BY <2>3, <2>4, <2>6, <2>7 DEF ImageOf
  <2> HIDE DEF s
  <2>11. [s EXCEPT !.usage = last.usage] = [f[i] EXCEPT !.usage = last.usage]
    BY <2>1, <2>8, <2>9 DEF FileRec
  <2> QED
    BY <2>10, <2>11 DEF last
<1>3. Image' = [i \in DOMAIN f |-> [f[i] EXCEPT !.usage = f[LastOf(f, f[i].key)].usage]]
  BY <1>1, <1>2 DEF Image
<1> QED
  BY <1>3 DEF Restored

LEMMA RestoredSame ==
  ASSUME NEW f \in Seq(FileRec), NoDup(f)
  PROVE  Restored(f) = f
<1>1. ASSUME NEW i \in DOMAIN f
      PROVE  [f[i] EXCEPT !.usage = f[LastOf(f, f[i].key)].usage] = f[i]
  <2>1. f[i] \in FileRec /\ f[i].key \in KeysOf(f)
    BY LenProperties, ElementOfSeq DEF KeysOf
  <2>2. LastOf(f, f[i].key) = i
    BY <2>1, LastOfType DEF NoDup
  <2> QED
    BY <2>1, <2>2 DEF FileRec
<1>2. Restored(f) = [i \in DOMAIN f |-> f[i]]
  BY <1>1 DEF Restored
<1> QED
  BY <1>2

LEMMA LoadImage ==
  ASSUME NEW f \in Seq(FileRec), NEW bare, Load(f, bare), NoDup(f), Reloadable(f)
  PROVE  Image' = f
BY LoadRestores, RestoredSame

\* SaveOK is preserved: by the life cycle of the server ...
LEMMA LifeCycleSave ==
  ASSUME TypeOK, ControlOK, SaveOK, Start \/ StartCreate \/ FinishCreate \/ Crash
  PROVE  SaveOK'
<1>1. CASE Crash
  BY <1>1, DieSave DEF Crash
<1>2. CASE StartCreate
  <2>1. ~Up' /\ pst' = pst /\ pst.pc = "asleep" /\ file' = Damaged /\ UNCHANGED <<lock, pending>>
    BY <1>2 DEF StartCreate, ControlOK, Up
  <2> QED
    BY <2>1 DEF SaveOK, RoundOK
<1>3. ASSUME NEW f \in Seq(FileRec), NEW bare, Load(f, bare), ~Up, Reloadable(f),
             file' = f \/ (file' = file /\ failed')
      PROVE  SaveOK'
  <2>1. pst' = pst /\ pst.pc = "asleep" /\ UNCHANGED <<lock, pending>>
    BY <1>3 DEF Load, ControlOK
  <2>2. NoDup(sto') => NoDup(f)
    <3>1. \A i \in DOMAIN f : f[i] \in FileRec
      BY LenProperties, ElementOfSeq
    <3>2. DOMAIN sto' = DOMAIN f /\ \A i \in DOMAIN f : sto'[i].key = f[i].key
      <4> DEFINE u(i) == IF i \in bare THEN Nil ELSE IF i = LastOf(f, f[i].key) THEN Live ELSE f[i].usage
      <4>1. sto' = [i \in DOMAIN f |-> [f[i] EXCEPT !.usage = u(i)]]
        BY <1>3 DEF Load
      <4> HIDE DEF u
      <4> QED
        BY <3>1, <4>1 DEF FileRec
    <3> QED
      BY <3>2 DEF NoDup
  <2>3. ~failed' /\ NoDup(sto') => file' = Image'
    BY <1>3, <2>2, LoadImage
  <2>4. RoundOK'
    BY <2>1, <2>3 DEF RoundOK
  <2> QED
    BY <1>3, <2>1, <2>4 DEF SaveOK
<1>4. CASE Start
  <2>1. PICK bare : Load(file, bare)
    BY <1>4 DEF Start
  <2>2. ~Up /\ file' = file /\ file \notin {Missing, Damaged}
    BY <1>4 DEF Start, Up
  <2>3. file \in Seq(FileRec)
    BY <2>2 DEF TypeOK
  <2>4. Reloadable(file)
    BY <2>2 DEF SaveOK
  <2> QED
    BY <2>1, <2>2, <2>3, <2>4, <1>3
<1>5. CASE FinishCreate
  <2>1. PICK k \in Key, written \in BOOLEAN :
          /\ file' = IF written THEN DefaultFile(k) ELSE file
          /\ failed' = ~written
          /\ Load(DefaultFile(k), {1})
    BY <1>5 DEF FinishCreate
  <2>2. ~Up
    BY <1>5 DEF FinishCreate, Up
  <2>3. file' = DefaultFile(k) \/ (file' = file /\ failed')
    BY <2>1
  <2> QED
    BY <2>1, <2>2, <2>3, <1>3, DefaultKeys
<1> QED
  BY <1>1, <1>2, <1>4, <1>5

\* ... by the handlers of the admin API, of which only the start of NewKey and
\* its write to the map leave no save due ...
LEMMA RequestSave ==
  ASSUME TypeOK, SaveOK, NEW t \in Admin, AdminRequest(t)
  PROVE  SaveOK'
<1>1. CASE NewKeyBegin(t)
  <2>1. UNCHANGED <<server, store, pending, lock, file, pst, con, failed>>
    BY <1>1 DEF NewKeyBegin
  <2> QED
    BY <2>1, SaveFrame DEF store, Covered, SaveOK
<1>2. CASE DelKeyStart(t) \/ SetLimit(t) \/ DelUsage(t)
  <2>1. pending' = pending + 1 /\ UNCHANGED <<file, pst>>
    BY <1>2 DEF DelKeyStart, SetLimit, DelUsage
  <2>2. pending' > 0
    BY <2>1 DEF TypeOK
  <2> QED
    BY <2>1, <2>2, DueSave DEF Covered
<1> QED
  BY <1>1, <1>2 DEF AdminRequest

LEMMA AdminStepSave ==
  ASSUME TypeOK, ControlOK, KeysOK, SaveOK, NEW t \in Admin, AdminStep(t)
  PROVE  SaveOK'
<1>1. CASE NewKeyInsert(t)
  <2>1. /\ UNCHANGED <<server, sto, pending, lock, file, pst, con, failed>>
        /\ keys' = [keys EXCEPT ![adm[t].key] = FreshEntry] \/ keys' = keys
        /\ bytesUsage' = [bytesUsage EXCEPT ![adm[t].key] = NoUsage]
    BY <1>1 DEF NewKeyInsert, MapWrite
  <2>2. adm[t].key \notin KeysOf(sto)
    BY <1>1 DEF NewKeyInsert, KeysOK
  <2>3. \A i \in DOMAIN sto : sto[i].key # adm[t].key /\ sto[i].key \in Key
    BY <2>2, KeysType DEF KeysOf, TypeOK
  <2>4. \A i \in DOMAIN sto : /\ keys'[sto[i].key] = keys[sto[i].key]
                              /\ bytesUsage'[sto[i].key] = bytesUsage[sto[i].key]
    BY <2>1, <2>3 DEF TypeOK
  <2> QED
    BY <2>1, <2>4, SaveFrame DEF Covered, SaveOK
<1>2. CASE NewKeyAppend(t)
  <2>1. pending' = pending + 1 /\ UNCHANGED <<file, pst>>
    BY <1>2 DEF NewKeyAppend
  <2>2. pending' > 0
    BY <2>1 DEF TypeOK
  <2> QED
    BY <2>1, <2>2, DueSave DEF Covered
<1>3. CASE DelKeyShift(t) \/ DelKeyCut(t)
  <2>1. lock # Free
    BY <1>3, ValueAssumption DEF DelKeyShift, DelKeyCut, ControlOK
  <2>2. pending' > 0 /\ UNCHANGED <<file, pst>>
    BY <1>3, <2>1 DEF DelKeyShift, DelKeyCut, SaveOK
  <2> QED
    BY <2>2, DueSave DEF Covered
<1>4. CASE DelKeyEnd(t)
  <2>1. lock' = Free /\ UNCHANGED <<server, store, pending, file, pst, con, failed>>
    BY <1>4 DEF DelKeyEnd
  <2> QED
    BY <2>1, SaveFrame DEF store, Covered
<1> QED
  BY <1>1, <1>2, <1>3, <1>4 DEF AdminStep

\* ... by the consumer, which raises the counter only after it has added ...
LEMMA ConsumerSave ==
  ASSUME TypeOK, SaveOK, CountIn \/ ConsumerStep
  PROVE  SaveOK'
<1>1. UNCHANGED <<file, pst, lock>> /\ pending' \in {pending, pending + 1}
  BY DEF CountIn, ConsumerStep, CountOut, CountPending
<1>2. Covered'
  <2>1. CASE CountIn
    BY <2>1 DEF CountIn, Covered
  <2>2. CASE CountOut
    <3>1. con' = [con EXCEPT !.pc = "bump"] /\ con \in ConsumerRec
      BY <2>2 DEF CountOut, TypeOK
    <3> QED
      BY <3>1 DEF Covered, ConsumerRec
  <2>3. CASE CountPending
    BY <2>3 DEF CountPending, Covered, TypeOK
  <2> QED
    BY <2>1, <2>2, <2>3 DEF ConsumerStep
<1> QED
  BY <1>1, <1>2, DueSave DEF SaveOK, TypeOK

\* ... by the persist loop ...
LEMMA LinkSave ==
  ASSUME TypeOK, SaveOK, PersistLink
  PROVE  SaveOK'
<1>0. /\ sto \in Seq(StoRec) /\ DOMAIN sto = 1 .. Len(sto) /\ Len(sto) \in Nat
      /\ pst \in PersistRec /\ pending \in Nat
  BY DEF TypeOK
<1>1. /\ pst.pc = "link" /\ pst.i <= pst.n
      /\ pst' = [pst EXCEPT !.i = @ + 1]
      /\ UNCHANGED <<server, keys, bytesUsage, pending, lock, file, con, failed>>
  BY DEF PersistLink
<1>2. pst'.pc = "link" /\ pst'.i = pst.i + 1 /\ pst'.n = pst.n /\ pst'.buf = pst.buf
  BY <1>0, <1>1 DEF PersistRec
<1>3. Covered' = Covered
  BY <1>1 DEF Covered
<1>4. Reloadable(pst'.buf) /\ (file' \in {Missing, Damaged} \/ Reloadable(file'))
  BY <1>1, <1>2 DEF SaveOK
<1>5. CASE Covered
  BY <1>1, <1>3, <1>4, <1>5 DEF SaveOK, RoundOK
<1>6. CASE ~Covered
  <2>1. pst.n = Len(sto) /\ pending = 0 /\ \A j \in 1 .. Len(sto) : j < pst.i => Linked(sto[j])
    BY <1>0, <1>1, <1>6 DEF SaveOK, RoundOK, Covered
  <2>2. pst.i \in 1 .. Len(sto) /\ InSlot(pst.i) = {pst.i}
    <3>1. pst.i \in Nat \ {0}
      BY <1>0 DEF PersistRec
    <3>2. pst.i \in 1 .. Len(sto) /\ pst.i <= Len(sto)
      BY <1>0, <1>1, <2>1, <3>1
    <3> QED
      BY <2>1, <3>2 DEF InSlot
  <2>3. sto' = IF Present(sto[pst.i].key) THEN [sto EXCEPT ![pst.i].usage = Live] ELSE sto
    <3>1. PICK j \in InSlot(pst.i) :
            sto' = IF j > 0 /\ Present(sto[j].key) THEN [sto EXCEPT ![j].usage = Live] ELSE sto
      BY DEF PersistLink
    <3>2. j = pst.i /\ j > 0
      BY <2>2, <3>1
    <3> QED
      BY <3>1, <3>2
  <2>4. Len(sto') = Len(sto)
    BY <2>2, <2>3, LinkType
  <2>5. ASSUME NEW j \in 1 .. Len(sto), j < pst.i + 1
        PROVE  Linked(sto[j])'
    <3>1. sto[j] \in StoRec
      BY <1>0, ElementOfSeq
    <3>2. CASE j = pst.i /\ Present(sto[j].key)
      <4>1. sto'[j] = [sto[j] EXCEPT !.usage = Live]
        BY <1>0, <2>2, <2>3, <3>2
      <4> QED
        BY <3>1, <4>1 DEF Linked, StoRec
    <3>3. CASE j = pst.i /\ ~Present(sto[j].key)
      BY <1>1, <2>3, <3>3 DEF Linked, Present
    <3>4. CASE j # pst.i
      <4>1. sto'[j] = sto[j] /\ j < pst.i
        BY <1>0, <2>2, <2>3, <2>5, <3>4 DEF PersistRec
      <4> QED
        BY <1>1, <2>1, <4>1 DEF Linked, Present
    <3> QED
      BY <3>2, <3>3, <3>4
  <2>6. RoundOK'
    BY <1>2, <2>1, <2>4, <2>5 DEF RoundOK
  <2> QED
    BY <1>1, <1>4, <2>6 DEF SaveOK
<1> QED
  BY <1>5, <1>6

\* What the encoder copies is what a save of this instant would write.
LEMMA LinkedImage ==
  ASSUME NEW rec \in StoRec, Linked(rec), bytesUsage \in [Key -> Usage]
  PROVE  ImageOf(rec) = Saved(rec)
<1> DEFINE s == Saved(rec)
<1>1. s.usage = IF rec.usage = Live THEN bytesUsage[rec.key]
                ELSE IF rec.usage = Nil THEN NoUsage ELSE rec.usage
  BY DEF Saved
<1>2. s = [key |-> s.key, limit |-> s.limit, usage |-> s.usage]
  BY DEF Saved
<1>3. ImageOf(rec) = [s EXCEPT !.usage = IF Present(rec.key) THEN bytesUsage[rec.key] ELSE s.usage]
  BY DEF ImageOf
<1>4. (IF Present(rec.key) THEN bytesUsage[rec.key] ELSE s.usage) = s.usage
  BY <1>1 DEF Linked
<1> HIDE DEF s
<1>5. [s EXCEPT !.usage = s.usage] = s
  BY <1>2
<1> QED
  BY <1>3, <1>4, <1>5 DEF s

LEMMA EncodeSave ==
  ASSUME TypeOK, SaveOK, PersistEncode
  PROVE  SaveOK'
<1>0. /\ sto \in Seq(StoRec) /\ DOMAIN sto = 1 .. Len(sto) /\ Len(sto) \in Nat
      /\ pst \in PersistRec /\ pst.buf \in Seq(FileRec) /\ Len(pst.buf) \in Nat
      /\ DOMAIN pst.buf = 1 .. Len(pst.buf)
  BY LenProperties DEF TypeOK, PersistRec
<1> DEFINE m == Len(pst.buf)
           new == Saved(sto[m + 1])
<1>1. /\ pst.pc = "encode" /\ m < Len(sto)
      /\ pst' = [pst EXCEPT !.buf = Append(pst.buf, new)]
      /\ UNCHANGED <<server, sto, keys, bytesUsage, pending, lock, file, con, failed>>
  BY DEF PersistEncode, store
<1>2. sto[m + 1] \in StoRec /\ m + 1 \in 1 .. Len(sto)
  BY <1>0, <1>1, ElementOfSeq
<1>3. new \in FileRec /\ new.limit = SavedLimit(sto[m + 1].limit)
  BY <1>2, SavedType DEF Saved
<1> HIDE DEF new
<1>4. pst'.pc = "encode" /\ pst'.n = pst.n /\ pst'.buf = Append(pst.buf, new)
  BY <1>0, <1>1 DEF PersistRec
<1>5. /\ Len(pst'.buf) = m + 1 /\ DOMAIN pst'.buf = 1 .. m + 1
      /\ pst'.buf[m + 1] = new
      /\ \A j \in 1 .. m : pst'.buf[j] = pst.buf[j]
  BY <1>0, <1>3, <1>4, AppendProperties, LenProperties
<1>6. Reloadable(pst'.buf)
  <2>1. SavedLimit(new.limit) = new.limit
    BY <1>2, <1>3, SavedTwice DEF StoRec
  <2>2. \A j \in 1 .. m : SavedLimit(pst.buf[j].limit) = pst.buf[j].limit
    BY <1>0 DEF SaveOK, Reloadable
  <2>3. \A j \in 1 .. m + 1 : j \in 1 .. m \/ j = m + 1
    BY <1>0
  <2> QED
    BY <1>5, <2>1, <2>2, <2>3 DEF Reloadable
<1>7. Covered' = Covered /\ Image' = Image
  BY <1>1, ImageFrame DEF Covered
<1>8. CASE Covered
  BY <1>1, <1>6, <1>7, <1>8 DEF SaveOK, RoundOK
<1>9. CASE ~Covered
  <2>1. /\ pst.n = Len(sto)
        /\ \A j \in 1 .. Len(sto) : Linked(sto[j])
        /\ \A j \in 1 .. m : pst.buf[j] = Image[j]
    BY <1>1, <1>9 DEF SaveOK, RoundOK
  <2>2. new = Image[m + 1]
    BY <1>0, <1>2, <2>1, LinkedImage DEF Image, TypeOK, new
  <2>3. \A j \in 1 .. m + 1 : pst'.buf[j] = Image'[j]
    <3>1. \A j \in 1 .. m + 1 : j \in 1 .. m \/ j = m + 1
      BY <1>0
    <3> QED
      BY <1>5, <1>7, <2>1, <2>2, <3>1
  <2>4. \A j \in 1 .. Len(sto) : Linked(sto[j])'
    BY <1>1, <2>1 DEF Linked, Present
  <2>5. RoundOK'
    BY <1>0, <1>1, <1>2, <1>4, <1>5, <2>1, <2>3, <2>4 DEF RoundOK
  <2> QED
    BY <1>1, <1>6, <2>5 DEF SaveOK
<1> QED
  BY <1>8, <1>9

LEMMA PersistSave ==
  ASSUME TypeOK, ControlOK, SaveOK, PersistStep
  PROVE  SaveOK'
<1>0. /\ sto \in Seq(StoRec) /\ DOMAIN sto = 1 .. Len(sto) /\ Len(sto) \in Nat
      /\ pst \in PersistRec /\ pst.buf \in Seq(FileRec) /\ pending \in Nat
  BY DEF TypeOK, PersistRec
<1>1. CASE PersistPanic
  BY <1>1, DieSave DEF PersistPanic
<1>2. CASE PersistWake \/ PersistReset
  <2>1. /\ pst'.pc \in {"reset", "open"} /\ pst'.buf = pst.buf
        /\ UNCHANGED <<lock, file>> /\ (lock # Free => pending' = pending)
    BY <1>0, <1>2 DEF PersistWake, PersistReset, LockFree, PersistRec
  <2> QED
    BY <2>1 DEF SaveOK, RoundOK
<1>3. CASE PersistOpen
  <2>1. /\ pst'.pc = "link" /\ pst'.i = 1 /\ pst'.n = Len(sto) /\ pst'.buf = pst.buf
        /\ file' = Damaged /\ UNCHANGED <<sto, lock, pending>>
    BY <1>0, <1>3 DEF PersistOpen, PersistRec, store
  <2>2. RoundOK'
    BY <1>0, <2>1 DEF RoundOK
  <2> QED
    BY <2>1, <2>2 DEF SaveOK
<1>4. CASE PersistOpenFails \/ PersistWriteFails
  <2>1. /\ pst'.pc = "asleep" /\ pst'.buf = <<>> /\ failed'
        /\ UNCHANGED <<lock, pending, file>>
    BY <1>4 DEF PersistOpenFails, PersistWriteFails, IdlePersist
  <2> QED
    BY <2>1, EmptyKeys DEF SaveOK, RoundOK
<1>5. CASE PersistLink
  BY <1>5, LinkSave
<1>6. CASE PersistBegin
  <2>1. /\ pst.pc = "link" /\ pst.i > pst.n
        /\ pst'.pc = "encode" /\ pst'.n = Len(sto) /\ pst'.buf = <<>>
        /\ UNCHANGED <<server, keys, bytesUsage, sto, lock, pending, con, file>>
    BY <1>0, <1>6 DEF PersistBegin, PersistRec, store
  <2>2. RoundOK'
    <3>1. CASE Covered
      BY <2>1, <3>1 DEF RoundOK, Covered
    <3>2. CASE ~Covered
      <4>1. pst.n = Len(sto) /\ \A j \in 1 .. Len(sto) : j < pst.i => Linked(sto[j])
        BY <2>1, <3>2 DEF SaveOK, RoundOK
      <4>2. \A j \in 1 .. Len(sto) : Linked(sto[j])'
        BY <1>0, <2>1, <4>1 DEF Linked, Present, PersistRec
      <4> QED
        BY <1>0, <2>1, <4>2 DEF RoundOK
    <3> QED
      BY <3>1, <3>2
  <2> QED
    BY <2>1, <2>2, EmptyKeys DEF SaveOK
<1>7. CASE PersistEncode
  BY <1>7, EncodeSave
<1>8. CASE PersistWrite
  <2>1. /\ pst.pc = "encode" /\ Len(pst.buf) = pst.n /\ file' = pst.buf
        /\ pst'.pc = "asleep" /\ pst'.buf = <<>>
        /\ UNCHANGED <<server, keys, bytesUsage, sto, lock, pending, con>>
    BY <1>8 DEF PersistWrite, IdlePersist, store
  <2>2. RoundOK'
    <3>1. CASE Covered
      BY <2>1, <3>1 DEF RoundOK, Covered
    <3>2. CASE ~Covered
      <4>1. Len(pst.buf) = Len(sto) /\ \A j \in 1 .. Len(pst.buf) : pst.buf[j] = Image[j]
        BY <2>1, <3>2 DEF SaveOK, RoundOK
      <4>2. pst.buf = [j \in 1 .. Len(pst.buf) |-> pst.buf[j]]
        BY <1>0, LenProperties
      <4>3. Image = [j \in 1 .. Len(sto) |-> Image[j]]
        BY <1>0 DEF Image
      <4>4. pst.buf = Image
        BY <4>1, <4>2, <4>3
      <4>5. Image' = Image
        BY <2>1, ImageFrame
      <4> QED
        BY <2>1, <4>4, <4>5 DEF RoundOK
    <3> QED
      BY <3>1, <3>2
  <2> QED
    BY <2>1, <2>2, EmptyKeys DEF SaveOK
<1> QED
  BY <1>1, <1>2, <1>3, <1>4, <1>5, <1>6, <1>7, <1>8 DEF PersistStep

\* ... and by Check, which writes nothing.
LEMMA CheckSave ==
  ASSUME TypeOK, SaveOK, NEW s \in Stream, CheckStep(s)
  PROVE  SaveOK'
<1>1. CASE CheckFault(s)
  BY <1>1, DieSave DEF CheckFault
<1>2. CASE CheckBegin(s) \/ CheckLists(s)
  <2>1. UNCHANGED <<server, store, pending, lock, file, pst, con, failed>>
    BY <1>2 DEF CheckBegin, CheckLists
  <2> QED
    BY <2>1, SaveFrame DEF store, Covered, SaveOK
<1> QED
  BY <1>1, <1>2 DEF CheckStep

LEMMA StepSave == ASSUME ACLInv, [Next]_vars PROVE SaveOK'
<1>1. CASE UNCHANGED vars
  BY <1>1, SaveFrame DEF vars, store, Covered, SaveOK, ACLInv
<1> QED
  BY <1>1, LifeCycleSave, RequestSave, AdminStepSave, ConsumerSave, PersistSave, CheckSave
     DEF Next, ACLInv

-----------------------------------------------------------------------------
LEMMA InitACL == Init => ACLInv
<1> SUFFICES ASSUME Init
             PROVE  ACLInv
  OBVIOUS
<1>1. TypeOK /\ ControlOK
  BY InitType DEF Init, ControlOK, Up, IdleAdmin, IdleConsumer, IdlePersist
<1>2. KeysOK
  <2>1. KeysOf(sto) = {} /\ KeysOf(pst.buf) = {} /\ \A t \in Admin : adm[t].pc = "idle"
    BY EmptyKeys DEF Init, IdlePersist, IdleAdmin
  <2>2. file \in {Missing, Damaged} \/ KeysOf(file) \subseteq used
    BY DEF Init
  <2> QED
    BY <2>1, <2>2 DEF KeysOK
<1>3. SaveOK
  <2>1. file \in {Missing, Damaged} \/ Reloadable(file)
    BY FileAssumption DEF Init, Reloadable
  <2>2. lock = Free /\ Reloadable(pst.buf) /\ pst.pc = "asleep" /\ ~Up
    BY EmptyKeys DEF Init, IdlePersist, Up
  <2> QED
    BY <2>1, <2>2 DEF SaveOK, RoundOK
<1> QED
  BY <1>1, <1>2, <1>3 DEF ACLInv

LEMMA StepACL == ACLInv /\ [Next]_vars => ACLInv'
BY StepType, StepControl, StepKeys, StepSave DEF ACLInv

LEMMA Inductive == Spec => []ACLInv
BY InitACL, StepACL, PTL DEF Spec

\* No change to the store is forgotten by the persist loop, which clears the
\* counter before it reads a store that others write without the mutex
\* (acl.go:344-356).
THEOREM ChangesCovered == Spec => []PendingCoversChanges
<1>1. ACLInv => PendingCoversChanges
  BY DEF ACLInv, SaveOK, RoundOK, PendingCoversChanges, Settled
<1> QED
  BY <1>1, Inductive, PTL

\* Unless the store changes during the save, the encoder copies one state of
\* it, in step with its length (acl.go:333-340).
THEOREM EncoderCopies == Spec => []EncoderInStep
<1>1. ACLInv => EncoderInStep
  <2> SUFFICES ASSUME ACLInv, pst.pc = "encode", ~Covered
               PROVE  pst.n = Len(sto) /\ pst.buf = SubSeq(Image, 1, Len(pst.buf))
    BY DEF EncoderInStep
  <2>1. /\ pst.n = Len(sto) /\ Len(pst.buf) <= Len(sto)
        /\ \A j \in 1 .. Len(pst.buf) : pst.buf[j] = Image[j]
    BY DEF ACLInv, SaveOK, RoundOK
  <2>2. pst.buf \in Seq(FileRec) /\ sto \in Seq(StoRec)
    BY DEF ACLInv, TypeOK, PersistRec
  <2>3. pst.buf = [j \in 1 .. Len(pst.buf) |-> pst.buf[j]]
    BY <2>2, LenProperties
  <2>4. SubSeq(Image, 1, Len(pst.buf)) = [j \in 1 .. Len(pst.buf) |-> Image[j]]
    BY <2>2
  <2> QED
    BY <2>1, <2>3, <2>4
<1> QED
  BY <1>1, Inductive, PTL

-----------------------------------------------------------------------------
\* The refinement.  What the abstract store needs besides: whoever is about to
\* write the file finds it erased.
Erased == server = "creating" \/ pst.pc \in {"link", "encode"} => file = Damaged

LEMMA StepErased == ASSUME TypeOK, ControlOK, Erased, [Next]_vars PROVE Erased'
<1> USE DEF Erased
<1>1. CASE UNCHANGED vars
  BY <1>1 DEF vars
<1>2. CASE Start \/ StartCreate \/ FinishCreate
  <2>1. pst' = pst /\ pst.pc = "asleep" /\ (server' = "up" \/ file' = Damaged)
    BY <1>2 DEF Start, StartCreate, FinishCreate, Load, ControlOK, Up
  <2> QED
    BY <2>1
<1>3. ASSUME Die PROVE Erased'
  BY <1>3 DEF Die, Volatile0, IdlePersist
<1>4. ASSUME NEW t \in Admin, AdminRequest(t) \/ AdminStep(t) PROVE Erased'
  <2>1. UNCHANGED <<server, pst, file>>
    BY <1>4 DEF AdminRequest, AdminStep, NewKeyBegin, NewKeyInsert, NewKeyAppend,
                DelKeyStart, DelKeyShift, DelKeyCut, DelKeyEnd, SetLimit, DelUsage
  <2> QED
    BY <2>1
<1>5. CASE CountIn \/ ConsumerStep
  BY <1>5 DEF CountIn, ConsumerStep, CountOut, CountPending
<1>6. CASE PersistStep /\ ~PersistPanic
  <2>1. Up /\ UNCHANGED server /\ pst \in PersistRec
    BY <1>6 DEF PersistStep, PersistWake, PersistReset, PersistOpen, PersistOpenFails,
                PersistLink, PersistBegin, PersistEncode, PersistWrite, PersistWriteFails,
                ControlOK, TypeOK
  <2>2. pst'.pc \in {"link", "encode"} =>
          file' = Damaged \/ (file' = file /\ pst.pc \in {"link", "encode"})
    <3>1. CASE PersistOpen
      BY <3>1 DEF PersistOpen
    <3>2. CASE PersistWake \/ PersistReset
      BY <2>1, <3>2 DEF PersistWake, PersistReset, PersistRec
    <3>3. CASE PersistOpenFails \/ PersistWrite \/ PersistWriteFails
      BY <3>3 DEF PersistOpenFails, PersistWrite, PersistWriteFails, IdlePersist
    <3>4. CASE PersistLink \/ PersistBegin \/ PersistEncode
      BY <3>4 DEF PersistLink, PersistBegin, PersistEncode
    <3> QED
      BY <1>6, <3>1, <3>2, <3>3, <3>4 DEF PersistStep
  <2> QED
    BY <2>1, <2>2 DEF Up
<1>7. ASSUME NEW s \in Stream, CheckBegin(s) \/ CheckLists(s) PROVE Erased'
  BY <1>7 DEF CheckBegin, CheckLists
<1> QED
  BY <1>1, <1>2, <1>3, <1>4, <1>5, <1>6, <1>7
     DEF Next, Crash, PersistStep, PersistPanic, CheckStep, CheckFault

\* ... and no stream is under way in a process that is not up.
Quiet == ~Up => \A s \in Stream : chk[s].pc # "lists"

LEMMA StepQuiet == ASSUME TypeOK, ControlOK, Quiet, [Next]_vars PROVE Quiet'
<1> USE DEF Quiet, Up
<1>1. CASE UNCHANGED vars
  BY <1>1 DEF vars
<1>2. CASE Start \/ StartCreate \/ FinishCreate
  BY <1>2 DEF Start, StartCreate, FinishCreate, Load
<1>3. ASSUME Die PROVE Quiet'
  BY <1>3 DEF Die, Volatile0, IdleStream
<1>4. ASSUME NEW t \in Admin, AdminRequest(t) \/ AdminStep(t) PROVE Quiet'
  <2>1. UNCHANGED <<server, chk>>
    BY <1>4 DEF AdminRequest, AdminStep, NewKeyBegin, NewKeyInsert, NewKeyAppend,
                DelKeyStart, DelKeyShift, DelKeyCut, DelKeyEnd, SetLimit, DelUsage
  <2> QED
    BY <2>1
<1>5. CASE CountIn \/ ConsumerStep
  BY <1>5 DEF CountIn, ConsumerStep, CountOut, CountPending
<1>6. CASE PersistStep /\ ~PersistPanic
  <2>1. UNCHANGED <<server, chk>>
    BY <1>6 DEF PersistStep, PersistWake, PersistReset, PersistOpen, PersistOpenFails,
                PersistLink, PersistBegin, PersistEncode, PersistWrite, PersistWriteFails
  <2> QED
    BY <2>1
<1>7. ASSUME NEW s \in Stream, CheckBegin(s) \/ CheckLists(s) PROVE Quiet'
  <2>1. CASE CheckBegin(s)
    BY <2>1 DEF CheckBegin
  <2>2. CASE CheckLists(s)
    BY <2>2 DEF CheckLists
  <2> QED
    BY <1>7, <2>1, <2>2
<1> QED
  BY <1>1, <1>2, <1>3, <1>4, <1>5, <1>6, <1>7
     DEF Next, Crash, PersistStep, PersistPanic, CheckStep, CheckFault

Owing == Up /\ (Covered \/ pst.pc # "asleep" \/ failed \/ ~NoDup(sto))

LEMMA PromiseInit == Init => Promise!Init
<1> SUFFICES ASSUME Init
             PROVE  Promise!Init
  OBVIOUS
<1>1. Image = <<>> /\ ~Up
  BY DEF Init, Image, Up
<1>2. file \in Seq(FileRec) \cup {Missing}
  BY ACLAssumption DEF Init
<1> QED
  BY <1>1, <1>2 DEF Promise!Init, Init

LEMMA ImageType == TypeOK => Image \in Seq(FileRec)
<1> SUFFICES ASSUME TypeOK
             PROVE  Image \in Seq(FileRec)
  OBVIOUS
<1>1. sto \in Seq(StoRec) /\ DOMAIN sto = 1 .. Len(sto) /\ Len(sto) \in Nat
  BY DEF TypeOK
<1>2. ASSUME NEW i \in 1 .. Len(sto)
      PROVE  Image[i] \in FileRec
  <2>1. sto[i] \in StoRec
    BY <1>1, ElementOfSeq
  <2>2. Saved(sto[i]) \in FileRec /\ Saved(sto[i]).key = sto[i].key
    BY <2>1, SavedType DEF Saved
  <2> DEFINE s == Saved(sto[i])
  <2>3. ImageOf(sto[i]) = [s EXCEPT !.usage = IF Present(sto[i].key) THEN bytesUsage[sto[i].key] ELSE s.usage]
    BY DEF ImageOf
  <2>4. (IF Present(sto[i].key) THEN bytesUsage[sto[i].key] ELSE s.usage) \in Usage
    BY <2>1, <2>2 DEF TypeOK, StoRec, FileRec
  <2> HIDE DEF s
  <2>5. s \in FileRec
    BY <2>2 DEF s
  <2>6. \A u \in Usage : [s EXCEPT !.usage = u] \in FileRec
    BY <2>5 DEF FileRec
  <2> QED
    BY <1>1, <2>3, <2>4, <2>6 DEF Image
<1>3. Image \in [1 .. Len(sto) -> FileRec]
  BY <1>1, <1>2 DEF Image
<1> QED
  BY <1>1, <1>3, MakeSeq

LEMMA NextImageType == TypeOK' => Image' \in Seq(FileRec)
<1>1. (TypeOK => Image \in Seq(FileRec))'
  BY ImageType, PTL
<1> QED
  BY <1>1

LEMMA NotOwing == ASSUME ACLInv', Up', ~Owing' PROVE file' = Image'
BY DEF ACLInv, SaveOK, RoundOK, Owing

\* Steps the abstract store does not see.
LEMMA Unseen ==
  ASSUME UNCHANGED <<server, sto, file>>, Image' = Image, Owing' = Owing
  PROVE  UNCHANGED Promise!vars
BY DEF Promise!vars, Owing

\* Steps of a server that is up after which a save is due.
LEMMA Changes ==
  ASSUME TypeOK', Up, UNCHANGED <<server, file>>, Covered'
  PROVE  Promise!Change
BY NextImageType DEF Promise!Change, Up

LEMMA Ends == ASSUME Die, server # "down" PROVE Promise!End
<1>1. Image' = <<>> /\ ~Up' /\ server' = "down" /\ file' = file
  BY DEF Die, Volatile0, Image, Up
<1> QED
  BY <1>1 DEF Promise!End, Up

\* One lemma per group of actions: what the abstract store does meanwhile.
LEMMA LifeCyclePromise ==
  ASSUME ACLInv, Erased, ACLInv', Start \/ StartCreate \/ FinishCreate \/ Crash
  PROVE  Promise!Next
<1>1. CASE Crash
  BY <1>1, Ends DEF Crash, Promise!Next
<1>2. CASE StartCreate
  <2>1. /\ server = "down" /\ server' = "creating" /\ file = Missing /\ file' = Damaged
        /\ UNCHANGED store
    BY <1>2 DEF StartCreate
  <2>2. Image' = Image
    BY <2>1, ImageFrame DEF store
  <2>3. ~Up /\ ~Up'
    BY <2>1 DEF Up
  <2>4. Promise!Create
    BY <2>1, <2>2, <2>3 DEF Promise!Create
  <2> QED
    BY <2>4 DEF Promise!Next
<1>3. CASE Start
  <2>1. PICK bare : Load(file, bare)
    BY <1>3 DEF Start
  <2>2. file \in Seq(FileRec) /\ Reloadable(file) /\ server = "down" /\ file' = file
    BY <1>3 DEF Start, ACLInv, TypeOK, SaveOK
  <2>3. Image' = Restored(file) /\ server' = "up"
    BY <2>1, <2>2, LoadRestores DEF Load
  <2>4. ~Owing' => file' = Image'
    BY <2>3, NotOwing DEF Up
  <2>5. Promise!Start
    BY <2>2, <2>3, <2>4 DEF Promise!Start, Promise!InStep, Owing
  <2> QED
    BY <2>5 DEF Promise!Next
<1>4. CASE FinishCreate
  <2>1. PICK k \in Key, written \in BOOLEAN :
          /\ file' = IF written THEN DefaultFile(k) ELSE file
          /\ Load(DefaultFile(k), {1})
    BY <1>4 DEF FinishCreate
  <2>2. server = "creating" /\ file = Damaged
    BY <1>4 DEF FinishCreate, Erased
  <2>3. DefaultFile(k) \in Seq(FileRec) /\ Reloadable(DefaultFile(k)) /\ NoDup(DefaultFile(k))
    <3>1. DOMAIN DefaultFile(k) = {1}
      BY DEF DefaultFile
    <3> QED
      BY <3>1, DefaultKeys DEF NoDup
  <2>4. Image' = DefaultFile(k) /\ server' = "up"
    BY <2>1, <2>3, LoadImage DEF Load
  <2>5. ~Owing' => file' = Image'
    BY <2>4, NotOwing DEF Up
  <2>6. Promise!Created
    BY <2>1, <2>2, <2>3, <2>4, <2>5 DEF Promise!Created, Promise!InStep, Owing
  <2> QED
    BY <2>6 DEF Promise!Next
<1> QED
  BY <1>1, <1>2, <1>3, <1>4

LEMMA RequestPromise ==
  ASSUME ACLInv, TypeOK', NEW t \in Admin, AdminRequest(t)
  PROVE  Promise!Next \/ UNCHANGED Promise!vars
<1>1. CASE NewKeyBegin(t)
  <2>1. UNCHANGED <<server, store, pending, file, pst, con, failed>>
    BY <1>1 DEF NewKeyBegin
  <2>2. Image' = Image /\ Owing' = Owing
    BY <2>1, ImageFrame DEF store, Owing, Covered, Up
  <2> QED
    BY <2>1, <2>2, Unseen DEF store
<1>2. CASE DelKeyStart(t) \/ SetLimit(t) \/ DelUsage(t)
  <2>1. Up /\ pending' = pending + 1 /\ UNCHANGED <<server, file>>
    BY <1>2 DEF DelKeyStart, SetLimit, DelUsage, Request
  <2>2. Covered'
    BY <2>1 DEF Covered, ACLInv, TypeOK
  <2> QED
    BY <2>1, <2>2, Changes DEF Promise!Next
<1> QED
  BY <1>1, <1>2 DEF AdminRequest

LEMMA AdminStepPromise ==
  ASSUME ACLInv, TypeOK', NEW t \in Admin, AdminStep(t)
  PROVE  Promise!Next \/ UNCHANGED Promise!vars
<1>0. Up
  BY DEF AdminStep, NewKeyInsert, NewKeyAppend, DelKeyShift, DelKeyCut, DelKeyEnd, ACLInv, ControlOK
<1>1. CASE NewKeyInsert(t)
  <2>1. /\ UNCHANGED <<server, sto, pending, file, pst, con, failed>>
        /\ keys' = [keys EXCEPT ![adm[t].key] = FreshEntry] \/ keys' = keys
        /\ bytesUsage' = [bytesUsage EXCEPT ![adm[t].key] = NoUsage]
    BY <1>1 DEF NewKeyInsert, MapWrite
  <2>2. adm[t].key \notin KeysOf(sto)
    BY <1>1 DEF NewKeyInsert, ACLInv, KeysOK
  <2>3. \A i \in DOMAIN sto : sto[i].key # adm[t].key /\ sto[i].key \in Key
    BY <2>2, KeysType DEF KeysOf, ACLInv, TypeOK
  <2>4. \A i \in DOMAIN sto : /\ keys'[sto[i].key] = keys[sto[i].key]
                              /\ bytesUsage'[sto[i].key] = bytesUsage[sto[i].key]
    BY <2>1, <2>3 DEF ACLInv, TypeOK
  <2>5. Image' = Image /\ Owing' = Owing
    BY <2>1, <2>4, ImageFrame DEF Owing, Covered, Up
  <2> QED
    BY <2>1, <2>5, Unseen
<1>2. CASE NewKeyAppend(t)
  <2>1. pending' = pending + 1 /\ UNCHANGED <<server, file>>
    BY <1>2 DEF NewKeyAppend
  <2>2. Covered'
    BY <2>1 DEF Covered, ACLInv, TypeOK
  <2> QED
    BY <1>0, <2>1, <2>2, Changes DEF Promise!Next
<1>3. CASE DelKeyShift(t) \/ DelKeyCut(t)
  <2>1. lock # Free
    BY <1>3, ValueAssumption DEF DelKeyShift, DelKeyCut, ACLInv, ControlOK
  <2>2. pending' > 0 /\ UNCHANGED <<server, file>>
    BY <1>3, <2>1 DEF DelKeyShift, DelKeyCut, ACLInv, SaveOK
  <2> QED
    BY <1>0, <2>2, Changes DEF Promise!Next, Covered
<1>4. CASE DelKeyEnd(t)
  <2>1. UNCHANGED <<server, store, pending, file, pst, con, failed>>
    BY <1>4 DEF DelKeyEnd
  <2>2. Image' = Image /\ Owing' = Owing
    BY <2>1, ImageFrame DEF store, Owing, Covered, Up
  <2> QED
    BY <2>1, <2>2, Unseen DEF store
<1> QED
  BY <1>1, <1>2, <1>3, <1>4 DEF AdminStep

LEMMA ConsumerPromise ==
  ASSUME ACLInv, TypeOK', CountIn \/ ConsumerStep
  PROVE  Promise!Next
<1>1. Up /\ UNCHANGED <<server, file>>
  BY DEF CountIn, ConsumerStep, CountOut, CountPending, ACLInv, ControlOK
<1>2. Covered'
  <2>1. CASE CountIn
    BY <2>1 DEF CountIn, Covered
  <2>2. CASE CountOut
    <3>1. con' = [con EXCEPT !.pc = "bump"] /\ con \in ConsumerRec
      BY <2>2 DEF CountOut, ACLInv, TypeOK
    <3> QED
      BY <3>1 DEF Covered, ConsumerRec
  <2>3. CASE CountPending
    BY <2>3 DEF CountPending, Covered, ACLInv, TypeOK
  <2> QED
    BY <2>1, <2>2, <2>3 DEF ConsumerStep
<1> QED
  BY <1>1, <1>2, Changes DEF Promise!Next

\* Linking a record changes nothing a save would write: the entry's usage is
\* written either way.
LEMMA LinkImage ==
  ASSUME TypeOK, PersistLink
  PROVE  Image' = Image
<1>1. /\ sto \in Seq(StoRec) /\ DOMAIN sto = 1 .. Len(sto) /\ Len(sto) \in Nat
      /\ keys' = keys /\ bytesUsage' = bytesUsage
  BY DEF TypeOK, PersistLink
<1>2. PICK j \in InSlot(pst.i) :
        sto' = IF j > 0 /\ Present(sto[j].key) THEN [sto EXCEPT ![j].usage = Live] ELSE sto
  BY DEF PersistLink
<1>3. DOMAIN sto' = DOMAIN sto
  BY <1>2
<1>4. ASSUME NEW i \in DOMAIN sto
      PROVE  ImageOf(sto[i])' = ImageOf(sto[i])
  <2>1. CASE sto'[i] = sto[i]
    BY <1>1, <2>1 DEF ImageOf, Saved, Present
  <2>2. CASE sto'[i] # sto[i]
    <3>1. sto[i] \in StoRec
      BY <1>1, ElementOfSeq
    <3>2. sto'[i] = [sto[i] EXCEPT !.usage = Live] /\ Present(sto[i].key)
      BY <1>1, <1>2, <2>2
    <3>3. sto'[i].key = sto[i].key /\ sto'[i].limit = sto[i].limit
      BY <3>1, <3>2 DEF StoRec
    <3> DEFINE s == Saved(sto[i])
               z == Saved(sto[i])'
    <3>4. ImageOf(sto[i]) = [s EXCEPT !.usage = bytesUsage[sto[i].key]]
      BY <3>2 DEF ImageOf
    <3>5. ImageOf(sto[i])' = [z EXCEPT !.usage = bytesUsage[sto[i].key]]
      BY <1>1, <3>2, <3>3 DEF ImageOf, Present
    <3>6. /\ s = [key |-> s.key, limit |-> s.limit, usage |-> s.usage]
          /\ z = [key |-> z.key, limit |-> z.limit, usage |-> z.usage]
          /\ s.key = z.key /\ s.limit = z.limit
      BY <3>3 DEF Saved
    <3> HIDE DEF s, z
    <3>7. \A u : [s EXCEPT !.usage = u] = [z EXCEPT !.usage = u]
      BY <3>6
    <3> QED
      BY <3>4, <3>5, <3>7
  <2> QED
    BY <2>1, <2>2
<1> QED
  BY <1>3, <1>4 DEF Image

LEMMA PersistPromise ==
  ASSUME ACLInv, Erased, ACLInv', PersistStep
  PROVE  Promise!Next \/ UNCHANGED Promise!vars
<1>0. /\ sto \in Seq(StoRec) /\ pst \in PersistRec /\ pst.buf \in Seq(FileRec)
      /\ TypeOK /\ TypeOK'
  BY DEF ACLInv, TypeOK, PersistRec
<1>1. CASE PersistPanic
  <2>1. server # "down"
    BY <1>1 DEF PersistPanic, ACLInv, ControlOK, Up
  <2> QED
    BY <1>1, <2>1, Ends DEF PersistPanic, Promise!Next
<1>2. CASE PersistWake \/ PersistReset
  <2>1. /\ UNCHANGED <<server, store, con, file, failed>>
        /\ pst'.pc # "asleep" /\ (pst.pc # "asleep" \/ pending > 0)
    BY <1>0, <1>2 DEF PersistWake, PersistReset, PersistRec
  <2>2. Image' = Image /\ Owing' = Owing
    BY <2>1, ImageFrame DEF store, Owing, Covered, Up
  <2> QED
    BY <2>1, <2>2, Unseen DEF store
<1>3. CASE PersistOpen
  <2>1. /\ UNCHANGED <<server, store>> /\ file' = Damaged
        /\ pst.pc # "asleep" /\ pst'.pc # "asleep"
    BY <1>0, <1>3 DEF PersistOpen, PersistRec
  <2>2. Image' = Image /\ Up /\ Up'
    BY <2>1, ImageFrame DEF store, ACLInv, ControlOK, Up
  <2>3. Promise!Erase
    BY <2>1, <2>2 DEF Promise!Erase, Up
  <2> QED
    BY <2>3 DEF Promise!Next
<1>4. CASE PersistOpenFails \/ PersistWriteFails
  <2>1. /\ UNCHANGED <<server, store, file>> /\ pst.pc # "asleep" /\ failed'
    BY <1>4 DEF PersistOpenFails, PersistWriteFails
  <2>2. Image' = Image /\ Owing' = Owing
    BY <2>1, ImageFrame DEF store, Owing, Up
  <2> QED
    BY <2>1, <2>2, Unseen DEF store
<1>5. CASE PersistLink \/ PersistBegin \/ PersistEncode
  <2>1. /\ UNCHANGED <<server, file>> /\ pst.pc # "asleep" /\ pst'.pc # "asleep"
    BY <1>0, <1>5 DEF PersistLink, PersistBegin, PersistEncode, PersistRec
  <2>2. Image' = Image
    <3>1. CASE PersistLink
      BY <1>0, <3>1, LinkImage
    <3>2. CASE PersistBegin \/ PersistEncode
      BY <3>2, ImageFrame DEF PersistBegin, PersistEncode, store
    <3> QED
      BY <1>5, <3>1, <3>2
  <2>3. Owing' = Owing
    BY <2>1 DEF Owing, Up
  <2> QED
    BY <2>1, <2>2, <2>3 DEF Promise!vars, Owing
<1>6. CASE PersistWrite
  <2>1. /\ pst.pc = "encode" /\ file' = pst.buf /\ UNCHANGED <<server, store>>
    BY <1>6 DEF PersistWrite
  <2>2. Image' = Image /\ Up /\ Up' /\ file = Damaged
    BY <2>1, ImageFrame DEF store, ACLInv, ControlOK, Up, Erased
  <2>3. ~Owing' => file' = Image'
    BY <2>2, NotOwing
  <2>4. Promise!Save
    BY <1>0, <2>1, <2>2, <2>3 DEF Promise!Save, Promise!InStep, Owing, Up
  <2> QED
    BY <2>4 DEF Promise!Next
<1> QED
  BY <1>1, <1>2, <1>3, <1>4, <1>5, <1>6 DEF PersistStep

LEMMA CheckPromise ==
  ASSUME ACLInv, Quiet, NEW s \in Stream, CheckStep(s)
  PROVE  Promise!Next \/ UNCHANGED Promise!vars
<1>1. CASE CheckFault(s)
  <2>1. server # "down"
    BY <1>1 DEF CheckFault, Quiet, Up
  <2> QED
    BY <1>1, <2>1, Ends DEF CheckFault, Promise!Next
<1>2. CASE CheckBegin(s) \/ CheckLists(s)
  <2>1. UNCHANGED <<server, store, pending, file, pst, con, failed>>
    BY <1>2 DEF CheckBegin, CheckLists
  <2>2. Image' = Image /\ Owing' = Owing
    BY <2>1, ImageFrame DEF store, Owing, Covered, Up
  <2> QED
    BY <2>1, <2>2, Unseen DEF store
<1> QED
  BY <1>1, <1>2 DEF CheckStep

LEMMA StepPromise ==
  ASSUME ACLInv, Erased, Quiet, ACLInv', [Next]_vars
  PROVE  Promise!Next \/ UNCHANGED Promise!vars
<1>0. TypeOK'
  BY DEF ACLInv
<1>1. CASE UNCHANGED vars
  <2>1. UNCHANGED <<server, store, pending, file, pst, con, failed>>
    BY <1>1 DEF vars
  <2>2. Image' = Image /\ Owing' = Owing
    BY <2>1, ImageFrame DEF store, Owing, Covered, Up
  <2> QED
    BY <2>1, <2>2, Unseen DEF store
<1> QED
  BY <1>0, <1>1, LifeCyclePromise, RequestPromise, AdminStepPromise, ConsumerPromise,
     PersistPromise, CheckPromise
     DEF Next

\* Whatever the goroutines interleave, the file is touched only by a save that
\* is due, equals the store whenever nothing is owed to it, and is all that a
\* start continues from (NewACL, persist, aclPersistLoop,
\* acl.go:94-135,323-356).
THEOREM StoreImplemented == Spec => FileFollowsStore
<1>1. Init => Erased /\ Quiet
  BY DEF Init, Erased, Quiet, IdlePersist, IdleStream
<1>2. ACLInv /\ Erased /\ Quiet /\ [Next]_vars => Erased' /\ Quiet'
  BY StepErased, StepQuiet DEF ACLInv
<1>3. Spec => [](Erased /\ Quiet)
  BY <1>1, <1>2, Inductive, PTL DEF Spec
<1>4. ACLInv /\ ACLInv' /\ Erased /\ Quiet /\ [Next]_vars => [Promise!Next]_(Promise!vars)
  BY StepPromise
<1> QED
  BY <1>3, <1>4, PromiseInit, Inductive, PTL DEF Spec, FileFollowsStore, Promise!Spec
=============================================================================
