--------------------------- MODULE ACLTableProofs ---------------------------
(***************************************************************************)
(* What becomes of the keys: the table that admits them, the list that is  *)
(* saved and the file agree as long as no data race has had an effect, and *)
(* a deleted key is gone from all three.                                   *)
(***************************************************************************)
EXTENDS ACLSaveProofs

-----------------------------------------------------------------------------
\* Steps that move no key.
LEMMA HeldKeysSame ==
  ASSUME Held' = Held, \A j \in 1 .. Held : sto'[j].key = sto[j].key
  PROVE  HeldKeys' = HeldKeys
BY DEF HeldKeys

LEMMA UniqueFrame ==
  ASSUME UniqueOK, Held' = Held, \A j \in 1 .. Held : sto'[j].key = sto[j].key,
         file' = file \/ file' \in {Missing, Damaged}, pst'.buf = pst.buf,
         pst.pc = "encode" => pst'.pc = "encode",
         KeysOf(pst.buf) \cap BeingMade' = {}
  PROVE  UniqueOK'
BY DEF UniqueOK

LEMMA TableFrame ==
  ASSUME TableOK, HeldKeys' = HeldKeys, adm' = adm,
         \A k \in Key : Present(k)' <=> Present(k)
  PROVE  TableOK'
BY DEF TableOK, Inserted, Removing

LEMMA DeletedFrame ==
  ASSUME DeletedOK, ~raced' => ~raced, deleted' \subseteq deleted, used \subseteq used',
         BeingMade' \cap deleted' = {},
         \A k \in deleted' : Present(k)' => Present(k),
         \A s \in Stream : chk'[s].late => chk'[s] = chk[s]
  PROVE  DeletedOK'
BY DEF DeletedOK

\* Nothing is in progress on the list while the mutex is free.
LEMMA FreeList ==
  ASSUME ControlOK, LockFree
  PROVE  Held = Len(sto) /\ Removing = {} /\ \A t \in Admin : adm[t].pc \notin {"scan", "cut"}
<1>1. \A t \in Admin : adm[t].pc \notin {"scan", "cut"}
  BY ValueAssumption DEF ControlOK, LockFree
<1> QED
  BY <1>1 DEF Held, Removing

\* ... and only the holder of the mutex is at work on it.
LEMMA OwnList ==
  ASSUME ControlOK, NEW t \in Admin, adm[t].pc \in {"scan", "cut"}
  PROVE  /\ \A u \in Admin : adm[u].pc \in {"scan", "cut"} => u = t
         /\ Removing = {adm[t].key}
         /\ Held = IF adm[t].pc = "cut" THEN Len(sto) - 1 ELSE Len(sto)
<1>1. \A u \in Admin : adm[u].pc \in {"scan", "cut"} => u = t
  BY DEF ControlOK
<1> QED
  BY <1>1 DEF Held, Removing

LEMMA HeldRange ==
  ASSUME TypeOK, ControlOK
  PROVE  /\ Len(sto) \in Nat /\ DOMAIN sto = 1 .. Len(sto)
         /\ Held \in Nat /\ Held <= Len(sto) /\ 1 .. Held \subseteq DOMAIN sto
         /\ HeldKeys \subseteq KeysOf(sto)
<1>1. Len(sto) \in Nat /\ DOMAIN sto = 1 .. Len(sto)
  BY DEF TypeOK
<1>2. Held \in Nat /\ Held <= Len(sto)
  BY <1>1 DEF Held, ControlOK
<1>3. 1 .. Held \subseteq DOMAIN sto
  BY <1>1, <1>2
<1> QED
  BY <1>1, <1>2, <1>3 DEF HeldKeys, KeysOf

\* A key being made is nobody else's.
LEMMA MakingApart == ASSUME KeysOK PROVE Inserted \subseteq BeingMade /\ BeingMade \cap KeysOf(sto) = {} /\ BeingMade \subseteq used
BY DEF KeysOK, Inserted, BeingMade

-----------------------------------------------------------------------------
\* Dying and starting.
LEMMA DieTable ==
  ASSUME Die, TypeOK, ControlOK, ~raced => UniqueOK, DeletedOK
  PROVE  (~raced' => UniqueOK' /\ TableOK') /\ DeletedOK'
<1>1. /\ sto' = <<>> /\ pst'.buf = <<>> /\ (\A t \in Admin : adm'[t].pc = "idle")
      /\ (\A k \in Key : ~Present(k)') /\ UNCHANGED <<file, used, deleted, raced>>
      /\ \A s \in Stream : ~chk'[s].late
  BY DEF Die, Volatile0, IdlePersist, IdleAdmin, IdleStream, Present, history
<1>2. Held' = 0 /\ HeldKeys' = {} /\ Inserted' = {} /\ Removing' = {} /\ BeingMade' = {}
  <2>1. Held' = 0
    BY <1>1 DEF Held
  <2> QED
    BY <1>1, <2>1 DEF HeldKeys, Inserted, Removing, BeingMade
<1>3. DeletedOK'
  <2>1. deleted \subseteq Key
    BY DEF TypeOK
  <2> QED
    BY <1>1, <1>2, <2>1 DEF DeletedOK
<1>4. TableOK'
  BY <1>1, <1>2 DEF TableOK
<1>5. ~raced' => UniqueOK'
  BY <1>1, <1>2, EmptyKeys DEF UniqueOK, NoDup
<1> QED
  BY <1>3, <1>4, <1>5

LEMMA LoadTable ==
  ASSUME TypeOK, ControlOK, DeletedOK, NEW f \in Seq(FileRec), NEW bare, Load(f, bare), ~Up,
         used \subseteq used'
  PROVE  /\ TableOK' /\ DeletedOK'
         /\ NoDup(f) /\ pst.buf = <<>> /\ (file' \in {Missing, Damaged} \/ NoDup(file')) => UniqueOK'
<1>1. /\ DOMAIN sto' = DOMAIN f /\ Len(sto') = Len(f) /\ Len(f) \in Nat /\ DOMAIN f = 1 .. Len(f)
      /\ \A i \in DOMAIN f : sto'[i].key = f[i].key
  <2>1. \A i \in DOMAIN f : f[i] \in FileRec
    BY LenProperties, ElementOfSeq
  <2> DEFINE u(i) == IF i \in bare THEN Nil ELSE IF i = LastOf(f, f[i].key) THEN Live ELSE f[i].usage
  <2>2. sto' = [i \in DOMAIN f |-> [f[i] EXCEPT !.usage = u(i)]]
    BY DEF Load
  <2>3. DOMAIN f = 1 .. Len(f) /\ Len(f) \in Nat
    BY LenProperties
  <2> HIDE DEF u
  <2>4. Len(sto') = Len(f)
    BY <2>2, <2>3
  <2> QED
    BY <2>1, <2>2, <2>3, <2>4 DEF FileRec
<1>2. (\A t \in Admin : adm'[t].pc = "idle") /\ UNCHANGED <<pst, chk, raced>>
  BY DEF Load, ControlOK
<1>3. Held' = Len(f) /\ Inserted' = {} /\ Removing' = {} /\ BeingMade' = {}
  BY <1>1, <1>2 DEF Held, Inserted, Removing, BeingMade
<1>4. HeldKeys' = KeysOf(f)
  BY <1>1, <1>3 DEF HeldKeys, KeysOf
<1>5. \A k \in Key : Present(k)' <=> k \in KeysOf(f)
  <2>1. \A k \in KeysOf(f) : EntryOf(f[LastOf(f, k)].limit) \in KeyEntry
    <3>1. \A k \in KeysOf(f) : f[LastOf(f, k)] \in FileRec
      BY LastOfType, LenProperties, ElementOfSeq
    <3> QED
      BY <3>1, EntryType DEF FileRec
  <2> QED
    BY <2>1, ValueAssumption DEF Load, Present
<1>6. TableOK'
  BY <1>2, <1>3, <1>4, <1>5, KeysType DEF TableOK
<1>7. DeletedOK'
  <2>1. deleted' = deleted \ KeysOf(f) /\ deleted \subseteq Key
    BY DEF Load, TypeOK
  <2> QED
    BY <1>2, <1>3, <1>5, <2>1 DEF DeletedOK
<1>8. ASSUME NoDup(f), pst.buf = <<>>, file' \in {Missing, Damaged} \/ NoDup(file')
      PROVE  UniqueOK'
  <2>1. \A i, j \in 1 .. Len(f) : sto'[i].key = sto'[j].key => i = j
    BY <1>1, <1>8 DEF NoDup
  <2> QED
    BY <1>2, <1>3, <1>8, <2>1, EmptyKeys DEF UniqueOK, NoDup
<1> QED
  BY <1>6, <1>7, <1>8

LEMMA LifeCycleTable ==
  ASSUME ACLInv, TableInv, Start \/ StartCreate \/ FinishCreate \/ Crash
  PROVE  TableInv'
<1> USE DEF TableInv
<1>0. TypeOK /\ ControlOK /\ raced \in BOOLEAN
  BY DEF ACLInv, TypeOK
<1>1. CASE Crash
  BY <1>0, <1>1, DieTable DEF Crash
<1>2. CASE StartCreate
  <2>1. UNCHANGED <<store, pst, adm, chk, history>> /\ file' = Damaged
    BY <1>2 DEF StartCreate
  <2>2. Held' = Held /\ BeingMade' = BeingMade
    BY <2>1 DEF Held, BeingMade, store
  <2>3. HeldKeys' = HeldKeys /\ \A k \in Key : Present(k)' <=> Present(k)
    BY <2>1, <2>2 DEF HeldKeys, Present, store
  <2>4. DeletedOK'
    BY <2>1, <2>2 DEF DeletedOK, Present, store, history
  <2>5. UniqueOK /\ TableOK => UniqueOK' /\ TableOK'
    BY <2>1, <2>2, <2>3, UniqueFrame, TableFrame DEF store, UniqueOK
  <2> QED
    BY <2>1, <2>4, <2>5 DEF history
<1>3. CASE Start
  <2>1. PICK bare : Load(file, bare)
    BY <1>3 DEF Start
  <2>2. file \in Seq(FileRec) /\ file \notin {Missing, Damaged} /\ file' = file /\ used' = used /\ ~Up
    BY <1>0, <1>3 DEF Start, TypeOK, Up
  <2>3. raced' = raced /\ pst.pc = "asleep"
    BY <1>0, <2>1, <2>2 DEF Load, ControlOK
  <2>4. ~raced => NoDup(file) /\ pst.buf = <<>>
    BY <2>2, <2>3 DEF UniqueOK
  <2> QED
    BY <1>0, <2>1, <2>2, <2>3, <2>4, LoadTable
<1>4. CASE FinishCreate
  <2>1. PICK k \in Key, written \in BOOLEAN :
          /\ file' = IF written THEN DefaultFile(k) ELSE file
          /\ Load(DefaultFile(k), {1})
          /\ used' = used \cup {k}
    BY <1>4 DEF FinishCreate
  <2>2. ~Up
    BY <1>4 DEF FinishCreate, Up
  <2>3. raced' = raced /\ pst.pc = "asleep"
    BY <1>0, <2>1, <2>2 DEF Load, ControlOK
  <2>4. DefaultFile(k) \in Seq(FileRec) /\ NoDup(DefaultFile(k))
    <3>1. DOMAIN DefaultFile(k) = {1}
      BY DEF DefaultFile
    <3> QED
      BY <3>1, DefaultKeys DEF NoDup
  <2>5. TableOK' /\ DeletedOK'
    BY <1>0, <2>1, <2>2, <2>4, LoadTable
  <2>6. ~raced => UniqueOK'
    <3> SUFFICES ASSUME ~raced
                 PROVE  UniqueOK'
      OBVIOUS
    <3>1. pst.buf = <<>> /\ (file \in {Missing, Damaged} \/ NoDup(file))
      BY <2>3 DEF UniqueOK
    <3>2. file' \in {Missing, Damaged} \/ NoDup(file')
      BY <2>1, <2>4, <3>1
    <3> QED
      BY <1>0, <2>1, <2>2, <2>4, <3>1, <3>2, LoadTable
  <2> QED
    BY <2>3, <2>5, <2>6
<1> QED
  BY <1>1, <1>2, <1>3, <1>4

-----------------------------------------------------------------------------
\* The admin API.
LEMMA NewKeyBeginTable ==
  ASSUME ACLInv, TableInv, NEW t \in Admin, NewKeyBegin(t)
  PROVE  TableInv'
<1>0. TypeOK /\ ControlOK /\ KeysOK /\ adm \in [Admin -> AdminRec] /\ adm[t].pc = "idle"
  BY DEF ACLInv, TypeOK, NewKeyBegin, Request
<1>1. PICK k \in Key \ used :
        /\ used' = used \cup {k}
        /\ adm' = [adm EXCEPT ![t] = [IdleAdmin EXCEPT !.pc = "insert", !.key = k]]
  BY DEF NewKeyBegin
<1>2. adm'[t].pc = "insert" /\ adm'[t].key = k /\ \A u \in Admin \ {t} : adm'[u] = adm[u]
  <2>1. adm'[t] = [IdleAdmin EXCEPT !.pc = "insert", !.key = k]
    BY <1>0, <1>1
  <2> QED
    BY <1>0, <1>1, <2>1 DEF IdleAdmin
<1>3. UNCHANGED <<store, file, pst, chk, deleted, raced>>
  BY DEF NewKeyBegin
<1>4. Held' = Held /\ Inserted' = Inserted /\ Removing' = Removing
  <2>1. \A u \in Admin : adm'[u].pc = "cut" <=> adm[u].pc = "cut"
    BY <1>0, <1>2
  <2>2. Held' = Held
    BY <1>3, <2>1 DEF Held, store
  <2>3. \A u \in Admin : /\ (adm'[u].pc = "append" <=> adm[u].pc = "append")
                         /\ (adm'[u].pc \in {"scan", "cut"} <=> adm[u].pc \in {"scan", "cut"})
                         /\ (adm'[u].pc # "insert" => adm'[u] = adm[u])
    BY <1>0, <1>2
  <2> QED
    BY <2>2, <2>3 DEF Inserted, Removing
<1>5. BeingMade' \subseteq BeingMade \cup {k}
  BY <1>2 DEF BeingMade
<1>6. HeldKeys' = HeldKeys /\ \A x \in Key : Present(x)' <=> Present(x)
  BY <1>3, <1>4 DEF HeldKeys, Present, store
<1>7. DeletedOK'
  BY <1>1, <1>3, <1>5, DeletedFrame DEF TableInv, DeletedOK, Present, store
<1>8. UniqueOK => UniqueOK'
  <2>1. k \notin KeysOf(pst.buf)
    BY <1>0, <1>1 DEF KeysOK
  <2>2. UniqueOK => KeysOf(pst.buf) \cap BeingMade' = {}
    BY <1>5, <2>1 DEF UniqueOK
  <2> QED
    BY <1>3, <1>4, <2>2, UniqueFrame DEF store
<1>9. TableOK => TableOK'
  BY <1>2, <1>4, <1>6 DEF TableOK
<1> QED
  BY <1>3, <1>7, <1>8, <1>9 DEF TableInv

\* Requests that move no key: a new limit, a new usage object.
LEMMA ChangeTable ==
  ASSUME ACLInv, TableInv, NEW t \in Admin, SetLimit(t) \/ DelUsage(t)
  PROVE  TableInv'
<1>0. /\ TypeOK /\ sto \in Seq(StoRec) /\ DOMAIN sto = 1 .. Len(sto) /\ Len(sto) \in Nat
      /\ keys \in [Key -> KeyEntry \cup {Absent}]
      /\ \A i \in DOMAIN sto : sto[i] \in StoRec
  BY LenProperties, ElementOfSeq DEF ACLInv, TypeOK
<1>1. UNCHANGED <<adm, file, pst, chk, history>>
  BY DEF SetLimit, DelUsage
<1>2. \A j \in DOMAIN sto : sto'[j].key = sto[j].key
  <2>1. CASE SetLimit(t)
    <3>1. PICK k \in Known, l \in LimitSpecs :
            sto' = IF Present(k) /\ ~LimitFails(l)
                   THEN [i \in DOMAIN sto |-> IF sto[i].key = k THEN [sto[i] EXCEPT !.limit = l] ELSE sto[i]]
                   ELSE sto
      BY <2>1 DEF SetLimit
    <3> QED
      BY <1>0, <3>1 DEF StoRec
  <2>2. CASE DelUsage(t)
    <3>1. PICK k \in Known : sto' = IF Present(k) THEN Unlink(k) ELSE sto
      BY <2>2 DEF DelUsage
    <3> DEFINE u == bytesUsage[k]
    <3>2. Unlink(k) = [i \in DOMAIN sto |->
            IF sto[i].key = k /\ sto[i].usage = Live THEN [sto[i] EXCEPT !.usage = u] ELSE sto[i]]
      BY DEF Unlink
    <3> HIDE DEF u
    <3> QED
      BY <1>0, <3>1, <3>2 DEF StoRec
  <2> QED
    BY <2>1, <2>2
<1>3. Len(sto') = Len(sto)
  <2>1. DOMAIN sto' = DOMAIN sto
    BY DEF SetLimit, DelUsage, Unlink
  <2>2. sto' \in Seq(StoRec)
    BY <1>0, RequestType DEF AdminRequest, TypeOK
  <2> QED
    BY <1>0, <2>1, <2>2, LenProperties
<1>4. \A k \in Key : Present(k)' <=> Present(k)
  <2>1. CASE SetLimit(t)
    <3>1. PICK k \in Known, l \in LimitSpecs :
            keys' = IF Present(k) THEN [keys EXCEPT ![k] = applyACLKeyLimit(@, l)] ELSE keys
      BY <2>1 DEF SetLimit
    <3>2. k \in Key /\ l \in Limit
      BY <1>0, <3>1, ACLAssumption DEF Known, TypeOK
    <3>3. Present(k) => applyACLKeyLimit(keys[k], l) # Absent
      BY <1>0, <3>2, ApplyType, ValueAssumption DEF Present
    <3> QED
      BY <1>0, <3>1, <3>2, <3>3 DEF Present
  <2>2. CASE DelUsage(t)
    BY <2>2 DEF DelUsage, Present
  <2> QED
    BY <2>1, <2>2
<1>5. Held' = Held /\ BeingMade' = BeingMade
  BY <1>1, <1>3 DEF Held, BeingMade
<1>6. \A j \in 1 .. Held : sto'[j].key = sto[j].key
  BY <1>2, HeldRange DEF ACLInv
<1>7. HeldKeys' = HeldKeys
  BY <1>5, <1>6, HeldKeysSame
<1>8. DeletedOK'
  <2>1. deleted \subseteq Key
    BY <1>0 DEF TypeOK
  <2> QED
    BY <1>1, <1>4, <1>5, <2>1, DeletedFrame DEF TableInv, DeletedOK, history
<1>9. UniqueOK => UniqueOK'
  BY <1>1, <1>5, <1>6, UniqueFrame DEF UniqueOK
<1>10. TableOK => TableOK'
  BY <1>1, <1>4, <1>7, TableFrame
<1> QED
  BY <1>1, <1>8, <1>9, <1>10 DEF TableInv, history

\* DelKey takes the key out of the map before it looks for it in the list.
LEMMA DelKeyStartTable ==
  ASSUME ACLInv, TableInv, NEW t \in Admin, DelKeyStart(t)
  PROVE  TableInv'
<1>0. /\ TypeOK /\ ControlOK /\ KeysOK /\ adm \in [Admin -> AdminRec] /\ raced \in BOOLEAN
      /\ keys \in [Key -> KeyEntry \cup {Absent}] /\ deleted \subseteq Key
  BY DEF ACLInv, TypeOK
<1>1. PICK k \in Known :
        /\ MapWrite(t, k, Absent)
        /\ adm' = [adm EXCEPT ![t] = [IdleAdmin EXCEPT !.pc = "scan", !.key = k]]
        /\ deleted' = deleted \cup {k}
  BY DEF DelKeyStart
<1>2. LockFree /\ UNCHANGED <<sto, file, pst, chk, used>> /\ adm[t].pc = "idle"
  BY DEF DelKeyStart, Request
<1>3. /\ adm'[t].pc = "scan" /\ adm'[t].key = k /\ adm'[t].i = 1
      /\ \A u \in Admin \ {t} : adm'[u] = adm[u]
  <2>1. adm'[t] = [IdleAdmin EXCEPT !.pc = "scan", !.key = k]
    BY <1>0, <1>1
  <2> QED
    BY <1>0, <1>1, <2>1 DEF IdleAdmin
<1>4. k \in used /\ k \notin BeingMade /\ k \in Key
  BY <1>0, <1>1 DEF Known, TypeOK
<1>5. Held = Len(sto) /\ Removing = {} /\ \A u \in Admin : adm[u].pc \notin {"scan", "cut"}
  BY <1>0, <1>2, FreeList
<1>6. Held' = Len(sto) /\ Removing' = {k} /\ Inserted' = Inserted /\ BeingMade' = BeingMade
  <2>1. \A u \in Admin : adm'[u].pc # "cut" /\ (adm'[u].pc \in {"scan", "cut"} <=> u = t)
    BY <1>3, <1>5
  <2>2. Held' = Len(sto)
    BY <1>2, <2>1 DEF Held
  <2>3. Removing' = {k}
    BY <1>3, <2>1 DEF Removing
  <2>4. \A u \in Admin : /\ (adm'[u].pc = "append" <=> adm[u].pc = "append")
                         /\ (adm'[u].pc \in {"insert", "append"} <=> adm[u].pc \in {"insert", "append"})
                         /\ (adm'[u].pc \in {"insert", "append"} => adm'[u] = adm[u])
    BY <1>2, <1>3
  <2> QED
    BY <2>2, <2>3, <2>4 DEF Inserted, BeingMade
<1>7. HeldKeys' = HeldKeys
  BY <1>2, <1>5, <1>6 DEF HeldKeys
<1>8. ~raced' => ~raced /\ keys' = [keys EXCEPT ![k] = Absent]
  BY <1>0, <1>1 DEF MapWrite, MapBusy
<1>9. ~raced' => \A x \in Key : Present(x)' <=> Present(x) /\ x # k
  BY <1>0, <1>4, <1>8 DEF Present
<1>10. DeletedOK'
  BY <1>0, <1>1, <1>2, <1>4, <1>6, <1>8, <1>9 DEF TableInv, DeletedOK
<1>11. ASSUME ~raced'
       PROVE  UniqueOK' /\ TableOK'
  <2>1. UniqueOK /\ TableOK
    BY <1>8, <1>11 DEF TableInv
  <2>2. UniqueOK'
    BY <1>2, <1>5, <1>6, <2>1, UniqueFrame DEF UniqueOK
  <2>3. k \notin Inserted
    BY <1>0, <1>4, MakingApart
  <2>4. {x \in Key : Present(x)}' = {x \in Key : Present(x)} \ {k}
    BY <1>9, <1>11
  <2>5. {x \in Key : Present(x)}' = (HeldKeys' \ Removing') \cup Inserted'
    BY <1>5, <1>6, <1>7, <2>1, <2>3, <2>4 DEF TableOK
  <2>6. \A u \in Admin : ~(adm'[u].pc = "cut" \/ (adm'[u].pc = "scan" /\ adm'[u].i > 1))
    BY <1>3, <1>5
  <2> QED
    BY <2>2, <2>5, <2>6 DEF TableOK
<1> QED
  BY <1>10, <1>11 DEF TableInv

LEMMA RequestTable ==
  ASSUME ACLInv, TableInv, NEW t \in Admin, AdminRequest(t)
  PROVE  TableInv'
BY NewKeyBeginTable, ChangeTable, DelKeyStartTable DEF AdminRequest

\* NewKey puts its key into the map ...
LEMMA NewKeyInsertTable ==
  ASSUME ACLInv, TableInv, NEW t \in Admin, NewKeyInsert(t)
  PROVE  TableInv'
<1>0. /\ TypeOK /\ ControlOK /\ KeysOK /\ adm \in [Admin -> AdminRec] /\ raced \in BOOLEAN
      /\ keys \in [Key -> KeyEntry \cup {Absent}] /\ deleted \subseteq Key
  BY DEF ACLInv, TypeOK
<1> DEFINE k == adm[t].key
<1>1. adm[t].pc = "insert" /\ MapWrite(t, k, FreshEntry) /\ adm' = [adm EXCEPT ![t].pc = "append"]
  BY DEF NewKeyInsert
<1>2. UNCHANGED <<sto, file, pst, chk, used, deleted>>
  BY DEF NewKeyInsert
<1>3. /\ adm'[t].pc = "append" /\ adm'[t].key = k /\ \A u \in Admin \ {t} : adm'[u] = adm[u]
  <2>1. adm[t] \in AdminRec /\ adm'[t] = [adm[t] EXCEPT !.pc = "append"]
    BY <1>0, <1>1
  <2> QED
    BY <1>0, <1>1, <2>1 DEF AdminRec
<1>4. k \in BeingMade /\ k \in Key
  BY <1>0, <1>1 DEF BeingMade, ControlOK
<1>5. Held' = Held /\ Removing' = Removing /\ Inserted' = Inserted \cup {k} /\ BeingMade' = BeingMade
  <2>1. \A u \in Admin : /\ (adm'[u].pc = "cut" <=> adm[u].pc = "cut")
                         /\ (adm'[u].pc \in {"scan", "cut"} <=> adm[u].pc \in {"scan", "cut"})
                         /\ (adm'[u].pc \in {"insert", "append"} <=> adm[u].pc \in {"insert", "append"})
                         /\ (adm'[u].pc = "append" <=> adm[u].pc = "append" \/ u = t)
                         /\ adm'[u].key = adm[u].key
    BY <1>1, <1>3
  <2>2. Held' = Held
    BY <1>2, <2>1 DEF Held
  <2> QED
    BY <2>1, <2>2 DEF Inserted, Removing, BeingMade
<1>6. HeldKeys' = HeldKeys
  BY <1>2, <1>5 DEF HeldKeys
<1>7. ~raced' => ~raced /\ keys' = [keys EXCEPT ![k] = FreshEntry]
  BY <1>0, <1>1 DEF MapWrite, MapBusy
<1>8. ~raced' => \A x \in Key : Present(x)' <=> Present(x) \/ x = k
  BY <1>0, <1>4, <1>7, FreshType, ValueAssumption DEF Present
<1>9. DeletedOK'
  <2>1. k \notin deleted
    BY <1>4 DEF TableInv, DeletedOK
  <2>2. ~raced' => \A x \in deleted : ~Present(x)'
    BY <1>0, <1>7, <1>8, <2>1 DEF TableInv, DeletedOK
  <2>3. raced => raced'
    BY <1>0, <1>1 DEF MapWrite
  <2> QED
    BY <1>2, <1>5, <2>2, <2>3 DEF TableInv, DeletedOK
<1>10. ASSUME ~raced'
       PROVE  UniqueOK' /\ TableOK'
  <2>1. UniqueOK /\ TableOK
    BY <1>7, <1>10 DEF TableInv
  <2>2. UniqueOK'
    BY <1>2, <1>5, <2>1, UniqueFrame DEF UniqueOK
  <2>3. k \notin HeldKeys
    BY <1>0, <1>4, MakingApart, HeldRange
  <2>4. {x \in Key : Present(x)}' = {x \in Key : Present(x)} \cup {k}
    BY <1>4, <1>8, <1>10
  <2>5. {x \in Key : Present(x)}' = (HeldKeys' \ Removing') \cup Inserted'
    BY <1>5, <1>6, <2>1, <2>4 DEF TableOK
  <2>6. \A u \in Admin : adm'[u].pc = "cut" \/ (adm'[u].pc = "scan" /\ adm'[u].i > 1) => adm'[u] = adm[u]
    BY <1>3
  <2> QED
    BY <1>6, <2>1, <2>2, <2>5, <2>6 DEF TableOK
<1> QED
  BY <1>9, <1>10 DEF TableInv

\* ... and then into the list.
LEMMA NewKeyAppendTable ==
  ASSUME ACLInv, TableInv, NEW t \in Admin, NewKeyAppend(t)
  PROVE  TableInv'
<1>0. /\ TypeOK /\ ControlOK /\ KeysOK /\ adm \in [Admin -> AdminRec]
      /\ sto \in Seq(StoRec) /\ deleted \subseteq Key /\ Len(sto) \in Nat
  BY DEF ACLInv, TypeOK
<1> DEFINE k == adm[t].key
           r == [key |-> k, limit |-> Nil, usage |-> Nil]
<1>1. adm[t].pc = "append" /\ LockFree /\ sto' = Append(sto, r) /\ adm' = [adm EXCEPT ![t] = IdleAdmin]
  BY DEF NewKeyAppend
<1>2. UNCHANGED <<keys, file, pst, chk, history>>
  BY DEF NewKeyAppend
<1>3. adm'[t].pc = "idle" /\ \A u \in Admin \ {t} : adm'[u] = adm[u]
  BY <1>0, <1>1 DEF IdleAdmin
<1>4. k \in BeingMade /\ k \in Key
  BY <1>0, <1>1 DEF BeingMade, ControlOK
<1>5. r \in StoRec /\ r.key = k
  BY <1>4 DEF StoRec
<1> HIDE DEF r
<1>6. Held = Len(sto) /\ Removing = {} /\ \A u \in Admin : adm[u].pc \notin {"scan", "cut"}
  BY <1>0, <1>1, FreeList
<1>7. \A u \in Admin : adm'[u].pc \notin {"scan", "cut"}
  BY <1>3, <1>6
<1>8. /\ Len(sto') = Len(sto) + 1 /\ sto'[Len(sto) + 1] = r
      /\ \A j \in 1 .. Len(sto) : sto'[j] = sto[j]
  BY <1>0, <1>1, <1>5, AppendProperties
<1>9. Held' = Len(sto) + 1 /\ Removing' = {}
  BY <1>7, <1>8 DEF Held, Removing
<1>10. HeldKeys' = HeldKeys \cup {k}
  <2>1. \A j \in 1 .. Len(sto) + 1 : j \in 1 .. Len(sto) \/ j = Len(sto) + 1
    BY <1>0
  <2>2. 1 .. Len(sto) \subseteq 1 .. Len(sto) + 1 /\ Len(sto) + 1 \in 1 .. Len(sto) + 1
    BY <1>0
  <2> QED
    BY <1>5, <1>6, <1>8, <1>9, <2>1, <2>2 DEF HeldKeys
<1>11. Inserted' = Inserted \ {k} /\ BeingMade' \subseteq BeingMade /\ k \in Inserted
  <2>1. \A u \in Admin : adm[u].pc \in {"insert", "append"} /\ u # t => adm[u].key # k
    BY <1>0, <1>1 DEF KeysOK
  <2>2. Inserted' = Inserted \ {k}
    BY <1>3, <2>1 DEF Inserted
  <2> QED
    BY <1>1, <1>3, <2>2 DEF BeingMade, Inserted
<1>12. \A x \in Key : Present(x)' <=> Present(x)
  BY <1>2 DEF Present
<1>13. DeletedOK'
  BY <1>0, <1>2, <1>11, <1>12, DeletedFrame DEF TableInv, DeletedOK, history
<1>14. ASSUME UniqueOK, TableOK
       PROVE  UniqueOK' /\ TableOK'
  <2>1. k \notin KeysOf(sto) /\ k \notin KeysOf(pst.buf)
    BY <1>0, <1>4, <1>14, MakingApart DEF UniqueOK
  <2>2. \A j \in 1 .. Len(sto) : sto[j].key # k
    BY <1>0, <2>1, LenProperties DEF KeysOf
  <2>3. \A j \in 1 .. Len(sto) + 1 : j \in 1 .. Len(sto) \/ j = Len(sto) + 1
    BY <1>0
  <2>4. \A i, j \in 1 .. Len(sto) + 1 : sto'[i].key = sto'[j].key => i = j
    BY <1>5, <1>6, <1>8, <1>14, <2>2, <2>3 DEF UniqueOK
  <2>5. \A j \in 1 .. Len(sto) + 1 : j > Len(pst.buf) => sto'[j].key \notin KeysOf(pst.buf)
    BY <1>5, <1>6, <1>8, <1>14, <2>1, <2>3 DEF UniqueOK
  <2>6. UniqueOK'
    BY <1>2, <1>9, <1>11, <1>14, <2>4, <2>5 DEF UniqueOK
  <2>7. {x \in Key : Present(x)}' = {x \in Key : Present(x)}
    BY <1>12
  <2>8. TableOK'
    BY <1>6, <1>7, <1>9, <1>10, <1>11, <1>14, <2>7 DEF TableOK
  <2> QED
    BY <2>6, <2>8
<1> QED
  BY <1>2, <1>13, <1>14 DEF TableInv, history

\* DelKey moves the records behind its key down; the list then holds one key
\* less, although it is cut only by the next step ...
LEMMA DelKeyShiftTable ==
  ASSUME ACLInv, TableInv, NEW t \in Admin, DelKeyShift(t)
  PROVE  TableInv'
<1>0. /\ TypeOK /\ ControlOK /\ adm \in [Admin -> AdminRec]
      /\ sto \in Seq(StoRec) /\ deleted \subseteq Key /\ Len(sto) \in Nat
      /\ DOMAIN sto = 1 .. Len(sto) /\ pst.buf \in Seq(FileRec) /\ Len(pst.buf) \in Nat
  BY LenProperties DEF ACLInv, TypeOK, PersistRec
<1> DEFINE k == adm[t].key
           h == NextHit(t)
           n == Len(sto)
<1>1. /\ adm[t].pc = "scan" /\ Hit(t) # {} /\ h <= n
      /\ sto' = [j \in DOMAIN sto |-> IF h <= j /\ j < n THEN sto[j + 1] ELSE sto[j]]
      /\ adm' = [adm EXCEPT ![t].pc = "cut", ![t].i = h + 1]
      /\ UNCHANGED <<keys, file, pst, chk, history>>
  BY DEF DelKeyShift
<1>2. h \in 1 .. n /\ sto[h].key = k
  <2>1. h \in Hit(t) /\ h \in Nat \ {0}
    BY <1>0, <1>1, SlotsType
  <2>2. Slots(t)[h].key = k
    BY <2>1 DEF Hit
  <2>3. adm[t].stale \in Seq(StoRec)
    BY <1>0 DEF AdminRec
  <2>4. Slots(t)[h] = sto[h]
    BY <1>0, <1>1, <2>1, <2>3, ConcatProperties DEF Slots
  <2> QED
    BY <1>0, <1>1, <2>1, <2>2, <2>4
<1> HIDE DEF h
<1>3. /\ adm'[t].pc = "cut" /\ adm'[t].key = k /\ \A u \in Admin \ {t} : adm'[u] = adm[u]
  <2>1. adm[t] \in AdminRec /\ adm'[t] = [[adm[t] EXCEPT !.pc = "cut"] EXCEPT !.i = h + 1]
    BY <1>0, <1>1
  <2> QED
    BY <1>0, <1>1, <2>1 DEF AdminRec
<1>4. /\ Held = n /\ Removing = {k} /\ \A u \in Admin \ {t} : adm[u].pc \notin {"scan", "cut"}
  BY <1>0, <1>1, OwnList
<1>5. Len(sto') = n
  BY <1>0, <1>1
<1>6. Held' = n - 1 /\ Removing' = {k} /\ Inserted' = Inserted /\ BeingMade' = BeingMade
  <2>1. \A u \in Admin : /\ (adm'[u].pc = "cut" <=> u = t)
                         /\ (adm'[u].pc \in {"scan", "cut"} <=> u = t)
                         /\ (adm'[u].pc = "append" <=> adm[u].pc = "append")
                         /\ (adm'[u].pc \in {"insert", "append"} <=> adm[u].pc \in {"insert", "append"})
                         /\ adm'[u].key = adm[u].key
    BY <1>1, <1>3, <1>4
  <2>2. Held' = n - 1
    BY <1>5, <2>1 DEF Held
  <2>3. Removing' = {k}
    BY <2>1 DEF Removing
  <2> QED
    BY <2>1, <2>2, <2>3 DEF Inserted, BeingMade
<1>7. /\ \A j \in 1 .. n - 1 : j < h => sto'[j] = sto[j]
      /\ \A j \in 1 .. n - 1 : h <= j => sto'[j] = sto[j + 1]
  BY <1>0, <1>1, <1>2
<1>8. \A x \in Key : Present(x)' <=> Present(x)
  BY <1>1 DEF Present
<1>9. DeletedOK'
  BY <1>0, <1>1, <1>6, <1>8, DeletedFrame DEF TableInv, DeletedOK, history
<1>10. ASSUME UniqueOK, TableOK
       PROVE  UniqueOK' /\ TableOK'
  <2> DEFINE from(j) == IF j < h THEN j ELSE j + 1
  <2>1. /\ \A j \in 1 .. n - 1 : from(j) \in 1 .. n /\ from(j) # h /\ from(j) >= j
        /\ \A i, j \in 1 .. n - 1 : from(i) = from(j) => i = j
    BY <1>0, <1>2
  <2>2. \A j \in 1 .. n - 1 : sto'[j] = sto[from(j)]
    BY <1>0, <1>2, <1>7
  <2>3. \A i, j \in 1 .. n : sto[i].key = sto[j].key => i = j
    BY <1>4, <1>10 DEF UniqueOK
  <2>4. HeldKeys' = HeldKeys \ {k}
    <3>1. \A i \in 1 .. n : i # h => \E j \in 1 .. n - 1 : from(j) = i
      <4> SUFFICES ASSUME NEW i \in 1 .. n, i # h
                   PROVE  \E j \in 1 .. n - 1 : from(j) = i
        OBVIOUS
      <4>1. CASE i < h
        <5>1. i \in 1 .. n - 1 /\ from(i) = i
          BY <1>0, <1>2, <4>1
        <5> QED
          BY <5>1
      <4>2. CASE i > h
        <5>1. i - 1 \in 1 .. n - 1 /\ from(i - 1) = i
          BY <1>0, <1>2, <4>2
        <5> QED
          BY <5>1
      <4> QED
        BY <1>0, <1>2, <4>1, <4>2
    <3> HIDE DEF from
    <3>2. HeldKeys' \subseteq HeldKeys \ {k}
      BY <1>2, <1>4, <1>6, <2>1, <2>2, <2>3, SMTT(30) DEF HeldKeys
    <3>3. HeldKeys \ {k} \subseteq HeldKeys'
      <4> SUFFICES ASSUME NEW i \in 1 .. n, sto[i].key # k
                   PROVE  sto[i].key \in HeldKeys'
        BY <1>4 DEF HeldKeys
      <4>1. PICK j \in 1 .. n - 1 : from(j) = i
        BY <1>2, <3>1
      <4> QED
        BY <1>6, <2>2, <4>1 DEF HeldKeys
    <3> QED
      BY <3>2, <3>3
  <2>5. \A j \in 1 .. n - 1 : j > Len(pst.buf) => from(j) > Len(pst.buf)
    BY <1>0, <1>2
  <2> HIDE DEF from
  <2>6. \A i, j \in 1 .. n - 1 : sto'[i].key = sto'[j].key => i = j
    BY <2>1, <2>2, <2>3
  <2>7. \A j \in 1 .. n - 1 : j > Len(pst.buf) => sto'[j].key \notin KeysOf(pst.buf)
    BY <1>4, <1>10, <2>1, <2>2, <2>5 DEF UniqueOK
  <2>8. UniqueOK'
    BY <1>1, <1>6, <1>10, <2>6, <2>7 DEF UniqueOK
  <2>9. {x \in Key : Present(x)}' = {x \in Key : Present(x)}
    BY <1>8
  <2>10. {x \in Key : Present(x)}' = (HeldKeys' \ Removing') \cup Inserted'
    BY <1>4, <1>6, <1>10, <2>4, <2>9 DEF TableOK
  <2>11. \A u \in Admin : adm'[u].pc \in {"scan", "cut"} => adm'[u].key = k
    BY <1>3, <1>4
  <2> QED
    BY <2>4, <2>8, <2>10, <2>11 DEF TableOK
<1> QED
  BY <1>1, <1>9, <1>10 DEF TableInv, history

\* ... which leaves the records the list holds where they are ...
LEMMA DelKeyCutTable ==
  ASSUME ACLInv, TableInv, NEW t \in Admin, DelKeyCut(t)
  PROVE  TableInv'
<1>0. /\ TypeOK /\ ControlOK /\ adm \in [Admin -> AdminRec]
      /\ sto \in Seq(StoRec) /\ deleted \subseteq Key /\ Len(sto) \in Nat
  BY DEF ACLInv, TypeOK
<1> DEFINE gone == <<sto[Len(sto)]>>
<1>1. /\ adm[t].pc = "cut"
      /\ sto' = SubSeq(sto, 1, Len(sto) - 1)
      /\ adm' = [adm EXCEPT ![t].pc = "scan", ![t].stale = gone \o @]
      /\ UNCHANGED <<keys, file, pst, chk, history>>
  BY DEF DelKeyCut
<1> DEFINE z == gone \o adm[t].stale
<1> HIDE DEF gone
<1>2. adm'[t] = [[adm[t] EXCEPT !.pc = "scan"] EXCEPT !.stale = z] /\ adm[t] \in AdminRec
  BY <1>0, <1>1
<1> HIDE DEF z
<1>3. adm'[t].pc = "scan" /\ adm'[t].key = adm[t].key /\ \A u \in Admin \ {t} : adm'[u] = adm[u]
  <2>1. \A u \in Admin \ {t} : adm'[u] = adm[u]
    BY <1>0, <1>1
  <2> QED
    BY <1>2, <2>1 DEF AdminRec
<1>4. /\ Held = Len(sto) - 1 /\ Removing = {adm[t].key} /\ Len(sto) > 0
      /\ \A u \in Admin \ {t} : adm[u].pc \notin {"scan", "cut"}
  BY <1>0, <1>1, OwnList DEF ControlOK
<1>5. Len(sto') = Len(sto) - 1 /\ \A j \in 1 .. Len(sto) - 1 : sto'[j] = sto[j]
  <2> DEFINE n == Len(sto) - 1
  <2>1. n \in Nat /\ n \in 0 .. Len(sto) /\ 1 \in 1 .. Len(sto) + 1
    BY <1>0, <1>4
  <2>2. sto' = SubSeq(sto, 1, n)
    BY <1>1
  <2> HIDE DEF n
  <2>3. Len(sto') = n /\ \A j \in 1 .. n : sto'[j] = sto[j]
    BY <1>0, <2>1, <2>2, SubSeqProperties
  <2> QED
    BY <2>3 DEF n
<1>6. Held' = Held /\ Removing' = Removing /\ Inserted' = Inserted /\ BeingMade' = BeingMade
  <2>1. \A u \in Admin : /\ adm'[u].pc # "cut"
                         /\ (adm'[u].pc \in {"scan", "cut"} <=> u = t)
                         /\ (adm'[u].pc = "append" <=> adm[u].pc = "append")
                         /\ (adm'[u].pc \in {"insert", "append"} <=> adm[u].pc \in {"insert", "append"})
                         /\ adm'[u].key = adm[u].key
    BY <1>1, <1>3, <1>4, ZenonT(60)
  <2>2. Held' = Held
    BY <1>4, <1>5, <2>1 DEF Held
  <2>3. Removing' = {adm[t].key}
    BY <2>1 DEF Removing
  <2> QED
    BY <1>4, <2>1, <2>2, <2>3 DEF Inserted, BeingMade
<1>7. HeldKeys' = HeldKeys /\ \A x \in Key : Present(x)' <=> Present(x)
  BY <1>1, <1>4, <1>5, <1>6 DEF HeldKeys, Present
<1>8. DeletedOK'
  BY <1>0, <1>1, <1>6, <1>7, DeletedFrame DEF TableInv, DeletedOK, history
<1>9. UniqueOK => UniqueOK'
  BY <1>1, <1>4, <1>5, <1>6, UniqueFrame DEF UniqueOK
<1>10. ASSUME TableOK PROVE TableOK'
  <2>1. adm[t].key \notin HeldKeys
    BY <1>1, <1>10 DEF TableOK
  <2>2. \A u \in Admin : adm'[u].pc \in {"scan", "cut"} => adm'[u].key \notin HeldKeys'
    BY <1>3, <1>4, <1>7, <2>1
  <2>3. {x \in Key : Present(x)}' = {x \in Key : Present(x)}
    BY <1>7
  <2> QED
    BY <1>6, <1>7, <1>10, <2>2, <2>3 DEF TableOK
<1> QED
  BY <1>1, <1>8, <1>9, <1>10 DEF TableInv, history

\* ... and returns when its key is in no slot of the list.
LEMMA DelKeyEndTable ==
  ASSUME ACLInv, TableInv, NEW t \in Admin, DelKeyEnd(t)
  PROVE  TableInv'
<1>0. /\ TypeOK /\ ControlOK /\ adm \in [Admin -> AdminRec] /\ deleted \subseteq Key
      /\ sto \in Seq(StoRec) /\ Len(sto) \in Nat /\ DOMAIN sto = 1 .. Len(sto)
  BY DEF ACLInv, TypeOK
<1>1. /\ adm[t].pc = "scan" /\ (Hit(t) # {} => NextHit(t) > Len(sto))
      /\ adm' = [adm EXCEPT ![t] = IdleAdmin]
      /\ UNCHANGED <<store, file, pst, chk, history>>
  BY DEF DelKeyEnd
<1>2. adm'[t].pc = "idle" /\ \A u \in Admin \ {t} : adm'[u] = adm[u]
  BY <1>0, <1>1 DEF IdleAdmin
<1>3. /\ Held = Len(sto) /\ Removing = {adm[t].key}
      /\ \A u \in Admin \ {t} : adm[u].pc \notin {"scan", "cut"}
  BY <1>0, <1>1, OwnList
<1>4. Held' = Held /\ Removing' = {} /\ Inserted' = Inserted /\ BeingMade' = BeingMade
  <2>1. \A u \in Admin : /\ adm'[u].pc \notin {"scan", "cut"}
                         /\ (adm'[u].pc = "append" <=> adm[u].pc = "append")
                         /\ (adm'[u].pc \in {"insert", "append"} <=> adm[u].pc \in {"insert", "append"})
                         /\ (adm'[u].pc \in {"insert", "append"} => adm'[u] = adm[u])
    BY <1>1, <1>2, <1>3
  <2>2. Held' = Held
    BY <1>1, <1>3, <2>1 DEF Held, store
  <2> QED
    BY <2>1, <2>2 DEF Inserted, Removing, BeingMade
<1>5. HeldKeys' = HeldKeys /\ \A x \in Key : Present(x)' <=> Present(x)
  BY <1>1, <1>4 DEF HeldKeys, Present, store
<1>6. DeletedOK'
  BY <1>0, <1>1, <1>4, <1>5, DeletedFrame DEF TableInv, DeletedOK, history
<1>7. UniqueOK => UniqueOK'
  BY <1>1, <1>4, UniqueFrame DEF UniqueOK, store
<1>8. ASSUME TableOK PROVE TableOK'
  <2>1. adm[t].key \notin HeldKeys
    <3>1. CASE adm[t].i > 1
      BY <1>1, <1>8, <3>1 DEF TableOK
    <3>2. CASE ~(adm[t].i > 1)
      <4> SUFFICES ASSUME NEW j \in 1 .. Len(sto), sto[j].key = adm[t].key
                   PROVE  FALSE
        BY <1>3 DEF HeldKeys
      <4>1. adm[t].i = 1 /\ adm[t].stale \in Seq(StoRec)
        BY <1>0, <3>2 DEF AdminRec
      <4>2. Slots(t)[j] = sto[j] /\ Len(Slots(t)) >= Len(sto)
        BY <1>0, <4>1, ConcatProperties DEF Slots
      <4>3. Slots(t) \in Seq(StoRec)
        BY <1>0, <4>1, ConcatProperties DEF Slots
      <4>4. j \in 1 .. Len(Slots(t))
        BY <1>0, <4>2, <4>3, LenProperties
      <4>5. j \in Hit(t)
        <5>1. j \in adm[t].i .. Len(Slots(t)) /\ Slots(t)[j].key = adm[t].key
          BY <4>1, <4>2, <4>4
        <5> QED
          BY <5>1 DEF Hit
      <4>6. NextHit(t) \in Nat /\ Hit(t) \in SUBSET Nat
        <5>1. Hit(t) \in SUBSET Nat
          BY <4>1 DEF Hit
        <5>2. NextHit(t) \in Nat \ {0}
          BY <1>0, <4>5, SlotsType
        <5> QED
          BY <5>1, <5>2
      <4>7. NextHit(t) <= j
        <5>1. \E m \in Hit(t) : \A i \in Hit(t) : m <= i
          BY <4>5, <4>6, LeastNat
        <5> QED
          BY <4>5, <5>1 DEF NextHit
      <4> QED
        BY <1>0, <1>1, <4>5, <4>6, <4>7
    <3> QED
      BY <3>1, <3>2
  <2>2. {x \in Key : Present(x)}' = {x \in Key : Present(x)}
    BY <1>5
  <2>3. \A u \in Admin : adm'[u].pc \notin {"scan", "cut"}
    BY <1>2, <1>3
  <2> QED
    BY <1>3, <1>4, <1>5, <1>8, <2>1, <2>2, <2>3 DEF TableOK
<1> QED
  BY <1>1, <1>6, <1>7, <1>8 DEF TableInv, history

LEMMA AdminStepTable ==
  ASSUME ACLInv, TableInv, NEW t \in Admin, AdminStep(t)
  PROVE  TableInv'
BY NewKeyInsertTable, NewKeyAppendTable, DelKeyShiftTable, DelKeyCutTable, DelKeyEndTable DEF AdminStep

-----------------------------------------------------------------------------
\* The consumer, and the steps of the persist loop that neither move keys nor
\* copy them.
LEMMA QuietTable ==
  ASSUME ACLInv, TableInv, UNCHANGED <<keys, adm, chk, used, deleted, raced>>,
         Len(sto') = Len(sto), \A j \in DOMAIN sto : sto'[j].key = sto[j].key,
         file' \in {file, Damaged, Missing} \/ (~raced => NoDup(file')),
         (pst'.buf = pst.buf /\ (pst.pc = "encode" => pst'.pc = "encode")) \/ pst'.buf = <<>>
  PROVE  TableInv'
<1>0. TypeOK /\ ControlOK /\ deleted \subseteq Key
  BY DEF ACLInv, TypeOK
<1>1. Held' = Held /\ BeingMade' = BeingMade /\ \A j \in 1 .. Held : sto'[j].key = sto[j].key
  BY <1>0, HeldRange DEF Held, BeingMade
<1>2. HeldKeys' = HeldKeys /\ \A x \in Key : Present(x)' <=> Present(x)
  BY <1>1, HeldKeysSame DEF Present
<1>3. DeletedOK'
  BY <1>0, <1>1, <1>2, DeletedFrame DEF TableInv, DeletedOK
<1>4. ~raced /\ UniqueOK => UniqueOK'
  BY <1>1, EmptyKeys DEF UniqueOK, NoDup
<1>5. TableOK => TableOK'
  BY <1>2, TableFrame
<1> QED
  BY <1>3, <1>4, <1>5 DEF TableInv

LEMMA ConsumerTable ==
  ASSUME ACLInv, TableInv, CountIn \/ ConsumerStep
  PROVE  TableInv'
<1>1. UNCHANGED <<keys, adm, chk, history, sto, file, pst>>
  BY DEF CountIn, ConsumerStep, CountOut, CountPending, store
<1> QED
  BY <1>1, QuietTable DEF history

\* The encoder copies a key it has not met before, unless it does so while the
\* list is being shifted, which counts as a race.
LEMMA EncodeTable ==
  ASSUME ACLInv, TableInv, PersistEncode
  PROVE  TableInv'
<1>0. /\ TypeOK /\ ControlOK /\ KeysOK /\ pst \in PersistRec /\ deleted \subseteq Key
      /\ sto \in Seq(StoRec) /\ Len(sto) \in Nat /\ DOMAIN sto = 1 .. Len(sto) /\ raced \in BOOLEAN
      /\ pst.buf \in Seq(FileRec) /\ Len(pst.buf) \in Nat /\ DOMAIN pst.buf = 1 .. Len(pst.buf)
  BY LenProperties DEF ACLInv, TypeOK, PersistRec
<1> DEFINE m == Len(pst.buf)
           new == Saved(sto[m + 1])
<1>1. /\ pst.pc = "encode" /\ m < Len(sto)
      /\ pst' = [pst EXCEPT !.buf = Append(pst.buf, new)]
      /\ raced' = (raced \/ \E t \in Admin : adm[t].pc = "cut")
      /\ UNCHANGED <<store, file, adm, chk, used, deleted>>
  BY DEF PersistEncode
<1>2. m + 1 \in 1 .. Len(sto) /\ sto[m + 1] \in StoRec
  BY <1>0, <1>1, ElementOfSeq
<1>3. new \in FileRec /\ new.key = sto[m + 1].key
  BY <1>0, <1>2, SavedType DEF Saved
<1> HIDE DEF new
<1>4. pst'.pc = "encode" /\ pst'.buf = Append(pst.buf, new)
  BY <1>0, <1>1 DEF PersistRec
<1>5. /\ Len(pst'.buf) = m + 1 /\ DOMAIN pst'.buf = 1 .. m + 1 /\ pst'.buf[m + 1] = new
      /\ \A j \in 1 .. m : pst'.buf[j] = pst.buf[j]
  BY <1>0, <1>3, <1>4, AppendProperties, LenProperties
<1>6. KeysOf(pst'.buf) = KeysOf(pst.buf) \cup {new.key}
  BY <1>0, <1>3, <1>4, AppendKeys
<1>7. Held' = Held /\ BeingMade' = BeingMade /\ HeldKeys' = HeldKeys
  BY <1>1 DEF Held, BeingMade, HeldKeys, store
<1>8. \A x \in Key : Present(x)' <=> Present(x)
  BY <1>1 DEF Present, store
<1>9. DeletedOK'
  BY <1>0, <1>1, <1>7, <1>8, DeletedFrame DEF TableInv, DeletedOK
<1>10. TableOK => TableOK'
  BY <1>1, <1>7, <1>8, TableFrame
<1>11. ASSUME UniqueOK, ~raced'
       PROVE  UniqueOK'
  <2>1. Held = Len(sto)
    BY <1>1, <1>11 DEF Held
  <2>2. new.key \notin KeysOf(pst.buf)
    BY <1>0, <1>2, <1>3, <1>11, <2>1 DEF UniqueOK
  <2>3. \A j \in 1 .. m : pst.buf[j].key # new.key
    BY <1>0, <2>2 DEF KeysOf
  <2>4. \A j \in 1 .. m + 1 : j \in 1 .. m \/ j = m + 1
    BY <1>0
  <2>5. NoDup(pst'.buf)
    BY <1>0, <1>5, <1>11, <2>3, <2>4, SMTT(30) DEF UniqueOK, NoDup
  <2>6. \A j \in 1 .. Len(sto) : j > m + 1 => sto[j].key \notin KeysOf(pst'.buf)
    <3> SUFFICES ASSUME NEW j \in 1 .. Len(sto), j > m + 1
                 PROVE  sto[j].key \notin KeysOf(pst'.buf)
      OBVIOUS
    <3>1. j > m /\ j # m + 1
      BY <1>0
    <3>2. sto[j].key \notin KeysOf(pst.buf) /\ sto[j].key # sto[m + 1].key
      BY <1>2, <1>11, <2>1, <3>1 DEF UniqueOK
    <3> QED
      BY <1>3, <1>6, <3>2
  <2>7. new.key \notin BeingMade
    <3>1. new.key \in KeysOf(sto)
      BY <1>0, <1>2, <1>3 DEF KeysOf
    <3> QED
      BY <1>0, <3>1, MakingApart
  <2>8. KeysOf(pst'.buf) \cap BeingMade' = {}
    BY <1>6, <1>7, <1>11, <2>7 DEF UniqueOK
  <2>9. \A i, j \in 1 .. Held' : sto'[i].key = sto'[j].key => i = j
    BY <1>1, <1>7, <1>11 DEF UniqueOK, store
  <2> QED
    BY <1>1, <1>4, <1>5, <1>7, <1>11, <2>1, <2>5, <2>6, <2>8, <2>9 DEF UniqueOK, store
<1> QED
  BY <1>0, <1>1, <1>9, <1>10, <1>11 DEF TableInv

LEMMA PersistTable ==
  ASSUME ACLInv, TableInv, PersistStep
  PROVE  TableInv'
<1>0. /\ TypeOK /\ ControlOK /\ pst \in PersistRec
      /\ sto \in Seq(StoRec) /\ DOMAIN sto = 1 .. Len(sto) /\ \A i \in DOMAIN sto : sto[i] \in StoRec
  BY ElementOfSeq DEF ACLInv, TypeOK
<1>1. CASE PersistPanic
  BY <1>0, <1>1, DieTable DEF PersistPanic, TableInv
<1>2. CASE PersistEncode
  BY <1>2, EncodeTable
<1>3. CASE PersistWake \/ PersistReset \/ PersistOpen
  <2>1. /\ UNCHANGED <<store, adm, chk, history>> /\ file' \in {file, Damaged}
        /\ pst'.buf = pst.buf /\ pst.pc # "encode"
    BY <1>0, <1>3 DEF PersistWake, PersistReset, PersistOpen, PersistRec
  <2>2. UNCHANGED <<keys, sto, adm, chk, used, deleted, raced>>
    BY <2>1 DEF store, history
  <2>3. file' \in {file, Damaged, Missing}
    BY <2>1
  <2> QED
    BY <2>1, <2>2, <2>3, QuietTable
<1>4. CASE PersistOpenFails \/ PersistWriteFails \/ PersistBegin
  <2>1. UNCHANGED <<store, adm, chk, history, file>>
    BY <1>4 DEF PersistOpenFails, PersistWriteFails, PersistBegin
  <2>2. pst'.buf = <<>>
    <3>1. CASE PersistOpenFails \/ PersistWriteFails
      BY <3>1 DEF PersistOpenFails, PersistWriteFails, IdlePersist
    <3>2. CASE PersistBegin
      <4> DEFINE m == Len(sto)
      <4>1. pst' = [pst EXCEPT !.pc = "encode", !.n = m, !.buf = <<>>]
        BY <3>2 DEF PersistBegin
      <4> HIDE DEF m
      <4> QED
        BY <1>0, <4>1 DEF PersistRec
    <3> QED
      BY <1>4, <3>1, <3>2
  <2> QED
    BY <2>1, <2>2, QuietTable DEF store, history
<1>5. CASE PersistLink
  <2>1. /\ UNCHANGED <<keys, adm, chk, history, file>> /\ pst'.buf = pst.buf /\ pst.pc = "link"
    BY <1>0, <1>5 DEF PersistLink, PersistRec
  <2>2. Len(sto') = Len(sto) /\ \A i \in DOMAIN sto : sto'[i] \in {sto[i], [sto[i] EXCEPT !.usage = Live]}
    BY <1>0, <1>5, LinkType
  <2>3. \A i \in DOMAIN sto : sto'[i].key = sto[i].key
    BY <1>0, <2>2 DEF StoRec
  <2> QED
    BY <2>1, <2>2, <2>3, QuietTable DEF history
<1>6. CASE PersistWrite
  <2>1. UNCHANGED <<store, adm, chk, history>> /\ pst'.buf = <<>> /\ file' = pst.buf
    BY <1>6 DEF PersistWrite, IdlePersist
  <2>2. ~raced => NoDup(file')
    BY <2>1 DEF TableInv, UniqueOK
  <2> QED
    BY <2>1, <2>2, QuietTable DEF store, history
<1> QED
  BY <1>1, <1>2, <1>3, <1>4, <1>5, <1>6 DEF PersistStep

\* A stream that asks for a deleted key finds no entry.
LEMMA CheckTable ==
  ASSUME ACLInv, TableInv, NEW s \in Stream, CheckStep(s)
  PROVE  TableInv'
<1>0. TypeOK /\ ControlOK /\ chk \in [Stream -> StreamRec] /\ deleted \subseteq Key
  BY DEF ACLInv, TypeOK
<1>1. CASE CheckFault(s)
  BY <1>0, <1>1, DieTable DEF CheckFault, TableInv
<1>2. CASE CheckBegin(s) \/ CheckLists(s)
  <2>1. UNCHANGED <<store, file, pst, adm, history>>
    BY <1>2 DEF CheckBegin, CheckLists
  <2>2. Held' = Held /\ BeingMade' = BeingMade /\ HeldKeys' = HeldKeys
    BY <2>1 DEF Held, BeingMade, HeldKeys, store
  <2>3. \A x \in Key : Present(x)' <=> Present(x)
    BY <2>1 DEF Present, store
  <2>4. UniqueOK => UniqueOK'
    BY <2>1, <2>2, UniqueFrame DEF UniqueOK, store
  <2>5. TableOK => TableOK'
    BY <2>1, <2>2, <2>3, TableFrame
  <2>6. \A u \in Stream \ {s} : chk'[u] = chk[u]
    BY <1>0, <1>2 DEF CheckBegin, CheckLists
  <2>7. chk'[s].late => raced \/ (chk'[s].pc = "done" /\ chk'[s].verdict = "invalid")
    <3>1. CASE CheckBegin(s)
      <4>1. PICK k \in Known, t \in Targets :
              chk' = [chk EXCEPT ![s] =
                [pc |-> IF CheckKey(k) = "ok" THEN "lists" ELSE "done",
                 key |-> k, target |-> t, late |-> k \in deleted,
                 verdict |-> IF CheckKey(k) = "ok" THEN "none" ELSE CheckKey(k)]]
        BY <3>1 DEF CheckBegin
      <4>2. k \in deleted => raced \/ CheckKey(k) = "invalid"
        BY DEF TableInv, DeletedOK, CheckKey
      <4> QED
        BY <1>0, <4>1, <4>2
    <3>2. CASE CheckLists(s)
      <4>1. chk[s].pc = "lists"
        BY <3>2 DEF CheckLists
      <4>2. chk[s].late => raced
        BY <4>1 DEF TableInv, DeletedOK
      <4>3. chk'[s].late = chk[s].late
        <5> DEFINE v == ListVerdict(keys[chk[s].key], chk[s].target)
        <5>1. chk' = [chk EXCEPT ![s].pc = "done", ![s].verdict = v]
          BY <3>2 DEF CheckLists
        <5> HIDE DEF v
        <5>2. chk'[s] = [[chk[s] EXCEPT !.pc = "done"] EXCEPT !.verdict = v] /\ chk[s] \in StreamRec
          BY <1>0, <5>1
        <5> QED
          BY <5>2 DEF StreamRec
      <4> QED
        BY <4>2, <4>3
    <3> QED
      BY <1>2, <3>1, <3>2
  <2>8. DeletedOK'
    BY <1>0, <2>1, <2>2, <2>3, <2>6, <2>7 DEF TableInv, DeletedOK, history
  <2> QED
    BY <2>1, <2>4, <2>5, <2>8 DEF TableInv, history
<1> QED
  BY <1>1, <1>2 DEF CheckStep

LEMMA StepTable == ACLInv /\ TableInv /\ [Next]_vars => TableInv'
<1> SUFFICES ASSUME ACLInv, TableInv, [Next]_vars
             PROVE  TableInv'
  OBVIOUS
<1>1. CASE UNCHANGED vars
  BY <1>1, QuietTable DEF vars, store, history
<1> QED
  BY <1>1, LifeCycleTable, RequestTable, AdminStepTable, ConsumerTable, PersistTable, CheckTable
     DEF Next

LEMMA InitTable == Init => TableInv
<1> SUFFICES ASSUME Init
             PROVE  TableInv
  OBVIOUS
<1>1. /\ sto = <<>> /\ pst.buf = <<>> /\ (\A t \in Admin : adm[t].pc = "idle")
      /\ (\A k \in Key : ~Present(k)) /\ deleted = {} /\ \A s \in Stream : ~chk[s].late
  BY DEF Init, IdlePersist, IdleAdmin, IdleStream, Present
<1>2. Held = 0 /\ Inserted = {} /\ Removing = {} /\ BeingMade = {}
  BY <1>1 DEF Held, Inserted, Removing, BeingMade
<1>3. HeldKeys = {}
  BY <1>2 DEF HeldKeys
<1>4. file = Missing \/ NoDup(file)
  BY FileAssumption DEF Init
<1>5. UniqueOK
  BY <1>1, <1>2, <1>4, EmptyKeys DEF UniqueOK, NoDup
<1>6. TableOK /\ DeletedOK
  BY <1>1, <1>2, <1>3 DEF TableOK, DeletedOK
<1> QED
  BY <1>5, <1>6 DEF TableInv

LEMMA TableInductive == Spec => [](ACLInv /\ TableInv)
BY InitTable, StepTable, Inductive, PTL DEF Spec

-----------------------------------------------------------------------------
\* With no request in progress, map and list hold the same keys, each once, unless
\* a race went unnoticed.
LEMMA IdleTable ==
  ASSUME ACLInv, TableInv, AdminsIdle, ~raced
  PROVE  NoDup(sto) /\ {k \in Key : Present(k)} = KeysOf(sto)
<1>1. Held = Len(sto) /\ Removing = {} /\ Inserted = {} /\ DOMAIN sto = 1 .. Len(sto)
  BY HeldRange DEF Held, Removing, Inserted, AdminsIdle, ACLInv
<1>2. HeldKeys = KeysOf(sto)
  BY <1>1 DEF HeldKeys, KeysOf
<1> QED
  BY <1>1, <1>2 DEF TableInv, UniqueOK, TableOK, NoDup

\* However the handlers interleave, a key is in the map and not in the list only
\* while its NewKey has yet to append it, and in the list and not in the map only
\* while its DelKey has yet to cut it off; between requests no key is listed
\* twice.  A lost map write and a key saved twice are excluded: once `raced`,
\* nothing is claimed (NewKey, DelKey, acl.go:208-237).
THEOREM TableAgrees == Spec => []TableMatchesList
<1>1. ACLInv /\ TableInv => TableMatchesList
  <2> SUFFICES ASSUME ACLInv, TableInv, ~raced
               PROVE  /\ {k \in Key : Present(k)} \ HeldKeys \subseteq Inserted
                      /\ HeldKeys \ {k \in Key : Present(k)} \subseteq Removing
                      /\ AdminsIdle => NoDup(sto)
    BY DEF TableMatchesList
  <2>1. {k \in Key : Present(k)} = (HeldKeys \ Removing) \cup Inserted
    BY DEF TableInv, TableOK
  <2>2. AdminsIdle => NoDup(sto)
    BY IdleTable
  <2> QED
    BY <2>1, <2>2
<1> QED
  BY <1>1, TableInductive, PTL

\* A deleted key is not in the table again, and not in the file once a save has
\* gone through (DelKey, acl.go:227-237).
THEOREM DeletionLasts == Spec => []DeletedStaysDeleted
<1>1. ACLInv /\ TableInv => DeletedStaysDeleted
  <2> SUFFICES ASSUME ACLInv, TableInv, ~raced, NEW k \in deleted
               PROVE  /\ Up => ~Present(k)
                      /\ Settled /\ AdminsIdle /\ ~Covered => k \notin KeysOf(file)
    BY DEF DeletedStaysDeleted
  <2>1. ~Present(k) /\ k \in Key
    BY DEF TableInv, DeletedOK, ACLInv, TypeOK
  <2>2. ASSUME Settled, AdminsIdle, ~Covered
        PROVE  k \notin KeysOf(file)
    <3>1. NoDup(sto) /\ KeysOf(sto) = {x \in Key : Present(x)}
      BY <2>2, IdleTable DEF Settled
    <3>2. file = Image
      BY <2>2, <3>1 DEF Settled, ACLInv, SaveOK, RoundOK
    <3>3. KeysOf(Image) = KeysOf(sto)
      <4>1. \A i \in DOMAIN sto : ImageOf(sto[i]).key = sto[i].key
        <5> SUFFICES ASSUME NEW i \in DOMAIN sto
                     PROVE  ImageOf(sto[i]).key = sto[i].key
          OBVIOUS
        <5> DEFINE s == Saved(sto[i])
                   u == IF Present(sto[i].key) THEN bytesUsage[sto[i].key] ELSE s.usage
        <5>1. s = [key |-> s.key, limit |-> s.limit, usage |-> s.usage] /\ s.key = sto[i].key
          BY DEF Saved
        <5>2. ImageOf(sto[i]) = [s EXCEPT !.usage = u]
          BY DEF ImageOf
        <5> HIDE DEF s, u
        <5> QED
          BY <5>1, <5>2
      <4> QED
        BY <4>1 DEF Image, KeysOf
    <3> QED
      BY <2>1, <3>1, <3>2, <3>3
  <2> QED
    BY <2>1, <2>2
<1> QED
  BY <1>1, TableInductive, PTL

\* A Check that begins after the key was deleted does not admit the stream
\* (Check reads the map without the lock, acl.go:146-196).
THEOREM NoLateAdmission == Spec => []NoAdmissionAfterDelete
<1>1. TableInv => NoAdmissionAfterDelete
  BY DEF TableInv, DeletedOK, NoAdmissionAfterDelete
<1> QED
  BY <1>1, TableInductive, PTL
=============================================================================
