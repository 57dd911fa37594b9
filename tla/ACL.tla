-------------------------------- MODULE ACL --------------------------------
(***************************************************************************)
(* The access control store of the server (server/acl/acl.go) together     *)
(* with the goroutines that share it:                                      *)
(*   - the handlers of the admin API (server/admin/admin.go), one per      *)
(*     request, calling NewKey, DelKey, Limit and DelUsage;                *)
(*   - the traffic consumer (server/stats.go), calling UpdateBytesUsage;   *)
(*   - the stream handlers (server/server.go), calling Check;              *)
(*   - the persist loop, which writes the store to the ACL file.           *)
(* One mutex guards only part of this: the table `keys` is a plain Go map  *)
(* and the list `sto` a plain slice, both also read and written without    *)
(* it.  Every step below is one stretch of code that other goroutines can  *)
(* be observed in front of or behind.  A crash may end the process between *)
(* any two steps; what is left is the file.                                *)
(***************************************************************************)
EXTENDS Quota, Sequences, FiniteSets

CONSTANTS
  Key,          \* keys of access, those in the file and those NewKey draws
  Admin,        \* admin API handlers
  Stream,       \* StreamMessages handlers
  Targets,      \* the targets streams ask for
  LimitSpecs,   \* the limits administrators send
  Traffic,      \* the <<in, out>> pairs of traffic events
  InitFiles,    \* contents the ACL file may have before the first start
  AdminEnabled, \* an admin key was given on the command line
  Absent,       \* no entry in the map
  Free,         \* the mutex is not held
  Live,         \* a stored usage that is the table entry's own object
  Missing,      \* there is no ACL file
  Damaged,      \* the ACL file does not decode: empty or cut short
  MaxOps, MaxEvents, MaxCrashes, MaxFails   \* bounds, see Within

FileRec == [key: Key, limit: Limit \cup {Nil}, usage: Usage]
StoRec == [key: Key, limit: Limit \cup {Nil}, usage: Usage \cup {Nil, Live}]

KeysOf(list) == {list[i].key : i \in DOMAIN list}
NoDup(list) == \A i, j \in DOMAIN list : list[i].key = list[j].key => i = j

ASSUME ACLAssumption ==
  /\ Targets \subseteq Target
  /\ LimitSpecs \subseteq Limit
  /\ Traffic \subseteq (Word \X Word) \ {<<0, 0>>}
  /\ InitFiles \subseteq Seq(FileRec) \cup {Missing}
  /\ AdminEnabled \in BOOLEAN
  /\ {MaxOps, MaxEvents, MaxCrashes, MaxFails} \subseteq Nat

\* Model values are distinct from the data they stand beside.
ASSUME ValueAssumption ==
  /\ Absent \notin KeyEntry
  /\ Nil \notin Key \cup Usage \cup {Live}
  /\ Live \notin Usage
  /\ Free \notin Admin
  /\ {Missing, Damaged} \cap Seq(FileRec) = {}
  /\ Missing # Damaged

\* The files a restart reads back exactly as they are.
ASSUME FileAssumption ==
  \A f \in InitFiles \ {Missing} :
    NoDup(f) /\ \A i \in DOMAIN f : SavedLimit(f[i].limit) = f[i].limit

VARIABLES
  server,      \* "down", "creating" (NewACL, writing a first file) or "up"
  keys,        \* ACL.keys: the entries CheckKey reads
  bytesUsage,  \* the usage object each entry points to
  sto,         \* ACL.sto.Keys: the list that is saved and shown
  pending,     \* ACL.stoUpdatePendingCount
  lock,        \* ACL.stoUpdatePendingCountLock: its holder
  file,        \* the ACL file
  pst,         \* the persist loop
  adm,         \* the admin handlers
  con,         \* the traffic consumer
  chk,         \* the stream handlers, within Check
  used,        \* history: keys that exist or ever existed
  deleted,     \* history: keys DelKey was called for and no restart restored
  failed,      \* history: the last attempt to save failed
  raced,       \* history: a data race went unnoticed and had an effect
  spent        \* how much of each bound is used up

store == <<keys, bytesUsage, sto>>
history == <<used, deleted, raced>>
vars == <<server, store, pending, lock, file, pst, adm, con, chk,
          history, failed, spent>>

Verdict == {"none", "ok", "invalid", "inLimited", "outLimited", "denied"}

Bound == {"ops", "events", "crashes", "fails"}

\* Where each goroutine is: the persist loop in its round, with its index, the
\* length it read and the text encoded so far; a handler with the key it is
\* about, the index of DelKey's loop and the slots cut off behind the list; the
\* consumer with the key and the bytes it has yet to add; a stream with what it
\* asks for, whether the key was deleted before it asked, and the answer.
PersistRec == [pc: {"asleep", "reset", "open", "link", "encode"},
               i: Nat \ {0}, n: Nat, buf: Seq(FileRec)]
AdminRec == [pc: {"idle", "insert", "append", "scan", "cut"},
             key: Key \cup {Nil}, i: Nat \ {0}, stale: Seq(StoRec)]
ConsumerRec == [pc: {"idle", "out", "bump"}, key: Key \cup {Nil}, out: Word]
StreamRec == [pc: {"idle", "lists", "done"}, key: Key \cup {Nil},
              target: Targets \cup {Nil}, late: BOOLEAN, verdict: Verdict]

IdlePersist == [pc |-> "asleep", i |-> 1, n |-> 0, buf |-> <<>>]
IdleAdmin == [pc |-> "idle", key |-> Nil, i |-> 1, stale |-> <<>>]
IdleConsumer == [pc |-> "idle", key |-> Nil, out |-> 0]
IdleStream == [pc |-> "idle", key |-> Nil, target |-> Nil,
               late |-> FALSE, verdict |-> "none"]

TypeOK ==
  /\ server \in {"down", "creating", "up"}
  /\ keys \in [Key -> KeyEntry \cup {Absent}]
  /\ bytesUsage \in [Key -> Usage]
  /\ sto \in Seq(StoRec)
  /\ pending \in Nat
  /\ lock \in Admin \cup {Free}
  /\ file \in Seq(FileRec) \cup {Missing, Damaged}
  /\ pst \in PersistRec
  /\ adm \in [Admin -> AdminRec]
  /\ con \in ConsumerRec
  /\ chk \in [Stream -> StreamRec]
  /\ used \subseteq Key
  /\ deleted \subseteq Key
  /\ failed \in BOOLEAN
  /\ raced \in BOOLEAN
  /\ spent \in [Bound -> Nat]

Within(what, max) == spent[what] < max
Spend(what) == spent' = [spent EXCEPT ![what] = @ + 1]

Up == server = "up"
Present(k) == keys[k] # Absent
LockFree == lock = Free

-----------------------------------------------------------------------------
\* Starting and dying.  Everything but the file (and the history) is lost.

Volatile0 ==
  /\ keys' = [k \in Key |-> Absent]
  /\ bytesUsage' = [k \in Key |-> NoUsage]
  /\ sto' = <<>>
  /\ pending' = 0
  /\ lock' = Free
  /\ pst' = IdlePersist
  /\ adm' = [t \in Admin |-> IdleAdmin]
  /\ con' = IdleConsumer
  /\ chk' = [s \in Stream |-> IdleStream]

Init ==
  /\ server = "down"
  /\ file \in InitFiles
  /\ keys = [k \in Key |-> Absent]
  /\ bytesUsage = [k \in Key |-> NoUsage]
  /\ sto = <<>>
  /\ pending = 0
  /\ lock = Free
  /\ pst = IdlePersist
  /\ adm = [t \in Admin |-> IdleAdmin]
  /\ con = IdleConsumer
  /\ chk = [s \in Stream |-> IdleStream]
  /\ used = IF file = Missing THEN {} ELSE KeysOf(file)
  /\ deleted = {}
  /\ failed = FALSE
  /\ raced = FALSE
  /\ spent = [b \in Bound |-> 0]

\* The process ends: a panic outside net/http, a fatal error, a kill.
Die == server' = "down" /\ Volatile0 /\ UNCHANGED <<file, history, failed>>

Crash ==
  /\ server # "down"
  /\ Within("crashes", MaxCrashes)
  /\ Spend("crashes")
  /\ Die

\* The last record of a key is the one the table points to; an earlier one
\* keeps a usage object of its own.
LastOf(f, k) == CHOOSE i \in DOMAIN f : f[i].key = k /\ \A j \in DOMAIN f : f[j].key = k => j <= i

\* The records without traffic; "omitempty" may have left out their usage.
Unused(f) == {i \in DOMAIN f : f[i].usage = NoUsage}

\* A record in bare has no usage object, and the entry gets a new one that the
\* record is not linked to before the first save.
Load(f, bare) ==
  /\ keys' = [k \in Key |-> IF k \in KeysOf(f) THEN EntryOf(f[LastOf(f, k)].limit) ELSE Absent]
  /\ bytesUsage' = [k \in Key |-> IF k \in KeysOf(f) THEN f[LastOf(f, k)].usage ELSE NoUsage]
  /\ sto' = [i \in DOMAIN f |->
               [f[i] EXCEPT !.usage = IF i \in bare THEN Nil
                                      ELSE IF i = LastOf(f, f[i].key) THEN Live ELSE @]]
  /\ server' = "up"
  /\ deleted' = deleted \ KeysOf(f)
  /\ UNCHANGED <<pending, lock, pst, adm, con, chk, raced, spent>>

\* NewACL reads the file; one that does not decode keeps the server down.
Start ==
  /\ server = "down"
  /\ file \notin {Missing, Damaged}
  /\ \E bare \in SUBSET Unused(file) : Load(file, bare)
  /\ UNCHANGED <<file, used, failed>>

\* NewACL finds no file and creates an empty one ...
StartCreate ==
  /\ server = "down"
  /\ file = Missing
  /\ file' = Damaged
  /\ server' = "creating"
  /\ UNCHANGED <<store, pending, lock, pst, adm, con, chk, history, failed, spent>>

DefaultFile(k) == <<[key |-> k, limit |-> Nil, usage |-> NoUsage]>>

\* ... then writes one random default key into it; the error of that write
\* is dropped.
FinishCreate ==
  /\ server = "creating"
  /\ \E k \in Key \ used, written \in BOOLEAN :
       /\ written \/ Within("fails", MaxFails)
       /\ file' = IF written THEN DefaultFile(k) ELSE file
       /\ failed' = ~written
       /\ used' = used \cup {k}
       /\ Load(DefaultFile(k), {1})

-----------------------------------------------------------------------------
\* The admin API.  A handler runs only if an admin key is configured.

Request(t) ==
  /\ Up
  /\ AdminEnabled
  /\ adm[t].pc = "idle"
  /\ Within("ops", MaxOps)
  /\ Spend("ops")

\* Keys an administrator can name: NewKey has returned them or the file lists them.
BeingMade == {adm[t].key : t \in {u \in Admin : adm[u].pc \in {"insert", "append"}}}
Known == used \ BeingMade

\* Another handler is inside its unguarded write to the map.
MapBusy(t) == \E u \in Admin \ {t} : adm[u].pc = "insert"

\* A map write that overlaps another may be lost (when the runtime notices
\* the race it aborts the process, which is a Crash).
MapWrite(t, k, entry) ==
  /\ \E done \in IF MapBusy(t) THEN BOOLEAN ELSE {TRUE} :
       keys' = IF done THEN [keys EXCEPT ![k] = entry] ELSE keys
  /\ raced' = (raced \/ MapBusy(t))

\* NewKey draws a random key and starts the map write, without the mutex ...
NewKeyBegin(t) ==
  /\ Request(t)
  /\ \E k \in Key \ used :
       /\ used' = used \cup {k}
       /\ adm' = [adm EXCEPT ![t] = [IdleAdmin EXCEPT !.pc = "insert", !.key = k]]
  /\ UNCHANGED <<server, store, pending, lock, file, pst, con, chk, deleted, raced, failed>>

\* ... the entry is in the map ...
NewKeyInsert(t) ==
  /\ adm[t].pc = "insert"
  /\ MapWrite(t, adm[t].key, FreshEntry)
  /\ bytesUsage' = [bytesUsage EXCEPT ![adm[t].key] = NoUsage]
  /\ adm' = [adm EXCEPT ![t].pc = "append"]
  /\ UNCHANGED <<server, sto, pending, lock, file, pst, con, chk, used, deleted, failed, spent>>

\* Mutant: the list grows without a save being asked for.
NewKeyUncounted(t) ==
  /\ adm[t].pc = "append"
  /\ LockFree
  /\ sto' = Append(sto, [key |-> adm[t].key, limit |-> Nil, usage |-> Nil])
  /\ adm' = [adm EXCEPT ![t] = IdleAdmin]
  /\ UNCHANGED <<server, keys, bytesUsage, pending, lock, file, pst, con, chk, history, failed, spent>>

\* ... and, under the mutex, in the list that is saved.
NewKeyAppend(t) ==
  /\ adm[t].pc = "append"
  /\ LockFree
  /\ sto' = Append(sto, [key |-> adm[t].key, limit |-> Nil, usage |-> Nil])
  /\ pending' = pending + 1
  /\ adm' = [adm EXCEPT ![t] = IdleAdmin]
  /\ UNCHANGED <<server, keys, bytesUsage, lock, file, pst, con, chk, history, failed, spent>>

\* Mutant: DelKey leaves the map as it is.
DelKeyListOnly(t) ==
  /\ Request(t)
  /\ LockFree
  /\ \E k \in Known :
       /\ adm' = [adm EXCEPT ![t] = [IdleAdmin EXCEPT !.pc = "scan", !.key = k]]
       /\ deleted' = deleted \cup {k}
  /\ lock' = t
  /\ pending' = pending + 1
  /\ UNCHANGED <<server, store, raced, file, pst, con, chk, used, failed>>

\* DelKey takes the mutex, deletes from the map and begins its loop over the
\* list as it is now.
DelKeyStart(t) ==
  /\ Request(t)
  /\ LockFree
  /\ \E k \in Known :
       /\ MapWrite(t, k, Absent)
       /\ adm' = [adm EXCEPT ![t] = [IdleAdmin EXCEPT !.pc = "scan", !.key = k]]
       /\ deleted' = deleted \cup {k}
  /\ lock' = t
  /\ pending' = pending + 1
  /\ UNCHANGED <<server, bytesUsage, sto, file, pst, con, chk, used, failed>>

\* The loop ranges over the slots the list had at the start: those the list
\* has now and the ones cut off behind it.
Slots(t) == sto \o adm[t].stale
Hit(t) == {j \in adm[t].i .. Len(Slots(t)) : Slots(t)[j].key = adm[t].key}
NextHit(t) == CHOOSE j \in Hit(t) : \A h \in Hit(t) : j <= h

\* Mutant: the slice expression keeps the match and drops what follows it.
DelKeyShiftsNext(t) ==
  /\ adm[t].pc = "scan"
  /\ Hit(t) # {}
  /\ NextHit(t) <= Len(sto)
  /\ sto' = [j \in DOMAIN sto |-> IF NextHit(t) < j /\ j < Len(sto) THEN sto[j + 1] ELSE sto[j]]
  /\ adm' = [adm EXCEPT ![t].pc = "cut", ![t].i = NextHit(t) + 1]
  /\ UNCHANGED <<server, keys, bytesUsage, pending, lock, file, pst, con, chk, history, failed, spent>>

\* A match within the list: append moves the tail one slot down in place ...
DelKeyShift(t) ==
  /\ adm[t].pc = "scan"
  /\ Hit(t) # {}
  /\ NextHit(t) <= Len(sto)
  /\ sto' = [j \in DOMAIN sto |-> IF NextHit(t) <= j /\ j < Len(sto) THEN sto[j + 1] ELSE sto[j]]
  /\ adm' = [adm EXCEPT ![t].pc = "cut", ![t].i = NextHit(t) + 1]
  /\ UNCHANGED <<server, keys, bytesUsage, pending, lock, file, pst, con, chk, history, failed, spent>>

\* ... and then the shorter list is stored.
DelKeyCut(t) ==
  /\ adm[t].pc = "cut"
  /\ sto' = SubSeq(sto, 1, Len(sto) - 1)
  /\ adm' = [adm EXCEPT ![t].pc = "scan", ![t].stale = <<sto[Len(sto)]>> \o @]
  /\ UNCHANGED <<server, keys, bytesUsage, pending, lock, file, pst, con, chk, history, failed, spent>>

\* The loop ends, or matches a slot behind the list and panics on the slice
\* bounds; net/http recovers the panic and the deferred Unlock runs either way.
DelKeyEnd(t) ==
  /\ adm[t].pc = "scan"
  /\ Hit(t) # {} => NextHit(t) > Len(sto)
  /\ adm' = [adm EXCEPT ![t] = IdleAdmin]
  /\ lock' = Free
  /\ UNCHANGED <<server, store, pending, file, pst, con, chk, history, failed, spent>>

\* Limit is atomic under the mutex.  A limit that fails to parse has been
\* applied up to the bad field, and the stored one is left alone.
SetLimit(t) ==
  /\ Request(t)
  /\ LockFree
  /\ pending' = pending + 1
  /\ \E k \in Known, l \in LimitSpecs :
       /\ keys' = IF Present(k) THEN [keys EXCEPT ![k] = applyACLKeyLimit(@, l)] ELSE keys
       /\ sto' = IF Present(k) /\ ~LimitFails(l)
                 THEN [i \in DOMAIN sto |-> IF sto[i].key = k THEN [sto[i] EXCEPT !.limit = l] ELSE sto[i]]
                 ELSE sto
  /\ UNCHANGED <<server, bytesUsage, lock, file, pst, adm, con, chk, history, failed>>

\* DelUsage gives the entry a new usage object; the list keeps the old one
\* until the persist loop links the two again.
Unlink(k) == [i \in DOMAIN sto |->
  IF sto[i].key = k /\ sto[i].usage = Live THEN [sto[i] EXCEPT !.usage = bytesUsage[k]] ELSE sto[i]]

DelUsage(t) ==
  /\ Request(t)
  /\ LockFree
  /\ pending' = pending + 1
  /\ \E k \in Known :
       /\ sto' = IF Present(k) THEN Unlink(k) ELSE sto
       /\ bytesUsage' = IF Present(k) THEN [bytesUsage EXCEPT ![k] = NoUsage] ELSE bytesUsage
  /\ UNCHANGED <<server, keys, lock, file, pst, adm, con, chk, history, failed>>

-----------------------------------------------------------------------------
\* The traffic consumer: UpdateBytesUsage adds without the mutex and takes it
\* only to count the change.  A key deleted in between has left its entry to
\* this goroutine, whose additions then reach nobody.

CountIn ==
  /\ Up
  /\ con.pc = "idle"
  /\ Within("events", MaxEvents)
  /\ Spend("events")
  /\ \E k \in {key \in Key : Present(key)}, e \in Traffic :
       /\ bytesUsage' = [bytesUsage EXCEPT ![k].in = Plus(@, e[1])]
       /\ con' = [pc |-> "out", key |-> k, out |-> e[2]]
  /\ UNCHANGED <<server, keys, sto, pending, lock, file, pst, adm, chk, history, failed>>

CountOut ==
  /\ con.pc = "out"
  /\ bytesUsage' = [bytesUsage EXCEPT ![con.key].out = Plus(@, con.out)]
  /\ con' = [con EXCEPT !.pc = "bump"]
  /\ UNCHANGED <<server, keys, sto, pending, lock, file, pst, adm, chk, history, failed, spent>>

\* Mutant: traffic is counted but no save asked for.
CountUncounted ==
  /\ con.pc = "bump"
  /\ LockFree
  /\ con' = IdleConsumer
  /\ UNCHANGED <<server, store, pending, lock, file, pst, adm, chk, history, failed, spent>>

CountPending ==
  /\ con.pc = "bump"
  /\ LockFree
  /\ pending' = pending + 1
  /\ con' = IdleConsumer
  /\ UNCHANGED <<server, store, lock, file, pst, adm, chk, history, failed, spent>>

-----------------------------------------------------------------------------
\* The persist loop.

\* Mutant: the loop compares with the wrong number.
PersistWakeLate ==
  /\ Up
  /\ pst.pc = "asleep"
  /\ pending > 1
  /\ pst' = [pst EXCEPT !.pc = "reset"]
  /\ UNCHANGED <<server, store, pending, lock, file, adm, con, chk, history, failed, spent>>

\* After its sleep it reads the counter without the mutex ...
PersistWake ==
  /\ Up
  /\ pst.pc = "asleep"
  /\ pending > 0
  /\ pst' = [pst EXCEPT !.pc = "reset"]
  /\ UNCHANGED <<server, store, pending, lock, file, adm, con, chk, history, failed, spent>>

\* ... clears it under the mutex ...
PersistReset ==
  /\ pst.pc = "reset"
  /\ LockFree
  /\ pending' = 0
  /\ pst' = [pst EXCEPT !.pc = "open"]
  /\ UNCHANGED <<server, store, lock, file, adm, con, chk, history, failed, spent>>

\* ... opens the file and empties it, or gives up until the next change.
PersistOpen ==
  /\ pst.pc = "open"
  /\ file' = Damaged
  /\ pst' = [pst EXCEPT !.pc = "link", !.i = 1, !.n = Len(sto)]
  /\ UNCHANGED <<server, store, pending, lock, adm, con, chk, history, failed, spent>>

PersistOpenFails ==
  /\ pst.pc = "open"
  /\ Within("fails", MaxFails)
  /\ Spend("fails")
  /\ failed' = TRUE
  /\ pst' = IdlePersist
  /\ UNCHANGED <<server, store, pending, lock, file, adm, con, chk, history>>

\* The loop ranges over the slots the list had when it began.  Once the list
\* has changed, DelKey has moved records between those slots, or append has left
\* them for a larger array: which record a slot holds is left open then (0: none
\* of the list).  While no change is pending the list is the one it began with.
InSlot(i) == IF pending = 0 /\ i <= Len(sto) THEN {i} ELSE 0 .. Len(sto)

\* Link the record in the i-th slot to the usage object of its entry.
PersistLink ==
  /\ pst.pc = "link"
  /\ pst.i <= pst.n
  /\ \E j \in InSlot(pst.i) :
       sto' = IF j > 0 /\ Present(sto[j].key)
              THEN [sto EXCEPT ![j].usage = Live] ELSE sto
  /\ pst' = [pst EXCEPT !.i = @ + 1]
  /\ UNCHANGED <<server, keys, bytesUsage, pending, lock, file, adm, con, chk, history, failed, spent>>

\* encoding/json reads the length of the list once ...
PersistBegin ==
  /\ pst.pc = "link"
  /\ pst.i > pst.n
  /\ pst' = [pst EXCEPT !.pc = "encode", !.n = Len(sto), !.buf = <<>>]
  /\ UNCHANGED <<server, store, pending, lock, file, adm, con, chk, history, failed, spent>>

Saved(rec) ==
  [key |-> rec.key, limit |-> SavedLimit(rec.limit),
   usage |-> IF rec.usage = Live THEN bytesUsage[rec.key]
             ELSE IF rec.usage = Nil THEN NoUsage ELSE rec.usage]

\* ... then element after element from the list as it is at that moment ...
PersistEncode ==
  /\ pst.pc = "encode"
  /\ Len(pst.buf) < pst.n
  /\ Len(pst.buf) < Len(sto)
  /\ pst' = [pst EXCEPT !.buf = Append(@, Saved(sto[Len(@) + 1]))]
  /\ raced' = (raced \/ \E t \in Admin : adm[t].pc = "cut")
  /\ UNCHANGED <<server, store, pending, lock, file, adm, con, chk, used, deleted, failed, spent>>

\* Mutant: the panic of the encoder is recovered, the emptied file stays.
PanicRecovered ==
  /\ pst.pc = "encode"
  /\ Len(pst.buf) < pst.n
  /\ Len(pst.buf) >= Len(sto)
  /\ pst' = IdlePersist
  /\ UNCHANGED <<server, store, pending, lock, file, adm, con, chk, history, failed, spent>>

\* ... and panics if the list has become shorter, which ends the process.
PersistPanic ==
  /\ pst.pc = "encode"
  /\ Len(pst.buf) < pst.n
  /\ Len(pst.buf) >= Len(sto)
  /\ Die
  /\ UNCHANGED spent

\* The encoded text is written in one piece; an error is dropped.
PersistWrite ==
  /\ pst.pc = "encode"
  /\ Len(pst.buf) = pst.n
  /\ file' = pst.buf
  /\ failed' = FALSE
  /\ pst' = IdlePersist
  /\ UNCHANGED <<server, store, pending, lock, adm, con, chk, history, spent>>

PersistWriteFails ==
  /\ pst.pc = "encode"
  /\ Len(pst.buf) = pst.n
  /\ Within("fails", MaxFails)
  /\ Spend("fails")
  /\ failed' = TRUE
  /\ pst' = IdlePersist
  /\ UNCHANGED <<server, store, pending, lock, file, adm, con, chk, history>>

-----------------------------------------------------------------------------
\* Check, called by StreamMessages: CheckKey first ...
CheckKey(k) == IF Present(k) THEN QuotaVerdict(keys[k], bytesUsage[k]) ELSE "invalid"

CheckBegin(s) ==
  /\ Up
  /\ chk[s].pc # "lists"
  /\ \E k \in Known, t \in Targets :
       chk' = [chk EXCEPT ![s] =
                [pc |-> IF CheckKey(k) = "ok" THEN "lists" ELSE "done",
                 key |-> k, target |-> t, late |-> k \in deleted,
                 verdict |-> IF CheckKey(k) = "ok" THEN "none" ELSE CheckKey(k)]]
  /\ UNCHANGED <<server, store, pending, lock, file, pst, adm, con, history, failed, spent>>

\* ... then the lists of the entry, which it looks up again ...
CheckLists(s) ==
  /\ chk[s].pc = "lists"
  /\ Present(chk[s].key)
  /\ chk' = [chk EXCEPT ![s].pc = "done",
                        ![s].verdict = ListVerdict(keys[chk[s].key], chk[s].target)]
  /\ UNCHANGED <<server, store, pending, lock, file, pst, adm, con, history, failed, spent>>

\* ... and dereferences nil if the entry is gone: the process ends.
CheckFault(s) ==
  /\ chk[s].pc = "lists"
  /\ ~Present(chk[s].key)
  /\ Die
  /\ UNCHANGED spent

-----------------------------------------------------------------------------
AdminStep(t) == NewKeyInsert(t) \/ NewKeyAppend(t) \/ DelKeyShift(t) \/ DelKeyCut(t) \/ DelKeyEnd(t)
AdminRequest(t) == NewKeyBegin(t) \/ DelKeyStart(t) \/ SetLimit(t) \/ DelUsage(t)
ConsumerStep == CountOut \/ CountPending
PersistStep ==
  \/ PersistWake \/ PersistReset \/ PersistOpen \/ PersistOpenFails \/ PersistLink
  \/ PersistBegin \/ PersistEncode \/ PersistPanic \/ PersistWrite \/ PersistWriteFails
CheckStep(s) == CheckBegin(s) \/ CheckLists(s) \/ CheckFault(s)

Next ==
  \/ Start \/ StartCreate \/ FinishCreate \/ Crash
  \/ \E t \in Admin : AdminRequest(t) \/ AdminStep(t)
  \/ CountIn \/ ConsumerStep
  \/ PersistStep
  \/ \E s \in Stream : CheckStep(s)

Spec == Init /\ [][Next]_vars
-----------------------------------------------------------------------------
\* What the goroutines must schedule: the persist loop, the consumer and the
\* handlers already running go on.  Nothing makes an administrator or a client
\* send a request, the disk fail or the process crash.
PersistRuns ==
  \/ PersistWake \/ PersistReset \/ PersistOpen \/ PersistLink
  \/ PersistBegin \/ PersistEncode \/ PersistPanic \/ PersistWrite

Fairness ==
  /\ WF_vars(Start) /\ WF_vars(FinishCreate)
  /\ WF_vars(PersistRuns)
  /\ WF_vars(ConsumerStep)
  /\ \A t \in Admin : WF_vars(AdminStep(t))

FairSpec == Spec /\ Fairness

-----------------------------------------------------------------------------
\* How the control states fit together: nothing runs in a process that is not
\* up, a goroutine under way knows its key, the loop of DelKey holds the mutex
\* and has something left to cut off.
ControlOK ==
  /\ ~Up => (\A t \in Admin : adm[t].pc = "idle") /\ con.pc = "idle" /\ pst.pc = "asleep"
  /\ \A t \in Admin :
       /\ adm[t].pc # "idle" => adm[t].key \in Key
       /\ adm[t].pc \in {"scan", "cut"} => lock = t
       /\ adm[t].pc = "cut" => Len(sto) > 0
  /\ con.pc # "idle" => con.key \in Key

\* What a save of this instant would write.
ImageOf(rec) ==
  [Saved(rec) EXCEPT !.usage = IF Present(rec.key) THEN bytesUsage[rec.key] ELSE @]
Image == [i \in DOMAIN sto |-> ImageOf(sto[i])]

\* A save is still to come: the counter is up, or the consumer will raise it.
Covered == pending > 0 \/ con.pc \in {"out", "bump"}

\* A new key is nobody else's until its handler has put it into the list.
KeysOK ==
  /\ KeysOf(sto) \cup KeysOf(pst.buf) \subseteq used
  /\ file \in {Missing, Damaged} \/ KeysOf(file) \subseteq used
  /\ \A t \in Admin : adm[t].pc \in {"insert", "append"} =>
       /\ adm[t].key \in used \ KeysOf(sto)
       /\ \A u \in Admin \ {t} :
            adm[u].pc \in {"insert", "append"} => adm[u].key # adm[t].key

\* What the persist loop has achieved at each point of its round, as long as
\* nothing it has read changes again without a new save being due.
Linked(rec) == Present(rec.key) => rec.usage = Live
Reloadable(list) == \A i \in DOMAIN list : SavedLimit(list[i].limit) = list[i].limit

RoundOK ==
  \/ Covered
  \/ pst.pc \in {"reset", "open"}
  \/ pst.pc = "asleep" /\ (Up /\ ~failed /\ NoDup(sto) => file = Image)
  \/ /\ pst.pc = "link"
     /\ pst.n = Len(sto)
     /\ \A j \in 1 .. Len(sto) : j < pst.i => Linked(sto[j])
  \/ /\ pst.pc = "encode"
     /\ pst.n = Len(sto)
     /\ Len(pst.buf) <= Len(sto)
     /\ \A j \in 1 .. Len(sto) : Linked(sto[j])
     /\ \A j \in 1 .. Len(pst.buf) : pst.buf[j] = Image[j]

SaveOK ==
  /\ lock # Free => pending > 0
  /\ Reloadable(pst.buf)
  /\ file \in {Missing, Damaged} \/ Reloadable(file)
  /\ RoundOK

\* The inductive invariant of saving.
ACLInv == TypeOK /\ ControlOK /\ KeysOK /\ SaveOK

\* The records the list really holds: while a handler is between its shift and
\* its cut the last slot repeats the one before it.
Held == IF \E t \in Admin : adm[t].pc = "cut" THEN Len(sto) - 1 ELSE Len(sto)
HeldKeys == {sto[j].key : j \in 1 .. Held}

\* Keys whose entry is in the map but not yet in the list, and those whose entry
\* is out of the map but may still be in the list.
Inserted == {adm[t].key : t \in {u \in Admin : adm[u].pc = "append"}}
Removing == {adm[t].key : t \in {u \in Admin : adm[u].pc \in {"scan", "cut"}}}

\* What keeps map, list and file together.  The encoder goes up the list while
\* DelKey moves records down, so it meets no key twice.
UniqueOK ==
  /\ \A i, j \in 1 .. Held : sto[i].key = sto[j].key => i = j
  /\ file \in {Missing, Damaged} \/ NoDup(file)
  /\ pst.pc = "encode" \/ pst.buf = <<>>
  /\ NoDup(pst.buf)
  /\ \A j \in 1 .. Held : j > Len(pst.buf) => sto[j].key \notin KeysOf(pst.buf)
  /\ KeysOf(pst.buf) \cap BeingMade = {}

TableOK ==
  /\ {k \in Key : Present(k)} = (HeldKeys \ Removing) \cup Inserted
  /\ \A t \in Admin :
       adm[t].pc = "cut" \/ (adm[t].pc = "scan" /\ adm[t].i > 1) => adm[t].key \notin HeldKeys

DeletedOK ==
  /\ deleted \subseteq used \ BeingMade
  /\ ~raced => \A k \in deleted : ~Present(k)
  /\ \A s \in Stream : chk[s].late => raced \/ (chk[s].pc = "done" /\ chk[s].verdict = "invalid")

\* The inductive invariant of the table, on top of the one of saving.
TableInv == (~raced => UniqueOK /\ TableOK) /\ DeletedOK

AdminsIdle == \A t \in Admin : adm[t].pc = "idle"
Settled == Up /\ pst.pc = "asleep" /\ ~failed

\* No change is forgotten: while the persist loop sleeps, the file is what a
\* save would write, or a save is still to come, although the loop clears the
\* counter before it reads the store and most writers hold no lock then
\* (aclPersistLoop, acl.go:344-356).
PendingCoversChanges == Settled /\ NoDup(sto) => file = Image \/ Covered

\* The running server leaves the file undecodable only from the Truncate to
\* the end of the same save, or after a save that failed (persist,
\* acl.go:323-342).
DamagedOnlyWhilePersisting ==
  Up /\ file = Damaged => pst.pc \in {"link", "encode"} \/ failed

\* If nothing was changed since the counter was cleared, the encoder reads a
\* list of the length it expects and has copied a prefix of what a save of
\* this instant would write; so a panic of the encoder, or a snapshot that
\* mixes two states, takes a change made during the save (acl.go:333-340).
EncoderInStep ==
  pst.pc = "encode" /\ ~Covered =>
    pst.n = Len(sto) /\ pst.buf = SubSeq(Image, 1, Len(pst.buf))

\* The map that admits keys and the list that is saved never drift apart: a key
\* in one only is the key of a handler between its two changes, a NewKey that has
\* yet to append it or a DelKey that has yet to cut it off, and with no request
\* in progress no key is listed twice.  This holds until a race goes unnoticed: a
\* map write lost beside another leaves the two different for good, and an encoder
\* between DelKey's shift and its cut saves a key twice (both handlers change the
\* map first, NewKey without the mutex, acl.go:208-237).
TableMatchesList ==
  Up /\ ~raced =>
    /\ {k \in Key : Present(k)} \ HeldKeys \subseteq Inserted
    /\ HeldKeys \ {k \in Key : Present(k)} \subseteq Removing
    /\ AdminsIdle => NoDup(sto)

\* A deleted key is not in the table again, and not in the file once a save
\* has gone through; a restart from an older file, which forgets that it was
\* deleted, is the only way back (DelKey, acl.go:227-237).
DeletedStaysDeleted ==
  ~raced => \A k \in deleted :
    /\ Up => ~Present(k)
    /\ Settled /\ AdminsIdle /\ ~Covered => k \notin KeysOf(file)

\* A Check that begins after the key was deleted does not admit the stream;
\* one that had begun may (Check reads the map without the lock,
\* acl.go:146-196).
NoAdmissionAfterDelete ==
  \A s \in Stream : chk[s].verdict = "ok" /\ chk[s].late => raced

\* Unless the disk fails or the process dies, what the store holds reaches
\* the file, as long as it holds no key twice (aclPersistLoop,
\* acl.go:344-356).
Behind == Up /\ NoDup(sto) /\ file # Image
ChangesReachFile == Behind ~> (Up /\ NoDup(sto) => file = Image \/ failed)

\* The promise these goroutines add up to, whoever interleaves with whom.
Restored(f) == [i \in DOMAIN f |-> [f[i] EXCEPT !.usage = f[LastOf(f, f[i].key)].usage]]

Promise == INSTANCE DurableStore WITH
  Content <- Seq(FileRec), Restored <- Restored, Nothing <- <<>>,
  Absent <- Missing, Unreadable <- Damaged,
  now <- Image,
  disk <- file,
  behind <- Up /\ (Covered \/ pst.pc # "asleep" \/ failed \/ ~NoDup(sto))

\* The file is touched only by a save that is due, a save that nothing has
\* changed meanwhile leaves it equal to the store, and a start continues from
\* the file alone (NewACL, persist, aclPersistLoop, acl.go:94-135,323-356).
FileFollowsStore == Promise!Spec

\* The numbers CheckKey enforces are those of the key's limit ("Limit replace
\* key's limit", acl.go:239).
EnforcedIsStored(rec) ==
  LET want == EntryOf(rec.limit)  have == keys[rec.key]
  IN  /\ have.bytesLimit = want.bytesLimit
      /\ have.inBytesLimit = want.inBytesLimit
      /\ have.outBytesLimit = want.outBytesLimit
LimitReplaced ==
  \A i \in DOMAIN sto : Present(sto[i].key) => EnforcedIsStored(sto[i])

\* Once DelKey has returned, the key is neither listed nor saved from then on
\* ("delete the acl key", cmd/acl/cmd.go:36).
DeleteTakesEffect ==
  Up /\ AdminsIdle => deleted \cap KeysOf(sto) = {}
=============================================================================
