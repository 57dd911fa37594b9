--------------------------- MODULE AdminCLIProofs ---------------------------
(***************************************************************************)
(* Proofs about AdminCLI, for every set of users, keys, commands and       *)
(* starting limits, and however many commands are run: the types, that the *)
(* lists which admit are the lists stored, that a command reported done has*)
(* been done once, and that commands which overlap are lost as a whole.    *)
(***************************************************************************)
EXTENDS AdminCLI, SequenceTheorems, WellFoundedInduction, TLAPS

USE CLIAssumption, WordAssumption, ByteSpecAssumption, NilAssumption

-----------------------------------------------------------------------------
\* Limits and lists.

LEMMA EmptyIsLimit == EmptyLimit \in Limit /\ SavedLimit(EmptyLimit) = EmptyLimit
<1>1. EmptyLimit \in Limit
  BY DEF EmptyLimit, Limit, ByteSpec, PatternList
<1>2. EmptyLimit # Nil
  BY <1>1
<1>3. SavedLimit(EmptyLimit) = EmptyLimit
  BY <1>2 DEF SavedLimit, SavedList, EmptyLimit
<1> QED
  BY <1>1, <1>3

LEMMA SavedListType == \A list \in PatternList : SavedList(list) \in PatternList
BY DEF SavedList, PatternList

LEMMA SavedListTwice == \A list \in PatternList : SavedList(SavedList(list)) = SavedList(list)
BY DEF SavedList, PatternList

\* Only the lists change when a limit is saved and read back.
LEMMA SavedFields ==
  ASSUME NEW l \in Limit
  PROVE  /\ SavedLimit(l) \in Limit
         /\ SavedLimit(l).bytes = l.bytes
         /\ SavedLimit(l).inBytes = l.inBytes
         /\ SavedLimit(l).outBytes = l.outBytes
         /\ SavedLimit(l).whitelist = SavedList(l.whitelist)
         /\ SavedLimit(l).blacklist = SavedList(l.blacklist)
<1>1. SavedLimit(l) = [l EXCEPT !.whitelist = SavedList(l.whitelist), !.blacklist = SavedList(l.blacklist)]
  BY DEF SavedLimit
<1>2. SavedList(l.whitelist) \in PatternList /\ SavedList(l.blacklist) \in PatternList
  BY SavedListType DEF Limit
<1> HIDE DEF SavedLimit
<1> QED
  BY <1>1, <1>2 DEF Limit

LEMMA SameLimit ==
  ASSUME NEW l \in Limit, NEW m \in Limit,
         l.bytes = m.bytes, l.inBytes = m.inBytes, l.outBytes = m.outBytes,
         l.whitelist = m.whitelist, l.blacklist = m.blacklist
  PROVE  l = m
BY DEF Limit

LEMMA SavedTwice ==
  ASSUME NEW l \in Limit
  PROVE  SavedLimit(SavedLimit(l)) = SavedLimit(l)
<1> DEFINE s == SavedLimit(l)
           t == SavedLimit(s)
<1>1. s \in Limit /\ s.whitelist = SavedList(l.whitelist) /\ s.blacklist = SavedList(l.blacklist)
  BY SavedFields
<1>2. l.whitelist \in PatternList /\ l.blacklist \in PatternList
  BY DEF Limit
<1>3. SavedList(s.whitelist) = s.whitelist /\ SavedList(s.blacklist) = s.blacklist
  BY <1>1, <1>2, SavedListTwice
<1> HIDE DEF s
<1>4. /\ t \in Limit /\ t.bytes = s.bytes /\ t.inBytes = s.inBytes /\ t.outBytes = s.outBytes
      /\ t.whitelist = SavedList(s.whitelist) /\ t.blacklist = SavedList(s.blacklist)
  BY <1>1, SavedFields
<1> HIDE DEF t
<1>5. t = s
  BY <1>1, <1>3, <1>4, SameLimit
<1> QED
  BY <1>5 DEF s, t

LEMMA SavedHasNoEmptyList ==
  ASSUME NEW l \in Limit, SavedLimit(l) = l
  PROVE  SavedList(l.whitelist) = l.whitelist /\ SavedList(l.blacklist) = l.blacklist
BY SavedFields

LEMMA EntryType ==
  ASSUME NEW ke \in KeyEntry, NEW l \in Limit
  PROVE  applyACLKeyLimit(ke, l) \in KeyEntry
<1> DEFINE O(parsed, s, old) == Override(parsed, s, old)
<1>1. \A parsed \in BOOLEAN, s \in ByteSpec, old \in Word :
        (parsed => s # Malformed) => O(parsed, s, old) \in Word
  BY DEF Override, ByteSpec
<1>2. /\ ke.bytesLimit \in Word /\ ke.inBytesLimit \in Word /\ ke.outBytesLimit \in Word
      /\ ke.whitelist \in PatternList /\ ke.blacklist \in PatternList
  BY DEF KeyEntry
<1>3. /\ l.bytes \in ByteSpec /\ l.inBytes \in ByteSpec /\ l.outBytes \in ByteSpec
      /\ l.whitelist \in PatternList /\ l.blacklist \in PatternList
  BY DEF Limit
<1> DEFINE a == l.bytes # Malformed
           b == a /\ l.inBytes # Malformed
           c == b /\ l.outBytes # Malformed
<1>4. O(a, l.bytes, ke.bytesLimit) \in Word
  BY <1>1, <1>2, <1>3
<1>5. O(b, l.inBytes, ke.inBytesLimit) \in Word
  BY <1>1, <1>2, <1>3
<1>6. O(c, l.outBytes, ke.outBytesLimit) \in Word
  BY <1>1, <1>2, <1>3
<1>7. /\ (IF c THEN l.whitelist ELSE ke.whitelist) \in PatternList
      /\ (IF c THEN l.blacklist ELSE ke.blacklist) \in PatternList
  BY <1>2, <1>3
<1>8. \A v, w, x \in Word, y, z \in PatternList :
        [bytesLimit |-> v, inBytesLimit |-> w, outBytesLimit |-> x, whitelist |-> y, blacklist |-> z] \in KeyEntry
  BY DEF KeyEntry
<1> HIDE DEF a, b, c
<1> QED
  BY <1>4, <1>5, <1>6, <1>7, <1>8 DEF applyACLKeyLimit, a, b, c, O

LEMMA FreshType == FreshEntry \in KeyEntry
BY DEF FreshEntry, KeyEntry, Word, PatternList

LEMMA EntryOfType == \A l \in Limit \cup {Nil} : EntryOf(l) \in KeyEntry
BY EntryType, FreshType DEF EntryOf

\* The lists of an entry after a limit was applied to it.
LEMMA ListsAfter ==
  ASSUME NEW ke \in KeyEntry, NEW l \in Limit
  PROVE  LET e == applyACLKeyLimit(ke, l)
         IN  /\ LimitFails(l) => e.whitelist = ke.whitelist /\ e.blacklist = ke.blacklist
             /\ ~LimitFails(l) => e.whitelist = l.whitelist /\ e.blacklist = l.blacklist
BY DEF applyACLKeyLimit, LimitFails

-----------------------------------------------------------------------------
\* Commands.

LEMMA IdleType == IdleCli \in CliRec /\ IdleCli.limit = EmptyLimit
<1>1. (CHOOSE c \in Commands : TRUE) \in CommandRec
  OBVIOUS
<1>2. \A c \in CommandRec, l \in Limit :
        [pc |-> "idle", cmd |-> c, req |-> "show", limit |-> l, status |-> 200,
         before |-> Absent, alone |-> FALSE] \in CliRec
  BY DEF CliRec, CliPhase, Request, Status
<1> QED
  BY <1>1, <1>2, EmptyIsLimit DEF IdleCli

LEMMA CommandFields ==
  ASSUME NEW c \in CommandRec
  PROVE  /\ c.op \in LimitOps \cup {"newKey", "delKey", "show", "usage", "usageReset"}
         /\ c.key \in Key
         /\ c.list \in {"whitelist", "blacklist"}
         /\ c.items \in SUBSET Pattern
         /\ c.bytes \in ByteSpec /\ c.inBytes \in ByteSpec /\ c.outBytes \in ByteSpec
         /\ c.admin \in BOOLEAN
BY DEF CommandRec

LEMMA FirstRequestType ==
  ASSUME NEW c \in CommandRec
  PROVE  FirstRequest(c) \in Request
BY CommandFields DEF FirstRequest, UsageRequest, LimitOps, ListOps, Request

LEMMA ItemsType ==
  ASSUME NEW list \in PatternList, NEW items \in SUBSET Pattern
  PROVE  /\ Items(list) \cup items \in PatternList
         /\ Items(list) \ items \in PatternList
         /\ items \in PatternList
<1>1. Items(list) \in SUBSET Pattern
  BY DEF Items, PatternList
<1> QED
  BY <1>1 DEF PatternList

LEMMA NamedType ==
  ASSUME NEW c \in CommandRec
  PROVE  \A v, old \in ByteSpec : Named(c, v, old) \in ByteSpec
BY DEF Named

LEMMA PutWhitelist ==
  ASSUME NEW l \in Limit, NEW v \in PatternList
  PROVE  LET m == [l EXCEPT !["whitelist"] = v]
         IN  /\ m \in Limit /\ m.whitelist = v /\ m.blacklist = l.blacklist
             /\ m.bytes = l.bytes /\ m.inBytes = l.inBytes /\ m.outBytes = l.outBytes
BY DEF Limit

LEMMA PutBlacklist ==
  ASSUME NEW l \in Limit, NEW v \in PatternList
  PROVE  LET m == [l EXCEPT !["blacklist"] = v]
         IN  /\ m \in Limit /\ m.blacklist = v /\ m.whitelist = l.whitelist
             /\ m.bytes = l.bytes /\ m.inBytes = l.inBytes /\ m.outBytes = l.outBytes
BY DEF Limit

LEMMA PutNumbers ==
  ASSUME NEW l \in Limit, NEW x \in ByteSpec, NEW y \in ByteSpec, NEW z \in ByteSpec
  PROVE  LET m == [l EXCEPT !.bytes = x, !.inBytes = y, !.outBytes = z]
         IN  /\ m \in Limit /\ m.blacklist = l.blacklist /\ m.whitelist = l.whitelist
             /\ m.bytes = x /\ m.inBytes = y /\ m.outBytes = z
BY DEF Limit

LEMMA PutList ==
  ASSUME NEW l \in Limit, NEW name \in {"whitelist", "blacklist"}, NEW v \in PatternList
  PROVE  LET m == [l EXCEPT ![name] = v]
         IN  /\ m \in Limit
             /\ m.whitelist = (IF name = "whitelist" THEN v ELSE l.whitelist)
             /\ m.blacklist = (IF name = "whitelist" THEN l.blacklist ELSE v)
             /\ m.bytes = l.bytes /\ m.inBytes = l.inBytes /\ m.outBytes = l.outBytes
<1>1. CASE name = "whitelist"
  BY <1>1, PutWhitelist
<1>2. CASE name = "blacklist"
  BY <1>2, PutBlacklist
<1> QED
  BY <1>1, <1>2

\* What a list operation makes of a list.
Edited(c, list) ==
  CASE c.op = "add" -> Items(list) \cup c.items
    [] c.op = "del" -> Items(list) \ c.items
    [] c.op = "reset" -> c.items

LEMMA EditedType ==
  ASSUME NEW c \in CommandRec, c.op \in ListOps, NEW list \in PatternList
  PROVE  Edited(c, list) \in PatternList
BY ItemsType, CommandFields DEF Edited, ListOps

LEMMA UpdatedList ==
  ASSUME NEW c \in CommandRec, c.op \in ListOps, NEW l \in Limit
  PROVE  Updated(c, l) = [l EXCEPT ![c.list] = Edited(c, l[c.list])]
<1>1. c.op # "limit"
  BY DEF ListOps
<1> QED
  BY <1>1 DEF Updated, Edited

LEMMA ListOf ==
  ASSUME NEW c \in CommandRec, NEW l \in Limit
  PROVE  /\ l[c.list] \in PatternList
         /\ l[c.list] = IF c.list = "whitelist" THEN l.whitelist ELSE l.blacklist
<1>1. c.list \in {"whitelist", "blacklist"}
  BY CommandFields
<1>2. l.whitelist \in PatternList /\ l.blacklist \in PatternList
  BY DEF Limit
<1> QED
  BY <1>1, <1>2

LEMMA UpdatedType ==
  ASSUME NEW c \in CommandRec, c.op \in ListOps \cup {"limit"}, NEW l \in Limit
  PROVE  Updated(c, l) \in Limit
<1>1. CASE c.op \in ListOps
  BY <1>1, UpdatedList, EditedType, ListOf, PutList, CommandFields
<1>2. CASE c.op = "limit"
  <2>1. l.bytes \in ByteSpec /\ l.inBytes \in ByteSpec /\ l.outBytes \in ByteSpec
    BY DEF Limit
  <2> DEFINE x == Named(c, c.bytes, l.bytes)
             y == Named(c, c.inBytes, l.inBytes)
             z == Named(c, c.outBytes, l.outBytes)
  <2>2. c.bytes \in ByteSpec /\ c.inBytes \in ByteSpec /\ c.outBytes \in ByteSpec
    BY CommandFields
  <2>3. x \in ByteSpec /\ y \in ByteSpec /\ z \in ByteSpec
    BY <2>1, <2>2, NamedType
  <2>4. Updated(c, l) = [l EXCEPT !.bytes = x, !.inBytes = y, !.outBytes = z]
    BY <1>2 DEF Updated
  <2> HIDE DEF x, y, z
  <2> QED
    BY <2>3, <2>4 DEF Limit
<1> QED
  BY <1>1, <1>2

\* What a command makes of the limit that is edited.
New(c, old) ==
  CASE c.op = "limitReset" -> EmptyLimit
    [] c.op = "limit" ->
         [old EXCEPT !.bytes = Named(c, c.bytes, @),
                     !.inBytes = Named(c, c.inBytes, @),
                     !.outBytes = Named(c, c.outBytes, @)]
    [] c.op = "add" -> [old EXCEPT ![c.list] = SavedList(Items(@) \cup c.items)]
    [] c.op = "del" -> [old EXCEPT ![c.list] = SavedList(Items(@) \ c.items)]
    [] c.op = "reset" -> [old EXCEPT ![c.list] = SavedList(c.items)]

LEMMA MeaningIs ==
  ASSUME NEW c, NEW l
  PROVE  Meaning(c, l) = IF l = Absent \/ c.op \notin LimitOps THEN l
                         ELSE IF c.op = "limit" /\ ~Changes(c) THEN l
                         ELSE IF LimitFails(New(c, Old(l))) THEN l ELSE New(c, Old(l))
BY DEF Meaning, New, Old

LEMMA NewReset ==
  ASSUME NEW c, NEW old, c.op = "limitReset"
  PROVE  New(c, old) = EmptyLimit
BY DEF New

LEMMA NewNumbers ==
  ASSUME NEW c, NEW old, c.op = "limit"
  PROVE  New(c, old) = [old EXCEPT !.bytes = Named(c, c.bytes, old.bytes),
                                   !.inBytes = Named(c, c.inBytes, old.inBytes),
                                   !.outBytes = Named(c, c.outBytes, old.outBytes)]
BY DEF New

LEMMA NewList ==
  ASSUME NEW c, NEW old, c.op \in ListOps
  PROVE  New(c, old) = [old EXCEPT ![c.list] = SavedList(Edited(c, old[c.list]))]
<1>1. c.op = "add" \/ c.op = "del" \/ c.op = "reset"
  BY DEF ListOps
<1>2. CASE c.op = "add"
  BY <1>2 DEF New, Edited
<1>3. CASE c.op = "del"
  BY <1>3 DEF New, Edited
<1>4. CASE c.op = "reset"
  BY <1>4 DEF New, Edited
<1> QED
  BY <1>1, <1>2, <1>3, <1>4

\* The fields of what a list operation or a change of numbers makes of a limit.
LEMMA NewListFields ==
  ASSUME NEW c \in CommandRec, c.op \in ListOps, NEW old \in Limit
  PROVE  LET n == New(c, old)
             v == SavedList(Edited(c, old[c.list]))
         IN  /\ n \in Limit /\ v \in PatternList
             /\ n.whitelist = (IF c.list = "whitelist" THEN v ELSE old.whitelist)
             /\ n.blacklist = (IF c.list = "whitelist" THEN old.blacklist ELSE v)
             /\ n.bytes = old.bytes /\ n.inBytes = old.inBytes /\ n.outBytes = old.outBytes
<1> DEFINE v == SavedList(Edited(c, old[c.list]))
<1>1. v \in PatternList
  BY ListOf, EditedType, SavedListType
<1>2. New(c, old) = [old EXCEPT ![c.list] = v]
  BY NewList
<1>3. c.list \in {"whitelist", "blacklist"}
  BY CommandFields
<1> HIDE DEF v
<1>4. LET n == New(c, old)
      IN  /\ n \in Limit
          /\ n.whitelist = (IF c.list = "whitelist" THEN v ELSE old.whitelist)
          /\ n.blacklist = (IF c.list = "whitelist" THEN old.blacklist ELSE v)
          /\ n.bytes = old.bytes /\ n.inBytes = old.inBytes /\ n.outBytes = old.outBytes
  BY <1>1, <1>2, <1>3 DEF Limit
<1> QED
  BY <1>1, <1>4 DEF v

LEMMA NewNumberFields ==
  ASSUME NEW c \in CommandRec, c.op = "limit", NEW old \in Limit
  PROVE  LET n == New(c, old)
         IN  /\ n \in Limit
             /\ n.whitelist = old.whitelist /\ n.blacklist = old.blacklist
             /\ n.bytes = Named(c, c.bytes, old.bytes)
             /\ n.inBytes = Named(c, c.inBytes, old.inBytes)
             /\ n.outBytes = Named(c, c.outBytes, old.outBytes)
<1> DEFINE x == Named(c, c.bytes, old.bytes)
           y == Named(c, c.inBytes, old.inBytes)
           z == Named(c, c.outBytes, old.outBytes)
<1>1. old.bytes \in ByteSpec /\ old.inBytes \in ByteSpec /\ old.outBytes \in ByteSpec
  BY DEF Limit
<1>2. c.bytes \in ByteSpec /\ c.inBytes \in ByteSpec /\ c.outBytes \in ByteSpec
  BY CommandFields
<1>3. x \in ByteSpec /\ y \in ByteSpec /\ z \in ByteSpec
  BY <1>1, <1>2, NamedType
<1>4. New(c, old) = [old EXCEPT !.bytes = x, !.inBytes = y, !.outBytes = z]
  BY NewNumbers
<1> HIDE DEF x, y, z
<1>5. LET n == New(c, old)
      IN  /\ n \in Limit /\ n.whitelist = old.whitelist /\ n.blacklist = old.blacklist
          /\ n.bytes = x /\ n.inBytes = y /\ n.outBytes = z
  BY <1>3, <1>4 DEF Limit
<1> QED
  BY <1>5 DEF x, y, z

LEMMA NewType ==
  ASSUME NEW c \in CommandRec, c.op \in LimitOps, NEW old \in Limit
  PROVE  New(c, old) \in Limit
BY NewListFields, NewNumberFields, NewReset, EmptyIsLimit DEF LimitOps

\* Doing a command twice does what doing it once does.
LEMMA EditedTwice ==
  ASSUME NEW c \in CommandRec, c.op \in ListOps, NEW list \in PatternList
  PROVE  SavedList(Edited(c, SavedList(Edited(c, list)))) = SavedList(Edited(c, list))
<1>1. c.op = "add" \/ c.op = "del" \/ c.op = "reset"
  BY DEF ListOps
<1>2. c.items \in SUBSET Pattern
  BY CommandFields
<1>3. \A w \in SUBSET Pattern : Items(SavedList(w)) = w
  BY NilListAssumption DEF Items, SavedList
<1>4. Items(list) \in SUBSET Pattern
  BY DEF Items, PatternList
<1> DEFINE w == Items(list)
<1> HIDE DEF w
<1>5. CASE c.op = "add"
  <2>1. Edited(c, list) = w \cup c.items
    BY <1>5 DEF Edited, w
  <2>2. w \cup c.items \in SUBSET Pattern
    BY <1>2, <1>4 DEF w
  <2>3. Edited(c, SavedList(w \cup c.items)) = (w \cup c.items) \cup c.items
    BY <1>3, <1>5, <2>2 DEF Edited
  <2>4. (w \cup c.items) \cup c.items = w \cup c.items
    OBVIOUS
  <2> QED
    BY <2>1, <2>3, <2>4
<1>6. CASE c.op = "del"
  <2>1. Edited(c, list) = w \ c.items
    BY <1>6 DEF Edited, w
  <2>2. w \ c.items \in SUBSET Pattern
    BY <1>4 DEF w
  <2>3. Edited(c, SavedList(w \ c.items)) = (w \ c.items) \ c.items
    BY <1>3, <1>6, <2>2 DEF Edited
  <2>4. (w \ c.items) \ c.items = w \ c.items
    OBVIOUS
  <2> QED
    BY <2>1, <2>3, <2>4
<1>7. CASE c.op = "reset"
  BY <1>7 DEF Edited
<1> QED
  BY <1>1, <1>5, <1>6, <1>7

LEMMA NewTwice ==
  ASSUME NEW c \in CommandRec, c.op \in LimitOps, NEW old \in Limit
  PROVE  New(c, New(c, old)) = New(c, old)
<1>0. c.op = "limitReset" \/ c.op = "limit" \/ c.op \in ListOps
  BY DEF LimitOps
<1> DEFINE n == New(c, old)
           m == New(c, n)
<1>1. n \in Limit
  BY NewType
<1>2. m \in Limit
  BY <1>1, NewType
<1>3. CASE c.op = "limitReset"
  BY <1>3, NewReset
<1>4. CASE c.op = "limit"
  <2>1. /\ n.bytes = Named(c, c.bytes, old.bytes) /\ n.inBytes = Named(c, c.inBytes, old.inBytes)
        /\ n.outBytes = Named(c, c.outBytes, old.outBytes)
    BY <1>4, NewNumberFields
  <2> HIDE DEF n
  <2>2. /\ m.whitelist = n.whitelist /\ m.blacklist = n.blacklist
        /\ m.bytes = Named(c, c.bytes, n.bytes) /\ m.inBytes = Named(c, c.inBytes, n.inBytes)
        /\ m.outBytes = Named(c, c.outBytes, n.outBytes)
    BY <1>1, <1>4, NewNumberFields
  <2> HIDE DEF m
  <2>3. m.bytes = n.bytes /\ m.inBytes = n.inBytes /\ m.outBytes = n.outBytes
    BY <2>1, <2>2 DEF Named
  <2>4. m = n
    BY <1>1, <1>2, <2>2, <2>3, SameLimit
  <2> QED
    BY <2>4 DEF n, m
<1>5. CASE c.op \in ListOps
  <2> DEFINE v == SavedList(Edited(c, old[c.list]))
             u == SavedList(Edited(c, n[c.list]))
  <2>1. /\ n.whitelist = (IF c.list = "whitelist" THEN v ELSE old.whitelist)
        /\ n.blacklist = (IF c.list = "whitelist" THEN old.blacklist ELSE v)
        /\ v \in PatternList
    BY <1>5, NewListFields
  <2>2. old[c.list] \in PatternList
    BY ListOf
  <2>3. SavedList(Edited(c, v)) = v
    BY <1>5, <2>2, EditedTwice
  <2> HIDE DEF n, v
  <2>4. n[c.list] = v
    BY <1>1, <2>1, ListOf
  <2>5. u = v
    BY <2>3, <2>4
  <2>6. /\ m.whitelist = (IF c.list = "whitelist" THEN u ELSE n.whitelist)
        /\ m.blacklist = (IF c.list = "whitelist" THEN n.blacklist ELSE u)
        /\ m.bytes = n.bytes /\ m.inBytes = n.inBytes /\ m.outBytes = n.outBytes
    BY <1>1, <1>5, NewListFields
  <2> HIDE DEF m, u
  <2>7. m.whitelist = n.whitelist /\ m.blacklist = n.blacklist
    BY <2>1, <2>5, <2>6
  <2>8. m = n
    BY <1>1, <1>2, <2>6, <2>7, SameLimit
  <2> QED
    BY <2>8 DEF n, m
<1> QED
  BY <1>0, <1>3, <1>4, <1>5

LEMMA MeaningTwice ==
  ASSUME NEW c \in CommandRec, NEW l \in Limit \cup {Nil, Absent}
  PROVE  Meaning(c, Meaning(c, l)) = Meaning(c, l)
<1>1. CASE l = Absent \/ c.op \notin LimitOps \/ (c.op = "limit" /\ ~Changes(c))
  BY <1>1, MeaningIs
<1>2. CASE l # Absent /\ c.op \in LimitOps /\ ~(c.op = "limit" /\ ~Changes(c))
  <2> DEFINE n == New(c, Old(l))
  <2>1. Old(l) \in Limit
    BY <1>2, EmptyIsLimit DEF Old
  <2>2. n \in Limit
    BY <1>2, <2>1, NewType
  <2>3. New(c, n) = n
    BY <1>2, <2>1, NewTwice
  <2>4. Meaning(c, l) = IF LimitFails(n) THEN l ELSE n
    BY <1>2, MeaningIs
  <2> HIDE DEF n
  <2>5. n # Absent /\ Old(n) = n
    BY <2>2 DEF Old
  <2>6. CASE LimitFails(n)
    BY <2>4, <2>6
  <2>7. CASE ~LimitFails(n)
    <3>1. Meaning(c, n) = n
      BY <2>3, <2>5, MeaningIs
    <3> QED
      BY <2>4, <2>7, <3>1
  <2> QED
    BY <2>6, <2>7
<1> QED
  BY <1>1, <1>2

-----------------------------------------------------------------------------
\* What an editing process sends does what its command means.

LEMMA ShownIsOld ==
  ASSUME NEW l \in Limit \cup {Nil}, SavedLimit(l) = l
  PROVE  /\ Shown(l) = Old(l) /\ Old(l) \in Limit
         /\ SavedList(Old(l).whitelist) = Old(l).whitelist
         /\ SavedList(Old(l).blacklist) = Old(l).blacklist
<1>1. CASE l = Nil
  BY <1>1, EmptyIsLimit, SavedHasNoEmptyList DEF Shown, Old
<1>2. CASE l \in Limit
  BY <1>2, SavedHasNoEmptyList DEF Shown, Old
<1> QED
  BY <1>1, <1>2

LEMMA SentIsNew ==
  ASSUME NEW c \in CommandRec, c.op \in LimitOps, NEW l \in Limit \cup {Nil}, SavedLimit(l) = l
  PROVE  Sent(c, l) = New(c, Old(l))
<1> DEFINE o == Old(l)
           u == Updated(c, o)
           s == SavedLimit(u)
           n == New(c, o)
<1>1. /\ o \in Limit /\ Shown(l) = o
      /\ SavedList(o.whitelist) = o.whitelist /\ SavedList(o.blacklist) = o.blacklist
  BY ShownIsOld
<1> HIDE DEF o
<1>2. n \in Limit
  BY <1>1, NewType
<1>3. CASE c.op = "limitReset"
  BY <1>3, NewReset DEF Sent
<1>4. CASE c.op = "limit"
  <2>1. u = n
    BY <1>4, NewNumbers DEF Updated
  <2>2. n.whitelist = o.whitelist /\ n.blacklist = o.blacklist
    BY <1>1, <1>4, NewNumberFields
  <2> HIDE DEF n, u
  <2>3. /\ s \in Limit /\ s.bytes = n.bytes /\ s.inBytes = n.inBytes /\ s.outBytes = n.outBytes
        /\ s.whitelist = SavedList(n.whitelist) /\ s.blacklist = SavedList(n.blacklist)
    BY <1>2, <2>1, SavedFields
  <2> HIDE DEF s
  <2>4. s = n
    BY <1>1, <1>2, <2>2, <2>3, SameLimit
  <2>5. Sent(c, l) = s
    BY <1>1, <1>4 DEF Sent, s, u
  <2> QED
    BY <2>4, <2>5 DEF n, o
<1>5. CASE c.op \in ListOps
  <2> DEFINE v == Edited(c, o[c.list])
             w == SavedList(v)
  <2>1. v \in PatternList
    BY <1>1, <1>5, ListOf, EditedType
  <2>2. u = [o EXCEPT ![c.list] = v]
    BY <1>1, <1>5, UpdatedList
  <2>3. /\ n.whitelist = (IF c.list = "whitelist" THEN w ELSE o.whitelist)
        /\ n.blacklist = (IF c.list = "whitelist" THEN o.blacklist ELSE w)
        /\ n.bytes = o.bytes /\ n.inBytes = o.inBytes /\ n.outBytes = o.outBytes
    BY <1>1, <1>5, NewListFields
  <2>4. c.list \in {"whitelist", "blacklist"}
    BY CommandFields
  <2> HIDE DEF v, u, n
  <2>5. /\ u \in Limit
        /\ u.whitelist = (IF c.list = "whitelist" THEN v ELSE o.whitelist)
        /\ u.blacklist = (IF c.list = "whitelist" THEN o.blacklist ELSE v)
        /\ u.bytes = o.bytes /\ u.inBytes = o.inBytes /\ u.outBytes = o.outBytes
    BY <1>1, <2>1, <2>2, <2>4 DEF Limit
  <2>6. /\ s \in Limit /\ s.bytes = u.bytes /\ s.inBytes = u.inBytes /\ s.outBytes = u.outBytes
        /\ s.whitelist = SavedList(u.whitelist) /\ s.blacklist = SavedList(u.blacklist)
    BY <2>5, SavedFields
  <2> HIDE DEF s
  <2>7. s.whitelist = n.whitelist /\ s.blacklist = n.blacklist
    BY <1>1, <2>3, <2>5, <2>6
  <2>8. s = n
    BY <1>2, <2>3, <2>5, <2>6, <2>7, SameLimit
  <2>9. c.op # "limitReset"
    BY <1>5 DEF ListOps
  <2>10. Sent(c, l) = s
    BY <1>1, <2>9 DEF Sent, s, u
  <2> QED
    BY <2>8, <2>10 DEF n, o
<1> QED
  BY <1>3, <1>4, <1>5 DEF LimitOps

LEMMA PatchMeans ==
  ASSUME NEW c \in CommandRec, c.op \in LimitOps, c.op = "limit" => Changes(c),
         NEW l \in Limit \cup {Nil}, SavedLimit(l) = l
  PROVE  (IF LimitFails(Sent(c, l)) THEN l ELSE Sent(c, l)) = Meaning(c, l)
<1>1. l # Absent
  OBVIOUS
<1> QED
  BY <1>1, SentIsNew, MeaningIs

LEMMA NothingMeant ==
  ASSUME NEW c \in CommandRec, c.op \in LimitOps, c.op # "limitReset", ~Changes(c), NEW l
  PROVE  Meaning(c, l) = l
BY MeaningIs DEF Changes, LimitOps

-----------------------------------------------------------------------------
\* Records of processes and of keys.

LEMMA CliFields ==
  ASSUME NEW c \in CliRec
  PROVE  /\ c.pc \in CliPhase
         /\ c.cmd \in CommandRec
         /\ c.req \in Request
         /\ c.limit \in Limit /\ c.status \in Status
         /\ c.before \in Limit \cup {Nil, Absent} /\ c.alone \in BOOLEAN
BY DEF CliRec

LEMMA SetPc ==
  ASSUME NEW c \in CliRec, NEW pc \in CliPhase
  PROVE  [c EXCEPT !.pc = pc] \in CliRec
BY Zenon DEF CliRec

LEMMA SetAlone ==
  ASSUME NEW c \in CliRec, NEW alone \in BOOLEAN
  PROVE  [c EXCEPT !.alone = alone] \in CliRec
BY Zenon DEF CliRec

LEMMA SetAnswer ==
  ASSUME NEW c \in CliRec, NEW status \in Status, NEW limit \in Limit
  PROVE  [c EXCEPT !.pc = "response", !.status = status, !.limit = limit] \in CliRec
<1> DEFINE a == [c EXCEPT !.pc = "response"]
           b == [a EXCEPT !.status = status]
           d == [b EXCEPT !.limit = limit]
<1>0. "response" \in CliPhase
  BY DEF CliPhase
<1>1. a \in CliRec
  BY <1>0, SetPc
<1> HIDE DEF a
<1>2. b \in CliRec
  BY <1>1, Zenon DEF CliRec
<1> HIDE DEF b
<1>3. d \in CliRec
  BY <1>2, Zenon DEF CliRec
<1> QED
  BY <1>3 DEF a, b, d

LEMMA SetUpdate ==
  ASSUME NEW c \in CliRec, NEW limit \in Limit
  PROVE  [c EXCEPT !.pc = "request", !.req = "patchLimit", !.limit = limit] \in CliRec
<1> DEFINE a == [c EXCEPT !.pc = "request"]
           b == [a EXCEPT !.req = "patchLimit"]
           d == [b EXCEPT !.limit = limit]
<1>0. /\ "request" \in CliPhase
      /\ "patchLimit" \in Request
  BY DEF CliPhase, Request
<1>1. a \in CliRec
  BY <1>0, SetPc
<1> HIDE DEF a
<1>2. b \in CliRec
  BY <1>0, <1>1, Zenon DEF CliRec
<1> HIDE DEF b
<1>3. d \in CliRec
  BY <1>2, Zenon DEF CliRec
<1> QED
  BY <1>3 DEF a, b, d

LEMMA KeyFields ==
  ASSUME NEW r \in KeyRec
  PROVE  r.entry \in KeyEntry /\ r.limit \in Limit \cup {Nil} /\ r.usage \in Usage /\ r # Absent
BY DEF KeyRec

LEMMA StoredType ==
  ASSUME TypeOK, NEW k \in Key
  PROVE  /\ Stored(k) \in Limit \cup {Nil, Absent}
         /\ Exists(k) <=> Stored(k) # Absent
         /\ Exists(k) => server[k] \in KeyRec /\ Stored(k) = server[k].limit
                         /\ Stored(k) \in Limit \cup {Nil}
<1>1. server[k] \in KeyRec \cup {Absent}
  BY DEF TypeOK
<1> QED
  BY <1>1, KeyFields DEF Stored, StoredIn, Exists

-----------------------------------------------------------------------------
\* One process and the limit stored for its key.

LEMMA BegunType ==
  ASSUME NEW cmd \in CommandRec, NEW before \in Limit \cup {Nil, Absent}, NEW alone \in BOOLEAN
  PROVE  Begun(cmd, before, alone) \in CliRec
<1>1. FirstRequest(cmd) \in Request /\ EmptyLimit \in Limit
  BY FirstRequestType, EmptyIsLimit
<1>2. "request" \in CliPhase /\ 200 \in Status
  BY DEF CliPhase, Status
<1>3. \A r \in Request, l \in Limit, s \in Status, pc \in CliPhase :
        [pc |-> pc, cmd |-> cmd, req |-> r, limit |-> l, status |-> s, before |-> before, alone |-> alone]
          \in CliRec
  BY DEF CliRec
<1> QED
  BY <1>1, <1>2, <1>3 DEF Begun

LEMMA FirstRequestFits ==
  ASSUME NEW cmd \in CommandRec, cmd.op \in LimitOps
  PROVE  FirstRequest(cmd) = IF cmd.op = "limitReset" THEN "patchLimit" ELSE "getLimit"
BY DEF FirstRequest, LimitOps, ListOps

LEMMA FitBegun ==
  ASSUME NEW cmd \in CommandRec, NEW before, NEW alone \in BOOLEAN, NEW l,
         cmd.op \in LimitOps /\ alone => l = before \/ l = Meaning(cmd, before)
  PROVE  Fit(Begun(cmd, before, alone), l)
<1> DEFINE r == Begun(cmd, before, alone)
<1>1. /\ r.pc = "request" /\ r.cmd = cmd /\ r.req = FirstRequest(cmd) /\ r.limit = EmptyLimit
      /\ r.before = before /\ r.alone = alone
  BY DEF Begun
<1>2. cmd.op = "limitReset" => Sent(cmd, l) = EmptyLimit
  BY DEF Sent
<1> HIDE DEF r
<1>3. Fit(r, l)
  BY <1>1, <1>2, FirstRequestFits DEF Fit
<1> QED
  BY <1>3 DEF r

LEMMA UpdateFields ==
  ASSUME NEW c \in CliRec, NEW limit
  PROVE  LET r == [c EXCEPT !.pc = "request", !.req = "patchLimit", !.limit = limit]
         IN  /\ r.pc = "request" /\ r.req = "patchLimit" /\ r.limit = limit
             /\ r.cmd = c.cmd /\ r.before = c.before /\ r.alone = c.alone
<1> DEFINE a == [c EXCEPT !.pc = "request"]
           b == [a EXCEPT !.req = "patchLimit"]
           d == [b EXCEPT !.limit = limit]
<1>0. /\ "request" \in CliPhase /\ "patchLimit" \in Request
  BY DEF CliPhase, Request
<1>1. a \in CliRec /\ a.pc = "request" /\ a.cmd = c.cmd /\ a.before = c.before /\ a.alone = c.alone
  BY <1>0, SetPc, CliFields DEF CliRec
<1> HIDE DEF a
<1>2. b \in CliRec
  BY <1>0, <1>1, Zenon DEF CliRec
<1>3. /\ b.pc = a.pc /\ b.req = "patchLimit" /\ b.cmd = a.cmd /\ b.before = a.before
      /\ b.alone = a.alone
  BY <1>1 DEF CliRec
<1> HIDE DEF b
<1>4. /\ d.pc = b.pc /\ d.req = b.req /\ d.limit = limit /\ d.cmd = b.cmd
      /\ d.before = b.before /\ d.alone = b.alone
  BY <1>2 DEF CliRec
<1> QED
  BY <1>1, <1>3, <1>4 DEF a, b, d

LEMMA FitUpdate ==
  ASSUME NEW c \in CliRec, NEW l, Fit(c, l),
         c.pc = "response", c.status # 401, c.req = "getLimit", Changes(c.cmd)
  PROVE  Fit([c EXCEPT !.pc = "request", !.req = "patchLimit",
                       !.limit = SavedLimit(Updated(c.cmd, c.limit))], l)
<1> DEFINE limit == SavedLimit(Updated(c.cmd, c.limit))
           r == [c EXCEPT !.pc = "request", !.req = "patchLimit", !.limit = limit]
<1>1. /\ r.pc = "request" /\ r.req = "patchLimit" /\ r.limit = limit
      /\ r.cmd = c.cmd /\ r.before = c.before /\ r.alone = c.alone
  BY UpdateFields
<1>2. c.cmd.op # "limitReset"
  BY DEF Changes, ListOps
<1>3. c.limit = Shown(l) => limit = Sent(c.cmd, l)
  BY <1>2 DEF Sent
<1> HIDE DEF r, limit
<1>4. Fit(r, l)
  BY <1>1, <1>2, <1>3 DEF Fit
<1> QED
  BY <1>4 DEF r, limit

LEMMA PcFields ==
  ASSUME NEW c \in CliRec, NEW pc
  PROVE  LET r == [c EXCEPT !.pc = pc]
         IN  /\ r.pc = pc /\ r.req = c.req /\ r.limit = c.limit /\ r.status = c.status
             /\ r.cmd = c.cmd /\ r.before = c.before /\ r.alone = c.alone
BY DEF CliRec

LEMMA FitError ==
  ASSUME NEW c \in CliRec, NEW l, Fit(c, l), c.pc # "idle"
  PROVE  Fit([c EXCEPT !.pc = "error"], l)
<1> DEFINE r == [c EXCEPT !.pc = "error"]
<1>1. /\ r.pc = "error" /\ r.req = c.req /\ r.limit = c.limit /\ r.status = c.status
      /\ r.cmd = c.cmd /\ r.before = c.before /\ r.alone = c.alone
  BY PcFields
<1> HIDE DEF r
<1>2. Fit(r, l)
  BY <1>1 DEF Fit
<1> QED
  BY <1>2 DEF r

LEMMA FitOk ==
  ASSUME NEW c \in CliRec, NEW l, Fit(c, l), c.pc = "response", c.status # 401,
         ~(c.req = "getLimit" /\ Changes(c.cmd))
  PROVE  Fit([c EXCEPT !.pc = "ok"], l)
<1> DEFINE r == [c EXCEPT !.pc = "ok"]
<1>1. /\ r.pc = "ok" /\ r.req = c.req /\ r.limit = c.limit /\ r.status = c.status
      /\ r.cmd = c.cmd /\ r.before = c.before /\ r.alone = c.alone
  BY PcFields
<1>2. c.cmd \in CommandRec
  BY CliFields
<1>3. c.alone /\ c.cmd.op \in LimitOps => l = Meaning(c.cmd, c.before)
  <2> SUFFICES ASSUME c.alone, c.cmd.op \in LimitOps
               PROVE  l = Meaning(c.cmd, c.before)
    OBVIOUS
  <2>1. CASE c.req = "patchLimit"
    BY <2>1 DEF Fit
  <2>2. CASE c.req = "getLimit"
    <3>1. c.cmd.op # "limitReset" /\ ~Changes(c.cmd)
      BY <2>2 DEF Fit
    <3>2. Meaning(c.cmd, c.before) = c.before
      BY <1>2, <3>1, NothingMeant
    <3> QED
      BY <3>2 DEF Fit
  <2> QED
    BY <2>1, <2>2 DEF Fit
<1> HIDE DEF r
<1>4. Fit(r, l)
  BY <1>1, <1>3 DEF Fit
<1> QED
  BY <1>4 DEF r

LEMMA AnswerFields ==
  ASSUME NEW c \in CliRec, NEW status \in Status, NEW limit \in Limit
  PROVE  LET r == [c EXCEPT !.pc = "response", !.status = status, !.limit = limit]
         IN  /\ r.pc = "response" /\ r.status = status /\ r.limit = limit
             /\ r.req = c.req /\ r.cmd = c.cmd /\ r.before = c.before /\ r.alone = c.alone
<1> DEFINE a == [c EXCEPT !.pc = "response"]
           b == [a EXCEPT !.status = status]
           d == [b EXCEPT !.limit = limit]
<1>0. "response" \in CliPhase
  BY DEF CliPhase
<1>1. a \in CliRec
  BY <1>0, SetPc
<1>2. /\ a.pc = "response" /\ a.req = c.req /\ a.cmd = c.cmd /\ a.before = c.before
      /\ a.alone = c.alone
  BY PcFields
<1> HIDE DEF a
<1>3. b \in CliRec
  BY <1>1, Zenon DEF CliRec
<1>4. /\ b.pc = a.pc /\ b.status = status /\ b.req = a.req /\ b.cmd = a.cmd /\ b.before = a.before
      /\ b.alone = a.alone
  BY <1>1 DEF CliRec
<1> HIDE DEF b
<1>5. /\ d.pc = b.pc /\ d.status = b.status /\ d.limit = limit /\ d.req = b.req /\ d.cmd = b.cmd
      /\ d.before = b.before /\ d.alone = b.alone
  BY <1>3 DEF CliRec
<1> QED
  BY <1>2, <1>4, <1>5 DEF a, b, d

\* An answer that says nothing about the limit leaves the process where it was.
LEMMA FitRefused ==
  ASSUME NEW c \in CliRec, NEW l, Fit(c, l), c.pc = "request"
  PROVE  Fit([c EXCEPT !.pc = "response", !.status = 401], l)
<1> DEFINE r == [c EXCEPT !.pc = "response", !.status = 401]
<1>1. /\ r.pc = "response" /\ r.status = 401 /\ r.limit = c.limit
      /\ r.req = c.req /\ r.cmd = c.cmd /\ r.before = c.before /\ r.alone = c.alone
  BY DEF CliRec
<1> HIDE DEF r
<1>2. Fit(r, l)
  BY <1>1 DEF Fit
<1> QED
  BY <1>2 DEF r

LEMMA FitShown ==
  ASSUME NEW c \in CliRec, NEW l, Fit(c, l), c.pc = "request", c.req = "getLimit", Shown(l) \in Limit
  PROVE  Fit([c EXCEPT !.pc = "response", !.status = 200, !.limit = Shown(l)], l)
<1> DEFINE limit == Shown(l)
           r == [c EXCEPT !.pc = "response", !.status = 200, !.limit = limit]
<1>0. PICK status \in Status : status = 200
  BY DEF Status
<1> HIDE DEF limit
<1>1. /\ r.pc = "response" /\ r.limit = limit
      /\ r.req = c.req /\ r.cmd = c.cmd /\ r.before = c.before /\ r.alone = c.alone
  BY <1>0, AnswerFields DEF limit
<1> HIDE DEF r
<1>2. Fit(r, l)
  BY <1>1 DEF Fit, limit
<1> QED
  BY <1>2 DEF r, limit

\* A request that is not about the limit comes from a command that is not.
LEMMA FitElse ==
  ASSUME NEW c \in CliRec, NEW l, NEW m, Fit(c, l), c.pc = "request",
         c.req \notin {"getLimit", "patchLimit"}, NEW status \in Status, NEW limit \in Limit
  PROVE  Fit([c EXCEPT !.pc = "response", !.status = status, !.limit = limit], m)
<1> DEFINE r == [c EXCEPT !.pc = "response", !.status = status, !.limit = limit]
<1>1. r.pc = "response" /\ r.cmd = c.cmd
  BY AnswerFields
<1>2. c.cmd.op \notin LimitOps
  BY DEF Fit
<1> HIDE DEF r
<1>3. Fit(r, m)
  BY <1>1, <1>2 DEF Fit
<1> QED
  BY <1>3 DEF r

\* What the server stores for a limit that is sent.
Patched(l, limit) == IF l = Absent \/ LimitFails(limit) THEN l ELSE limit

LEMMA FitPatched ==
  ASSUME NEW c \in CliRec, NEW l \in Limit \cup {Nil, Absent}, l # Absent => SavedLimit(l) = l,
         Fit(c, l), c.pc = "request", c.req = "patchLimit", NEW status \in Status
  PROVE  Fit([c EXCEPT !.pc = "response", !.status = status, !.limit = EmptyLimit],
             Patched(l, c.limit))
<1> DEFINE r == [c EXCEPT !.pc = "response", !.status = status, !.limit = EmptyLimit]
           m == Patched(l, c.limit)
<1>1. /\ r.pc = "response" /\ r.status = status
      /\ r.req = c.req /\ r.cmd = c.cmd /\ r.before = c.before /\ r.alone = c.alone
  BY AnswerFields, EmptyIsLimit
<1>2. c.cmd \in CommandRec /\ c.before \in Limit \cup {Nil, Absent}
  BY CliFields
<1>3. c.alone /\ c.cmd.op \in LimitOps => m = Meaning(c.cmd, c.before)
  <2> SUFFICES ASSUME c.alone, c.cmd.op \in LimitOps
               PROVE  m = Meaning(c.cmd, c.before)
    OBVIOUS
  <2>1. l = c.before \/ l = Meaning(c.cmd, c.before)
    BY DEF Fit
  <2>2. c.limit = Sent(c.cmd, l)
    BY DEF Fit
  <2>3. c.cmd.op = "limit" => Changes(c.cmd)
    BY DEF Fit
  <2>4. Meaning(c.cmd, l) = Meaning(c.cmd, c.before)
    BY <1>2, <2>1, MeaningTwice
  <2>5. CASE l = Absent
    BY <2>4, <2>5, MeaningIs DEF Patched
  <2>6. CASE l # Absent
    <3>1. l \in Limit \cup {Nil} /\ SavedLimit(l) = l
      BY <2>6
    <3>2. m = IF LimitFails(Sent(c.cmd, l)) THEN l ELSE Sent(c.cmd, l)
      BY <2>2, <2>6 DEF Patched
    <3> QED
      BY <1>2, <2>3, <2>4, <3>1, <3>2, PatchMeans
  <2> QED
    BY <2>5, <2>6
<1> HIDE DEF r, m
<1>4. Fit(r, m)
  BY <1>1, <1>3 DEF Fit
<1> QED
  BY <1>4 DEF r, m

\* A process that somebody else interfered with is not alone any more.
LEMMA FitOther ==
  ASSUME NEW c \in CliRec, NEW l, NEW m, Fit(c, l)
  PROVE  Fit([c EXCEPT !.alone = c.alone /\ m = l], m)
<1> DEFINE alone == c.alone /\ m = l
           r == [c EXCEPT !.alone = alone]
<1>0. alone \in BOOLEAN /\ (alone => c.alone /\ m = l)
  OBVIOUS
<1> HIDE DEF alone
<1>1. /\ r.pc = c.pc /\ r.status = c.status /\ r.limit = c.limit
      /\ r.req = c.req /\ r.cmd = c.cmd /\ r.before = c.before /\ r.alone = alone
  BY DEF CliRec
<1> HIDE DEF r
<1>2. Fit(r, m)
  BY <1>0, <1>1 DEF Fit
<1> QED
  BY <1>2 DEF r, alone

-----------------------------------------------------------------------------
\* The inductive invariant over the steps of a process and of the server.

LEMMA StoredSaved ==
  ASSUME CLIInv, NEW k \in Key
  PROVE  Stored(k) # Absent => SavedLimit(Stored(k)) = Stored(k)
BY DEF CLIInv, KeysOK, RecOK, Stored, StoredIn

\* A step of a process alone.
LEMMA ClientStep ==
  ASSUME CLIInv, NEW p \in Cli, NEW r \in CliRec,
         cli' = [cli EXCEPT ![p] = r], SavedLimit(r.limit) = r.limit,
         Fit(r, Stored(r.cmd.key)), runs' \in 0 .. MaxRuns, UNCHANGED <<server, used, first, order>>
  PROVE  CLIInv'
<1>1. cli \in [Cli -> CliRec]
  BY DEF CLIInv, TypeOK
<1>2. cli' \in [Cli -> CliRec]
  BY <1>1
<1>3. TypeOK'
  BY <1>2 DEF CLIInv, TypeOK
<1>4. KeysOK'
  BY DEF CLIInv, KeysOK
<1>5. CopiesSaved'
  BY <1>1 DEF CLIInv, CopiesSaved
<1>6. AllFit'
  <2> SUFFICES ASSUME NEW q \in Cli
               PROVE  Fit(cli'[q], StoredIn(server', cli'[q].cmd.key))
    BY DEF AllFit, Stored
  <2>1. \A k : StoredIn(server', k) = Stored(k)
    BY DEF Stored, StoredIn
  <2>2. CASE q = p
    BY <1>1, <2>1, <2>2
  <2>3. CASE q # p
    <3>1. cli'[q] = cli[q]
      BY <1>1, <2>3
    <3> QED
      BY <2>1, <3>1 DEF CLIInv, AllFit
  <2> QED
    BY <2>2, <2>3
<1> QED
  BY <1>3, <1>4, <1>5, <1>6 DEF CLIInv

\* A step of the server that answers p.
LEMMA ServerStep ==
  ASSUME CLIInv, NEW p \in Cli, NEW status \in Status, NEW limit \in Limit,
         SavedLimit(limit) = limit, Respond(p, status, limit),
         server' \in [Key -> KeyRec \cup {Absent}],
         \A k \in Key : server'[k] # Absent => RecOK(server'[k]),
         Fit([cli[p] EXCEPT !.pc = "response", !.status = status, !.limit = limit],
             StoredIn(server', cli[p].cmd.key)),
         runs' = runs, used' \subseteq Key,
         first' \in [Key -> Limit \cup {Nil, Absent}], order' \in Seq(CommandRec)
  PROVE  CLIInv'
<1> DEFINE r == [cli[p] EXCEPT !.pc = "response", !.status = status, !.limit = limit]
           O(q) == [cli[q] EXCEPT !.alone = cli[q].alone /\ StoredIn(server', cli[q].cmd.key) = Stored(cli[q].cmd.key)]
<1>1. cli \in [Cli -> CliRec]
  BY DEF CLIInv, TypeOK
<1>2. cli' = [q \in Cli |-> IF q = p THEN r ELSE O(q)]
  BY DEF Respond
<1>3. r \in CliRec /\ r.limit = limit /\ r.cmd = cli[p].cmd
  <2> DEFINE c == cli[p]
  <2>1. c \in CliRec
    BY <1>1
  <2> HIDE DEF c
  <2>2. r \in CliRec
    BY <2>1, SetAnswer DEF c
  <2>3. LET d == [c EXCEPT !.pc = "response", !.status = status, !.limit = limit]
        IN  d.limit = limit /\ d.cmd = c.cmd
    BY <2>1, AnswerFields
  <2> QED
    BY <2>2, <2>3 DEF c
<1>4. \A q \in Cli : O(q) \in CliRec /\ O(q).limit = cli[q].limit /\ O(q).cmd = cli[q].cmd
  <2> SUFFICES ASSUME NEW q \in Cli
               PROVE  O(q) \in CliRec /\ O(q).limit = cli[q].limit /\ O(q).cmd = cli[q].cmd
    OBVIOUS
  <2> DEFINE alone == cli[q].alone /\ StoredIn(server', cli[q].cmd.key) = Stored(cli[q].cmd.key)
  <2>1. cli[q] \in CliRec /\ alone \in BOOLEAN
    BY <1>1
  <2> HIDE DEF alone
  <2>2. [cli[q] EXCEPT !.alone = alone] \in CliRec
    BY <2>1, SetAlone
  <2>3. /\ [cli[q] EXCEPT !.alone = alone].limit = cli[q].limit
        /\ [cli[q] EXCEPT !.alone = alone].cmd = cli[q].cmd
    BY <2>1 DEF CliRec
  <2> QED
    BY <2>2, <2>3 DEF alone
<1>5. \A q \in Cli : Fit(O(q), StoredIn(server', cli[q].cmd.key))
  <2> SUFFICES ASSUME NEW q \in Cli
               PROVE  Fit(O(q), StoredIn(server', cli[q].cmd.key))
    OBVIOUS
  <2>1. cli[q] \in CliRec /\ Fit(cli[q], Stored(cli[q].cmd.key))
    BY <1>1 DEF CLIInv, AllFit
  <2> QED
    BY <2>1, FitOther
<1> HIDE DEF r, O
<1>6. cli' \in [Cli -> CliRec]
  BY <1>2, <1>3, <1>4
<1>7. TypeOK'
  BY <1>6 DEF CLIInv, TypeOK
<1>8. KeysOK'
  BY DEF KeysOK
<1>9. CopiesSaved'
  <2> SUFFICES ASSUME NEW q \in Cli
               PROVE  SavedLimit(cli'[q].limit) = cli'[q].limit
    BY DEF CopiesSaved
  <2>1. cli'[q] = IF q = p THEN r ELSE O(q)
    BY <1>2
  <2>2. SavedLimit(cli[q].limit) = cli[q].limit
    BY DEF CLIInv, CopiesSaved
  <2>3. CASE q = p
    BY <1>3, <2>1, <2>3
  <2>4. CASE q # p
    BY <1>4, <2>1, <2>2, <2>4
  <2> QED
    BY <2>3, <2>4
<1>10. AllFit'
  <2> SUFFICES ASSUME NEW q \in Cli
               PROVE  Fit(cli'[q], StoredIn(server', cli'[q].cmd.key))
    BY DEF AllFit, Stored
  <2>1. CASE q = p
    <3>1. cli'[q] = r
      BY <1>2, <2>1
    <3> QED
      BY <1>3, <2>1, <3>1 DEF r
  <2>2. CASE q # p
    <3>1. cli'[q] = O(q)
      BY <1>2, <2>2
    <3> QED
      BY <1>4, <1>5, <3>1
  <2> QED
    BY <2>1, <2>2
<1> QED
  BY <1>7, <1>8, <1>9, <1>10 DEF CLIInv

-----------------------------------------------------------------------------
\* The actions.

LEMMA CliType ==
  ASSUME CLIInv, NEW p \in Cli
  PROVE  /\ cli[p] \in CliRec /\ cli[p].cmd \in CommandRec /\ cli[p].cmd.key \in Key
         /\ Fit(cli[p], Stored(cli[p].cmd.key))
         /\ cli[p].limit \in Limit /\ SavedLimit(cli[p].limit) = cli[p].limit
         /\ Stored(cli[p].cmd.key) \in Limit \cup {Nil, Absent}
<1>1. cli[p] \in CliRec
  BY DEF CLIInv, TypeOK
<1>2. cli[p].cmd \in CommandRec /\ cli[p].limit \in Limit
  BY <1>1, CliFields
<1>3. cli[p].cmd.key \in Key
  BY <1>2, CommandFields
<1>4. Fit(cli[p], Stored(cli[p].cmd.key)) /\ SavedLimit(cli[p].limit) = cli[p].limit
  BY DEF CLIInv, AllFit, CopiesSaved
<1> QED
  BY <1>1, <1>2, <1>3, <1>4, StoredType DEF CLIInv

LEMMA RunStep ==
  ASSUME CLIInv, NEW p \in Cli, Run(p)
  PROVE  CLIInv'
<1>1. PICK cmd \in Commands :
        LET again == cli[p].pc = "error" /\ cli[p].cmd = cmd
        IN  cli' = [cli EXCEPT ![p] =
              Begun(cmd, IF again THEN cli[p].before ELSE Stored(cmd.key), again => cli[p].alone)]
  BY DEF Run
<1> DEFINE again == cli[p].pc = "error" /\ cli[p].cmd = cmd
           before == IF again THEN cli[p].before ELSE Stored(cmd.key)
           alone == again => cli[p].alone
           r == Begun(cmd, before, alone)
           l == Stored(cmd.key)
<1>2. cmd \in CommandRec /\ cmd.key \in Key
  BY CommandFields
<1>3. l \in Limit \cup {Nil, Absent}
  BY <1>2, StoredType DEF CLIInv
<1>4. cli[p] \in CliRec /\ Fit(cli[p], Stored(cli[p].cmd.key))
  BY CliType
<1>5. cli[p].before \in Limit \cup {Nil, Absent} /\ cli[p].alone \in BOOLEAN
  BY <1>4, CliFields
<1>6. before \in Limit \cup {Nil, Absent} /\ alone \in BOOLEAN
  BY <1>3, <1>5
<1>7. cmd.op \in LimitOps /\ alone => l = before \/ l = Meaning(cmd, before)
  <2> SUFFICES ASSUME cmd.op \in LimitOps, alone
               PROVE  l = before \/ l = Meaning(cmd, before)
    OBVIOUS
  <2>1. CASE again
    <3>1. cli[p].alone /\ cli[p].cmd = cmd /\ before = cli[p].before
      BY <2>1
    <3> QED
      BY <1>4, <3>1 DEF Fit
  <2>2. CASE ~again
    BY <2>2
  <2> QED
    BY <2>1, <2>2
<1> HIDE DEF before, alone, again
<1>8. r \in CliRec
  BY <1>2, <1>6, BegunType
<1>9. Fit(r, l)
  BY <1>2, <1>6, <1>7, FitBegun
<1>10. r.limit = EmptyLimit /\ r.cmd = cmd
  BY DEF Begun
<1>11. cli' = [cli EXCEPT ![p] = r]
  BY <1>1 DEF before, alone, again
<1>12. runs' \in 0 .. MaxRuns /\ UNCHANGED <<server, used, first, order>>
  BY DEF Run, CLIInv, TypeOK, history
<1> HIDE DEF r
<1> QED
  BY <1>8, <1>9, <1>10, <1>11, <1>12, ClientStep, EmptyIsLimit

LEMMA SendUpdateStep ==
  ASSUME CLIInv, NEW p \in Cli, SendUpdate(p)
  PROVE  CLIInv'
<1> DEFINE c == cli[p]
           limit == SavedLimit(Updated(c.cmd, c.limit))
           r == [c EXCEPT !.pc = "request", !.req = "patchLimit", !.limit = limit]
<1>1. /\ c \in CliRec /\ c.cmd \in CommandRec /\ c.limit \in Limit /\ Fit(c, Stored(c.cmd.key))
  BY CliType
<1>2. /\ c.pc = "response" /\ c.status # 401 /\ c.req = "getLimit" /\ Changes(c.cmd)
      /\ UNCHANGED <<server, runs, used, first, order>>
  BY DEF SendUpdate, history
<1>3. Updated(c.cmd, c.limit) \in Limit
  BY <1>1, <1>2, UpdatedType DEF Changes
<1>4. limit \in Limit /\ SavedLimit(limit) = limit
  BY <1>3, SavedFields, SavedTwice
<1>5. Fit(r, Stored(c.cmd.key))
  BY <1>1, <1>2, FitUpdate, ZenonT(60)
<1>6. cli' = [cli EXCEPT ![p] = r]
  BY DEF SendUpdate
<1> HIDE DEF limit
<1>7. r \in CliRec /\ r.cmd = c.cmd /\ r.limit = limit
  <2> HIDE DEF c
  <2>1. r \in CliRec
    BY <1>1, <1>4, SetUpdate
  <2>2. LET d == [c EXCEPT !.pc = "request", !.req = "patchLimit", !.limit = limit]
        IN  d.cmd = c.cmd /\ d.limit = limit
    BY <1>1, UpdateFields
  <2> QED
    BY <2>1, <2>2
<1>8. runs' \in 0 .. MaxRuns
  BY <1>2 DEF CLIInv, TypeOK
<1> HIDE DEF c, r
<1> QED
  BY <1>2, <1>4, <1>5, <1>6, <1>7, <1>8, ClientStep, ZenonT(60)

LEMMA EndStep ==
  ASSUME CLIInv, NEW p \in Cli, Report(p) \/ Lose(p)
  PROVE  CLIInv'
<1> DEFINE c == cli[p]
           pc == IF Lose(p) \/ c.status = 401 THEN "error" ELSE "ok"
<1>1. /\ c \in CliRec /\ Fit(c, Stored(c.cmd.key)) /\ SavedLimit(c.limit) = c.limit
  BY CliType
<1>2. PICK e \in {"ok", "error"} :
        /\ cli' = [cli EXCEPT ![p] = [c EXCEPT !.pc = e]]
        /\ e = "error" => c.pc # "idle"
        /\ e = "ok" => /\ c.pc = "response" /\ c.status # 401
                       /\ ~(c.req = "getLimit" /\ Changes(c.cmd))
  <2>1. CASE Lose(p)
    BY <2>1 DEF Lose
  <2>2. CASE Report(p) /\ c.status = 401
    BY <2>2 DEF Report
  <2>3. CASE Report(p) /\ c.status # 401
    BY <2>3 DEF Report
  <2> QED
    BY <2>1, <2>2, <2>3
<1> DEFINE r == [c EXCEPT !.pc = e]
<1>3. r \in CliRec /\ r.limit = c.limit /\ r.cmd = c.cmd
  <2>1. e \in CliPhase
    BY DEF CliPhase
  <2> QED
    BY <1>1, <2>1, SetPc, PcFields
<1>4. Fit(r, Stored(c.cmd.key))
  <2>1. CASE e = "ok"
    BY <1>1, <1>2, <2>1, FitOk
  <2>2. CASE e = "error"
    BY <1>1, <1>2, <2>2, FitError
  <2> QED
    BY <2>1, <2>2
<1>5. UNCHANGED <<server, runs, used, first, order>>
  BY DEF Report, Lose, history
<1>6. runs' \in 0 .. MaxRuns
  BY <1>5 DEF CLIInv, TypeOK
<1>7. cli' = [cli EXCEPT ![p] = r]
  BY <1>2
<1> HIDE DEF c, r
<1> QED
  BY <1>1, <1>3, <1>4, <1>5, <1>6, <1>7, ClientStep

LEMMA UnauthorizedStep ==
  ASSUME CLIInv, NEW p \in Cli, Unauthorized(p)
  PROVE  CLIInv'
<1> DEFINE c == cli[p]
           r == [c EXCEPT !.pc = "response", !.status = 401]
<1>1. /\ c \in CliRec /\ Fit(c, Stored(c.cmd.key)) /\ SavedLimit(c.limit) = c.limit
  BY CliType
<1>2. /\ c.pc = "request" /\ cli' = [cli EXCEPT ![p] = r]
      /\ UNCHANGED <<server, runs, used, first, order>>
  BY DEF Unauthorized, history
<1>3. Fit(r, Stored(c.cmd.key))
  BY <1>1, <1>2, FitRefused
<1> HIDE DEF c
<1>4. r \in CliRec /\ r.limit = c.limit /\ r.cmd = c.cmd
  <2> DEFINE a == [c EXCEPT !.pc = "response"]
  <2>1. "response" \in CliPhase
    BY DEF CliPhase
  <2>2. a \in CliRec /\ a.limit = c.limit /\ a.cmd = c.cmd
    BY <1>1, <2>1, SetPc, PcFields
  <2> HIDE DEF a
  <2>3. PICK s \in Status : s = 401
    BY DEF Status
  <2>4. [a EXCEPT !.status = s] \in CliRec
    BY <2>2, Zenon DEF CliRec
  <2>5. [a EXCEPT !.status = s].limit = a.limit /\ [a EXCEPT !.status = s].cmd = a.cmd
    BY <2>2 DEF CliRec
  <2> QED
    BY <2>2, <2>3, <2>4, <2>5 DEF a
<1>5. runs' \in 0 .. MaxRuns
  BY <1>2 DEF CLIInv, TypeOK
<1> HIDE DEF r
<1> QED
  BY <1>1, <1>2, <1>3, <1>4, <1>5, ClientStep

LEMMA GetLimitStep ==
  ASSUME CLIInv, NEW p \in Cli, GetLimit(p)
  PROVE  CLIInv'
<1> DEFINE c == cli[p]
           l == Stored(c.cmd.key)
<1>1. /\ c \in CliRec /\ Fit(c, l) /\ l \in Limit \cup {Nil, Absent}
  BY CliType
<1>2. /\ c.pc = "request" /\ c.req = "getLimit" /\ Respond(p, 200, Shown(l))
      /\ UNCHANGED <<server, runs, used, first, order>>
  BY DEF GetLimit, Asks, history
<1>3. Shown(l) \in Limit /\ SavedLimit(Shown(l)) = Shown(l)
  <2>1. CASE l \in {Nil, Absent}
    BY <2>1, EmptyIsLimit DEF Shown
  <2>2. CASE l \notin {Nil, Absent}
    BY <1>1, <2>2, SavedFields, SavedTwice DEF Shown
  <2> QED
    BY <2>1, <2>2
<1>4. Fit([c EXCEPT !.pc = "response", !.status = 200, !.limit = Shown(l)], l)
  BY <1>1, <1>2, <1>3, FitShown
<1>5. StoredIn(server', c.cmd.key) = l
  BY <1>2 DEF Stored, StoredIn
<1>6. /\ server' \in [Key -> KeyRec \cup {Absent}] /\ used' \subseteq Key
      /\ first' \in [Key -> Limit \cup {Nil, Absent}] /\ order' \in Seq(CommandRec)
      /\ \A k \in Key : server'[k] # Absent => RecOK(server'[k])
  BY <1>2 DEF CLIInv, TypeOK, KeysOK
<1>7. Fit([cli[p] EXCEPT !.pc = "response", !.status = 200, !.limit = Shown(l)],
          StoredIn(server', cli[p].cmd.key))
  BY <1>4, <1>5
<1>8. PICK status \in Status : status = 200
  BY DEF Status
<1>9. /\ Respond(p, status, Shown(l)) /\ runs' = runs
      /\ Fit([cli[p] EXCEPT !.pc = "response", !.status = status, !.limit = Shown(l)],
             StoredIn(server', cli[p].cmd.key))
  BY <1>2, <1>7, <1>8
<1> HIDE DEF c, l
<1> QED
  BY <1>3, <1>6, <1>9, ServerStep

\* The server answers a request that is not about the limit.
LEMMA ElseStep ==
  ASSUME CLIInv, NEW p \in Cli, cli[p].pc = "request", cli[p].req \notin {"getLimit", "patchLimit"},
         Respond(p, 200, EmptyLimit), runs' = runs, order' = order,
         server' \in [Key -> KeyRec \cup {Absent}],
         \A k \in Key : server'[k] # Absent => RecOK(server'[k]),
         used' \subseteq Key, first' \in [Key -> Limit \cup {Nil, Absent}]
  PROVE  CLIInv'
<1>1. cli[p] \in CliRec /\ Fit(cli[p], Stored(cli[p].cmd.key))
  BY CliType
<1>2. PICK status \in Status : status = 200
  BY DEF Status
<1>3. EmptyLimit \in Limit /\ SavedLimit(EmptyLimit) = EmptyLimit
  BY EmptyIsLimit
<1>4. Fit([cli[p] EXCEPT !.pc = "response", !.status = status, !.limit = EmptyLimit],
          StoredIn(server', cli[p].cmd.key))
  BY <1>1, <1>3, FitElse
<1>5. order' \in Seq(CommandRec)
  BY DEF CLIInv, TypeOK
<1>6. Respond(p, status, EmptyLimit)
  BY <1>2
<1> QED
  BY <1>3, <1>4, <1>5, <1>6, ServerStep

LEMMA NoUsageType == NoUsage \in Usage
BY DEF NoUsage, Usage, Word

LEMMA NewRecOK ==
  ASSUME NEW l \in Limit \cup {Nil}, l \in Limit => ~LimitFails(l) /\ SavedLimit(l) = l
  PROVE  NewRec(l) \in KeyRec /\ RecOK(NewRec(l)) /\ NewRec(l).limit = l
<1> DEFINE r == NewRec(l)
           e == EntryOf(l)
<1>1. e \in KeyEntry
  BY EntryOfType
<1>2. e.whitelist = Old(l).whitelist /\ e.blacklist = Old(l).blacklist
  <2>1. CASE l = Nil
    BY <2>1 DEF EntryOf, Old, FreshEntry, EmptyLimit
  <2>2. CASE l \in Limit
    BY <2>2, ListsAfter, FreshType DEF EntryOf, Old
  <2> QED
    BY <2>1, <2>2
<1>3. SavedLimit(l) = l
  BY DEF SavedLimit
<1>4. r = [entry |-> e, limit |-> l, usage |-> NoUsage]
  BY DEF NewRec
<1> HIDE DEF r, e
<1>5. r \in KeyRec
  BY <1>1, <1>4, NoUsageType DEF KeyRec
<1>6. RecOK(r) /\ r.limit = l
  BY <1>2, <1>3, <1>4 DEF RecOK
<1> QED
  BY <1>5, <1>6 DEF r

LEMMA OtherKeyStep ==
  ASSUME CLIInv, NEW p \in Cli, CreateKey(p) \/ DeleteKey(p) \/ ResetUsage(p) \/ Show(p)
  PROVE  CLIInv'
<1>1. /\ server \in [Key -> KeyRec \cup {Absent}] /\ used \subseteq Key
      /\ first \in [Key -> Limit \cup {Nil, Absent}]
      /\ \A k \in Key : server[k] # Absent => RecOK(server[k])
  BY DEF CLIInv, TypeOK, KeysOK
<1>2. cli[p].cmd.key \in Key
  BY CliType
<1>3. CASE CreateKey(p)
  <2>1. PICK k \in Key \ used :
          /\ server' = [server EXCEPT ![k] = NewRec(Nil)]
          /\ first' = [first EXCEPT ![k] = Nil]
          /\ used' = used \cup {k}
    BY <1>3 DEF CreateKey
  <2>2. NewRec(Nil) \in KeyRec /\ RecOK(NewRec(Nil))
    BY NewRecOK
  <2>3. server' \in [Key -> KeyRec \cup {Absent}] /\ used' \subseteq Key
    BY <1>1, <2>1, <2>2
  <2>4. first' \in [Key -> Limit \cup {Nil, Absent}]
    BY <1>1, <2>1
  <2>5. \A i \in Key : server'[i] # Absent => RecOK(server'[i])
    BY <1>1, <2>1, <2>2
  <2>6. /\ cli[p].pc = "request" /\ cli[p].req \notin {"getLimit", "patchLimit"}
        /\ Respond(p, 200, EmptyLimit) /\ runs' = runs /\ order' = order
    BY <1>3 DEF CreateKey, Asks
  <2> QED
    BY <2>3, <2>4, <2>5, <2>6, ElseStep
<1>4. CASE DeleteKey(p)
  <2>1. server' = [server EXCEPT ![cli[p].cmd.key] = Absent]
    BY <1>4 DEF DeleteKey
  <2>2. server' \in [Key -> KeyRec \cup {Absent}]
    BY <1>1, <2>1
  <2>3. \A i \in Key : server'[i] # Absent => RecOK(server'[i])
    BY <1>1, <1>2, <2>1
  <2>4. /\ cli[p].pc = "request" /\ cli[p].req \notin {"getLimit", "patchLimit"}
        /\ Respond(p, 200, EmptyLimit) /\ UNCHANGED <<runs, used, first, order>>
    BY <1>4 DEF DeleteKey, Asks, history
  <2> QED
    BY <1>1, <2>2, <2>3, <2>4, ElseStep
<1>5. CASE ResetUsage(p)
  <2> DEFINE k == cli[p].cmd.key
  <2>1. server' = IF Exists(k) THEN [server EXCEPT ![k].usage = NoUsage] ELSE server
    BY <1>5 DEF ResetUsage
  <2>2. /\ cli[p].pc = "request" /\ cli[p].req \notin {"getLimit", "patchLimit"}
        /\ Respond(p, 200, EmptyLimit) /\ UNCHANGED <<runs, used, first, order>>
    BY <1>5 DEF ResetUsage, Asks, history
  <2>3. CASE ~Exists(k)
    BY <1>1, <2>1, <2>2, <2>3, ElseStep
  <2>4. CASE Exists(k)
    <3> DEFINE r == [server[k] EXCEPT !.usage = NoUsage]
    <3>1. server[k] \in KeyRec /\ RecOK(server[k])
      BY <1>1, <1>2, <2>4 DEF Exists
    <3>2. r \in KeyRec
      BY <3>1, NoUsageType DEF KeyRec
    <3>3. r.limit = server[k].limit /\ r.entry = server[k].entry
      BY <3>1 DEF KeyRec
    <3>4. server' = [server EXCEPT ![k] = r]
      BY <2>1, <2>4
    <3> HIDE DEF r
    <3>5. RecOK(r)
      BY <3>1, <3>3 DEF RecOK
    <3>6. server' \in [Key -> KeyRec \cup {Absent}]
      BY <1>1, <3>2, <3>4
    <3>7. \A i \in Key : server'[i] # Absent => RecOK(server'[i])
      BY <1>1, <1>2, <3>4, <3>5
    <3> QED
      BY <1>1, <2>2, <3>6, <3>7, ElseStep
  <2> QED
    BY <2>3, <2>4
<1>6. CASE Show(p)
  <2>1. /\ cli[p].pc = "request" /\ cli[p].req \notin {"getLimit", "patchLimit"}
        /\ Respond(p, 200, EmptyLimit) /\ UNCHANGED <<server, runs, used, first, order>>
    BY <1>6 DEF Show, Asks, history
  <2> QED
    BY <1>1, <2>1, ElseStep
<1> QED
  BY <1>3, <1>4, <1>5, <1>6

LEMMA PatchedRec ==
  ASSUME NEW r \in KeyRec, RecOK(r), NEW limit \in Limit, SavedLimit(limit) = limit
  PROVE  LET refused == LimitFails(limit)
             s == [r EXCEPT !.entry = applyACLKeyLimit(@, limit), !.limit = IF refused THEN @ ELSE limit]
         IN  s \in KeyRec /\ RecOK(s) /\ s.limit = Patched(r.limit, limit)
<1> DEFINE e == applyACLKeyLimit(r.entry, limit)
           l == IF LimitFails(limit) THEN r.limit ELSE limit
           a == [r EXCEPT !.entry = e]
           s == [a EXCEPT !.limit = l]
<1>1. r.entry \in KeyEntry /\ r.limit \in Limit \cup {Nil}
  BY KeyFields
<1>2. e \in KeyEntry
  BY <1>1, EntryType
<1>3. l \in Limit \cup {Nil} /\ l = Patched(r.limit, limit)
  BY <1>1 DEF Patched
<1>4. /\ LimitFails(limit) => e.whitelist = r.entry.whitelist /\ e.blacklist = r.entry.blacklist
      /\ ~LimitFails(limit) => e.whitelist = limit.whitelist /\ e.blacklist = limit.blacklist
  BY <1>1, ListsAfter
<1>5. e.whitelist = Old(l).whitelist /\ e.blacklist = Old(l).blacklist /\ SavedLimit(l) = l
  <2>1. CASE LimitFails(limit)
    BY <1>4, <2>1 DEF RecOK
  <2>2. CASE ~LimitFails(limit)
    <3>1. l = limit /\ Old(l) = limit
      BY <2>2 DEF Old
    <3> QED
      BY <1>4, <2>2, <3>1
  <2> QED
    BY <2>1, <2>2
<1>6. [r EXCEPT !.entry = applyACLKeyLimit(@, limit), !.limit = IF LimitFails(limit) THEN @ ELSE limit] = s
  <2>1. a.limit = r.limit
    BY DEF KeyRec
  <2> QED
    BY <2>1
<1> HIDE DEF e, l
<1>7. a \in KeyRec /\ a.entry = e
  BY <1>2 DEF KeyRec
<1> HIDE DEF a
<1>8. s \in KeyRec /\ s.entry = e /\ s.limit = l
  BY <1>3, <1>7 DEF KeyRec
<1> HIDE DEF s
<1>9. RecOK(s)
  BY <1>5, <1>8 DEF RecOK
<1> QED
  BY <1>3, <1>6, <1>8, <1>9

LEMMA PatchStep ==
  ASSUME CLIInv, NEW p \in Cli, PatchLimit(p)
  PROVE  CLIInv'
<1> DEFINE c == cli[p]
           k == c.cmd.key
           l == Stored(k)
           refused == Exists(k) /\ LimitFails(c.limit)
           status == IF refused THEN 400 ELSE 200
           r == [server[k] EXCEPT !.entry = applyACLKeyLimit(@, c.limit),
                                  !.limit = IF LimitFails(c.limit) THEN @ ELSE c.limit]
<1>1. /\ c \in CliRec /\ c.cmd \in CommandRec /\ k \in Key /\ Fit(c, l)
      /\ c.limit \in Limit /\ SavedLimit(c.limit) = c.limit
      /\ l \in Limit \cup {Nil, Absent}
  BY CliType
<1>2. l # Absent => SavedLimit(l) = l
  BY <1>1, StoredSaved
<1>3. /\ server \in [Key -> KeyRec \cup {Absent}] /\ used \subseteq Key
      /\ first \in [Key -> Limit \cup {Nil, Absent}] /\ order \in Seq(CommandRec)
      /\ \A i \in Key : server[i] # Absent => RecOK(server[i])
  BY DEF CLIInv, TypeOK, KeysOK
<1>4. /\ c.pc = "request" /\ c.req = "patchLimit" /\ Respond(p, status, EmptyLimit)
      /\ UNCHANGED <<runs, used, first>>
      /\ order' = IF Exists(k) /\ ~refused THEN Append(order, c.cmd) ELSE order
  BY DEF PatchLimit, Asks
<1>5. server' = IF ~Exists(k) THEN server ELSE [server EXCEPT ![k] = r]
  <2>1. CASE ~Exists(k)
    BY <2>1 DEF PatchLimit
  <2>2. CASE Exists(k)
    BY <2>2 DEF PatchLimit
  <2> QED
    BY <2>1, <2>2
<1>6. Exists(k) => r \in KeyRec /\ RecOK(r) /\ r.limit = Patched(l, c.limit)
  <2>1. SUFFICES ASSUME Exists(k) PROVE r \in KeyRec /\ RecOK(r) /\ r.limit = Patched(l, c.limit)
    OBVIOUS
  <2>2. server[k] \in KeyRec /\ RecOK(server[k]) /\ l = server[k].limit
    BY <1>1, <1>3, <2>1 DEF Exists, Stored, StoredIn
  <2> DEFINE old == server[k]
             limit == c.limit
  <2>3. old \in KeyRec /\ RecOK(old) /\ limit \in Limit /\ SavedLimit(limit) = limit
    BY <1>1, <2>2
  <2> HIDE DEF old, limit
  <2>4. LET s == [old EXCEPT !.entry = applyACLKeyLimit(@, limit),
                             !.limit = IF LimitFails(limit) THEN @ ELSE limit]
        IN  s \in KeyRec /\ RecOK(s) /\ s.limit = Patched(old.limit, limit)
    BY <2>3, PatchedRec
  <2> QED
    BY <2>2, <2>4 DEF old, limit
<1>7. EmptyLimit \in Limit /\ SavedLimit(EmptyLimit) = EmptyLimit
  BY EmptyIsLimit
<1>8. status \in Status
  BY DEF Status
<1> HIDE DEF r, status
<1>9. server' \in [Key -> KeyRec \cup {Absent}]
  BY <1>1, <1>3, <1>5, <1>6
<1>10. \A i \in Key : server'[i] # Absent => RecOK(server'[i])
  BY <1>1, <1>3, <1>5, <1>6
<1>11. StoredIn(server', k) = Patched(l, c.limit)
  <2>1. CASE ~Exists(k)
    <3>1. l = Absent
      BY <2>1 DEF Exists, Stored, StoredIn
    <3> QED
      BY <1>5, <2>1, <3>1 DEF Patched, Stored
  <2>2. CASE Exists(k)
    <3>1. server'[k] = r /\ r \in KeyRec
      BY <1>1, <1>3, <1>5, <1>6, <2>2
    <3>2. r # Absent
      BY <3>1, KeyFields
    <3> QED
      BY <1>6, <2>2, <3>1, <3>2 DEF StoredIn
  <2> QED
    BY <2>1, <2>2
<1>12. Fit([c EXCEPT !.pc = "response", !.status = status, !.limit = EmptyLimit],
           Patched(l, c.limit))
  BY <1>1, <1>2, <1>4, <1>8, FitPatched
<1>13. order' \in Seq(CommandRec)
  <2>1. Append(order, c.cmd) \in Seq(CommandRec)
    BY <1>1, <1>3, AppendProperties
  <2> QED
    BY <1>3, <1>4, <2>1
<1>14. Fit([cli[p] EXCEPT !.pc = "response", !.status = status, !.limit = EmptyLimit],
           StoredIn(server', cli[p].cmd.key))
  BY <1>11, <1>12
<1> HIDE DEF c, k, l, refused
<1> QED
  BY <1>3, <1>4, <1>7, <1>8, <1>9, <1>10, <1>13, <1>14, ServerStep

LEMMA TrafficStep ==
  ASSUME CLIInv, CountTraffic
  PROVE  CLIInv'
<1>1. PICK k \in Key : Exists(k) /\ server' = [server EXCEPT ![k].usage = Traffic]
  BY DEF CountTraffic
<1>2. UNCHANGED <<cli, runs, used, first, order>>
  BY DEF CountTraffic, history
<1>3. server \in [Key -> KeyRec \cup {Absent}] /\ \A i \in Key : server[i] # Absent => RecOK(server[i])
  BY DEF CLIInv, TypeOK, KeysOK
<1> DEFINE r == [server[k] EXCEPT !.usage = Traffic]
<1>4. server[k] \in KeyRec /\ RecOK(server[k])
  BY <1>1, <1>3 DEF Exists
<1>5. r \in KeyRec /\ r.limit = server[k].limit /\ r.entry = server[k].entry
  BY <1>4 DEF KeyRec
<1>6. server' = [server EXCEPT ![k] = r]
  BY <1>1
<1> HIDE DEF r
<1>7. RecOK(r)
  BY <1>4, <1>5 DEF RecOK
<1>8. r # Absent /\ server[k] # Absent
  BY <1>4, <1>5, KeyFields
<1>9. server' \in [Key -> KeyRec \cup {Absent}]
  BY <1>3, <1>5, <1>6
<1>10. TypeOK'
  BY <1>2, <1>9 DEF CLIInv, TypeOK
<1>11. KeysOK'
  BY <1>3, <1>6, <1>7 DEF KeysOK
<1>12. CopiesSaved'
  BY <1>2 DEF CLIInv, CopiesSaved
<1>13. \A i \in Key : StoredIn(server', i) = Stored(i)
  BY <1>3, <1>5, <1>6, <1>8 DEF Stored, StoredIn
<1>14. AllFit'
  <2> SUFFICES ASSUME NEW q \in Cli
               PROVE  Fit(cli'[q], StoredIn(server', cli'[q].cmd.key))
    BY DEF AllFit, Stored
  <2>1. cli[q].cmd.key \in Key /\ Fit(cli[q], Stored(cli[q].cmd.key))
    BY CliType
  <2> QED
    BY <1>2, <1>13, <2>1
<1> QED
  BY <1>10, <1>11, <1>12, <1>14 DEF CLIInv

LEMMA InitOK == Init => CLIInv
<1> SUFFICES ASSUME Init PROVE CLIInv
  OBVIOUS
<1>1. first \in [Key -> Limit \cup {Nil, Absent}]
  BY DEF Init
<1>2. \A k \in Key : first[k] # Absent =>
        NewRec(first[k]) \in KeyRec /\ RecOK(NewRec(first[k])) /\ NewRec(first[k]).limit = first[k]
  <2> SUFFICES ASSUME NEW k \in Key, first[k] # Absent
               PROVE  NewRec(first[k]) \in KeyRec /\ RecOK(NewRec(first[k])) /\ NewRec(first[k]).limit = first[k]
    OBVIOUS
  <2>1. first[k] \in Limit \cup {Nil}
    BY <1>1
  <2>2. first[k] \in Limit => ~LimitFails(first[k]) /\ SavedLimit(first[k]) = first[k]
    BY DEF Init
  <2> QED
    BY <2>1, <2>2, NewRecOK
<1>3. server = [k \in Key |-> IF first[k] = Absent THEN Absent ELSE NewRec(first[k])]
  BY DEF Init
<1>4. server \in [Key -> KeyRec \cup {Absent}]
  BY <1>2, <1>3
<1>5. KeysOK
  BY <1>2, <1>3 DEF KeysOK
<1>6. cli = [p \in Cli |-> IdleCli] /\ IdleCli \in CliRec /\ IdleCli.limit = EmptyLimit
  BY IdleType DEF Init
<1>7. cli \in [Cli -> CliRec]
  BY <1>6
<1>8. runs \in 0 .. MaxRuns /\ used \subseteq Key /\ order \in Seq(CommandRec)
  BY DEF Init
<1>9. CopiesSaved
  BY <1>6, EmptyIsLimit DEF CopiesSaved
<1>10. AllFit
  <2>1. IdleCli.pc = "idle" /\ IdleCli.alone = FALSE
    BY DEF IdleCli
  <2> QED
    BY <1>6, <2>1 DEF AllFit, Fit
<1> QED
  BY <1>1, <1>4, <1>5, <1>7, <1>8, <1>9, <1>10 DEF CLIInv, TypeOK

LEMMA StepOK == CLIInv /\ [Next]_vars => CLIInv'
<1> SUFFICES ASSUME CLIInv, [Next]_vars PROVE CLIInv'
  OBVIOUS
<1>1. CASE UNCHANGED vars
  BY <1>1 DEF vars, CLIInv, TypeOK, KeysOK, CopiesSaved, AllFit, Stored
<1>2. CASE CountTraffic
  BY <1>2, TrafficStep
<1>3. ASSUME NEW p \in Cli, Run(p) \/ SendUpdate(p) \/ Report(p) \/ Lose(p) \/ Serve(p)
      PROVE  CLIInv'
  BY <1>3, RunStep, SendUpdateStep, EndStep, UnauthorizedStep, GetLimitStep, PatchStep, OtherKeyStep
     DEF Serve
<1> QED
  BY <1>1, <1>2, <1>3 DEF Next

LEMMA AlwaysOK == Spec => []CLIInv
<1> QED
  BY InitOK, StepOK, PTL DEF Spec

-----------------------------------------------------------------------------
\* Doing some of the commands in their order: how the limit of k goes, and that
\* it is well defined.
Done(cmds, k, kept, i, l) == IF i \in kept /\ cmds[i].key = k THEN Meaning(cmds[i], l) ELSE l
Goes(f, start, cmds, k, kept, m) ==
  f = [i \in 0 .. m |-> IF i = 0 THEN start ELSE Done(cmds, k, kept, i, f[i - 1])]

LEMMA Least ==
  ASSUME NEW T \in SUBSET Nat, T # {}
  PROVE  \E m \in T : \A n \in T : ~(n < m)
<1> DEFINE R == OpToRel(<, Nat)
<1>1. IsWellFoundedOn(R, Nat)
  BY NatLessThanWellFounded
<1> HIDE DEF R
<1>2. PICK m \in T : \A n \in T : ~(<<n, m>> \in R)
  BY <1>1, WFMin
<1>3. \A n \in T : ~(n < m)
  BY <1>2 DEF R, OpToRel
<1> QED
  BY <1>3

LEMMA SomeGoes ==
  ASSUME NEW start, NEW cmds, NEW k, NEW kept, NEW n \in Nat
  PROVE  \E f : Goes(f, start, cmds, k, kept, n)
<1> DEFINE Bad == {m \in Nat : ~\E f : Goes(f, start, cmds, k, kept, m)}
           D(i, l) == Done(cmds, k, kept, i, l)
<1> SUFFICES ASSUME Bad # {} PROVE FALSE
  OBVIOUS
<1>1. PICK m \in Bad : \A j \in Bad : ~(j < m)
  BY Least
<1>2. \A f, j : Goes(f, start, cmds, k, kept, j) <=>
                f = [i \in 0 .. j |-> IF i = 0 THEN start ELSE D(i, f[i - 1])]
  BY DEF Goes
<1>3. m \in Nat /\ ~\E f : Goes(f, start, cmds, k, kept, m)
  OBVIOUS
<1>4. m - 1 \in Nat => \E f : Goes(f, start, cmds, k, kept, m - 1)
  BY <1>1
<1> HIDE DEF Bad, D
<1>5. CASE m = 0
  <2> DEFINE f == [i \in 0 .. 0 |-> start]
  <2>1. f = [i \in 0 .. 0 |-> IF i = 0 THEN start ELSE D(i, f[i - 1])]
    OBVIOUS
  <2> QED
    BY <1>2, <1>3, <1>5, <2>1
<1>6. CASE m # 0
  <2>1. m - 1 \in Nat
    BY <1>3, <1>6
  <2>2. PICK f : f = [i \in 0 .. m - 1 |-> IF i = 0 THEN start ELSE D(i, f[i - 1])]
    BY <1>2, <1>4, <2>1
  <2> DEFINE g == [i \in 0 .. m |-> IF i = m THEN D(m, f[m - 1]) ELSE f[i]]
  <2>3. \A i \in 0 .. m : g[i] = IF i = 0 THEN start ELSE D(i, g[i - 1])
    <3> SUFFICES ASSUME NEW i \in 0 .. m
                 PROVE  g[i] = IF i = 0 THEN start ELSE D(i, g[i - 1])
      OBVIOUS
    <3>1. CASE i = m
      <4>1. g[i] = D(m, f[m - 1]) /\ g[m - 1] = f[m - 1]
        BY <1>3, <1>6, <3>1
      <4> QED
        BY <1>6, <3>1, <4>1
    <3>2. CASE i # m
      <4>1. i \in 0 .. m - 1 /\ g[i] = f[i] /\ (i # 0 => g[i - 1] = f[i - 1])
        BY <1>3, <3>2
      <4>2. f[i] = IF i = 0 THEN start ELSE D(i, f[i - 1])
        BY <2>2, <4>1
      <4> QED
        BY <4>1, <4>2
    <3> QED
      BY <3>1, <3>2
  <2>4. g = [i \in 0 .. m |-> IF i = 0 THEN start ELSE D(i, g[i - 1])]
    BY <2>3
  <2> QED
    BY <1>2, <1>3, <2>4
<1> QED
  BY <1>5, <1>6

LEMMA LimitsGo ==
  ASSUME NEW start, NEW cmds, Len(cmds) \in Nat, NEW k, NEW kept
  PROVE  Goes(Limits(start, cmds, k, kept), start, cmds, k, kept, Len(cmds))
<1> DEFINE P(f) == Goes(f, start, cmds, k, kept, Len(cmds))
<1>1. \E f : P(f)
  BY SomeGoes
<1>2. Limits(start, cmds, k, kept) = CHOOSE f : P(f)
  BY DEF Limits, Goes, Done
<1> HIDE DEF P
<1>3. P(CHOOSE f : P(f))
  BY <1>1
<1> QED
  BY <1>2, <1>3 DEF P

LEMMA SameWay ==
  ASSUME NEW n \in Nat, NEW f, NEW g,
         f[0] = g[0],
         \A i \in 1 .. n : f[i - 1] = g[i - 1] => f[i] = g[i]
  PROVE  f[n] = g[n]
<1> DEFINE Bad == {m \in 0 .. n : f[m] # g[m]}
<1> SUFFICES ASSUME Bad # {} PROVE FALSE
  OBVIOUS
<1>1. Bad \in SUBSET Nat
  OBVIOUS
<1> HIDE DEF Bad
<1>2. PICK m \in Bad : \A j \in Bad : ~(j < m)
  BY <1>1, Least
<1>3. m \in 0 .. n /\ f[m] # g[m]
  BY <1>2 DEF Bad
<1>4. m # 0 /\ m \in 1 .. n /\ m - 1 \in 0 .. n
  BY <1>3
<1>5. m - 1 \in Bad
  BY <1>3, <1>4 DEF Bad
<1> QED
  BY <1>2, <1>4, <1>5

LEMMA LimitsAppended ==
  ASSUME NEW start, NEW cmds \in Seq(CommandRec), NEW c \in CommandRec, NEW k, NEW kept
  PROVE  LET n == Len(cmds)
             long == Limits(start, Append(cmds, c), k, kept)[n + 1]
             short == Limits(start, cmds, k, kept)[n]
         IN  long = IF n + 1 \in kept /\ c.key = k THEN Meaning(c, short) ELSE short
<1> DEFINE n == Len(cmds)
           s == Append(cmds, c)
           f == Limits(start, s, k, kept)
           g == Limits(start, cmds, k, kept)
<1>1. n \in Nat /\ Len(s) = n + 1 /\ s[n + 1] = c /\ \A i \in 1 .. n : s[i] = cmds[i]
  BY AppendProperties, LenProperties
<1>2. Goes(f, start, s, k, kept, n + 1) /\ Goes(g, start, cmds, k, kept, n)
  <2>1. Goes(g, start, cmds, k, kept, n)
    BY <1>1, LimitsGo
  <2> HIDE DEF s
  <2>2. Len(s) \in Nat
    BY <1>1
  <2>3. Goes(Limits(start, s, k, kept), start, s, k, kept, Len(s))
    BY <2>2, LimitsGo
  <2> QED
    BY <1>1, <2>1, <2>3
<1> HIDE DEF n, s, f, g
<1>3. /\ f[0] = start /\ \A i \in 1 .. n + 1 : f[i] = Done(s, k, kept, i, f[i - 1])
      /\ g[0] = start /\ \A i \in 1 .. n : g[i] = Done(cmds, k, kept, i, g[i - 1])
  BY <1>1, <1>2 DEF Goes
<1>4. \A i \in 1 .. n : f[i - 1] = g[i - 1] => f[i] = g[i]
  BY <1>1, <1>3 DEF Done
<1>5. f[n] = g[n]
  BY <1>1, <1>3, <1>4, SameWay
<1>6. f[n + 1] = Done(s, k, kept, n + 1, g[n])
  BY <1>1, <1>3, <1>5
<1> QED
  BY <1>1, <1>6 DEF Done, n, s, f, g

\* What is kept beyond the end makes no difference, and neither do the commands
\* that are about other keys.
LEMMA LimitsSame ==
  ASSUME NEW start, NEW cmds \in Seq(CommandRec), NEW k, NEW kept, NEW other,
         \A i \in 1 .. Len(cmds) : i \in kept <=> i \in other
  PROVE  Limits(start, cmds, k, kept)[Len(cmds)] = Limits(start, cmds, k, other)[Len(cmds)]
<1> DEFINE n == Len(cmds)
           f == Limits(start, cmds, k, kept)
           g == Limits(start, cmds, k, other)
<1>1. n \in Nat
  OBVIOUS
<1>2. Goes(f, start, cmds, k, kept, n) /\ Goes(g, start, cmds, k, other, n)
  BY <1>1, LimitsGo
<1> HIDE DEF n, f, g
<1>3. /\ f[0] = start /\ \A i \in 1 .. n : f[i] = Done(cmds, k, kept, i, f[i - 1])
      /\ g[0] = start /\ \A i \in 1 .. n : g[i] = Done(cmds, k, other, i, g[i - 1])
  BY <1>1, <1>2 DEF Goes
<1>4. \A i \in 1 .. n : f[i - 1] = g[i - 1] => f[i] = g[i]
  BY <1>3 DEF Done, n
<1>5. f[n] = g[n]
  BY <1>1, <1>3, <1>4, SameWay
<1> QED
  BY <1>5 DEF n, f, g

LEMMA LimitsNone ==
  ASSUME NEW start, NEW cmds \in Seq(CommandRec), NEW k
  PROVE  Limits(start, cmds, k, {})[Len(cmds)] = start
<1> DEFINE n == Len(cmds)
           f == Limits(start, cmds, k, {})
           g == [i \in 0 .. n |-> start]
<1>1. n \in Nat
  OBVIOUS
<1>2. Goes(f, start, cmds, k, {}, n)
  BY <1>1, LimitsGo
<1> HIDE DEF n, f
<1>3. f[0] = start /\ \A i \in 1 .. n : f[i] = f[i - 1]
  BY <1>1, <1>2 DEF Goes, Done
<1>4. f[0] = g[0] /\ \A i \in 1 .. n : f[i - 1] = g[i - 1] => f[i] = g[i]
  BY <1>1, <1>3
<1>5. g[n] = start
  BY <1>1
<1> HIDE DEF g
<1>6. f[n] = g[n]
  BY <1>1, <1>4, SameWay
<1> QED
  BY <1>5, <1>6 DEF n, f

-----------------------------------------------------------------------------
\* A process that has been shown a limit, or sends one, has made its copy from
\* one of the limits that doing some of the commands may lead to; from none,
\* if the key is still to be created.  A key that is gone does not come back.
Shows(c) == c.pc = "response" /\ c.status # 401 /\ c.req = "getLimit"
Sends(c) == c.pc = "request" /\ c.req = "patchLimit"
Basis(c, l) ==
  /\ l \in Limit \cup {Nil} /\ SavedLimit(l) = l
  /\ Shows(c) => c.limit = Shown(l)
  /\ Sends(c) => c.limit = Sent(c.cmd, l)
Bases(r, start, cmds, k) == IF r = Absent THEN {Nil} ELSE Outcomes(start, cmds, k)
Based(c, u, s, f, o) ==
  LET k == c.cmd.key
  IN  (k \notin u \/ s[k] # Absent) /\ (Shows(c) \/ Sends(c)) =>
        \E l \in Bases(s[k], f[k], o, k) : Basis(c, l)
Edits(c) == c.pc # "idle" /\ c.req \in {"getLimit", "patchLimit"} => c.cmd.op \in LimitOps

Unused == \A k \in Key \ used : server[k] = Absent
AllBased == \A p \in Cli : Edits(cli[p]) /\ Based(cli[p], used, server, first, order)
LostInv == CLIInv /\ Unused /\ LostAsAWhole /\ AllBased

\* What a step does to the limits that a copy may be made from.
Carried ==
  \A k \in Key : k \notin used' \/ server'[k] # Absent =>
    /\ k \notin used \/ server[k] # Absent
    /\ Bases(server[k], first[k], order, k) \subseteq Bases(server'[k], first'[k], order', k)

LEMMA StartIn ==
  ASSUME NEW start, NEW cmds \in Seq(CommandRec), NEW k
  PROVE  start \in Outcomes(start, cmds, k)
<1>1. Limits(start, cmds, k, {})[Len(cmds)] = start
  BY LimitsNone
<1>2. {} \in SUBSET DOMAIN cmds
  OBVIOUS
<1> QED
  BY <1>1, <1>2 DEF Outcomes

LEMMA OutcomesGrow ==
  ASSUME NEW start, NEW cmds \in Seq(CommandRec), NEW c \in CommandRec, NEW k,
         NEW l \in Outcomes(start, cmds, k)
  PROVE  /\ l \in Outcomes(start, Append(cmds, c), k)
         /\ c.key = k => Meaning(c, l) \in Outcomes(start, Append(cmds, c), k)
<1> DEFINE n == Len(cmds)
           s == Append(cmds, c)
           Out(kept) == Limits(start, s, k, kept)[Len(s)]
<1>1. PICK kept \in SUBSET DOMAIN cmds : l = Limits(start, cmds, k, kept)[n]
  BY DEF Outcomes
<1>2. n \in Nat /\ Len(s) = n + 1 /\ DOMAIN cmds = 1 .. n /\ DOMAIN s = 1 .. n + 1
  BY AppendProperties, LenProperties
<1> DEFINE more == kept \cup {n + 1}
<1>3. n + 1 \notin kept /\ kept \in SUBSET DOMAIN s /\ more \in SUBSET DOMAIN s
  BY <1>1, <1>2
<1>4. \A i \in 1 .. n : i \in kept <=> i \in more
  BY <1>2
<1>5. Limits(start, cmds, k, more)[n] = l
  BY <1>1, <1>4, LimitsSame
<1>6. Out(kept) = IF n + 1 \in kept /\ c.key = k THEN Meaning(c, l) ELSE l
  BY <1>1, <1>2, LimitsAppended
<1>7. Out(more) = IF n + 1 \in more /\ c.key = k THEN Meaning(c, l) ELSE l
  BY <1>2, <1>5, LimitsAppended
<1>8. Out(kept) \in Outcomes(start, s, k) /\ Out(more) \in Outcomes(start, s, k)
  BY <1>3 DEF Outcomes
<1> QED
  BY <1>3, <1>6, <1>7, <1>8

\* A copy that has not changed is still made from such a limit.
LEMMA BasedStill ==
  ASSUME Carried, NEW c, c.cmd.key \in Key, Based(c, used, server, first, order), Edits(c),
         NEW d, d.pc = c.pc, d.req = c.req, d.status = c.status, d.limit = c.limit, d.cmd = c.cmd
  PROVE  Edits(d) /\ Based(d, used', server', first', order')
<1>1. Edits(d)
  BY DEF Edits
<1>2. \A l : Basis(c, l) => Basis(d, l)
  BY DEF Basis, Shows, Sends
<1>3. (Shows(d) \/ Sends(d)) => (Shows(c) \/ Sends(c))
  BY DEF Shows, Sends
<1>4. Based(d, used', server', first', order')
  BY <1>2, <1>3 DEF Based, Carried
<1> QED
  BY <1>1, <1>4

\* Steps that change no limit the server holds.
LEMMA Quiet ==
  ASSUME CLIInv, Unused, LostAsAWhole, UNCHANGED <<used, first, order>>,
         \A k \in Key : server'[k] # Absent =>
           server[k] # Absent /\ server'[k].limit = server[k].limit
  PROVE  Unused' /\ LostAsAWhole' /\ Carried
<1>1. Unused'
  BY DEF Unused
<1>2. LostAsAWhole'
  BY DEF LostAsAWhole, Exists, Stored, StoredIn
<1>3. Carried
  BY DEF Carried, Bases, Unused
<1> QED
  BY <1>1, <1>2, <1>3

\* Steps of one process.
LEMMA BasedClient ==
  ASSUME LostInv, NEW p \in Cli, \A q \in Cli \ {p} : cli'[q] = cli[q],
         UNCHANGED <<server, used, first, order>>,
         Edits(cli'[p]), Based(cli'[p], used, server, first, order)
  PROVE  Unused' /\ LostAsAWhole' /\ AllBased'
<1>1. Unused' /\ LostAsAWhole'
  BY Quiet DEF LostInv
<1>2. ASSUME NEW q \in Cli PROVE Edits(cli'[q]) /\ Based(cli'[q], used, server, first, order)
  BY DEF LostInv, AllBased
<1>3. AllBased'
  BY <1>2 DEF AllBased
<1> QED
  BY <1>1, <1>3

\* The processes' states form a function.
LEMMA CliFun ==
  ASSUME LostInv
  PROVE  cli \in [Cli -> CliRec]
BY DEF LostInv, CLIInv, TypeOK

\* Steps of the server that answer p.
LEMMA BasedServer ==
  ASSUME LostInv, NEW p \in Cli, NEW status, NEW limit, Respond(p, status, limit), Carried,
         LET r == [cli[p] EXCEPT !.pc = "response", !.status = status, !.limit = limit]
         IN  Edits(r) /\ Based(r, used', server', first', order')
  PROVE  AllBased'
<1> DEFINE r == [cli[p] EXCEPT !.pc = "response", !.status = status, !.limit = limit]
<1>1. cli \in [Cli -> CliRec]
  BY DEF LostInv, CLIInv, TypeOK
<1>2. ASSUME NEW q \in Cli
      PROVE  Edits(cli'[q]) /\ Based(cli'[q], used', server', first', order')
  <2>1. CASE q = p
    <3>1. cli'[q] = r
      BY <2>1 DEF Respond
    <3> HIDE DEF r
    <3>2. Edits(r) /\ Based(r, used', server', first', order')
      BY DEF r
    <3> QED
      BY <3>1, <3>2
  <2>2. CASE q # p
    <3> DEFINE c == cli[q]
               alone == c.alone /\ StoredIn(server', c.cmd.key) = Stored(c.cmd.key)
    <3>1. cli'[q] = [c EXCEPT !.alone = alone]
      BY <2>2 DEF Respond
    <3>2. c \in CliRec /\ c.cmd.key \in Key /\ Edits(c) /\ Based(c, used, server, first, order)
      BY <1>1, CliType DEF LostInv, AllBased
    <3> HIDE DEF c, alone
    <3> DEFINE d == [c EXCEPT !.alone = alone]
    <3>3. d.pc = c.pc /\ d.req = c.req /\ d.status = c.status /\ d.limit = c.limit /\ d.cmd = c.cmd
      BY <3>2 DEF CliRec
    <3> HIDE DEF d
    <3>4. Edits(d) /\ Based(d, used', server', first', order')
      BY <3>2, <3>3, BasedStill
    <3> QED
      BY <3>1, <3>4 DEF d
  <2> QED
    BY <2>1, <2>2
<1> QED
  BY <1>2 DEF AllBased

LEMMA StoredBase ==
  ASSUME LostInv, NEW k \in Key, k \notin used \/ server[k] # Absent
  PROVE  \E l \in Bases(server[k], first[k], order, k) :
           /\ l \in Limit \cup {Nil} /\ SavedLimit(l) = l /\ Shown(l) = Shown(Stored(k))
<1>1. CASE server[k] = Absent
  <2>1. Stored(k) = Absent
    BY <1>1 DEF Stored, StoredIn
  <2>2. SavedLimit(Nil) = Nil /\ Shown(Nil) = Shown(Absent)
    BY DEF SavedLimit, Shown
  <2> QED
    BY <1>1, <2>1, <2>2 DEF Bases
<1>2. CASE server[k] # Absent
  <2>1. Stored(k) \in Limit \cup {Nil} /\ SavedLimit(Stored(k)) = Stored(k)
    BY <1>2, StoredType, StoredSaved DEF LostInv, CLIInv, Exists
  <2>2. Stored(k) \in Outcomes(first[k], order, k)
    BY <1>2 DEF LostInv, LostAsAWhole, Exists
  <2> QED
    BY <1>2, <2>1, <2>2 DEF Bases
<1> QED
  BY <1>1, <1>2

-----------------------------------------------------------------------------
\* Each step keeps it.

LEMMA BasedRun ==
  ASSUME LostInv, NEW p \in Cli, Run(p)
  PROVE  Unused' /\ LostAsAWhole' /\ AllBased'
<1>1. PICK cmd \in Commands :
        LET again == cli[p].pc = "error" /\ cli[p].cmd = cmd
        IN  cli' = [cli EXCEPT ![p] =
              Begun(cmd, IF again THEN cli[p].before ELSE Stored(cmd.key), again => cli[p].alone)]
  BY DEF Run
<1> DEFINE again == cli[p].pc = "error" /\ cli[p].cmd = cmd
           before == IF again THEN cli[p].before ELSE Stored(cmd.key)
           alone == again => cli[p].alone
<1> DEFINE r == Begun(cmd, before, alone)
<1>2. UNCHANGED <<server, used, first, order>>
  BY DEF Run, history
<1>3. cmd \in CommandRec /\ cmd.key \in Key
  BY CommandFields
<1>4. /\ r.pc = "request" /\ r.cmd = cmd /\ r.limit = EmptyLimit
      /\ r.req = FirstRequest(cmd)
  BY DEF Begun
<1> HIDE DEF r, again, before, alone
<1>5. /\ r.req \in {"getLimit", "patchLimit"} => cmd.op \in LimitOps
      /\ r.req = "patchLimit" => cmd.op = "limitReset"
  BY <1>3, <1>4, CommandFields DEF FirstRequest, UsageRequest, LimitOps, ListOps
<1>6. Edits(r)
  BY <1>4, <1>5 DEF Edits
<1>7. Based(r, used, server, first, order)
  <2> SUFFICES ASSUME cmd.key \notin used \/ server[cmd.key] # Absent, Sends(r)
               PROVE  \E l \in Bases(server[cmd.key], first[cmd.key], order, cmd.key) : Basis(r, l)
    BY <1>4 DEF Based, Shows
  <2>1. PICK l \in Bases(server[cmd.key], first[cmd.key], order, cmd.key) :
          l \in Limit \cup {Nil} /\ SavedLimit(l) = l
    BY <1>3, StoredBase
  <2>2. Sent(cmd, l) = EmptyLimit
    BY <1>5 DEF Sent, Sends
  <2>3. Basis(r, l)
    BY <1>4, <2>1, <2>2 DEF Basis, Shows
  <2> QED
    BY <2>3
<1>8. cli'[p] = r /\ \A q \in Cli \ {p} : cli'[q] = cli[q]
  <2>1. cli' = [cli EXCEPT ![p] = r]
    BY <1>1 DEF r, again, before, alone
  <2> QED
    BY <2>1, CliFun
<1> QED
  BY <1>2, <1>6, <1>7, <1>8, BasedClient

LEMMA BasedUpdate ==
  ASSUME LostInv, NEW p \in Cli, SendUpdate(p)
  PROVE  Unused' /\ LostAsAWhole' /\ AllBased'
<1> DEFINE c == cli[p]
           k == c.cmd.key
           limit == SavedLimit(Updated(c.cmd, c.limit))
           r == [c EXCEPT !.pc = "request", !.req = "patchLimit", !.limit = limit]
<1>1. c \in CliRec /\ Fit(c, Stored(c.cmd.key)) /\ Edits(c) /\ Based(c, used, server, first, order)
  BY CliType DEF LostInv, AllBased
<1>2. /\ c.pc = "response" /\ c.status # 401 /\ c.req = "getLimit"
      /\ UNCHANGED <<server, used, first, order>> /\ cli' = [cli EXCEPT ![p] = r]
  BY DEF SendUpdate, history
<1>3. cli'[p] = r /\ \A q \in Cli \ {p} : cli'[q] = cli[q]
  <2> HIDE DEF r
  <2> QED
    BY <1>2, CliFun
<1>4. c.cmd.op \in LimitOps /\ c.cmd.op # "limitReset"
  BY <1>1, <1>2 DEF Edits, Fit
<1> HIDE DEF c
<1>5. r.pc = "request" /\ r.req = "patchLimit" /\ r.limit = limit /\ r.cmd = c.cmd
  <2> HIDE DEF limit
  <2>1. LET d == [c EXCEPT !.pc = "request", !.req = "patchLimit", !.limit = limit]
        IN  /\ d.pc = "request" /\ d.req = "patchLimit" /\ d.limit = limit
            /\ d.cmd = c.cmd /\ d.before = c.before /\ d.alone = c.alone
    BY <1>1, UpdateFields
  <2> QED
    BY <2>1
<1> HIDE DEF r
<1>6. Edits(r)
  BY <1>4, <1>5 DEF Edits
<1>7. Based(r, used, server, first, order)
  <2> SUFFICES ASSUME k \notin used \/ server[k] # Absent
               PROVE  \E l \in Bases(server[k], first[k], order, k) : Basis(r, l)
    BY <1>5 DEF Based
  <2>1. PICK l \in Bases(server[k], first[k], order, k) : Basis(c, l)
    BY <1>1, <1>2 DEF Based, Shows
  <2>2. l \in Limit \cup {Nil} /\ SavedLimit(l) = l /\ c.limit = Shown(l)
    BY <1>2, <2>1 DEF Basis, Shows
  <2>3. limit = Sent(c.cmd, l)
    BY <1>4, <2>2 DEF Sent
  <2>4. Basis(r, l)
    BY <1>5, <2>2, <2>3 DEF Basis, Shows
  <2> QED
    BY <2>4
<1> QED
  BY <1>2, <1>3, <1>6, <1>7, BasedClient

LEMMA BasedEnd ==
  ASSUME LostInv, NEW p \in Cli, Report(p) \/ Lose(p) \/ Unauthorized(p)
  PROVE  Unused' /\ LostAsAWhole' /\ AllBased'
<1> DEFINE c == cli[p]
<1>1. c \in CliRec /\ Edits(c) /\ c.pc # "idle" /\ UNCHANGED <<server, used, first, order>>
  BY CliType DEF LostInv, AllBased, Report, Lose, Unauthorized, history
<1>2. /\ cli'[p].cmd = c.cmd /\ cli'[p].req = c.req /\ \A q \in Cli \ {p} : cli'[q] = cli[q]
      /\ cli'[p].pc \in {"ok", "error"} \/ (cli'[p].pc = "response" /\ cli'[p].status = 401)
  <2>1. CASE Report(p)
    <3> DEFINE e == IF c.status = 401 THEN "error" ELSE "ok"
    <3>1. cli'[p] = [c EXCEPT !.pc = e] /\ \A q \in Cli \ {p} : cli'[q] = cli[q]
      <4>1. cli' = [cli EXCEPT ![p].pc = e]
        BY <2>1 DEF Report
      <4> HIDE DEF e
      <4> QED
        BY <4>1, CliFun
    <3>2. e \in {"ok", "error"}
      OBVIOUS
    <3> HIDE DEF c, e
    <3> QED
      BY <1>1, <3>1, <3>2, PcFields
  <2>2. CASE Lose(p)
    <3>1. cli'[p] = [c EXCEPT !.pc = "error"] /\ \A q \in Cli \ {p} : cli'[q] = cli[q]
      BY <2>2, CliFun DEF Lose
    <3> HIDE DEF c
    <3> QED
      BY <1>1, <3>1, PcFields
  <2>3. CASE Unauthorized(p)
    <3>1. /\ cli'[p] = [c EXCEPT !.pc = "response", !.status = 401]
          /\ \A q \in Cli \ {p} : cli'[q] = cli[q]
      <4> DEFINE r == [c EXCEPT !.pc = "response", !.status = 401]
      <4>1. cli' = [cli EXCEPT ![p] = r]
        BY <2>3 DEF Unauthorized
      <4>2. cli'[p] = r /\ \A q \in Cli \ {p} : cli'[q] = cli[q]
        <5> HIDE DEF r
        <5> QED
          BY <4>1, CliFun
      <4> QED
        BY <4>2
    <3> HIDE DEF c
    <3> QED
      BY <1>1, <3>1 DEF CliRec
  <2> QED
    BY <2>1, <2>2, <2>3
<1> HIDE DEF c
<1>3. Edits(cli'[p]) /\ Based(cli'[p], used, server, first, order)
  BY <1>1, <1>2 DEF Edits, Based, Shows, Sends
<1> QED
  BY <1>1, <1>2, <1>3, BasedClient

\* The answer to a request leaves a copy only if the limit was asked for.
LEMMA BasedAnswer ==
  ASSUME LostInv, NEW p \in Cli, NEW status \in Status, NEW limit \in Limit, cli[p].pc = "request",
         NEW u, NEW s, NEW f, NEW o,
         cli[p].req = "getLimit" =>
           LET k == cli[p].cmd.key
           IN  k \notin u \/ s[k] # Absent =>
                 \E l \in Bases(s[k], f[k], o, k) :
                   l \in Limit \cup {Nil} /\ SavedLimit(l) = l /\ limit = Shown(l)
  PROVE  LET r == [cli[p] EXCEPT !.pc = "response", !.status = status, !.limit = limit]
         IN  Edits(r) /\ Based(r, u, s, f, o)
<1> DEFINE c == cli[p]
           r == [c EXCEPT !.pc = "response", !.status = status, !.limit = limit]
<1>1. c \in CliRec /\ Edits(c) /\ c.pc = "request"
  BY CliType DEF LostInv, AllBased
<1>2. /\ c.req = "getLimit" =>
           LET k == c.cmd.key
           IN  k \notin u \/ s[k] # Absent =>
                 \E l \in Bases(s[k], f[k], o, k) :
                   l \in Limit \cup {Nil} /\ SavedLimit(l) = l /\ limit = Shown(l)
  OBVIOUS
<1> HIDE DEF c
<1>3. r.pc = "response" /\ r.limit = limit /\ r.req = c.req /\ r.cmd = c.cmd
  BY <1>1, AnswerFields
<1> HIDE DEF r
<1>4. Edits(r) /\ Based(r, u, s, f, o)
  BY <1>1, <1>2, <1>3 DEF Edits, Based, Basis, Shows, Sends
<1> QED
  BY <1>4 DEF r, c

LEMMA BasedGet ==
  ASSUME LostInv, NEW p \in Cli, GetLimit(p)
  PROVE  Unused' /\ LostAsAWhole' /\ AllBased'
<1> DEFINE k == cli[p].cmd.key
           limit == Shown(Stored(k))
<1>1. /\ cli[p].pc = "request" /\ Respond(p, 200, limit) /\ UNCHANGED <<server, used, first, order>>
  BY DEF GetLimit, Asks, history
<1>2. k \in Key /\ Stored(k) \in Limit \cup {Nil, Absent}
  BY CliType DEF LostInv
<1>3. limit \in Limit
  BY <1>2, EmptyIsLimit, SavedFields DEF Shown
<1>4. k \notin used \/ server[k] # Absent =>
        \E l \in Bases(server[k], first[k], order, k) :
          l \in Limit \cup {Nil} /\ SavedLimit(l) = l /\ limit = Shown(l)
  BY <1>2, StoredBase
<1>5. Unused' /\ LostAsAWhole' /\ Carried
  BY <1>1, Quiet DEF LostInv
<1>6. PICK status \in Status : status = 200
  BY DEF Status
<1> HIDE DEF limit
<1>7. LET r == [cli[p] EXCEPT !.pc = "response", !.status = status, !.limit = limit]
      IN  Edits(r) /\ Based(r, used, server, first, order)
  BY <1>1, <1>3, <1>4, BasedAnswer
<1>8. LET r == [cli[p] EXCEPT !.pc = "response", !.status = status, !.limit = limit]
      IN  Edits(r) /\ Based(r, used', server', first', order')
  BY <1>1, <1>7
<1>9. Respond(p, status, limit)
  BY <1>1, <1>6
<1> QED
  BY <1>5, <1>8, <1>9, BasedServer

\* The server answers a request that is not to read the limit.
LEMMA BasedElse ==
  ASSUME LostInv, NEW p \in Cli, cli[p].pc = "request", cli[p].req # "getLimit",
         NEW status \in Status, Respond(p, status, EmptyLimit), Carried
  PROVE  AllBased'
<1>1. LET r == [cli[p] EXCEPT !.pc = "response", !.status = status, !.limit = EmptyLimit]
      IN  \A u, s, f, o : Edits(r) /\ Based(r, u, s, f, o)
  BY EmptyIsLimit, BasedAnswer
<1>2. LET r == [cli[p] EXCEPT !.pc = "response", !.status = status, !.limit = EmptyLimit]
      IN  Edits(r) /\ Based(r, used', server', first', order')
  BY <1>1
<1> QED
  BY <1>2, BasedServer

LEMMA BasedOther ==
  ASSUME LostInv, NEW p \in Cli, DeleteKey(p) \/ ResetUsage(p) \/ Show(p)
  PROVE  Unused' /\ LostAsAWhole' /\ AllBased'
<1> DEFINE k == cli[p].cmd.key
<1>1. /\ cli[p].pc = "request" /\ cli[p].req # "getLimit" /\ Respond(p, 200, EmptyLimit)
      /\ UNCHANGED <<used, first, order>>
  BY DEF DeleteKey, ResetUsage, Show, Asks, history
<1>2. k \in Key /\ server \in [Key -> KeyRec \cup {Absent}]
  BY CliType DEF LostInv, CLIInv, TypeOK
<1>3. \A i \in Key : server'[i] # Absent =>
        server[i] # Absent /\ server'[i].limit = server[i].limit
  <2>1. CASE DeleteKey(p)
    BY <1>2, <2>1 DEF DeleteKey
  <2>2. CASE ResetUsage(p)
    <3> DEFINE r == [server[k] EXCEPT !.usage = NoUsage]
    <3>1. server' = IF Exists(k) THEN [server EXCEPT ![k] = r] ELSE server
      BY <2>2 DEF ResetUsage
    <3>2. Exists(k) => r.limit = server[k].limit
      BY <1>2 DEF Exists, KeyRec
    <3> HIDE DEF r
    <3> QED
      BY <1>2, <3>1, <3>2 DEF Exists
  <2>3. CASE Show(p)
    BY <2>3 DEF Show
  <2> QED
    BY <2>1, <2>2, <2>3
<1>4. Unused' /\ LostAsAWhole' /\ Carried
  BY <1>1, <1>3, Quiet DEF LostInv
<1>5. PICK status \in Status : status = 200
  BY DEF Status
<1>6. Respond(p, status, EmptyLimit)
  BY <1>1, <1>5
<1> QED
  BY <1>1, <1>4, <1>6, BasedElse

LEMMA BasedCreate ==
  ASSUME LostInv, NEW p \in Cli, CreateKey(p)
  PROVE  Unused' /\ LostAsAWhole' /\ AllBased'
<1>1. PICK k \in Key \ used :
        /\ server' = [server EXCEPT ![k] = NewRec(Nil)]
        /\ first' = [first EXCEPT ![k] = Nil]
        /\ used' = used \cup {k}
  BY DEF CreateKey
<1>2. /\ cli[p].pc = "request" /\ cli[p].req # "getLimit" /\ Respond(p, 200, EmptyLimit)
      /\ order' = order
  BY DEF CreateKey, Asks
<1>3. /\ server \in [Key -> KeyRec \cup {Absent}] /\ order \in Seq(CommandRec)
      /\ first \in [Key -> Limit \cup {Nil, Absent}]
  BY DEF LostInv, CLIInv, TypeOK
<1>4. NewRec(Nil) # Absent /\ NewRec(Nil).limit = Nil
  BY NewRecOK, KeyFields
<1>5. server[k] = Absent
  BY <1>1 DEF LostInv, Unused
<1>6. server'[k] = NewRec(Nil) /\ first'[k] = Nil
      /\ \A i \in Key \ {k} : server'[i] = server[i] /\ first'[i] = first[i]
  BY <1>1, <1>3
<1>7. Nil \in Outcomes(Nil, order, k)
  BY <1>3, StartIn
<1>8. Unused'
  BY <1>1, <1>6 DEF LostInv, Unused
<1>9. LostAsAWhole'
  <2> SUFFICES ASSUME NEW i \in Key, server'[i] # Absent
               PROVE  server'[i].limit \in Outcomes(first'[i], order', i)
    BY DEF LostAsAWhole, Exists, Stored, StoredIn
  <2>1. CASE i = k
    BY <1>2, <1>4, <1>6, <1>7, <2>1
  <2>2. CASE i # k
    BY <1>2, <1>6, <2>2 DEF LostInv, LostAsAWhole, Exists, Stored, StoredIn
  <2> QED
    BY <2>1, <2>2
<1>10. Carried
  <2> SUFFICES ASSUME NEW i \in Key, i \notin used' \/ server'[i] # Absent
               PROVE  /\ i \notin used \/ server[i] # Absent
                      /\ Bases(server[i], first[i], order, i)
                           \subseteq Bases(server'[i], first'[i], order', i)
    BY DEF Carried
  <2>1. CASE i = k
    BY <1>1, <1>2, <1>4, <1>5, <1>6, <1>7, <2>1 DEF Bases
  <2>2. CASE i # k
    BY <1>1, <1>2, <1>6, <2>2
  <2> QED
    BY <2>1, <2>2
<1>11. PICK status \in Status : status = 200
  BY DEF Status
<1>12. Respond(p, status, EmptyLimit)
  BY <1>2, <1>11
<1> QED
  BY <1>2, <1>8, <1>9, <1>10, <1>12, BasedElse

LEMMA BasedPatch ==
  ASSUME LostInv, NEW p \in Cli, PatchLimit(p)
  PROVE  Unused' /\ LostAsAWhole' /\ AllBased'
<1> DEFINE c == cli[p]
           cmd == c.cmd
           k == cmd.key
           limit == c.limit
           refused == LimitFails(limit)
           stored == Exists(k) /\ ~refused
           status == IF Exists(k) /\ refused THEN 400 ELSE 200
           r == [server[k] EXCEPT !.entry = applyACLKeyLimit(@, limit),
                                  !.limit = IF refused THEN @ ELSE limit]
<1>1. /\ c \in CliRec /\ cmd \in CommandRec /\ k \in Key /\ Fit(c, Stored(k))
      /\ limit \in Limit /\ SavedLimit(limit) = limit
      /\ Edits(c) /\ Based(c, used, server, first, order)
  BY CliType DEF LostInv, AllBased
<1>2. /\ server \in [Key -> KeyRec \cup {Absent}] /\ order \in Seq(CommandRec)
      /\ \A i \in Key : server[i] # Absent => RecOK(server[i])
  BY DEF LostInv, CLIInv, TypeOK, KeysOK
<1>3. /\ c.pc = "request" /\ c.req = "patchLimit" /\ Respond(p, status, EmptyLimit)
      /\ UNCHANGED <<used, first>>
      /\ order' = IF stored THEN Append(order, cmd) ELSE order
      /\ server' = IF ~Exists(k) THEN server ELSE [server EXCEPT ![k] = r]
  <2>1. /\ c.pc = "request" /\ c.req = "patchLimit" /\ UNCHANGED <<used, first>>
        /\ order' = IF stored THEN Append(order, cmd) ELSE order
    BY DEF PatchLimit, Asks
  <2>2. Respond(p, status, EmptyLimit)
    BY DEF PatchLimit
  <2>3. CASE ~Exists(k)
    <3>1. server' = server
      BY <2>3 DEF PatchLimit
    <3> QED
      BY <2>1, <2>2, <2>3, <3>1
  <2>4. CASE Exists(k)
    <3>1. server' = [server EXCEPT ![k] = r]
      BY <2>4 DEF PatchLimit
    <3> HIDE DEF r, status, stored, c
    <3> QED
      BY <2>1, <2>2, <2>4, <3>1
  <2> QED
    BY <2>3, <2>4
<1>4. Exists(k) => r # Absent /\ r.limit = IF refused THEN server[k].limit ELSE limit
  <2> SUFFICES ASSUME Exists(k)
               PROVE  r # Absent /\ r.limit = IF refused THEN server[k].limit ELSE limit
    OBVIOUS
  <2> DEFINE old == server[k]
             l == limit
  <2>1. old \in KeyRec /\ RecOK(old) /\ l \in Limit /\ SavedLimit(l) = l
    BY <1>1, <1>2 DEF Exists
  <2> HIDE DEF old, l
  <2>2. LET s == [old EXCEPT !.entry = applyACLKeyLimit(@, l),
                             !.limit = IF LimitFails(l) THEN @ ELSE l]
        IN  s \in KeyRec /\ RecOK(s) /\ s.limit = Patched(old.limit, l)
    BY <2>1, PatchedRec
  <2>3. old.limit # Absent
    BY <2>1, KeyFields
  <2>4. LET s == [old EXCEPT !.entry = applyACLKeyLimit(@, l),
                             !.limit = IF LimitFails(l) THEN @ ELSE l]
        IN  s # Absent /\ s.limit = IF LimitFails(l) THEN old.limit ELSE l
    BY <2>2, <2>3, KeyFields DEF Patched
  <2> QED
    BY <2>4 DEF old, l
<1>5. stored => limit \in Outcomes(first[k], order', k)
  <2> SUFFICES ASSUME stored PROVE limit \in Outcomes(first[k], order', k)
    OBVIOUS
  <2>1. PICK l \in Outcomes(first[k], order, k) : Basis(c, l)
    BY <1>3 DEF Exists, Based, Bases, Sends, LostInv, AllBased
  <2>2. l \in Limit \cup {Nil} /\ SavedLimit(l) = l /\ limit = Sent(cmd, l)
    BY <1>3, <2>1 DEF Basis, Sends
  <2>3. cmd.op \in LimitOps /\ (cmd.op = "limit" => Changes(cmd))
    BY <1>1, <1>3 DEF Edits, Fit
  <2>4. limit = Meaning(cmd, l)
    BY <1>1, <2>2, <2>3, PatchMeans
  <2>5. Meaning(cmd, l) \in Outcomes(first[k], Append(order, cmd), k)
    BY <1>1, <1>2, <2>1, OutcomesGrow
  <2> QED
    BY <1>3, <2>4, <2>5
<1>6. \A i \in Key : Outcomes(first[i], order, i) \subseteq Outcomes(first'[i], order', i)
  BY <1>1, <1>2, <1>3, OutcomesGrow
<1>7. status \in Status
  BY DEF Status
<1> HIDE DEF r, status, stored
<1>8. /\ \A i \in Key : server'[i] # Absent <=> server[i] # Absent
      /\ \A i \in Key \ {k} : server'[i] = server[i]
      /\ ~Exists(k) => server'[k] = server[k]
      /\ Exists(k) => server'[k] = r
  BY <1>1, <1>2, <1>3, <1>4 DEF Exists
<1>9. Unused'
  BY <1>3, <1>8 DEF LostInv, Unused
<1>10. LostAsAWhole'
  <2> SUFFICES ASSUME NEW i \in Key, server'[i] # Absent
               PROVE  server'[i].limit \in Outcomes(first'[i], order', i)
    BY DEF LostAsAWhole, Exists, Stored, StoredIn
  <2>1. server[i] # Absent /\ server[i].limit \in Outcomes(first[i], order, i)
    BY <1>8 DEF LostInv, LostAsAWhole, Exists, Stored, StoredIn
  <2>2. CASE i = k /\ stored
    <3>1. server'[i].limit = limit
      BY <1>4, <1>8, <2>2 DEF stored
    <3> QED
      BY <1>3, <1>5, <2>2, <3>1
  <2>3. CASE ~(i = k /\ stored)
    <3>1. server'[i].limit = server[i].limit
      BY <1>4, <1>8, <2>1, <2>3 DEF stored, Exists
    <3> QED
      BY <1>6, <2>1, <3>1
  <2> QED
    BY <2>2, <2>3
<1>11. Carried
  BY <1>3, <1>6, <1>8 DEF Carried, Bases
<1> HIDE DEF c, refused
<1>12. cli[p].pc = "request" /\ cli[p].req # "getLimit"
  BY <1>3 DEF c
<1> QED
  BY <1>3, <1>7, <1>9, <1>10, <1>11, <1>12, BasedElse

LEMMA BasedTraffic ==
  ASSUME LostInv, CountTraffic
  PROVE  Unused' /\ LostAsAWhole' /\ AllBased'
<1>1. PICK k \in Key : Exists(k) /\ server' = [server EXCEPT ![k].usage = Traffic]
  BY DEF CountTraffic
<1>2. UNCHANGED <<cli, used, first, order>>
  BY DEF CountTraffic, history
<1>3. server \in [Key -> KeyRec \cup {Absent}]
  BY DEF LostInv, CLIInv, TypeOK
<1> DEFINE r == [server[k] EXCEPT !.usage = Traffic]
<1>4. server' = [server EXCEPT ![k] = r] /\ r.limit = server[k].limit
  BY <1>1, <1>3 DEF Exists, KeyRec
<1> HIDE DEF r
<1>5. \A i \in Key : server'[i] # Absent => server[i] # Absent /\ server'[i].limit = server[i].limit
  BY <1>1, <1>3, <1>4 DEF Exists
<1>6. Unused' /\ LostAsAWhole' /\ Carried
  BY <1>2, <1>5, Quiet DEF LostInv
<1>7. ASSUME NEW q \in Cli
      PROVE  Edits(cli'[q]) /\ Based(cli'[q], used', server', first', order')
  <2> DEFINE c == cli[q]
  <2>1. c.cmd.key \in Key /\ Edits(c) /\ Based(c, used, server, first, order)
    BY CliType DEF LostInv, AllBased
  <2>2. cli'[q] = c
    BY <1>2
  <2> HIDE DEF c
  <2>3. Edits(c) /\ Based(c, used', server', first', order')
    BY <1>6, <2>1, BasedStill
  <2> QED
    BY <2>2, <2>3
<1> QED
  BY <1>6, <1>7 DEF AllBased

LEMMA LostInitOK == Init => LostInv
<1> SUFFICES ASSUME Init PROVE LostInv
  OBVIOUS
<1>1. CLIInv
  BY InitOK
<1>2. first \in [Key -> Limit \cup {Nil, Absent}] /\ order = <<>> /\ order \in Seq(CommandRec)
  BY DEF Init
<1>3. Unused
  BY DEF Init, Unused
<1>4. LostAsAWhole
  <2> SUFFICES ASSUME NEW k \in Key, server[k] # Absent
               PROVE  server[k].limit \in Outcomes(first[k], order, k)
    BY DEF LostAsAWhole, Exists, Stored, StoredIn
  <2>1. first[k] # Absent /\ server[k] = NewRec(first[k])
    BY DEF Init
  <2>2. first[k] \in Limit => ~LimitFails(first[k]) /\ SavedLimit(first[k]) = first[k]
    BY DEF Init
  <2>3. server[k].limit = first[k]
    BY <1>2, <2>1, <2>2, NewRecOK
  <2> QED
    BY <1>2, <2>3, StartIn
<1>5. AllBased
  <2>1. IdleCli.pc = "idle"
    BY DEF IdleCli
  <2> QED
    BY <2>1 DEF Init, AllBased, Edits, Based, Shows, Sends
<1> QED
  BY <1>1, <1>3, <1>4, <1>5 DEF LostInv

LEMMA LostStepOK == LostInv /\ [Next]_vars => LostInv'
<1> SUFFICES ASSUME LostInv, [Next]_vars PROVE LostInv'
  OBVIOUS
<1>1. CLIInv'
  BY StepOK DEF LostInv
<1>2. CASE UNCHANGED vars
  <2>1. Unused' /\ LostAsAWhole'
    BY <1>2, Quiet DEF vars, LostInv
  <2>2. AllBased'
    BY <1>2 DEF vars, LostInv, AllBased
  <2> QED
    BY <1>1, <2>1, <2>2 DEF LostInv
<1>3. CASE CountTraffic
  BY <1>1, <1>3, BasedTraffic DEF LostInv
<1>4. ASSUME NEW p \in Cli, Run(p) \/ SendUpdate(p) \/ Report(p) \/ Lose(p) \/ Serve(p)
      PROVE  LostInv'
  <2>1. Unused' /\ LostAsAWhole' /\ AllBased'
    BY <1>4, BasedRun, BasedUpdate, BasedEnd, BasedGet, BasedPatch, BasedCreate, BasedOther DEF Serve
  <2> QED
    BY <1>1, <2>1 DEF LostInv
<1> QED
  BY <1>2, <1>3, <1>4 DEF Next

-----------------------------------------------------------------------------
\* Every key, process and history variable stays in its type, whatever is lost
\* and whoever runs a command again (api.go:16-21, cmd/acl/*.go).
THEOREM CLITyped == Spec => []TypeOK
<1>1. CLIInv => TypeOK
  BY DEF CLIInv
<1> QED
  BY <1>1, AlwaysOK, PTL

\* The lists a key is checked against are those stored for it, also after a
\* limit that was refused halfway (Limit, applyACLKeyLimit, acl.go:240-255,294-321).
THEOREM StoredListsEnforced == Spec => []ListsEnforced
<1>1. CLIInv => ListsEnforced
  BY DEF CLIInv, KeysOK, RecOK, Old, ListsEnforced, Exists, Stored, StoredIn
<1> QED
  BY <1>1, AlwaysOK, PTL

\* A command that is reported done, and that nobody interfered with, has been
\* done, and once, however often it was run before and ended in an error
\* (updateWhitelist, access.go:71-88; aclLimit, limit.go:19-61; ACLPatchLimit,
\* api/admin.go:68-90).
THEOREM DoneOnce == Spec => []DoneMeansDoneOnce
<1>1. CLIInv => DoneMeansDoneOnce
  BY DEF CLIInv, AllFit, Fit, DoneMeansDoneOnce
<1> QED
  BY <1>1, AlwaysOK, PTL

\* Of commands that overlap some may be lost, but each as a whole: the limit
\* stored for a key is what some of the commands come to that the server
\* stored, done on the limit the key began with and in the order of the server,
\* although each process writes back the whole of its copy (access.go:76-81,
\* limit.go:19-61; ACLPatchLimit, api/admin.go:68-90).
THEOREM LostWhole == Spec => []LostAsAWhole
<1>1. LostInv => LostAsAWhole
  BY DEF LostInv
<1> QED
  BY <1>1, LostInitOK, LostStepOK, PTL DEF Spec
=============================================================================
