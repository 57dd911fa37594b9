------------------------------ MODULE AdminCLI ------------------------------
(***************************************************************************)
(* The acl command (cmd/acl) talking to the admin API of the server        *)
(* (server/api/admin.go, server/admin/admin.go).  Every run of the command *)
(* is a process of its own.  One that edits a limit reads it, changes its  *)
(* copy and sends the whole of it back.  A request or its response may be  *)
(* lost.  A handler is one step here: what goes on within the server is    *)
(* module ACL.                                                             *)
(***************************************************************************)
EXTENDS Quota, Sequences, FiniteSets

CONSTANTS
  Key,         \* keys of access
  Cli,         \* users of the command, each running one at a time
  Commands,    \* what they ask for
  Starts,      \* the limits the keys may have at the start; Absent for no key
  Absent,      \* no such key
  Traffic,     \* the usage that traffic leaves behind
  MaxRuns      \* bound: commands run

ListOps == {"add", "del", "reset"}
LimitOps == ListOps \cup {"limit", "limitReset"}

\* "limit" sets the numbers that are not Unset, a list operation changes the
\* list it names; the others use only the key.  Without the admin key of the
\* server a command is refused.
CommandRec ==
  [op: LimitOps \cup {"newKey", "delKey", "show", "usage", "usageReset"},
   key: Key, list: {"whitelist", "blacklist"}, items: SUBSET Pattern,
   bytes: ByteSpec, inBytes: ByteSpec, outBytes: ByteSpec, admin: BOOLEAN]

KeyRec == [entry: KeyEntry, limit: Limit \cup {Nil}, usage: Usage]

\* The limits at the start are as a file holds them that the server wrote: they
\* parse, or it would not have stored them, and no list is empty.
ASSUME CLIAssumption ==
  /\ Commands \subseteq CommandRec /\ Commands # {}
  /\ Starts \subseteq [Key -> Limit \cup {Nil, Absent}]
  /\ \A s \in Starts, k \in Key :
       s[k] \in Limit => ~LimitFails(s[k]) /\ SavedLimit(s[k]) = s[k]
  /\ Absent \notin KeyRec \cup Limit \cup {Nil}
  /\ Traffic \in Usage
  /\ MaxRuns \in Nat

VARIABLES
  server,  \* each key at the server
  cli,     \* the processes
  runs,    \* commands run so far
  used,    \* history: keys that exist or existed
  first,   \* history: the limit each key began with
  order    \* history: the commands whose limit was stored, in that order

vars == <<server, cli, runs, used, first, order>>
history == <<used, first, order>>

NewRec(l) == [entry |-> EntryOf(l), limit |-> l, usage |-> NoUsage]

\* A process waits for the server ("request"), or for its answer ("response"),
\* or has ended with or without an error.
CliPhase == {"idle", "request", "response", "ok", "error"}
Request == {"newKey", "delKey", "show", "patchLimit", "getLimit", "getUsage", "delUsage"}
Status == {200, 400, 401}
CliRec ==
  [pc: CliPhase, cmd: CommandRec, req: Request, limit: Limit, status: Status,
   before: Limit \cup {Nil, Absent},  \* history: the stored limit it found
   alone: BOOLEAN]                    \* history: nobody else has changed it since

TypeOK ==
  /\ server \in [Key -> KeyRec \cup {Absent}]
  /\ cli \in [Cli -> CliRec]
  /\ runs \in 0 .. MaxRuns
  /\ used \subseteq Key
  /\ first \in [Key -> Limit \cup {Nil, Absent}]
  /\ order \in Seq(CommandRec)

Exists(k) == server[k] # Absent
StoredIn(s, k) == IF s[k] = Absent THEN Absent ELSE s[k].limit
Stored(k) == StoredIn(server, k)

IdleCli ==
  [pc |-> "idle", cmd |-> CHOOSE c \in Commands : TRUE, req |-> "show",
   limit |-> EmptyLimit, status |-> 200, before |-> Absent, alone |-> FALSE]

Init ==
  /\ first \in Starts
  /\ server = [k \in Key |-> IF first[k] = Absent THEN Absent ELSE NewRec(first[k])]
  /\ used = {k \in Key : first[k] # Absent}
  /\ cli = [p \in Cli |-> IdleCli]
  /\ runs = 0
  /\ order = <<>>

-----------------------------------------------------------------------------
\* The process.

UsageRequest(cmd) == IF cmd.op = "usageReset" THEN "delUsage" ELSE "getUsage"

\* What a process sends first; "limit --reset" sends null, which the server
\* decodes as the empty limit.
FirstRequest(cmd) ==
  CASE cmd.op \in {"newKey", "delKey", "show"} -> cmd.op
    [] cmd.op \in {"usage", "usageReset"} -> UsageRequest(cmd)
    [] cmd.op = "limitReset" -> "patchLimit"
    [] OTHER -> "getLimit"

Begun(cmd, before, alone) ==
  [pc |-> "request", cmd |-> cmd, req |-> FirstRequest(cmd), limit |-> EmptyLimit,
   status |-> 200, before |-> before, alone |-> alone]

\* A user runs a command, perhaps the one again that has just ended in an error.
Run(p) ==
  /\ cli[p].pc \in {"idle", "ok", "error"}
  /\ runs < MaxRuns
  /\ runs' = runs + 1
  /\ \E cmd \in Commands :
       LET again == cli[p].pc = "error" /\ cli[p].cmd = cmd
       IN  cli' = [cli EXCEPT ![p] =
             Begun(cmd, IF again THEN cli[p].before ELSE Stored(cmd.key), again => cli[p].alone)]
  /\ UNCHANGED <<server, history>>

Named(cmd, value, old) == IF value = Unset THEN old ELSE value
Items(list) == IF list = Nil THEN {} ELSE list

\* Mutant: the lists are left out of the limit sent back.
UpdatedNumbersOnly(cmd, l) ==
  IF cmd.op = "limit"
  THEN [EmptyLimit EXCEPT !.bytes = Named(cmd, cmd.bytes, l.bytes),
                          !.inBytes = Named(cmd, cmd.inBytes, l.inBytes),
                          !.outBytes = Named(cmd, cmd.outBytes, l.outBytes)]
  ELSE [l EXCEPT ![cmd.list] =
         CASE cmd.op = "add" -> Items(@) \cup cmd.items
           [] cmd.op = "del" -> Items(@) \ cmd.items
           [] cmd.op = "reset" -> cmd.items]

\* The process's copy of the limit, changed as the command says.
Updated(cmd, l) ==
  IF cmd.op = "limit"
  THEN [l EXCEPT !.bytes = Named(cmd, cmd.bytes, @),
                 !.inBytes = Named(cmd, cmd.inBytes, @),
                 !.outBytes = Named(cmd, cmd.outBytes, @)]
  ELSE [l EXCEPT ![cmd.list] =
         CASE cmd.op = "add" -> Items(@) \cup cmd.items
           [] cmd.op = "del" -> Items(@) \ cmd.items
           [] cmd.op = "reset" -> cmd.items]

Changes(cmd) ==
  cmd.op \in ListOps \/ (cmd.op = "limit" /\ {cmd.bytes, cmd.inBytes, cmd.outBytes} # {Unset})

\* It has read the limit and sends its copy; JSON leaves out an empty list.
SendUpdate(p) ==
  /\ cli[p].pc = "response"
  /\ cli[p].status # 401
  /\ cli[p].req = "getLimit" /\ Changes(cli[p].cmd)
  /\ cli' = [cli EXCEPT ![p] = [@ EXCEPT !.pc = "request", !.req = "patchLimit",
                                        !.limit = SavedLimit(Updated(cli[p].cmd, cli[p].limit))]]
  /\ UNCHANGED <<server, runs, history>>

\* It ends.  Only the status for a wrong admin key is taken for an error.
Report(p) ==
  /\ cli[p].pc = "response"
  /\ cli[p].status = 401 \/ ~(cli[p].req = "getLimit" /\ Changes(cli[p].cmd))
  /\ cli' = [cli EXCEPT ![p].pc = IF cli[p].status = 401 THEN "error" ELSE "ok"]
  /\ UNCHANGED <<server, runs, history>>

\* Mutant: an exchange that failed is not noticed.
LoseUnnoticed(p) ==
  /\ cli[p].pc \in {"request", "response"}
  /\ cli' = [cli EXCEPT ![p].pc = "ok"]
  /\ UNCHANGED <<server, runs, history>>

\* The request does not reach the server, or its answer not the process.
Lose(p) ==
  /\ cli[p].pc \in {"request", "response"}
  /\ cli' = [cli EXCEPT ![p].pc = "error"]
  /\ UNCHANGED <<server, runs, history>>

-----------------------------------------------------------------------------
\* The server.

Asks(p, req) == cli[p].pc = "request" /\ cli[p].req = req /\ cli[p].cmd.admin

\* Everyone else who is about the key is no longer alone with it if its limit
\* changes.
Respond(p, status, limit) ==
  cli' = [q \in Cli |->
    IF q = p THEN [cli[p] EXCEPT !.pc = "response", !.status = status, !.limit = limit]
    ELSE LET k == cli[q].cmd.key
         IN  [cli[q] EXCEPT !.alone = @ /\ StoredIn(server', k) = Stored(k)]]

Unauthorized(p) ==
  /\ cli[p].pc = "request"
  /\ ~cli[p].cmd.admin
  /\ cli' = [cli EXCEPT ![p] = [@ EXCEPT !.pc = "response", !.status = 401]]
  /\ UNCHANGED <<server, runs, history>>

\* No limit, or no key, is shown as the empty limit.
Shown(l) == IF l \in {Nil, Absent} THEN EmptyLimit ELSE SavedLimit(l)

GetLimit(p) ==
  /\ Asks(p, "getLimit")
  /\ UNCHANGED server
  /\ Respond(p, 200, Shown(Stored(cli[p].cmd.key)))
  /\ UNCHANGED <<runs, history>>

\* Mutant: the entry is checked against the new limit, the old one is shown.
PatchUnstored(p) ==
  /\ Asks(p, "patchLimit")
  /\ LET k == cli[p].cmd.key  l == cli[p].limit  refused == Exists(k) /\ LimitFails(l)
     IN  /\ server' = IF Exists(k) THEN [server EXCEPT ![k].entry = applyACLKeyLimit(@, l)] ELSE server
         /\ order' = IF Exists(k) /\ ~refused THEN Append(order, cli[p].cmd) ELSE order
         /\ Respond(p, IF refused THEN 400 ELSE 200, EmptyLimit)
  /\ UNCHANGED <<runs, used, first>>

\* A limit for no key is ignored; one that does not parse is refused after part
\* of it has been applied.
PatchLimit(p) ==
  /\ Asks(p, "patchLimit")
  /\ LET k == cli[p].cmd.key  l == cli[p].limit  refused == Exists(k) /\ LimitFails(l)
     IN  /\ server' = IF ~Exists(k) THEN server
                      ELSE [server EXCEPT ![k].entry = applyACLKeyLimit(@, l),
                                          ![k].limit = IF refused THEN @ ELSE l]
         /\ order' = IF Exists(k) /\ ~refused THEN Append(order, cli[p].cmd) ELSE order
         /\ Respond(p, IF refused THEN 400 ELSE 200, EmptyLimit)
  /\ UNCHANGED <<runs, used, first>>

CreateKey(p) ==
  /\ Asks(p, "newKey")
  /\ \E k \in Key \ used :
       /\ server' = [server EXCEPT ![k] = NewRec(Nil)]
       /\ first' = [first EXCEPT ![k] = Nil]
       /\ used' = used \cup {k}
  /\ Respond(p, 200, EmptyLimit)
  /\ UNCHANGED <<runs, order>>

DeleteKey(p) ==
  /\ Asks(p, "delKey")
  /\ server' = [server EXCEPT ![cli[p].cmd.key] = Absent]
  /\ Respond(p, 200, EmptyLimit)
  /\ UNCHANGED <<runs, history>>

ResetUsage(p) ==
  /\ Asks(p, "delUsage")
  /\ LET k == cli[p].cmd.key
     IN  server' = IF Exists(k) THEN [server EXCEPT ![k].usage = NoUsage] ELSE server
  /\ Respond(p, 200, EmptyLimit)
  /\ UNCHANGED <<runs, history>>

\* GetUsage and the list of all keys are only read.
Show(p) ==
  /\ Asks(p, "show") \/ Asks(p, "getUsage")
  /\ UNCHANGED server
  /\ Respond(p, 200, EmptyLimit)
  /\ UNCHANGED <<runs, history>>

CountTraffic ==
  /\ \E k \in Key : Exists(k) /\ server' = [server EXCEPT ![k].usage = Traffic]
  /\ UNCHANGED <<cli, runs, history>>

Serve(p) ==
  \/ Unauthorized(p) \/ GetLimit(p) \/ PatchLimit(p) \/ CreateKey(p) \/ DeleteKey(p)
  \/ ResetUsage(p) \/ Show(p)

Next ==
  \/ \E p \in Cli : Run(p) \/ SendUpdate(p) \/ Report(p) \/ Lose(p) \/ Serve(p)
  \/ CountTraffic

Spec == Init /\ [][Next]_vars

-----------------------------------------------------------------------------
\* What a command is for, as cmd/acl/cmd.go puts it, on the limit l of its key:
\* the numbers and the list it names change, and nothing else.  A limit the
\* server cannot parse changes nothing, and an empty list is none.
Meaning(cmd, l) ==
  LET old == IF l = Nil THEN EmptyLimit ELSE l
      new == CASE cmd.op = "limitReset" -> EmptyLimit
               [] cmd.op = "limit" ->
                    [old EXCEPT !.bytes = Named(cmd, cmd.bytes, @),
                                !.inBytes = Named(cmd, cmd.inBytes, @),
                                !.outBytes = Named(cmd, cmd.outBytes, @)]
               [] cmd.op = "add" -> [old EXCEPT ![cmd.list] = SavedList(Items(@) \cup cmd.items)]
               [] cmd.op = "del" -> [old EXCEPT ![cmd.list] = SavedList(Items(@) \ cmd.items)]
               [] cmd.op = "reset" -> [old EXCEPT ![cmd.list] = SavedList(cmd.items)]
  IN  IF l = Absent \/ cmd.op \notin LimitOps THEN l
      ELSE IF cmd.op = "limit" /\ ~Changes(cmd) THEN l
      ELSE IF LimitFails(new) THEN l ELSE new

\* A command that nobody interfered with has done what it is for when it is
\* reported done, and has done it once, however often it was run before and
\* ended in an error, with the request or only the answer lost (updateWhitelist,
\* access.go:71-88; aclLimit, limit.go:19-61; ACLPatchLimit, api/admin.go:68-90).
DoneMeansDoneOnce ==
  \A p \in Cli : cli[p].pc = "ok" /\ cli[p].alone /\ cli[p].cmd.op \in LimitOps =>
    Stored(cli[p].cmd.key) = Meaning(cli[p].cmd, cli[p].before)

\* How the limit of key k goes, from the one it began with, if of some commands
\* in a row those kept are done; and what it may come to.
Limits(start, cmds, k, kept) ==
  LET l[i \in 0 .. Len(cmds)] ==
        IF i = 0 THEN start
        ELSE IF i \in kept /\ cmds[i].key = k THEN Meaning(cmds[i], l[i - 1]) ELSE l[i - 1]
  IN  l
Outcomes(start, cmds, k) ==
  {Limits(start, cmds, k, kept)[Len(cmds)] : kept \in SUBSET DOMAIN cmds}

\* Of commands that overlap some may be lost, since each writes back the whole
\* limit, but each as a whole: what is stored comes from doing some of them, in
\* the order in which the server stored them (access.go:76-81).
LostAsAWhole == \A k \in Key : Exists(k) => Stored(k) \in Outcomes(first[k], order, k)

\* The lists that admit and refuse are those that are stored and shown, also
\* after a limit that was refused halfway (Limit, applyACLKeyLimit,
\* acl.go:240-255,294-321).
ListsEnforced ==
  \A k \in Key : Exists(k) =>
    LET l == IF Stored(k) = Nil THEN EmptyLimit ELSE Stored(k)
    IN  server[k].entry.whitelist = l.whitelist /\ server[k].entry.blacklist = l.blacklist

\* What the proofs rest on.  The lists an entry holds are those of its stored
\* limit, none of which is empty, so that a limit reads back as it is stored.
Old(l) == IF l = Nil THEN EmptyLimit ELSE l
RecOK(r) ==
  /\ SavedLimit(r.limit) = r.limit
  /\ r.entry.whitelist = Old(r.limit).whitelist
  /\ r.entry.blacklist = Old(r.limit).blacklist

\* What a process about to edit the limit l sends.
Sent(cmd, l) ==
  IF cmd.op = "limitReset" THEN EmptyLimit ELSE SavedLimit(Updated(cmd, Shown(l)))

\* Process c, while l is stored for its key, is at a request of its command;
\* and while nobody interferes l is the limit it found or the one it is for,
\* and the copy it holds is made from l.
Fit(c, l) ==
  LET done == l = Meaning(c.cmd, c.before)
  IN  /\ c.pc = "idle" => ~c.alone
      /\ c.pc # "idle" /\ c.cmd.op \in LimitOps =>
           /\ c.req \in {"getLimit", "patchLimit"}
           /\ c.cmd.op = "limitReset" => c.req = "patchLimit"
           /\ c.cmd.op # "limitReset" /\ c.req = "patchLimit" => Changes(c.cmd)
      /\ c.alone /\ c.cmd.op \in LimitOps =>
           /\ l = c.before \/ done
           /\ c.pc = "request" /\ c.req = "patchLimit" => c.limit = Sent(c.cmd, l)
           /\ c.pc = "response" /\ c.status # 401 /\ c.req = "getLimit" => c.limit = Shown(l)
           /\ c.pc = "response" /\ c.status # 401 /\ c.req = "patchLimit" => done
           /\ c.pc = "ok" => done

KeysOK == \A k \in Key : server[k] # Absent => RecOK(server[k])
CopiesSaved == \A p \in Cli : SavedLimit(cli[p].limit) = cli[p].limit
AllFit == \A p \in Cli : Fit(cli[p], Stored(cli[p].cmd.key))
CLIInv == TypeOK /\ KeysOK /\ CopiesSaved /\ AllFit

\* Taking an item off the whitelist, "what is allowed" (cmd/acl/cmd.go:95),
\* allows nothing that was not allowed before.
DelAdmitsNothing ==
  [][\A p \in Cli : cli[p].cmd.op = "del" /\ cli[p].cmd.list = "whitelist" /\ PatchLimit(p) =>
       \A k \in Key, t \in Target :
         Exists(k) /\ ListVerdict(server[k].entry, t) = "denied" =>
           ListVerdict(server'[k].entry, t) = "denied"]_vars
=============================================================================
