------------------------------- MODULE Session -------------------------------
(***************************************************************************)
(* The proxy's side of an app's TCP connection, from its first byte to the *)
(* relay: the socks5 handshake (socks5/socks5.go), the request loop of the *)
(* HTTP proxy (socks5/http.go) and the report Pipe ends with               *)
(* (spec/pipe.go).  An app sends the bytes of its script in segments of any*)
(* length and closes when it likes.  What a relay carries is module        *)
(* Tunnel; here are its two copies, and what their ends close.             *)
(***************************************************************************)
EXTENDS Integers, Sequences, FiniteSets

CONSTANTS
  Conn,      \* connections of apps
  Scripts,   \* what apps send, as sequences of bytes
  AddrLen,   \* bytes of the addresses of ATYP 1 and ATYP 4, 4 and 16 in the code
  EventCap   \* room in the channel of traffic events

ASSUME SessionAssumption ==
  /\ Scripts \subseteq Seq(0 .. 255)
  /\ AddrLen \in [{1, 4} -> 1 .. 255]
  /\ EventCap \in Nat

VARIABLES
  app,    \* what each app sends, has sent, and whether it has closed
  ses,    \* the goroutines of each connection
  copies, \* the two copies of a relay or of Pipe, and whether its stream is over
  events  \* length of PipeEngine.eventChan

sessionVars == <<app, ses, copies, events>>

\* "version" to "port" name the field that is read next, of `want` bytes.
Reading == {"version", "methods", "command", "address", "length", "port"}
Phase == Reading \cup {"dial", "relay", "assoc", "request", "httpDial", "pipe", "publish", "done"}

SessionRec ==
  [pc: Phase, want: 0 .. 255,
   cmd: 0 .. 255, addr: Seq(0 .. 255),   \* the command and the address read so far
   taken: Nat,                           \* bytes read from the socket
   back: Seq(0 .. 255),                  \* protocolDetectionConnWrapper.b
   held: Seq(0 .. 255),                  \* in the buffered reader of handle
   open: BOOLEAN,                        \* the app's socket, at this end
   draining: BOOLEAN,                    \* the acceptor reads to see the end
   stream: {"none", "open", "closed"},   \* the last connection TCPDialContext gave
   asked: Seq(Seq(0 .. 255)),            \* history: what was dialled
   answers: Seq(Seq(0 .. 255)),          \* history: what the app was told
   up: Seq(0 .. 255),                    \* history: what was read for the target
   short: BOOLEAN,                       \* history: a Read got part of a field
   missed: BOOLEAN]                      \* history: a request was lost or not answered

\* io.Copy from the app reads, or has what it read in hand until the stream
\* takes it; "ended" it has returned, "closed" Pipe has closed what it wrote to.
CopyRec ==
  [up: {"read", "write", "ended", "closed"}, down: {"copy", "ended", "closed"},
   over: BOOLEAN]  \* the server has ended the stream, or the way there is broken

Started(up) == [up |-> up, down |-> "copy", over |-> FALSE]

SessionTypeOK ==
  /\ app \in [Conn -> [script: Scripts, put: Nat, fin: BOOLEAN]]
  /\ ses \in [Conn -> SessionRec]
  /\ events \in 0 .. EventCap

TypeOK == SessionTypeOK /\ copies \in [Conn -> CopyRec]

Accepted ==
  [pc |-> "version", want |-> 2, cmd |-> 0, addr |-> <<>>, taken |-> 0, back |-> <<>>,
   held |-> <<>>, open |-> TRUE, draining |-> FALSE, stream |-> "none", asked |-> <<>>,
   answers |-> <<>>, up |-> <<>>, short |-> FALSE, missed |-> FALSE]

\* Earlier connections have left events in the channel: nothing starts the
\* loop that takes them out.
Init ==
  /\ app \in [Conn -> [script: Scripts, put: {0}, fin: {FALSE}]]
  /\ ses = [c \in Conn |-> Accepted]
  /\ copies = [c \in Conn |-> Started("read")]
  /\ events \in 0 .. EventCap

-----------------------------------------------------------------------------
\* The app.

AppSends(c) ==
  /\ ~app[c].fin
  /\ \E n \in app[c].put + 1 .. Len(app[c].script) : app' = [app EXCEPT ![c].put = n]
  /\ UNCHANGED <<ses, copies, events>>

AppCloses(c) ==
  /\ ~app[c].fin
  /\ app' = [app EXCEPT ![c].fin = TRUE]
  /\ UNCHANGED <<ses, copies, events>>

-----------------------------------------------------------------------------
\* Reading and writing the app's socket.

Arrived(c) == app[c].put - ses[c].taken
Incoming(c, n) == SubSeq(app[c].script, ses[c].taken + 1, ses[c].taken + n)
AtEnd(c) == Arrived(c) = 0 /\ app[c].fin

\* A write to an app that has closed may fail.
Writes(c) == IF ~ses[c].open THEN {FALSE} ELSE IF app[c].fin THEN BOOLEAN ELSE {TRUE}

Sets(c, s) == ses' = [ses EXCEPT ![c] = s] /\ UNCHANGED <<app, events>>
Goto(c, s) == Sets(c, s) /\ UNCHANGED copies
Copies(c, k) == copies' = [copies EXCEPT ![c] = k]
Only(c, k) == Copies(c, k) /\ UNCHANGED <<app, ses, events>>
Close(s) == [s EXCEPT !.pc = "done", !.open = FALSE]
Tell(s, answer) == [s EXCEPT !.answers = Append(@, answer)]

\* One Read got the whole field: f is the field, s the session behind it.
Field(c, pc) == ses[c].pc = pc /\ Arrived(c) >= ses[c].want
Bytes(c) == Incoming(c, ses[c].want)
Behind(c) == [ses[c] EXCEPT !.taken = @ + ses[c].want]
Next(c, pc, want) == [Behind(c) EXCEPT !.pc = pc, !.want = want]

-----------------------------------------------------------------------------
\* The socks5 handshake.  Each field is read by one Read, which returns what
\* has arrived: less than the field, or nothing, ends the connection.
ReadShort(c) ==
  /\ ses[c].pc \in Reading
  /\ Arrived(c) < ses[c].want
  /\ Arrived(c) > 0 \/ app[c].fin
  /\ Goto(c, [Close(ses[c]) EXCEPT !.taken = app[c].put, !.short = Arrived(c) > 0])

MethodReply == <<5, 0>>
Reply(code) == <<5, code, 0>>

\* A letter is the start of an HTTP request: the connection goes to a
\* goroutine of the HTTP proxy, and the acceptor drains it as well.
ReadVersion(c) ==
  /\ Field(c, "version")
  /\ LET f == Bytes(c)
     IN  Goto(c, CASE f[1] = 5 -> Next(c, "methods", f[2])
                   [] f[1] >= 65 -> [Next(c, "request", 0) EXCEPT !.back = f, !.draining = TRUE]
                   [] OTHER -> Close(Behind(c)))

ReadMethods(c) ==
  /\ Field(c, "methods")
  /\ \E ok \in Writes(c) :
       Goto(c, IF ok THEN Tell(Next(c, "command", 4), MethodReply) ELSE Close(Behind(c)))

ReadCommand(c) ==
  /\ Field(c, "command")
  /\ LET f == Bytes(c)
     IN  Goto(c, IF f[1] # 5 THEN Close(Behind(c))
                 ELSE CASE f[4] \in {1, 4} -> [Next(c, "address", AddrLen[f[4]]) EXCEPT !.cmd = f[2]]
                        [] f[4] = 3 -> [Next(c, "length", 1) EXCEPT !.cmd = f[2]]
                        [] OTHER -> Close(Behind(c)))

\* Mutant: the length is taken for that of the name and the port together.
ReadLengthOfAll(c) ==
  /\ Field(c, "length")
  /\ Goto(c, Next(c, "address", IF Bytes(c)[1] > 2 THEN Bytes(c)[1] - 2 ELSE 0))

ReadLength(c) ==
  /\ Field(c, "length")
  /\ Goto(c, Next(c, "address", Bytes(c)[1]))

ReadAddress(c) ==
  /\ Field(c, "address")
  /\ Goto(c, [Next(c, "port", 2) EXCEPT !.addr = Bytes(c)])

\* Mutant: a command it does not support is met with silence.
ReadPortIgnoresBind(c) ==
  /\ Field(c, "port")
  /\ LET s == Behind(c)
     IN  Goto(c, CASE s.cmd = 1 -> [s EXCEPT !.pc = "dial", !.asked = Append(@, s.addr \o Bytes(c))]
                   [] s.cmd = 3 -> Tell([s EXCEPT !.pc = "assoc"], Reply(0))
                   [] OTHER -> Close(s))

\* The request is complete: CONNECT is dialled, UDP ASSOCIATE answered at
\* once, everything else refused.
ReadPort(c) ==
  /\ Field(c, "port")
  /\ LET s == Behind(c)
     IN  Goto(c, CASE s.cmd = 1 -> [s EXCEPT !.pc = "dial", !.asked = Append(@, s.addr \o Bytes(c))]
                   [] s.cmd = 3 -> Tell([s EXCEPT !.pc = "assoc"], Reply(0))
                   [] OTHER -> Close(Tell(s, Reply(7))))

\* Mutant: the answer promises a connection before there is one.
DialPromised(c) ==
  /\ ses[c].pc = "dial"
  /\ \E ok \in BOOLEAN :
       Sets(c, IF ok THEN Tell([ses[c] EXCEPT !.pc = "relay", !.stream = "open"], Reply(0))
               ELSE Close(Tell(ses[c], Reply(0))))
  /\ Copies(c, Started("read"))

\* Every answer is written without a look at the result; then both copies start.
Dial(c) ==
  /\ ses[c].pc = "dial"
  /\ \E ok \in BOOLEAN :
       Sets(c, IF ok THEN Tell([ses[c] EXCEPT !.pc = "relay", !.stream = "open"], Reply(0))
               ELSE Close(Tell(ses[c], Reply(4))))
  /\ Copies(c, Started("read"))

-----------------------------------------------------------------------------
\* Behind the handshake: the two copies of CONNECT, which are those of Pipe too,
\* and the loop of an association.

Copying(c) == ses[c].pc \in {"relay", "pipe"}

\* The copy from the app has read what it will write to the stream.
RelayUp(c) ==
  /\ Copying(c) /\ copies[c].up = "read"
  /\ ses[c].open
  /\ \E n \in 1 .. Arrived(c) :
       Sets(c, [ses[c] EXCEPT !.taken = @ + n, !.up = @ \o Incoming(c, n)])
  /\ Copies(c, [copies[c] EXCEPT !.up = "write"])

\* The stream takes it, when the server and the target let it, or never.
UpWrite(c) ==
  /\ Copying(c) /\ copies[c].up = "write"
  /\ Only(c, [copies[c] EXCEPT !.up = "read"])

\* A read finds the end or a closed socket, or the write fails.  A copy in its
\* write sees nothing of the app's end.
UpEnds(c) ==
  /\ Copying(c)
  /\ \/ copies[c].up = "read" /\ (AtEnd(c) \/ ~ses[c].open)
     \/ copies[c].up = "write" /\ copies[c].over
  /\ Only(c, [copies[c] EXCEPT !.up = "ended"])

RemoteEnds(c) ==
  /\ Copying(c) /\ ~copies[c].over
  /\ Only(c, [copies[c] EXCEPT !.over = TRUE])

\* The copy to the app ends with the stream, or when a write to an app that has
\* closed fails.
DownEnds(c) ==
  /\ Copying(c) /\ copies[c].down = "copy"
  /\ copies[c].over \/ ses[c].stream = "closed" \/ app[c].fin \/ ~ses[c].open
  /\ Only(c, [copies[c] EXCEPT !.down = "ended"])


\* The first copy to end closes the app's socket, but not the stream; the other
\* is left to itself.
RelayEnds(c) ==
  /\ ses[c].pc = "relay"
  /\ copies[c].up = "ended" \/ copies[c].down = "ended"
  /\ Goto(c, Close(ses[c]))

Drains(c) == ses[c].open /\ (ses[c].draining \/ ses[c].pc = "assoc")

Drain(c) ==
  /\ Drains(c)
  /\ \E n \in 1 .. Arrived(c) :
       Goto(c, [ses[c] EXCEPT !.taken = @ + n, !.missed = TRUE])

\* The acceptor closes what it drains; the HTTP proxy is not told.
DrainEnds(c) ==
  /\ Drains(c)
  /\ AtEnd(c)
  /\ Goto(c, [ses[c] EXCEPT !.open = FALSE, !.draining = FALSE,
                            !.pc = IF @ = "assoc" THEN "done" ELSE @])

-----------------------------------------------------------------------------
\* The HTTP proxy.  A request is three bytes here: a letter for the method, a
\* second byte, and the host, which is 0 for the proxy's own address.

Whole(held) == Len(held) >= 3
Method(held) == held[1]
Host(held) == held[3]
CONNECT == 67

\* The buffered reader fills up with the bytes handed back, then with all that
\* has arrived.
Fill(c) ==
  /\ ses[c].pc = "request"
  /\ ~Whole(ses[c].held)
  /\ IF ses[c].back # <<>>
     THEN Goto(c, [ses[c] EXCEPT !.held = @ \o ses[c].back, !.back = <<>>])
     ELSE /\ ses[c].open
          /\ Arrived(c) > 0
          /\ Goto(c, [ses[c] EXCEPT !.held = @ \o Incoming(c, Arrived(c)), !.taken = app[c].put])

\* The end, half a request or what is none ends the loop.
NoRequest(c) ==
  /\ ses[c].pc = "request"
  /\ \/ Whole(ses[c].held) /\ Method(ses[c].held) < 65
     \/ ~Whole(ses[c].held) /\ ses[c].back = <<>> /\ (AtEnd(c) \/ ~ses[c].open)
  /\ Goto(c, Close(ses[c]))

Request(c) == SubSeq(ses[c].held, 1, 3)
Rest(c) == SubSeq(ses[c].held, 4, Len(ses[c].held))
HasRequest(c) == ses[c].pc = "request" /\ Whole(ses[c].held) /\ Method(ses[c].held) >= 65

\* Mutant: every round of the loop starts with a new buffered reader.
AnswerForgetful(c) ==
  /\ HasRequest(c)
  /\ Host(ses[c].held) = 0
  /\ \E ok \in Writes(c) :
       LET s == [ses[c] EXCEPT !.held = <<>>]
       IN  Goto(c, IF ok THEN Tell(s, Request(c)) ELSE [s EXCEPT !.missed = TRUE])

\* A request to the proxy itself is answered by a handler or with the PAC
\* script, and the next one awaited.
AnswerLocally(c) ==
  /\ HasRequest(c)
  /\ Host(ses[c].held) = 0
  /\ \E ok \in Writes(c) :
       LET s == [ses[c] EXCEPT !.held = Rest(c)]
       IN  Goto(c, IF ok THEN Tell(s, Request(c)) ELSE [s EXCEPT !.missed = TRUE])

HttpDial(c) ==
  /\ HasRequest(c)
  /\ Host(ses[c].held) # 0
  /\ Goto(c, [ses[c] EXCEPT !.pc = "httpDial", !.asked = Append(@, Request(c))])

\* It is logged, and the next request awaited.
HttpDialFails(c) ==
  /\ ses[c].pc = "httpDial"
  /\ Goto(c, [ses[c] EXCEPT !.pc = "request", !.held = Rest(c), !.missed = TRUE])

\* CONNECT is answered; another request is written anew, which may fail (the
\* wait for its body is not told apart), and is what Pipe's copy has in hand
\* first.  Pipe reads the socket, not the buffered reader.  If the answer or the
\* writing fails the stream is left open.
HttpDialled(c) ==
  /\ ses[c].pc = "httpDial"
  /\ LET connect == Method(Request(c)) = CONNECT
         s == [ses[c] EXCEPT !.stream = "open"]
         piped == [s EXCEPT !.pc = "pipe", !.held = <<>>]
     IN  /\ \E ok \in IF connect THEN Writes(c) ELSE BOOLEAN :
              Sets(c, IF ~ok THEN [s EXCEPT !.pc = "request", !.held = Rest(c), !.missed = TRUE]
                      ELSE IF connect THEN Tell(piped, Request(c))
                      ELSE [piped EXCEPT !.up = Request(c)])
         /\ Copies(c, Started(IF connect THEN "read" ELSE "write"))

\* Each copy of Pipe closes what it wrote to, which ends the other's read.
PipeUpEnds(c) ==
  /\ ses[c].pc = "pipe" /\ copies[c].up = "ended"
  /\ Sets(c, [ses[c] EXCEPT !.stream = "closed"])
  /\ Copies(c, [copies[c] EXCEPT !.up = "closed"])

PipeDownEnds(c) ==
  /\ ses[c].pc = "pipe" /\ copies[c].down = "ended"
  /\ Sets(c, [ses[c] EXCEPT !.open = FALSE])
  /\ Copies(c, [copies[c] EXCEPT !.down = "closed"])

\* Mutant: Pipe does not wait for the copy in its goroutine.
PipeEndsEarly(c) ==
  /\ ses[c].pc = "pipe" /\ copies[c].up = "closed"
  /\ Goto(c, [ses[c] EXCEPT !.pc = "publish"])

\* When the copy from the app has closed the stream, Pipe waits for the other ...
PipeEnds(c) ==
  /\ ses[c].pc = "pipe" /\ copies[c].up = "closed" /\ copies[c].down = "closed"
  /\ Goto(c, [ses[c] EXCEPT !.pc = "publish"])

\* Mutant: the report does not wait for room.
PublishAhead(c) ==
  /\ ses[c].pc = "publish"
  /\ events' = events + 1
  /\ ses' = [ses EXCEPT ![c].pc = "done"]
  /\ UNCHANGED <<app, copies>>

\* ... before the report is sent, which waits for room.
Publish(c) ==
  /\ ses[c].pc = "publish"
  /\ events < EventCap
  /\ events' = events + 1
  /\ ses' = [ses EXCEPT ![c].pc = "done"]
  /\ UNCHANGED <<app, copies>>

-----------------------------------------------------------------------------
Handshake(c) ==
  \/ ReadShort(c) \/ ReadVersion(c) \/ ReadMethods(c) \/ ReadCommand(c)
  \/ ReadLength(c) \/ ReadAddress(c) \/ ReadPort(c) \/ Dial(c)
HttpLoop(c) ==
  Fill(c) \/ NoRequest(c) \/ AnswerLocally(c) \/ HttpDial(c) \/ HttpDialFails(c) \/ HttpDialled(c)
UpCopy(c) == RelayUp(c) \/ UpEnds(c) \/ PipeUpEnds(c) \/ PipeEnds(c) \/ Publish(c)
DownCopy(c) == DownEnds(c) \/ PipeDownEnds(c)
Acceptor(c) == Drain(c) \/ DrainEnds(c) \/ RelayEnds(c)
Environment(c) == AppSends(c) \/ AppCloses(c) \/ UpWrite(c) \/ RemoteEnds(c)

SessionNext ==
  \E c \in Conn :
    Environment(c) \/ Handshake(c) \/ HttpLoop(c) \/ UpCopy(c) \/ DownCopy(c) \/ Acceptor(c)

\* Every goroutine goes on, and a dial returns.  Apps, servers and targets do as
\* they like: a write to the stream may wait for ever, and so may the copy to
\* the app, until its socket is closed at this end.
SessionFairness ==
  \A c \in Conn :
    /\ WF_sessionVars(Handshake(c)) /\ WF_sessionVars(HttpLoop(c))
    /\ WF_sessionVars(UpCopy(c)) /\ WF_sessionVars(Acceptor(c))
    /\ WF_sessionVars(PipeDownEnds(c) \/ (~ses[c].open /\ DownEnds(c)))

-----------------------------------------------------------------------------
\* What RFC 1928 reads in a script, from its end to end.

CommandAt(f) == 2 + f[2]
AddressSize(f) ==
  LET at == CommandAt(f) + 4 IN IF f[at] = 3 THEN 1 + f[at + 1] ELSE AddrLen[f[at]]
HeaderLen(f) == CommandAt(f) + 4 + AddressSize(f) + 2
TargetOf(f) ==
  SubSeq(f, CommandAt(f) + (IF f[CommandAt(f) + 4] = 3 THEN 6 ELSE 5), HeaderLen(f))
Payload(f) == SubSeq(f, HeaderLen(f) + 1, Len(f))

WellFormed(f) ==
  /\ Len(f) > 1 /\ f[1] = 5
  /\ Len(f) > CommandAt(f) + 4 /\ f[CommandAt(f) + 1] = 5
  /\ f[CommandAt(f) + 4] \in {1, 3, 4}
  /\ Len(f) >= HeaderLen(f)

Script(c) == app[c].script
Prefix(p, f) == Len(p) <= Len(f) /\ p = SubSeq(f, 1, Len(p))

\* The inductive invariant behind the properties below (SessionInv) needs three
\* things more.  Where
\* a session is in the app's stream:
Position(c) == ses[c].taken <= app[c].put /\ app[c].put <= Len(Script(c))

\* how far the request of a socks5 app has been read, and what has come of it;
AddressAt(f) == CommandAt(f) + (IF f[CommandAt(f) + 4] = 3 THEN 5 ELSE 4)
HandshakeAt(c) ==
  LET s == ses[c]  f == Script(c)  n == CommandAt(f)
  IN  /\ s.pc = "version" => s.taken = 0 /\ s.want = 2 /\ s.held = <<>>
      /\ s.pc = "methods" => s.taken = 2 /\ s.want = f[2]
      /\ s.pc = "command" => s.taken = n /\ s.want = 4
      /\ s.pc = "length" => s.taken = n + 4 /\ s.want = 1 /\ f[n + 4] = 3
      /\ s.pc = "address" => s.taken = AddressAt(f) /\ s.taken + s.want = HeaderLen(f) - 2
      /\ s.pc = "port" =>
           /\ s.taken = HeaderLen(f) - 2 /\ s.want = 2
           /\ s.addr = SubSeq(f, AddressAt(f) + 1, HeaderLen(f) - 2)
      /\ s.pc = "dial" => s.taken = HeaderLen(f) /\ s.asked = <<TargetOf(f)>>
      /\ s.pc \in (Reading \ {"version"}) \cup {"dial", "relay", "assoc"} => s.taken >= 2 /\ f[1] = 5
      /\ s.pc \in {"length", "address", "port", "dial", "relay", "assoc"} =>
           /\ s.taken >= n + 4 /\ f[n + 1] = 5 /\ f[n + 4] \in {1, 3, 4}
           /\ s.cmd = f[n + 2]
      /\ s.pc \in {"dial", "relay", "assoc"} => WellFormed(f)
      /\ s.pc \in {"dial", "relay"} => s.cmd = 1
      /\ s.pc \in Reading \cup {"assoc"} => s.asked = <<>>
      /\ s.pc \in Reading \cup {"dial"} => s.stream = "none" /\ s.up = <<>>
      /\ s.pc \in {"version", "methods"} => s.answers = <<>>
      /\ s.pc \in {"command", "length", "address", "port", "dial"} => s.answers = <<MethodReply>>
      /\ s.pc \in {"relay", "assoc"} => s.answers = <<MethodReply, Reply(0)>>
      /\ s.pc = "relay" =>
           /\ s.asked = <<TargetOf(f)>> /\ s.stream = "open"
           /\ s.taken = HeaderLen(f) + Len(s.up)
           /\ s.up = SubSeq(f, HeaderLen(f) + 1, s.taken)
      /\ s.pc = "assoc" => s.cmd = 3 /\ s.taken >= HeaderLen(f)

\* which requests of an HTTP app have been answered, and where the bytes behind
\* them are: with the wrapper, in the buffered reader or still to come.
HttpAt(c) ==
  LET s == ses[c]  f == Script(c)  n == 3 * Len(s.answers)
  IN  /\ s.pc \in {"request", "httpDial", "pipe", "publish"} \/ s.draining => s.taken >= 2 /\ f[1] >= 65
      /\ s.pc = "httpDial" => Whole(s.held)
      /\ s.pc \in {"request", "httpDial"} /\ ~s.missed =>
           \/ s.taken = 2 /\ s.back = SubSeq(f, 1, 2) /\ s.held = <<>> /\ s.answers = <<>>
           \/ s.taken >= n /\ s.back = <<>> /\ s.held = SubSeq(f, n + 1, s.taken)

\* However the app cuts up what it sends, the handshake takes the request and
\* not one byte more: what the relay passes on is the beginning of what follows
\* it (handshake, socks5.go:132-212).
RelayStartsBehindRequest ==
  \A c \in Conn : ses[c].pc = "relay" =>
    /\ ses[c].asked = <<TargetOf(Script(c))>>
    /\ ses[c].taken = HeaderLen(Script(c)) + Len(ses[c].up)
    /\ Prefix(ses[c].up, Payload(Script(c)))

\* A socks5 app gets the method and one final answer, which comes after the
\* whole request and tells what became of it: a promise of a connection is
\* never made before there is one (handshake, socks5.go:158-265).
AnswerFits(c) ==
  LET s == ses[c]  final == s.answers[2]
  IN  /\ Len(s.answers) \in {1, 2}
      /\ s.answers[1] = MethodReply
      /\ Len(s.answers) = 2 =>
           /\ WellFormed(Script(c))
           /\ s.taken >= HeaderLen(Script(c))
           /\ final \in {Reply(0), Reply(4), Reply(7)}
           /\ final = Reply(0) =>
                (s.cmd = 3 /\ s.asked = <<>>) \/ (s.cmd = 1 /\ s.stream # "none")
           /\ final = Reply(4) => s.cmd = 1 /\ s.stream = "none"
           /\ final = Reply(7) => s.cmd \notin {1, 3} /\ s.asked = <<>>
SocksAnswersFit ==
  \A c \in Conn : Script(c)[1] = 5 /\ ses[c].answers # <<>> => AnswerFits(c)

\* The n-th request of an HTTP app is answered before the next, as the app
\* wrote it, although the first bytes of the connection were read by the
\* handshake; unless a dial failed, an answer could not be written or the
\* acceptor took part of a request (handle, http.go:54-122).
HttpAnswersInOrder ==
  \A c \in Conn : Script(c)[1] >= 65 /\ ~ses[c].missed =>
    \A i \in DOMAIN ses[c].answers : ses[c].answers[i] = SubSeq(Script(c), 3 * i - 2, 3 * i)

\* A Pipe that waits for room in the channel of events holds no socket and no
\* stream, and neither of its copies runs on: whichever copy ended first, and
\* whatever the acceptor closed meanwhile, only a goroutine is left behind (Pipe,
\* pipe.go:44-59).
BlockedPipeHoldsNothing ==
  \A c \in Conn : ses[c].pc = "publish" =>
    /\ ~ses[c].open /\ ses[c].stream = "closed"
    /\ copies[c].up = "closed" /\ copies[c].down = "closed"

SessionInv ==
  /\ SessionTypeOK
  /\ \A c \in Conn : Position(c) /\ HandshakeAt(c) /\ HttpAt(c)
  /\ SocksAnswersFit /\ HttpAnswersInOrder

\* What a copy of Pipe has closed stays closed, while Pipe lasts.
CopiesFit(c) ==
  LET s == ses[c]  k == copies[c]
  IN  /\ s.pc \in {"pipe", "publish"} =>
           (k.up = "closed" => s.stream = "closed") /\ (k.down = "closed" => ~s.open)
      /\ s.pc = "publish" => k.up = "closed" /\ k.down = "closed"
CopiesInv == copies \in [Conn -> CopyRec] /\ \A c \in Conn : CopiesFit(c)

\* A socks5 request that has arrived whole is answered, whatever it asks for,
\* unless a Read came up short or the app has gone (handshake).
Asked(c) == WellFormed(Script(c)) /\ app[c].put >= HeaderLen(Script(c))
RequestAnswered ==
  \A c \in Conn : Asked(c) ~> (Len(ses[c].answers) = 2 \/ ses[c].short \/ app[c].fin)

\* Once the app has closed, its socket is closed here too and its goroutines
\* come to their end or to the report, whatever the connection had come to;
\* unless a write to the stream is never taken: it keeps Pipe from its end, and
\* with socks5 it keeps the app's socket as well, whose end nobody else would see
\* (Run, socks5.go:78-116; Pipe, pipe.go:44-59).
WriteHeld(c) == copies[c].up = "write"
=============================================================================
