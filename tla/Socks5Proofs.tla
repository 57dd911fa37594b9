---------------------------- MODULE Socks5Proofs ----------------------------
(***************************************************************************)
(* What the socks5 proxy promises, for any number of connections and       *)
(* datagrams, any scripts and any packets.  The two halves share no state: *)
(* UdpInv is inductive for the datagrams, SessionInv for the connections,  *)
(* and CopiesInv beside it for the copies of a relay.                      *)
(***************************************************************************)
EXTENDS Socks5, SequenceTheorems, TLAPS

-----------------------------------------------------------------------------
\* Datagrams.

LEMMA To4Type == ASSUME NEW ip \in Ip PROVE To4(ip) \in Ip /\ To4(To4(ip)) = To4(ip)
  BY DEF To4, Ip

LEMMA PacketType == ASSUME NEW d \in Datagram PROVE Packet[d] \in PacketRec /\ From[d] \in Nat
  BY UdpAssumption

LEMMA LeaveType ==
  ASSUME NEW r \in RelayRec
  PROVE  /\ Leave(r) \in RelayRec /\ Leave(r).pc = "done" /\ Leave(r).buf = r.buf
         /\ Leave(r).to = r.to /\ Leave(r).reached = r.reached
  BY DEF Leave, RelayRec, Phases

LEMMA UdpInitOK == UdpInit => UdpInv
<1> SUFFICES ASSUME UdpInit PROVE UdpInv
  OBVIOUS
<1>1. ASSUME NEW d \in Datagram
      PROVE  relay[d] \in RelayRec
  BY PacketType DEF UdpInit, RelayRec, Phases, Target, PacketRec
<1>2. UdpTypeOK
  BY <1>1 DEF UdpInit, UdpTypeOK
<1>3. AnswerBelongs
  BY DEF UdpInit, AnswerBelongs
<1>4. ASSUME NEW d \in Datagram
      PROVE  RelayFits(d)
  BY DEF UdpInit, RelayFits
<1> QED
  BY <1>2, <1>3, <1>4 DEF UdpInv

\* A step that tells nobody and changes one relay only.
LEMMA OneRelay ==
  ASSUME UdpInv, NEW d \in Datagram, NEW r \in RelayRec,
         relay' = [relay EXCEPT ![d] = r], told' = told,
         queue' \subseteq queue, listening' = listening, RelayFits(d)'
  PROVE  UdpInv'
<1>1. relay'[d] = r /\ \A e \in Datagram \ {d} : relay'[e] = relay[e]
  BY DEF UdpInv, UdpTypeOK
<1>2. UdpTypeOK'
  BY DEF UdpInv, UdpTypeOK
<1>3. ASSUME NEW e \in Datagram
      PROVE  RelayFits(e)'
  BY <1>1 DEF UdpInv, RelayFits
<1>4. AnswerBelongs'
  BY DEF UdpInv, AnswerBelongs
<1> QED
  BY <1>2, <1>3, <1>4 DEF UdpInv

LEMMA ListenOK == ASSUME UdpInv, NEW d \in Datagram, Listen(d) PROVE UdpInv'
<1> DEFINE r == [relay[d] EXCEPT !.pc = "decode"]
<1>1. relay[d] \in RelayRec /\ relay[d].pc = "unread" /\ relay[d].buf = Packet[d]
  BY DEF UdpInv, UdpTypeOK, Listen, RelayFits
<1>2. r \in RelayRec /\ r.pc = "decode" /\ r.buf = Packet[d]
  BY <1>1 DEF RelayRec, Phases
<1>3. /\ relay' = [relay EXCEPT ![d] = r] /\ told' = told /\ queue' = queue \ {d}
      /\ listening' = listening
  BY DEF Listen
<1>4. relay'[d] = r
  BY <1>3 DEF UdpInv, UdpTypeOK
<1>5. ~ \E a \in told : a.re = d
  BY <1>1 DEF UdpInv, RelayFits
<1> HIDE DEF r
<1>6. RelayFits(d)'
  BY <1>2, <1>3, <1>4, <1>5 DEF RelayFits
<1> QED
  BY <1>2, <1>3, <1>6, OneRelay

\* What a goroutine may do between its first step and its last.
LEMMA StepOK ==
  ASSUME UdpInv, NEW d \in Datagram, NEW pc \in Phases \ {"unread", "done"}, NEW r \in RelayRec,
         Step(d, pc, r), r.pc \notin {"unread"},
         r.pc # "done" => r.to = [ip |-> Packet[d].ip, port |-> Packet[d].port] /\ Decodes(Packet[d]),
         r.pc \notin {"answer", "done"} => r.buf = Packet[d],
         r.pc = "read" => r.reached = {<<r.to, Packet[d].payload>>},
         r.pc = "answer" => r.buf.payload = Answer(Packet[d].payload)
  PROVE  UdpInv'
<1>1. relay[d].pc = pc /\ relay' = [relay EXCEPT ![d] = r] /\ UNCHANGED <<told, queue, listening>>
  BY DEF Step
<1>2. relay'[d] = r
  BY <1>1 DEF UdpInv, UdpTypeOK
<1>3. d \notin queue /\ ~ \E a \in told : a.re = d
  BY <1>1 DEF UdpInv, RelayFits
<1>4. RelayFits(d)'
  BY <1>1, <1>2, <1>3 DEF RelayFits
<1> QED
  BY <1>1, <1>4, OneRelay

LEMMA ReplyOK == ASSUME UdpInv, NEW d \in Datagram, UdpReply(d) PROVE UdpInv'
<1> DEFINE r == relay[d]
           p == Packet[d]
           ip == To4(r.to.ip)
           a == [to |-> From[d], re |-> d, atyp |-> IF ip.family = 4 THEN 1 ELSE 4,
                 ip |-> ip, port |-> r.to.port, payload |-> r.buf.payload]
<1>1. r \in RelayRec /\ r.pc = "answer" /\ Decodes(p) /\ p \in PacketRec
      /\ r.to = [ip |-> p.ip, port |-> p.port] /\ r.buf.payload = Answer(p.payload)
  BY PacketType DEF UdpInv, UdpTypeOK, UdpReply, RelayFits
<1>2. d \notin queue /\ \A b \in told : b.re # d
  BY <1>1 DEF UdpInv, RelayFits
<1>3. relay' = [relay EXCEPT ![d] = Leave(r)] /\ queue' = queue /\ listening' = listening
      /\ (told' = told \/ told' = told \cup {a})
  BY DEF UdpReply
<1>4. Leave(r) \in RelayRec /\ relay'[d] = Leave(r) /\ relay'[d].pc = "done"
      /\ \A e \in Datagram \ {d} : relay'[e] = relay[e]
  BY <1>1, <1>3, LeaveType DEF UdpInv, UdpTypeOK
<1>5. p.ip \in Ip /\ r.to.ip = p.ip /\ r.to.port = p.port /\ p.port \in Nat /\ p.payload \in Nat
  BY <1>1 DEF PacketRec
<1>6. ip \in Ip /\ To4(ip) = To4(p.ip)
  BY <1>5, To4Type
<1>7. From[d] \in Nat /\ Answer(p.payload) \in Nat
  BY <1>5, PacketType DEF Answer
<1>8. a \in [to: Nat, re: Datagram, atyp: {1, 4}, ip: Ip, port: Nat, payload: Nat]
  BY <1>1, <1>5, <1>6, <1>7
<1>9. /\ a.re = d /\ a.to = From[d] /\ To4(a.ip) = To4(p.ip) /\ a.port = p.port
      /\ a.atyp = (IF a.ip.family = 4 THEN 1 ELSE 4) /\ a.payload = Answer(p.payload)
  BY <1>1, <1>5, <1>6
<1> HIDE DEF r, p, ip, a
<1>10. UdpTypeOK'
  BY <1>3, <1>4, <1>8 DEF UdpInv, UdpTypeOK
<1>11. AnswerBelongs'
  BY <1>1, <1>2, <1>3, <1>9 DEF UdpInv, AnswerBelongs, p
<1>12. ASSUME NEW e \in Datagram
       PROVE  RelayFits(e)'
  <2>1. CASE e = d
    BY <2>1, <1>2, <1>3, <1>4 DEF RelayFits
  <2>2. CASE e # d
    <3>1. relay'[e] = relay[e]
      BY <2>2, <1>4
    <3>2. (\E b \in told' : b.re = e) => \E b \in told : b.re = e
      BY <2>2, <1>3, <1>9
    <3> QED
      BY <3>1, <3>2, <1>3 DEF UdpInv, RelayFits
  <2> QED
    BY <2>1, <2>2
<1> QED
  BY <1>10, <1>11, <1>12 DEF UdpInv

LEMMA RelayOK ==
  ASSUME UdpInv, NEW d \in Datagram, UdpRuns(d) \/ UdpRead(d) \/ UdpReadFails(d)
  PROVE  UdpInv'
<1> DEFINE r == relay[d]
           p == Packet[d]
<1>1. r \in RelayRec /\ p \in PacketRec /\ p.ip \in Ip /\ p.port \in Nat /\ p.payload \in Nat
  BY PacketType DEF UdpInv, UdpTypeOK, PacketRec
<1>2. RelayFits(d)
  BY DEF UdpInv
<1>3. CASE Listen(d)
  BY <1>3, ListenOK
<1>4. CASE Decode(d)
  <2>1. r.pc = "decode" /\ r.buf = p
    BY <1>2, <1>4 DEF Decode, Step, RelayFits
  <2>2. CASE Decodes(p)
    <3> DEFINE s == [r EXCEPT !.pc = "dial", !.to = [ip |-> p.ip, port |-> p.port]]
    <3>1. s \in RelayRec /\ s.pc = "dial" /\ s.buf = p /\ s.to = [ip |-> p.ip, port |-> p.port]
      BY <1>1, <2>1 DEF RelayRec, Phases, Target
    <3>2. Step(d, "decode", s)
      BY <1>4, <2>1, <2>2 DEF Decode
    <3> HIDE DEF s
    <3> QED
      BY <2>2, <3>1, <3>2, StepOK DEF Phases
  <2>3. CASE ~Decodes(p)
    BY <1>1, <1>4, <2>1, <2>3, LeaveType, StepOK DEF Decode, Phases
  <2> QED
    BY <2>2, <2>3
<1>5. CASE UdpDial(d)
  <2> DEFINE s == [r EXCEPT !.pc = "write", !.stream = "open"]
  <2>1. r.pc = "dial" /\ Step(d, "dial", s)
    BY <1>5 DEF UdpDial, Step
  <2>2. s \in RelayRec /\ s.pc = "write" /\ s.buf = r.buf /\ s.to = r.to
    BY <1>1 DEF RelayRec, Phases
  <2> HIDE DEF s
  <2> QED
    BY <1>2, <2>1, <2>2, StepOK DEF RelayFits, Phases
<1>6. CASE UdpDialFails(d)
  BY <1>1, <1>6, LeaveType, StepOK DEF UdpDialFails, Phases
<1>7. CASE UdpWrite(d)
  <2> DEFINE s == [r EXCEPT !.pc = "read", !.reached = {<<r.to, r.buf.payload>>}]
  <2>1. r.pc = "write" /\ Step(d, "write", s) /\ r.buf = p /\ r.to = [ip |-> p.ip, port |-> p.port]
    BY <1>2, <1>7 DEF UdpWrite, Step, RelayFits
  <2>2. {<<r.to, r.buf.payload>>} \in SUBSET (Target \X Nat)
    BY <1>1, <2>1 DEF Target
  <2>3. /\ s \in RelayRec /\ s.pc = "read" /\ s.buf = r.buf /\ s.to = r.to
        /\ s.reached = {<<s.to, p.payload>>}
    BY <1>1, <2>1, <2>2 DEF RelayRec, Phases
  <2> HIDE DEF s
  <2> QED
    BY <1>2, <2>1, <2>3, StepOK DEF RelayFits, Phases
<1>8. CASE UdpWriteFails(d)
  BY <1>1, <1>8, LeaveType, StepOK DEF UdpWriteFails, Phases
<1>9. CASE UdpReply(d)
  BY <1>9, ReplyOK
<1>10. CASE UdpRead(d)
  <2> PICK m \in r.reached :
        Step(d, "read", [r EXCEPT !.pc = "answer", !.buf.payload = Answer(m[2])])
    BY <1>10 DEF UdpRead
  <2> DEFINE b == [r.buf EXCEPT !.payload = Answer(p.payload)]
             s == [[r EXCEPT !.pc = "answer"] EXCEPT !.buf = b]
  <2>1. r.pc = "read" /\ r.buf = p /\ m[2] = p.payload
    BY <1>2 DEF Step, RelayFits
  <2>2. b \in PacketRec /\ b.payload = Answer(p.payload)
    BY <1>1, <2>1 DEF PacketRec, Answer
  <2>3. Step(d, "read", s)
    BY <1>1, <2>1 DEF RelayRec
  <2> HIDE DEF b
  <2>4. s \in RelayRec /\ s.pc = "answer" /\ s.buf = b /\ s.to = r.to
    BY <1>1, <2>2 DEF RelayRec, Phases
  <2> HIDE DEF s
  <2> QED
    BY <1>2, <2>1, <2>2, <2>3, <2>4, StepOK DEF RelayFits, Phases
<1>11. CASE UdpReadFails(d)
  BY <1>1, <1>11, LeaveType, StepOK DEF UdpReadFails, Phases
<1> QED
  BY <1>3, <1>4, <1>5, <1>6, <1>7, <1>8, <1>9, <1>10, <1>11 DEF UdpRuns

\* The end of the loop leaves every relay where it is.
LEMMA UdpStutter ==
  ASSUME UdpInv, UNCHANGED <<queue, relay, told>>, listening' \in BOOLEAN
  PROVE  UdpInv'
  BY DEF UdpInv, UdpTypeOK, RelayFits, AnswerBelongs

LEMMA UdpNextOK == ASSUME UdpInv, UdpNext \/ UNCHANGED udpVars PROVE UdpInv'
<1>1. CASE ListenFails
  BY <1>1, UdpStutter DEF ListenFails
<1>2. CASE UNCHANGED udpVars
  BY <1>2, UdpStutter DEF udpVars, UdpInv, UdpTypeOK
<1> QED
  BY <1>1, <1>2, RelayOK DEF UdpNext

LEMMA UdpInductive == Socks5Spec => []UdpInv
<1>1. Socks5Init => UdpInv
  BY UdpInitOK DEF Socks5Init
<1>2. UdpInv /\ [Socks5Next]_vars => UdpInv'
  BY UdpNextOK DEF Socks5Next, vars
<1> QED
  BY <1>1, <1>2, PTL DEF Socks5Spec

\* No app is told what another's datagram brought back, nor what came from
\* another target or for another datagram, nor anything twice, however many
\* relays run at once and whatever is lost (pipeSocks5UDP, udp.go:27-65).
THEOREM AnswersBelong == Socks5Spec => []AnswerBelongs
<1>1. UdpInv => AnswerBelongs
  BY DEF UdpInv
<1> QED
  BY <1>1, UdpInductive, PTL

-----------------------------------------------------------------------------
\* Connections.  What SessionInv says of one of them:

SessionFits(c) ==
  LET s == ses[c]  f == Script(c)
  IN  /\ Position(c) /\ HandshakeAt(c) /\ HttpAt(c)
      /\ f[1] = 5 /\ s.answers # <<>> => AnswerFits(c)
      /\ f[1] >= 65 /\ ~s.missed =>
           \A i \in DOMAIN s.answers : s.answers[i] = SubSeq(f, 3 * i - 2, 3 * i)

LEMMA InvByParts == SessionInv <=> SessionTypeOK /\ \A e \in Conn : SessionFits(e)
  BY DEF SessionInv, SessionFits, SocksAnswersFit, HttpAnswersInOrder

LEMMA ConnType ==
  ASSUME SessionTypeOK, NEW c \in Conn
  PROVE  /\ ses[c] \in SessionRec /\ Script(c) \in Seq(0 .. 255) /\ app[c].put \in Nat
         /\ app[c].fin \in BOOLEAN
  BY SessionAssumption DEF SessionTypeOK, Script

\* The other connections do not notice a step.
LEMMA OneSessionMoves ==
  ASSUME SessionInv, NEW c \in Conn, NEW s \in SessionRec, ses' = [ses EXCEPT ![c] = s],
         app' = app, events' \in 0 .. EventCap, SessionFits(c)'
  PROVE  SessionInv'
<1>1. ses' = [ses EXCEPT ![c] = s] /\ app' = app /\ events' \in 0 .. EventCap /\ SessionTypeOK
  BY DEF SessionInv
<1>2. \A e \in Conn \ {c} : ses'[e] = ses[e]
  BY <1>1 DEF SessionTypeOK
<1>3. SessionTypeOK'
  BY <1>1 DEF SessionTypeOK
<1>4. ASSUME NEW e \in Conn
      PROVE  SessionFits(e)'
  <2>1. CASE e # c
    <3>1. ses'[e] = ses[e] /\ app'[e] = app[e] /\ SessionFits(e)
      BY <2>1, <1>1, <1>2, InvByParts
    <3>2. Script(e)' = Script(e)
      BY <3>1 DEF Script
    <3>3. Position(e)' /\ HandshakeAt(e)'
      BY <3>1, <3>2 DEF SessionFits, Position, HandshakeAt
    <3>4. HttpAt(e)'
      BY <3>1, <3>2 DEF SessionFits, HttpAt
    <3>5. AnswerFits(e) => AnswerFits(e)'
      BY <3>1, <3>2 DEF AnswerFits
    <3> QED
      BY <3>1, <3>2, <3>3, <3>4, <3>5 DEF SessionFits
  <2> QED
    BY <2>1
<1>5. (SessionInv <=> SessionTypeOK /\ \A e \in Conn : SessionFits(e))'
  BY DEF SessionInv, SessionFits, SocksAnswersFit, HttpAnswersInOrder
<1> QED
  BY <1>3, <1>4, <1>5

LEMMA OneSession ==
  ASSUME SessionInv, NEW c \in Conn, NEW s \in SessionRec, Sets(c, s), SessionFits(c)'
  PROVE  SessionInv'
  BY OneSessionMoves DEF Sets, SessionInv, SessionTypeOK

LEMMA SetTaken ==
  ASSUME NEW s \in SessionRec, NEW k \in Nat
  PROVE  LET t == [s EXCEPT !.taken = k]
         IN  /\ t \in SessionRec /\ t.taken = k
             /\ t.pc = s.pc /\ t.want = s.want /\ t.cmd = s.cmd /\ t.addr = s.addr
             /\ t.back = s.back /\ t.held = s.held /\ t.open = s.open /\ t.draining = s.draining
             /\ t.stream = s.stream /\ t.asked = s.asked /\ t.answers = s.answers /\ t.up = s.up
             /\ t.missed = s.missed
<1>1. [s EXCEPT !.taken = k] \in SessionRec
  BY ZenonT(60) DEF SessionRec
<1> QED
  BY <1>1 DEF SessionRec

LEMMA CloseFrame ==
  ASSUME NEW s \in SessionRec
  PROVE  LET t == Close(s)
         IN  /\ t \in SessionRec /\ t.pc = "done" /\ ~t.open
             /\ t.want = s.want /\ t.cmd = s.cmd /\ t.addr = s.addr /\ t.taken = s.taken
             /\ t.back = s.back /\ t.held = s.held /\ t.draining = s.draining
             /\ t.stream = s.stream /\ t.asked = s.asked /\ t.answers = s.answers /\ t.up = s.up
             /\ t.missed = s.missed
<1>1. Close(s) \in SessionRec
  BY ZenonT(60) DEF Close, SessionRec, Phase
<1> QED
  BY <1>1 DEF Close, SessionRec

LEMMA TellFrame ==
  ASSUME NEW s \in SessionRec, NEW answer \in Seq(0 .. 255)
  PROVE  LET t == Tell(s, answer)
         IN  /\ t \in SessionRec /\ t.answers = Append(s.answers, answer)
             /\ t.pc = s.pc /\ t.want = s.want /\ t.cmd = s.cmd /\ t.addr = s.addr
             /\ t.taken = s.taken /\ t.back = s.back /\ t.held = s.held /\ t.open = s.open
             /\ t.draining = s.draining /\ t.stream = s.stream /\ t.asked = s.asked
             /\ t.up = s.up /\ t.missed = s.missed
<1> DEFINE a == Append(s.answers, answer)
<1>1. a \in Seq(Seq(0 .. 255))
  BY DEF SessionRec
<1>2. Tell(s, answer) = [s EXCEPT !.answers = a]
  BY DEF Tell
<1> HIDE DEF a
<1>3. Tell(s, answer) \in SessionRec
  <2>1. ASSUME NEW b \in Seq(Seq(0 .. 255))
        PROVE  [s EXCEPT !.answers = b] \in SessionRec
    BY ZenonT(60) DEF SessionRec
  <2> QED
    BY <1>1, <1>2, <2>1
<1>4. Tell(s, answer).answers = a
  BY <1>2 DEF SessionRec
<1>5. LET t == Tell(s, answer)
      IN  /\ t.pc = s.pc /\ t.want = s.want /\ t.cmd = s.cmd /\ t.addr = s.addr
          /\ t.taken = s.taken /\ t.back = s.back /\ t.held = s.held /\ t.open = s.open
          /\ t.draining = s.draining /\ t.stream = s.stream /\ t.asked = s.asked /\ t.up = s.up
          /\ t.missed = s.missed
  BY <1>2 DEF SessionRec
<1> QED
  BY <1>3, <1>4, <1>5 DEF a

LEMMA ByteNat == (\A x \in 0 .. 255 : x \in Nat) /\ (\A x \in 1 .. 255 : x \in Nat /\ x \in 0 .. 255)
  OBVIOUS

LEMMA Room ==
  ASSUME NEW taken \in Nat, NEW want \in 0 .. 255, NEW put \in Nat, put - taken >= want
  PROVE  taken + want <= put /\ taken + want \in Nat
  OBVIOUS

\* The session behind a field that has arrived, and the field itself.
Framed(c, pc) ==
  LET s == ses[c]  f == Script(c)  t == Behind(c)  b == Bytes(c)
  IN  /\ s \in SessionRec /\ s.pc = pc /\ SessionFits(c) /\ f \in Seq(0 .. 255)
      /\ s.taken \in Nat /\ s.want \in 0 .. 255 /\ app[c].put \in Nat
      /\ t \in SessionRec /\ t.taken = s.taken + s.want
      /\ t.taken <= app[c].put /\ t.taken <= Len(f) /\ app[c].put <= Len(f)
      /\ t.pc = s.pc /\ t.want = s.want /\ t.cmd = s.cmd /\ t.addr = s.addr
      /\ t.back = s.back /\ t.held = s.held /\ t.open = s.open /\ t.draining = s.draining
      /\ t.stream = s.stream /\ t.asked = s.asked /\ t.answers = s.answers /\ t.up = s.up
      /\ t.missed = s.missed
      /\ b \in Seq(0 .. 255) /\ Len(b) = s.want
      /\ b = SubSeq(f, s.taken + 1, t.taken)
      /\ \A i \in 1 .. s.want : b[i] = f[s.taken + i] /\ b[i] \in 0 .. 255

LEMMA FieldFrame ==
  ASSUME SessionInv, NEW c \in Conn, NEW pc, Field(c, pc)
  PROVE  Framed(c, pc)
<1> DEFINE s == ses[c]
           f == Script(c)
           t == Behind(c)
           b == Bytes(c)
           k == s.taken + s.want
<1>1. s \in SessionRec /\ f \in Seq(0 .. 255) /\ app[c].put \in Nat /\ SessionFits(c)
  BY ConnType, InvByParts DEF SessionInv
<1>2. s.pc = pc /\ s.taken \in Nat /\ s.want \in 0 .. 255
  BY <1>1 DEF Field, SessionRec
<1>3. k \in Nat /\ k <= app[c].put /\ app[c].put <= Len(f) /\ Len(f) \in Nat
  <2>1. Position(c) /\ Len(f) \in Nat
    BY <1>1 DEF SessionFits
  <2>2. app[c].put - s.taken >= s.want
    BY DEF Field, Arrived
  <2>3. app[c].put <= Len(f)
    BY <2>1 DEF Position
  <2> HIDE DEF s, f
  <2>4. s.taken + s.want <= app[c].put /\ s.taken + s.want \in Nat
    BY <1>1, <1>2, <2>2, Room
  <2> QED
    BY <2>1, <2>3, <2>4
<1>4. t = [s EXCEPT !.taken = k]
  BY DEF Behind
<1>5. b = SubSeq(f, s.taken + 1, k)
  BY DEF Bytes, Incoming, Script
<1>6. \A i \in 1 .. Len(f) : f[i] \in 0 .. 255
  BY <1>1, ElementOfSeq
<1>7. s.want = k - s.taken
  BY <1>2
<1> HIDE DEF s, f, t, b, k
<1>8. t \in SessionRec /\ t.taken = k
  BY <1>1, <1>3, <1>4, SetTaken
<1>9. /\ t.pc = s.pc /\ t.want = s.want /\ t.cmd = s.cmd /\ t.addr = s.addr /\ t.back = s.back
       /\ t.held = s.held /\ t.open = s.open /\ t.draining = s.draining /\ t.stream = s.stream
       /\ t.asked = s.asked /\ t.answers = s.answers /\ t.up = s.up /\ t.missed = s.missed
  BY <1>1, <1>3, <1>4, SetTaken
<1>10. \A i \in s.taken + 1 .. k : f[i] \in 0 .. 255
  BY <1>1, <1>2, <1>3, <1>6
<1>11. /\ b \in Seq(0 .. 255)
       /\ Len(b) = IF s.taken + 1 <= k THEN k - (s.taken + 1) + 1 ELSE 0
       /\ \A i \in 1 .. k - (s.taken + 1) + 1 : b[i] = f[s.taken + 1 + i - 1]
  BY <1>2, <1>3, <1>5, <1>10, SubSeqProperties, SMTT(30)
<1>12. Len(b) = s.want
  <2>1. CASE s.want = 0
    BY <2>1, <1>2, <1>3, <1>7, <1>11
  <2>2. CASE s.want > 0
    <3>1. s.taken + 1 <= k
      BY <2>2, <1>2, <1>3, <1>7
    <3>2. Len(b) = k - (s.taken + 1) + 1
      BY <3>1, <1>11
    <3> QED
      BY <3>2, <1>2, <1>3, <1>7
  <2> QED
    <3>1. s.want = 0 \/ s.want > 0
      BY <1>2
    <3> QED
      BY <2>1, <2>2, <3>1
<1>13. ASSUME NEW i \in 1 .. s.want
       PROVE  b[i] = f[s.taken + i] /\ b[i] \in 0 .. 255
  <2>1. i \in 1 .. k - (s.taken + 1) + 1 /\ s.taken + 1 + i - 1 = s.taken + i
    BY <1>1, <1>2, <1>3, <1>7
  <2>2. s.taken + i \in 1 .. Len(f)
    BY <1>1, <1>2, <1>3, <1>7
  <2> QED
    BY <1>11, <1>6, <2>1, <2>2
<1>14. b = SubSeq(f, s.taken + 1, t.taken)
  BY <1>5, <1>8
<1>15. t.taken = s.taken + s.want /\ t.taken <= app[c].put /\ t.taken <= Len(f)
  BY <1>1, <1>2, <1>3, <1>7, <1>8
<1> QED
  BY <1>1, <1>2, <1>3, <1>5, <1>8, <1>9, <1>11, <1>12, <1>13, <1>14, <1>15, Zenon DEF Framed, s, f, t, b, k

Turn(s, pc, want) == [s EXCEPT !.pc = pc, !.want = want]

LEMMA NextFrame ==
  ASSUME NEW s \in SessionRec, NEW p \in Phase, NEW w \in 0 .. 255
  PROVE  LET t == Turn(s, p, w)
         IN  /\ t \in SessionRec /\ t.pc = p /\ t.want = w
             /\ t.cmd = s.cmd /\ t.addr = s.addr /\ t.taken = s.taken /\ t.back = s.back
             /\ t.held = s.held /\ t.open = s.open /\ t.draining = s.draining
             /\ t.stream = s.stream /\ t.asked = s.asked /\ t.answers = s.answers /\ t.up = s.up
             /\ t.missed = s.missed
<1>1. [s EXCEPT !.pc = p, !.want = w] \in SessionRec
  BY ZenonT(60) DEF SessionRec
<1> QED
  BY <1>1 DEF SessionRec, Turn

\* The fields of a request, as far as they have arrived, are numbers.
LEMMA HeaderFacts ==
  ASSUME NEW f \in Seq(0 .. 255), 2 <= Len(f), CommandAt(f) + 4 <= Len(f),
         f[CommandAt(f) + 4] \in {1, 3, 4},
         f[CommandAt(f) + 4] = 3 => CommandAt(f) + 5 <= Len(f)
  PROVE  LET n == CommandAt(f)
         IN  /\ n \in Nat /\ n >= 2 /\ AddressAt(f) \in Nat /\ HeaderLen(f) \in Nat
             /\ n + 4 <= AddressAt(f) /\ AddressAt(f) + 2 <= HeaderLen(f)
             /\ f[n + 4] = 3 => AddressAt(f) = n + 5 /\ HeaderLen(f) - 2 = n + 5 + f[n + 5]
             /\ f[n + 4] # 3 => AddressAt(f) = n + 4 /\ HeaderLen(f) - 2 = n + 4 + AddrLen[f[n + 4]]
             /\ TargetOf(f) = SubSeq(f, AddressAt(f) + 1, HeaderLen(f))
<1> DEFINE n == CommandAt(f)
           k == f[n + 4]
<1>1. \A i \in 1 .. Len(f) : f[i] \in 0 .. 255
  BY ElementOfSeq
<1>2. Len(f) \in Nat /\ f[2] \in 0 .. 255
  BY <1>1
<1>3. n = 2 + f[2] /\ n \in Nat /\ n >= 2
  <2>1. \A x \in Nat : 2 + x \in Nat /\ 2 + x >= 2
    OBVIOUS
  <2>2. f[2] \in Nat
    BY <1>2, ByteNat
  <2> QED
    BY <2>1, <2>2 DEF CommandAt
<1>4. CASE k = 3
  <2>1. n + 5 \in 1 .. Len(f)
    BY <1>2, <1>3, <1>4
  <2>2. f[n + 5] \in 0 .. 255
    BY <1>1, <2>1
  <2>3. AddressSize(f) = 1 + f[n + 5]
    BY <1>3, <1>4 DEF AddressSize
  <2>4. HeaderLen(f) = n + 4 + (1 + f[n + 5]) + 2
    BY <2>3 DEF HeaderLen
  <2>5. AddressAt(f) = n + 5
    BY <1>4 DEF AddressAt
  <2>6. TargetOf(f) = SubSeq(f, n + 6, HeaderLen(f))
    BY <1>4 DEF TargetOf
  <2>7. n + 6 = AddressAt(f) + 1
    BY <1>3, <2>5
  <2>8. \A x, y \in Nat : x + 4 + (1 + y) + 2 - 2 = x + 5 + y /\ x + 4 + (1 + y) + 2 \in Nat
                           /\ x + 5 + 2 <= x + 4 + (1 + y) + 2 /\ x + 4 <= x + 5 /\ x + 5 \in Nat
    OBVIOUS
  <2>9. f[n + 5] \in Nat
    BY <2>2, ByteNat
  <2>10. /\ HeaderLen(f) \in Nat /\ HeaderLen(f) - 2 = n + 5 + f[n + 5] /\ AddressAt(f) \in Nat
         /\ n + 4 <= AddressAt(f) /\ AddressAt(f) + 2 <= HeaderLen(f)
    BY <1>3, <2>4, <2>5, <2>8, <2>9, SMTT(30)
  <2> QED
    BY <1>3, <1>4, <2>5, <2>6, <2>7, <2>10
<1>5. CASE k \in {1, 4}
  <2>1. AddrLen[k] \in 1 .. 255
    BY <1>5, SessionAssumption, ZenonT(60)
  <2>2. AddressSize(f) = AddrLen[k]
    BY <1>5 DEF AddressSize
  <2>3. HeaderLen(f) = n + 4 + AddrLen[k] + 2
    BY <2>2 DEF HeaderLen
  <2>4. AddressAt(f) = n + 4
    BY <1>5 DEF AddressAt
  <2>5. TargetOf(f) = SubSeq(f, n + 5, HeaderLen(f))
    <3>1. k # 3
      BY <1>5
    <3> QED
      BY <3>1 DEF TargetOf
  <2>6. n + 5 = AddressAt(f) + 1
    BY <1>3, <2>4
  <2>7. \A x, y \in Nat : x + 4 + y + 2 - 2 = x + 4 + y /\ x + 4 + y + 2 \in Nat
                           /\ x + 4 + 2 <= x + 4 + y + 2 /\ x + 4 <= x + 4 /\ x + 4 \in Nat
    OBVIOUS
  <2>8. AddrLen[k] \in Nat
    BY <2>1, ByteNat
  <2>9. /\ HeaderLen(f) \in Nat /\ HeaderLen(f) - 2 = n + 4 + AddrLen[k] /\ AddressAt(f) \in Nat
        /\ n + 4 <= AddressAt(f) /\ AddressAt(f) + 2 <= HeaderLen(f)
    BY <1>3, <2>3, <2>4, <2>7, <2>8
  <2>10. k # 3
    BY <1>5
  <2> QED
    BY <1>3, <2>4, <2>5, <2>6, <2>9, <2>10
<1> QED
  BY <1>4, <1>5

LEMMA WellFormedFacts ==
  ASSUME NEW f \in Seq(0 .. 255)
  PROVE  WellFormed(f) <=>
           /\ Len(f) > 1 /\ f[1] = 5 /\ CommandAt(f) + 4 < Len(f)
           /\ f[CommandAt(f) + 1] = 5 /\ f[CommandAt(f) + 4] \in {1, 3, 4}
           /\ HeaderLen(f) <= Len(f) /\ HeaderLen(f) \in Nat
<1>1. Len(f) \in Nat
  OBVIOUS
<1>2. Len(f) > 1 => CommandAt(f) \in Nat
  <2>1. SUFFICES ASSUME Len(f) > 1 PROVE CommandAt(f) \in Nat
    OBVIOUS
  <2>2. 2 \in 1 .. Len(f)
    BY <1>1, <2>1
  <2>3. f[2] \in Nat
    BY <2>2, ElementOfSeq, ByteNat
  <2>4. \A x \in Nat : 2 + x \in Nat
    OBVIOUS
  <2> QED
    BY <2>3, <2>4 DEF CommandAt
<1> DEFINE n == CommandAt(f)
           l == Len(f)
<1>3. ASSUME l > 1, n + 4 < l, f[n + 4] \in {1, 3, 4}
      PROVE  HeaderLen(f) \in Nat
  <2>1. 2 <= l /\ n + 4 <= l /\ n + 5 <= l
    BY <1>1, <1>2, <1>3
  <2> QED
    BY <1>3, <2>1, HeaderFacts
<1>4. \A x, y \in Nat : (y > x <=> x < y) /\ (y >= x <=> x <= y)
  OBVIOUS
<1>5. n \in Nat => n + 4 \in Nat /\ (l > n + 4 <=> n + 4 < l)
  BY <1>1
<1>6. HeaderLen(f) \in Nat => (l >= HeaderLen(f) <=> HeaderLen(f) <= l)
  BY <1>1, <1>4
<1> QED
  BY <1>2, <1>3, <1>5, <1>6 DEF WellFormed

LEMMA After ==
  ASSUME SessionInv, NEW c \in Conn, NEW t \in SessionRec, Sets(c, t)
  PROVE  /\ ses'[c] = t /\ app'[c] = app[c] /\ Script(c)' = Script(c)
         /\ SessionFits(c) /\ ses[c] \in SessionRec /\ Script(c) \in Seq(0 .. 255)
         /\ app[c].put \in Nat /\ Position(c) /\ Len(Script(c)) \in Nat
<1>1. ses' = [ses EXCEPT ![c] = t] /\ app' = app /\ SessionTypeOK
  BY DEF Sets, SessionInv
<1>2. ses'[c] = t
  BY <1>1 DEF SessionTypeOK
<1>3. SessionFits(c) /\ Position(c)
  BY InvByParts DEF SessionFits
<1> QED
  BY <1>1, <1>2, <1>3, ConnType DEF Script

\* A connection that ends tells its app nothing more.
LEMMA FinishOK ==
  ASSUME SessionInv, NEW c \in Conn, NEW t \in SessionRec, Sets(c, t), t.pc = "done",
         t.taken \in ses[c].taken .. app[c].put, t.answers = ses[c].answers,
         t.cmd = ses[c].cmd, t.asked = ses[c].asked,
         t.stream = ses[c].stream \/ (ses[c].stream # "none" /\ t.stream # "none"),
         t.draining => ses[c].draining, ses[c].missed => t.missed
  PROVE  SessionInv'
<1> DEFINE s == ses[c]
           f == Script(c)
<1>1. /\ ses'[c] = t /\ app'[c] = app[c] /\ Script(c)' = f
      /\ SessionFits(c) /\ s \in SessionRec /\ f \in Seq(0 .. 255)
      /\ app[c].put \in Nat /\ app[c].put <= Len(f) /\ Len(f) \in Nat
  BY After DEF Position
<1>2. t.taken >= s.taken /\ t.taken <= app[c].put /\ s.taken \in Nat /\ t.taken \in Nat
  BY <1>1 DEF SessionRec
<1>3. Position(c)'
  BY <1>1, <1>2 DEF Position
<1>4. HandshakeAt(c)'
  BY <1>1 DEF HandshakeAt, Reading
<1>5. HttpAt(c)'
  <2>1. s.draining => s.taken >= 2 /\ f[1] >= 65
    BY <1>1 DEF SessionFits, HttpAt
  <2>2. t.draining => t.taken >= 2 /\ f[1] >= 65
    BY <1>2, <2>1
  <2> HIDE DEF f, s
  <2> QED
    BY <1>1, <2>2 DEF HttpAt
<1>6. f[1] = 5 /\ t.answers # <<>> => AnswerFits(c)'
  <2>1. SUFFICES ASSUME f[1] = 5, t.answers # <<>>
                 PROVE  AnswerFits(c)'
    OBVIOUS
  <2>2. AnswerFits(c)
    BY <1>1, <2>1 DEF SessionFits
  <2>3. WellFormed(f) => (s.taken >= HeaderLen(f) => t.taken >= HeaderLen(f))
    <3>1. SUFFICES ASSUME WellFormed(f), s.taken >= HeaderLen(f)
                   PROVE  t.taken >= HeaderLen(f)
      OBVIOUS
    <3>2. HeaderLen(f) \in Nat
      BY <3>1, <1>1, WellFormedFacts
    <3> HIDE DEF f, s
    <3> QED
      BY <1>2, <3>1, <3>2
  <2> QED
    BY <1>1, <2>2, <2>3 DEF AnswerFits
<1>7. f[1] >= 65 /\ ~t.missed =>
        \A i \in DOMAIN t.answers : t.answers[i] = SubSeq(f, 3 * i - 2, 3 * i)
  BY <1>1 DEF SessionFits
<1>8. SessionFits(c)'
  BY <1>1, <1>3, <1>4, <1>5, <1>6, <1>7 DEF SessionFits
<1> QED
  BY <1>8, OneSession

\* As long as the request of a socks5 app is being read, only its place in the
\* stream and the first answer have to be looked at.
LEMMA EarlyOK ==
  ASSUME SessionInv, NEW c \in Conn, NEW t \in SessionRec, Sets(c, t),
         t.pc \in (Reading \ {"version"}) \cup {"dial"}, Script(c)[1] = 5,
         t.draining = ses[c].draining, Position(c)', HandshakeAt(c)'
  PROVE  SessionInv'
<1> DEFINE f == Script(c)
<1>1. /\ ses'[c] = t /\ app'[c] = app[c] /\ Script(c)' = f
      /\ SessionFits(c) /\ f[1] = 5 /\ HttpAt(c)
  BY After DEF SessionFits
<1>2. ~(f[1] >= 65)
  BY <1>1
<1>3. ~t.draining
  BY <1>1, <1>2 DEF HttpAt
<1> HIDE DEF f
<1>4. HttpAt(c)'
  BY <1>1, <1>3 DEF HttpAt, Reading
<1>5. t.answers = <<>> \/ t.answers = <<MethodReply>>
  BY <1>1 DEF HandshakeAt, Reading
<1>6. t.answers # <<>> => AnswerFits(c)'
  <2>1. SUFFICES ASSUME t.answers # <<>> PROVE AnswerFits(c)'
    OBVIOUS
  <2>2. t.answers = <<MethodReply>>
    BY <1>5, <2>1
  <2>3. Len(t.answers) = 1 /\ t.answers[1] = MethodReply
    BY <2>2
  <2> QED
    BY <1>1, <2>3 DEF AnswerFits
<1>7. t.pc # "publish"
  BY DEF Reading
<1>8. SessionFits(c)'
  BY <1>1, <1>2, <1>4, <1>6, <1>7 DEF SessionFits
<1> QED
  BY <1>8, OneSession

LEMMA ReadShortOK == ASSUME SessionInv, NEW c \in Conn, ReadShort(c) PROVE SessionInv'
<1> DEFINE s == ses[c]
           u == Close(s)
           t == [u EXCEPT !.taken = app[c].put, !.short = Arrived(c) > 0]
<1>1. s \in SessionRec /\ app[c].put \in Nat /\ Sets(c, t) /\ Position(c)
  BY ConnType, InvByParts DEF SessionInv, SessionFits, ReadShort, Goto
<1>2. u \in SessionRec /\ u.pc = "done"
      /\ /\ u.want = s.want /\ u.cmd = s.cmd /\ u.addr = s.addr /\ u.taken = s.taken
         /\ u.back = s.back /\ u.held = s.held /\ u.draining = s.draining /\ u.stream = s.stream
         /\ u.asked = s.asked /\ u.answers = s.answers /\ u.up = s.up /\ u.missed = s.missed
  BY <1>1, CloseFrame
<1> HIDE DEF u
<1>3. t \in SessionRec
  <2>1. (Arrived(c) > 0) \in BOOLEAN
    OBVIOUS
  <2> QED
    BY <1>1, <1>2, <2>1, ZenonT(60) DEF SessionRec
<1>4. t.pc = "done" /\ t.taken = app[c].put
      /\ /\ t.want = u.want /\ t.cmd = u.cmd /\ t.addr = u.addr /\ t.back = u.back
         /\ t.held = u.held /\ t.draining = u.draining /\ t.stream = u.stream
         /\ t.asked = u.asked /\ t.answers = u.answers /\ t.up = u.up /\ t.missed = u.missed
  BY <1>2 DEF SessionRec
<1>5. app[c].put \in s.taken .. app[c].put
  BY <1>1 DEF Position, SessionRec
<1> HIDE DEF t
<1> QED
  BY <1>1, <1>2, <1>3, <1>4, <1>5, FinishOK

LEMMA ReadVersionOK == ASSUME SessionInv, NEW c \in Conn, ReadVersion(c) PROVE SessionInv'
<1> DEFINE s == ses[c]
           f == Script(c)
           u == Behind(c)
           b == Bytes(c)
<1>1. /\ s \in SessionRec /\ s.pc = "version" /\ SessionFits(c) /\ f \in Seq(0 .. 255)
      /\ s.taken \in Nat /\ s.want \in 0 .. 255 /\ app[c].put \in Nat
      /\ u \in SessionRec /\ u.taken = s.taken + s.want
      /\ u.taken <= app[c].put /\ u.taken <= Len(f) /\ app[c].put <= Len(f)
      /\ /\ u.pc = s.pc /\ u.want = s.want /\ u.cmd = s.cmd /\ u.addr = s.addr
         /\ u.back = s.back /\ u.held = s.held /\ u.open = s.open /\ u.draining = s.draining
         /\ u.stream = s.stream /\ u.asked = s.asked /\ u.answers = s.answers /\ u.up = s.up
         /\ u.missed = s.missed
      /\ b \in Seq(0 .. 255) /\ Len(b) = s.want
      /\ b = SubSeq(f, s.taken + 1, u.taken)
      /\ \A i \in 1 .. s.want : b[i] = f[s.taken + i] /\ b[i] \in 0 .. 255
  <2>1. Field(c, "version")
    BY DEF ReadVersion, Goto
  <2>2. Framed(c, "version")
    BY <2>1, FieldFrame
  <2> QED
    BY <2>2 DEF Framed
<1>2. /\ s.taken = 0 /\ s.want = 2 /\ s.held = <<>> /\ s.asked = <<>> /\ s.answers = <<>>
      /\ s.stream = "none" /\ s.up = <<>>
  BY <1>1 DEF SessionFits, HandshakeAt, Reading
<1>3. u.taken = 2 /\ b = SubSeq(f, 1, 2) /\ b[1] = f[1] /\ b[2] = f[2] /\ b[2] \in 0 .. 255
  BY <1>1, <1>2
<1>4. Sets(c, CASE b[1] = 5 -> Next(c, "methods", b[2])
                [] b[1] >= 65 -> [Next(c, "request", 0) EXCEPT !.back = b, !.draining = TRUE]
                [] OTHER -> Close(u))
  BY DEF ReadVersion, Goto
<1> HIDE DEF s, f, u, b
<1>5. CASE f[1] = 5
  <2> DEFINE t == Turn(u, "methods", b[2])
  <2>1. Sets(c, t)
    BY <1>3, <1>4, <1>5 DEF Next, Turn, u
  <2>2. t \in SessionRec /\ t.pc = "methods" /\ t.want = b[2]
        /\ /\ t.cmd = u.cmd /\ t.addr = u.addr /\ t.taken = u.taken /\ t.back = u.back
           /\ t.held = u.held /\ t.open = u.open /\ t.draining = u.draining
           /\ t.stream = u.stream /\ t.asked = u.asked /\ t.answers = u.answers /\ t.up = u.up
           /\ t.missed = u.missed
    <3>1. "methods" \in Phase
      BY DEF Phase, Reading
    <3> QED
      BY <1>1, <1>3, <3>1, NextFrame, ZenonT(60)
  <2> HIDE DEF t
  <2>3. ses'[c] = t /\ app'[c] = app[c] /\ Script(c)' = f
    BY <2>1, <2>2, After DEF f
  <2>4. Position(c)'
    BY <1>1, <1>3, <2>2, <2>3 DEF Position
  <2>5. HandshakeAt(c)'
    BY <1>1, <1>2, <1>3, <1>5, <2>2, <2>3 DEF HandshakeAt, Reading
  <2> QED
    BY <1>1, <1>5, <2>1, <2>2, <2>4, <2>5, EarlyOK DEF f, s, Reading
<1>6. CASE f[1] >= 65
  <2> DEFINE v == Turn(u, "request", 0)
             t == [v EXCEPT !.back = b, !.draining = TRUE]
  <2>1. Sets(c, t)
    <3>1. b[1] # 5
      BY <1>3, <1>6
    <3> QED
      BY <1>3, <1>4, <1>6, <3>1 DEF Next, Turn, u
  <2>2. v \in SessionRec /\ v.pc = "request"
        /\ /\ v.cmd = u.cmd /\ v.addr = u.addr /\ v.taken = u.taken /\ v.back = u.back
           /\ v.held = u.held /\ v.open = u.open /\ v.draining = u.draining
           /\ v.stream = u.stream /\ v.asked = u.asked /\ v.answers = u.answers /\ v.up = u.up
           /\ v.missed = u.missed
    <3>1. "request" \in Phase
      BY DEF Phase
    <3>2. PICK w \in 0 .. 255 : w = 0
      OBVIOUS
    <3>3. Turn(u, "request", w) \in SessionRec
      BY <1>1, <3>1, NextFrame
    <3>4. /\ v.pc = "request"
          /\ v.cmd = u.cmd /\ v.addr = u.addr /\ v.taken = u.taken /\ v.back = u.back
          /\ v.held = u.held /\ v.open = u.open /\ v.draining = u.draining
          /\ v.stream = u.stream /\ v.asked = u.asked /\ v.answers = u.answers /\ v.up = u.up
          /\ v.missed = u.missed
      BY <1>1, ZenonT(60) DEF Turn, SessionRec
    <3> QED
      BY <3>2, <3>3, <3>4
  <2> HIDE DEF v
  <2>3. t \in SessionRec
    <3>1. v \in SessionRec /\ b \in Seq(0 .. 255)
      BY <1>1, <2>2
    <3> QED
      BY <3>1, ZenonT(60) DEF SessionRec
  <2>4. t.pc = "request" /\ t.back = b /\ t.draining
        /\ /\ t.cmd = v.cmd /\ t.addr = v.addr /\ t.taken = v.taken /\ t.held = v.held
           /\ t.open = v.open /\ t.stream = v.stream /\ t.asked = v.asked
           /\ t.answers = v.answers /\ t.up = v.up /\ t.missed = v.missed
    BY <2>2 DEF SessionRec
  <2> HIDE DEF t
  <2>5. ses'[c] = t /\ app'[c] = app[c] /\ Script(c)' = f
    BY <2>1, <2>3, After DEF f
  <2>6. t.taken = 2 /\ t.held = <<>> /\ t.answers = <<>>
    BY <1>1, <1>2, <1>3, <2>2, <2>4
  <2>7. Position(c)'
    BY <1>1, <1>3, <2>5, <2>6 DEF Position
  <2>8. HandshakeAt(c)'
    BY <2>4, <2>5 DEF HandshakeAt, Reading
  <2>9. HttpAt(c)'
    <3>1. t.taken >= 2 /\ t.back = SubSeq(f, 1, 2)
      BY <1>3, <2>4, <2>6
    <3> QED
      BY <1>6, <2>4, <2>5, <2>6, <3>1 DEF HttpAt
  <2>10. SessionFits(c)'
    BY <2>4, <2>5, <2>6, <2>7, <2>8, <2>9 DEF SessionFits
  <2> QED
    BY <2>1, <2>3, <2>10, OneSession
<1>7. CASE f[1] # 5 /\ ~(f[1] >= 65)
  <2> DEFINE t == Close(u)
  <2>1. Sets(c, t)
    BY <1>3, <1>4, <1>7
  <2>2. t \in SessionRec /\ t.pc = "done"
        /\ /\ t.want = u.want /\ t.cmd = u.cmd /\ t.addr = u.addr /\ t.taken = u.taken
           /\ t.back = u.back /\ t.held = u.held /\ t.draining = u.draining
           /\ t.stream = u.stream /\ t.asked = u.asked /\ t.answers = u.answers /\ t.up = u.up
           /\ t.missed = u.missed
    BY <1>1, CloseFrame, ZenonT(60)
  <2> HIDE DEF t
  <2>3. t.taken \in s.taken .. app[c].put
    BY <1>1, <1>2, <1>3, <2>2
  <2> QED
    BY <1>1, <2>1, <2>2, <2>3, FinishOK DEF s
<1> QED
  BY <1>5, <1>6, <1>7

LEMMA AppendOne == ASSUME NEW x PROVE Append(<<>>, x) = <<x>>
  OBVIOUS

LEMMA AppendPair == ASSUME NEW x, NEW y PROVE Append(<<x>>, y) = <<x, y>>
<1> DEFINE S == {x, y}
           a == Append(<<x>>, y)
           b == <<x, y>>
<1>1. <<x>> \in Seq(S) /\ y \in S /\ Len(<<x>>) = 1 /\ <<x>>[1] = x
  OBVIOUS
<1>2. b \in Seq(S) /\ Len(b) = 2 /\ b[1] = x /\ b[2] = y
  OBVIOUS
<1>3. \A i \in 1 .. 2 : i = 1 \/ i = 2
  OBVIOUS
<1> HIDE DEF S, b
<1>4. /\ a \in Seq(S) /\ Len(a) = Len(<<x>>) + 1
      /\ \A i \in 1 .. Len(<<x>>) : a[i] = <<x>>[i]
      /\ a[Len(<<x>>) + 1] = y
  BY <1>1, AppendProperties
<1>5. Len(a) = 2 /\ a[1] = x /\ a[2] = y
  BY <1>1, <1>4
<1> HIDE DEF a
<1>6. \A i \in 1 .. Len(a) : a[i] = b[i]
  BY <1>2, <1>3, <1>5
<1>7. a = b
  BY <1>2, <1>4, <1>5, <1>6, SeqEqual
<1> QED
  BY <1>7 DEF a, b

\* What a step of the handshake leaves as it was.
Kept(t, s) ==
  t.draining = s.draining /\ t.stream = s.stream /\ t.up = s.up /\ t.missed = s.missed

\* The connection is closed where the handshake fails.
LEMMA CloseOK ==
  ASSUME SessionInv, NEW c \in Conn, NEW pc, Field(c, pc), Sets(c, Close(Behind(c)))
  PROVE  SessionInv'
<1> DEFINE u == Behind(c)
           t == Close(u)
<1>1. u \in SessionRec /\ u.taken = ses[c].taken + ses[c].want /\ u.taken <= app[c].put
      /\ u.cmd = ses[c].cmd /\ u.asked = ses[c].asked /\ u.answers = ses[c].answers
      /\ Kept(u, ses[c]) /\ ses[c].taken \in Nat /\ ses[c].want \in 0 .. 255 /\ app[c].put \in Nat
  BY FieldFrame DEF Framed, Kept
<1>2. t \in SessionRec /\ t.pc = "done" /\ t.taken = u.taken
      /\ t.cmd = u.cmd /\ t.asked = u.asked /\ t.answers = u.answers /\ Kept(t, u)
  BY <1>1, CloseFrame DEF Kept
<1>3. u.taken >= ses[c].taken /\ u.taken \in Nat
  <2>1. \A x, y \in Nat : x + y >= x /\ x + y \in Nat
    OBVIOUS
  <2>2. ses[c].want \in Nat
    BY <1>1, ByteNat
  <2> QED
    BY <1>1, <2>1, <2>2
<1> HIDE DEF u, t
<1>4. t.taken \in ses[c].taken .. app[c].put
  BY <1>1, <1>2, <1>3
<1>5. Sets(c, t)
  BY DEF t, u
<1> QED
  BY <1>1, <1>2, <1>4, <1>5, FinishOK DEF Kept

LEMMA ReadMethodsOK == ASSUME SessionInv, NEW c \in Conn, ReadMethods(c) PROVE SessionInv'
<1> DEFINE s == ses[c]
           f == Script(c)
           u == Behind(c)
<1>1. /\ s \in SessionRec /\ s.pc = "methods" /\ SessionFits(c) /\ f \in Seq(0 .. 255)
      /\ u \in SessionRec /\ u.taken = s.taken + s.want /\ app[c].put \in Nat
      /\ u.taken <= app[c].put /\ app[c].put <= Len(f)
      /\ u.asked = s.asked /\ u.answers = s.answers /\ Kept(u, s)
  <2>1. Field(c, "methods")
    BY DEF ReadMethods, Goto
  <2>2. Framed(c, "methods")
    BY <2>1, FieldFrame
  <2> QED
    BY <2>2 DEF Framed, Kept
<1>2. /\ s.taken = 2 /\ s.want = f[2] /\ s.asked = <<>> /\ s.answers = <<>> /\ f[1] = 5
      /\ s.stream = "none" /\ s.up = <<>>
  BY <1>1 DEF SessionFits, HandshakeAt, Reading
<1>3. u.taken = CommandAt(f) /\ u.taken >= 2
  <2>1. u.taken = CommandAt(f)
    BY <1>1, <1>2 DEF CommandAt
  <2>2. f[2] \in Nat
    BY <1>1, <1>2, ByteNat, ZenonT(60) DEF SessionRec
  <2>3. \A x \in Nat : 2 + x >= 2
    OBVIOUS
  <2> QED
    BY <2>1, <2>2, <2>3 DEF CommandAt
<1>4. Field(c, "methods")
      /\ \E ok \in Writes(c) :
           Sets(c, IF ok THEN Tell(Next(c, "command", 4), MethodReply) ELSE Close(Behind(c)))
  BY DEF ReadMethods, Goto
<1>5. CASE Sets(c, Close(u))
  BY <1>4, <1>5, CloseOK
<1>6. CASE Sets(c, Tell(Next(c, "command", 4), MethodReply))
  <2> DEFINE v == Turn(u, "command", 4)
             t == Tell(v, MethodReply)
  <2>1. Sets(c, t)
    BY <1>6 DEF Next, Turn
  <2> HIDE DEF u
  <2>2. v \in SessionRec
    <3>1. "command" \in Phase
      BY DEF Phase, Reading
    <3>2. PICK w \in 0 .. 255 : w = 4
      OBVIOUS
    <3>3. Turn(u, "command", w) \in SessionRec
      BY <1>1, <3>1, NextFrame
    <3> QED
      BY <3>2, <3>3
  <2>3. /\ v.pc = "command" /\ v.want = 4 /\ v.taken = u.taken /\ v.asked = u.asked
        /\ v.answers = u.answers /\ Kept(v, u)
    BY <1>1 DEF Turn, SessionRec, Kept
  <2> HIDE DEF v
  <2>4. MethodReply \in Seq(0 .. 255)
    BY DEF MethodReply
  <2>5. /\ t \in SessionRec /\ t.pc = "command" /\ t.want = 4 /\ t.taken = u.taken
        /\ t.asked = u.asked /\ t.answers = Append(u.answers, MethodReply) /\ Kept(t, u)
    BY <2>2, <2>3, <2>4, TellFrame DEF Kept
  <2>6. t.answers = <<MethodReply>>
    BY <1>1, <1>2, <2>5, AppendOne
  <2> HIDE DEF t
  <2>7. ses'[c] = t /\ app'[c] = app[c] /\ Script(c)' = f
    BY <2>1, <2>5, After
  <2>8. Position(c)'
    BY <1>1, <2>5, <2>7 DEF Position
  <2>9. HandshakeAt(c)'
    BY <1>1, <1>2, <1>3, <2>5, <2>6, <2>7 DEF HandshakeAt, Reading, Kept
  <2>10. t.pc \in Reading \ {"version"} /\ t.draining = s.draining
    BY <1>1, <2>5 DEF Reading, Kept
  <2> QED
    BY <1>2, <2>1, <2>5, <2>8, <2>9, <2>10, EarlyOK
<1> QED
  BY <1>4, <1>5, <1>6

LEMMA ReadCommandOK == ASSUME SessionInv, NEW c \in Conn, ReadCommand(c) PROVE SessionInv'
<1> DEFINE s == ses[c]
           f == Script(c)
           u == Behind(c)
           b == Bytes(c)
           n == CommandAt(f)
<1>1. /\ s \in SessionRec /\ s.pc = "command" /\ SessionFits(c) /\ f \in Seq(0 .. 255)
      /\ s.want \in 0 .. 255 /\ s.taken \in Nat
      /\ u \in SessionRec /\ u.taken = s.taken + s.want /\ app[c].put \in Nat
      /\ u.taken <= app[c].put /\ u.taken <= Len(f) /\ app[c].put <= Len(f)
      /\ u.asked = s.asked /\ u.answers = s.answers /\ Kept(u, s)
      /\ \A i \in 1 .. s.want : b[i] = f[s.taken + i] /\ b[i] \in 0 .. 255
  <2>1. Field(c, "command")
    BY DEF ReadCommand, Goto
  <2>2. Framed(c, "command")
    BY <2>1, FieldFrame
  <2> QED
    BY <2>2 DEF Framed, Kept
<1>2. /\ s.taken = n /\ s.want = 4 /\ s.taken >= 2 /\ s.asked = <<>> /\ f[1] = 5
      /\ s.answers = <<MethodReply>> /\ s.stream = "none" /\ s.up = <<>>
  BY <1>1 DEF SessionFits, HandshakeAt, Reading
<1>3. /\ u.taken = n + 4 /\ n \in Nat /\ n >= 2 /\ b[1] = f[n + 1] /\ b[2] = f[n + 2]
      /\ b[4] = f[n + 4] /\ b[2] \in 0 .. 255
  <2>1. 1 \in 1 .. 4 /\ 2 \in 1 .. 4 /\ 4 \in 1 .. 4
    OBVIOUS
  <2> QED
    BY <1>1, <1>2, <2>1
<1>4. /\ Field(c, "command")
      /\ Sets(c, IF b[1] # 5 THEN Close(u)
                 ELSE CASE b[4] \in {1, 4} -> [Next(c, "address", AddrLen[b[4]]) EXCEPT !.cmd = b[2]]
                        [] b[4] = 3 -> [Next(c, "length", 1) EXCEPT !.cmd = b[2]]
                        [] OTHER -> Close(u))
  BY DEF ReadCommand, Goto
<1>5. CASE Sets(c, Close(u))
  BY <1>4, <1>5, CloseOK
<1> HIDE DEF s, f, u, b, n
<1>6. ASSUME NEW p \in {"address", "length"}, NEW w \in 0 .. 255, b[1] = 5, b[4] \in {1, 3, 4},
             Sets(c, [Turn(u, p, w) EXCEPT !.cmd = b[2]]),
             p = "length" => w = 1 /\ b[4] = 3,
             p = "address" => w = AddrLen[b[4]] /\ b[4] \in {1, 4}
      PROVE  SessionInv'
  <2> DEFINE v == Turn(u, p, w)
             t == [v EXCEPT !.cmd = b[2]]
  <2>1. v \in SessionRec
    <3>1. p \in Phase
      BY DEF Phase, Reading
    <3> QED
      BY <1>1, <3>1, NextFrame
  <2>2. /\ v.pc = p /\ v.want = w /\ v.taken = u.taken /\ v.asked = u.asked
        /\ v.answers = u.answers /\ Kept(v, u)
    BY <1>1 DEF Turn, SessionRec, Kept
  <2> HIDE DEF v
  <2>3. t \in SessionRec
    <3>1. b[2] \in 0 .. 255
      BY <1>3
    <3> QED
      BY <2>1, <3>1, ZenonT(60) DEF SessionRec
  <2>4. /\ t.pc = v.pc /\ t.want = v.want /\ t.taken = v.taken /\ t.asked = v.asked
        /\ t.answers = v.answers /\ Kept(t, v) /\ t.cmd = b[2]
    BY <2>1 DEF SessionRec, Kept
  <2>5. Sets(c, t)
    BY <1>6 DEF v
  <2> HIDE DEF t
  <2>6. ses'[c] = t /\ app'[c] = app[c] /\ Script(c)' = f
    BY <2>3, <2>5, After DEF f
  <2>7. /\ t.pc = p /\ t.want = w /\ t.taken = n + 4 /\ t.asked = <<>> /\ t.answers = <<MethodReply>>
        /\ t.stream = "none" /\ t.up = <<>> /\ t.draining = s.draining /\ t.cmd = f[n + 2]
        /\ f[n + 1] = 5 /\ f[n + 4] \in {1, 3, 4} /\ t.taken >= 2
    BY <1>1, <1>2, <1>3, <1>6, <2>2, <2>4 DEF Kept
  <2>8. Position(c)'
    BY <1>1, <1>3, <2>6, <2>7 DEF Position
  <2>9. p = "address" => t.taken = AddressAt(f) /\ t.taken + t.want = HeaderLen(f) - 2
    <3>1. SUFFICES ASSUME p = "address"
                   PROVE  t.taken = AddressAt(f) /\ t.taken + t.want = HeaderLen(f) - 2
      OBVIOUS
    <3>2. f[n + 4] \in {1, 4} /\ t.want = AddrLen[f[n + 4]]
      BY <1>3, <1>6, <2>7, <3>1
    <3>3. 2 <= Len(f) /\ n + 4 <= Len(f)
      BY <1>1, <1>3
    <3>4. f[n + 4] # 3
      BY <3>2
    <3>5. AddressAt(f) = n + 4 /\ HeaderLen(f) - 2 = n + 4 + AddrLen[f[n + 4]]
      BY <1>1, <2>7, <3>3, <3>4, HeaderFacts DEF n
    <3> QED
      BY <2>7, <3>2, <3>5
  <2>10. HandshakeAt(c)'
    <3>1. t.taken >= n + 4 /\ n = CommandAt(f)
      BY <1>3, <2>7 DEF n
    <3>2. p = "length" => f[n + 4] = 3
      BY <1>3, <1>6
    <3> QED
      BY <1>2, <1>6, <2>6, <2>7, <2>9, <3>1, <3>2 DEF HandshakeAt, Reading
  <2>11. t.pc \in Reading \ {"version"}
    BY <2>7 DEF Reading
  <2> QED
    BY <1>2, <2>3, <2>5, <2>7, <2>8, <2>10, <2>11, EarlyOK DEF f, s
<1>7. CASE b[1] = 5 /\ b[4] \in {1, 4}
  <2>1. Sets(c, [Turn(u, "address", AddrLen[b[4]]) EXCEPT !.cmd = b[2]])
    BY <1>4, <1>7 DEF Next, Turn, u
  <2>2. AddrLen[b[4]] \in 0 .. 255
    BY <1>7, SessionAssumption, ByteNat, ZenonT(60)
  <2> QED
    BY <1>6, <1>7, <2>1, <2>2
<1>8. CASE b[1] = 5 /\ b[4] = 3
  <2>1. Sets(c, [Turn(u, "length", 1) EXCEPT !.cmd = b[2]])
    BY <1>4, <1>8 DEF Next, Turn, u
  <2>2. PICK w \in 0 .. 255 : w = 1
    OBVIOUS
  <2> QED
    BY <1>6, <1>8, <2>1, <2>2
<1>9. CASE b[1] # 5 \/ b[4] \notin {1, 3, 4}
  BY <1>4, <1>5, <1>9
<1> QED
  BY <1>7, <1>8, <1>9

LEMMA ReadLengthOK == ASSUME SessionInv, NEW c \in Conn, ReadLength(c) PROVE SessionInv'
<1> DEFINE s == ses[c]
           f == Script(c)
           u == Behind(c)
           b == Bytes(c)
           n == CommandAt(f)
           t == Turn(u, "address", b[1])
<1>1. /\ s \in SessionRec /\ s.pc = "length" /\ SessionFits(c) /\ f \in Seq(0 .. 255)
      /\ s.want \in 0 .. 255 /\ s.taken \in Nat
      /\ u \in SessionRec /\ u.taken = s.taken + s.want /\ app[c].put \in Nat
      /\ u.taken <= app[c].put /\ u.taken <= Len(f) /\ app[c].put <= Len(f) /\ u.cmd = s.cmd
      /\ u.asked = s.asked /\ u.answers = s.answers /\ Kept(u, s)
      /\ \A i \in 1 .. s.want : b[i] = f[s.taken + i] /\ b[i] \in 0 .. 255
  <2>1. Field(c, "length")
    BY DEF ReadLength, Goto
  <2>2. Framed(c, "length")
    BY <2>1, FieldFrame
  <2> QED
    BY <2>2 DEF Framed, Kept
<1>2. /\ s.taken = n + 4 /\ s.want = 1 /\ s.taken >= 2 /\ s.asked = <<>> /\ f[1] = 5
      /\ f[n + 1] = 5 /\ f[n + 4] = 3 /\ s.cmd = f[n + 2]
      /\ s.answers = <<MethodReply>> /\ s.stream = "none" /\ s.up = <<>>
  BY <1>1 DEF SessionFits, HandshakeAt, Reading
<1>3. Sets(c, t)
  BY DEF ReadLength, Next, Turn, Goto
<1> HIDE DEF s, f, u, b, n, t
<1>4. b[1] = f[s.taken + 1] /\ b[1] \in 0 .. 255
  <2>1. 1 \in 1 .. 1
    OBVIOUS
  <2> QED
    BY <1>1, <1>2, <2>1
<1>5. n \in Nat /\ 2 <= Len(f) /\ n + 5 <= Len(f) /\ n + 4 <= Len(f)
  <2>1. 2 <= Len(f)
    BY <1>1, <1>2
  <2>2. f[2] \in Nat
    <3>1. 2 \in 1 .. Len(f)
      BY <1>1, <2>1
    <3> QED
      BY <1>1, <3>1, ElementOfSeq, ByteNat, ZenonT(60)
  <2>3. \A x \in Nat : 2 + x \in Nat
    OBVIOUS
  <2>4. n \in Nat
    BY <2>2, <2>3 DEF n, CommandAt
  <2> QED
    BY <1>1, <1>2, <2>1, <2>4
<1>6. AddressAt(f) = n + 5 /\ HeaderLen(f) - 2 = n + 5 + f[n + 5]
  BY <1>1, <1>2, <1>5, HeaderFacts DEF n
<1>7. s.taken + 1 = n + 5 /\ u.taken = n + 5 /\ u.taken >= n + 4 /\ u.taken >= 2
  BY <1>1, <1>2, <1>5
<1>8. /\ t \in SessionRec /\ t.pc = "address" /\ t.want = b[1] /\ t.taken = u.taken
      /\ t.asked = u.asked /\ t.answers = u.answers /\ Kept(t, u) /\ t.cmd = u.cmd
  <2>1. "address" \in Phase
    BY DEF Phase, Reading
  <2>2. t \in SessionRec
    BY <1>1, <1>4, <2>1, NextFrame DEF t
  <2> QED
    BY <1>1, <2>2, ZenonT(60) DEF t, Turn, SessionRec, Kept
<1>9. ses'[c] = t /\ app'[c] = app[c] /\ Script(c)' = f
  BY <1>3, <1>8, After DEF f
<1>10. Position(c)'
  BY <1>1, <1>8, <1>9 DEF Position
<1>11. /\ t.taken = AddressAt(f) /\ t.taken + t.want = HeaderLen(f) - 2 /\ t.asked = <<>>
       /\ t.answers = <<MethodReply>> /\ t.stream = "none" /\ t.up = <<>> /\ t.cmd = f[n + 2]
       /\ t.draining = s.draining
  BY <1>1, <1>2, <1>4, <1>6, <1>7, <1>8 DEF Kept
<1>12. HandshakeAt(c)'
  BY <1>2, <1>7, <1>8, <1>9, <1>11 DEF HandshakeAt, Reading, n
<1>13. t.pc \in Reading \ {"version"}
  BY <1>8 DEF Reading
<1> QED
  BY <1>2, <1>3, <1>8, <1>10, <1>11, <1>12, <1>13, EarlyOK DEF f, s

LEMMA ReadAddressOK == ASSUME SessionInv, NEW c \in Conn, ReadAddress(c) PROVE SessionInv'
<1> DEFINE s == ses[c]
           f == Script(c)
           u == Behind(c)
           b == Bytes(c)
           n == CommandAt(f)
           v == Turn(u, "port", 2)
           t == [v EXCEPT !.addr = b]
<1>1. /\ s \in SessionRec /\ s.pc = "address" /\ SessionFits(c) /\ f \in Seq(0 .. 255)
      /\ s.want \in 0 .. 255 /\ s.taken \in Nat
      /\ u \in SessionRec /\ u.taken = s.taken + s.want /\ app[c].put \in Nat
      /\ u.taken <= app[c].put /\ u.taken <= Len(f) /\ app[c].put <= Len(f) /\ u.cmd = s.cmd
      /\ u.asked = s.asked /\ u.answers = s.answers /\ Kept(u, s)
      /\ b \in Seq(0 .. 255) /\ b = SubSeq(f, s.taken + 1, u.taken)
  <2>1. Field(c, "address")
    BY DEF ReadAddress, Goto
  <2>2. Framed(c, "address")
    BY <2>1, FieldFrame
  <2> QED
    BY <2>2 DEF Framed, Kept
<1>2. /\ s.taken = AddressAt(f) /\ s.taken + s.want = HeaderLen(f) - 2 /\ s.taken >= 2
      /\ s.taken >= n + 4 /\ s.asked = <<>> /\ f[1] = 5
      /\ f[n + 1] = 5 /\ f[n + 4] \in {1, 3, 4} /\ s.cmd = f[n + 2]
      /\ s.answers = <<MethodReply>> /\ s.stream = "none" /\ s.up = <<>>
  BY <1>1 DEF SessionFits, HandshakeAt, Reading
<1>3. Sets(c, t)
  BY DEF ReadAddress, Next, Turn, Goto
<1> HIDE DEF s, f, u, b, n, v, t
<1>4. /\ v \in SessionRec /\ v.pc = "port" /\ v.want = 2 /\ v.taken = u.taken
      /\ v.asked = u.asked /\ v.answers = u.answers /\ Kept(v, u) /\ v.cmd = u.cmd
  <2>1. "port" \in Phase
    BY DEF Phase, Reading
  <2>2. PICK w \in 0 .. 255 : w = 2
    OBVIOUS
  <2>3. Turn(u, "port", w) \in SessionRec
    BY <1>1, <2>1, NextFrame
  <2>4. v \in SessionRec
    BY <2>2, <2>3 DEF v
  <2> QED
    BY <1>1, <2>4, ZenonT(60) DEF v, Turn, SessionRec, Kept
<1>5. t \in SessionRec
  <2>1. b \in Seq(0 .. 255)
    BY <1>1
  <2> QED
    BY <1>4, <2>1, ZenonT(60) DEF SessionRec, t
<1>6. /\ t.pc = "port" /\ t.want = 2 /\ t.taken = v.taken /\ t.asked = v.asked
      /\ t.answers = v.answers /\ Kept(t, v) /\ t.cmd = v.cmd /\ t.addr = b
  BY <1>4 DEF t, SessionRec, Kept
<1>7. ses'[c] = t /\ app'[c] = app[c] /\ Script(c)' = f
  BY <1>3, <1>5, After DEF f
<1>8. Position(c)'
  BY <1>1, <1>4, <1>6, <1>7 DEF Position
<1>9. /\ t.taken = HeaderLen(f) - 2 /\ t.addr = SubSeq(f, AddressAt(f) + 1, HeaderLen(f) - 2)
      /\ t.asked = <<>> /\ t.answers = <<MethodReply>> /\ t.stream = "none" /\ t.up = <<>>
      /\ t.cmd = f[n + 2] /\ t.draining = s.draining
  BY <1>1, <1>2, <1>4, <1>6, ZenonT(60) DEF Kept
<1>10. t.taken >= 2 /\ t.taken >= n + 4
  <2>1. u.taken \in Nat /\ u.taken >= s.taken
    <3>1. \A x, y \in Nat : x + y >= x /\ x + y \in Nat
      OBVIOUS
    <3> QED
      BY <1>1, <3>1, ByteNat, ZenonT(60)
  <2>2. u.taken >= 2
    BY <1>1, <1>2, <2>1
  <2>3. n \in Nat
    <3>1. 2 \in 1 .. Len(f)
      BY <1>1, <2>1, <2>2
    <3>2. f[2] \in Nat
      BY <1>1, <3>1, ElementOfSeq, ByteNat, ZenonT(60)
    <3>3. \A x \in Nat : 2 + x \in Nat
      OBVIOUS
    <3> QED
      BY <3>2, <3>3 DEF n, CommandAt
  <2>4. \A x, y, z \in Nat : x >= y /\ y >= z + 4 => x >= z + 4
    OBVIOUS
  <2>5. u.taken >= n + 4
    BY <1>1, <1>2, <2>1, <2>3, <2>4
  <2> QED
    BY <1>4, <1>6, <2>2, <2>5
<1>11. HandshakeAt(c)'
  BY <1>2, <1>6, <1>7, <1>9, <1>10 DEF HandshakeAt, Reading, n
<1>12. t.pc \in Reading \ {"version"}
  BY <1>6 DEF Reading
<1> QED
  BY <1>2, <1>3, <1>5, <1>8, <1>9, <1>11, <1>12, EarlyOK DEF f, s

\* The connection of a socks5 app whose final answer has been decided.
LEMMA SocksOK ==
  ASSUME SessionInv, NEW c \in Conn, NEW t \in SessionRec, Sets(c, t),
         t.pc \in {"relay", "assoc", "done"}, Script(c)[1] = 5,
         t.draining => ses[c].draining, Position(c)', HandshakeAt(c)', AnswerFits(c)'
  PROVE  SessionInv'
<1> DEFINE f == Script(c)
<1>1. /\ ses'[c] = t /\ app'[c] = app[c] /\ Script(c)' = f
      /\ SessionFits(c) /\ f[1] = 5 /\ HttpAt(c)
  BY After DEF SessionFits
<1>2. ~(f[1] >= 65)
  BY <1>1
<1>3. ~t.draining
  BY <1>1, <1>2 DEF HttpAt
<1> HIDE DEF f
<1>4. HttpAt(c)'
  BY <1>1, <1>3 DEF HttpAt
<1>5. SessionFits(c)'
  BY <1>1, <1>2, <1>4 DEF SessionFits
<1> QED
  BY <1>5, OneSession

LEMMA RepliesDiffer == Reply(0) # Reply(4) /\ Reply(0) # Reply(7) /\ Reply(4) # Reply(7)
  BY DEF Reply

LEMMA ReplyType == \A code \in {0, 4, 7} : Reply(code) \in Seq(0 .. 255)
  BY DEF Reply

LEMMA FinalFits ==
  ASSUME SessionInv, NEW c \in Conn, NEW t \in SessionRec, Sets(c, t),
         NEW code \in {0, 4, 7}, t.answers = <<MethodReply, Reply(code)>>,
         WellFormed(Script(c)), t.taken >= HeaderLen(Script(c)),
         code = 0 => (t.cmd = 3 /\ t.asked = <<>>) \/ (t.cmd = 1 /\ t.stream # "none"),
         code = 4 => t.cmd = 1 /\ t.stream = "none",
         code = 7 => t.cmd \notin {1, 3} /\ t.asked = <<>>
  PROVE  AnswerFits(c)'
<1>1. ses'[c] = t /\ Script(c)' = Script(c)
  BY After
<1>2. Len(t.answers) = 2 /\ t.answers[1] = MethodReply /\ t.answers[2] = Reply(code)
  OBVIOUS
<1>3. \A k \in {0, 4, 7} : Reply(code) = Reply(k) => code = k
  BY RepliesDiffer
<1>4. Reply(code) \in {Reply(0), Reply(4), Reply(7)}
  OBVIOUS
<1> QED
  BY <1>1, <1>2, <1>3, <1>4 DEF AnswerFits

LEMMA PcFrame ==
  ASSUME NEW s \in SessionRec, NEW p \in Phase
  PROVE  [s EXCEPT !.pc = p] \in SessionRec
  BY ZenonT(60) DEF SessionRec

LEMMA ReadPortOK == ASSUME SessionInv, NEW c \in Conn, ReadPort(c) PROVE SessionInv'
<1> DEFINE s == ses[c]
           f == Script(c)
           u == Behind(c)
           b == Bytes(c)
           n == CommandAt(f)
           a == u.addr \o b
<1>1. /\ s \in SessionRec /\ s.pc = "port" /\ SessionFits(c) /\ f \in Seq(0 .. 255)
      /\ s.want \in 0 .. 255 /\ s.taken \in Nat
      /\ u \in SessionRec /\ u.taken = s.taken + s.want /\ app[c].put \in Nat
      /\ u.taken <= app[c].put /\ u.taken <= Len(f) /\ app[c].put <= Len(f) /\ u.cmd = s.cmd
      /\ u.asked = s.asked /\ u.answers = s.answers /\ u.addr = s.addr /\ Kept(u, s)
      /\ b \in Seq(0 .. 255) /\ b = SubSeq(f, s.taken + 1, u.taken)
  <2>1. Field(c, "port")
    BY DEF ReadPort, Goto
  <2>2. Framed(c, "port")
    BY <2>1, FieldFrame
  <2> QED
    BY <2>2 DEF Framed, Kept
<1>2. /\ s.taken = HeaderLen(f) - 2 /\ s.want = 2 /\ s.taken >= 2
      /\ s.addr = SubSeq(f, AddressAt(f) + 1, HeaderLen(f) - 2)
      /\ s.taken >= n + 4 /\ s.asked = <<>> /\ f[1] = 5
      /\ f[n + 1] = 5 /\ f[n + 4] \in {1, 3, 4} /\ s.cmd = f[n + 2]
      /\ s.answers = <<MethodReply>> /\ s.stream = "none" /\ s.up = <<>>
  BY <1>1 DEF SessionFits, HandshakeAt, Reading
<1>3. Sets(c, CASE u.cmd = 1 -> [u EXCEPT !.pc = "dial", !.asked = Append(@, a)]
                [] u.cmd = 3 -> Tell([u EXCEPT !.pc = "assoc"], Reply(0))
                [] OTHER -> Close(Tell(u, Reply(7))))
  BY DEF ReadPort, Goto
<1> HIDE DEF s, f, u, b, n
<1>4. /\ u.taken = s.taken + 2 /\ u.taken \in Nat /\ u.taken >= 2 /\ 2 <= Len(f)
      /\ Len(f) \in Nat /\ s.taken + 2 <= Len(f)
  <2>1. u.taken = s.taken + 2 /\ Len(f) \in Nat
    BY <1>1, <1>2
  <2>2. \A x, l \in Nat : x >= 2 /\ x + 2 <= l => x + 2 \in Nat /\ x + 2 >= 2 /\ 2 <= l
    OBVIOUS
  <2> QED
    BY <1>1, <1>2, <2>1, <2>2
<1>5. n \in Nat
  <2>1. 2 \in 1 .. Len(f)
    BY <1>4
  <2>2. f[2] \in Nat
    BY <1>1, <2>1, ElementOfSeq, ByteNat, ZenonT(60)
  <2>3. \A x \in Nat : 2 + x \in Nat
    OBVIOUS
  <2> QED
    BY <2>2, <2>3 DEF n, CommandAt
<1>6. n + 4 < Len(f) /\ n + 4 <= Len(f) /\ n + 5 <= Len(f) /\ u.taken >= n + 4
  <2>1. \A x, y, l \in Nat : x >= y + 4 /\ x + 2 <= l =>
          y + 4 < l /\ y + 4 <= l /\ y + 5 <= l /\ x + 2 >= y + 4
    OBVIOUS
  <2>2. s.taken >= n + 4
    BY <1>2
  <2> QED
    BY <1>1, <1>4, <1>5, <2>1, <2>2
<1>7. /\ HeaderLen(f) \in Nat /\ AddressAt(f) \in Nat /\ AddressAt(f) + 2 <= HeaderLen(f)
      /\ TargetOf(f) = SubSeq(f, AddressAt(f) + 1, HeaderLen(f))
  BY <1>1, <1>2, <1>4, <1>6, HeaderFacts DEF n
<1>8. u.taken = HeaderLen(f) /\ u.taken >= HeaderLen(f) /\ HeaderLen(f) <= Len(f)
      /\ s.taken + 1 = HeaderLen(f) - 2 + 1
  <2>1. \A x \in Nat : x - 2 + 2 = x /\ x >= x
    OBVIOUS
  <2>2. s.taken = HeaderLen(f) - 2
    BY <1>2
  <2>3. u.taken = HeaderLen(f)
    BY <1>4, <1>7, <2>1, <2>2
  <2> QED
    BY <1>1, <1>7, <2>1, <2>2, <2>3
<1>9. WellFormed(f)
  <2>1. Len(f) > 1
    BY <1>4
  <2> QED
    BY <1>1, <1>2, <1>6, <1>7, <1>8, <2>1, WellFormedFacts DEF n
<1>10. a = TargetOf(f) /\ a \in Seq(0 .. 255)
  <2>1. AddressAt(f) + 1 \in 1 .. Len(f) + 1
    BY <1>4, <1>7, <1>8, SMTT(30)
  <2>2. HeaderLen(f) - 2 \in AddressAt(f) + 1 - 1 .. Len(f)
    BY <1>4, <1>7, <1>8
  <2>3. HeaderLen(f) \in HeaderLen(f) - 2 .. Len(f)
    BY <1>4, <1>7, <1>8
  <2>4. SubSeq(f, AddressAt(f) + 1, HeaderLen(f) - 2)
          \o SubSeq(f, HeaderLen(f) - 2 + 1, HeaderLen(f)) = TargetOf(f)
    <3>1. \A i \in 1 .. Len(f) + 1 : \A k \in i - 1 .. Len(f) : \A l \in k .. Len(f) :
            SubSeq(f, i, k) \o SubSeq(f, k + 1, l) = SubSeq(f, i, l)
      BY <1>1, ConcatAdjacentSubSeq
    <3> DEFINE i == AddressAt(f) + 1
               k == HeaderLen(f) - 2
               l == HeaderLen(f)
    <3>2. i \in 1 .. Len(f) + 1 /\ k \in i - 1 .. Len(f) /\ l \in k .. Len(f)
      BY <1>4, <1>7, <2>1, <2>2, <2>3
    <3>3. TargetOf(f) = SubSeq(f, i, l)
      BY <1>7
    <3> HIDE DEF i, k, l
    <3>4. SubSeq(f, i, k) \o SubSeq(f, k + 1, l) = TargetOf(f)
      BY <3>1, <3>2, <3>3
    <3> QED
      BY <3>4 DEF i, k, l
  <2>5. b = SubSeq(f, HeaderLen(f) - 2 + 1, HeaderLen(f))
    BY <1>1, <1>8
  <2>6. u.addr \in Seq(0 .. 255)
    BY <1>1 DEF SessionRec
  <2>7. a \in Seq(0 .. 255)
    BY <1>1, <2>6, ConcatProperties
  <2> QED
    BY <1>1, <1>2, <2>4, <2>5, <2>7
<1> HIDE DEF a
<1>11. CASE u.cmd = 1
  <2> DEFINE v == [u EXCEPT !.pc = "dial"]
             d == Append(u.asked, a)
             t == [v EXCEPT !.asked = d]
  <2>1. Sets(c, t)
    <3>1. t = [u EXCEPT !.pc = "dial", !.asked = Append(@, a)]
      BY <1>1 DEF SessionRec
    <3> QED
      BY <1>3, <1>11, <3>1
  <2>2. v \in SessionRec
    <3>1. "dial" \in Phase
      BY DEF Phase
    <3> QED
      BY <1>1, <3>1, PcFrame
  <2>3. v.pc = "dial" /\ v.taken = u.taken /\ v.cmd = u.cmd /\ v.answers = u.answers /\ Kept(v, u)
    BY <1>1 DEF SessionRec, Kept
  <2>4. d = <<TargetOf(f)>> /\ d \in Seq(Seq(0 .. 255))
    <3>1. u.asked = <<>>
      BY <1>1, <1>2
    <3>2. d = <<a>>
      BY <3>1, AppendOne
    <3> QED
      BY <1>10, <3>2
  <2> HIDE DEF v, d
  <2>5. t \in SessionRec
    <3>1. d \in Seq(Seq(0 .. 255))
      BY <2>4
    <3> QED
      BY <2>2, <3>1, ZenonT(60) DEF SessionRec
  <2>6. t.pc = "dial" /\ t.taken = v.taken /\ t.cmd = v.cmd /\ t.answers = v.answers
        /\ t.asked = d /\ Kept(t, v)
    BY <2>2, <2>3 DEF SessionRec, Kept
  <2> HIDE DEF t
  <2>7. ses'[c] = t /\ app'[c] = app[c] /\ Script(c)' = f
    BY <2>1, <2>5, After DEF f
  <2>8. Position(c)'
    BY <1>1, <2>3, <2>6, <2>7 DEF Position
  <2>9. /\ t.taken = HeaderLen(f) /\ t.taken >= 2 /\ t.taken >= n + 4 /\ t.cmd = 1 /\ t.cmd = f[n + 2]
        /\ t.answers = <<MethodReply>> /\ t.stream = "none" /\ t.up = <<>>
        /\ t.draining = s.draining
    BY <1>1, <1>2, <1>4, <1>6, <1>8, <1>11, <2>3, <2>6, ZenonT(60) DEF Kept
  <2>10. HandshakeAt(c)'
    BY <1>2, <1>9, <2>4, <2>6, <2>7, <2>9 DEF HandshakeAt, Reading, n
  <2> QED
    BY <1>2, <2>1, <2>5, <2>6, <2>8, <2>9, <2>10, EarlyOK DEF f, s
<1>12. CASE u.cmd = 3
  <2> DEFINE v == [u EXCEPT !.pc = "assoc"]
             t == Tell(v, Reply(0))
  <2>1. Sets(c, t)
    BY <1>3, <1>12
  <2>2. v \in SessionRec
    <3>1. "assoc" \in Phase
      BY DEF Phase
    <3> QED
      BY <1>1, <3>1, PcFrame
  <2>3. v.pc = "assoc" /\ v.taken = u.taken /\ v.cmd = u.cmd /\ v.asked = u.asked
        /\ v.answers = u.answers /\ Kept(v, u)
    BY <1>1 DEF SessionRec, Kept
  <2> HIDE DEF v
  <2>4. /\ t \in SessionRec /\ t.pc = "assoc" /\ t.taken = u.taken /\ t.cmd = u.cmd
        /\ t.asked = u.asked /\ t.answers = Append(u.answers, Reply(0)) /\ Kept(t, u)
    <3>1. Reply(0) \in Seq(0 .. 255)
      BY ReplyType
    <3> QED
      BY <2>2, <2>3, <3>1, TellFrame, SMTT(30) DEF Kept
  <2>5. t.answers = <<MethodReply, Reply(0)>>
    BY <1>1, <1>2, <2>4, AppendPair
  <2> HIDE DEF t
  <2>6. ses'[c] = t /\ app'[c] = app[c] /\ Script(c)' = f
    BY <2>1, <2>4, After DEF f
  <2>7. Position(c)'
    BY <1>1, <2>4, <2>6 DEF Position
  <2>8. /\ t.taken >= HeaderLen(f) /\ t.taken >= 2 /\ t.taken >= n + 4 /\ t.cmd = 3
        /\ t.cmd = f[n + 2] /\ t.asked = <<>> /\ t.draining = s.draining
    BY <1>1, <1>2, <1>4, <1>6, <1>8, <1>12, <2>4 DEF Kept
  <2>9. HandshakeAt(c)'
    BY <1>2, <1>9, <2>4, <2>5, <2>6, <2>8 DEF HandshakeAt, Reading, n
  <2>10. AnswerFits(c)'
    BY <1>9, <2>1, <2>4, <2>5, <2>8, FinalFits DEF f
  <2> QED
    BY <1>2, <2>1, <2>4, <2>7, <2>8, <2>9, <2>10, SocksOK DEF f, s
<1>13. CASE u.cmd \notin {1, 3}
  <2> DEFINE v == Tell(u, Reply(7))
             t == Close(v)
  <2>1. Sets(c, t)
    BY <1>3, <1>13
  <2>2. /\ v \in SessionRec /\ v.taken = u.taken /\ v.cmd = u.cmd
        /\ v.asked = u.asked /\ v.answers = Append(u.answers, Reply(7)) /\ Kept(v, u)
    <3>1. Reply(7) \in Seq(0 .. 255)
      BY ReplyType
    <3> QED
      BY <1>1, <3>1, TellFrame, ZenonT(60) DEF Kept
  <2>3. /\ t \in SessionRec /\ t.pc = "done" /\ t.taken = v.taken /\ t.cmd = v.cmd
        /\ t.asked = v.asked /\ t.answers = v.answers /\ Kept(t, v)
    BY <2>2, CloseFrame DEF Kept
  <2>4. t.answers = <<MethodReply, Reply(7)>>
    BY <1>1, <1>2, <2>2, <2>3, AppendPair, ZenonT(60)
  <2> HIDE DEF v, t
  <2>5. ses'[c] = t /\ app'[c] = app[c] /\ Script(c)' = f
    BY <2>1, <2>3, After DEF f
  <2>6. Position(c)'
    BY <1>1, <2>2, <2>3, <2>5 DEF Position
  <2>7. /\ t.taken >= HeaderLen(f) /\ t.cmd \notin {1, 3} /\ t.asked = <<>>
        /\ t.draining = s.draining
    BY <1>1, <1>2, <1>8, <1>13, <2>2, <2>3, ZenonT(60) DEF Kept
  <2>8. HandshakeAt(c)'
    BY <2>3, <2>5 DEF HandshakeAt, Reading
  <2>9. AnswerFits(c)'
    BY <1>9, <2>1, <2>3, <2>4, <2>7, FinalFits DEF f
  <2> QED
    BY <1>2, <2>1, <2>3, <2>6, <2>7, <2>8, <2>9, SocksOK DEF f, s
<1> QED
  BY <1>11, <1>12, <1>13

LEMMA DialOK == ASSUME SessionInv, NEW c \in Conn, Dial(c) PROVE SessionInv'
<1> DEFINE s == ses[c]
           f == Script(c)
           n == CommandAt(f)
<1>1. /\ s \in SessionRec /\ s.pc = "dial" /\ SessionFits(c) /\ f \in Seq(0 .. 255)
      /\ app[c].put \in Nat /\ s.taken <= app[c].put /\ app[c].put <= Len(f) /\ s.taken \in Nat
  <2>1. /\ s \in SessionRec /\ SessionFits(c) /\ f \in Seq(0 .. 255) /\ app[c].put \in Nat
    BY ConnType, InvByParts DEF SessionInv
  <2>2. s.pc = "dial"
    BY DEF Dial
  <2> QED
    BY <2>1, <2>2 DEF SessionFits, Position, SessionRec
<1>2. /\ s.taken = HeaderLen(f) /\ s.taken >= 2 /\ s.taken >= n + 4 /\ f[1] = 5 /\ WellFormed(f)
      /\ f[n + 1] = 5 /\ f[n + 4] \in {1, 3, 4} /\ s.cmd = f[n + 2] /\ s.cmd = 1
      /\ s.asked = <<TargetOf(f)>> /\ s.answers = <<MethodReply>> /\ s.stream = "none" /\ s.up = <<>>
  BY <1>1 DEF SessionFits, HandshakeAt, Reading
<1>3. PICK ok \in BOOLEAN :
        Sets(c, IF ok THEN Tell([s EXCEPT !.pc = "relay", !.stream = "open"], Reply(0))
                ELSE Close(Tell(s, Reply(4))))
  BY DEF Dial
<1>4. HeaderLen(f) \in Nat /\ HeaderLen(f) >= HeaderLen(f) /\ HeaderLen(f) + 0 = HeaderLen(f)
      /\ HeaderLen(f) < HeaderLen(f) + 1 /\ HeaderLen(f) + 1 \in Nat
  <2>1. HeaderLen(f) \in Nat
    BY <1>1, <1>2
  <2>2. \A x \in Nat : x >= x /\ x + 0 = x /\ x < x + 1 /\ x + 1 \in Nat
    OBVIOUS
  <2> QED
    BY <2>1, <2>2
<1> HIDE DEF s, f, n
<1>5. CASE ok
  <2> DEFINE v == [s EXCEPT !.pc = "relay", !.stream = "open"]
             t == Tell(v, Reply(0))
  <2>1. Sets(c, t)
    BY <1>3, <1>5
  <2>2. v \in SessionRec
    BY <1>1, ZenonT(60) DEF SessionRec, Phase
  <2>3. /\ v.pc = "relay" /\ v.taken = s.taken /\ v.cmd = s.cmd /\ v.asked = s.asked
        /\ v.answers = s.answers /\ v.stream = "open" /\ v.up = s.up /\ v.draining = s.draining
    BY <1>1 DEF SessionRec
  <2> HIDE DEF v
  <2>4. /\ t \in SessionRec /\ t.pc = "relay" /\ t.taken = s.taken /\ t.cmd = s.cmd
        /\ t.asked = s.asked /\ t.answers = Append(s.answers, Reply(0)) /\ t.stream = "open"
        /\ t.up = s.up /\ t.draining = s.draining
    <3>1. Reply(0) \in Seq(0 .. 255)
      BY ReplyType
    <3> QED
      BY <2>2, <2>3, <3>1, TellFrame
  <2>5. t.answers = <<MethodReply, Reply(0)>>
    BY <1>2, <2>4, AppendPair
  <2> HIDE DEF t
  <2>6. ses'[c] = t /\ app'[c] = app[c] /\ Script(c)' = f
    BY <2>1, <2>4, After DEF f
  <2>7. Position(c)'
    BY <1>1, <2>4, <2>6 DEF Position
  <2>8. t.up = SubSeq(f, HeaderLen(f) + 1, t.taken) /\ t.taken = HeaderLen(f) + Len(t.up)
    <3>1. t.up = <<>> /\ t.taken = HeaderLen(f) /\ Len(t.up) = 0
      BY <1>2, <2>4
    <3>2. SubSeq(f, HeaderLen(f) + 1, HeaderLen(f)) = <<>>
      BY <1>4, SubSeqEmpty
    <3> QED
      BY <1>4, <3>1, <3>2
  <2>9. HandshakeAt(c)'
    BY <1>2, <2>4, <2>5, <2>6, <2>8 DEF HandshakeAt, Reading, n
  <2>10. AnswerFits(c)'
    BY <1>2, <1>4, <2>1, <2>4, <2>5, FinalFits DEF f
  <2> QED
    BY <1>2, <2>1, <2>4, <2>7, <2>9, <2>10, SocksOK DEF f, s
<1>6. CASE ~ok
  <2> DEFINE v == Tell(s, Reply(4))
             t == Close(v)
  <2>1. Sets(c, t)
    BY <1>3, <1>6
  <2>2. /\ v \in SessionRec /\ v.taken = s.taken /\ v.cmd = s.cmd /\ v.stream = s.stream
        /\ v.asked = s.asked /\ v.answers = Append(s.answers, Reply(4)) /\ v.draining = s.draining
    <3>1. Reply(4) \in Seq(0 .. 255)
      BY ReplyType
    <3> QED
      BY <1>1, <3>1, TellFrame
  <2>3. /\ t \in SessionRec /\ t.pc = "done" /\ t.taken = v.taken /\ t.cmd = v.cmd
        /\ t.asked = v.asked /\ t.answers = v.answers /\ t.stream = v.stream
        /\ t.draining = v.draining
    BY <2>2, CloseFrame
  <2>4. t.answers = <<MethodReply, Reply(4)>>
    BY <1>2, <2>2, <2>3, AppendPair
  <2> HIDE DEF v, t
  <2>5. ses'[c] = t /\ app'[c] = app[c] /\ Script(c)' = f
    BY <2>1, <2>3, After DEF f
  <2>6. Position(c)'
    BY <1>1, <2>2, <2>3, <2>5 DEF Position
  <2>7. /\ t.taken >= HeaderLen(f) /\ t.cmd = 1 /\ t.stream = "none" /\ t.draining = s.draining
    BY <1>2, <1>4, <2>2, <2>3
  <2>8. HandshakeAt(c)'
    BY <2>3, <2>5 DEF HandshakeAt, Reading
  <2>9. AnswerFits(c)'
    BY <1>2, <2>1, <2>3, <2>4, <2>7, FinalFits DEF f
  <2> QED
    BY <1>2, <2>1, <2>3, <2>6, <2>7, <2>8, <2>9, SocksOK DEF f, s
<1> QED
  BY <1>5, <1>6

LEMMA RelayCloses ==
  ASSUME SessionInv, NEW c \in Conn, ses[c].pc = "relay",
         NEW t \in SessionRec, Sets(c, t), t.pc = "done", t.taken = ses[c].taken,
         t.answers = ses[c].answers, t.cmd = ses[c].cmd, t.asked = ses[c].asked,
         t.stream \in {"open", "closed"}, t.draining = ses[c].draining, t.missed = ses[c].missed
  PROVE  SessionInv'
<1>1. /\ ses[c] \in SessionRec /\ SessionFits(c) /\ Position(c) /\ app[c].put \in Nat
  BY ConnType, InvByParts DEF SessionInv, SessionFits
<1>2. ses[c].stream = "open" /\ t.stream # "none"
  BY <1>1 DEF SessionFits, HandshakeAt
<1>3. t.taken \in ses[c].taken .. app[c].put
  BY <1>1, SMTT(30) DEF Position, SessionRec
<1> QED
  BY <1>2, <1>3, FinishOK

LEMMA RelayEndsOK == ASSUME SessionInv, NEW c \in Conn, RelayEnds(c) PROVE SessionInv'
<1> DEFINE v == Close(ses[c])
<1>1. ses[c].pc = "relay" /\ ses[c] \in SessionRec /\ Sets(c, v)
  BY ConnType DEF SessionInv, RelayEnds, Goto
<1>2. ses[c].stream = "open"
  BY <1>1, InvByParts DEF SessionFits, HandshakeAt
<1>3. /\ v \in SessionRec /\ v.pc = "done" /\ v.taken = ses[c].taken /\ v.cmd = ses[c].cmd
      /\ v.asked = ses[c].asked /\ v.answers = ses[c].answers /\ Kept(v, ses[c])
  BY <1>1, CloseFrame DEF Kept
<1> HIDE DEF v
<1> QED
  BY <1>1, <1>2, <1>3, RelayCloses DEF Kept

-----------------------------------------------------------------------------
\* What the relay and the HTTP proxy take from the app's stream.

LEMMA Part ==
  ASSUME NEW f \in Seq(0 .. 255), NEW i \in Nat, NEW k \in Nat, i <= k, k <= Len(f)
  PROVE  /\ SubSeq(f, i + 1, k) \in Seq(0 .. 255)
         /\ Len(SubSeq(f, i + 1, k)) = k - i
<1> DEFINE j == i + 1
           p == SubSeq(f, j, k)
<1>1. \A x \in 1 .. Len(f) : f[x] \in 0 .. 255
  BY ElementOfSeq
<1>2. Len(f) \in Nat /\ j \in Int /\ k \in Int
  OBVIOUS
<1>3. \A x \in j .. k : f[x] \in 0 .. 255
  <2>1. \A x \in j .. k : x \in 1 .. Len(f)
    BY <1>2
  <2> QED
    BY <1>1, <2>1
<1> HIDE DEF j
<1>4. p \in Seq(0 .. 255) /\ Len(p) = IF j <= k THEN k - j + 1 ELSE 0
  BY <1>2, <1>3, SubSeqProperties
<1> HIDE DEF p
<1>5. Len(p) = k - i
  BY <1>4 DEF j
<1> QED
  BY <1>4, <1>5 DEF p, j

LEMMA Grow ==
  ASSUME NEW f \in Seq(0 .. 255), NEW i \in Nat, NEW k \in Nat, NEW l \in Nat,
         i <= k, k <= l, l <= Len(f)
  PROVE  SubSeq(f, i + 1, k) \o SubSeq(f, k + 1, l) = SubSeq(f, i + 1, l)
<1> DEFINE j == i + 1
<1>1. j \in 1 .. Len(f) + 1 /\ k \in j - 1 .. Len(f) /\ l \in k .. Len(f)
  OBVIOUS
<1> HIDE DEF j
<1>2. SubSeq(f, j, k) \o SubSeq(f, k + 1, l) = SubSeq(f, j, l)
  BY <1>1, ConcatAdjacentSubSeq
<1> QED
  BY <1>2 DEF j

\* The first request in a buffer that holds a part of the stream, and the rest.
LEMMA Cut ==
  ASSUME NEW f \in Seq(0 .. 255), NEW i \in Nat, NEW k \in Nat, i <= k, k <= Len(f),
         NEW h, h = SubSeq(f, i + 1, k), Len(h) >= 3
  PROVE  /\ SubSeq(h, 1, 3) = SubSeq(f, i + 1, i + 3)
         /\ SubSeq(h, 4, Len(h)) = SubSeq(f, i + 4, k)
         /\ i + 3 <= k
<1>1. h \in Seq(0 .. 255) /\ Len(h) = k - i /\ Len(f) \in Nat
  <2>1. SubSeq(f, i + 1, k) \in Seq(0 .. 255) /\ Len(SubSeq(f, i + 1, k)) = k - i
    BY Part
  <2> QED
    BY <2>1
<1>2. i + 3 <= k
  BY <1>1
<1> DEFINE j == i + 1
<1>3. j \in 1 .. Len(f) /\ k \in 1 .. Len(f) /\ k - j + 1 = Len(h)
  BY <1>1, <1>2
<1>4. h = SubSeq(f, j, k)
  OBVIOUS
<1>5. 1 \in 1 .. k - j + 1 /\ 3 \in 1 .. k - j + 1
  BY <1>1, <1>3
<1>6. j + 1 - 1 = i + 1 /\ j + 3 - 1 = i + 3 /\ j + 4 - 1 = i + 4 /\ j + Len(h) - 1 = k
  BY <1>1
<1> HIDE DEF j
<1>7. SubSeq(h, 1, 3) = SubSeq(f, i + 1, i + 3)
  <2>1. SubSeq(SubSeq(f, j, k), 1, 3) = SubSeq(f, j + 1 - 1, j + 3 - 1)
    BY <1>3, <1>5, SubSeqOfSubSeq
  <2> QED
    BY <1>4, <1>6, <2>1
<1>8. CASE Len(h) > 3
  <2> DEFINE m == Len(h)
  <2>1. 4 \in 1 .. k - j + 1 /\ m \in 1 .. k - j + 1
    BY <1>1, <1>3, <1>8
  <2>2. j + m - 1 = k
    BY <1>6
  <2> HIDE DEF m
  <2>3. SubSeq(SubSeq(f, j, k), 4, m) = SubSeq(f, j + 4 - 1, j + m - 1)
    BY <1>3, <2>1, SubSeqOfSubSeq
  <2>4. SubSeq(h, 4, m) = SubSeq(f, i + 4, k)
    BY <1>4, <1>6, <2>2, <2>3
  <2> QED
    BY <1>2, <1>7, <2>4 DEF m
<1>9. CASE Len(h) = 3
  <2>1. SubSeq(h, 4, 3) = <<>>
    BY SubSeqEmpty
  <2>2. i + 4 \in Int /\ k \in Int /\ k < i + 4
    BY <1>1, <1>9
  <2>3. SubSeq(f, i + 4, k) = <<>>
    BY <2>2, SubSeqEmpty
  <2> QED
    BY <1>2, <1>7, <1>9, <2>1, <2>3
<1> QED
  <2>1. Len(h) = 3 \/ Len(h) > 3
    BY <1>1
  <2> QED
    BY <1>8, <1>9, <2>1

LEMMA Taking ==
  ASSUME SessionInv, NEW c \in Conn, NEW n \in 1 .. Arrived(c)
  PROVE  LET s == ses[c]  f == Script(c)
         IN  /\ s \in SessionRec /\ SessionFits(c) /\ f \in Seq(0 .. 255)
             /\ app[c].put \in Nat /\ app[c].put <= Len(f)
             /\ s.taken \in Nat /\ n \in Nat /\ s.taken + n \in Nat /\ s.taken <= s.taken + n
             /\ s.taken + n <= app[c].put /\ s.taken + n <= Len(f)
             /\ Incoming(c, n) = SubSeq(f, s.taken + 1, s.taken + n)
             /\ Incoming(c, n) \in Seq(0 .. 255) /\ Len(Incoming(c, n)) = n
<1> DEFINE s == ses[c]
           f == Script(c)
<1>1. /\ s \in SessionRec /\ SessionFits(c) /\ f \in Seq(0 .. 255) /\ app[c].put \in Nat
  BY ConnType, InvByParts DEF SessionInv
<1>2. s.taken \in Nat /\ app[c].put <= Len(f) /\ Len(f) \in Nat
  BY <1>1 DEF SessionFits, Position, SessionRec
<1>3. n \in 1 .. app[c].put - s.taken
  BY DEF Arrived
<1>4. Incoming(c, n) = SubSeq(f, s.taken + 1, s.taken + n)
  BY DEF Incoming, Script
<1> HIDE DEF s, f
<1> DEFINE k == s.taken + n
<1>5. k \in Nat /\ s.taken <= k /\ k <= app[c].put /\ k <= Len(f) /\ n \in Nat /\ k - s.taken = n
  BY <1>1, <1>2, <1>3, SMTT(30)
<1>6. Incoming(c, n) = SubSeq(f, s.taken + 1, k)
  BY <1>4
<1> HIDE DEF k
<1>7. Incoming(c, n) \in Seq(0 .. 255) /\ Len(Incoming(c, n)) = n
  <2> DEFINE i == s.taken
  <2>1. f \in Seq(0 .. 255) /\ i \in Nat /\ k \in Nat /\ i <= k /\ k <= Len(f)
    BY <1>1, <1>2, <1>5
  <2>2. Incoming(c, n) = SubSeq(f, i + 1, k) /\ k - i = n
    BY <1>5, <1>6
  <2> HIDE DEF i
  <2>3. SubSeq(f, i + 1, k) \in Seq(0 .. 255) /\ Len(SubSeq(f, i + 1, k)) = k - i
    BY <2>1, Part
  <2> QED
    BY <2>2, <2>3
<1> QED
  BY <1>1, <1>2, <1>4, <1>5, <1>7 DEF s, f, k

\* One connection of the HTTP proxy, or one that was, takes a step.
LEMMA HttpOK ==
  ASSUME SessionInv, NEW c \in Conn, NEW t \in SessionRec, Sets(c, t), Script(c)[1] >= 65,
         t.pc \in {"request", "httpDial", "pipe", "publish", "done"},
         2 <= t.taken, t.taken <= app[c].put,
         t.pc = "httpDial" => Whole(t.held),
         t.pc \in {"request", "httpDial"} /\ ~t.missed =>
           LET f == Script(c)  n == 3 * Len(t.answers)
           IN  \/ t.taken = 2 /\ t.back = SubSeq(f, 1, 2) /\ t.held = <<>> /\ t.answers = <<>>
               \/ t.taken >= n /\ t.back = <<>> /\ t.held = SubSeq(f, n + 1, t.taken),
         ~t.missed =>
           \A i \in DOMAIN t.answers : t.answers[i] = SubSeq(Script(c), 3 * i - 2, 3 * i)
  PROVE  SessionInv'
<1> DEFINE f == Script(c)
<1>1. /\ ses'[c] = t /\ app'[c] = app[c] /\ Script(c)' = f
      /\ app[c].put \in Nat /\ Position(c)
  BY After
<1>2. f[1] # 5 /\ f[1] >= 65 /\ t.taken >= 2
  <2>1. t.taken \in Nat
    BY DEF SessionRec
  <2> QED
    BY <2>1
<1>3. Position(c)'
  BY <1>1 DEF Position
<1>4. HandshakeAt(c)'
  BY <1>1 DEF HandshakeAt, Reading
<1>5. HttpAt(c)'
  BY <1>1, <1>2 DEF HttpAt
<1>6. SessionFits(c)'
  BY <1>1, <1>2, <1>3, <1>4, <1>5 DEF SessionFits
<1> QED
  BY <1>6, OneSession

LEMMA RelayUpOK ==
  ASSUME SessionInv, NEW c \in Conn, RelayUp(c)
  PROVE  SessionInv'
<1> DEFINE s == ses[c]
           f == Script(c)
           H == HeaderLen(f)
<1>1. PICK n \in 1 .. Arrived(c) :
        Sets(c, [s EXCEPT !.taken = @ + n, !.up = @ \o Incoming(c, n)])
  BY DEF RelayUp
<1> DEFINE k == s.taken + n
           g == Incoming(c, n)
           a == s.up \o g
           v == [s EXCEPT !.taken = k]
           t == [v EXCEPT !.up = a]
<1>2. /\ s \in SessionRec /\ SessionFits(c) /\ f \in Seq(0 .. 255) /\ app[c].put \in Nat
      /\ s.taken \in Nat /\ k \in Nat /\ s.taken <= k /\ k <= app[c].put /\ k <= Len(f)
      /\ app[c].put <= Len(f)
      /\ g = SubSeq(f, s.taken + 1, k) /\ g \in Seq(0 .. 255)
  BY Taking
<1>3. Sets(c, t)
  <2>1. t = [s EXCEPT !.taken = @ + n, !.up = @ \o Incoming(c, n)]
    BY <1>2 DEF SessionRec
  <2> QED
    BY <1>1, <2>1
<1>4. s.up \in Seq(0 .. 255) /\ Len(s.up) \in Nat
  BY <1>2 DEF SessionRec
<1>5. a \in Seq(0 .. 255)
  BY <1>2, <1>4, ConcatProperties
<1>6. v \in SessionRec /\ v.taken = k /\ /\ v.pc = s.pc /\ v.want = s.want /\ v.cmd = s.cmd /\ v.addr = s.addr /\ v.back = s.back
      /\ v.held = s.held /\ v.open = s.open /\ v.draining = s.draining /\ v.stream = s.stream
      /\ v.asked = s.asked /\ v.answers = s.answers /\ v.up = s.up /\ v.missed = s.missed
  BY <1>2, SetTaken
<1> HIDE DEF v, a
<1>7. t \in SessionRec
  BY <1>5, <1>6, ZenonT(60) DEF SessionRec
<1>8. t.up = a /\ t.taken = k /\ /\ t.pc = s.pc /\ t.want = s.want /\ t.cmd = s.cmd /\ t.addr = s.addr /\ t.back = s.back
      /\ t.held = s.held /\ t.open = s.open /\ t.draining = s.draining /\ t.stream = s.stream
      /\ t.asked = s.asked /\ t.answers = s.answers /\ t.missed = s.missed
  BY <1>6 DEF SessionRec
<1> HIDE DEF t
<1>9. ses'[c] = t /\ app'[c] = app[c] /\ Script(c)' = f
  BY <1>3, <1>7, After
<1>10. s.pc \in {"relay", "pipe"}
  BY DEF RelayUp, Copying
<1> HIDE DEF s, f, H, k, g
<1>11. CASE s.pc = "relay"
  <2>1. /\ s.taken >= 2 /\ f[1] = 5 /\ s.taken >= CommandAt(f) + 4 /\ f[CommandAt(f) + 1] = 5
        /\ f[CommandAt(f) + 4] \in {1, 3, 4} /\ s.cmd = f[CommandAt(f) + 2] /\ WellFormed(f)
        /\ s.cmd = 1 /\ s.answers = <<MethodReply, Reply(0)>> /\ s.asked = <<TargetOf(f)>>
        /\ s.stream = "open" /\ s.taken = H + Len(s.up) /\ s.up = SubSeq(f, H + 1, s.taken)
    BY <1>2, <1>11 DEF SessionFits, HandshakeAt, s, f, H
  <2>2. H \in Nat /\ CommandAt(f) \in Nat
    <3>1. H \in Nat
      BY <1>2, <2>1, WellFormedFacts DEF H
    <3>2. 2 \in 1 .. Len(f)
      <4> DEFINE m == s.taken
                 l == Len(f)
      <4>1. l \in Nat /\ m >= 2 /\ m \in Nat /\ k \in Nat /\ m <= k /\ k <= l
        <5>1. l \in Nat /\ m \in Nat /\ k \in Nat /\ m <= k /\ k <= l
          BY <1>2
        <5>2. m >= 2
          BY <2>1
        <5> QED
          BY <5>1, <5>2
      <4> HIDE DEF m, l
      <4>2. 2 \in 1 .. l
        BY <4>1
      <4> QED
        BY <4>2 DEF l
    <3>3. f[2] \in Nat
      BY <1>2, <3>2, ElementOfSeq, ByteNat
    <3>4. \A x \in Nat : 2 + x \in Nat
      OBVIOUS
    <3> QED
      BY <3>1, <3>3, <3>4 DEF CommandAt
  <2>3. H <= s.taken /\ H <= k
    <3> DEFINE m == s.taken
               w == Len(s.up)
    <3>1. m = H + w /\ H \in Nat /\ m \in Nat /\ k \in Nat /\ m <= k
      BY <1>2, <2>1, <2>2
    <3>2. w \in Nat
      BY <1>2, <1>4
    <3> HIDE DEF m, w
    <3>3. H <= m /\ H <= k
      BY <3>1, <3>2, SMTT(30)
    <3> QED
      BY <3>3 DEF m
  <2>4. a = SubSeq(f, H + 1, k)
    <3>1. SubSeq(f, H + 1, s.taken) \o SubSeq(f, s.taken + 1, k) = SubSeq(f, H + 1, k)
      <4> DEFINE m == s.taken
      <4>1. m \in Nat /\ H <= m /\ m <= k
        BY <1>2, <2>3
      <4> HIDE DEF m
      <4>2. SubSeq(f, H + 1, m) \o SubSeq(f, m + 1, k) = SubSeq(f, H + 1, k)
        BY <1>2, <2>2, <4>1, Grow
      <4> QED
        BY <4>2 DEF m
    <3> QED
      BY <1>2, <2>1, <3>1 DEF a
  <2>5. Len(a) = k - H
    <3>1. Len(SubSeq(f, H + 1, k)) = k - H
      BY <1>2, <2>2, <2>3, Part, SMTT(30)
    <3> QED
      BY <2>4, <3>1
  <2>6. t.taken = H + Len(t.up) /\ t.taken >= H /\ t.taken >= 2 /\ t.taken >= CommandAt(f) + 4
    BY <1>2, <1>8, <2>1, <2>2, <2>3, <2>5
  <2>7. t.up = SubSeq(f, H + 1, t.taken)
    BY <1>8, <2>4
  <2>8. Position(c)'
    BY <1>2, <1>8, <1>9 DEF Position, f
  <2>9. HandshakeAt(c)'
    <3>1. /\ t.pc = "relay" /\ t.cmd = f[CommandAt(f) + 2] /\ t.cmd = 1
          /\ t.answers = <<MethodReply, Reply(0)>> /\ t.asked = <<TargetOf(f)>> /\ t.stream = "open"
      BY <1>8, <1>11, <2>1
    <3>2. /\ f[1] = 5 /\ f[CommandAt(f) + 1] = 5 /\ f[CommandAt(f) + 4] \in {1, 3, 4}
          /\ WellFormed(f)
      BY <2>1
    <3> QED
      BY <1>9, <2>6, <2>7, <3>1, <3>2 DEF HandshakeAt, Reading, H
  <2>10. AnswerFits(c)'
    <3>1. t.answers = <<MethodReply, Reply(0)>> /\ t.cmd = 1 /\ t.stream # "none"
      BY <1>8, <2>1
    <3> QED
      BY <1>3, <1>7, <2>1, <2>6, <3>1, FinalFits DEF f, H
  <2> QED
    BY <1>3, <1>7, <1>8, <1>11, <2>1, <2>8, <2>9, <2>10, SocksOK DEF f, s
<1>12. CASE s.pc = "pipe"
  <2>1. s.taken >= 2 /\ f[1] >= 65
    BY <1>2, <1>12 DEF SessionFits, HttpAt, s, f
  <2>2. ~s.missed =>
          \A i \in DOMAIN s.answers : s.answers[i] = SubSeq(f, 3 * i - 2, 3 * i)
    BY <1>2, <2>1 DEF SessionFits, s, f
  <2>3. t.pc = "pipe" /\ 2 <= t.taken /\ t.taken <= app[c].put /\ t.missed = s.missed
        /\ t.answers = s.answers
    BY <1>2, <1>8, <1>12, <2>1
  <2> QED
    BY <1>3, <1>7, <2>1, <2>2, <2>3, HttpOK DEF f
<1> QED
  BY <1>10, <1>11, <1>12

\* What is known of a connection of the HTTP proxy.
LEMMA HttpHere ==
  ASSUME SessionInv, NEW c \in Conn,
         ses[c].pc \in {"request", "httpDial", "pipe", "publish"} \/ ses[c].draining
  PROVE  LET s == ses[c]  f == Script(c)  n == 3 * Len(s.answers)
         IN  /\ s \in SessionRec /\ f \in Seq(0 .. 255) /\ f[1] >= 65
             /\ app[c].put \in Nat /\ app[c].put <= Len(f) /\ Len(f) \in Nat
             /\ s.taken \in Nat /\ s.taken <= app[c].put /\ 2 <= s.taken
             /\ s.pc \in {"request", "httpDial", "pipe", "publish", "done"}
             /\ s.pc = "httpDial" => Whole(s.held)
             /\ s.pc \in {"request", "httpDial"} /\ ~s.missed =>
                  \/ s.taken = 2 /\ s.back = SubSeq(f, 1, 2) /\ s.held = <<>> /\ s.answers = <<>>
                  \/ s.taken >= n /\ s.back = <<>> /\ s.held = SubSeq(f, n + 1, s.taken)
             /\ ~s.missed =>
                  \A i \in DOMAIN s.answers : s.answers[i] = SubSeq(f, 3 * i - 2, 3 * i)
<1> DEFINE s == ses[c]
           f == Script(c)
           n == 3 * Len(s.answers)
<1>1. s \in SessionRec /\ f \in Seq(0 .. 255) /\ app[c].put \in Nat /\ SessionFits(c)
  BY ConnType, InvByParts DEF SessionInv
<1>2. Len(f) \in Nat /\ s.taken \in Nat /\ s.taken <= app[c].put /\ app[c].put <= Len(f)
      /\ s.pc \in Phase
  BY <1>1 DEF SessionFits, Position, SessionRec
<1>3. s.taken >= 2 /\ f[1] >= 65
  BY <1>1 DEF SessionFits, HttpAt
<1>4. 2 <= s.taken /\ s.taken # 0 /\ f[1] # 5
  BY <1>2, <1>3
<1>5. s.pc \notin Reading \cup {"dial", "relay", "assoc"}
  BY <1>1, <1>4 DEF SessionFits, HandshakeAt, Reading
<1>6. s.pc \in {"request", "httpDial", "pipe", "publish", "done"}
  BY <1>2, <1>5 DEF Phase
<1>7. s.pc = "httpDial" => Whole(s.held)
  BY <1>1 DEF SessionFits, HttpAt
<1>8. s.pc \in {"request", "httpDial"} /\ ~s.missed =>
        \/ s.taken = 2 /\ s.back = SubSeq(f, 1, 2) /\ s.held = <<>> /\ s.answers = <<>>
        \/ s.taken >= n /\ s.back = <<>> /\ s.held = SubSeq(f, n + 1, s.taken)
  BY <1>1 DEF SessionFits, HttpAt
<1>9. /\ ~s.missed =>
           \A i \in DOMAIN s.answers : s.answers[i] = SubSeq(f, 3 * i - 2, 3 * i)
  BY <1>1, <1>3 DEF SessionFits
<1> HIDE DEF s, f, n
<1> QED
  BY <1>1, <1>2, <1>3, <1>4, <1>6, <1>7, <1>8, <1>9 DEF s, f, n

\* A request has been missed: nothing more is claimed of the order.
LEMMA MissedOK ==
  ASSUME SessionInv, NEW c \in Conn, NEW t \in SessionRec, Sets(c, t), Script(c)[1] >= 65,
         t.pc \in {"request", "httpDial", "pipe", "publish", "done"},
         2 <= t.taken, t.taken <= app[c].put, t.missed,
         t.pc = "httpDial" => Whole(t.held)
  PROVE  SessionInv'
  BY HttpOK

LEMMA DrainOK == ASSUME SessionInv, NEW c \in Conn, Drain(c) PROVE SessionInv'
<1> DEFINE s == ses[c]
           f == Script(c)
<1>1. PICK n \in 1 .. Arrived(c) : Sets(c, [s EXCEPT !.taken = @ + n, !.missed = TRUE])
  BY DEF Drain, Goto
<1> DEFINE k == s.taken + n
           v == [s EXCEPT !.taken = k]
           t == [v EXCEPT !.missed = TRUE]
<1>2. /\ s \in SessionRec /\ SessionFits(c) /\ f \in Seq(0 .. 255) /\ app[c].put \in Nat
      /\ s.taken \in Nat /\ k \in Nat /\ s.taken <= k /\ k <= app[c].put
      /\ app[c].put <= Len(f)
  BY Taking
<1>3. Sets(c, t)
  <2>1. t = [s EXCEPT !.taken = @ + n, !.missed = TRUE]
    BY <1>2 DEF SessionRec
  <2> QED
    BY <1>1, <2>1
<1>4. v \in SessionRec /\ v.taken = k /\ /\ v.pc = s.pc /\ v.want = s.want /\ v.cmd = s.cmd /\ v.addr = s.addr /\ v.back = s.back
      /\ v.held = s.held /\ v.open = s.open /\ v.draining = s.draining /\ v.stream = s.stream
      /\ v.asked = s.asked /\ v.answers = s.answers /\ v.up = s.up /\ v.missed = s.missed
  BY <1>2, SetTaken
<1> HIDE DEF v
<1>5. t \in SessionRec
  BY <1>4, ZenonT(60) DEF SessionRec
<1>6. t.missed /\ t.taken = k /\ /\ t.pc = s.pc /\ t.want = s.want /\ t.cmd = s.cmd /\ t.addr = s.addr /\ t.back = s.back
      /\ t.held = s.held /\ t.open = s.open /\ t.draining = s.draining /\ t.stream = s.stream
      /\ t.asked = s.asked /\ t.answers = s.answers /\ t.up = s.up
  BY <1>4 DEF SessionRec
<1> HIDE DEF t
<1>7. ses'[c] = t /\ app'[c] = app[c] /\ Script(c)' = f
  BY <1>3, <1>5, After
<1>8. s.draining \/ s.pc = "assoc"
  BY DEF Drain, Drains, Goto
<1> HIDE DEF s, f, k
<1>9. CASE s.pc = "assoc"
  <2>1. /\ s.taken >= 2 /\ f[1] = 5 /\ s.taken >= CommandAt(f) + 4 /\ f[CommandAt(f) + 1] = 5
        /\ f[CommandAt(f) + 4] \in {1, 3, 4} /\ s.cmd = f[CommandAt(f) + 2] /\ WellFormed(f)
        /\ s.cmd = 3 /\ s.answers = <<MethodReply, Reply(0)>> /\ s.asked = <<>>
        /\ s.taken >= HeaderLen(f)
    BY <1>2, <1>9 DEF SessionFits, HandshakeAt, s, f
  <2>2. HeaderLen(f) \in Nat /\ CommandAt(f) \in Nat
    <3>1. HeaderLen(f) \in Nat
      BY <1>2, <2>1, WellFormedFacts
    <3>2. 2 \in 1 .. Len(f)
      <4>1. Len(f) > 1 /\ Len(f) \in Nat
        BY <1>2, <2>1 DEF WellFormed
      <4> QED
        BY <4>1
    <3>3. f[2] \in Nat
      BY <1>2, <3>2, ElementOfSeq, ByteNat
    <3>4. \A x \in Nat : 2 + x \in Nat
      OBVIOUS
    <3> QED
      BY <3>1, <3>3, <3>4 DEF CommandAt
  <2>3. k >= 2 /\ k >= CommandAt(f) + 4 /\ k >= HeaderLen(f)
    <3>1. \A x, y, z \in Nat : x <= y /\ x >= z => y >= z
      OBVIOUS
    <3>2. CommandAt(f) + 4 \in Nat
      BY <2>2
    <3>3. s.taken \in Nat /\ k \in Nat /\ s.taken <= k
      BY <1>2
    <3> QED
      BY <2>1, <2>2, <3>1, <3>2, <3>3
  <2>4. Position(c)'
    BY <1>2, <1>6, <1>7 DEF Position, f
  <2>5. HandshakeAt(c)'
    <3>1. /\ t.pc = "assoc" /\ t.cmd = f[CommandAt(f) + 2] /\ t.cmd = 3
          /\ t.answers = <<MethodReply, Reply(0)>> /\ t.asked = <<>> /\ t.taken = k
      BY <1>6, <1>9, <2>1
    <3>2. /\ f[1] = 5 /\ f[CommandAt(f) + 1] = 5 /\ f[CommandAt(f) + 4] \in {1, 3, 4}
          /\ WellFormed(f)
      BY <2>1
    <3> QED
      BY <1>7, <2>3, <3>1, <3>2 DEF HandshakeAt, Reading
  <2>6. AnswerFits(c)'
    <3>1. /\ t.answers = <<MethodReply, Reply(0)>> /\ t.cmd = 3 /\ t.asked = <<>>
          /\ t.taken >= HeaderLen(f)
      BY <1>6, <2>1, <2>3
    <3> QED
      BY <1>3, <1>5, <2>1, <3>1, FinalFits DEF f
  <2> QED
    BY <1>3, <1>5, <1>6, <1>9, <2>1, <2>4, <2>5, <2>6, SocksOK DEF f, s
<1>10. CASE s.draining
  <2>1. /\ s.pc \in {"request", "httpDial", "pipe", "publish", "done"} /\ 2 <= s.taken
        /\ f[1] >= 65
        /\ s.pc = "httpDial" => Whole(s.held)
    BY <1>10, HttpHere DEF s, f
  <2>2. 2 <= t.taken /\ t.taken <= app[c].put
    BY <1>2, <1>6, <2>1
  <2> QED
    BY <1>3, <1>5, <1>6, <2>1, <2>2, MissedOK DEF f
<1> QED
  BY <1>8, <1>9, <1>10

LEMMA DrainEndsOK == ASSUME SessionInv, NEW c \in Conn, DrainEnds(c) PROVE SessionInv'
<1> DEFINE s == ses[c]
           f == Script(c)
           p == IF s.pc = "assoc" THEN "done" ELSE s.pc
           v == [s EXCEPT !.pc = p]
           t == [v EXCEPT !.open = FALSE, !.draining = FALSE]
<1>1. s \in SessionRec /\ SessionFits(c) /\ (s.draining \/ s.pc = "assoc")
      /\ app[c].put \in Nat /\ s.taken \in Nat /\ s.taken <= app[c].put
  <2>1. s \in SessionRec /\ SessionFits(c) /\ app[c].put \in Nat
    BY ConnType, InvByParts DEF SessionInv
  <2> QED
    BY <2>1 DEF SessionFits, Position, SessionRec, DrainEnds, Drains, Goto
<1>2. Sets(c, t)
  <2>1. t = [s EXCEPT !.open = FALSE, !.draining = FALSE,
                      !.pc = IF @ = "assoc" THEN "done" ELSE @]
    BY <1>1, ZenonT(60) DEF SessionRec
  <2> QED
    BY <2>1 DEF DrainEnds, Goto
<1>3. v \in SessionRec
  <2>1. p \in Phase
    BY <1>1 DEF SessionRec, Phase
  <2> QED
    BY <1>1, <2>1, PcFrame
<1>4. v.pc = p /\ /\ v.want = s.want /\ v.cmd = s.cmd /\ v.addr = s.addr /\ v.taken = s.taken
      /\ v.back = s.back /\ v.held = s.held /\ v.open = s.open /\ v.draining = s.draining
      /\ v.stream = s.stream /\ v.asked = s.asked /\ v.answers = s.answers /\ v.up = s.up
      /\ v.missed = s.missed
  BY <1>1 DEF SessionRec
<1> HIDE DEF v, p
<1>5. t \in SessionRec
  BY <1>3, ZenonT(60) DEF SessionRec
<1>6. ~t.open /\ ~t.draining /\ /\ t.pc = v.pc /\ t.want = v.want /\ t.cmd = v.cmd /\ t.addr = v.addr /\ t.taken = v.taken
      /\ t.back = v.back /\ t.held = v.held /\ t.stream = v.stream /\ t.asked = v.asked
      /\ t.answers = v.answers /\ t.up = v.up /\ t.missed = v.missed
  BY <1>3 DEF SessionRec
<1> HIDE DEF t
<1>7. CASE s.pc = "assoc"
  <2>1. t.pc = "done" /\ t.taken \in s.taken .. app[c].put
    BY <1>1, <1>4, <1>6, <1>7 DEF p
  <2> QED
    BY <1>2, <1>4, <1>5, <1>6, <2>1, FinishOK
<1>8. CASE s.pc # "assoc" /\ s.draining
  <2>1. t.pc = s.pc
    BY <1>4, <1>6, <1>8 DEF p
  <2> HIDE DEF s, f
  <2>2. LET n == 3 * Len(s.answers)
        IN  /\ f[1] >= 65 /\ 2 <= s.taken
            /\ s.pc \in {"request", "httpDial", "pipe", "publish", "done"}
            /\ s.pc = "httpDial" => Whole(s.held)
            /\ s.pc \in {"request", "httpDial"} /\ ~s.missed =>
                 \/ s.taken = 2 /\ s.back = SubSeq(f, 1, 2) /\ s.held = <<>> /\ s.answers = <<>>
                 \/ s.taken >= n /\ s.back = <<>> /\ s.held = SubSeq(f, n + 1, s.taken)
            /\ ~s.missed =>
                 \A i \in DOMAIN s.answers : s.answers[i] = SubSeq(f, 3 * i - 2, 3 * i)
    BY <1>8, HttpHere DEF s, f
  <2>3. /\ t.pc = s.pc /\ t.want = s.want /\ t.cmd = s.cmd /\ t.addr = s.addr
        /\ t.taken = s.taken /\ t.back = s.back /\ t.held = s.held /\ t.stream = s.stream
        /\ t.asked = s.asked /\ t.answers = s.answers /\ t.up = s.up /\ t.missed = s.missed
    BY <1>4, <1>6, <2>1
  <2> QED
    BY <1>1, <1>2, <1>5, <1>6, <2>2, <2>3, HttpOK, ZenonT(60) DEF f
<1> QED
  BY <1>1, <1>7, <1>8

LEMMA FillOK == ASSUME SessionInv, NEW c \in Conn, Fill(c) PROVE SessionInv'
<1> DEFINE s == ses[c]
           f == Script(c)
           n == 3 * Len(s.answers)
<1>1. s.pc = "request"
  BY DEF Fill, Goto
<1>2. /\ s \in SessionRec /\ f \in Seq(0 .. 255) /\ f[1] >= 65
      /\ app[c].put \in Nat /\ app[c].put <= Len(f) /\ Len(f) \in Nat
      /\ s.taken \in Nat /\ s.taken <= app[c].put /\ 2 <= s.taken
      /\ ~s.missed =>
           \/ s.taken = 2 /\ s.back = SubSeq(f, 1, 2) /\ s.held = <<>> /\ s.answers = <<>>
           \/ s.taken >= n /\ s.back = <<>> /\ s.held = SubSeq(f, n + 1, s.taken)
      /\ ~s.missed =>
           \A i \in DOMAIN s.answers : s.answers[i] = SubSeq(f, 3 * i - 2, 3 * i)
  BY <1>1, HttpHere, ZenonT(60)
<1>3. s.held \in Seq(0 .. 255) /\ s.back \in Seq(0 .. 255) /\ n \in Nat
  <2>1. s.answers \in Seq(Seq(0 .. 255)) /\ Len(s.answers) \in Nat
    BY <1>2 DEF SessionRec
  <2>2. \A x \in Nat : 3 * x \in Nat
    OBVIOUS
  <2>3. n \in Nat
    BY <2>1, <2>2
  <2> QED
    BY <1>2, <2>3, ZenonT(60) DEF SessionRec
<1>4. CASE s.back # <<>>
  <2> DEFINE h == s.held \o s.back
             v == [s EXCEPT !.held = h]
             t == [v EXCEPT !.back = <<>>]
  <2>1. Sets(c, t)
    <3>1. t = [s EXCEPT !.held = @ \o s.back, !.back = <<>>]
      BY <1>2 DEF SessionRec
    <3> QED
      BY <1>4, <3>1 DEF Fill, Goto
  <2> HIDE DEF s, f, n
  <2>2. h \in Seq(0 .. 255)
    BY <1>3, ConcatProperties
  <2>3. ~s.missed => h = SubSeq(f, 1, 2) /\ s.taken = 2 /\ s.answers = <<>>
    <3>1. SUFFICES ASSUME ~s.missed
                   PROVE  h = SubSeq(f, 1, 2) /\ s.taken = 2 /\ s.answers = <<>>
      OBVIOUS
    <3>2. s.taken = 2 /\ s.back = SubSeq(f, 1, 2) /\ s.held = <<>> /\ s.answers = <<>>
      BY <1>2, <1>4, <3>1
    <3>3. <<>> \o s.back = s.back
      BY <1>3
    <3> QED
      BY <3>2, <3>3
  <2> HIDE DEF h
  <2>4. v \in SessionRec
    BY <1>2, <2>2, ZenonT(60) DEF SessionRec
  <2>5. v.held = h /\ /\ v.pc = s.pc /\ v.want = s.want /\ v.cmd = s.cmd /\ v.addr = s.addr
        /\ v.taken = s.taken /\ v.back = s.back /\ v.open = s.open /\ v.draining = s.draining
        /\ v.stream = s.stream /\ v.asked = s.asked /\ v.answers = s.answers /\ v.up = s.up
        /\ v.missed = s.missed
    BY <1>2 DEF SessionRec
  <2> HIDE DEF v
  <2>6. t \in SessionRec
    <3>1. <<>> \in Seq(0 .. 255)
      OBVIOUS
    <3> QED
      BY <2>4, <3>1, ZenonT(60) DEF SessionRec
  <2>7. t.back = <<>> /\ t.held = h /\ /\ t.pc = s.pc /\ t.want = s.want /\ t.cmd = s.cmd /\ t.addr = s.addr
        /\ t.taken = s.taken /\ t.open = s.open /\ t.draining = s.draining
        /\ t.stream = s.stream /\ t.asked = s.asked /\ t.answers = s.answers /\ t.up = s.up
        /\ t.missed = s.missed
    BY <2>4, <2>5 DEF SessionRec
  <2> HIDE DEF t
  <2>8. ~t.missed => /\ t.taken >= 3 * Len(t.answers)
                     /\ t.held = SubSeq(f, 3 * Len(t.answers) + 1, t.taken)
    <3>1. SUFFICES ASSUME ~t.missed
                   PROVE  /\ t.taken >= 3 * Len(t.answers)
                          /\ t.held = SubSeq(f, 3 * Len(t.answers) + 1, t.taken)
      OBVIOUS
    <3>2. t.taken = 2 /\ t.held = SubSeq(f, 1, 2) /\ Len(t.answers) = 0
      BY <2>3, <2>7, <3>1
    <3>3. 3 * 0 = 0 /\ 0 + 1 = 1 /\ 2 >= 0
      OBVIOUS
    <3> QED
      BY <3>2, <3>3
  <2>9. t.pc = "request" /\ 2 <= t.taken /\ t.taken <= app[c].put
    BY <1>1, <1>2, <2>7
  <2>10. ~t.missed => \A i \in DOMAIN t.answers : t.answers[i] = SubSeq(f, 3 * i - 2, 3 * i)
    BY <1>2, <2>7
  <2> QED
    BY <1>2, <2>1, <2>6, <2>7, <2>8, <2>9, <2>10, HttpOK DEF f
<1>5. CASE s.back = <<>>
  <2> DEFINE k == app[c].put
             g == Incoming(c, Arrived(c))
             h == s.held \o g
             v == [s EXCEPT !.held = h]
             t == [v EXCEPT !.taken = k]
  <2>1. Sets(c, t) /\ Arrived(c) > 0
    <3>1. t = [s EXCEPT !.held = @ \o Incoming(c, Arrived(c)), !.taken = app[c].put]
      BY <1>2 DEF SessionRec
    <3> QED
      BY <1>5, <3>1 DEF Fill, Goto
  <2>2. s.taken + Arrived(c) = k /\ Arrived(c) \in 1 .. Arrived(c)
    <3>1. \A x, y \in Nat : x - y > 0 => y + (x - y) = x /\ x - y \in 1 .. x - y
      OBVIOUS
    <3>2. k \in Nat /\ s.taken \in Nat /\ Arrived(c) = k - s.taken
      BY <1>2 DEF Arrived
    <3>3. k - s.taken > 0
      BY <2>1, <3>2
    <3> QED
      BY <3>1, <3>2, <3>3
  <2>3. g = SubSeq(f, s.taken + 1, k) /\ g \in Seq(0 .. 255)
    <3>1. g = SubSeq(f, s.taken + 1, s.taken + Arrived(c)) /\ g \in Seq(0 .. 255)
      BY <2>2, Taking
    <3> QED
      BY <2>2, <3>1
  <2> HIDE DEF s, f, n, k, g
  <2>4. h \in Seq(0 .. 255)
    BY <1>3, <2>3, ConcatProperties
  <2>5. ~s.missed => n <= k /\ h = SubSeq(f, n + 1, k)
    <3>1. SUFFICES ASSUME ~s.missed PROVE n <= k /\ h = SubSeq(f, n + 1, k)
      OBVIOUS
    <3>2. s.back # SubSeq(f, 1, 2)
      <4>1. PICK i \in Nat : i = 0
        OBVIOUS
      <4>2. PICK j \in Nat : j = 2
        OBVIOUS
      <4>3. i <= j /\ j <= Len(f)
        BY <1>2, <4>1, <4>2
      <4>4. Len(SubSeq(f, i + 1, j)) = j - i
        BY <1>2, <4>3, Part
      <4>5. Len(SubSeq(f, 1, 2)) = 2
        BY <4>1, <4>2, <4>4
      <4> QED
        BY <1>5, <4>5
    <3>3. s.taken >= n /\ s.held = SubSeq(f, n + 1, s.taken)
      BY <1>2, <3>1, <3>2
    <3> DEFINE m == s.taken
    <3>4. m \in Nat /\ k \in Nat /\ n \in Nat /\ n <= m /\ m <= k /\ k <= Len(f)
      BY <1>2, <1>3, <3>3 DEF k
    <3>5. h = SubSeq(f, n + 1, m) \o SubSeq(f, m + 1, k)
      BY <2>3, <3>3
    <3> HIDE DEF m, h
    <3>6. SubSeq(f, n + 1, m) \o SubSeq(f, m + 1, k) = SubSeq(f, n + 1, k)
      BY <1>2, <3>4, Grow
    <3>7. n <= k
      BY <3>4
    <3> QED
      BY <3>5, <3>6, <3>7
  <2> HIDE DEF h
  <2>6. v \in SessionRec
    BY <1>2, <2>4, ZenonT(60) DEF SessionRec
  <2>7. v.held = h /\ /\ v.pc = s.pc /\ v.want = s.want /\ v.cmd = s.cmd /\ v.addr = s.addr
        /\ v.taken = s.taken /\ v.back = s.back /\ v.open = s.open /\ v.draining = s.draining
        /\ v.stream = s.stream /\ v.asked = s.asked /\ v.answers = s.answers /\ v.up = s.up
        /\ v.missed = s.missed
    BY <1>2 DEF SessionRec
  <2>8. k \in Nat /\ k <= app[c].put /\ 2 <= k
    BY <1>2 DEF k
  <2> HIDE DEF v
  <2>9. t \in SessionRec /\ t.taken = k /\ t.pc = v.pc /\ t.held = v.held /\ t.back = v.back
        /\ t.answers = v.answers /\ t.missed = v.missed
    BY <2>6, <2>8, SetTaken
  <2> HIDE DEF t
  <2>10. /\ t.pc = "request" /\ t.held = h /\ t.back = <<>> /\ t.answers = s.answers
         /\ t.missed = s.missed /\ 2 <= t.taken /\ t.taken <= app[c].put
    BY <1>1, <1>5, <2>7, <2>8, <2>9
  <2>11. ~t.missed => /\ t.taken >= 3 * Len(t.answers)
                      /\ t.held = SubSeq(f, 3 * Len(t.answers) + 1, t.taken)
    <3>1. SUFFICES ASSUME ~t.missed
                   PROVE  /\ t.taken >= 3 * Len(t.answers)
                          /\ t.held = SubSeq(f, 3 * Len(t.answers) + 1, t.taken)
      OBVIOUS
    <3>2. n = 3 * Len(t.answers)
      BY <2>10 DEF n
    <3>3. n <= k /\ h = SubSeq(f, n + 1, k)
      BY <2>5, <2>10, <3>1
    <3>4. k >= n
      BY <1>3, <2>8, <3>3
    <3> QED
      BY <2>9, <2>10, <3>2, <3>3, <3>4
  <2>12. ~t.missed => \A i \in DOMAIN t.answers : t.answers[i] = SubSeq(f, 3 * i - 2, 3 * i)
    BY <1>2, <2>10
  <2> QED
    BY <1>2, <2>1, <2>9, <2>10, <2>11, <2>12, HttpOK DEF f
<1> QED
  BY <1>4, <1>5

LEMMA NoRequestOK == ASSUME SessionInv, NEW c \in Conn, NoRequest(c) PROVE SessionInv'
<1> DEFINE s == ses[c]
           t == Close(s)
<1>1. s.pc = "request" /\ Sets(c, t)
  BY DEF NoRequest, Goto
<1>2. /\ s \in SessionRec /\ app[c].put \in Nat /\ s.taken \in Nat /\ s.taken <= app[c].put
  BY <1>1, HttpHere
<1>3. t \in SessionRec /\ t.pc = "done" /\ /\ t.want = s.want /\ t.cmd = s.cmd /\ t.addr = s.addr /\ t.taken = s.taken
      /\ t.back = s.back /\ t.held = s.held /\ t.draining = s.draining /\ t.stream = s.stream
      /\ t.asked = s.asked /\ t.answers = s.answers /\ t.up = s.up /\ t.missed = s.missed
  BY <1>2, CloseFrame
<1> HIDE DEF t
<1>4. t.taken \in s.taken .. app[c].put
  BY <1>2, <1>3
<1> QED
  BY <1>1, <1>3, <1>4, FinishOK

\* The request at the front of the buffer is the next one of the stream.
LEMMA RequestFacts ==
  ASSUME SessionInv, NEW c \in Conn, ses[c].pc \in {"request", "httpDial"}, Whole(ses[c].held)
  PROVE  LET s == ses[c]  f == Script(c)  n == 3 * Len(s.answers)
         IN  /\ s \in SessionRec /\ f \in Seq(0 .. 255) /\ f[1] >= 65 /\ n \in Nat
             /\ app[c].put \in Nat /\ s.taken \in Nat /\ s.taken <= app[c].put /\ 2 <= s.taken
             /\ Request(c) \in Seq(0 .. 255) /\ Rest(c) \in Seq(0 .. 255)
             /\ ~s.missed =>
                  /\ s.back = <<>> /\ s.taken >= n + 3
                  /\ Request(c) = SubSeq(f, n + 1, n + 3) /\ Rest(c) = SubSeq(f, n + 4, s.taken)
                  /\ \A i \in DOMAIN s.answers : s.answers[i] = SubSeq(f, 3 * i - 2, 3 * i)
<1> DEFINE s == ses[c]
           f == Script(c)
           n == 3 * Len(s.answers)
           h == s.held
           k == s.taken
<1>1. /\ s \in SessionRec /\ f \in Seq(0 .. 255) /\ f[1] >= 65
      /\ app[c].put \in Nat /\ app[c].put <= Len(f) /\ Len(f) \in Nat
      /\ k \in Nat /\ k <= app[c].put /\ 2 <= k
      /\ ~s.missed =>
           \/ s.taken = 2 /\ s.back = SubSeq(f, 1, 2) /\ s.held = <<>> /\ s.answers = <<>>
           \/ k >= n /\ s.back = <<>> /\ s.held = SubSeq(f, n + 1, k)
      /\ ~s.missed =>
           \A i \in DOMAIN s.answers : s.answers[i] = SubSeq(f, 3 * i - 2, 3 * i)
  BY HttpHere, ZenonT(60)
<1>2. h \in Seq(0 .. 255) /\ n \in Nat /\ Len(h) \in Nat
  <2>1. s.answers \in Seq(Seq(0 .. 255)) /\ Len(s.answers) \in Nat
    BY <1>1 DEF SessionRec
  <2>2. \A x \in Nat : 3 * x \in Nat
    OBVIOUS
  <2>3. n \in Nat
    BY <2>1, <2>2
  <2>4. h \in Seq(0 .. 255)
    BY <1>1 DEF SessionRec
  <2> QED
    BY <2>3, <2>4
<1>3. Len(h) >= 3 /\ Request(c) = SubSeq(h, 1, 3) /\ Rest(c) = SubSeq(h, 4, Len(h))
  BY DEF Whole, Request, Rest
<1> HIDE DEF s, f, n, h, k
<1>4. Request(c) \in Seq(0 .. 255) /\ Rest(c) \in Seq(0 .. 255)
  <2>1. \A x \in 1 .. Len(h) : h[x] \in 0 .. 255
    BY <1>2, ElementOfSeq
  <2>2. \A x \in 1 .. 3 : h[x] \in 0 .. 255
    <3>1. \A x \in 1 .. 3 : x \in 1 .. Len(h)
      BY <1>2, <1>3
    <3> QED
      BY <2>1, <3>1
  <2>3. \A x \in 4 .. Len(h) : h[x] \in 0 .. 255
    <3>1. \A x \in 4 .. Len(h) : x \in 1 .. Len(h)
      BY <1>2
    <3> QED
      BY <2>1, <3>1
  <2>4. 1 \in Int /\ 3 \in Int /\ 4 \in Int /\ Len(h) \in Int
    BY <1>2
  <2>5. SubSeq(h, 1, 3) \in Seq(0 .. 255)
    BY <2>2, <2>4, SubSeqProperties
  <2>6. SubSeq(h, 4, Len(h)) \in Seq(0 .. 255)
    <3> DEFINE l == Len(h)
    <3>1. l \in Int /\ \A x \in 4 .. l : h[x] \in 0 .. 255
      BY <2>3, <2>4
    <3> HIDE DEF l
    <3>2. SubSeq(h, 4, l) \in Seq(0 .. 255)
      BY <2>4, <3>1, SubSeqProperties
    <3> QED
      BY <3>2 DEF l
  <2> QED
    BY <1>3, <2>5, <2>6
<1>5. ~s.missed =>
        /\ s.back = <<>> /\ k >= n + 3
        /\ Request(c) = SubSeq(f, n + 1, n + 3) /\ Rest(c) = SubSeq(f, n + 4, k)
  <2>1. SUFFICES ASSUME ~s.missed
                 PROVE  /\ s.back = <<>> /\ k >= n + 3
                        /\ Request(c) = SubSeq(f, n + 1, n + 3) /\ Rest(c) = SubSeq(f, n + 4, k)
    OBVIOUS
  <2>2. h # <<>>
    BY <1>3
  <2>3. k >= n /\ s.back = <<>> /\ h = SubSeq(f, n + 1, k)
    BY <1>1, <2>1, <2>2 DEF h
  <2>4. n <= k /\ k <= Len(f)
    BY <1>1, <1>2, <2>3
  <2>5. /\ SubSeq(h, 1, 3) = SubSeq(f, n + 1, n + 3)
        /\ SubSeq(h, 4, Len(h)) = SubSeq(f, n + 4, k)
        /\ n + 3 <= k
    BY <1>1, <1>2, <1>3, <2>3, <2>4, Cut, SMTT(30)
  <2>6. k >= n + 3
    BY <1>1, <1>2, <2>5
  <2> QED
    BY <1>3, <2>3, <2>5, <2>6
<1>6. ~s.missed => \A i \in DOMAIN s.answers : s.answers[i] = SubSeq(f, 3 * i - 2, 3 * i)
  BY <1>1
<1> QED
  BY <1>1, <1>2, <1>4, <1>5, <1>6 DEF s, f, n, h, k

LEMMA HeldFrame ==
  ASSUME NEW s \in SessionRec, NEW h \in Seq(0 .. 255)
  PROVE  LET t == [s EXCEPT !.held = h]
         IN  t \in SessionRec /\ t.held = h /\ /\ t.pc = s.pc /\ t.want = s.want /\ t.cmd = s.cmd /\ t.addr = s.addr
              /\ t.taken = s.taken /\ t.back = s.back /\ t.open = s.open
              /\ t.draining = s.draining /\ t.stream = s.stream /\ t.asked = s.asked
              /\ t.answers = s.answers /\ t.up = s.up /\ t.missed = s.missed
<1>1. [s EXCEPT !.held = h] \in SessionRec
  BY ZenonT(60) DEF SessionRec
<1> QED
  BY <1>1 DEF SessionRec

LEMMA MissFrame ==
  ASSUME NEW s \in SessionRec
  PROVE  LET t == [s EXCEPT !.missed = TRUE]
         IN  t \in SessionRec /\ t.missed /\ /\ t.pc = s.pc /\ t.want = s.want /\ t.cmd = s.cmd /\ t.addr = s.addr
              /\ t.taken = s.taken /\ t.back = s.back /\ t.held = s.held /\ t.open = s.open
              /\ t.draining = s.draining /\ t.stream = s.stream /\ t.asked = s.asked
              /\ t.answers = s.answers /\ t.up = s.up
<1>1. [s EXCEPT !.missed = TRUE] \in SessionRec
  BY ZenonT(60) DEF SessionRec
<1> QED
  BY <1>1 DEF SessionRec

LEMMA Longer ==
  ASSUME NEW S, NEW a \in Seq(S), NEW r \in S
  PROVE  /\ Append(a, r) \in Seq(S) /\ Len(Append(a, r)) = Len(a) + 1
         /\ \A i \in 1 .. Len(a) : Append(a, r)[i] = a[i]
         /\ Append(a, r)[Len(a) + 1] = r
         /\ Len(a) \in Nat /\ DOMAIN a = 1 .. Len(a)
         /\ DOMAIN Append(a, r) = 1 .. Len(Append(a, r))
  BY AppendProperties

\* One more answer, to the next request.
LEMMA OneMore ==
  ASSUME NEW f \in Seq(0 .. 255), NEW a \in Seq(Seq(0 .. 255)), NEW r \in Seq(0 .. 255)
  PROVE  LET b == Append(a, r)
         IN  /\ 3 * Len(b) = 3 * Len(a) + 3 /\ 3 * Len(b) + 1 = 3 * Len(a) + 4
             /\ /\ r = SubSeq(f, 3 * Len(a) + 1, 3 * Len(a) + 3)
                /\ \A i \in DOMAIN a : a[i] = SubSeq(f, 3 * i - 2, 3 * i)
                => \A i \in DOMAIN b : b[i] = SubSeq(f, 3 * i - 2, 3 * i)
<1> DEFINE b == Append(a, r)
           l == Len(a)
<1>1. /\ Len(b) = l + 1 /\ \A i \in 1 .. l : b[i] = a[i]
      /\ b[l + 1] = r /\ l \in Nat /\ DOMAIN a = 1 .. l /\ DOMAIN b = 1 .. Len(b)
  <2> DEFINE S == Seq(0 .. 255)
  <2>1. a \in Seq(S) /\ r \in S
    OBVIOUS
  <2> HIDE DEF S
  <2> QED
    BY <2>1, Longer
<1> HIDE DEF b
<1>2. /\ 3 * (l + 1) = 3 * l + 3 /\ 3 * (l + 1) + 1 = 3 * l + 4
      /\ 3 * (l + 1) - 2 = 3 * l + 1
      /\ \A i \in 1 .. l + 1 : i \in 1 .. l \/ i = l + 1
  <2> HIDE DEF l
  <2> QED
    BY <1>1
<1>3. ASSUME r = SubSeq(f, 3 * l + 1, 3 * l + 3),
             \A i \in DOMAIN a : a[i] = SubSeq(f, 3 * i - 2, 3 * i),
             NEW i \in DOMAIN b
      PROVE  b[i] = SubSeq(f, 3 * i - 2, 3 * i)
  <2> HIDE DEF l
  <2>1. i \in 1 .. l \/ i = l + 1
    BY <1>1, <1>2
  <2>2. CASE i \in 1 .. l
    BY <1>1, <1>3, <2>2
  <2>3. CASE i = l + 1
    <3>1. 3 * i - 2 = 3 * l + 1 /\ 3 * i = 3 * l + 3
      BY <1>2, <2>3
    <3>2. b[i] = r
      BY <1>1, <2>3
    <3> QED
      BY <1>3, <3>1, <3>2
  <2> QED
    BY <2>1, <2>2, <2>3
<1> QED
  BY <1>1, <1>2, <1>3 DEF b

LEMMA AnswerLocallyOK == ASSUME SessionInv, NEW c \in Conn, AnswerLocally(c) PROVE SessionInv'
<1> DEFINE s == ses[c]
           f == Script(c)
           r == Request(c)
           n == 3 * Len(s.answers)
           v == [s EXCEPT !.held = Rest(c)]
<1>1. s.pc = "request" /\ Whole(s.held)
  BY DEF AnswerLocally, HasRequest, Goto
<1>2. /\ s \in SessionRec /\ f \in Seq(0 .. 255) /\ f[1] >= 65 /\ n \in Nat
      /\ app[c].put \in Nat /\ s.taken \in Nat /\ s.taken <= app[c].put /\ 2 <= s.taken
      /\ r \in Seq(0 .. 255) /\ Rest(c) \in Seq(0 .. 255)
      /\ ~s.missed =>
           /\ s.back = <<>> /\ s.taken >= n + 3
           /\ r = SubSeq(f, n + 1, n + 3) /\ Rest(c) = SubSeq(f, n + 4, s.taken)
           /\ \A i \in DOMAIN s.answers : s.answers[i] = SubSeq(f, 3 * i - 2, 3 * i)
  BY <1>1, RequestFacts
<1>3. Sets(c, Tell(v, r)) \/ Sets(c, [v EXCEPT !.missed = TRUE])
  BY DEF AnswerLocally, Goto
<1>4. v \in SessionRec /\ v.held = Rest(c) /\ /\ v.pc = s.pc /\ v.want = s.want /\ v.cmd = s.cmd /\ v.addr = s.addr /\ v.taken = s.taken
      /\ v.back = s.back /\ v.open = s.open /\ v.draining = s.draining /\ v.stream = s.stream
      /\ v.asked = s.asked /\ v.answers = s.answers /\ v.up = s.up /\ v.missed = s.missed
  BY <1>2, HeldFrame
<1>5. s.answers \in Seq(Seq(0 .. 255))
  BY <1>2 DEF SessionRec
<1> HIDE DEF v, s, f, r, n
<1>6. CASE Sets(c, Tell(v, r))
  <2> DEFINE a == Append(s.answers, r)
             t == Tell(v, r)
  <2>1. t \in SessionRec /\ t.answers = a /\ t.pc = "request" /\ t.taken = s.taken
        /\ t.back = s.back /\ t.held = Rest(c) /\ t.missed = s.missed
    <3>1. r \in Seq(0 .. 255)
      BY <1>2
    <3>2. /\ t \in SessionRec /\ t.answers = Append(v.answers, r) /\ t.pc = v.pc
          /\ t.taken = v.taken /\ t.back = v.back /\ t.held = v.held /\ t.missed = v.missed
      BY <1>4, <3>1, TellFrame
    <3> QED
      BY <1>1, <1>4, <3>2
  <2>2. ~s.missed => /\ 3 * Len(a) = n + 3 /\ 3 * Len(a) + 1 = n + 4
                     /\ \A i \in DOMAIN a : a[i] = SubSeq(f, 3 * i - 2, 3 * i)
    <3>1. SUFFICES ASSUME ~s.missed
                   PROVE  /\ 3 * Len(a) = n + 3 /\ 3 * Len(a) + 1 = n + 4
                          /\ \A i \in DOMAIN a : a[i] = SubSeq(f, 3 * i - 2, 3 * i)
      OBVIOUS
    <3> DEFINE b == s.answers
    <3>2. /\ f \in Seq(0 .. 255) /\ b \in Seq(Seq(0 .. 255)) /\ r \in Seq(0 .. 255)
          /\ r = SubSeq(f, 3 * Len(b) + 1, 3 * Len(b) + 3)
          /\ \A i \in DOMAIN b : b[i] = SubSeq(f, 3 * i - 2, 3 * i)
      BY <1>2, <1>5, <3>1 DEF n
    <3> HIDE DEF b
    <3>3. LET d == Append(b, r)
          IN  /\ 3 * Len(d) = 3 * Len(b) + 3 /\ 3 * Len(d) + 1 = 3 * Len(b) + 4
              /\ \A i \in DOMAIN d : d[i] = SubSeq(f, 3 * i - 2, 3 * i)
      <4>1. f \in Seq(0 .. 255) /\ b \in Seq(Seq(0 .. 255)) /\ r \in Seq(0 .. 255)
        BY <3>2
      <4>2. LET d == Append(b, r)
            IN  /\ 3 * Len(d) = 3 * Len(b) + 3 /\ 3 * Len(d) + 1 = 3 * Len(b) + 4
                /\ /\ r = SubSeq(f, 3 * Len(b) + 1, 3 * Len(b) + 3)
                   /\ \A i \in DOMAIN b : b[i] = SubSeq(f, 3 * i - 2, 3 * i)
                   => \A i \in DOMAIN d : d[i] = SubSeq(f, 3 * i - 2, 3 * i)
        BY <4>1, OneMore
      <4> QED
        BY <3>2, <4>2
    <3> QED
      BY <3>3 DEF b, n
  <2> HIDE DEF t, a
  <2>3. ~t.missed => /\ t.taken >= 3 * Len(t.answers) /\ t.back = <<>>
                     /\ t.held = SubSeq(f, 3 * Len(t.answers) + 1, t.taken)
    BY <1>2, <2>1, <2>2
  <2>4. ~t.missed => \A i \in DOMAIN t.answers : t.answers[i] = SubSeq(f, 3 * i - 2, 3 * i)
    BY <2>1, <2>2
  <2>5. 2 <= t.taken /\ t.taken <= app[c].put
    BY <1>2, <2>1
  <2>6. Sets(c, t)
    BY <1>6 DEF t
  <2> QED
    BY <1>2, <2>1, <2>3, <2>4, <2>5, <2>6, HttpOK DEF f
<1>7. CASE Sets(c, [v EXCEPT !.missed = TRUE])
  <2> DEFINE t == [v EXCEPT !.missed = TRUE]
  <2>1. t \in SessionRec /\ t.missed /\ t.pc = "request" /\ t.taken = s.taken
    BY <1>1, <1>4, MissFrame
  <2> HIDE DEF t
  <2>2. 2 <= t.taken /\ t.taken <= app[c].put
    BY <1>2, <2>1
  <2>3. Sets(c, t)
    BY <1>7 DEF t
  <2> QED
    BY <1>2, <2>1, <2>2, <2>3, MissedOK DEF f
<1> QED
  BY <1>3, <1>6, <1>7

LEMMA HttpDialOK == ASSUME SessionInv, NEW c \in Conn, HttpDial(c) PROVE SessionInv'
<1> DEFINE s == ses[c]
           f == Script(c)
           d == Append(s.asked, Request(c))
           v == [s EXCEPT !.pc = "httpDial"]
           t == [v EXCEPT !.asked = d]
<1>1. s.pc = "request" /\ Whole(s.held)
  BY DEF HttpDial, HasRequest, Goto
<1>2. /\ s \in SessionRec /\ f \in Seq(0 .. 255) /\ f[1] >= 65
      /\ app[c].put \in Nat /\ s.taken \in Nat /\ s.taken <= app[c].put /\ 2 <= s.taken
      /\ Request(c) \in Seq(0 .. 255)
  BY <1>1, RequestFacts, ZenonT(60)
<1>3. LET n == 3 * Len(s.answers)
      IN  /\ ~s.missed =>
               \/ s.taken = 2 /\ s.back = SubSeq(f, 1, 2) /\ s.held = <<>> /\ s.answers = <<>>
               \/ s.taken >= n /\ s.back = <<>> /\ s.held = SubSeq(f, n + 1, s.taken)
          /\ ~s.missed =>
               \A i \in DOMAIN s.answers : s.answers[i] = SubSeq(f, 3 * i - 2, 3 * i)
  BY <1>1, HttpHere
<1>4. Sets(c, t)
  <2>1. t = [s EXCEPT !.pc = "httpDial", !.asked = Append(@, Request(c))]
    BY <1>2 DEF SessionRec
  <2> QED
    BY <2>1 DEF HttpDial, Goto
<1>5. v \in SessionRec
  <2>1. "httpDial" \in Phase
    BY DEF Phase
  <2> QED
    BY <1>2, <2>1, PcFrame
<1>6. v.pc = "httpDial" /\ /\ v.want = s.want /\ v.cmd = s.cmd /\ v.addr = s.addr /\ v.taken = s.taken
      /\ v.back = s.back /\ v.held = s.held /\ v.open = s.open /\ v.draining = s.draining
      /\ v.stream = s.stream /\ v.asked = s.asked /\ v.answers = s.answers /\ v.up = s.up
      /\ v.missed = s.missed
  BY <1>2 DEF SessionRec
<1>7. d \in Seq(Seq(0 .. 255))
  BY <1>2 DEF SessionRec
<1> HIDE DEF v, d
<1>8. t \in SessionRec
  BY <1>5, <1>7, ZenonT(60) DEF SessionRec
<1>9. /\ t.pc = "httpDial" /\ t.taken = s.taken /\ t.back = s.back /\ t.held = s.held
      /\ t.answers = s.answers /\ t.missed = s.missed
  BY <1>5, <1>6 DEF SessionRec
<1> HIDE DEF s, f, t
<1>10. Whole(t.held) /\ 2 <= t.taken /\ t.taken <= app[c].put
  BY <1>1, <1>2, <1>9
<1> QED
  BY <1>2, <1>3, <1>4, <1>8, <1>9, <1>10, HttpOK DEF f

LEMMA HttpDialFailsOK == ASSUME SessionInv, NEW c \in Conn, HttpDialFails(c) PROVE SessionInv'
<1> DEFINE s == ses[c]
           f == Script(c)
           u == [s EXCEPT !.pc = "request"]
           v == [u EXCEPT !.held = Rest(c)]
           t == [v EXCEPT !.missed = TRUE]
<1>1. s.pc = "httpDial" /\ Whole(s.held)
  BY HttpHere DEF HttpDialFails, Goto
<1>2. /\ s \in SessionRec /\ f[1] >= 65
      /\ app[c].put \in Nat /\ s.taken \in Nat /\ s.taken <= app[c].put /\ 2 <= s.taken
      /\ Rest(c) \in Seq(0 .. 255)
  BY <1>1, RequestFacts, ZenonT(60)
<1>3. Sets(c, t)
  <2>1. t = [s EXCEPT !.pc = "request", !.held = Rest(c), !.missed = TRUE]
    BY <1>2 DEF SessionRec
  <2> QED
    BY <2>1 DEF HttpDialFails, Goto
<1>4. u \in SessionRec /\ u.pc = "request" /\ u.taken = s.taken
  <2>1. "request" \in Phase
    BY DEF Phase
  <2>2. u \in SessionRec
    BY <1>2, <2>1, PcFrame
  <2> QED
    BY <1>2, <2>2 DEF SessionRec
<1> HIDE DEF u
<1>5. v \in SessionRec /\ v.pc = u.pc /\ v.taken = u.taken
  BY <1>2, <1>4, HeldFrame
<1> HIDE DEF v
<1>6. t \in SessionRec /\ t.missed /\ t.pc = v.pc /\ t.taken = v.taken
  BY <1>5, MissFrame
<1> HIDE DEF t, s
<1>7. t.pc = "request" /\ 2 <= t.taken /\ t.taken <= app[c].put
  BY <1>2, <1>4, <1>5, <1>6
<1> QED
  BY <1>2, <1>3, <1>6, <1>7, MissedOK

LEMMA HttpDialledOK == ASSUME SessionInv, NEW c \in Conn, HttpDialled(c) PROVE SessionInv'
<1> DEFINE s == ses[c]
           f == Script(c)
           r == Request(c)
           n == 3 * Len(s.answers)
           o == [s EXCEPT !.stream = "open"]
           piped == [o EXCEPT !.pc = "pipe", !.held = <<>>]
<1>1. s.pc = "httpDial" /\ Whole(s.held)
  BY HttpHere DEF HttpDialled
<1>2. /\ s \in SessionRec /\ f \in Seq(0 .. 255) /\ f[1] >= 65 /\ n \in Nat
      /\ app[c].put \in Nat /\ s.taken \in Nat /\ s.taken <= app[c].put /\ 2 <= s.taken
      /\ r \in Seq(0 .. 255) /\ Rest(c) \in Seq(0 .. 255)
      /\ ~s.missed =>
           /\ s.back = <<>> /\ s.taken >= n + 3
           /\ r = SubSeq(f, n + 1, n + 3) /\ Rest(c) = SubSeq(f, n + 4, s.taken)
           /\ \A i \in DOMAIN s.answers : s.answers[i] = SubSeq(f, 3 * i - 2, 3 * i)
  BY <1>1, RequestFacts
<1>3. \/ Sets(c, [o EXCEPT !.pc = "request", !.held = Rest(c), !.missed = TRUE])
      \/ Sets(c, Tell(piped, r))
      \/ Sets(c, [piped EXCEPT !.up = r])
  BY DEF HttpDialled
<1>4. o \in SessionRec
  BY <1>2, ZenonT(60) DEF SessionRec
<1>5. o.taken = s.taken /\ o.answers = s.answers /\ o.missed = s.missed
  BY <1>2 DEF SessionRec
<1>6. s.answers \in Seq(Seq(0 .. 255))
  BY <1>2 DEF SessionRec
<1> HIDE DEF o
<1>7. piped \in SessionRec /\ piped.pc = "pipe" /\ piped.taken = s.taken
      /\ piped.answers = s.answers /\ piped.missed = s.missed
  <2> DEFINE v == [o EXCEPT !.pc = "pipe"]
             w == [v EXCEPT !.held = <<>>]
  <2>1. piped = w
    BY <1>4 DEF SessionRec
  <2>2. "pipe" \in Phase /\ <<>> \in Seq(0 .. 255)
    BY DEF Phase
  <2>3. v \in SessionRec
    BY <1>4, <2>2, PcFrame
  <2>4. v.pc = "pipe" /\ v.taken = o.taken /\ v.answers = o.answers /\ v.missed = o.missed
    BY <1>4 DEF SessionRec
  <2> HIDE DEF v
  <2>5. w \in SessionRec /\ w.pc = v.pc /\ w.taken = v.taken /\ w.answers = v.answers
        /\ w.missed = v.missed
    BY <2>2, <2>3, HeldFrame, ZenonT(60)
  <2> HIDE DEF w, piped
  <2> QED
    BY <1>5, <2>1, <2>4, <2>5
<1> HIDE DEF s, f, r, n, piped
<1>8. CASE Sets(c, [o EXCEPT !.pc = "request", !.held = Rest(c), !.missed = TRUE])
  <2> DEFINE u == [o EXCEPT !.pc = "request"]
             v == [u EXCEPT !.held = Rest(c)]
             t == [v EXCEPT !.missed = TRUE]
  <2>1. Sets(c, t)
    <3>1. t = [o EXCEPT !.pc = "request", !.held = Rest(c), !.missed = TRUE]
      BY <1>4 DEF SessionRec
    <3> QED
      BY <1>8, <3>1
  <2>2. u \in SessionRec /\ u.pc = "request" /\ u.taken = o.taken
    <3>1. "request" \in Phase
      BY DEF Phase
    <3>2. u \in SessionRec
      BY <1>4, <3>1, PcFrame
    <3> QED
      BY <1>4, <3>2 DEF SessionRec
  <2> HIDE DEF u
  <2>3. v \in SessionRec /\ v.pc = u.pc /\ v.taken = u.taken
    BY <1>2, <2>2, HeldFrame
  <2> HIDE DEF v
  <2>4. t \in SessionRec /\ t.missed /\ t.pc = v.pc /\ t.taken = v.taken
    BY <2>3, MissFrame
  <2> HIDE DEF t
  <2>5. t.pc = "request" /\ 2 <= t.taken /\ t.taken <= app[c].put
    BY <1>2, <1>5, <2>2, <2>3, <2>4
  <2> QED
    BY <1>2, <2>1, <2>4, <2>5, MissedOK DEF f
<1>9. CASE Sets(c, Tell(piped, r))
  <2> DEFINE a == Append(s.answers, r)
             t == Tell(piped, r)
  <2>1. t \in SessionRec /\ t.answers = a /\ t.pc = "pipe" /\ t.taken = s.taken
        /\ t.missed = s.missed
    <3>1. r \in Seq(0 .. 255)
      BY <1>2
    <3>2. /\ t \in SessionRec /\ t.answers = Append(piped.answers, r) /\ t.pc = piped.pc
          /\ t.taken = piped.taken /\ t.missed = piped.missed
      BY <1>7, <3>1, TellFrame
    <3> QED
      BY <1>7, <3>2
  <2>2. ~s.missed => \A i \in DOMAIN a : a[i] = SubSeq(f, 3 * i - 2, 3 * i)
    <3>1. SUFFICES ASSUME ~s.missed
                   PROVE  \A i \in DOMAIN a : a[i] = SubSeq(f, 3 * i - 2, 3 * i)
      OBVIOUS
    <3> DEFINE b == s.answers
    <3>2. /\ f \in Seq(0 .. 255) /\ b \in Seq(Seq(0 .. 255)) /\ r \in Seq(0 .. 255)
          /\ r = SubSeq(f, 3 * Len(b) + 1, 3 * Len(b) + 3)
          /\ \A i \in DOMAIN b : b[i] = SubSeq(f, 3 * i - 2, 3 * i)
      BY <1>2, <1>6, <3>1 DEF n
    <3> HIDE DEF b
    <3>3. LET d == Append(b, r)
          IN  /\ 3 * Len(d) = 3 * Len(b) + 3 /\ 3 * Len(d) + 1 = 3 * Len(b) + 4
              /\ \A i \in DOMAIN d : d[i] = SubSeq(f, 3 * i - 2, 3 * i)
      <4>1. f \in Seq(0 .. 255) /\ b \in Seq(Seq(0 .. 255)) /\ r \in Seq(0 .. 255)
        BY <3>2
      <4>2. LET d == Append(b, r)
            IN  /\ 3 * Len(d) = 3 * Len(b) + 3 /\ 3 * Len(d) + 1 = 3 * Len(b) + 4
                /\ /\ r = SubSeq(f, 3 * Len(b) + 1, 3 * Len(b) + 3)
                   /\ \A i \in DOMAIN b : b[i] = SubSeq(f, 3 * i - 2, 3 * i)
                   => \A i \in DOMAIN d : d[i] = SubSeq(f, 3 * i - 2, 3 * i)
        BY <4>1, OneMore
      <4> QED
        BY <3>2, <4>2
    <3> QED
      BY <3>3 DEF b
  <2> HIDE DEF t, a
  <2>3. ~t.missed => \A i \in DOMAIN t.answers : t.answers[i] = SubSeq(f, 3 * i - 2, 3 * i)
    BY <2>1, <2>2
  <2>4. 2 <= t.taken /\ t.taken <= app[c].put
    BY <1>2, <2>1
  <2>5. Sets(c, t)
    BY <1>9 DEF t
  <2> QED
    BY <1>2, <2>1, <2>3, <2>4, <2>5, HttpOK DEF f
<1>10. CASE Sets(c, [piped EXCEPT !.up = r])
  <2> DEFINE t == [piped EXCEPT !.up = r]
  <2>1. t \in SessionRec
    <3>1. r \in Seq(0 .. 255)
      BY <1>2
    <3> QED
      BY <1>7, <3>1, ZenonT(60) DEF SessionRec
  <2>2. t.pc = "pipe" /\ t.taken = s.taken /\ t.answers = s.answers /\ t.missed = s.missed
    BY <1>7 DEF SessionRec
  <2> HIDE DEF t
  <2>3. ~t.missed => \A i \in DOMAIN t.answers : t.answers[i] = SubSeq(f, 3 * i - 2, 3 * i)
    BY <1>2, <2>2
  <2>4. 2 <= t.taken /\ t.taken <= app[c].put
    BY <1>2, <2>2
  <2>5. Sets(c, t)
    BY <1>10 DEF t
  <2> QED
    BY <1>2, <2>1, <2>2, <2>3, <2>4, <2>5, HttpOK DEF f
<1> QED
  BY <1>3, <1>8, <1>9, <1>10

LEMMA PipeOK ==
  ASSUME SessionInv, NEW c \in Conn, PipeUpEnds(c) \/ PipeDownEnds(c) \/ PipeEnds(c)
  PROVE  SessionInv'
<1> DEFINE s == ses[c]
           f == Script(c)
<1>1. /\ s \in SessionRec /\ f[1] >= 65 /\ s.taken <= app[c].put /\ 2 <= s.taken
      /\ ~s.missed =>
           \A i \in DOMAIN s.answers : s.answers[i] = SubSeq(f, 3 * i - 2, 3 * i)
  BY HttpHere DEF PipeUpEnds, PipeDownEnds, PipeEnds, Goto
<1>2. PICK t :
        /\ Sets(c, t) /\ t \in SessionRec /\ t.pc \in {"pipe", "publish"} /\ t.taken = s.taken
        /\ t.answers = s.answers /\ t.missed = s.missed
  <2>1. CASE PipeUpEnds(c)
    <3> DEFINE u == [s EXCEPT !.stream = "closed"]
    <3>1. Sets(c, u) /\ s.pc = "pipe"
      BY <2>1 DEF PipeUpEnds
    <3>2. u \in SessionRec
      BY <1>1, ZenonT(60) DEF SessionRec
    <3>3. u.pc = s.pc /\ u.taken = s.taken /\ u.answers = s.answers /\ u.missed = s.missed
      BY <1>1 DEF SessionRec
    <3> QED
      BY <3>1, <3>2, <3>3
  <2>2. CASE PipeDownEnds(c)
    <3> DEFINE u == [s EXCEPT !.open = FALSE]
    <3>1. Sets(c, u) /\ s.pc = "pipe"
      BY <2>2 DEF PipeDownEnds
    <3>2. u \in SessionRec
      BY <1>1, ZenonT(60) DEF SessionRec
    <3>3. u.pc = s.pc /\ u.taken = s.taken /\ u.answers = s.answers /\ u.missed = s.missed
      BY <1>1 DEF SessionRec
    <3> QED
      BY <3>1, <3>2, <3>3
  <2>3. CASE PipeEnds(c)
    <3> DEFINE u == [s EXCEPT !.pc = "publish"]
    <3>1. Sets(c, u)
      BY <2>3 DEF PipeEnds, Goto
    <3>2. "publish" \in Phase
      BY DEF Phase
    <3>3. u \in SessionRec
      BY <1>1, <3>2, PcFrame
    <3>4. u.pc = "publish" /\ u.taken = s.taken /\ u.answers = s.answers /\ u.missed = s.missed
      BY <1>1 DEF SessionRec
    <3> QED
      BY <3>1, <3>3, <3>4
  <2> QED
    BY <2>1, <2>2, <2>3
<1> HIDE DEF s, f
<1>3. 2 <= t.taken /\ t.taken <= app[c].put
  BY <1>1, <1>2
<1>4. ~t.missed => \A i \in DOMAIN t.answers : t.answers[i] = SubSeq(f, 3 * i - 2, 3 * i)
  BY <1>1, <1>2
<1>5. t.pc \in {"request", "httpDial", "pipe", "publish", "done"} /\ t.pc \notin {"request", "httpDial"}
  BY <1>2
<1> QED
  BY <1>1, <1>2, <1>3, <1>4, <1>5, HttpOK DEF f

LEMMA PublishOK == ASSUME SessionInv, NEW c \in Conn, Publish(c) PROVE SessionInv'
<1> DEFINE s == ses[c]
           f == Script(c)
           t == [s EXCEPT !.pc = "done"]
<1>1. s.pc = "publish" /\ ses' = [ses EXCEPT ![c] = t] /\ app' = app
  BY DEF Publish
<1>2. /\ s \in SessionRec /\ f[1] >= 65 /\ s.taken <= app[c].put /\ s.taken \in Nat /\ 2 <= s.taken
      /\ ~s.missed =>
           \A i \in DOMAIN s.answers : s.answers[i] = SubSeq(f, 3 * i - 2, 3 * i)
  BY <1>1, HttpHere
<1>3. t \in SessionRec
  <2>1. "done" \in Phase
    BY DEF Phase
  <2> QED
    BY <1>2, <2>1, PcFrame
<1>4. t.pc = "done" /\ /\ t.want = s.want /\ t.cmd = s.cmd /\ t.addr = s.addr /\ t.taken = s.taken
      /\ t.back = s.back /\ t.held = s.held /\ t.open = s.open /\ t.draining = s.draining
      /\ t.stream = s.stream /\ t.asked = s.asked /\ t.answers = s.answers /\ t.up = s.up
      /\ t.missed = s.missed
  BY <1>2 DEF SessionRec
<1>5. events' \in 0 .. EventCap
  <2>1. events \in 0 .. EventCap /\ EventCap \in Nat
    BY SessionAssumption DEF SessionInv, SessionTypeOK
  <2> QED
    BY <2>1 DEF Publish
<1> HIDE DEF t
<1>6. ses'[c] = t /\ app'[c] = app[c] /\ Script(c)' = f
  BY <1>1 DEF SessionInv, SessionTypeOK, Script
<1>7. SessionFits(c)
  BY InvByParts
<1> HIDE DEF s, f
<1>8. Position(c)'
  BY <1>2, <1>4, <1>6, <1>7 DEF Position, SessionFits, s, f
<1>9. HandshakeAt(c)'
  BY <1>4, <1>6 DEF HandshakeAt, Reading
<1>10. HttpAt(c)'
  <2>1. t.taken >= 2
    BY <1>2, <1>4
  <2> QED
    BY <1>2, <1>4, <1>6, <2>1 DEF HttpAt
<1>11. f[1] # 5
  BY <1>2
<1>12. SessionFits(c)'
  BY <1>2, <1>4, <1>6, <1>8, <1>9, <1>10, <1>11 DEF SessionFits
<1> QED
  BY <1>1, <1>3, <1>5, <1>12, OneSessionMoves

\* What an app does leaves every session where it is.
LEMMA AppStep ==
  ASSUME SessionInv, ses' = ses, events' = events,
         app' \in [Conn -> [script: Scripts, put: Nat, fin: BOOLEAN]],
         \A e \in Conn : Script(e)' = Script(e) /\ Position(e)'
  PROVE  SessionInv'
<1>1. SessionTypeOK'
  BY DEF SessionInv, SessionTypeOK
<1>2. ASSUME NEW e \in Conn
      PROVE  SessionFits(e)'
  <2>1. ses'[e] = ses[e] /\ Script(e)' = Script(e) /\ Position(e)' /\ SessionFits(e)
    BY InvByParts
  <2>2. HandshakeAt(e)'
    BY <2>1 DEF SessionFits, HandshakeAt
  <2>3. HttpAt(e)'
    BY <2>1 DEF SessionFits, HttpAt
  <2>4. AnswerFits(e) => AnswerFits(e)'
    BY <2>1 DEF AnswerFits
  <2> QED
    BY <2>1, <2>2, <2>3, <2>4 DEF SessionFits
<1>3. (SessionInv <=> SessionTypeOK /\ \A e \in Conn : SessionFits(e))'
  BY DEF SessionInv, SessionFits, SocksAnswersFit, HttpAnswersInOrder
<1> QED
  BY <1>1, <1>2, <1>3

LEMMA AppOK == ASSUME SessionInv, NEW c \in Conn, AppSends(c) \/ AppCloses(c) PROVE SessionInv'
<1> DEFINE AppRec == [script: Scripts, put: Nat, fin: BOOLEAN]
<1>1. app \in [Conn -> AppRec] /\ ses' = ses /\ events' = events
  BY DEF SessionInv, SessionTypeOK, AppSends, AppCloses
<1>2. \A e \in Conn : Position(e) /\ Script(e) \in Seq(0 .. 255) /\ ses[e].taken \in Nat
  <2>1. ASSUME NEW e \in Conn
        PROVE  Position(e) /\ Script(e) \in Seq(0 .. 255) /\ ses[e].taken \in Nat
    <3>1. SessionTypeOK /\ SessionFits(e)
      BY InvByParts
    <3>2. ses[e] \in SessionRec /\ Script(e) \in Seq(0 .. 255)
      BY <3>1, ConnType
    <3> QED
      BY <3>1, <3>2 DEF SessionFits, SessionRec
  <2> QED
    BY <2>1
<1>3. CASE AppSends(c)
  <2>1. PICK n \in app[c].put + 1 .. Len(app[c].script) : app' = [app EXCEPT ![c].put = n]
    BY <1>3 DEF AppSends
  <2>2. app[c] \in AppRec
    BY <1>1
  <2> DEFINE r == [app[c] EXCEPT !.put = n]
  <2>3. n \in Nat /\ n >= app[c].put /\ n <= Len(app[c].script) /\ app[c].put \in Nat
    <3>1. app[c].put \in Nat /\ Len(app[c].script) \in Nat
      BY <1>2, <2>2 DEF Script
    <3> QED
      BY <3>1
  <2>4. r \in AppRec /\ r.put = n /\ r.script = app[c].script
    BY <2>2, <2>3
  <2>5. app' = [app EXCEPT ![c] = r]
    BY <2>1
  <2> HIDE DEF r
  <2>6. app' \in [Conn -> AppRec]
    BY <1>1, <2>4, <2>5
  <2>7. ASSUME NEW e \in Conn
        PROVE  Script(e)' = Script(e) /\ Position(e)'
    <3>1. CASE e = c
      <4>1. app'[e] = r
        BY <1>1, <2>5, <3>1
      <4>2. Script(e)' = Script(e)
        BY <2>4, <3>1, <4>1 DEF Script
      <4>3. ses[e].taken <= n /\ n <= Len(Script(e))
        <5>1. ses[e].taken <= app[c].put /\ ses[e].taken \in Nat
          BY <1>2, <3>1 DEF Position
        <5> QED
          BY <2>3, <3>1, <5>1 DEF Script
      <4> QED
        BY <1>1, <2>4, <4>1, <4>2, <4>3 DEF Position
    <3>2. CASE e # c
      <4>1. app'[e] = app[e]
        BY <1>1, <2>5, <3>2
      <4> QED
        BY <1>1, <1>2, <4>1 DEF Position, Script
    <3> QED
      BY <3>1, <3>2
  <2> QED
    BY <1>1, <2>6, <2>7, AppStep
<1>4. CASE AppCloses(c)
  <2>1. app' = [app EXCEPT ![c].fin = TRUE]
    BY <1>4 DEF AppCloses
  <2>2. app' \in [Conn -> AppRec]
    BY <1>1, <2>1
  <2>3. ASSUME NEW e \in Conn
        PROVE  Script(e)' = Script(e) /\ Position(e)'
    <3>1. app'[e].put = app[e].put /\ app'[e].script = app[e].script
      BY <1>1, <2>1
    <3> QED
      BY <1>1, <1>2, <3>1 DEF Position, Script
  <2> QED
    BY <1>1, <2>2, <2>3, AppStep
<1> QED
  BY <1>3, <1>4

LEMMA SessionInit == Init => SessionInv
<1> SUFFICES ASSUME Init PROVE SessionInv
  OBVIOUS
<1>1. Accepted \in SessionRec
  BY DEF Accepted, SessionRec, Phase, Reading
<1>2. SessionTypeOK
  <2>1. app \in [Conn -> [script: Scripts, put: Nat, fin: BOOLEAN]]
    <3>1. \A r \in [script: Scripts, put: {0}, fin: {FALSE}] :
            r \in [script: Scripts, put: Nat, fin: BOOLEAN]
      <4>1. {0} \subseteq Nat /\ {FALSE} \subseteq BOOLEAN
        OBVIOUS
      <4>2. \A P, F : P \subseteq Nat /\ F \subseteq BOOLEAN =>
              \A r \in [script: Scripts, put: P, fin: F] :
                r \in [script: Scripts, put: Nat, fin: BOOLEAN]
        BY Zenon
      <4> QED
        BY <4>1, <4>2, Zenon
    <3>2. app \in [Conn -> [script: Scripts, put: {0}, fin: {FALSE}]]
      BY DEF Init
    <3> QED
      BY <3>1, <3>2
  <2>2. ses \in [Conn -> SessionRec]
    BY <1>1 DEF Init
  <2> QED
    BY <2>1, <2>2 DEF Init, SessionTypeOK
<1>3. ASSUME NEW c \in Conn
      PROVE  SessionFits(c)
  <2>1. ses[c] = Accepted /\ app[c].put = 0 /\ Script(c) \in Seq(0 .. 255)
    BY <1>2, ConnType DEF Init
  <2>2. Len(Script(c)) \in Nat
    BY <2>1
  <2>3. /\ Accepted.pc = "version" /\ Accepted.taken = 0 /\ Accepted.want = 2
        /\ Accepted.held = <<>> /\ Accepted.asked = <<>> /\ Accepted.answers = <<>>
        /\ Accepted.stream = "none" /\ Accepted.up = <<>> /\ ~Accepted.draining
    BY DEF Accepted
  <2> HIDE DEF Accepted
  <2>4. Position(c)
    BY <2>1, <2>2, <2>3 DEF Position
  <2>5. HandshakeAt(c)
    BY <2>1, <2>3 DEF HandshakeAt, Reading
  <2>6. HttpAt(c)
    BY <2>1, <2>3 DEF HttpAt
  <2>7. DOMAIN Accepted.answers = {}
    BY <2>3
  <2> QED
    BY <2>1, <2>3, <2>4, <2>5, <2>6, <2>7 DEF SessionFits
<1> QED
  BY <1>2, <1>3, InvByParts

LEMMA SessionStutter == ASSUME SessionInv, UNCHANGED <<app, ses, events>> PROVE SessionInv'
<1>1. app' \in [Conn -> [script: Scripts, put: Nat, fin: BOOLEAN]]
  BY DEF SessionInv, SessionTypeOK
<1>2. \A e \in Conn : Script(e)' = Script(e) /\ Position(e)'
  BY DEF SessionInv, Script, Position
<1> QED
  BY <1>1, <1>2, AppStep

LEMMA SessionNextOK == ASSUME SessionInv, SessionNext PROVE SessionInv'
<1>1. PICK c \in Conn :
        Environment(c) \/ Handshake(c) \/ HttpLoop(c) \/ UpCopy(c) \/ DownCopy(c) \/ Acceptor(c)
  BY DEF SessionNext
<1>2. CASE UpWrite(c) \/ RemoteEnds(c) \/ UpEnds(c) \/ DownEnds(c)
  <2>1. UNCHANGED <<app, ses, events>>
    BY <1>2 DEF UpWrite, RemoteEnds, UpEnds, DownEnds, Only
  <2> QED
    BY <2>1, SessionStutter
<1>3. CASE Handshake(c)
  BY <1>3, ReadShortOK, ReadVersionOK, ReadMethodsOK, ReadCommandOK, ReadLengthOK, ReadAddressOK,
     ReadPortOK, DialOK DEF Handshake
<1>4. CASE HttpLoop(c)
  BY <1>4, FillOK, NoRequestOK, AnswerLocallyOK, HttpDialOK, HttpDialFailsOK, HttpDialledOK
     DEF HttpLoop
<1>5. CASE Environment(c)
  BY <1>2, <1>5, AppOK DEF Environment
<1>6. CASE UpCopy(c)
  BY <1>2, <1>6, RelayUpOK, PipeOK, PublishOK DEF UpCopy
<1>7. CASE DownCopy(c)
  BY <1>2, <1>7, PipeOK DEF DownCopy
<1>8. CASE Acceptor(c)
  BY <1>8, DrainOK, DrainEndsOK, RelayEndsOK DEF Acceptor
<1> QED
  BY <1>1, <1>3, <1>4, <1>5, <1>6, <1>7, <1>8

LEMMA SessionInductive == Socks5Spec => []SessionInv
<1>1. Socks5Init => SessionInv
  BY SessionInit DEF Socks5Init
<1>2. SessionInv /\ [Socks5Next]_vars => SessionInv'
  BY SessionNextOK, SessionStutter DEF Socks5Next, vars, sessionVars
<1> QED
  BY <1>1, <1>2, PTL DEF Socks5Spec

-----------------------------------------------------------------------------
\* What Pipe has closed.  The other connections do not notice a step of one, and
\* a connection that is neither in Pipe nor behind it has nothing to keep.
LEMMA CopiesMove ==
  ASSUME CopiesInv, NEW c \in Conn,
         \A e \in Conn \ {c} : ses'[e] = ses[e],
         NEW k \in CopyRec, copies' = [copies EXCEPT ![c] = k],
         ses'[c].pc \in {"pipe", "publish"} =>
           (k.up = "closed" => ses'[c].stream = "closed") /\ (k.down = "closed" => ~ses'[c].open),
         ses'[c].pc = "publish" => k.up = "closed" /\ k.down = "closed"
  PROVE  CopiesInv'
<1>1. copies' \in [Conn -> CopyRec] /\ copies'[c] = k
      /\ \A e \in Conn \ {c} : copies'[e] = copies[e]
  BY DEF CopiesInv
<1>2. ASSUME NEW e \in Conn PROVE CopiesFit(e)'
  <2>1. CASE e = c
    BY <1>1, <2>1 DEF CopiesFit
  <2>2. CASE e # c
    <3>1. ses'[e] = ses[e] /\ copies'[e] = copies[e] /\ CopiesFit(e)
      BY <1>1, <2>2 DEF CopiesInv
    <3> QED
      BY <3>1 DEF CopiesFit
  <2> QED
    BY <2>1, <2>2
<1> QED
  BY <1>1, <1>2 DEF CopiesInv

LEMMA CopiesElsewhere ==
  ASSUME CopiesInv, NEW c \in Conn, \A e \in Conn \ {c} : ses'[e] = ses[e],
         ses'[c].pc \notin {"pipe", "publish"}, copies' = copies
  PROVE  CopiesInv'
<1>1. copies[c] \in CopyRec /\ copies' = [copies EXCEPT ![c] = copies[c]]
  BY DEF CopiesInv
<1> QED
  BY <1>1, CopiesMove

\* The copies a relay and Pipe start with.
LEMMA StartedFields ==
  ASSUME NEW up \in {"read", "write"}
  PROVE  /\ Started(up) \in CopyRec /\ Started(up).up = up /\ Started(up).down = "copy"
  BY DEF Started, CopyRec

LEMMA HandshakeCopies ==
  ASSUME SessionInv, CopiesInv, NEW c \in Conn, Handshake(c)
  PROVE  CopiesInv'
<1> DEFINE s == ses[c]
           Stays == copies' = copies /\ \A e \in Conn \ {c} : ses'[e] = ses[e]
<1>1. s \in SessionRec /\ ses \in [Conn -> SessionRec]
  BY ConnType DEF SessionInv, SessionTypeOK
<1>2. ASSUME Stays, ses'[c].pc \notin {"pipe", "publish"} PROVE CopiesInv'
  BY <1>2, CopiesElsewhere
<1>3. CASE ReadShort(c)
  <2>1. Stays /\ ses'[c].pc = "done"
    BY <1>1, <1>3, CloseFrame DEF Goto, Sets, ReadShort, SessionRec
  <2> QED
    BY <1>2, <2>1
<1>4. CASE ReadVersion(c)
  <2>1. Stays /\ ses'[c].pc \in {"methods", "request", "done"}
    BY <1>1, <1>4 DEF Goto, Sets, ReadVersion, Next, Behind, Close, SessionRec
  <2> QED
    BY <1>2, <2>1
<1>5. CASE ReadMethods(c)
  <2>1. Stays /\ ses'[c].pc \in {"command", "done"}
    BY <1>1, <1>5 DEF Goto, Sets, ReadMethods, Next, Behind, Close, Tell, SessionRec
  <2> QED
    BY <1>2, <2>1
<1>6. CASE ReadCommand(c)
  <2>1. Stays /\ ses'[c].pc \in {"address", "length", "done"}
    BY <1>1, <1>6 DEF Goto, Sets, ReadCommand, Next, Behind, Close, SessionRec
  <2> QED
    BY <1>2, <2>1
<1>7. CASE ReadLength(c) \/ ReadAddress(c)
  <2>1. CASE ReadLength(c)
    <3> DEFINE w == Bytes(c)[1]
               t == Next(c, "address", w)
    <3>1. Goto(c, t)
      BY <2>1 DEF ReadLength
    <3> HIDE DEF w
    <3>2. t.pc = "address"
      BY <1>1 DEF Next, Behind, SessionRec
    <3> HIDE DEF t
    <3>3. Stays /\ ses'[c].pc = "address"
      BY <1>1, <3>1, <3>2 DEF Goto, Sets
    <3> QED
      BY <1>2, <3>3
  <2>2. CASE ReadAddress(c)
    <3>1. Stays /\ ses'[c].pc = "port"
      BY <1>1, <2>2 DEF Goto, Sets, ReadAddress, Next, Behind, SessionRec
    <3> QED
      BY <1>2, <3>1
  <2> QED
    BY <1>7, <2>1, <2>2
<1>8. CASE ReadPort(c)
  <2>1. Stays /\ ses'[c].pc \in {"dial", "assoc", "done"}
    BY <1>1, <1>8 DEF Goto, Sets, ReadPort, Behind, Close, Tell, SessionRec
  <2> QED
    BY <1>2, <2>1
<1>9. CASE Dial(c)
  <2>1. ses'[c].pc \in {"relay", "done"} /\ \A e \in Conn \ {c} : ses'[e] = ses[e]
    BY <1>1, <1>9 DEF Sets, Dial, Close, Tell, SessionRec
  <2>2. copies' = [copies EXCEPT ![c] = Started("read")]
    BY <1>9 DEF Dial, Copies
  <2> QED
    BY <2>1, <2>2, StartedFields, CopiesMove
<1> QED
  BY <1>3, <1>4, <1>5, <1>6, <1>7, <1>8, <1>9 DEF Handshake

LEMMA HttpCopies ==
  ASSUME SessionInv, CopiesInv, NEW c \in Conn, HttpLoop(c)
  PROVE  CopiesInv'
<1> DEFINE s == ses[c]
           Stays == copies' = copies /\ \A e \in Conn \ {c} : ses'[e] = ses[e]
<1>1. s \in SessionRec /\ ses \in [Conn -> SessionRec]
  BY ConnType DEF SessionInv, SessionTypeOK
<1>2. ASSUME Stays, ses'[c].pc \notin {"pipe", "publish"} PROVE CopiesInv'
  BY <1>2, CopiesElsewhere
<1>3. CASE Fill(c)
  <2>1. CASE s.back # <<>>
    <3> DEFINE h == s.held \o s.back
               t == [s EXCEPT !.held = h, !.back = <<>>]
    <3>1. Goto(c, t) /\ s.pc = "request"
      BY <1>3, <2>1 DEF Fill
    <3> HIDE DEF h
    <3>2. t.pc = s.pc
      BY <1>1 DEF SessionRec
    <3> HIDE DEF t
    <3>3. Stays /\ ses'[c].pc = "request"
      BY <1>1, <3>1, <3>2 DEF Goto, Sets
    <3> QED
      BY <1>2, <3>3
  <2>2. CASE s.back = <<>>
    <3> DEFINE h == s.held \o Incoming(c, Arrived(c))
               t == [s EXCEPT !.held = h, !.taken = app[c].put]
    <3>1. Goto(c, t) /\ s.pc = "request"
      BY <1>3, <2>2 DEF Fill
    <3> HIDE DEF h
    <3>2. t.pc = s.pc
      BY <1>1 DEF SessionRec
    <3> HIDE DEF t
    <3>3. Stays /\ ses'[c].pc = "request"
      BY <1>1, <3>1, <3>2 DEF Goto, Sets
    <3> QED
      BY <1>2, <3>3
  <2> QED
    BY <2>1, <2>2
<1>4. CASE NoRequest(c)
  <2>1. Stays /\ ses'[c].pc = "done"
    BY <1>1, <1>4, CloseFrame DEF Goto, Sets, NoRequest
  <2> QED
    BY <1>2, <2>1
<1>5. CASE AnswerLocally(c)
  <2>1. Stays /\ ses'[c].pc = "request"
    BY <1>1, <1>5 DEF Goto, Sets, AnswerLocally, HasRequest, Tell, SessionRec
  <2> QED
    BY <1>2, <2>1
<1>6. CASE HttpDial(c)
  <2>1. Stays /\ ses'[c].pc = "httpDial"
    BY <1>1, <1>6 DEF Goto, Sets, HttpDial, SessionRec
  <2> QED
    BY <1>2, <2>1
<1>7. CASE HttpDialFails(c)
  <2>1. Stays /\ ses'[c].pc = "request"
    BY <1>1, <1>7 DEF Goto, Sets, HttpDialFails, SessionRec
  <2> QED
    BY <1>2, <2>1
<1>8. CASE HttpDialled(c)
  <2>1. \A e \in Conn \ {c} : ses'[e] = ses[e]
    BY <1>8 DEF Sets, HttpDialled
  <2>2. PICK up \in {"read", "write"} : copies' = [copies EXCEPT ![c] = Started(up)]
    BY <1>8 DEF HttpDialled, Copies
  <2>3. ses'[c].pc # "publish"
    BY <1>1, <1>8 DEF Sets, HttpDialled, Tell, SessionRec
  <2> QED
    BY <2>1, <2>2, <2>3, StartedFields, CopiesMove
<1> QED
  BY <1>3, <1>4, <1>5, <1>6, <1>7, <1>8 DEF HttpLoop

\* The steps of the copies and of Pipe, of the server and of the acceptor.
LEMMA RelayCopies ==
  ASSUME SessionInv, CopiesInv, NEW c \in Conn, UpCopy(c) \/ DownCopy(c) \/ UpWrite(c) \/ RemoteEnds(c)
  PROVE  CopiesInv'
<1> DEFINE s == ses[c]
           k == copies[c]
           Others == \A e \in Conn \ {c} : ses'[e] = ses[e]
<1>1. s \in SessionRec /\ k \in CopyRec /\ CopiesFit(c) /\ ses \in [Conn -> SessionRec]
  BY ConnType DEF SessionInv, SessionTypeOK, CopiesInv
<1>2. ses \in [Conn -> SessionRec]
  BY DEF SessionInv, SessionTypeOK
<1>3. CASE RelayUp(c)
  <2> DEFINE l == [k EXCEPT !.up = "write"]
  <2> PICK n \in 1 .. Arrived(c) : Sets(c, [s EXCEPT !.taken = @ + n, !.up = @ \o Incoming(c, n)])
    BY <1>3 DEF RelayUp
  <2>1. Others /\ ses'[c].pc = s.pc /\ ses'[c].open = s.open /\ ses'[c].stream = s.stream
    BY <1>1 DEF Sets, SessionRec
  <2>2. l \in CopyRec /\ l.up = "write" /\ l.down = k.down /\ s.pc # "publish"
    BY <1>1, <1>3 DEF CopyRec, RelayUp, Copying
  <2>3. copies' = [copies EXCEPT ![c] = l]
    BY <1>3 DEF RelayUp, Copies
  <2> HIDE DEF l
  <2> QED
    BY <1>1, <2>1, <2>2, <2>3, CopiesMove DEF CopiesFit
<1>4. CASE UpWrite(c) \/ UpEnds(c) \/ RemoteEnds(c) \/ DownEnds(c)
  <2>1. ses' = ses /\ s.pc # "publish"
    BY <1>4 DEF UpWrite, UpEnds, RemoteEnds, DownEnds, Only, Copying
  <2>2. ASSUME NEW l \in CopyRec, copies' = [copies EXCEPT ![c] = l],
               l.up = "closed" => k.up = "closed", l.down = "closed" => k.down = "closed"
        PROVE  CopiesInv'
    BY <1>1, <2>1, <2>2, CopiesMove DEF CopiesFit
  <2>3. CASE UpWrite(c)
    <3> DEFINE l == [k EXCEPT !.up = "read"]
    <3>1. l \in CopyRec /\ l.up = "read" /\ l.down = k.down
      BY <1>1 DEF CopyRec
    <3>2. copies' = [copies EXCEPT ![c] = l]
      BY <2>3 DEF UpWrite, Only, Copies
    <3> HIDE DEF l
    <3> QED
      BY <2>2, <3>1, <3>2
  <2>4. CASE UpEnds(c)
    <3> DEFINE l == [k EXCEPT !.up = "ended"]
    <3>1. l \in CopyRec /\ l.up = "ended" /\ l.down = k.down
      BY <1>1 DEF CopyRec
    <3>2. copies' = [copies EXCEPT ![c] = l]
      BY <2>4 DEF UpEnds, Only, Copies
    <3> HIDE DEF l
    <3> QED
      BY <2>2, <3>1, <3>2
  <2>5. CASE RemoteEnds(c)
    <3> DEFINE l == [k EXCEPT !.over = TRUE]
    <3>1. l \in CopyRec /\ l.up = k.up /\ l.down = k.down
      BY <1>1 DEF CopyRec
    <3>2. copies' = [copies EXCEPT ![c] = l]
      BY <2>5 DEF RemoteEnds, Only, Copies
    <3> HIDE DEF l
    <3> QED
      BY <2>2, <3>1, <3>2
  <2>6. CASE DownEnds(c)
    <3> DEFINE l == [k EXCEPT !.down = "ended"]
    <3>1. l \in CopyRec /\ l.up = k.up /\ l.down = "ended"
      BY <1>1 DEF CopyRec
    <3>2. copies' = [copies EXCEPT ![c] = l]
      BY <2>6 DEF DownEnds, Only, Copies
    <3> HIDE DEF l
    <3> QED
      BY <2>2, <3>1, <3>2
  <2> QED
    BY <1>4, <2>3, <2>4, <2>5, <2>6
<1>5. CASE PipeUpEnds(c)
  <2> DEFINE l == [k EXCEPT !.up = "closed"]
  <2>1. Others /\ ses'[c].pc = "pipe" /\ ses'[c].open = s.open /\ ses'[c].stream = "closed"
    BY <1>1, <1>5 DEF Sets, PipeUpEnds, SessionRec
  <2>2. l \in CopyRec /\ l.down = k.down /\ s.pc = "pipe"
    BY <1>1, <1>5 DEF CopyRec, PipeUpEnds
  <2>3. copies' = [copies EXCEPT ![c] = l]
    BY <1>5 DEF PipeUpEnds, Copies
  <2> HIDE DEF l
  <2> QED
    BY <1>1, <2>1, <2>2, <2>3, CopiesMove DEF CopiesFit
<1>6. CASE PipeDownEnds(c)
  <2> DEFINE l == [k EXCEPT !.down = "closed"]
  <2>1. Others /\ ses'[c].pc = "pipe" /\ ~ses'[c].open /\ ses'[c].stream = s.stream
    BY <1>1, <1>6 DEF Sets, PipeDownEnds, SessionRec
  <2>2. l \in CopyRec /\ l.up = k.up /\ s.pc = "pipe"
    BY <1>1, <1>6 DEF CopyRec, PipeDownEnds
  <2>3. copies' = [copies EXCEPT ![c] = l]
    BY <1>6 DEF PipeDownEnds, Copies
  <2> HIDE DEF l
  <2> QED
    BY <1>1, <2>1, <2>2, <2>3, CopiesMove DEF CopiesFit
<1>7. CASE PipeEnds(c)
  <2>1. /\ Others /\ ses'[c].open = s.open /\ ses'[c].stream = s.stream
        /\ s.pc = "pipe" /\ k.up = "closed" /\ k.down = "closed"
    BY <1>1, <1>7 DEF Goto, Sets, PipeEnds, SessionRec
  <2>2. copies' = [copies EXCEPT ![c] = k]
    BY <1>7 DEF PipeEnds, Goto, CopiesInv
  <2> QED
    BY <1>1, <2>1, <2>2, CopiesMove DEF CopiesFit
<1>8. CASE Publish(c)
  <2>1. Others /\ ses'[c].pc = "done"
    BY <1>1, <1>2, <1>8 DEF Publish, SessionRec
  <2> QED
    BY <1>8, <2>1, CopiesElsewhere DEF Publish
<1> QED
  BY <1>3, <1>4, <1>5, <1>6, <1>7, <1>8 DEF UpCopy, DownCopy

LEMMA AcceptorCopies ==
  ASSUME SessionInv, CopiesInv, NEW c \in Conn, Acceptor(c)
  PROVE  CopiesInv'
<1> DEFINE s == ses[c]
           k == copies[c]
           Others == \A e \in Conn \ {c} : ses'[e] = ses[e]
<1>1. s \in SessionRec /\ k \in CopyRec /\ CopiesFit(c) /\ ses \in [Conn -> SessionRec]
  BY ConnType DEF SessionInv, SessionTypeOK, CopiesInv
<1>2. CASE RelayEnds(c)
  <2>1. Others /\ ses'[c].pc = "done" /\ copies' = copies
    BY <1>1, <1>2, CloseFrame DEF Goto, Sets, RelayEnds
  <2> QED
    BY <2>1, CopiesElsewhere
<1>3. CASE Drain(c) \/ DrainEnds(c)
  <2>1. Others /\ ses'[c].pc \in {s.pc, "done"} /\ ses'[c].stream = s.stream /\ copies' = copies
        /\ (ses'[c].open => s.open)
    <3>1. CASE Drain(c)
      <4> PICK n \in 1 .. Arrived(c) : Goto(c, [s EXCEPT !.taken = @ + n, !.missed = TRUE])
        BY <3>1 DEF Drain
      <4> QED
        BY <1>1 DEF Goto, Sets, SessionRec
    <3>2. CASE DrainEnds(c)
      BY <1>1, <3>2 DEF Goto, Sets, DrainEnds, SessionRec
    <3> QED
      BY <1>3, <3>1, <3>2
  <2>2. copies' = [copies EXCEPT ![c] = k]
    BY <2>1 DEF CopiesInv
  <2>3. ses'[c].pc \in {"pipe", "publish"} =>
          (k.up = "closed" => ses'[c].stream = "closed") /\ (k.down = "closed" => ~ses'[c].open)
    BY <1>1, <2>1 DEF CopiesFit
  <2>4. ses'[c].pc = "publish" => k.up = "closed" /\ k.down = "closed"
    BY <1>1, <2>1 DEF CopiesFit
  <2> QED
    BY <1>1, <2>1, <2>2, <2>3, <2>4, CopiesMove
<1> QED
  BY <1>2, <1>3 DEF Acceptor

LEMMA CopiesNextOK == ASSUME SessionInv, CopiesInv, [SessionNext]_sessionVars PROVE CopiesInv'
<1>1. ASSUME NEW c \in Conn, AppSends(c) \/ AppCloses(c) PROVE CopiesInv'
  BY <1>1 DEF AppSends, AppCloses, CopiesInv, CopiesFit
<1>2. CASE UNCHANGED sessionVars
  BY <1>2 DEF sessionVars, CopiesInv, CopiesFit
<1>3. CASE SessionNext
  BY <1>1, <1>3, HandshakeCopies, HttpCopies, RelayCopies, AcceptorCopies
     DEF SessionNext, Environment
<1> QED
  BY <1>2, <1>3

LEMMA CopiesInductive == Socks5Spec => []CopiesInv
<1>1. Socks5Init => CopiesInv
  <2> SUFFICES ASSUME Socks5Init PROVE CopiesInv
    OBVIOUS
  <2>1. Started("read") \in CopyRec
    BY StartedFields
  <2>2. \A c \in Conn : ses[c].pc = "version"
    BY DEF Socks5Init, Init, Accepted
  <2> QED
    BY <2>1, <2>2 DEF Socks5Init, Init, CopiesInv, CopiesFit
<1>2. SessionInv /\ CopiesInv /\ [Socks5Next]_vars => CopiesInv'
  BY CopiesNextOK DEF Socks5Next, vars
<1> QED
  BY <1>1, <1>2, SessionInductive, PTL DEF Socks5Spec

\* Both halves of the proxy keep to their types.
THEOREM Socks5Typed == Socks5Spec => []Socks5TypeOK
<1>1. SessionInv /\ CopiesInv /\ UdpInv => Socks5TypeOK
  BY DEF SessionInv, CopiesInv, UdpInv, Socks5TypeOK, TypeOK
<1> QED
  BY <1>1, SessionInductive, CopiesInductive, UdpInductive, PTL

\* However an app cuts up what it sends, and whatever it sends, the handshake
\* takes its request and not a byte more, and dials what the request names:
\* what CONNECT passes on is the beginning of what follows the request
\* (handshake, socks5.go:132-212).
THEOREM RelayStartsRight == Socks5Spec => []RelayStartsBehindRequest
<1>1. SessionInv => RelayStartsBehindRequest
  <2>1. SUFFICES ASSUME SessionInv, NEW c \in Conn, ses[c].pc = "relay"
                 PROVE  /\ ses[c].asked = <<TargetOf(Script(c))>>
                        /\ ses[c].taken = HeaderLen(Script(c)) + Len(ses[c].up)
                        /\ Prefix(ses[c].up, Payload(Script(c)))
    BY DEF RelayStartsBehindRequest
  <2> DEFINE s == ses[c]
             f == Script(c)
             H == HeaderLen(f)
             u == s.up
             L == Len(f)
  <2>2. /\ s \in SessionRec /\ SessionFits(c) /\ f \in Seq(0 .. 255) /\ app[c].put \in Nat
    BY <2>1, ConnType, InvByParts DEF SessionInv
  <2>3. s.taken \in Nat /\ s.taken <= L /\ L \in Nat /\ u \in Seq(0 .. 255) /\ Len(u) \in Nat
    <3>1. s.taken \in Nat /\ u \in Seq(0 .. 255)
      BY <2>2 DEF SessionRec
    <3>2. s.taken <= app[c].put /\ app[c].put <= L
      BY <2>2 DEF SessionFits, Position
    <3>3. L \in Nat
      BY <2>2
    <3>4. s.taken <= L
      <4> HIDE DEF s, L
      <4> QED
        BY <2>2, <3>1, <3>2, <3>3
    <3> QED
      BY <3>1, <3>3, <3>4
  <2>4. /\ s.asked = <<TargetOf(f)>> /\ s.taken = H + Len(u) /\ WellFormed(f)
        /\ u = SubSeq(f, H + 1, s.taken)
    BY <2>1, <2>2 DEF SessionFits, HandshakeAt
  <2>5. H \in Nat
    BY <2>2, <2>4, WellFormedFacts
  <2> DEFINE k == Len(u)
  <2>6. k \in Nat /\ H + k <= L /\ H <= L /\ s.taken = H + k
    <3>1. s.taken = H + k
      BY <2>4
    <3>2. k \in Nat /\ s.taken <= L
      BY <2>3
    <3> HIDE DEF s, f, H, u, L, k
    <3> QED
      BY <2>3, <2>5, <3>1, <3>2
  <2>7. Payload(f) = SubSeq(f, H + 1, L)
    BY DEF Payload
  <2> HIDE DEF s, f, H, u, L, k
  <2>8. Len(SubSeq(f, H + 1, L)) = L - H
    BY <2>2, <2>3, <2>5, <2>6, Part DEF L
  <2>9. k <= Len(Payload(f))
    BY <2>3, <2>5, <2>6, <2>7, <2>8
  <2>10. u = SubSeq(Payload(f), 1, k)
    <3>1. CASE k = 0
      <4>1. u = <<>>
        BY <2>3, <3>1 DEF k
      <4>2. SubSeq(Payload(f), 1, 0) = <<>>
        BY SubSeqEmpty
      <4> QED
        BY <3>1, <4>1, <4>2
    <3>2. CASE k > 0
      <4> DEFINE i == H + 1
      <4>1. /\ i \in 1 .. Len(f) /\ L \in 1 .. Len(f) /\ 1 \in 1 .. L - i + 1 /\ k \in 1 .. L - i + 1
            /\ i + 1 - 1 = H + 1 /\ i + k - 1 = H + k
        BY <2>3, <2>5, <2>6, <3>2 DEF L
      <4> HIDE DEF i
      <4>2. SubSeq(SubSeq(f, i, L), 1, k) = SubSeq(f, i + 1 - 1, i + k - 1)
        BY <2>2, <4>1, SubSeqOfSubSeq
      <4>3. SubSeq(Payload(f), 1, k) = SubSeq(f, H + 1, H + k)
        BY <2>7, <4>1, <4>2 DEF i
      <4>4. u = SubSeq(f, H + 1, H + k)
        BY <2>4, <2>6
      <4> QED
        BY <4>3, <4>4
    <3> QED
      BY <2>6, <3>1, <3>2
  <2>11. Prefix(u, Payload(f))
    BY <2>9, <2>10 DEF Prefix, k
  <2> QED
    BY <2>4, <2>11 DEF s, f, H, u
<1> QED
  BY <1>1, SessionInductive, PTL

\* A socks5 app gets the method and one final answer, after the whole of its
\* request, and the answer tells what became of it: a connection is never
\* promised before there is one (handshake, socks5.go:158-265).
THEOREM AnswersFitRequest == Socks5Spec => []SocksAnswersFit
<1>1. SessionInv => SocksAnswersFit
  BY DEF SessionInv
<1> QED
  BY <1>1, SessionInductive, PTL

\* The n-th answer of the HTTP proxy is to the n-th request of the app, as the
\* app wrote it, although the first bytes were read by the handshake and
\* handed back (handle, http.go:54-122).
THEOREM HttpInOrder == Socks5Spec => []HttpAnswersInOrder
<1>1. SessionInv => HttpAnswersInOrder
  BY DEF SessionInv
<1> QED
  BY <1>1, SessionInductive, PTL

\* A Pipe that waits for room in the channel of events, which nothing empties,
\* has closed the app's socket and the stream and has neither copy running, in
\* whatever order the two copies ended and closed: what each closes stays closed
\* until the other has done so too, and Pipe waits for both (Pipe, pipe.go:44-59).
THEOREM BlockedPipeIsEmpty == Socks5Spec => []BlockedPipeHoldsNothing
<1>1. CopiesInv => BlockedPipeHoldsNothing
  BY DEF CopiesInv, CopiesFit, BlockedPipeHoldsNothing
<1> QED
  BY <1>1, CopiesInductive, PTL
=============================================================================
