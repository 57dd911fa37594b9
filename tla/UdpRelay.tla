------------------------------ MODULE UdpRelay ------------------------------
(***************************************************************************)
(* The UDP side of the socks5 proxy (socks5/udp.go).  One loop reads the   *)
(* datagrams of all apps from one socket and starts a goroutine for each,  *)
(* which relays it to its target over a stream of its own and sends one    *)
(* answer back.  Datagrams may be lost and overtake each other; the target *)
(* may answer any number of times, or never.                               *)
(***************************************************************************)
EXTENDS Naturals, Sequences, FiniteSets

CONSTANTS
  Datagram,  \* datagrams sent by apps, each read at most once
  From,      \* the app that sent it
  Packet     \* its contents

\* A packet is its first three bytes, ATYP, an address, a port and a payload,
\* or is cut short before its payload.  An address of family 6 may be an IPv4
\* address in disguise.
Ip == [family: {4, 6}, mapped: BOOLEAN, host: Nat]
PacketRec ==
  [rsv: {0, 1}, frag: {0, 1}, atyp: 0 .. 255, ip: Ip, port: Nat, payload: Nat, cut: BOOLEAN]

ASSUME UdpAssumption == Packet \in [Datagram -> PacketRec] /\ From \in [Datagram -> Nat]

VARIABLES
  queue,     \* the datagrams that reach the socket and are yet to be read
  listening, \* whether the loop that reads them runs
  relay,     \* the goroutine of each datagram
  told       \* what has been sent to apps: the app, the packet and the datagram answered

udpVars == <<queue, listening, relay, told>>

\* buf holds the packet, and later the target's answer in place of its payload;
\* `reached` is what went to which target.
Phases == {"unread", "decode", "dial", "write", "read", "answer", "done"}
Target == [ip: Ip, port: Nat]
RelayRec == [pc: Phases, buf: PacketRec, to: Target,
             stream: {"none", "open", "closed"}, reached: SUBSET (Target \X Nat)]

To4(ip) == IF ip.family = 6 /\ ip.mapped THEN [ip EXCEPT !.family = 4, !.mapped = FALSE] ELSE ip

UdpTypeOK ==
  /\ queue \subseteq Datagram
  /\ listening \in BOOLEAN
  /\ relay \in [Datagram -> RelayRec]
  /\ told \subseteq [to: Nat, re: Datagram, atyp: {1, 4}, ip: Ip, port: Nat, payload: Nat]

\* Some of the datagrams arrive, each in its own time: the loop may read them
\* in any order and as late as it likes.
UdpInit ==
  /\ queue \in SUBSET Datagram
  /\ listening = TRUE
  /\ relay = [d \in Datagram |->
       [pc |-> "unread", buf |-> Packet[d], to |-> [ip |-> Packet[d].ip, port |-> 0],
        stream |-> "none", reached |-> {}]]
  /\ told = {}

\* Mutant: one buffer serves all rounds of the loop.
ListenShared(d) ==
  /\ listening /\ d \in queue
  /\ queue' = queue \ {d}
  /\ relay' = [e \in Datagram |->
       IF e = d THEN [relay[d] EXCEPT !.pc = "decode"]
       ELSE IF relay[e].pc \in {"decode", "read", "answer"} THEN [relay[e] EXCEPT !.buf = Packet[d]]
       ELSE relay[e]]
  /\ UNCHANGED <<listening, told>>

\* Mutant: the loop relays a datagram before it reads the next.
ListenInTurn(d) ==
  /\ listening /\ d \in queue
  /\ \A e \in Datagram : relay[e].pc \in {"unread", "done"}
  /\ queue' = queue \ {d}
  /\ relay' = [relay EXCEPT ![d].pc = "decode"]
  /\ UNCHANGED <<listening, told>>

\* The loop reads a datagram into a new buffer and starts its goroutine.
Listen(d) ==
  /\ listening /\ d \in queue
  /\ queue' = queue \ {d}
  /\ relay' = [relay EXCEPT ![d].pc = "decode"]
  /\ UNCHANGED <<listening, told>>

\* A failed read ends the loop for good; the relays go on, and so does the proxy.
ListenFails ==
  /\ listening
  /\ listening' = FALSE
  /\ UNCHANGED <<queue, relay, told>>

Step(d, pc, r) ==
  /\ relay[d].pc = pc
  /\ relay' = [relay EXCEPT ![d] = r]
  /\ UNCHANGED <<queue, listening, told>>

\* The deferred Close closes the stream on every way out.
Leave(r) == [r EXCEPT !.pc = "done", !.stream = IF @ = "open" THEN "closed" ELSE @]

Decodes(p) == p.rsv = 0 /\ p.frag = 0 /\ p.atyp \in {1, 4} /\ ~p.cut

Decode(d) ==
  LET p == relay[d].buf
  IN  Step(d, "decode",
        IF Decodes(p) THEN [relay[d] EXCEPT !.pc = "dial", !.to = [ip |-> p.ip, port |-> p.port]]
        ELSE Leave(relay[d]))

UdpDial(d) == Step(d, "dial", [relay[d] EXCEPT !.pc = "write", !.stream = "open"])
UdpDialFails(d) == Step(d, "dial", Leave(relay[d]))

UdpWrite(d) ==
  Step(d, "write", [relay[d] EXCEPT !.pc = "read", !.reached = {<<relay[d].to, relay[d].buf.payload>>}])
UdpWriteFails(d) == Step(d, "write", Leave(relay[d]))

\* What a target answers to a payload.
Answer(payload) == 100 + payload

\* One Read, without a deadline: the first answer, over the datagram in buf.
UdpRead(d) ==
  \E m \in relay[d].reached :
    Step(d, "read", [relay[d] EXCEPT !.pc = "answer", !.buf.payload = Answer(m[2])])
UdpReadFails(d) == Step(d, "read", Leave(relay[d]))

\* The answer goes to the app behind the address it asked for; a mapped IPv4
\* address comes back as IPv4.  Sending it may fail.
UdpReply(d) ==
  LET r == relay[d]
      ip == To4(r.to.ip)
  IN  /\ r.pc = "answer"
      /\ told' \in {told, told \cup
           {[to |-> From[d], re |-> d, atyp |-> IF ip.family = 4 THEN 1 ELSE 4,
             ip |-> ip, port |-> r.to.port, payload |-> r.buf.payload]}}
      /\ relay' = [relay EXCEPT ![d] = Leave(r)]
      /\ UNCHANGED <<queue, listening>>

UdpRuns(d) == Listen(d) \/ Decode(d) \/ UdpDial(d) \/ UdpDialFails(d) \/ UdpWrite(d) \/ UdpWriteFails(d) \/ UdpReply(d)

UdpNext == ListenFails \/ \E d \in Datagram : UdpRuns(d) \/ UdpRead(d) \/ UdpReadFails(d)

\* Every goroutine goes on, a dial returns, and the one write to a new stream
\* finds room.  Nothing makes a target answer.
UdpFairness == \A d \in Datagram : WF_udpVars(UdpRuns(d))

-----------------------------------------------------------------------------
\* An app is told only what one of its own datagrams brought back from the very
\* target that datagram names, and each datagram brings at most one answer,
\* however many relays run at once (pipeSocks5UDP, udp.go:27-65).
AnswerBelongs ==
  /\ \A a \in told :
       LET p == Packet[a.re]
       IN  /\ a.to = From[a.re]
           /\ Decodes(p)
           /\ To4(a.ip) = To4(p.ip) /\ a.port = p.port
           /\ a.atyp = (IF a.ip.family = 4 THEN 1 ELSE 4)
           /\ a.payload = Answer(p.payload)
  /\ \A a, b \in told : a.re = b.re => a = b

\* What makes it so: a goroutine works on the datagram it was started for, in a
\* buffer no other touches, and tells the app as its last step.
RelayFits(d) ==
  LET r == relay[d]  p == Packet[d]
  IN  /\ d \in queue => r.pc = "unread"
      /\ r.pc \notin {"answer", "done"} => r.buf = p
      /\ r.pc \in {"dial", "write", "read", "answer"} =>
           Decodes(p) /\ r.to = [ip |-> p.ip, port |-> p.port]
      /\ r.pc = "read" => r.reached = {<<r.to, p.payload>>}
      /\ r.pc = "answer" => r.buf.payload = Answer(p.payload)
      /\ (\E a \in told : a.re = d) => r.pc = "done"
UdpInv == UdpTypeOK /\ (\A d \in Datagram : RelayFits(d)) /\ AnswerBelongs

\* Each datagram that reaches the socket is read, unless the loop has ended; and
\* each that is read is dropped or relayed as far as the wait for an answer, even
\* then and whatever becomes of the others: only a silent target holds it there
\* (udp.go:14-53).
ReadIsServed ==
  \A d \in Datagram :
    /\ d \in queue ~> (d \notin queue \/ ~listening)
    /\ relay[d].pc # "unread" ~> relay[d].pc \in {"read", "done"}
=============================================================================
