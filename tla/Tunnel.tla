------------------------------- MODULE Tunnel -------------------------------
(***************************************************************************)
(* One proxied connection from end to end:                                 *)
(*                                                                         *)
(*     app <-au/ad-> proxy <-gu/gd-> server <-tu/td-> target               *)
(*                                                                         *)
(* The proxy (socks5/socks5.go, socks5/http.go, spec/pipe.go) dials through*)
(* client.dial (client/client.go), which opens a gRPC stream; the handler  *)
(* of that stream (StreamMessages, server/server.go) checks the key, dials *)
(* the target and relays.  On each side two goroutines run io.Copy, one per*)
(* direction.  What differs is what happens when one of them ends.         *)
(* A connection whose first byte is a letter goes to the HTTP proxy, while *)
(* the goroutine that accepted it keeps reading it, to see it end, and     *)
(* throws away what it reads (socks5/socks5.go:104-114).                   *)
(*                                                                         *)
(* A link is a directed FIFO with room for Cap chunks.  au, ad, tu and td  *)
(* are TCP, gu and gd the two directions of the gRPC stream.               *)
(***************************************************************************)
EXTENDS Naturals

CONSTANTS
  Cap,       \* chunks a link holds before its writer blocks
  MaxSend,   \* bound: chunks the app and the target each send
  MayLose    \* whether the connection under the stream may break, once

ASSUME TunnelAssumption == Cap \in Nat \ {0} /\ MaxSend \in Nat /\ MayLose \in BOOLEAN

VARIABLES
  mode,     \* "socks" (CONNECT), "connect" (HTTP CONNECT) or "plain" (HTTP)
  app,      \* the application's socket
  tgt,      \* the target's socket
  link,     \* the six links
  copier,   \* the four io.Copy goroutines
  proxy,    \* the proxy's handler of this connection
  server,   \* the StreamMessages handler; "returned" without one
  est,      \* the server's first message, the address, has arrived
  reply,    \* what the proxy told the app
  sent,     \* chunks sent by the app (up) and the target (down)
  got,      \* chunks received by the target (up) and the app (down)
  dropped,  \* history: how the proxy first threw data of the app away, if it did
  lost      \* history: the connection under the stream broke

vars == <<mode, app, tgt, link, copier, proxy, server, est, reply, sent, got, dropped, lost>>
peers == <<app, tgt, sent, got>>

Tcp == {"au", "ad", "tu", "td"}
LinkName == Tcp \cup {"gu", "gd"}
Copier == {"pu", "pd", "su", "sd"}

Back == [au |-> "ad", ad |-> "au", gu |-> "gd", gd |-> "gu", tu |-> "td", td |-> "tu"]
In == [pu |-> "au", pd |-> "gd", su |-> "gu", sd |-> "td"]
Out == [pu |-> "gu", pd |-> "ad", su |-> "tu", sd |-> "gd"]

\* n chunks on their way; how the writer ended; the reader closed its socket.
LinkRec == [n: 0 .. Cap, end: {"open", "eof", "err"}, rd: BOOLEAN]
NewLink == [n |-> 0, end |-> "open", rd |-> FALSE]

\* A copier holds one chunk between its Read and its Write.
CopierRec == [pc: {"off", "read", "write", "ended"}, ok: BOOLEAN]
Off == [pc |-> "off", ok |-> FALSE]
Running == [pc |-> "read", ok |-> FALSE]

TypeOK ==
  /\ mode \in {"socks", "connect", "plain"}
  /\ app \in {"open", "half", "closed"}
  /\ tgt \in {"none", "open", "half", "closed"}
  /\ link \in [LinkName -> LinkRec]
  /\ copier \in [Copier -> CopierRec]
  /\ proxy \in {"dialing", "request", "relay", "closed"}
  /\ server \in {"check", "dial", "relay", "returned"}
  /\ est \in BOOLEAN
  /\ reply \in {"none", "ok", "fail"}
  /\ sent \in [{"up", "down"} -> 0 .. MaxSend]
  /\ got \in [{"up", "down"} -> 0 .. MaxSend]
  /\ dropped \in {"no", "ahead", "drained"}
  /\ lost \in BOOLEAN

\* A CONNECT of socks5 has been read and client.dial called; the HTTP proxy is
\* about to read its first request.
Init ==
  /\ mode \in {"socks", "connect", "plain"}
  /\ app = "open"
  /\ tgt = "none"
  /\ link = [l \in LinkName |-> NewLink]
  /\ copier = [c \in Copier |-> Off]
  /\ proxy = IF mode = "socks" THEN "dialing" ELSE "request"
  /\ server = IF mode = "socks" THEN "check" ELSE "returned"
  /\ est = FALSE
  /\ reply = "none"
  /\ sent = [d \in {"up", "down"} |-> 0]
  /\ got = [d \in {"up", "down"} |-> 0]
  /\ dropped = "no"
  /\ lost = FALSE

-----------------------------------------------------------------------------
\* Sockets.

Ended(l) == l.n = 0 /\ l.end = "eof"

\* A reset may overtake the data before it, the status of a stream may not.
Broken(name) ==
  LET l == link[name] IN l.rd \/ (l.end = "err" /\ (name \in Tcp \/ l.n = 0))

Finish(l, how) == IF l.end = "open" THEN [l EXCEPT !.end = how] ELSE l

\* Close a TCP socket that writes out and reads in: with unread data waiting
\* the peer gets a reset instead of the end of the stream.
Shut(lk, out, in) ==
  [lk EXCEPT ![in].rd = TRUE,
             ![out] = Finish(@, IF lk[in].n > 0 THEN "err" ELSE "eof")]

-----------------------------------------------------------------------------
\* io.Copy in goroutine c.

CopyRead(c) ==
  /\ copier[c].pc = "read"
  /\ link[In[c]].n > 0
  /\ ~link[In[c]].rd
  /\ link' = [link EXCEPT ![In[c]].n = @ - 1]
  /\ copier' = [copier EXCEPT ![c].pc = "write"]
  /\ UNCHANGED <<mode, peers, proxy, server, est, reply, dropped, lost>>

\* Mutant: a write does not wait for room.
CopyWriteAhead(c) ==
  /\ copier[c].pc = "write"
  /\ link[Out[c]].end = "open"
  /\ ~link[Out[c]].rd
  /\ link' = [link EXCEPT ![Out[c]].n = @ + 1]
  /\ copier' = [copier EXCEPT ![c].pc = "read"]
  /\ UNCHANGED <<mode, peers, proxy, server, est, reply, dropped, lost>>

CopyWrite(c) ==
  /\ copier[c].pc = "write"
  /\ link[Out[c]].n < Cap
  /\ link[Out[c]].end = "open"
  /\ ~link[Out[c]].rd
  /\ link' = [link EXCEPT ![Out[c]].n = @ + 1]
  /\ copier' = [copier EXCEPT ![c].pc = "read"]
  /\ UNCHANGED <<mode, peers, proxy, server, est, reply, dropped, lost>>

\* The first write to a TCP peer that has closed succeeds, and is answered by
\* a reset.
CopySwallowed(c) ==
  /\ copier[c].pc = "write"
  /\ Out[c] \in Tcp
  /\ link[Out[c]].rd
  /\ link[Out[c]].end = "open"
  /\ link' = [link EXCEPT ![Out[c]].end = "err", ![Back[Out[c]]] = Finish(@, "err")]
  /\ copier' = [copier EXCEPT ![c].pc = "read"]
  /\ UNCHANGED <<mode, peers, proxy, server, est, reply, dropped, lost>>

\* Mutant: Copy stops at the end of its source before it has drained it.
CopyEndsEarly(c) ==
  /\ copier[c].pc = "read"
  /\ link[In[c]].end # "open"
  /\ copier' = [copier EXCEPT ![c] = [pc |-> "ended", ok |-> ~Broken(In[c])]]
  /\ UNCHANGED <<mode, peers, link, proxy, server, est, reply, dropped, lost>>

\* Copy returns nil at the end of its source, an error otherwise; the result
\* goes to a channel with room for both.
CopyEnds(c) ==
  /\ \/ copier[c].pc = "read" /\ (Ended(link[In[c]]) \/ Broken(In[c]))
     \/ copier[c].pc = "write" /\ (link[Out[c]].rd \/ link[Out[c]].end # "open")
  /\ copier' = [copier EXCEPT ![c] =
       [pc |-> "ended", ok |-> copier[c].pc = "read" /\ ~Broken(In[c])]]
  /\ UNCHANGED <<mode, peers, link, proxy, server, est, reply, dropped, lost>>

CopyStep(c) == CopyRead(c) \/ CopyWrite(c) \/ CopySwallowed(c) \/ CopyEnds(c)

-----------------------------------------------------------------------------
\* The StreamMessages handler.

\* Mutant: the client gets nothing more once the handler has returned.
ReturnDrops(lk, how) == [lk EXCEPT !.gu.rd = TRUE, !.gd = Finish([@ EXCEPT !.n = 0], how)]

\* Its return ends the stream; the client still gets what was sent before.
Return(lk, how) == [lk EXCEPT !.gu.rd = TRUE, !.gd = Finish(@, how)]

\* ACL.Check refuses, the target cannot be dialled, or the stream is gone
\* when the address is sent.
Refuse ==
  /\ server \in {"check", "dial"}
  /\ server' = "returned"
  /\ link' = Return(link, "err")
  /\ UNCHANGED <<mode, peers, copier, proxy, est, reply, dropped, lost>>

Admit ==
  /\ server = "check"
  /\ server' = "dial"
  /\ UNCHANGED <<mode, peers, link, copier, proxy, est, reply, dropped, lost>>

\* The target is dialled, its address sent, the copiers started.
Connect ==
  /\ server = "dial"
  /\ link["gd"].end = "open"
  /\ server' = "relay"
  /\ tgt' = "open"
  /\ est' = TRUE
  /\ copier' = [copier EXCEPT !.su = Running, !.sd = Running]
  /\ UNCHANGED <<mode, app, sent, got, link, proxy, reply, dropped, lost>>

\* Mutant: the handler waits for both results.
ServerReturnLast ==
  /\ server = "relay"
  /\ \A c \in {"su", "sd"} : copier[c].pc = "ended"
  /\ server' = "returned"
  /\ link' = Return(Shut(link, "tu", "td"), "eof")
  /\ UNCHANGED <<mode, peers, copier, proxy, est, reply, dropped, lost>>

\* The handler returns with the first result, closing the target's socket.
ServerReturn ==
  /\ server = "relay"
  /\ \E c \in {"su", "sd"} :
       /\ copier[c].pc = "ended"
       /\ link' = Return(Shut(link, "tu", "td"), IF copier[c].ok THEN "eof" ELSE "err")
  /\ server' = "returned"
  /\ UNCHANGED <<mode, peers, copier, proxy, est, reply, dropped, lost>>

ServerStep == Refuse \/ Admit \/ Connect \/ ServerReturn

-----------------------------------------------------------------------------
\* The proxy.

StartCopiers == copier' = [copier EXCEPT !.pu = Running, !.pd = Running]

Dropped(how) == IF dropped = "no" THEN how ELSE dropped

\* dial returns the connection: socks5 answers and relays.
SocksEstablished ==
  /\ mode = "socks"
  /\ proxy = "dialing"
  /\ est
  /\ proxy' = "relay"
  /\ reply' = "ok"
  /\ StartCopiers
  /\ UNCHANGED <<mode, peers, link, server, est, dropped, lost>>

\* The HTTP proxy relays from the socket itself: what its buffered reader has
\* taken from the socket behind the request is lost.  CONNECT is answered, a
\* plain request is passed on first: neither is counted among the chunks.
HttpEstablished ==
  /\ mode # "socks"
  /\ proxy = "dialing"
  /\ est
  /\ mode = "connect" => ~link["au"].rd
  /\ proxy' = "relay"
  /\ reply' = "ok"
  /\ StartCopiers
  /\ \E left \in 0 .. link["au"].n :
       /\ link' = [link EXCEPT !.au.n = left]
       /\ dropped' = IF left < link["au"].n THEN Dropped("ahead") ELSE dropped
  /\ UNCHANGED <<mode, peers, server, est, lost>>

\* CONNECT cannot be answered, or a plain request not be written anew: the loop
\* goes on, the stream stays open.
AnswerFails ==
  /\ mode # "socks"
  /\ proxy = "dialing"
  /\ est
  /\ mode = "connect" => link["ad"].rd \/ link["au"].rd
  /\ proxy' = "request"
  /\ UNCHANGED <<mode, peers, link, copier, server, est, reply, dropped, lost>>

NoStream == proxy = "dialing" /\ ~est /\ link["gd"].end # "open"

\* Mutant: the socket is closed without an answer.
SocksDialFailsSilently ==
  /\ mode = "socks"
  /\ NoStream
  /\ proxy' = "closed"
  /\ link' = Shut(link, "ad", "au")
  /\ UNCHANGED <<mode, peers, copier, server, est, reply, dropped, lost>>

\* dial fails: socks5 says so and closes ...
SocksDialFails ==
  /\ mode = "socks"
  /\ NoStream
  /\ proxy' = "closed"
  /\ reply' = "fail"
  /\ link' = Shut(link, "ad", "au")
  /\ UNCHANGED <<mode, peers, copier, server, est, dropped, lost>>

\* ... the HTTP proxy goes on to the next request without an answer.
HttpDialFails ==
  /\ mode # "socks"
  /\ NoStream
  /\ proxy' = "request"
  /\ UNCHANGED <<mode, peers, link, copier, server, est, reply, dropped, lost>>

\* The HTTP proxy reads a request, which is not counted among the chunks sent,
\* and dials on a new stream ...
NextRequest ==
  /\ proxy = "request"
  /\ link["au"].n > 0
  /\ ~link["au"].rd
  /\ proxy' = "dialing"
  /\ server' = "check"
  /\ est' = FALSE
  /\ tgt' = "none"
  /\ link' = [l \in LinkName |->
       CASE l = "au" -> [link[l] EXCEPT !.n = @ - 1] [] l = "ad" -> link[l] [] OTHER -> NewLink]
  /\ copier' = [c \in Copier |-> Off]
  /\ sent' = [up |-> sent.up - 1, down |-> 0]
  /\ UNCHANGED <<mode, app, got, reply, dropped, lost>>

\* ... or finds none, or something else, and closes.
NoMoreRequests ==
  /\ proxy = "request"
  /\ link["au"].n > 0 \/ Ended(link["au"]) \/ Broken("au")
  /\ proxy' = "closed"
  /\ link' = Shut(link, "ad", "au")
  /\ UNCHANGED <<mode, peers, copier, server, est, reply, dropped, lost>>

\* The goroutine that accepted an HTTP connection reads it as well ...
Drain ==
  /\ mode # "socks"
  /\ link["au"].n > 0
  /\ ~link["au"].rd
  /\ link' = [link EXCEPT !.au.n = @ - 1]
  /\ dropped' = Dropped("drained")
  /\ UNCHANGED <<mode, peers, copier, proxy, server, est, reply, lost>>

\* ... and closes it when it sees its end.
DrainEnds ==
  /\ mode # "socks"
  /\ ~link["au"].rd
  /\ Ended(link["au"]) \/ Broken("au")
  /\ link' = Shut(link, "ad", "au")
  /\ UNCHANGED <<mode, peers, copier, proxy, server, est, reply, dropped, lost>>

\* socks5 closes the app's socket with the first result, and only that.
SocksEnds ==
  /\ mode = "socks"
  /\ proxy = "relay"
  /\ \E c \in {"pu", "pd"} : copier[c].pc = "ended"
  /\ proxy' = "closed"
  /\ link' = Shut(link, "ad", "au")
  /\ UNCHANGED <<mode, peers, copier, server, est, reply, dropped, lost>>

\* Mutant: the stream is closed after both copies, not after its own.
PipeUpEndsLast ==
  /\ mode # "socks"
  /\ proxy = "relay"
  /\ copier["pu"].pc = "ended" /\ copier["pd"].pc = "ended"
  /\ link["gu"].end = "open"
  /\ link' = [link EXCEPT !.gu.end = "eof"]
  /\ UNCHANGED <<mode, peers, copier, proxy, server, est, reply, dropped, lost>>

\* Pipe closes each side when the copy towards it has ended: the stream ...
PipeUpEnds ==
  /\ mode # "socks"
  /\ proxy = "relay"
  /\ copier["pu"].pc = "ended"
  /\ link["gu"].end = "open"
  /\ link' = [link EXCEPT !.gu.end = "eof"]
  /\ UNCHANGED <<mode, peers, copier, proxy, server, est, reply, dropped, lost>>

\* ... and the app's socket ...
PipeDownEnds ==
  /\ mode # "socks"
  /\ proxy = "relay"
  /\ copier["pd"].pc = "ended"
  /\ ~link["au"].rd
  /\ link' = Shut(link, "ad", "au")
  /\ UNCHANGED <<mode, peers, copier, proxy, server, est, reply, dropped, lost>>

\* ... and returns after both.
PipeEnds ==
  /\ mode # "socks"
  /\ proxy = "relay"
  /\ copier["pu"].pc = "ended" /\ link["gu"].end # "open"
  /\ copier["pd"].pc = "ended" /\ link["au"].rd
  /\ proxy' = "closed"
  /\ UNCHANGED <<mode, peers, link, copier, server, est, reply, dropped, lost>>

ProxyStep ==
  \/ SocksEstablished \/ HttpEstablished \/ AnswerFails \/ SocksDialFails \/ HttpDialFails
  \/ NextRequest \/ NoMoreRequests \/ SocksEnds \/ PipeUpEnds \/ PipeDownEnds \/ PipeEnds
DrainStep == Drain \/ DrainEnds

-----------------------------------------------------------------------------
\* The connection under the stream breaks: what was on its way is gone.
Lose ==
  /\ MayLose
  /\ ~lost
  /\ server # "returned"
  /\ link' = [link EXCEPT !.gu = [@ EXCEPT !.n = 0, !.end = "err"],
                          !.gd = [@ EXCEPT !.n = 0, !.end = "err"]]
  /\ est' = (est /\ proxy # "dialing")
  /\ lost' = TRUE
  /\ UNCHANGED <<mode, peers, copier, proxy, server, reply, dropped>>

\* The app and the target send, end what they send, close, and read.
AppSends ==
  /\ app = "open"
  /\ sent.up < MaxSend
  /\ link["au"].n < Cap /\ link["au"].end = "open" /\ ~link["au"].rd
  /\ link' = [link EXCEPT !.au.n = @ + 1]
  /\ sent' = [sent EXCEPT !.up = @ + 1]
  /\ UNCHANGED <<mode, app, tgt, got, copier, proxy, server, est, reply, dropped, lost>>

AppEndsUpload ==
  /\ app = "open"
  /\ app' = "half"
  /\ link' = [link EXCEPT !.au = Finish(@, "eof")]
  /\ UNCHANGED <<mode, tgt, sent, got, copier, proxy, server, est, reply, dropped, lost>>

AppCloses ==
  /\ app # "closed"
  /\ app' = "closed"
  /\ link' = Shut(link, "au", "ad")
  /\ UNCHANGED <<mode, tgt, sent, got, copier, proxy, server, est, reply, dropped, lost>>

AppReads ==
  /\ app # "closed"
  /\ link["ad"].n > 0
  /\ link' = [link EXCEPT !.ad.n = @ - 1]
  /\ got' = [got EXCEPT !.down = @ + 1]
  /\ UNCHANGED <<mode, app, tgt, sent, copier, proxy, server, est, reply, dropped, lost>>

TargetSends ==
  /\ tgt = "open"
  /\ sent.down < MaxSend
  /\ link["td"].n < Cap /\ link["td"].end = "open" /\ ~link["td"].rd
  /\ link' = [link EXCEPT !.td.n = @ + 1]
  /\ sent' = [sent EXCEPT !.down = @ + 1]
  /\ UNCHANGED <<mode, app, tgt, got, copier, proxy, server, est, reply, dropped, lost>>

TargetEndsDownload ==
  /\ tgt = "open"
  /\ tgt' = "half"
  /\ link' = [link EXCEPT !.td = Finish(@, "eof")]
  /\ UNCHANGED <<mode, app, sent, got, copier, proxy, server, est, reply, dropped, lost>>

TargetCloses ==
  /\ tgt \in {"open", "half"}
  /\ tgt' = "closed"
  /\ link' = Shut(link, "td", "tu")
  /\ UNCHANGED <<mode, app, sent, got, copier, proxy, server, est, reply, dropped, lost>>

TargetReads ==
  /\ tgt \in {"open", "half"}
  /\ link["tu"].n > 0
  /\ link' = [link EXCEPT !.tu.n = @ - 1]
  /\ got' = [got EXCEPT !.up = @ + 1]
  /\ UNCHANGED <<mode, app, tgt, sent, copier, proxy, server, est, reply, dropped, lost>>

PeerStep ==
  \/ AppSends \/ AppEndsUpload \/ AppCloses \/ AppReads
  \/ TargetSends \/ TargetEndsDownload \/ TargetCloses \/ TargetReads

Next ==
  \/ \E c \in Copier : CopyStep(c)
  \/ ServerStep \/ ProxyStep \/ DrainStep \/ PeerStep \/ Lose

Spec == Init /\ [][Next]_vars

\* The goroutines of proxy and server run; dialling a target ends one way or
\* the other; the app and the target read what is there.  Nobody has to send
\* or to close.
Fairness ==
  /\ \A c \in Copier : WF_vars(CopyStep(c))
  /\ WF_vars(ServerStep) /\ WF_vars(ProxyStep) /\ WF_vars(DrainStep)
  /\ WF_vars(AppReads) /\ WF_vars(TargetReads)

FairSpec == Spec /\ Fairness

-----------------------------------------------------------------------------
\* An app that sees the stream end, without an error and without having ended
\* its own side, has all the target sent, and the target had ended it.  Left
\* out: a broken connection; a target that closes both ways at once; and, with
\* socks5, a chunk of the app that the target never got, since its failed write
\* ends the relay whatever is still to be read (server.go:131-147,
\* socks5.go:86-103, pipe.go:51-58).
ResponseComplete ==
  /\ reply = "ok" /\ Ended(link["ad"])
  /\ app = "open" /\ tgt # "closed" /\ ~lost
  /\ mode = "socks" => got.up = sent.up
  => tgt = "half" /\ got.down = sent.down

\* A target that sees the stream end, without an error and with its own side
\* still open, has all the app sent, and the app had ended it, unless the proxy
\* threw something away (server.go:131-147, pipe.go:56-57).
UploadComplete ==
  /\ Ended(link["tu"])
  /\ tgt = "open" /\ app # "closed" /\ ~lost /\ dropped = "no"
  => app = "half" /\ got.up = sent.up

\* The same of all that an app sends through the HTTP proxy once it has been
\* answered ("proxy your network", README.md:2; http.go:88-121).
HttpUploadComplete ==
  /\ Ended(link["tu"])
  /\ tgt = "open" /\ app # "closed" /\ ~lost /\ dropped # "ahead"
  => got.up = sent.up

\* A socks5 client is answered, whatever the server makes of its CONNECT
\* (socks5.go:218-243, server.go:101-129).
SocksAnswered == (mode = "socks") ~> (reply # "none")

\* If the target closes, an app that keeps its side open is told: the stream
\* and the socket behind it are closed (server.go:147, socks5.go:82-103,
\* pipe.go:53-54).
TargetCloseReaches ==
  (tgt = "closed" /\ proxy = "relay") ~> (link["ad"].end # "open" \/ app # "open")

\* If an app closes a connection the HTTP proxy relays, the handler returns
\* and the target's socket is closed (pipe.go:56-57, server.go:147).
PipeReleasesTarget ==
  (mode # "socks" /\ proxy = "relay" /\ app = "closed") ~> (server = "returned")
=============================================================================
