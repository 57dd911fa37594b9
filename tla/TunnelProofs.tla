---------------------------- MODULE TunnelProofs ----------------------------
(***************************************************************************)
(* The inductive invariant of Tunnel and the proof that each step keeps    *)
(* it.  The invariant counts: in either direction, what is on the links, in*)
(* the hands of the copiers and received is all that was sent, until       *)
(* somebody gives up; and it says who may have given up when.              *)
(***************************************************************************)
EXTENDS Tunnel, TLAPS

Holds(c) == IF copier[c].pc = "write" THEN 1 ELSE 0

\* What has been sent in each direction and is not lost.
Up == link["au"].n + Holds("pu") + link["gu"].n + Holds("su") + link["tu"].n + got.up
Down == link["td"].n + Holds("sd") + link["gd"].n + Holds("pd") + link["ad"].n + got.down

Conserved == Up <= sent.up /\ Down <= sent.down

\* Nothing passes through a proxy that does not relay.
Waiting == proxy \in {"dialing", "request"}
Unstarted ==
  Waiting =>
    /\ copier["pu"].pc = "off" /\ copier["pd"].pc = "off"
    /\ link["gu"].n = 0 /\ copier["su"].pc # "write" /\ link["tu"].n = 0 /\ got.up = 0
    /\ link["ad"].n = 0 /\ got.down = 0

\* Who has ended a link, or closed the socket behind it.
Ends ==
  /\ link["au"].end # "open" => app # "open"
  /\ link["au"].end = "err" => app = "closed"
  /\ link["au"].rd /\ mode = "socks" => proxy = "closed"
  /\ link["ad"].end # "open" /\ app # "closed" => link["au"].rd
  /\ link["ad"].rd => app = "closed"
  /\ link["gu"].end # "open" => lost \/ (mode # "socks" /\ copier["pu"].pc = "ended")
  /\ link["gu"].end = "err" => lost
  /\ link["gu"].rd => server = "returned"
  /\ link["gd"].end # "open" => lost \/ server = "returned"
  /\ ~link["gd"].rd
  /\ link["tu"].end # "open" => server = "returned" \/ tgt = "closed"
  /\ link["tu"].rd => tgt = "closed"
  /\ link["td"].end # "open" => tgt \in {"half", "closed"}
  /\ link["td"].end = "err" => tgt = "closed"
  /\ link["td"].rd => server = "returned"

\* How far the proxy and the handler have come.
Stages ==
  /\ reply = "ok" => proxy \in {"relay", "closed"}
  /\ est => server \in {"relay", "returned"}
  /\ copier["pd"].pc # "off" => est \/ lost
  /\ server \in {"check", "dial"} =>
       tgt = "none" /\ copier["su"].pc = "off" /\ copier["sd"].pc = "off"

\* Upwards.  A copy ends in order only when its source is drained and ended, so
\* the handler returns behind the last chunk.
UpFlow ==
  /\ Waiting /\ dropped = "no" => link["au"].n = sent.up
  /\ dropped = "no" /\ ~lost /\ server # "returned" /\ tgt # "closed" => Up = sent.up
AppDrained ==
  LET drained == link["au"].n = 0 /\ link["au"].end = "eof"
      relaying == ~lost /\ server # "returned"
  IN  /\ app # "closed" /\ mode # "socks" /\ link["au"].rd =>
           (Waiting \/ (relaying /\ copier["pu"].pc # "off") => drained)
      /\ app # "closed" /\ mode # "socks" /\ relaying /\ copier["pu"].pc = "ended" => drained
SourceDrained ==
  ~lost /\ server # "returned" /\ tgt # "closed" =>
    /\ copier["su"].pc = "ended" => link["gu"].n = 0 /\ link["gu"].end = "eof"
    /\ copier["sd"].pc = "ended" =>
         link["td"].n = 0 /\ link["td"].end = "eof" /\ copier["sd"].ok
UpWhole ==
  link["tu"].end = "eof" /\ tgt = "open" /\ app # "closed" /\ ~lost /\ dropped = "no"
  => app = "half" /\ link["tu"].n + got.up = sent.up
\* With socks5 a copy of the proxy that ends while the app is there has lost a
\* chunk of the app.
UpCut ==
  mode = "socks" /\ proxy = "relay" /\ app = "open" /\ copier["pu"].pc = "ended"
  => Up < sent.up

\* Downwards.
DownFlow ==
  ~lost /\ server # "returned" /\ link["ad"].end = "open" /\ app # "closed"
  => Down = sent.down
DownReturned ==
  /\ est /\ server = "returned" /\ ~lost
  /\ link["ad"].end = "open" /\ app = "open" /\ tgt # "closed"
  => /\ tgt = "half" /\ link["gd"].end = "eof"
     /\ link["gd"].n + Holds("pd") + link["ad"].n + got.down = sent.down
DownEnded ==
  copier["pd"].pc = "ended" /\ link["ad"].end = "open" /\ app # "closed" /\ ~lost
  => server = "returned" /\ link["gd"].n = 0 /\ link["gd"].end # "open"
DownWhole ==
  /\ reply = "ok" /\ link["ad"].end # "open" /\ app = "open" /\ tgt # "closed" /\ ~lost
  => \/ mode = "socks" /\ Up < sent.up
     \/ tgt = "half" /\ link["ad"].n + got.down = sent.down

Upload == UpFlow /\ AppDrained /\ SourceDrained /\ UpWhole /\ UpCut
Download == DownFlow /\ DownReturned /\ DownEnded /\ DownWhole
TunnelInv == TypeOK /\ Conserved /\ Unstarted /\ Ends /\ Stages /\ Upload /\ Download

-----------------------------------------------------------------------------
\* What the steps do to the links and the copiers, field by field.

LEMMA Names ==
  /\ LinkName = {"au", "ad", "gu", "gd", "tu", "td"}
  /\ Copier = {"pu", "pd", "su", "sd"}
  BY DEF LinkName, Tcp, Copier

\* TypeOK in the form the steps need it.
Numbers ==
  /\ link["au"].n \in Nat /\ link["ad"].n \in Nat /\ link["gu"].n \in Nat
  /\ link["gd"].n \in Nat /\ link["tu"].n \in Nat /\ link["td"].n \in Nat
  /\ sent.up \in Nat /\ sent.down \in Nat /\ got.up \in Nat /\ got.down \in Nat

Links == [LinkName -> LinkRec]
Kept(l) == link'[l] = link[l]

LEMMA LinkFields ==
  ASSUME NEW lk \in Links, NEW l \in LinkName
  PROVE  /\ lk[l] \in LinkRec /\ lk[l].n \in 0 .. Cap /\ lk[l].n \in Nat
         /\ lk[l].end \in {"open", "eof", "err"} /\ lk[l].rd \in BOOLEAN
<1>1. lk[l] \in LinkRec
  BY DEF Links
<1>2. lk[l].n \in 0 .. Cap /\ lk[l].end \in {"open", "eof", "err"} /\ lk[l].rd \in BOOLEAN
  BY <1>1 DEF LinkRec
<1> QED
  BY <1>1, <1>2, TunnelAssumption

LEMMA Counts ==
  ASSUME NEW lk \in Links
  PROVE  /\ lk["au"].n \in Nat /\ lk["ad"].n \in Nat /\ lk["gu"].n \in Nat
         /\ lk["gd"].n \in Nat /\ lk["tu"].n \in Nat /\ lk["td"].n \in Nat
<1>1. \A l \in {"au", "ad", "gu", "gd", "tu", "td"} : lk[l].n \in Nat
  BY LinkFields, Names
<1> QED
  BY <1>1

LEMMA Ways ==
  ASSUME NEW s \in [{"up", "down"} -> 0 .. MaxSend]
  PROVE  s.up \in 0 .. MaxSend /\ s.down \in 0 .. MaxSend /\ s.up \in Nat /\ s.down \in Nat
  BY TunnelAssumption

LEMMA TypedNumbers == (TypeOK => Numbers) /\ (TypeOK' => Numbers')
  BY Counts, Ways DEF TypeOK, Numbers, Links

\* The ways in which a link changes.
Counted(lk, l, k) == [lk EXCEPT ![l].n = k]
EndedBy(lk, l, how) == [lk EXCEPT ![l].end = how]
FinishedBy(lk, l, how) == [lk EXCEPT ![l] = Finish(@, how)]
ResetBy(lk, out, in) == [lk EXCEPT ![out].end = "err", ![in] = Finish(@, "err")]

LEMMA FinishFields ==
  ASSUME NEW r \in LinkRec, NEW how \in {"eof", "err"}
  PROVE  /\ Finish(r, how) \in LinkRec /\ Finish(r, how).n = r.n /\ Finish(r, how).rd = r.rd
         /\ Finish(r, how).end = IF r.end = "open" THEN how ELSE r.end
  BY DEF LinkRec, Finish

LEMMA CountFields ==
  ASSUME NEW r \in LinkRec, NEW k \in 0 .. Cap
  PROVE  /\ [r EXCEPT !.n = k] \in LinkRec /\ [r EXCEPT !.n = k].n = k
         /\ [r EXCEPT !.n = k].end = r.end /\ [r EXCEPT !.n = k].rd = r.rd
  BY DEF LinkRec

LEMMA CloseFields ==
  ASSUME NEW r \in LinkRec
  PROVE  /\ [r EXCEPT !.rd = TRUE] \in LinkRec /\ [r EXCEPT !.rd = TRUE].n = r.n
         /\ [r EXCEPT !.rd = TRUE].end = r.end /\ [r EXCEPT !.rd = TRUE].rd
  BY DEF LinkRec

CountedAs(new, lk, l, k) ==
  /\ new \in Links /\ new[l].n = k /\ new[l].end = lk[l].end /\ new[l].rd = lk[l].rd
  /\ \A m \in LinkName \ {l} : new[m] = lk[m]

LEMMA SetN ==
  ASSUME NEW lk \in Links, NEW l \in LinkName, NEW k \in 0 .. Cap
  PROVE  CountedAs(Counted(lk, l, k), lk, l, k)
<1> DEFINE new == Counted(lk, l, k)
<1> DEFINE r == [lk[l] EXCEPT !.n = k]
<1>1. r \in LinkRec /\ r.n = k /\ r.end = lk[l].end /\ r.rd = lk[l].rd
  BY LinkFields, CountFields
<1>2. new = [lk EXCEPT ![l] = r]
  BY DEF Counted, FinishedBy
<1> HIDE DEF r, new
<1> QED
  BY <1>1, <1>2 DEF Links, new, CountedAs

FinishedAs(new, lk, l, how) ==
  /\ new \in Links /\ new[l].n = lk[l].n /\ new[l].rd = lk[l].rd
  /\ new[l].end = IF lk[l].end = "open" THEN how ELSE lk[l].end
  /\ \A m \in LinkName \ {l} : new[m] = lk[m]

LEMMA SetEnd ==
  ASSUME NEW lk \in Links, NEW l \in LinkName, NEW how \in {"eof", "err"}
  PROVE  FinishedAs(FinishedBy(lk, l, how), lk, l, how)
<1> DEFINE new == FinishedBy(lk, l, how)
<1> DEFINE r == Finish(lk[l], how)
<1>1. /\ r \in LinkRec /\ r.n = lk[l].n /\ r.rd = lk[l].rd
      /\ r.end = IF lk[l].end = "open" THEN how ELSE lk[l].end
  BY LinkFields, FinishFields
<1>2. new = [lk EXCEPT ![l] = r]
  BY DEF Counted, FinishedBy
<1> HIDE DEF r, new
<1> QED
  BY <1>1, <1>2 DEF Links, new, FinishedAs

\* A socket that writes out and reads in is closed.
ShutAs(new, lk, out, in) ==
  /\ new \in Links
  /\ new[in].n = lk[in].n /\ new[in].end = lk[in].end /\ new[in].rd
  /\ new[out].n = lk[out].n /\ new[out].rd = lk[out].rd
  /\ new[out].end = IF lk[out].end # "open" THEN lk[out].end
                    ELSE IF lk[in].n > 0 THEN "err" ELSE "eof"
  /\ \A m \in LinkName \ {in, out} : new[m] = lk[m]

LEMMA ShutFields ==
  ASSUME NEW lk \in Links, NEW out \in LinkName, NEW in \in LinkName, out # in
  PROVE  ShutAs(Shut(lk, out, in), lk, out, in)
<1> DEFINE new == Shut(lk, out, in)
<1> DEFINE how == IF lk[in].n > 0 THEN "err" ELSE "eof"
           r == [lk[in] EXCEPT !.rd = TRUE]
           s == Finish(lk[out], how)
<1>1. r \in LinkRec /\ r.n = lk[in].n /\ r.end = lk[in].end /\ r.rd
  BY LinkFields, CloseFields
<1>2. how \in {"eof", "err"}
  OBVIOUS
<1> HIDE DEF how
<1>3. /\ s \in LinkRec /\ s.n = lk[out].n /\ s.rd = lk[out].rd
      /\ s.end = IF lk[out].end = "open" THEN how ELSE lk[out].end
  BY <1>2, LinkFields, FinishFields
<1>4. new = [lk EXCEPT ![in] = r, ![out] = s]
  BY DEF Shut, how
<1> HIDE DEF r, s, new
<1>5. new \in Links /\ new[in] = r /\ new[out] = s /\ \A k \in LinkName \ {in, out} : new[k] = lk[k]
  BY <1>1, <1>3, <1>4 DEF Links
<1>6. new[out].end = IF lk[out].end # "open" THEN lk[out].end ELSE how
  BY <1>3, <1>5
<1> QED
  BY <1>1, <1>3, <1>5, <1>6 DEF how, new, ShutAs

\* The handler returns.
ReturnedAs(new, lk, how) ==
  /\ new \in Links
  /\ new["gu"].n = lk["gu"].n /\ new["gu"].end = lk["gu"].end /\ new["gu"].rd
  /\ new["gd"].n = lk["gd"].n /\ new["gd"].rd = lk["gd"].rd
  /\ new["gd"].end = IF lk["gd"].end = "open" THEN how ELSE lk["gd"].end
  /\ \A m \in LinkName \ {"gu", "gd"} : new[m] = lk[m]

LEMMA ReturnFields ==
  ASSUME NEW lk \in Links, NEW how \in {"eof", "err"}
  PROVE  ReturnedAs(Return(lk, how), lk, how)
<1> DEFINE new == Return(lk, how)
<1> DEFINE r == [lk["gu"] EXCEPT !.rd = TRUE]
           s == Finish(lk["gd"], how)
<1>1. "gu" \in LinkName /\ "gd" \in LinkName /\ "gu" # "gd"
  BY DEF LinkName
<1>2. r \in LinkRec /\ r.n = lk["gu"].n /\ r.end = lk["gu"].end /\ r.rd
  BY <1>1, LinkFields, CloseFields
<1>3. /\ s \in LinkRec /\ s.n = lk["gd"].n /\ s.rd = lk["gd"].rd
      /\ s.end = IF lk["gd"].end = "open" THEN how ELSE lk["gd"].end
  BY <1>1, LinkFields, FinishFields
<1>4. new = [lk EXCEPT !["gu"] = r, !["gd"] = s]
  BY DEF Return
<1> HIDE DEF r, s, new
<1>5. new \in Links /\ new["gu"] = r /\ new["gd"] = s
      /\ \A k \in LinkName \ {"gu", "gd"} : new[k] = lk[k]
  BY <1>1, <1>2, <1>3, <1>4 DEF Links
<1> QED
  BY <1>2, <1>3, <1>5 DEF new, ReturnedAs

LEMMA SetPc ==
  ASSUME NEW cp \in [Copier -> CopierRec], NEW c \in Copier,
         NEW pc \in {"off", "read", "write", "ended"}, NEW new, new = [cp EXCEPT ![c].pc = pc]
  PROVE  /\ new \in [Copier -> CopierRec] /\ new[c].pc = pc
         /\ \A d \in Copier \ {c} : new[d] = cp[d]
<1> DEFINE r == [cp[c] EXCEPT !.pc = pc]
<1>1. r \in CopierRec /\ r.pc = pc
  BY DEF CopierRec
<1>2. new = [cp EXCEPT ![c] = r]
  OBVIOUS
<1> HIDE DEF r
<1> QED
  BY <1>1, <1>2

EndedAs(new, lk, l, how) ==
  /\ new \in Links /\ new[l].n = lk[l].n /\ new[l].rd = lk[l].rd /\ new[l].end = how
  /\ \A m \in LinkName \ {l} : new[m] = lk[m]

LEMMA SetHow ==
  ASSUME NEW lk \in Links, NEW l \in LinkName, NEW how \in {"eof", "err"}
  PROVE  EndedAs(EndedBy(lk, l, how), lk, l, how)
<1> DEFINE new == EndedBy(lk, l, how)
<1> DEFINE r == [lk[l] EXCEPT !.end = how]
<1>1. r \in LinkRec /\ r.n = lk[l].n /\ r.rd = lk[l].rd /\ r.end = how
  BY LinkFields DEF LinkRec
<1>2. new = [lk EXCEPT ![l] = r]
  BY DEF EndedBy
<1> HIDE DEF r, new
<1> QED
  BY <1>1, <1>2 DEF Links, new, EndedAs

ReturnShutAs(new, lk, how) ==
  /\ new \in Links
  /\ new["au"] = lk["au"] /\ new["ad"] = lk["ad"]
  /\ new["gu"].n = lk["gu"].n /\ new["gu"].end = lk["gu"].end /\ new["gu"].rd
  /\ new["gd"].n = lk["gd"].n /\ new["gd"].rd = lk["gd"].rd
  /\ new["gd"].end = IF lk["gd"].end = "open" THEN how ELSE lk["gd"].end
  /\ new["td"].n = lk["td"].n /\ new["td"].end = lk["td"].end /\ new["td"].rd
  /\ new["tu"].n = lk["tu"].n /\ new["tu"].rd = lk["tu"].rd
  /\ new["tu"].end = IF lk["tu"].end # "open" THEN lk["tu"].end
                     ELSE IF lk["td"].n > 0 THEN "err" ELSE "eof"

LEMMA ReturnShutFields ==
  ASSUME NEW lk \in Links, NEW how \in {"eof", "err"}
  PROVE  ReturnShutAs(Return(Shut(lk, "tu", "td"), how), lk, how)
<1> DEFINE new == Return(Shut(lk, "tu", "td"), how)
<1> DEFINE mid == Shut(lk, "tu", "td")
<1>1. "tu" \in LinkName /\ "td" \in LinkName /\ "tu" # "td"
  BY Names
<1>2. /\ mid \in Links
      /\ mid["td"].n = lk["td"].n /\ mid["td"].end = lk["td"].end /\ mid["td"].rd
      /\ mid["tu"].n = lk["tu"].n /\ mid["tu"].rd = lk["tu"].rd
      /\ mid["tu"].end = IF lk["tu"].end # "open" THEN lk["tu"].end
                         ELSE IF lk["td"].n > 0 THEN "err" ELSE "eof"
      /\ \A m \in LinkName \ {"td", "tu"} : mid[m] = lk[m]
  BY <1>1, ShutFields DEF ShutAs
<1>3. mid["au"] = lk["au"] /\ mid["ad"] = lk["ad"] /\ mid["gu"] = lk["gu"] /\ mid["gd"] = lk["gd"]
  BY <1>2, Names
<1> HIDE DEF mid
<1>4. new = Return(mid, how)
  BY DEF mid
<1> HIDE DEF new
<1>5. /\ new \in Links
      /\ new["gu"].n = mid["gu"].n /\ new["gu"].end = mid["gu"].end /\ new["gu"].rd
      /\ new["gd"].n = mid["gd"].n /\ new["gd"].rd = mid["gd"].rd
      /\ new["gd"].end = IF mid["gd"].end = "open" THEN how ELSE mid["gd"].end
      /\ \A m \in LinkName \ {"gu", "gd"} : new[m] = mid[m]
  BY <1>2, <1>4, ReturnFields DEF ReturnedAs
<1>6. new["au"] = mid["au"] /\ new["ad"] = mid["ad"] /\ new["tu"] = mid["tu"] /\ new["td"] = mid["td"]
  BY <1>5, Names
<1> QED
  BY <1>2, <1>3, <1>5, <1>6 DEF new, ReturnShutAs

LEMMA LostFields ==
  ASSUME NEW r \in LinkRec
  PROVE  LET s == [r EXCEPT !.n = 0, !.end = "err"]
         IN  s \in LinkRec /\ s.n = 0 /\ s.end = "err" /\ s.rd = r.rd
<1>1. 0 \in 0 .. Cap
  BY TunnelAssumption
<1> QED
  BY <1>1 DEF LinkRec

\* The peer has closed: a write to out is answered by a reset.
ResetAs(new, lk, out, in) ==
  /\ new \in Links
  /\ new[out].n = lk[out].n /\ new[out].rd = lk[out].rd /\ new[out].end = "err"
  /\ new[in].n = lk[in].n /\ new[in].rd = lk[in].rd
  /\ new[in].end = IF lk[in].end = "open" THEN "err" ELSE lk[in].end
  /\ \A m \in LinkName \ {in, out} : new[m] = lk[m]

LEMMA ResetFields ==
  ASSUME NEW lk \in Links, NEW out \in LinkName, NEW in \in LinkName, out # in
  PROVE  ResetAs(ResetBy(lk, out, in), lk, out, in)
<1> DEFINE new == ResetBy(lk, out, in)
<1> DEFINE r == [lk[out] EXCEPT !.end = "err"]
           s == Finish(lk[in], "err")
<1>1. r \in LinkRec /\ r.n = lk[out].n /\ r.rd = lk[out].rd /\ r.end = "err"
  BY LinkFields DEF LinkRec
<1>2. /\ s \in LinkRec /\ s.n = lk[in].n /\ s.rd = lk[in].rd
      /\ s.end = IF lk[in].end = "open" THEN "err" ELSE lk[in].end
  BY LinkFields, FinishFields
<1>3. new = [lk EXCEPT ![out] = r, ![in] = s]
  BY DEF ResetBy
<1> HIDE DEF r, s, new
<1>4. new \in Links /\ new[out] = r /\ new[in] = s /\ \A m \in LinkName \ {in, out} : new[m] = lk[m]
  BY <1>1, <1>2, <1>3 DEF Links
<1> QED
  BY <1>1, <1>2, <1>4 DEF new, ResetAs

LEMMA Fewer ==
  ASSUME NEW s \in [{"up", "down"} -> 0 .. MaxSend], s.up > 0
  PROVE  LET t == [up |-> s.up - 1, down |-> 0]
         IN  t \in [{"up", "down"} -> 0 .. MaxSend] /\ t.up = s.up - 1 /\ t.down = 0
<1>1. s.up - 1 \in 0 .. MaxSend /\ 0 \in 0 .. MaxSend
  BY TunnelAssumption
<1> QED
  BY <1>1

LEMMA Grows ==
  ASSUME NEW s \in [{"up", "down"} -> 0 .. MaxSend], NEW d \in {"up", "down"}, s[d] < MaxSend
  PROVE  LET t == [s EXCEPT ![d] = s[d] + 1]
         IN  /\ t \in [{"up", "down"} -> 0 .. MaxSend] /\ t[d] = s[d] + 1
             /\ \A x \in {"up", "down"} \ {d} : t[x] = s[x]
  BY TunnelAssumption

\* The handler's return with the result of copy c, and the HTTP proxy's start when
\* left chunks are still in the app's socket: ServerReturn and HttpEstablished
\* without their choice.
ReturnsBy(c) ==
  /\ server = "relay"
  /\ copier[c].pc = "ended"
  /\ link' = Return(Shut(link, "tu", "td"), IF copier[c].ok THEN "eof" ELSE "err")
  /\ server' = "returned"
  /\ UNCHANGED <<mode, peers, copier, proxy, est, reply, dropped, lost>>

EstablishedWith(left) ==
  /\ mode # "socks"
  /\ proxy = "dialing"
  /\ est
  /\ mode = "connect" => ~link["au"].rd
  /\ proxy' = "relay"
  /\ reply' = "ok"
  /\ StartCopiers
  /\ link' = [link EXCEPT !["au"].n = left]
  /\ dropped' = IF left < link["au"].n THEN Dropped("ahead") ELSE dropped
  /\ UNCHANGED <<mode, peers, server, est, lost>>

-----------------------------------------------------------------------------
\* Each step keeps the invariant.

\* The copy from the app to the stream reads.
LEMMA ProxyUpReadsOK == ASSUME TunnelInv, CopyRead("pu") PROVE TunnelInv'
<1>1. /\ TypeOK /\ Conserved /\ Unstarted /\ Ends /\ Stages /\ Upload /\ Download
      /\ Numbers /\ link \in Links /\ copier \in [Copier -> CopierRec]
  BY TypedNumbers DEF TunnelInv, TypeOK, Links
<1>2. /\ UNCHANGED <<mode, app, tgt, proxy, server, est, reply, sent, got, dropped, lost>>
      /\ copier["pu"].pc = "read" /\ link["au"].n > 0 /\ ~link["au"].rd
      /\ link' = Counted(link, "au", link["au"].n - 1)
      /\ copier' = [copier EXCEPT !["pu"].pc = "write"]
  BY DEF CopyRead, In, peers, Counted, EndedBy, FinishedBy, ResetBy
<1>3. /\ link' \in Links
      /\ Kept("ad") /\ Kept("gu") /\ Kept("gd") /\ Kept("tu") /\ Kept("td")
      /\ link'["au"].n = link["au"].n - 1 /\ link'["au"].end = link["au"].end
      /\ link'["au"].rd = link["au"].rd
  <2>1. "au" \in LinkName /\ link["au"].n - 1 \in 0 .. Cap
    BY <1>1, <1>2, LinkFields, Names, TunnelAssumption
  <2>2. CountedAs(link', link, "au", link["au"].n - 1)
    BY <1>1, <1>2, <2>1, SetN
  <2> QED
    BY <2>2, Names DEF CountedAs, Kept
<1>4. /\ copier' \in [Copier -> CopierRec]
      /\ copier'["pd"] = copier["pd"] /\ copier'["su"] = copier["su"] /\ copier'["sd"] = copier["sd"]
      /\ copier'["pu"].pc = "write"
  BY <1>1, <1>2, SetPc, Names
<1>5. TypeOK' /\ Numbers'
  BY <1>1, <1>2, <1>3, <1>4, TypedNumbers, Ways DEF TypeOK, Links
<1>6. Conserved'
  BY <1>1, <1>2, <1>3, <1>4, <1>5 DEF Conserved, Up, Down, Holds, Numbers, Kept
<1>7. Unstarted'
  BY <1>1, <1>2, <1>3, <1>4, <1>5 DEF Unstarted, Waiting
<1>8. Ends'
  BY <1>1, <1>2, <1>3, <1>4, <1>5 DEF Ends, Kept
<1>9. Stages'
  BY <1>1, <1>2, <1>3, <1>4, <1>5 DEF Stages
<1>10. UpFlow'
  BY <1>1, <1>2, <1>3, <1>4, <1>5 DEF UpFlow, Waiting, Unstarted, Up, Holds, Upload, Numbers, Kept
<1>11. AppDrained'
  BY <1>1, <1>2, <1>3, <1>4, <1>5 DEF AppDrained, Waiting, Upload
<1>12. SourceDrained'
  BY <1>1, <1>2, <1>3, <1>4, <1>5 DEF SourceDrained, Upload, Kept
<1>13. UpWhole'
  BY <1>1, <1>2, <1>3, <1>4, <1>5 DEF UpWhole, Upload, Kept
<1>14. UpCut'
  BY <1>1, <1>2, <1>3, <1>4, <1>5 DEF UpCut, Up, Holds, Upload
<1>15. DownFlow'
  BY <1>1, <1>2, <1>3, <1>4, <1>5 DEF DownFlow, Down, Holds, Download, Kept
<1>16. DownReturned'
  BY <1>1, <1>2, <1>3, <1>4, <1>5 DEF DownReturned, Holds, Download, Kept
<1>17. DownEnded'
  BY <1>1, <1>2, <1>3, <1>4, <1>5 DEF DownEnded, Download, Kept
<1>18. DownWhole'
  BY <1>1, <1>2, <1>3, <1>4, <1>5 DEF DownWhole, Up, Holds, Download, Numbers, Kept
<1> QED
  BY <1>5, <1>6, <1>7, <1>8, <1>9, <1>10, <1>11, <1>12, <1>13, <1>14, <1>15, <1>16, <1>17,
     <1>18
  DEF TunnelInv, Upload, Download

\* The copy from the app to the stream writes.
LEMMA ProxyUpWritesOK == ASSUME TunnelInv, CopyWrite("pu") PROVE TunnelInv'
<1>1. /\ TypeOK /\ Conserved /\ Unstarted /\ Ends /\ Stages /\ Upload /\ Download
      /\ Numbers /\ link \in Links /\ copier \in [Copier -> CopierRec]
  BY TypedNumbers DEF TunnelInv, TypeOK, Links
<1>2. /\ UNCHANGED <<mode, app, tgt, proxy, server, est, reply, sent, got, dropped, lost>>
      /\ copier["pu"].pc = "write" /\ link["gu"].n < Cap /\ link["gu"].end = "open" /\ ~link["gu"].rd
      /\ link' = Counted(link, "gu", link["gu"].n + 1)
      /\ copier' = [copier EXCEPT !["pu"].pc = "read"]
  BY DEF CopyWrite, Out, peers, Counted, EndedBy, FinishedBy, ResetBy
<1>3. /\ link' \in Links
      /\ Kept("au") /\ Kept("ad") /\ Kept("gd") /\ Kept("tu") /\ Kept("td")
      /\ link'["gu"].n = link["gu"].n + 1 /\ link'["gu"].end = link["gu"].end
      /\ link'["gu"].rd = link["gu"].rd
  <2>1. "gu" \in LinkName /\ link["gu"].n + 1 \in 0 .. Cap
    BY <1>1, <1>2, LinkFields, Names, TunnelAssumption
  <2>2. CountedAs(link', link, "gu", link["gu"].n + 1)
    BY <1>1, <1>2, <2>1, SetN
  <2> QED
    BY <2>2, Names DEF CountedAs, Kept
<1>4. /\ copier' \in [Copier -> CopierRec]
      /\ copier'["pd"] = copier["pd"] /\ copier'["su"] = copier["su"] /\ copier'["sd"] = copier["sd"]
      /\ copier'["pu"].pc = "read"
  BY <1>1, <1>2, SetPc, Names
<1>5. TypeOK' /\ Numbers'
  BY <1>1, <1>2, <1>3, <1>4, TypedNumbers, Ways DEF TypeOK, Links
<1>6. Conserved'
  BY <1>1, <1>2, <1>3, <1>4, <1>5 DEF Conserved, Up, Down, Holds, Numbers, Kept
<1>7. Unstarted'
  BY <1>1, <1>2, <1>3, <1>4, <1>5 DEF Unstarted, Waiting
<1>8. Ends'
  BY <1>1, <1>2, <1>3, <1>4, <1>5 DEF Ends, Kept
<1>9. Stages'
  BY <1>1, <1>2, <1>3, <1>4, <1>5 DEF Stages
<1>10. UpFlow'
  BY <1>1, <1>2, <1>3, <1>4, <1>5 DEF UpFlow, Waiting, Up, Holds, Upload, Numbers, Kept
<1>11. AppDrained'
  BY <1>1, <1>2, <1>3, <1>4, <1>5 DEF AppDrained, Waiting, Upload, Kept
<1>12. SourceDrained'
  BY <1>1, <1>2, <1>3, <1>4, <1>5 DEF SourceDrained, Upload, Kept
<1>13. UpWhole'
  BY <1>1, <1>2, <1>3, <1>4, <1>5 DEF UpWhole, Upload, Kept
<1>14. UpCut'
  BY <1>1, <1>2, <1>3, <1>4, <1>5 DEF UpCut, Up, Holds, Upload
<1>15. DownFlow'
  BY <1>1, <1>2, <1>3, <1>4, <1>5 DEF DownFlow, Down, Holds, Download, Kept
<1>16. DownReturned'
  BY <1>1, <1>2, <1>3, <1>4, <1>5 DEF DownReturned, Holds, Download, Kept
<1>17. DownEnded'
  BY <1>1, <1>2, <1>3, <1>4, <1>5 DEF DownEnded, Download, Kept
<1>18. DownWhole'
  BY <1>1, <1>2, <1>3, <1>4, <1>5 DEF DownWhole, Up, Holds, Download, Numbers, Kept
<1> QED
  BY <1>5, <1>6, <1>7, <1>8, <1>9, <1>10, <1>11, <1>12, <1>13, <1>14, <1>15, <1>16, <1>17,
     <1>18
  DEF TunnelInv, Upload, Download

\* The copy from the app to the stream ends.
LEMMA ProxyUpEndsOK == ASSUME TunnelInv, CopyEnds("pu") PROVE TunnelInv'
<1>1. /\ TypeOK /\ Conserved /\ Unstarted /\ Ends /\ Stages /\ Upload /\ Download
      /\ Numbers /\ link \in Links /\ copier \in [Copier -> CopierRec]
  BY TypedNumbers DEF TunnelInv, TypeOK, Links
<1>2. /\ UNCHANGED <<mode, app, tgt, link, proxy, server, est, reply, sent, got, dropped, lost>>
      /\ \/ copier["pu"].pc = "read" /\
              \/ (link["au"].n = 0 /\ link["au"].end = "eof")
              \/ link["au"].rd
              \/ link["au"].end = "err"
         \/ copier["pu"].pc = "write" /\ (link["gu"].rd \/ link["gu"].end # "open")
      /\ copier' = [copier EXCEPT !["pu"] =
              [pc |-> "ended", ok |-> copier["pu"].pc = "read" /\ ~Broken("au")]]
  BY DEF CopyEnds, In, Out, Ended, Broken, Tcp, peers
<1>4. /\ copier' \in [Copier -> CopierRec]
      /\ copier'["pd"] = copier["pd"] /\ copier'["su"] = copier["su"] /\ copier'["sd"] = copier["sd"]
      /\ copier'["pu"].pc = "ended"
  BY <1>1, <1>2, Names DEF CopierRec
<1>5. TypeOK' /\ Numbers'
  BY <1>1, <1>2, <1>4, TypedNumbers, Ways DEF TypeOK, Links
<1>6. Conserved'
  BY <1>1, <1>2, <1>4, <1>5 DEF Conserved, Up, Down, Holds, Numbers
<1>7. Unstarted'
  BY <1>1, <1>2, <1>4, <1>5 DEF Unstarted, Waiting
<1>8. Ends'
  BY <1>1, <1>2, <1>4, <1>5 DEF Ends
<1>9. Stages'
  BY <1>1, <1>2, <1>4, <1>5 DEF Stages
<1>10. UpFlow'
  BY <1>1, <1>2, <1>4, <1>5 DEF UpFlow, Waiting, Ends, Up, Holds, Upload
<1>11. AppDrained'
  BY <1>1, <1>2, <1>4, <1>5 DEF AppDrained, Waiting, Ends, Upload
<1>12. SourceDrained'
  BY <1>1, <1>2, <1>4, <1>5 DEF SourceDrained, Upload
<1>13. UpWhole'
  BY <1>1, <1>2, <1>4, <1>5 DEF UpWhole, Upload
<1>14. UpCut'
  BY <1>1, <1>2, <1>4, <1>5 DEF UpCut, Conserved, Ends, Up, Holds, Upload, Numbers
<1>15. DownFlow'
  BY <1>1, <1>2, <1>4, <1>5 DEF DownFlow, Down, Holds, Download
<1>16. DownReturned'
  BY <1>1, <1>2, <1>4, <1>5 DEF DownReturned, Holds, Download
<1>17. DownEnded'
  BY <1>1, <1>2, <1>4, <1>5 DEF DownEnded, Download
<1>18. DownWhole'
  BY <1>1, <1>2, <1>4, <1>5 DEF DownWhole, Up, Holds, Download, Numbers
<1> QED
  BY <1>5, <1>6, <1>7, <1>8, <1>9, <1>10, <1>11, <1>12, <1>13, <1>14, <1>15, <1>16, <1>17,
     <1>18
  DEF TunnelInv, Upload, Download

\* The copy from the stream to the app reads.
LEMMA ProxyDownReadsOK == ASSUME TunnelInv, CopyRead("pd") PROVE TunnelInv'
<1>1. /\ TypeOK /\ Conserved /\ Unstarted /\ Ends /\ Stages /\ Upload /\ Download
      /\ Numbers /\ link \in Links /\ copier \in [Copier -> CopierRec]
  BY TypedNumbers DEF TunnelInv, TypeOK, Links
<1>2. /\ UNCHANGED <<mode, app, tgt, proxy, server, est, reply, sent, got, dropped, lost>>
      /\ copier["pd"].pc = "read" /\ link["gd"].n > 0 /\ ~link["gd"].rd
      /\ link' = Counted(link, "gd", link["gd"].n - 1)
      /\ copier' = [copier EXCEPT !["pd"].pc = "write"]
  BY DEF CopyRead, In, peers, Counted, EndedBy, FinishedBy, ResetBy
<1>3. /\ link' \in Links
      /\ Kept("au") /\ Kept("ad") /\ Kept("gu") /\ Kept("tu") /\ Kept("td")
      /\ link'["gd"].n = link["gd"].n - 1 /\ link'["gd"].end = link["gd"].end
      /\ link'["gd"].rd = link["gd"].rd
  <2>1. "gd" \in LinkName /\ link["gd"].n - 1 \in 0 .. Cap
    BY <1>1, <1>2, LinkFields, Names, TunnelAssumption
  <2>2. CountedAs(link', link, "gd", link["gd"].n - 1)
    BY <1>1, <1>2, <2>1, SetN
  <2> QED
    BY <2>2, Names DEF CountedAs, Kept
<1>4. /\ copier' \in [Copier -> CopierRec]
      /\ copier'["pu"] = copier["pu"] /\ copier'["su"] = copier["su"] /\ copier'["sd"] = copier["sd"]
      /\ copier'["pd"].pc = "write"
  BY <1>1, <1>2, SetPc, Names
<1>5. TypeOK' /\ Numbers'
  BY <1>1, <1>2, <1>3, <1>4, TypedNumbers, Ways DEF TypeOK, Links
<1>6. Conserved'
  BY <1>1, <1>2, <1>3, <1>4, <1>5 DEF Conserved, Up, Down, Holds, Numbers, Kept
<1>7. Unstarted'
  BY <1>1, <1>2, <1>3, <1>4, <1>5 DEF Unstarted, Waiting
<1>8. Ends'
  BY <1>1, <1>2, <1>3, <1>4, <1>5 DEF Ends, Kept
<1>9. Stages'
  BY <1>1, <1>2, <1>3, <1>4, <1>5 DEF Stages
<1>10. UpFlow'
  BY <1>1, <1>2, <1>3, <1>4, <1>5 DEF UpFlow, Waiting, Up, Holds, Upload, Kept
<1>11. AppDrained'
  BY <1>1, <1>2, <1>3, <1>4, <1>5 DEF AppDrained, Waiting, Upload, Kept
<1>12. SourceDrained'
  BY <1>1, <1>2, <1>3, <1>4, <1>5 DEF SourceDrained, Upload, Kept
<1>13. UpWhole'
  BY <1>1, <1>2, <1>3, <1>4, <1>5 DEF UpWhole, Upload, Kept
<1>14. UpCut'
  BY <1>1, <1>2, <1>3, <1>4, <1>5 DEF UpCut, Up, Holds, Upload, Kept
<1>15. DownFlow'
  BY <1>1, <1>2, <1>3, <1>4, <1>5 DEF DownFlow, Down, Holds, Download, Numbers, Kept
<1>16. DownReturned'
  BY <1>1, <1>2, <1>3, <1>4, <1>5 DEF DownReturned, Holds, Download, Numbers, Kept
<1>17. DownEnded'
  BY <1>1, <1>2, <1>3, <1>4, <1>5 DEF DownEnded, Download
<1>18. DownWhole'
  BY <1>1, <1>2, <1>3, <1>4, <1>5 DEF DownWhole, Up, Holds, Download, Kept
<1> QED
  BY <1>5, <1>6, <1>7, <1>8, <1>9, <1>10, <1>11, <1>12, <1>13, <1>14, <1>15, <1>16, <1>17,
     <1>18
  DEF TunnelInv, Upload, Download

\* The copy from the stream to the app writes.
LEMMA ProxyDownWritesOK == ASSUME TunnelInv, CopyWrite("pd") PROVE TunnelInv'
<1>1. /\ TypeOK /\ Conserved /\ Unstarted /\ Ends /\ Stages /\ Upload /\ Download
      /\ Numbers /\ link \in Links /\ copier \in [Copier -> CopierRec]
  BY TypedNumbers DEF TunnelInv, TypeOK, Links
<1>2. /\ UNCHANGED <<mode, app, tgt, proxy, server, est, reply, sent, got, dropped, lost>>
      /\ copier["pd"].pc = "write" /\ link["ad"].n < Cap /\ link["ad"].end = "open" /\ ~link["ad"].rd
      /\ link' = Counted(link, "ad", link["ad"].n + 1)
      /\ copier' = [copier EXCEPT !["pd"].pc = "read"]
  BY DEF CopyWrite, Out, peers, Counted, EndedBy, FinishedBy, ResetBy
<1>3. /\ link' \in Links
      /\ Kept("au") /\ Kept("gu") /\ Kept("gd") /\ Kept("tu") /\ Kept("td")
      /\ link'["ad"].n = link["ad"].n + 1 /\ link'["ad"].end = link["ad"].end
      /\ link'["ad"].rd = link["ad"].rd
  <2>1. "ad" \in LinkName /\ link["ad"].n + 1 \in 0 .. Cap
    BY <1>1, <1>2, LinkFields, Names, TunnelAssumption
  <2>2. CountedAs(link', link, "ad", link["ad"].n + 1)
    BY <1>1, <1>2, <2>1, SetN
  <2> QED
    BY <2>2, Names DEF CountedAs, Kept
<1>4. /\ copier' \in [Copier -> CopierRec]
      /\ copier'["pu"] = copier["pu"] /\ copier'["su"] = copier["su"] /\ copier'["sd"] = copier["sd"]
      /\ copier'["pd"].pc = "read"
  BY <1>1, <1>2, SetPc, Names
<1>5. TypeOK' /\ Numbers'
  BY <1>1, <1>2, <1>3, <1>4, TypedNumbers, Ways DEF TypeOK, Links
<1>6. Conserved'
  BY <1>1, <1>2, <1>3, <1>4, <1>5 DEF Conserved, Up, Down, Holds, Numbers, Kept
<1>7. Unstarted'
  BY <1>1, <1>2, <1>3, <1>4, <1>5 DEF Unstarted, Waiting
<1>8. Ends'
  BY <1>1, <1>2, <1>3, <1>4, <1>5 DEF Ends, Kept
<1>9. Stages'
  BY <1>1, <1>2, <1>3, <1>4, <1>5 DEF Stages
<1>10. UpFlow'
  BY <1>1, <1>2, <1>3, <1>4, <1>5 DEF UpFlow, Waiting, Up, Holds, Upload, Kept
<1>11. AppDrained'
  BY <1>1, <1>2, <1>3, <1>4, <1>5 DEF AppDrained, Waiting, Upload, Kept
<1>12. SourceDrained'
  BY <1>1, <1>2, <1>3, <1>4, <1>5 DEF SourceDrained, Upload, Kept
<1>13. UpWhole'
  BY <1>1, <1>2, <1>3, <1>4, <1>5 DEF UpWhole, Upload, Kept
<1>14. UpCut'
  BY <1>1, <1>2, <1>3, <1>4, <1>5 DEF UpCut, Up, Holds, Upload, Kept
<1>15. DownFlow'
  BY <1>1, <1>2, <1>3, <1>4, <1>5 DEF DownFlow, Down, Holds, Download, Numbers, Kept
<1>16. DownReturned'
  BY <1>1, <1>2, <1>3, <1>4, <1>5 DEF DownReturned, Holds, Download, Numbers, Kept
<1>17. DownEnded'
  BY <1>1, <1>2, <1>3, <1>4, <1>5 DEF DownEnded, Download
<1>18. DownWhole'
  BY <1>1, <1>2, <1>3, <1>4, <1>5 DEF DownWhole, Up, Holds, Download
<1> QED
  BY <1>5, <1>6, <1>7, <1>8, <1>9, <1>10, <1>11, <1>12, <1>13, <1>14, <1>15, <1>16, <1>17,
     <1>18
  DEF TunnelInv, Upload, Download

\* The copy from the stream to the app writes to a peer that has closed.
LEMMA ProxyDownSwallowedOK == ASSUME TunnelInv, CopySwallowed("pd") PROVE TunnelInv'
<1>1. /\ TypeOK /\ Conserved /\ Unstarted /\ Ends /\ Stages /\ Upload /\ Download
      /\ Numbers /\ link \in Links /\ copier \in [Copier -> CopierRec]
  BY TypedNumbers DEF TunnelInv, TypeOK, Links
<1>2. /\ UNCHANGED <<mode, app, tgt, proxy, server, est, reply, sent, got, dropped, lost>>
      /\ copier["pd"].pc = "write" /\ link["ad"].rd /\ link["ad"].end = "open"
      /\ link' = ResetBy(link, "ad", "au")
      /\ copier' = [copier EXCEPT !["pd"].pc = "read"]
  BY DEF CopySwallowed, Out, Back, peers, Counted, EndedBy, FinishedBy, ResetBy
<1>3. /\ link' \in Links
      /\ Kept("gu") /\ Kept("gd") /\ Kept("tu") /\ Kept("td")
      /\ link'["au"].n = link["au"].n
      /\ link'["au"].end = (IF link["au"].end = "open" THEN "err" ELSE link["au"].end)
      /\ link'["au"].rd = link["au"].rd
      /\ link'["ad"].n = link["ad"].n /\ link'["ad"].end = "err"
      /\ link'["ad"].rd = link["ad"].rd
  <2>1. "ad" \in LinkName /\ "au" \in LinkName /\ "ad" # "au"
    BY <1>1, <1>2, LinkFields, Names
  <2>2. ResetAs(link', link, "ad", "au")
    BY <1>1, <1>2, <2>1, ResetFields
  <2> QED
    BY <2>2, Names DEF ResetAs, Kept
<1>4. /\ copier' \in [Copier -> CopierRec]
      /\ copier'["pu"] = copier["pu"] /\ copier'["su"] = copier["su"] /\ copier'["sd"] = copier["sd"]
      /\ copier'["pd"].pc = "read"
  BY <1>1, <1>2, SetPc, Names
<1>5. TypeOK' /\ Numbers'
  BY <1>1, <1>2, <1>3, <1>4, TypedNumbers, Ways DEF TypeOK, Links
<1>6. Conserved'
  BY <1>1, <1>2, <1>3, <1>4, <1>5 DEF Conserved, Up, Down, Holds, Numbers, Kept
<1>7. Unstarted'
  BY <1>1, <1>2, <1>3, <1>4, <1>5 DEF Unstarted, Waiting
<1>8. Ends'
  BY <1>1, <1>2, <1>3, <1>4, <1>5 DEF Ends, Kept
<1>9. Stages'
  BY <1>1, <1>2, <1>3, <1>4, <1>5 DEF Stages
<1>10. UpFlow'
  BY <1>1, <1>2, <1>3, <1>4, <1>5 DEF UpFlow, Waiting, Up, Holds, Upload, Kept
<1>11. AppDrained'
  BY <1>1, <1>2, <1>3, <1>4, <1>5 DEF AppDrained, Waiting, Upload
<1>12. SourceDrained'
  BY <1>1, <1>2, <1>3, <1>4, <1>5 DEF SourceDrained, Upload, Kept
<1>13. UpWhole'
  BY <1>1, <1>2, <1>3, <1>4, <1>5 DEF UpWhole, Upload, Kept
<1>14. UpCut'
  BY <1>1, <1>2, <1>3, <1>4, <1>5 DEF UpCut, Up, Holds, Upload, Kept
<1>15. DownFlow'
  BY <1>1, <1>2, <1>3, <1>4, <1>5 DEF DownFlow, Down, Holds, Download
<1>16. DownReturned'
  BY <1>1, <1>2, <1>3, <1>4, <1>5 DEF DownReturned, Holds, Download
<1>17. DownEnded'
  BY <1>1, <1>2, <1>3, <1>4, <1>5 DEF DownEnded, Download
<1>18. DownWhole'
  BY <1>1, <1>2, <1>3, <1>4, <1>5 DEF DownWhole, Ends, Up, Holds, Download
<1> QED
  BY <1>5, <1>6, <1>7, <1>8, <1>9, <1>10, <1>11, <1>12, <1>13, <1>14, <1>15, <1>16, <1>17,
     <1>18
  DEF TunnelInv, Upload, Download

\* The copy from the stream to the app ends.
LEMMA ProxyDownEndsOK == ASSUME TunnelInv, CopyEnds("pd") PROVE TunnelInv'
<1>1. /\ TypeOK /\ Conserved /\ Unstarted /\ Ends /\ Stages /\ Upload /\ Download
      /\ Numbers /\ link \in Links /\ copier \in [Copier -> CopierRec]
  BY TypedNumbers DEF TunnelInv, TypeOK, Links
<1>2. /\ UNCHANGED <<mode, app, tgt, link, proxy, server, est, reply, sent, got, dropped, lost>>
      /\ \/ copier["pd"].pc = "read" /\
              \/ (link["gd"].n = 0 /\ link["gd"].end = "eof")
              \/ link["gd"].rd
              \/ (link["gd"].end = "err" /\ link["gd"].n = 0)
         \/ copier["pd"].pc = "write" /\ (link["ad"].rd \/ link["ad"].end # "open")
      /\ copier' = [copier EXCEPT !["pd"] =
              [pc |-> "ended", ok |-> copier["pd"].pc = "read" /\ ~Broken("gd")]]
  BY DEF CopyEnds, In, Out, Ended, Broken, Tcp, peers
<1>4. /\ copier' \in [Copier -> CopierRec]
      /\ copier'["pu"] = copier["pu"] /\ copier'["su"] = copier["su"] /\ copier'["sd"] = copier["sd"]
      /\ copier'["pd"].pc = "ended"
  BY <1>1, <1>2, Names DEF CopierRec
<1>5. TypeOK' /\ Numbers'
  BY <1>1, <1>2, <1>4, TypedNumbers, Ways DEF TypeOK, Links
<1>6. Conserved'
  BY <1>1, <1>2, <1>4, <1>5 DEF Conserved, Up, Down, Holds, Numbers
<1>7. Unstarted'
  BY <1>1, <1>2, <1>4, <1>5 DEF Unstarted, Waiting
<1>8. Ends'
  BY <1>1, <1>2, <1>4, <1>5 DEF Ends
<1>9. Stages'
  BY <1>1, <1>2, <1>4, <1>5 DEF Stages
<1>10. UpFlow'
  BY <1>1, <1>2, <1>4, <1>5 DEF UpFlow, Waiting, Up, Holds, Upload
<1>11. AppDrained'
  BY <1>1, <1>2, <1>4, <1>5 DEF AppDrained, Waiting, Upload
<1>12. SourceDrained'
  BY <1>1, <1>2, <1>4, <1>5 DEF SourceDrained, Upload
<1>13. UpWhole'
  BY <1>1, <1>2, <1>4, <1>5 DEF UpWhole, Upload
<1>14. UpCut'
  BY <1>1, <1>2, <1>4, <1>5 DEF UpCut, Up, Holds, Upload
<1>15. DownFlow'
  BY <1>1, <1>2, <1>4, <1>5 DEF DownFlow, Ends, Down, Holds, Download
<1>16. DownReturned'
  BY <1>1, <1>2, <1>4, <1>5 DEF DownReturned, Ends, Holds, Download
<1>17. DownEnded'
  BY <1>1, <1>2, <1>4, <1>5 DEF DownEnded, Ends, Download
<1>18. DownWhole'
  BY <1>1, <1>2, <1>4, <1>5 DEF DownWhole, Up, Holds, Download
<1> QED
  BY <1>5, <1>6, <1>7, <1>8, <1>9, <1>10, <1>11, <1>12, <1>13, <1>14, <1>15, <1>16, <1>17,
     <1>18
  DEF TunnelInv, Upload, Download

\* The copy from the stream to the target reads.
LEMMA ServerUpReadsOK == ASSUME TunnelInv, CopyRead("su") PROVE TunnelInv'
<1>1. /\ TypeOK /\ Conserved /\ Unstarted /\ Ends /\ Stages /\ Upload /\ Download
      /\ Numbers /\ link \in Links /\ copier \in [Copier -> CopierRec]
  BY TypedNumbers DEF TunnelInv, TypeOK, Links
<1>2. /\ UNCHANGED <<mode, app, tgt, proxy, server, est, reply, sent, got, dropped, lost>>
      /\ copier["su"].pc = "read" /\ link["gu"].n > 0 /\ ~link["gu"].rd
      /\ link' = Counted(link, "gu", link["gu"].n - 1)
      /\ copier' = [copier EXCEPT !["su"].pc = "write"]
  BY DEF CopyRead, In, peers, Counted, EndedBy, FinishedBy, ResetBy
<1>3. /\ link' \in Links
      /\ Kept("au") /\ Kept("ad") /\ Kept("gd") /\ Kept("tu") /\ Kept("td")
      /\ link'["gu"].n = link["gu"].n - 1 /\ link'["gu"].end = link["gu"].end
      /\ link'["gu"].rd = link["gu"].rd
  <2>1. "gu" \in LinkName /\ link["gu"].n - 1 \in 0 .. Cap
    BY <1>1, <1>2, LinkFields, Names, TunnelAssumption
  <2>2. CountedAs(link', link, "gu", link["gu"].n - 1)
    BY <1>1, <1>2, <2>1, SetN
  <2> QED
    BY <2>2, Names DEF CountedAs, Kept
<1>4. /\ copier' \in [Copier -> CopierRec]
      /\ copier'["pu"] = copier["pu"] /\ copier'["pd"] = copier["pd"] /\ copier'["sd"] = copier["sd"]
      /\ copier'["su"].pc = "write"
  BY <1>1, <1>2, SetPc, Names
<1>5. TypeOK' /\ Numbers'
  BY <1>1, <1>2, <1>3, <1>4, TypedNumbers, Ways DEF TypeOK, Links
<1>6. Conserved'
  BY <1>1, <1>2, <1>3, <1>4, <1>5 DEF Conserved, Up, Down, Holds, Numbers, Kept
<1>7. Unstarted'
  BY <1>1, <1>2, <1>3, <1>4, <1>5 DEF Unstarted, Waiting
<1>8. Ends'
  BY <1>1, <1>2, <1>3, <1>4, <1>5 DEF Ends, Kept
<1>9. Stages'
  BY <1>1, <1>2, <1>3, <1>4, <1>5 DEF Stages
<1>10. UpFlow'
  BY <1>1, <1>2, <1>3, <1>4, <1>5 DEF UpFlow, Waiting, Up, Holds, Upload, Numbers, Kept
<1>11. AppDrained'
  BY <1>1, <1>2, <1>3, <1>4, <1>5 DEF AppDrained, Waiting, Upload, Kept
<1>12. SourceDrained'
  BY <1>1, <1>2, <1>3, <1>4, <1>5 DEF SourceDrained, Upload, Kept
<1>13. UpWhole'
  BY <1>1, <1>2, <1>3, <1>4, <1>5 DEF UpWhole, Upload, Kept
<1>14. UpCut'
  BY <1>1, <1>2, <1>3, <1>4, <1>5 DEF UpCut, Up, Holds, Upload, Numbers, Kept
<1>15. DownFlow'
  BY <1>1, <1>2, <1>3, <1>4, <1>5 DEF DownFlow, Down, Holds, Download, Kept
<1>16. DownReturned'
  BY <1>1, <1>2, <1>3, <1>4, <1>5 DEF DownReturned, Holds, Download, Kept
<1>17. DownEnded'
  BY <1>1, <1>2, <1>3, <1>4, <1>5 DEF DownEnded, Download, Kept
<1>18. DownWhole'
  BY <1>1, <1>2, <1>3, <1>4, <1>5 DEF DownWhole, Up, Holds, Download, Numbers, Kept
<1> QED
  BY <1>5, <1>6, <1>7, <1>8, <1>9, <1>10, <1>11, <1>12, <1>13, <1>14, <1>15, <1>16, <1>17,
     <1>18
  DEF TunnelInv, Upload, Download

\* The copy from the stream to the target writes.
LEMMA ServerUpWritesOK == ASSUME TunnelInv, CopyWrite("su") PROVE TunnelInv'
<1>1. /\ TypeOK /\ Conserved /\ Unstarted /\ Ends /\ Stages /\ Upload /\ Download
      /\ Numbers /\ link \in Links /\ copier \in [Copier -> CopierRec]
  BY TypedNumbers DEF TunnelInv, TypeOK, Links
<1>2. /\ UNCHANGED <<mode, app, tgt, proxy, server, est, reply, sent, got, dropped, lost>>
      /\ copier["su"].pc = "write" /\ link["tu"].n < Cap /\ link["tu"].end = "open" /\ ~link["tu"].rd
      /\ link' = Counted(link, "tu", link["tu"].n + 1)
      /\ copier' = [copier EXCEPT !["su"].pc = "read"]
  BY DEF CopyWrite, Out, peers, Counted, EndedBy, FinishedBy, ResetBy
<1>3. /\ link' \in Links
      /\ Kept("au") /\ Kept("ad") /\ Kept("gu") /\ Kept("gd") /\ Kept("td")
      /\ link'["tu"].n = link["tu"].n + 1 /\ link'["tu"].end = link["tu"].end
      /\ link'["tu"].rd = link["tu"].rd
  <2>1. "tu" \in LinkName /\ link["tu"].n + 1 \in 0 .. Cap
    BY <1>1, <1>2, LinkFields, Names, TunnelAssumption
  <2>2. CountedAs(link', link, "tu", link["tu"].n + 1)
    BY <1>1, <1>2, <2>1, SetN
  <2> QED
    BY <2>2, Names DEF CountedAs, Kept
<1>4. /\ copier' \in [Copier -> CopierRec]
      /\ copier'["pu"] = copier["pu"] /\ copier'["pd"] = copier["pd"] /\ copier'["sd"] = copier["sd"]
      /\ copier'["su"].pc = "read"
  BY <1>1, <1>2, SetPc, Names
<1>5. TypeOK' /\ Numbers'
  BY <1>1, <1>2, <1>3, <1>4, TypedNumbers, Ways DEF TypeOK, Links
<1>6. Conserved'
  BY <1>1, <1>2, <1>3, <1>4, <1>5 DEF Conserved, Up, Down, Holds, Numbers, Kept
<1>7. Unstarted'
  BY <1>1, <1>2, <1>3, <1>4, <1>5 DEF Unstarted, Waiting
<1>8. Ends'
  BY <1>1, <1>2, <1>3, <1>4, <1>5 DEF Ends, Kept
<1>9. Stages'
  BY <1>1, <1>2, <1>3, <1>4, <1>5 DEF Stages
<1>10. UpFlow'
  BY <1>1, <1>2, <1>3, <1>4, <1>5 DEF UpFlow, Waiting, Up, Holds, Upload, Numbers, Kept
<1>11. AppDrained'
  BY <1>1, <1>2, <1>3, <1>4, <1>5 DEF AppDrained, Waiting, Upload, Kept
<1>12. SourceDrained'
  BY <1>1, <1>2, <1>3, <1>4, <1>5 DEF SourceDrained, Upload, Kept
<1>13. UpWhole'
  BY <1>1, <1>2, <1>3, <1>4, <1>5 DEF UpWhole, Upload
<1>14. UpCut'
  BY <1>1, <1>2, <1>3, <1>4, <1>5 DEF UpCut, Up, Holds, Upload, Numbers, Kept
<1>15. DownFlow'
  BY <1>1, <1>2, <1>3, <1>4, <1>5 DEF DownFlow, Down, Holds, Download, Kept
<1>16. DownReturned'
  BY <1>1, <1>2, <1>3, <1>4, <1>5 DEF DownReturned, Holds, Download, Kept
<1>17. DownEnded'
  BY <1>1, <1>2, <1>3, <1>4, <1>5 DEF DownEnded, Download, Kept
<1>18. DownWhole'
  BY <1>1, <1>2, <1>3, <1>4, <1>5 DEF DownWhole, Up, Holds, Download, Numbers, Kept
<1> QED
  BY <1>5, <1>6, <1>7, <1>8, <1>9, <1>10, <1>11, <1>12, <1>13, <1>14, <1>15, <1>16, <1>17,
     <1>18
  DEF TunnelInv, Upload, Download

\* The copy from the stream to the target writes to a peer that has closed.
LEMMA ServerUpSwallowedOK == ASSUME TunnelInv, CopySwallowed("su") PROVE TunnelInv'
<1>1. /\ TypeOK /\ Conserved /\ Unstarted /\ Ends /\ Stages /\ Upload /\ Download
      /\ Numbers /\ link \in Links /\ copier \in [Copier -> CopierRec]
  BY TypedNumbers DEF TunnelInv, TypeOK, Links
<1>2. /\ UNCHANGED <<mode, app, tgt, proxy, server, est, reply, sent, got, dropped, lost>>
      /\ copier["su"].pc = "write" /\ link["tu"].rd /\ link["tu"].end = "open"
      /\ link' = ResetBy(link, "tu", "td")
      /\ copier' = [copier EXCEPT !["su"].pc = "read"]
  BY DEF CopySwallowed, Out, Back, peers, Counted, EndedBy, FinishedBy, ResetBy
<1>3. /\ link' \in Links
      /\ Kept("au") /\ Kept("ad") /\ Kept("gu") /\ Kept("gd")
      /\ link'["tu"].n = link["tu"].n /\ link'["tu"].end = "err"
      /\ link'["tu"].rd = link["tu"].rd
      /\ link'["td"].n = link["td"].n
      /\ link'["td"].end = (IF link["td"].end = "open" THEN "err" ELSE link["td"].end)
      /\ link'["td"].rd = link["td"].rd
  <2>1. "tu" \in LinkName /\ "td" \in LinkName /\ "tu" # "td"
    BY <1>1, <1>2, LinkFields, Names
  <2>2. ResetAs(link', link, "tu", "td")
    BY <1>1, <1>2, <2>1, ResetFields
  <2> QED
    BY <2>2, Names DEF ResetAs, Kept
<1>4. /\ copier' \in [Copier -> CopierRec]
      /\ copier'["pu"] = copier["pu"] /\ copier'["pd"] = copier["pd"] /\ copier'["sd"] = copier["sd"]
      /\ copier'["su"].pc = "read"
  BY <1>1, <1>2, SetPc, Names
<1>5. TypeOK' /\ Numbers'
  BY <1>1, <1>2, <1>3, <1>4, TypedNumbers, Ways DEF TypeOK, Links
<1>6. Conserved'
  BY <1>1, <1>2, <1>3, <1>4, <1>5 DEF Conserved, Up, Down, Holds, Numbers, Kept
<1>7. Unstarted'
  BY <1>1, <1>2, <1>3, <1>4, <1>5 DEF Unstarted, Waiting
<1>8. Ends'
  BY <1>1, <1>2, <1>3, <1>4, <1>5 DEF Ends, Kept
<1>9. Stages'
  BY <1>1, <1>2, <1>3, <1>4, <1>5 DEF Stages
<1>10. UpFlow'
  BY <1>1, <1>2, <1>3, <1>4, <1>5 DEF UpFlow, Waiting, Unstarted, Ends, Up, Holds, Upload
<1>11. AppDrained'
  BY <1>1, <1>2, <1>3, <1>4, <1>5 DEF AppDrained, Waiting, Upload, Kept
<1>12. SourceDrained'
  BY <1>1, <1>2, <1>3, <1>4, <1>5 DEF SourceDrained, Upload
<1>13. UpWhole'
  BY <1>1, <1>2, <1>3, <1>4, <1>5 DEF UpWhole, Upload
<1>14. UpCut'
  BY <1>1, <1>2, <1>3, <1>4, <1>5 DEF UpCut, Up, Holds, Upload, Numbers, Kept
<1>15. DownFlow'
  BY <1>1, <1>2, <1>3, <1>4, <1>5 DEF DownFlow, Down, Holds, Download, Kept
<1>16. DownReturned'
  BY <1>1, <1>2, <1>3, <1>4, <1>5 DEF DownReturned, Holds, Download, Kept
<1>17. DownEnded'
  BY <1>1, <1>2, <1>3, <1>4, <1>5 DEF DownEnded, Download, Kept
<1>18. DownWhole'
  BY <1>1, <1>2, <1>3, <1>4, <1>5 DEF DownWhole, Up, Holds, Download, Numbers, Kept
<1> QED
  BY <1>5, <1>6, <1>7, <1>8, <1>9, <1>10, <1>11, <1>12, <1>13, <1>14, <1>15, <1>16, <1>17,
     <1>18
  DEF TunnelInv, Upload, Download

\* The copy from the stream to the target ends.
LEMMA ServerUpEndsOK == ASSUME TunnelInv, CopyEnds("su") PROVE TunnelInv'
<1>1. /\ TypeOK /\ Conserved /\ Unstarted /\ Ends /\ Stages /\ Upload /\ Download
      /\ Numbers /\ link \in Links /\ copier \in [Copier -> CopierRec]
  BY TypedNumbers DEF TunnelInv, TypeOK, Links
<1>2. /\ UNCHANGED <<mode, app, tgt, link, proxy, server, est, reply, sent, got, dropped, lost>>
      /\ \/ copier["su"].pc = "read" /\
              \/ (link["gu"].n = 0 /\ link["gu"].end = "eof")
              \/ link["gu"].rd
              \/ (link["gu"].end = "err" /\ link["gu"].n = 0)
         \/ copier["su"].pc = "write" /\ (link["tu"].rd \/ link["tu"].end # "open")
      /\ copier' = [copier EXCEPT !["su"] =
              [pc |-> "ended", ok |-> copier["su"].pc = "read" /\ ~Broken("gu")]]
  BY DEF CopyEnds, In, Out, Ended, Broken, Tcp, peers
<1>4. /\ copier' \in [Copier -> CopierRec]
      /\ copier'["pu"] = copier["pu"] /\ copier'["pd"] = copier["pd"] /\ copier'["sd"] = copier["sd"]
      /\ copier'["su"].pc = "ended"
  BY <1>1, <1>2, Names DEF CopierRec
<1>5. TypeOK' /\ Numbers'
  BY <1>1, <1>2, <1>4, TypedNumbers, Ways DEF TypeOK, Links
<1>6. Conserved'
  BY <1>1, <1>2, <1>4, <1>5 DEF Conserved, Up, Down, Holds, Numbers
<1>7. Unstarted'
  BY <1>1, <1>2, <1>4, <1>5 DEF Unstarted, Waiting
<1>8. Ends'
  BY <1>1, <1>2, <1>4, <1>5 DEF Ends
<1>9. Stages'
  BY <1>1, <1>2, <1>4, <1>5 DEF Stages
<1>10. UpFlow'
  BY <1>1, <1>2, <1>4, <1>5 DEF UpFlow, Waiting, Ends, Up, Holds, Upload
<1>11. AppDrained'
  BY <1>1, <1>2, <1>4, <1>5 DEF AppDrained, Waiting, Upload
<1>12. SourceDrained'
  BY <1>1, <1>2, <1>4, <1>5 DEF SourceDrained, Ends, Upload
<1>13. UpWhole'
  BY <1>1, <1>2, <1>4, <1>5 DEF UpWhole, Upload
<1>14. UpCut'
  BY <1>1, <1>2, <1>4, <1>5 DEF UpCut, Up, Holds, Upload, Numbers
<1>15. DownFlow'
  BY <1>1, <1>2, <1>4, <1>5 DEF DownFlow, Down, Holds, Download
<1>16. DownReturned'
  BY <1>1, <1>2, <1>4, <1>5 DEF DownReturned, Holds, Download
<1>17. DownEnded'
  BY <1>1, <1>2, <1>4, <1>5 DEF DownEnded, Download
<1>18. DownWhole'
  BY <1>1, <1>2, <1>4, <1>5 DEF DownWhole, Up, Holds, Download, Numbers
<1> QED
  BY <1>5, <1>6, <1>7, <1>8, <1>9, <1>10, <1>11, <1>12, <1>13, <1>14, <1>15, <1>16, <1>17,
     <1>18
  DEF TunnelInv, Upload, Download

\* The copy from the target to the stream reads.
LEMMA ServerDownReadsOK == ASSUME TunnelInv, CopyRead("sd") PROVE TunnelInv'
<1>1. /\ TypeOK /\ Conserved /\ Unstarted /\ Ends /\ Stages /\ Upload /\ Download
      /\ Numbers /\ link \in Links /\ copier \in [Copier -> CopierRec]
  BY TypedNumbers DEF TunnelInv, TypeOK, Links
<1>2. /\ UNCHANGED <<mode, app, tgt, proxy, server, est, reply, sent, got, dropped, lost>>
      /\ copier["sd"].pc = "read" /\ link["td"].n > 0 /\ ~link["td"].rd
      /\ link' = Counted(link, "td", link["td"].n - 1)
      /\ copier' = [copier EXCEPT !["sd"].pc = "write"]
  BY DEF CopyRead, In, peers, Counted, EndedBy, FinishedBy, ResetBy
<1>3. /\ link' \in Links
      /\ Kept("au") /\ Kept("ad") /\ Kept("gu") /\ Kept("gd") /\ Kept("tu")
      /\ link'["td"].n = link["td"].n - 1 /\ link'["td"].end = link["td"].end
      /\ link'["td"].rd = link["td"].rd
  <2>1. "td" \in LinkName /\ link["td"].n - 1 \in 0 .. Cap
    BY <1>1, <1>2, LinkFields, Names, TunnelAssumption
  <2>2. CountedAs(link', link, "td", link["td"].n - 1)
    BY <1>1, <1>2, <2>1, SetN
  <2> QED
    BY <2>2, Names DEF CountedAs, Kept
<1>4. /\ copier' \in [Copier -> CopierRec]
      /\ copier'["pu"] = copier["pu"] /\ copier'["pd"] = copier["pd"] /\ copier'["su"] = copier["su"]
      /\ copier'["sd"].pc = "write"
  BY <1>1, <1>2, SetPc, Names
<1>5. TypeOK' /\ Numbers'
  BY <1>1, <1>2, <1>3, <1>4, TypedNumbers, Ways DEF TypeOK, Links
<1>6. Conserved'
  BY <1>1, <1>2, <1>3, <1>4, <1>5 DEF Conserved, Up, Down, Holds, Numbers, Kept
<1>7. Unstarted'
  BY <1>1, <1>2, <1>3, <1>4, <1>5 DEF Unstarted, Waiting, Kept
<1>8. Ends'
  BY <1>1, <1>2, <1>3, <1>4, <1>5 DEF Ends, Kept
<1>9. Stages'
  BY <1>1, <1>2, <1>3, <1>4, <1>5 DEF Stages
<1>10. UpFlow'
  BY <1>1, <1>2, <1>3, <1>4, <1>5 DEF UpFlow, Waiting, Up, Holds, Upload, Kept
<1>11. AppDrained'
  BY <1>1, <1>2, <1>3, <1>4, <1>5 DEF AppDrained, Waiting, Upload, Kept
<1>12. SourceDrained'
  BY <1>1, <1>2, <1>3, <1>4, <1>5 DEF SourceDrained, Upload, Kept
<1>13. UpWhole'
  BY <1>1, <1>2, <1>3, <1>4, <1>5 DEF UpWhole, Upload, Kept
<1>14. UpCut'
  BY <1>1, <1>2, <1>3, <1>4, <1>5 DEF UpCut, Up, Holds, Upload, Kept
<1>15. DownFlow'
  BY <1>1, <1>2, <1>3, <1>4, <1>5 DEF DownFlow, Down, Holds, Download, Numbers, Kept
<1>16. DownReturned'
  BY <1>1, <1>2, <1>3, <1>4, <1>5 DEF DownReturned, Holds, Download, Kept
<1>17. DownEnded'
  BY <1>1, <1>2, <1>3, <1>4, <1>5 DEF DownEnded, Download, Kept
<1>18. DownWhole'
  BY <1>1, <1>2, <1>3, <1>4, <1>5 DEF DownWhole, Up, Holds, Download, Kept
<1> QED
  BY <1>5, <1>6, <1>7, <1>8, <1>9, <1>10, <1>11, <1>12, <1>13, <1>14, <1>15, <1>16, <1>17,
     <1>18
  DEF TunnelInv, Upload, Download

\* The copy from the target to the stream writes.
LEMMA ServerDownWritesOK == ASSUME TunnelInv, CopyWrite("sd") PROVE TunnelInv'
<1>1. /\ TypeOK /\ Conserved /\ Unstarted /\ Ends /\ Stages /\ Upload /\ Download
      /\ Numbers /\ link \in Links /\ copier \in [Copier -> CopierRec]
  BY TypedNumbers DEF TunnelInv, TypeOK, Links
<1>2. /\ UNCHANGED <<mode, app, tgt, proxy, server, est, reply, sent, got, dropped, lost>>
      /\ copier["sd"].pc = "write" /\ link["gd"].n < Cap /\ link["gd"].end = "open" /\ ~link["gd"].rd
      /\ link' = Counted(link, "gd", link["gd"].n + 1)
      /\ copier' = [copier EXCEPT !["sd"].pc = "read"]
  BY DEF CopyWrite, Out, peers, Counted, EndedBy, FinishedBy, ResetBy
<1>3. /\ link' \in Links
      /\ Kept("au") /\ Kept("ad") /\ Kept("gu") /\ Kept("tu") /\ Kept("td")
      /\ link'["gd"].n = link["gd"].n + 1 /\ link'["gd"].end = link["gd"].end
      /\ link'["gd"].rd = link["gd"].rd
  <2>1. "gd" \in LinkName /\ link["gd"].n + 1 \in 0 .. Cap
    BY <1>1, <1>2, LinkFields, Names, TunnelAssumption
  <2>2. CountedAs(link', link, "gd", link["gd"].n + 1)
    BY <1>1, <1>2, <2>1, SetN
  <2> QED
    BY <2>2, Names DEF CountedAs, Kept
<1>4. /\ copier' \in [Copier -> CopierRec]
      /\ copier'["pu"] = copier["pu"] /\ copier'["pd"] = copier["pd"] /\ copier'["su"] = copier["su"]
      /\ copier'["sd"].pc = "read"
  BY <1>1, <1>2, SetPc, Names
<1>5. TypeOK' /\ Numbers'
  BY <1>1, <1>2, <1>3, <1>4, TypedNumbers, Ways DEF TypeOK, Links
<1>6. Conserved'
  BY <1>1, <1>2, <1>3, <1>4, <1>5 DEF Conserved, Up, Down, Holds, Numbers, Kept
<1>7. Unstarted'
  BY <1>1, <1>2, <1>3, <1>4, <1>5 DEF Unstarted, Waiting, Kept
<1>8. Ends'
  BY <1>1, <1>2, <1>3, <1>4, <1>5 DEF Ends, Kept
<1>9. Stages'
  BY <1>1, <1>2, <1>3, <1>4, <1>5 DEF Stages
<1>10. UpFlow'
  BY <1>1, <1>2, <1>3, <1>4, <1>5 DEF UpFlow, Waiting, Up, Holds, Upload, Kept
<1>11. AppDrained'
  BY <1>1, <1>2, <1>3, <1>4, <1>5 DEF AppDrained, Waiting, Upload, Kept
<1>12. SourceDrained'
  BY <1>1, <1>2, <1>3, <1>4, <1>5 DEF SourceDrained, Upload, Kept
<1>13. UpWhole'
  BY <1>1, <1>2, <1>3, <1>4, <1>5 DEF UpWhole, Upload, Kept
<1>14. UpCut'
  BY <1>1, <1>2, <1>3, <1>4, <1>5 DEF UpCut, Up, Holds, Upload, Kept
<1>15. DownFlow'
  BY <1>1, <1>2, <1>3, <1>4, <1>5 DEF DownFlow, Down, Holds, Download, Numbers, Kept
<1>16. DownReturned'
  BY <1>1, <1>2, <1>3, <1>4, <1>5 DEF DownReturned, Holds, Download, Kept
<1>17. DownEnded'
  BY <1>1, <1>2, <1>3, <1>4, <1>5 DEF DownEnded, Download, Kept
<1>18. DownWhole'
  BY <1>1, <1>2, <1>3, <1>4, <1>5 DEF DownWhole, Up, Holds, Download, Kept
<1> QED
  BY <1>5, <1>6, <1>7, <1>8, <1>9, <1>10, <1>11, <1>12, <1>13, <1>14, <1>15, <1>16, <1>17,
     <1>18
  DEF TunnelInv, Upload, Download

\* The copy from the target to the stream ends.
LEMMA ServerDownEndsOK == ASSUME TunnelInv, CopyEnds("sd") PROVE TunnelInv'
<1>1. /\ TypeOK /\ Conserved /\ Unstarted /\ Ends /\ Stages /\ Upload /\ Download
      /\ Numbers /\ link \in Links /\ copier \in [Copier -> CopierRec]
  BY TypedNumbers DEF TunnelInv, TypeOK, Links
<1>2. /\ UNCHANGED <<mode, app, tgt, link, proxy, server, est, reply, sent, got, dropped, lost>>
      /\ \/ copier["sd"].pc = "read" /\
              \/ (link["td"].n = 0 /\ link["td"].end = "eof")
              \/ link["td"].rd
              \/ link["td"].end = "err"
         \/ copier["sd"].pc = "write" /\ (link["gd"].rd \/ link["gd"].end # "open")
      /\ copier' = [copier EXCEPT !["sd"] =
              [pc |-> "ended", ok |-> copier["sd"].pc = "read" /\ ~Broken("td")]]
  BY DEF CopyEnds, In, Out, Ended, Broken, Tcp, peers
<1>4. /\ copier' \in [Copier -> CopierRec]
      /\ copier'["pu"] = copier["pu"] /\ copier'["pd"] = copier["pd"] /\ copier'["su"] = copier["su"]
      /\ copier'["sd"].pc = "ended"
      /\ copier'["sd"].ok = (copier["sd"].pc = "read" /\ ~Broken("td"))
  BY <1>1, <1>2, Names DEF CopierRec
<1>5. TypeOK' /\ Numbers'
  BY <1>1, <1>2, <1>4, TypedNumbers, Ways DEF TypeOK, Links
<1>6. Conserved'
  BY <1>1, <1>2, <1>4, <1>5 DEF Conserved, Up, Down, Holds, Numbers
<1>7. Unstarted'
  BY <1>1, <1>2, <1>4, <1>5 DEF Unstarted, Waiting
<1>8. Ends'
  BY <1>1, <1>2, <1>4, <1>5 DEF Ends
<1>9. Stages'
  BY <1>1, <1>2, <1>4, <1>5 DEF Stages
<1>10. UpFlow'
  BY <1>1, <1>2, <1>4, <1>5 DEF UpFlow, Waiting, Up, Holds, Upload
<1>11. AppDrained'
  BY <1>1, <1>2, <1>4, <1>5 DEF AppDrained, Waiting, Upload
<1>12. SourceDrained'
  BY <1>1, <1>2, <1>4, <1>5 DEF SourceDrained, Ends, Broken, Upload
<1>13. UpWhole'
  BY <1>1, <1>2, <1>4, <1>5 DEF UpWhole, Upload
<1>14. UpCut'
  BY <1>1, <1>2, <1>4, <1>5 DEF UpCut, Up, Holds, Upload
<1>15. DownFlow'
  BY <1>1, <1>2, <1>4, <1>5 DEF DownFlow, Ends, Down, Holds, Download
<1>16. DownReturned'
  BY <1>1, <1>2, <1>4, <1>5 DEF DownReturned, Holds, Download
<1>17. DownEnded'
  BY <1>1, <1>2, <1>4, <1>5 DEF DownEnded, Download
<1>18. DownWhole'
  BY <1>1, <1>2, <1>4, <1>5 DEF DownWhole, Up, Holds, Download
<1> QED
  BY <1>5, <1>6, <1>7, <1>8, <1>9, <1>10, <1>11, <1>12, <1>13, <1>14, <1>15, <1>16, <1>17,
     <1>18
  DEF TunnelInv, Upload, Download

\* The handler refuses.
LEMMA RefuseOK == ASSUME TunnelInv, Refuse PROVE TunnelInv'
<1>1. /\ TypeOK /\ Conserved /\ Unstarted /\ Ends /\ Stages /\ Upload /\ Download
      /\ Numbers /\ link \in Links /\ copier \in [Copier -> CopierRec]
  BY TypedNumbers DEF TunnelInv, TypeOK, Links
<1>2. /\ UNCHANGED <<mode, app, tgt, copier, proxy, est, reply, sent, got, dropped, lost>>
      /\ server \in {"check", "dial"} /\ server' = "returned"
      /\ link' = Return(link, "err")
  BY DEF Refuse, peers, Counted, EndedBy, FinishedBy, ResetBy
<1>3. /\ link' \in Links
      /\ Kept("au") /\ Kept("ad") /\ Kept("tu") /\ Kept("td")
      /\ link'["gu"].n = link["gu"].n /\ link'["gu"].end = link["gu"].end
      /\ link'["gu"].rd = TRUE
      /\ link'["gd"].n = link["gd"].n
      /\ link'["gd"].end = (IF link["gd"].end = "open" THEN "err" ELSE link["gd"].end)
      /\ link'["gd"].rd = link["gd"].rd
  <2>1. ReturnedAs(link', link, "err")
    BY <1>1, <1>2, ReturnFields
  <2> QED
    BY <2>1, Names DEF ReturnedAs, Kept
<1>5. TypeOK' /\ Numbers'
  BY <1>1, <1>2, <1>3, TypedNumbers, Ways DEF TypeOK, Links
<1>6. Conserved'
  BY <1>1, <1>2, <1>3, <1>5 DEF Conserved, Up, Down, Holds, Kept
<1>7. Unstarted'
  BY <1>1, <1>2, <1>3, <1>5 DEF Unstarted, Waiting, Kept
<1>8. Ends'
  BY <1>1, <1>2, <1>3, <1>5 DEF Ends, Kept
<1>9. Stages'
  BY <1>1, <1>2, <1>3, <1>5 DEF Stages
<1>10. UpFlow'
  BY <1>1, <1>2, <1>3, <1>5 DEF UpFlow, Waiting, Up, Holds, Upload, Kept
<1>11. AppDrained'
  BY <1>1, <1>2, <1>3, <1>5 DEF AppDrained, Waiting, Upload, Kept
<1>12. SourceDrained'
  BY <1>1, <1>2, <1>3, <1>5 DEF SourceDrained, Upload
<1>13. UpWhole'
  BY <1>1, <1>2, <1>3, <1>5 DEF UpWhole, Upload, Kept
<1>14. UpCut'
  BY <1>1, <1>2, <1>3, <1>5 DEF UpCut, Up, Holds, Upload, Kept
<1>15. DownFlow'
  BY <1>1, <1>2, <1>3, <1>5 DEF DownFlow, Down, Holds, Download
<1>16. DownReturned'
  BY <1>1, <1>2, <1>3, <1>5 DEF DownReturned, Stages, Holds, Download
<1>17. DownEnded'
  BY <1>1, <1>2, <1>3, <1>5 DEF DownEnded, Download, Kept
<1>18. DownWhole'
  BY <1>1, <1>2, <1>3, <1>5 DEF DownWhole, Up, Holds, Download, Kept
<1> QED
  BY <1>5, <1>6, <1>7, <1>8, <1>9, <1>10, <1>11, <1>12, <1>13, <1>14, <1>15, <1>16, <1>17,
     <1>18
  DEF TunnelInv, Upload, Download

\* The handler admits the stream.
LEMMA AdmitOK == ASSUME TunnelInv, Admit PROVE TunnelInv'
<1>1. /\ TypeOK /\ Conserved /\ Unstarted /\ Ends /\ Stages /\ Upload /\ Download
      /\ Numbers /\ link \in Links /\ copier \in [Copier -> CopierRec]
  BY TypedNumbers DEF TunnelInv, TypeOK, Links
<1>2. /\ UNCHANGED <<mode, app, tgt, link, copier, proxy, est, reply, sent, got, dropped, lost>>
      /\ server = "check" /\ server' = "dial"
  BY DEF Admit, peers
<1>5. TypeOK' /\ Numbers'
  BY <1>1, <1>2, TypedNumbers, Ways DEF TypeOK, Links
<1>6. Conserved'
  BY <1>1, <1>2, <1>5 DEF Conserved, Up, Down, Holds
<1>7. Unstarted'
  BY <1>1, <1>2, <1>5 DEF Unstarted, Waiting
<1>8. Ends'
  BY <1>1, <1>2, <1>5 DEF Ends
<1>9. Stages'
  BY <1>1, <1>2, <1>5 DEF Stages
<1>10. UpFlow'
  BY <1>1, <1>2, <1>5 DEF UpFlow, Waiting, Up, Holds, Upload
<1>11. AppDrained'
  BY <1>1, <1>2, <1>5 DEF AppDrained, Waiting, Upload
<1>12. SourceDrained'
  BY <1>1, <1>2, <1>5 DEF SourceDrained, Upload
<1>13. UpWhole'
  BY <1>1, <1>2, <1>5 DEF UpWhole, Upload
<1>14. UpCut'
  BY <1>1, <1>2, <1>5 DEF UpCut, Up, Holds, Upload
<1>15. DownFlow'
  BY <1>1, <1>2, <1>5 DEF DownFlow, Down, Holds, Download
<1>16. DownReturned'
  BY <1>1, <1>2, <1>5 DEF DownReturned, Holds, Download
<1>17. DownEnded'
  BY <1>1, <1>2, <1>5 DEF DownEnded, Download
<1>18. DownWhole'
  BY <1>1, <1>2, <1>5 DEF DownWhole, Up, Holds, Download
<1> QED
  BY <1>5, <1>6, <1>7, <1>8, <1>9, <1>10, <1>11, <1>12, <1>13, <1>14, <1>15, <1>16, <1>17,
     <1>18
  DEF TunnelInv, Upload, Download

\* The target is dialled.
LEMMA ConnectOK == ASSUME TunnelInv, Connect PROVE TunnelInv'
<1>1. /\ TypeOK /\ Conserved /\ Unstarted /\ Ends /\ Stages /\ Upload /\ Download
      /\ Numbers /\ link \in Links /\ copier \in [Copier -> CopierRec]
  BY TypedNumbers DEF TunnelInv, TypeOK, Links
<1>2. /\ UNCHANGED <<mode, app, link, proxy, reply, sent, got, dropped, lost>>
      /\ server = "dial" /\ server' = "relay" /\ link["gd"].end = "open" /\ tgt' = "open" /\ est'
      /\ est' \in BOOLEAN /\ copier' = [copier EXCEPT !["su"] = Running, !["sd"] = Running]
  BY DEF Connect, peers
<1>4. /\ copier' \in [Copier -> CopierRec]
      /\ copier'["pu"] = copier["pu"] /\ copier'["pd"] = copier["pd"]
      /\ copier'["su"].pc = "read"
      /\ copier'["sd"].pc = "read"
  BY <1>1, <1>2, Names DEF CopierRec, Running
<1>5. TypeOK' /\ Numbers'
  BY <1>1, <1>2, <1>4, TypedNumbers, Ways DEF TypeOK, Links
<1>6. Conserved'
  BY <1>1, <1>2, <1>4, <1>5 DEF Conserved, Up, Down, Holds, Numbers
<1>7. Unstarted'
  BY <1>1, <1>2, <1>4, <1>5 DEF Unstarted, Waiting
<1>8. Ends'
  BY <1>1, <1>2, <1>4, <1>5 DEF Ends, Stages
<1>9. Stages'
  BY <1>1, <1>2, <1>4, <1>5 DEF Stages
<1>10. UpFlow'
  BY <1>1, <1>2, <1>4, <1>5 DEF UpFlow, Waiting, Stages, Up, Holds, Upload
<1>11. AppDrained'
  BY <1>1, <1>2, <1>4, <1>5 DEF AppDrained, Waiting, Upload
<1>12. SourceDrained'
  BY <1>1, <1>2, <1>4, <1>5 DEF SourceDrained, Upload
<1>13. UpWhole'
  BY <1>1, <1>2, <1>4, <1>5 DEF UpWhole, Ends, Stages, Upload
<1>14. UpCut'
  BY <1>1, <1>2, <1>4, <1>5 DEF UpCut, Up, Holds, Upload, Numbers
<1>15. DownFlow'
  BY <1>1, <1>2, <1>4, <1>5 DEF DownFlow, Stages, Down, Holds, Download
<1>16. DownReturned'
  BY <1>1, <1>2, <1>4, <1>5 DEF DownReturned, Holds, Download
<1>17. DownEnded'
  BY <1>1, <1>2, <1>4, <1>5 DEF DownEnded, Download
<1>18. DownWhole'
  BY <1>1, <1>2, <1>4, <1>5 DEF DownWhole, Stages, Up, Holds, Download
<1> QED
  BY <1>5, <1>6, <1>7, <1>8, <1>9, <1>10, <1>11, <1>12, <1>13, <1>14, <1>15, <1>16, <1>17,
     <1>18
  DEF TunnelInv, Upload, Download

\* The handler returns with the result of the copy from the stream to the target.
LEMMA ReturnsByUpOK == ASSUME TunnelInv, ReturnsBy("su") PROVE TunnelInv'
<1>1. /\ TypeOK /\ Conserved /\ Unstarted /\ Ends /\ Stages /\ Upload /\ Download
      /\ Numbers /\ link \in Links /\ copier \in [Copier -> CopierRec]
  BY TypedNumbers DEF TunnelInv, TypeOK, Links
<1>2. /\ UNCHANGED <<mode, app, tgt, copier, proxy, est, reply, sent, got, dropped, lost>>
      /\ server = "relay" /\ server' = "returned" /\ copier["su"].pc = "ended"
      /\ link' = Return(Shut(link, "tu", "td"), IF copier["su"].ok THEN "eof" ELSE "err")
  BY DEF ReturnsBy, peers, Counted, EndedBy, FinishedBy, ResetBy
<1>3. /\ link' \in Links
      /\ Kept("au") /\ Kept("ad")
      /\ link'["gu"].n = link["gu"].n /\ link'["gu"].end = link["gu"].end
      /\ link'["gu"].rd = TRUE
      /\ link'["gd"].n = link["gd"].n /\ link'["gd"].end = (IF link["gd"].end # "open" THEN link["gd"].end
                            ELSE IF copier["su"].ok THEN "eof" ELSE "err")
      /\ link'["gd"].rd = link["gd"].rd
      /\ link'["tu"].n = link["tu"].n /\ link'["tu"].end = (IF link["tu"].end # "open" THEN link["tu"].end
                            ELSE IF link["td"].n > 0 THEN "err" ELSE "eof")
      /\ link'["tu"].rd = link["tu"].rd
      /\ link'["td"].n = link["td"].n /\ link'["td"].end = link["td"].end
      /\ link'["td"].rd = TRUE
  <2> DEFINE how == IF copier["su"].ok THEN "eof" ELSE "err"
  <2>1. how \in {"eof", "err"} /\ link' = Return(Shut(link, "tu", "td"), how)
    BY <1>2
  <2> HIDE DEF how
  <2>2. ReturnShutAs(link', link, how)
    BY <1>1, <2>1, ReturnShutFields
  <2> QED
    BY <2>2 DEF ReturnShutAs, Kept, how
<1>0. app # "closed" /\ ~lost /\ tgt # "closed" =>
        /\ link["gu"].n = 0 /\ link["gu"].end = "eof" /\ copier["pu"].pc = "ended"
        /\ link["au"].n = 0 /\ link["au"].end = "eof" /\ app = "half"
  <2> SUFFICES ASSUME app # "closed", ~lost, tgt # "closed"
               PROVE  /\ link["gu"].n = 0 /\ link["gu"].end = "eof" /\ copier["pu"].pc = "ended"
                      /\ link["au"].n = 0 /\ link["au"].end = "eof" /\ app = "half"
    OBVIOUS
  <2>1. link["gu"].n = 0 /\ link["gu"].end = "eof"
    BY <1>1, <1>2 DEF Upload, SourceDrained
  <2>2. copier["pu"].pc = "ended" /\ mode # "socks"
    BY <1>1, <2>1 DEF Ends
  <2>3. link["au"].n = 0 /\ link["au"].end = "eof"
    BY <1>1, <1>2, <2>2 DEF Upload, AppDrained
  <2> QED
    BY <1>1, <2>1, <2>2, <2>3 DEF Ends, TypeOK
<1>5. TypeOK' /\ Numbers'
  BY <1>1, <1>2, <1>3, <1>0, TypedNumbers, Ways DEF TypeOK, Links
<1>6. Conserved'
  BY <1>1, <1>2, <1>3, <1>0, <1>5 DEF Conserved, Up, Down, Holds, Kept
<1>7. Unstarted'
  BY <1>1, <1>2, <1>3, <1>0, <1>5 DEF Unstarted, Waiting, Kept
<1>8. Ends'
  BY <1>1, <1>2, <1>3, <1>0, <1>5 DEF Ends, Kept
<1>9. Stages'
  BY <1>1, <1>2, <1>3, <1>0, <1>5 DEF Stages
<1>10. UpFlow'
  BY <1>1, <1>2, <1>3, <1>0, <1>5 DEF UpFlow, Waiting, Up, Holds, Upload, Kept
<1>11. AppDrained'
  BY <1>1, <1>2, <1>3, <1>0, <1>5 DEF AppDrained, Waiting, Upload, Kept
<1>12. SourceDrained'
  BY <1>1, <1>2, <1>3, <1>0, <1>5 DEF SourceDrained, Upload
<1>13. UpWhole'
  BY <1>1, <1>2, <1>3, <1>0, <1>5 DEF UpWhole, UpFlow, AppDrained, Up, Holds, Upload, Numbers
<1>14. UpCut'
  BY <1>1, <1>2, <1>3, <1>0, <1>5 DEF UpCut, Up, Holds, Upload, Kept
<1>15. DownFlow'
  BY <1>1, <1>2, <1>3, <1>0, <1>5 DEF DownFlow, Down, Holds, Download
<1>16. DownReturned'
  BY <1>1, <1>2, <1>3, <1>0, <1>5 DEF DownReturned, Holds, Download
<1>17. DownEnded'
  BY <1>1, <1>2, <1>3, <1>0, <1>5 DEF DownEnded, Download, Kept
<1>18. DownWhole'
  BY <1>1, <1>2, <1>3, <1>0, <1>5 DEF DownWhole, Up, Holds, Download
<1> QED
  BY <1>5, <1>6, <1>7, <1>8, <1>9, <1>10, <1>11, <1>12, <1>13, <1>14, <1>15, <1>16, <1>17,
     <1>18
  DEF TunnelInv, Upload, Download

\* The handler returns with the result of the copy from the target to the stream.
LEMMA ReturnsByDownOK == ASSUME TunnelInv, ReturnsBy("sd") PROVE TunnelInv'
<1>1. /\ TypeOK /\ Conserved /\ Unstarted /\ Ends /\ Stages /\ Upload /\ Download
      /\ Numbers /\ link \in Links /\ copier \in [Copier -> CopierRec]
  BY TypedNumbers DEF TunnelInv, TypeOK, Links
<1>2. /\ UNCHANGED <<mode, app, tgt, copier, proxy, est, reply, sent, got, dropped, lost>>
      /\ server = "relay" /\ server' = "returned" /\ copier["sd"].pc = "ended"
      /\ link' = Return(Shut(link, "tu", "td"), IF copier["sd"].ok THEN "eof" ELSE "err")
  BY DEF ReturnsBy, peers, Counted, EndedBy, FinishedBy, ResetBy
<1>3. /\ link' \in Links
      /\ Kept("au") /\ Kept("ad")
      /\ link'["gu"].n = link["gu"].n /\ link'["gu"].end = link["gu"].end
      /\ link'["gu"].rd = TRUE
      /\ link'["gd"].n = link["gd"].n /\ link'["gd"].end = (IF link["gd"].end # "open" THEN link["gd"].end
                            ELSE IF copier["sd"].ok THEN "eof" ELSE "err")
      /\ link'["gd"].rd = link["gd"].rd
      /\ link'["tu"].n = link["tu"].n /\ link'["tu"].end = (IF link["tu"].end # "open" THEN link["tu"].end
                            ELSE IF link["td"].n > 0 THEN "err" ELSE "eof")
      /\ link'["tu"].rd = link["tu"].rd
      /\ link'["td"].n = link["td"].n /\ link'["td"].end = link["td"].end
      /\ link'["td"].rd = TRUE
  <2> DEFINE how == IF copier["sd"].ok THEN "eof" ELSE "err"
  <2>1. how \in {"eof", "err"} /\ link' = Return(Shut(link, "tu", "td"), how)
    BY <1>2
  <2> HIDE DEF how
  <2>2. ReturnShutAs(link', link, how)
    BY <1>1, <2>1, ReturnShutFields
  <2> QED
    BY <2>2 DEF ReturnShutAs, Kept, how
<1>0. ~lost /\ tgt # "closed" =>
        link["td"].n = 0 /\ link["td"].end = "eof" /\ copier["sd"].ok /\ tgt = "half"
  BY <1>1, <1>2 DEF Upload, SourceDrained, Ends
<1>5. TypeOK' /\ Numbers'
  BY <1>1, <1>2, <1>3, <1>0, TypedNumbers, Ways DEF TypeOK, Links
<1>6. Conserved'
  BY <1>1, <1>2, <1>3, <1>0, <1>5 DEF Conserved, Up, Down, Holds, Kept
<1>7. Unstarted'
  BY <1>1, <1>2, <1>3, <1>0, <1>5 DEF Unstarted, Waiting, Kept
<1>8. Ends'
  BY <1>1, <1>2, <1>3, <1>0, <1>5 DEF Ends, Kept
<1>9. Stages'
  BY <1>1, <1>2, <1>3, <1>0, <1>5 DEF Stages
<1>10. UpFlow'
  BY <1>1, <1>2, <1>3, <1>0, <1>5 DEF UpFlow, Waiting, Up, Holds, Upload, Kept
<1>11. AppDrained'
  BY <1>1, <1>2, <1>3, <1>0, <1>5 DEF AppDrained, Waiting, Upload, Kept
<1>12. SourceDrained'
  BY <1>1, <1>2, <1>3, <1>0, <1>5 DEF SourceDrained, Upload
<1>13. UpWhole'
  BY <1>1, <1>2, <1>3, <1>0, <1>5 DEF UpWhole, Upload
<1>14. UpCut'
  BY <1>1, <1>2, <1>3, <1>0, <1>5 DEF UpCut, Up, Holds, Upload, Kept
<1>15. DownFlow'
  BY <1>1, <1>2, <1>3, <1>0, <1>5 DEF DownFlow, Down, Holds, Download
<1>16. DownReturned'
  BY <1>1, <1>2, <1>3, <1>0, <1>5
  DEF DownReturned, DownFlow, Ends, Down, Holds, Upload, Download, Numbers, Kept
<1>17. DownEnded'
  BY <1>1, <1>2, <1>3, <1>0, <1>5 DEF DownEnded, Download, Kept
<1>18. DownWhole'
  BY <1>1, <1>2, <1>3, <1>0, <1>5 DEF DownWhole, Up, Holds, Download, Kept
<1> QED
  BY <1>5, <1>6, <1>7, <1>8, <1>9, <1>10, <1>11, <1>12, <1>13, <1>14, <1>15, <1>16, <1>17,
     <1>18
  DEF TunnelInv, Upload, Download

\* The socks5 proxy answers and starts its two copies.
LEMMA SocksEstablishedOK == ASSUME TunnelInv, SocksEstablished PROVE TunnelInv'
<1>1. /\ TypeOK /\ Conserved /\ Unstarted /\ Ends /\ Stages /\ Upload /\ Download
      /\ Numbers /\ link \in Links /\ copier \in [Copier -> CopierRec]
  BY TypedNumbers DEF TunnelInv, TypeOK, Links
<1>2. /\ UNCHANGED <<mode, app, tgt, link, server, est, sent, got, dropped, lost>>
      /\ mode = "socks" /\ proxy = "dialing" /\ proxy' = "relay" /\ est /\ reply' = "ok"
      /\ copier' = [copier EXCEPT !["pu"] = Running, !["pd"] = Running]
  BY DEF SocksEstablished, StartCopiers, peers
<1>4. /\ copier' \in [Copier -> CopierRec]
      /\ copier'["su"] = copier["su"] /\ copier'["sd"] = copier["sd"]
      /\ copier'["pu"].pc = "read"
      /\ copier'["pd"].pc = "read"
  BY <1>1, <1>2, Names DEF CopierRec, Running
<1>5. TypeOK' /\ Numbers'
  BY <1>1, <1>2, <1>4, TypedNumbers, Ways DEF TypeOK, Links
<1>6. Conserved'
  BY <1>1, <1>2, <1>4, <1>5 DEF Conserved, Up, Down, Holds, Numbers
<1>7. Unstarted'
  BY <1>1, <1>2, <1>4, <1>5 DEF Unstarted, Waiting
<1>8. Ends'
  BY <1>1, <1>2, <1>4, <1>5 DEF Ends
<1>9. Stages'
  BY <1>1, <1>2, <1>4, <1>5 DEF Stages
<1>10. UpFlow'
  BY <1>1, <1>2, <1>4, <1>5 DEF UpFlow, Waiting, Up, Holds, Upload, Numbers
<1>11. AppDrained'
  BY <1>1, <1>2, <1>4, <1>5 DEF AppDrained, Waiting, Upload
<1>12. SourceDrained'
  BY <1>1, <1>2, <1>4, <1>5 DEF SourceDrained, Upload
<1>13. UpWhole'
  BY <1>1, <1>2, <1>4, <1>5 DEF UpWhole, Upload
<1>14. UpCut'
  BY <1>1, <1>2, <1>4, <1>5 DEF UpCut, Up, Holds, Upload
<1>15. DownFlow'
  BY <1>1, <1>2, <1>4, <1>5 DEF DownFlow, Unstarted, Waiting, Down, Holds, Download
<1>16. DownReturned'
  BY <1>1, <1>2, <1>4, <1>5 DEF DownReturned, Holds, Unstarted, Waiting, Download
<1>17. DownEnded'
  BY <1>1, <1>2, <1>4, <1>5 DEF DownEnded, Download
<1>18. DownWhole'
  BY <1>1, <1>2, <1>4, <1>5 DEF DownWhole, Ends, Up, Holds, Download
<1> QED
  BY <1>5, <1>6, <1>7, <1>8, <1>9, <1>10, <1>11, <1>12, <1>13, <1>14, <1>15, <1>16, <1>17,
     <1>18
  DEF TunnelInv, Upload, Download

\* The HTTP proxy answers and starts the pipe; left chunks stay in the app's socket.
LEMMA EstablishedWithOK ==
  ASSUME TunnelInv, NEW left \in 0 .. link["au"].n, EstablishedWith(left)
  PROVE  TunnelInv'
<1>1. /\ TypeOK /\ Conserved /\ Unstarted /\ Ends /\ Stages /\ Upload /\ Download
      /\ Numbers /\ link \in Links /\ copier \in [Copier -> CopierRec]
  BY TypedNumbers DEF TunnelInv, TypeOK, Links
<1>2. /\ UNCHANGED <<mode, app, tgt, server, est, sent, got, lost>>
      /\ mode # "socks" /\ proxy = "dialing" /\ proxy' = "relay" /\ est /\ reply' = "ok"
      /\ mode = "connect" => ~link["au"].rd
      /\ copier' = [copier EXCEPT !["pu"] = Running, !["pd"] = Running]
      /\ link' = Counted(link, "au", left)
      /\ dropped' = IF left < link["au"].n THEN Dropped("ahead") ELSE dropped
  BY DEF EstablishedWith, StartCopiers, peers, Counted, EndedBy, FinishedBy, ResetBy
<1>3. /\ link' \in Links
      /\ Kept("ad") /\ Kept("gu") /\ Kept("gd") /\ Kept("tu") /\ Kept("td")
      /\ link'["au"].n = left /\ link'["au"].end = link["au"].end
      /\ link'["au"].rd = link["au"].rd
  <2>1. "au" \in LinkName /\ left \in 0 .. Cap
    BY <1>1, <1>2, LinkFields, Names, TunnelAssumption
  <2>2. CountedAs(link', link, "au", left)
    BY <1>1, <1>2, <2>1, SetN
  <2> QED
    BY <2>2, Names DEF CountedAs, Kept
<1>4. /\ copier' \in [Copier -> CopierRec]
      /\ copier'["su"] = copier["su"] /\ copier'["sd"] = copier["sd"]
      /\ copier'["pu"].pc = "read"
      /\ copier'["pd"].pc = "read"
  BY <1>1, <1>2, Names DEF CopierRec, Running
<1>5. TypeOK' /\ Numbers'
  BY <1>1, <1>2, <1>3, <1>4, TypedNumbers, Ways DEF TypeOK, Links, Dropped
<1>6. Conserved'
  BY <1>1, <1>2, <1>3, <1>4, <1>5 DEF Conserved, Up, Down, Holds, Numbers, Kept
<1>7. Unstarted'
  BY <1>1, <1>2, <1>3, <1>4, <1>5 DEF Unstarted, Waiting
<1>8. Ends'
  BY <1>1, <1>2, <1>3, <1>4, <1>5 DEF Ends, Unstarted, Waiting, Kept
<1>9. Stages'
  BY <1>1, <1>2, <1>3, <1>4, <1>5 DEF Stages
<1>10. UpFlow'
  BY <1>1, <1>2, <1>3, <1>4, <1>5
  DEF UpFlow, Waiting, Unstarted, Up, Holds, Dropped, Upload, Numbers, Kept
<1>11. AppDrained'
  BY <1>1, <1>2, <1>3, <1>4, <1>5 DEF AppDrained, Waiting, Upload
<1>12. SourceDrained'
  BY <1>1, <1>2, <1>3, <1>4, <1>5 DEF SourceDrained, Upload, Kept
<1>13. UpWhole'
  BY <1>1, <1>2, <1>3, <1>4, <1>5 DEF UpWhole, Upload, Dropped, Kept
<1>14. UpCut'
  BY <1>1, <1>2, <1>3, <1>4, <1>5 DEF UpCut, Up, Holds, Upload
<1>15. DownFlow'
  BY <1>1, <1>2, <1>3, <1>4, <1>5 DEF DownFlow, Unstarted, Waiting, Down, Holds, Download, Kept
<1>16. DownReturned'
  BY <1>1, <1>2, <1>3, <1>4, <1>5 DEF DownReturned, Holds, Unstarted, Waiting, Download, Kept
<1>17. DownEnded'
  BY <1>1, <1>2, <1>3, <1>4, <1>5 DEF DownEnded, Download
<1>18. DownWhole'
  BY <1>1, <1>2, <1>3, <1>4, <1>5
  DEF DownWhole, Ends, Up, Holds, Waiting, AppDrained, Upload, Download, Kept
<1> QED
  BY <1>5, <1>6, <1>7, <1>8, <1>9, <1>10, <1>11, <1>12, <1>13, <1>14, <1>15, <1>16, <1>17,
     <1>18
  DEF TunnelInv, Upload, Download

\* The answer cannot be written.
LEMMA AnswerFailsOK == ASSUME TunnelInv, AnswerFails PROVE TunnelInv'
<1>1. /\ TypeOK /\ Conserved /\ Unstarted /\ Ends /\ Stages /\ Upload /\ Download
      /\ Numbers /\ link \in Links /\ copier \in [Copier -> CopierRec]
  BY TypedNumbers DEF TunnelInv, TypeOK, Links
<1>2. /\ UNCHANGED <<mode, app, tgt, link, copier, server, est, reply, sent, got, dropped, lost>>
      /\ mode # "socks" /\ proxy = "dialing" /\ proxy' = "request" /\ est
  BY DEF AnswerFails, peers
<1>5. TypeOK' /\ Numbers'
  BY <1>1, <1>2, TypedNumbers, Ways DEF TypeOK, Links
<1>6. Conserved'
  BY <1>1, <1>2, <1>5 DEF Conserved, Up, Down, Holds
<1>7. Unstarted'
  BY <1>1, <1>2, <1>5 DEF Unstarted, Waiting
<1>8. Ends'
  BY <1>1, <1>2, <1>5 DEF Ends
<1>9. Stages'
  BY <1>1, <1>2, <1>5 DEF Stages
<1>10. UpFlow'
  BY <1>1, <1>2, <1>5 DEF UpFlow, Waiting, Up, Holds, Upload
<1>11. AppDrained'
  BY <1>1, <1>2, <1>5 DEF AppDrained, Waiting, Upload
<1>12. SourceDrained'
  BY <1>1, <1>2, <1>5 DEF SourceDrained, Upload
<1>13. UpWhole'
  BY <1>1, <1>2, <1>5 DEF UpWhole, Upload
<1>14. UpCut'
  BY <1>1, <1>2, <1>5 DEF UpCut, Up, Holds, Upload
<1>15. DownFlow'
  BY <1>1, <1>2, <1>5 DEF DownFlow, Down, Holds, Download
<1>16. DownReturned'
  BY <1>1, <1>2, <1>5 DEF DownReturned, Holds, Download
<1>17. DownEnded'
  BY <1>1, <1>2, <1>5 DEF DownEnded, Download
<1>18. DownWhole'
  BY <1>1, <1>2, <1>5 DEF DownWhole, Up, Holds, Download
<1> QED
  BY <1>5, <1>6, <1>7, <1>8, <1>9, <1>10, <1>11, <1>12, <1>13, <1>14, <1>15, <1>16, <1>17,
     <1>18
  DEF TunnelInv, Upload, Download

\* The stream is refused under socks5.
LEMMA SocksDialFailsOK == ASSUME TunnelInv, SocksDialFails PROVE TunnelInv'
<1>1. /\ TypeOK /\ Conserved /\ Unstarted /\ Ends /\ Stages /\ Upload /\ Download
      /\ Numbers /\ link \in Links /\ copier \in [Copier -> CopierRec]
  BY TypedNumbers DEF TunnelInv, TypeOK, Links
<1>2. /\ UNCHANGED <<mode, app, tgt, copier, server, est, sent, got, dropped, lost>>
      /\ mode = "socks" /\ proxy = "dialing" /\ proxy' = "closed" /\ reply' = "fail" /\ ~est
      /\ link' = Shut(link, "ad", "au")
  BY DEF SocksDialFails, NoStream, peers, Counted, EndedBy, FinishedBy, ResetBy
<1>3. /\ link' \in Links
      /\ Kept("gu") /\ Kept("gd") /\ Kept("tu") /\ Kept("td")
      /\ link'["au"].n = link["au"].n /\ link'["au"].end = link["au"].end
      /\ link'["au"].rd = TRUE
      /\ link'["ad"].n = link["ad"].n /\ link'["ad"].end = (IF link["ad"].end # "open" THEN link["ad"].end
                            ELSE IF link["au"].n > 0 THEN "err" ELSE "eof")
      /\ link'["ad"].rd = link["ad"].rd
  <2>1. "ad" \in LinkName /\ "au" \in LinkName /\ "ad" # "au"
    BY <1>1, <1>2, LinkFields, Names
  <2>2. ShutAs(link', link, "ad", "au")
    BY <1>1, <1>2, <2>1, ShutFields
  <2> QED
    BY <2>2, Names DEF ShutAs, Kept
<1>5. TypeOK' /\ Numbers'
  BY <1>1, <1>2, <1>3, TypedNumbers, Ways DEF TypeOK, Links
<1>6. Conserved'
  BY <1>1, <1>2, <1>3, <1>5 DEF Conserved, Up, Down, Holds, Kept
<1>7. Unstarted'
  BY <1>1, <1>2, <1>3, <1>5 DEF Unstarted, Waiting
<1>8. Ends'
  BY <1>1, <1>2, <1>3, <1>5 DEF Ends, Kept
<1>9. Stages'
  BY <1>1, <1>2, <1>3, <1>5 DEF Stages
<1>10. UpFlow'
  BY <1>1, <1>2, <1>3, <1>5 DEF UpFlow, Waiting, Up, Holds, Upload, Kept
<1>11. AppDrained'
  BY <1>1, <1>2, <1>3, <1>5 DEF AppDrained, Waiting, Upload
<1>12. SourceDrained'
  BY <1>1, <1>2, <1>3, <1>5 DEF SourceDrained, Upload, Kept
<1>13. UpWhole'
  BY <1>1, <1>2, <1>3, <1>5 DEF UpWhole, Upload, Kept
<1>14. UpCut'
  BY <1>1, <1>2, <1>3, <1>5 DEF UpCut, Up, Holds, Upload
<1>15. DownFlow'
  BY <1>1, <1>2, <1>3, <1>5 DEF DownFlow, Down, Holds, Download
<1>16. DownReturned'
  BY <1>1, <1>2, <1>3, <1>5 DEF DownReturned, Holds, Download
<1>17. DownEnded'
  BY <1>1, <1>2, <1>3, <1>5 DEF DownEnded, Download
<1>18. DownWhole'
  BY <1>1, <1>2, <1>3, <1>5 DEF DownWhole, Up, Holds, Download
<1> QED
  BY <1>5, <1>6, <1>7, <1>8, <1>9, <1>10, <1>11, <1>12, <1>13, <1>14, <1>15, <1>16, <1>17,
     <1>18
  DEF TunnelInv, Upload, Download

\* The stream is refused under HTTP: the proxy waits for the next request.
LEMMA HttpDialFailsOK == ASSUME TunnelInv, HttpDialFails PROVE TunnelInv'
<1>1. /\ TypeOK /\ Conserved /\ Unstarted /\ Ends /\ Stages /\ Upload /\ Download
      /\ Numbers /\ link \in Links /\ copier \in [Copier -> CopierRec]
  BY TypedNumbers DEF TunnelInv, TypeOK, Links
<1>2. /\ UNCHANGED <<mode, app, tgt, link, copier, server, est, reply, sent, got, dropped, lost>>
      /\ mode # "socks" /\ proxy = "dialing" /\ proxy' = "request" /\ ~est
  BY DEF HttpDialFails, NoStream, peers
<1>5. TypeOK' /\ Numbers'
  BY <1>1, <1>2, TypedNumbers, Ways DEF TypeOK, Links
<1>6. Conserved'
  BY <1>1, <1>2, <1>5 DEF Conserved, Up, Down, Holds
<1>7. Unstarted'
  BY <1>1, <1>2, <1>5 DEF Unstarted, Waiting
<1>8. Ends'
  BY <1>1, <1>2, <1>5 DEF Ends
<1>9. Stages'
  BY <1>1, <1>2, <1>5 DEF Stages
<1>10. UpFlow'
  BY <1>1, <1>2, <1>5 DEF UpFlow, Waiting, Up, Holds, Upload
<1>11. AppDrained'
  BY <1>1, <1>2, <1>5 DEF AppDrained, Waiting, Upload
<1>12. SourceDrained'
  BY <1>1, <1>2, <1>5 DEF SourceDrained, Upload
<1>13. UpWhole'
  BY <1>1, <1>2, <1>5 DEF UpWhole, Upload
<1>14. UpCut'
  BY <1>1, <1>2, <1>5 DEF UpCut, Up, Holds, Upload
<1>15. DownFlow'
  BY <1>1, <1>2, <1>5 DEF DownFlow, Down, Holds, Download
<1>16. DownReturned'
  BY <1>1, <1>2, <1>5 DEF DownReturned, Holds, Download
<1>17. DownEnded'
  BY <1>1, <1>2, <1>5 DEF DownEnded, Download
<1>18. DownWhole'
  BY <1>1, <1>2, <1>5 DEF DownWhole, Up, Holds, Download
<1> QED
  BY <1>5, <1>6, <1>7, <1>8, <1>9, <1>10, <1>11, <1>12, <1>13, <1>14, <1>15, <1>16, <1>17,
     <1>18
  DEF TunnelInv, Upload, Download

\* A request is read: everything but the app's socket is new.
LEMMA NextRequestOK == ASSUME TunnelInv, NextRequest PROVE TunnelInv'
<1>1. /\ TypeOK /\ Conserved /\ Unstarted /\ Ends /\ Stages /\ Upload /\ Download
      /\ Numbers /\ link \in Links /\ copier \in [Copier -> CopierRec]
  BY TypedNumbers DEF TunnelInv, TypeOK, Links
<1>2. /\ UNCHANGED <<mode, app, reply, got, dropped, lost>>
      /\ proxy = "request" /\ proxy' = "dialing" /\ server' = "check" /\ ~est' /\ est' \in BOOLEAN
      /\ link["au"].n > 0 /\ ~link["au"].rd /\ tgt' = "none"
      /\ link' = [l \in LinkName |->
                    CASE l = "au" -> [link[l] EXCEPT !.n = @ - 1] [] l = "ad" -> link[l] [] OTHER -> NewLink]
      /\ copier' = [c \in Copier |-> Off]
      /\ sent' = [up |-> sent.up - 1, down |-> 0]
  BY DEF NextRequest, Counted, EndedBy, FinishedBy, ResetBy
<1>3. /\ link' \in Links
      /\ Kept("ad")
      /\ link'["au"].n = link["au"].n - 1 /\ link'["au"].end = link["au"].end
      /\ link'["au"].rd = link["au"].rd
      /\ link'["gu"].n = 0 /\ link'["gu"].end = "open"
      /\ link'["gu"].rd = FALSE
      /\ link'["gd"].n = 0 /\ link'["gd"].end = "open"
      /\ link'["gd"].rd = FALSE
      /\ link'["tu"].n = 0 /\ link'["tu"].end = "open"
      /\ link'["tu"].rd = FALSE
      /\ link'["td"].n = 0 /\ link'["td"].end = "open"
      /\ link'["td"].rd = FALSE
  BY <1>1, <1>2, LinkFields, CountFields, Names, TunnelAssumption DEF Links, LinkRec, NewLink, Kept
<1>4. /\ copier' \in [Copier -> CopierRec]
      /\ copier'["pu"].pc = "off"
      /\ copier'["pd"].pc = "off"
      /\ copier'["su"].pc = "off"
      /\ copier'["sd"].pc = "off"
  BY <1>2, Names DEF CopierRec, Off
<1>0. /\ sent'.up = sent.up - 1 /\ sent'.down = 0
      /\ sent' \in [{"up", "down"} -> 0 .. MaxSend]
  <2>1. sent.up > 0
    BY <1>1, <1>2 DEF Conserved, Up, Down, Holds, Numbers
  <2> QED
    BY <1>1, <1>2, <2>1, Fewer DEF TypeOK
<1>5. TypeOK' /\ Numbers'
  BY <1>1, <1>2, <1>3, <1>4, <1>0, TypedNumbers, Ways DEF TypeOK, Links
<1>6. Conserved'
  <2>1. /\ Holds("pu") = 0 /\ link["gu"].n = 0 /\ Holds("su") = 0 /\ link["tu"].n = 0
        /\ got.up = 0 /\ got.down = 0
    BY <1>1, <1>2 DEF Unstarted, Waiting, Holds
  <2>2. Holds("pu")' = 0 /\ Holds("pd")' = 0 /\ Holds("su")' = 0 /\ Holds("sd")' = 0
    BY <1>4 DEF Holds
  <2>3. link["au"].n <= sent.up
    BY <1>1, <2>1 DEF Conserved, Up, Numbers
  <2>4. Up' <= sent'.up
    BY <1>0, <1>1, <1>2, <1>3, <2>1, <2>2, <2>3 DEF Up, Numbers
  <2>5. link'["ad"].n = 0
    BY <1>1, <1>2, <1>3 DEF Unstarted, Waiting, Kept
  <2>6. Down' <= sent'.down
    BY <1>0, <1>2, <1>3, <2>1, <2>2, <2>5 DEF Down
  <2> QED
    BY <2>4, <2>6 DEF Conserved
<1>7. Unstarted'
  BY <1>1, <1>2, <1>3, <1>4, <1>0, <1>5 DEF Unstarted, Waiting, Kept
<1>8. Ends'
  BY <1>1, <1>2, <1>3, <1>4, <1>0, <1>5 DEF Ends, Kept
<1>9. Stages'
  BY <1>1, <1>2, <1>3, <1>4, <1>0, <1>5 DEF Stages
<1>10. UpFlow'
  BY <1>1, <1>2, <1>3, <1>4, <1>0, <1>5 DEF UpFlow, Waiting, Unstarted, Up, Holds, Upload, Kept
<1>11. AppDrained'
  BY <1>1, <1>2, <1>3, <1>4, <1>0, <1>5 DEF AppDrained, Waiting, Upload
<1>12. SourceDrained'
  BY <1>1, <1>2, <1>3, <1>4, <1>0, <1>5 DEF SourceDrained, Upload
<1>13. UpWhole'
  BY <1>1, <1>2, <1>3, <1>4, <1>0, <1>5 DEF UpWhole, Upload
<1>14. UpCut'
  BY <1>1, <1>2, <1>3, <1>4, <1>0, <1>5 DEF UpCut, Up, Holds, Upload
<1>15. DownFlow'
  BY <1>1, <1>2, <1>3, <1>4, <1>0, <1>5
  DEF DownFlow, Unstarted, Waiting, Down, Holds, Download, Kept
<1>16. DownReturned'
  BY <1>1, <1>2, <1>3, <1>4, <1>0, <1>5 DEF DownReturned, Holds, Download
<1>17. DownEnded'
  BY <1>1, <1>2, <1>3, <1>4, <1>0, <1>5 DEF DownEnded, Download
<1>18. DownWhole'
  BY <1>1, <1>2, <1>3, <1>4, <1>0, <1>5 DEF DownWhole, Stages, Up, Holds, Download
<1> QED
  BY <1>5, <1>6, <1>7, <1>8, <1>9, <1>10, <1>11, <1>12, <1>13, <1>14, <1>15, <1>16, <1>17,
     <1>18
  DEF TunnelInv, Upload, Download

\* No request comes any more.
LEMMA NoMoreRequestsOK == ASSUME TunnelInv, NoMoreRequests PROVE TunnelInv'
<1>1. /\ TypeOK /\ Conserved /\ Unstarted /\ Ends /\ Stages /\ Upload /\ Download
      /\ Numbers /\ link \in Links /\ copier \in [Copier -> CopierRec]
  BY TypedNumbers DEF TunnelInv, TypeOK, Links
<1>2. /\ UNCHANGED <<mode, app, tgt, copier, server, est, reply, sent, got, dropped, lost>>
      /\ proxy = "request" /\ proxy' = "closed"
      /\ link' = Shut(link, "ad", "au")
  BY DEF NoMoreRequests, peers, Counted, EndedBy, FinishedBy, ResetBy
<1>3. /\ link' \in Links
      /\ Kept("gu") /\ Kept("gd") /\ Kept("tu") /\ Kept("td")
      /\ link'["au"].n = link["au"].n /\ link'["au"].end = link["au"].end
      /\ link'["au"].rd = TRUE
      /\ link'["ad"].n = link["ad"].n /\ link'["ad"].end = (IF link["ad"].end # "open" THEN link["ad"].end
                            ELSE IF link["au"].n > 0 THEN "err" ELSE "eof")
      /\ link'["ad"].rd = link["ad"].rd
  <2>1. "ad" \in LinkName /\ "au" \in LinkName /\ "ad" # "au"
    BY <1>1, <1>2, LinkFields, Names
  <2>2. ShutAs(link', link, "ad", "au")
    BY <1>1, <1>2, <2>1, ShutFields
  <2> QED
    BY <2>2, Names DEF ShutAs, Kept
<1>5. TypeOK' /\ Numbers'
  BY <1>1, <1>2, <1>3, TypedNumbers, Ways DEF TypeOK, Links
<1>6. Conserved'
  BY <1>1, <1>2, <1>3, <1>5 DEF Conserved, Up, Down, Holds, Kept
<1>7. Unstarted'
  BY <1>1, <1>2, <1>3, <1>5 DEF Unstarted, Waiting
<1>8. Ends'
  BY <1>1, <1>2, <1>3, <1>5 DEF Ends, Kept
<1>9. Stages'
  BY <1>1, <1>2, <1>3, <1>5 DEF Stages
<1>10. UpFlow'
  BY <1>1, <1>2, <1>3, <1>5 DEF UpFlow, Waiting, Up, Holds, Upload, Kept
<1>11. AppDrained'
  BY <1>1, <1>2, <1>3, <1>5 DEF AppDrained, Waiting, Unstarted, Upload
<1>12. SourceDrained'
  BY <1>1, <1>2, <1>3, <1>5 DEF SourceDrained, Upload, Kept
<1>13. UpWhole'
  BY <1>1, <1>2, <1>3, <1>5 DEF UpWhole, Upload, Kept
<1>14. UpCut'
  BY <1>1, <1>2, <1>3, <1>5 DEF UpCut, Up, Holds, Upload
<1>15. DownFlow'
  BY <1>1, <1>2, <1>3, <1>5 DEF DownFlow, Down, Holds, Download
<1>16. DownReturned'
  BY <1>1, <1>2, <1>3, <1>5 DEF DownReturned, Holds, Download
<1>17. DownEnded'
  BY <1>1, <1>2, <1>3, <1>5 DEF DownEnded, Download
<1>18. DownWhole'
  BY <1>1, <1>2, <1>3, <1>5 DEF DownWhole, Stages, Up, Holds, Download
<1> QED
  BY <1>5, <1>6, <1>7, <1>8, <1>9, <1>10, <1>11, <1>12, <1>13, <1>14, <1>15, <1>16, <1>17,
     <1>18
  DEF TunnelInv, Upload, Download

\* The draining goroutine throws a chunk away.
LEMMA DrainOK == ASSUME TunnelInv, Drain PROVE TunnelInv'
<1>1. /\ TypeOK /\ Conserved /\ Unstarted /\ Ends /\ Stages /\ Upload /\ Download
      /\ Numbers /\ link \in Links /\ copier \in [Copier -> CopierRec]
  BY TypedNumbers DEF TunnelInv, TypeOK, Links
<1>2. /\ UNCHANGED <<mode, app, tgt, copier, proxy, server, est, reply, sent, got, lost>>
      /\ mode # "socks" /\ link["au"].n > 0 /\ ~link["au"].rd
      /\ link' = Counted(link, "au", link["au"].n - 1)
      /\ dropped' = Dropped("drained")
  BY DEF Drain, peers, Counted, EndedBy, FinishedBy, ResetBy
<1>3. /\ link' \in Links
      /\ Kept("ad") /\ Kept("gu") /\ Kept("gd") /\ Kept("tu") /\ Kept("td")
      /\ link'["au"].n = link["au"].n - 1 /\ link'["au"].end = link["au"].end
      /\ link'["au"].rd = link["au"].rd
  <2>1. "au" \in LinkName /\ link["au"].n - 1 \in 0 .. Cap
    BY <1>1, <1>2, LinkFields, Names, TunnelAssumption
  <2>2. CountedAs(link', link, "au", link["au"].n - 1)
    BY <1>1, <1>2, <2>1, SetN
  <2> QED
    BY <2>2, Names DEF CountedAs, Kept
<1>5. TypeOK' /\ Numbers'
  BY <1>1, <1>2, <1>3, TypedNumbers, Ways DEF TypeOK, Links, Dropped
<1>6. Conserved'
  BY <1>1, <1>2, <1>3, <1>5 DEF Conserved, Up, Down, Holds, Numbers, Kept
<1>7. Unstarted'
  BY <1>1, <1>2, <1>3, <1>5 DEF Unstarted, Waiting, Kept
<1>8. Ends'
  BY <1>1, <1>2, <1>3, <1>5 DEF Ends, Kept
<1>9. Stages'
  BY <1>1, <1>2, <1>3, <1>5 DEF Stages
<1>10. UpFlow'
  BY <1>1, <1>2, <1>3, <1>5 DEF UpFlow, Waiting, Up, Holds, Upload, Dropped
<1>11. AppDrained'
  BY <1>1, <1>2, <1>3, <1>5 DEF AppDrained, Waiting, Upload
<1>12. SourceDrained'
  BY <1>1, <1>2, <1>3, <1>5 DEF SourceDrained, Upload, Kept
<1>13. UpWhole'
  BY <1>1, <1>2, <1>3, <1>5 DEF UpWhole, Upload, Dropped
<1>14. UpCut'
  BY <1>1, <1>2, <1>3, <1>5 DEF UpCut, Up, Holds, Upload
<1>15. DownFlow'
  BY <1>1, <1>2, <1>3, <1>5 DEF DownFlow, Down, Holds, Download, Kept
<1>16. DownReturned'
  BY <1>1, <1>2, <1>3, <1>5 DEF DownReturned, Holds, Download, Kept
<1>17. DownEnded'
  BY <1>1, <1>2, <1>3, <1>5 DEF DownEnded, Download, Kept
<1>18. DownWhole'
  BY <1>1, <1>2, <1>3, <1>5 DEF DownWhole, Up, Holds, Download, Kept
<1> QED
  BY <1>5, <1>6, <1>7, <1>8, <1>9, <1>10, <1>11, <1>12, <1>13, <1>14, <1>15, <1>16, <1>17,
     <1>18
  DEF TunnelInv, Upload, Download

\* The draining goroutine ends.
LEMMA DrainEndsOK == ASSUME TunnelInv, DrainEnds PROVE TunnelInv'
<1>1. /\ TypeOK /\ Conserved /\ Unstarted /\ Ends /\ Stages /\ Upload /\ Download
      /\ Numbers /\ link \in Links /\ copier \in [Copier -> CopierRec]
  BY TypedNumbers DEF TunnelInv, TypeOK, Links
<1>2. /\ UNCHANGED <<mode, app, tgt, copier, proxy, server, est, reply, sent, got, dropped, lost>>
      /\ mode # "socks" /\ ~link["au"].rd
      /\ (link["au"].n = 0 /\ link["au"].end = "eof") \/ link["au"].end = "err"
      /\ link' = Shut(link, "ad", "au")
  BY DEF DrainEnds, Ended, Broken, Tcp, peers, Counted, EndedBy, FinishedBy, ResetBy
<1>3. /\ link' \in Links
      /\ Kept("gu") /\ Kept("gd") /\ Kept("tu") /\ Kept("td")
      /\ link'["au"].n = link["au"].n /\ link'["au"].end = link["au"].end
      /\ link'["au"].rd = TRUE
      /\ link'["ad"].n = link["ad"].n /\ link'["ad"].end = (IF link["ad"].end # "open" THEN link["ad"].end
                            ELSE IF link["au"].n > 0 THEN "err" ELSE "eof")
      /\ link'["ad"].rd = link["ad"].rd
  <2>1. "ad" \in LinkName /\ "au" \in LinkName /\ "ad" # "au"
    BY <1>1, <1>2, LinkFields, Names
  <2>2. ShutAs(link', link, "ad", "au")
    BY <1>1, <1>2, <2>1, ShutFields
  <2> QED
    BY <2>2, Names DEF ShutAs, Kept
<1>5. TypeOK' /\ Numbers'
  BY <1>1, <1>2, <1>3, TypedNumbers, Ways DEF TypeOK, Links
<1>6. Conserved'
  BY <1>1, <1>2, <1>3, <1>5 DEF Conserved, Up, Down, Holds, Kept
<1>7. Unstarted'
  BY <1>1, <1>2, <1>3, <1>5 DEF Unstarted, Waiting, Kept
<1>8. Ends'
  BY <1>1, <1>2, <1>3, <1>5 DEF Ends, Kept
<1>9. Stages'
  BY <1>1, <1>2, <1>3, <1>5 DEF Stages
<1>10. UpFlow'
  BY <1>1, <1>2, <1>3, <1>5 DEF UpFlow, Waiting, Up, Holds, Upload, Kept
<1>11. AppDrained'
  BY <1>1, <1>2, <1>3, <1>5 DEF AppDrained, Waiting, Ends, Upload
<1>12. SourceDrained'
  BY <1>1, <1>2, <1>3, <1>5 DEF SourceDrained, Upload, Kept
<1>13. UpWhole'
  BY <1>1, <1>2, <1>3, <1>5 DEF UpWhole, Upload, Kept
<1>14. UpCut'
  BY <1>1, <1>2, <1>3, <1>5 DEF UpCut, Up, Holds, Upload
<1>15. DownFlow'
  BY <1>1, <1>2, <1>3, <1>5 DEF DownFlow, Down, Holds, Download
<1>16. DownReturned'
  BY <1>1, <1>2, <1>3, <1>5 DEF DownReturned, Holds, Download
<1>17. DownEnded'
  BY <1>1, <1>2, <1>3, <1>5 DEF DownEnded, Download
<1>18. DownWhole'
  BY <1>1, <1>2, <1>3, <1>5 DEF DownWhole, Ends, Up, Holds, Download
<1> QED
  BY <1>5, <1>6, <1>7, <1>8, <1>9, <1>10, <1>11, <1>12, <1>13, <1>14, <1>15, <1>16, <1>17,
     <1>18
  DEF TunnelInv, Upload, Download

\* The socks5 relay ends with the first copy that ends.
LEMMA SocksEndsOK == ASSUME TunnelInv, SocksEnds PROVE TunnelInv'
<1>1. /\ TypeOK /\ Conserved /\ Unstarted /\ Ends /\ Stages /\ Upload /\ Download
      /\ Numbers /\ link \in Links /\ copier \in [Copier -> CopierRec]
  BY TypedNumbers DEF TunnelInv, TypeOK, Links
<1>2. /\ UNCHANGED <<mode, app, tgt, copier, server, est, reply, sent, got, dropped, lost>>
      /\ mode = "socks" /\ proxy = "relay" /\ proxy' = "closed"
      /\ copier["pu"].pc = "ended" \/ copier["pd"].pc = "ended"
      /\ link' = Shut(link, "ad", "au")
  BY DEF SocksEnds, peers, Counted, EndedBy, FinishedBy, ResetBy
<1>3. /\ link' \in Links
      /\ Kept("gu") /\ Kept("gd") /\ Kept("tu") /\ Kept("td")
      /\ link'["au"].n = link["au"].n /\ link'["au"].end = link["au"].end
      /\ link'["au"].rd = TRUE
      /\ link'["ad"].n = link["ad"].n /\ link'["ad"].end = (IF link["ad"].end # "open" THEN link["ad"].end
                            ELSE IF link["au"].n > 0 THEN "err" ELSE "eof")
      /\ link'["ad"].rd = link["ad"].rd
  <2>1. "ad" \in LinkName /\ "au" \in LinkName /\ "ad" # "au"
    BY <1>1, <1>2, LinkFields, Names
  <2>2. ShutAs(link', link, "ad", "au")
    BY <1>1, <1>2, <2>1, ShutFields
  <2> QED
    BY <2>2, Names DEF ShutAs, Kept
<1>5. TypeOK' /\ Numbers'
  BY <1>1, <1>2, <1>3, TypedNumbers, Ways DEF TypeOK, Links
<1>6. Conserved'
  BY <1>1, <1>2, <1>3, <1>5 DEF Conserved, Up, Down, Holds, Kept
<1>7. Unstarted'
  BY <1>1, <1>2, <1>3, <1>5 DEF Unstarted, Waiting
<1>8. Ends'
  BY <1>1, <1>2, <1>3, <1>5 DEF Ends, Kept
<1>9. Stages'
  BY <1>1, <1>2, <1>3, <1>5 DEF Stages
<1>10. UpFlow'
  BY <1>1, <1>2, <1>3, <1>5 DEF UpFlow, Waiting, Up, Holds, Upload, Kept
<1>11. AppDrained'
  BY <1>1, <1>2, <1>3, <1>5 DEF AppDrained, Waiting, Upload
<1>12. SourceDrained'
  BY <1>1, <1>2, <1>3, <1>5 DEF SourceDrained, Upload, Kept
<1>13. UpWhole'
  BY <1>1, <1>2, <1>3, <1>5 DEF UpWhole, Upload, Kept
<1>14. UpCut'
  BY <1>1, <1>2, <1>3, <1>5 DEF UpCut, Up, Holds, Upload
<1>15. DownFlow'
  BY <1>1, <1>2, <1>3, <1>5 DEF DownFlow, Down, Holds, Download
<1>16. DownReturned'
  BY <1>1, <1>2, <1>3, <1>5 DEF DownReturned, Holds, Download
<1>17. DownEnded'
  BY <1>1, <1>2, <1>3, <1>5 DEF DownEnded, Download
<1>18. DownWhole'
  BY <1>1, <1>2, <1>3, <1>5
  DEF DownWhole, DownReturned, DownEnded, UpCut, Stages, Up, Holds, Upload, Download,
      Numbers, Kept
<1> QED
  BY <1>5, <1>6, <1>7, <1>8, <1>9, <1>10, <1>11, <1>12, <1>13, <1>14, <1>15, <1>16, <1>17,
     <1>18
  DEF TunnelInv, Upload, Download

\* The pipe closes the stream behind its copy upwards.
LEMMA PipeUpEndsOK == ASSUME TunnelInv, PipeUpEnds PROVE TunnelInv'
<1>1. /\ TypeOK /\ Conserved /\ Unstarted /\ Ends /\ Stages /\ Upload /\ Download
      /\ Numbers /\ link \in Links /\ copier \in [Copier -> CopierRec]
  BY TypedNumbers DEF TunnelInv, TypeOK, Links
<1>2. /\ UNCHANGED <<mode, app, tgt, copier, proxy, server, est, reply, sent, got, dropped, lost>>
      /\ mode # "socks" /\ proxy = "relay"
      /\ copier["pu"].pc = "ended" /\ link["gu"].end = "open"
      /\ link' = EndedBy(link, "gu", "eof")
  BY DEF PipeUpEnds, peers, Counted, EndedBy, FinishedBy, ResetBy
<1>3. /\ link' \in Links
      /\ Kept("au") /\ Kept("ad") /\ Kept("gd") /\ Kept("tu") /\ Kept("td")
      /\ link'["gu"].n = link["gu"].n /\ link'["gu"].end = "eof"
      /\ link'["gu"].rd = link["gu"].rd
  <2>1. "gu" \in LinkName
    BY <1>1, <1>2, LinkFields, Names
  <2>2. EndedAs(link', link, "gu", "eof")
    BY <1>1, <1>2, <2>1, SetHow
  <2> QED
    BY <2>2, Names DEF EndedAs, Kept
<1>5. TypeOK' /\ Numbers'
  BY <1>1, <1>2, <1>3, TypedNumbers, Ways DEF TypeOK, Links
<1>6. Conserved'
  BY <1>1, <1>2, <1>3, <1>5 DEF Conserved, Up, Down, Holds, Kept
<1>7. Unstarted'
  BY <1>1, <1>2, <1>3, <1>5 DEF Unstarted, Waiting
<1>8. Ends'
  BY <1>1, <1>2, <1>3, <1>5 DEF Ends, Kept
<1>9. Stages'
  BY <1>1, <1>2, <1>3, <1>5 DEF Stages
<1>10. UpFlow'
  BY <1>1, <1>2, <1>3, <1>5 DEF UpFlow, Waiting, Up, Holds, Upload, Kept
<1>11. AppDrained'
  BY <1>1, <1>2, <1>3, <1>5 DEF AppDrained, Waiting, Upload, Kept
<1>12. SourceDrained'
  BY <1>1, <1>2, <1>3, <1>5 DEF SourceDrained, Upload, Kept
<1>13. UpWhole'
  BY <1>1, <1>2, <1>3, <1>5 DEF UpWhole, Upload, Kept
<1>14. UpCut'
  BY <1>1, <1>2, <1>3, <1>5 DEF UpCut, Up, Holds, Upload
<1>15. DownFlow'
  BY <1>1, <1>2, <1>3, <1>5 DEF DownFlow, Down, Holds, Download, Kept
<1>16. DownReturned'
  BY <1>1, <1>2, <1>3, <1>5 DEF DownReturned, Holds, Download, Kept
<1>17. DownEnded'
  BY <1>1, <1>2, <1>3, <1>5 DEF DownEnded, Download, Kept
<1>18. DownWhole'
  BY <1>1, <1>2, <1>3, <1>5 DEF DownWhole, Up, Holds, Download, Kept
<1> QED
  BY <1>5, <1>6, <1>7, <1>8, <1>9, <1>10, <1>11, <1>12, <1>13, <1>14, <1>15, <1>16, <1>17,
     <1>18
  DEF TunnelInv, Upload, Download

\* The pipe closes the app's socket behind its copy downwards.
LEMMA PipeDownEndsOK == ASSUME TunnelInv, PipeDownEnds PROVE TunnelInv'
<1>1. /\ TypeOK /\ Conserved /\ Unstarted /\ Ends /\ Stages /\ Upload /\ Download
      /\ Numbers /\ link \in Links /\ copier \in [Copier -> CopierRec]
  BY TypedNumbers DEF TunnelInv, TypeOK, Links
<1>2. /\ UNCHANGED <<mode, app, tgt, copier, proxy, server, est, reply, sent, got, dropped, lost>>
      /\ mode # "socks" /\ proxy = "relay"
      /\ copier["pd"].pc = "ended" /\ ~link["au"].rd
      /\ link' = Shut(link, "ad", "au")
  BY DEF PipeDownEnds, peers, Counted, EndedBy, FinishedBy, ResetBy
<1>3. /\ link' \in Links
      /\ Kept("gu") /\ Kept("gd") /\ Kept("tu") /\ Kept("td")
      /\ link'["au"].n = link["au"].n /\ link'["au"].end = link["au"].end
      /\ link'["au"].rd = TRUE
      /\ link'["ad"].n = link["ad"].n /\ link'["ad"].end = (IF link["ad"].end # "open" THEN link["ad"].end
                            ELSE IF link["au"].n > 0 THEN "err" ELSE "eof")
      /\ link'["ad"].rd = link["ad"].rd
  <2>1. "ad" \in LinkName /\ "au" \in LinkName /\ "ad" # "au"
    BY <1>1, <1>2, LinkFields, Names
  <2>2. ShutAs(link', link, "ad", "au")
    BY <1>1, <1>2, <2>1, ShutFields
  <2> QED
    BY <2>2, Names DEF ShutAs, Kept
<1>5. TypeOK' /\ Numbers'
  BY <1>1, <1>2, <1>3, TypedNumbers, Ways DEF TypeOK, Links
<1>6. Conserved'
  BY <1>1, <1>2, <1>3, <1>5 DEF Conserved, Up, Down, Holds, Kept
<1>7. Unstarted'
  BY <1>1, <1>2, <1>3, <1>5 DEF Unstarted, Waiting
<1>8. Ends'
  BY <1>1, <1>2, <1>3, <1>5 DEF Ends, Kept
<1>9. Stages'
  BY <1>1, <1>2, <1>3, <1>5 DEF Stages
<1>10. UpFlow'
  BY <1>1, <1>2, <1>3, <1>5 DEF UpFlow, Waiting, Up, Holds, Upload, Kept
<1>11. AppDrained'
  BY <1>1, <1>2, <1>3, <1>5 DEF AppDrained, Waiting, Ends, DownEnded, Upload, Download
<1>12. SourceDrained'
  BY <1>1, <1>2, <1>3, <1>5 DEF SourceDrained, Upload, Kept
<1>13. UpWhole'
  BY <1>1, <1>2, <1>3, <1>5 DEF UpWhole, Upload, Kept
<1>14. UpCut'
  BY <1>1, <1>2, <1>3, <1>5 DEF UpCut, Up, Holds, Upload
<1>15. DownFlow'
  BY <1>1, <1>2, <1>3, <1>5 DEF DownFlow, Down, Holds, Download
<1>16. DownReturned'
  BY <1>1, <1>2, <1>3, <1>5 DEF DownReturned, Holds, Download
<1>17. DownEnded'
  BY <1>1, <1>2, <1>3, <1>5 DEF DownEnded, Download
<1>18. DownWhole'
  BY <1>1, <1>2, <1>3, <1>5
  DEF DownWhole, DownReturned, DownEnded, Stages, Up, Holds, Download, Numbers
<1> QED
  BY <1>5, <1>6, <1>7, <1>8, <1>9, <1>10, <1>11, <1>12, <1>13, <1>14, <1>15, <1>16, <1>17,
     <1>18
  DEF TunnelInv, Upload, Download

\* The pipe ends.
LEMMA PipeEndsOK == ASSUME TunnelInv, PipeEnds PROVE TunnelInv'
<1>1. /\ TypeOK /\ Conserved /\ Unstarted /\ Ends /\ Stages /\ Upload /\ Download
      /\ Numbers /\ link \in Links /\ copier \in [Copier -> CopierRec]
  BY TypedNumbers DEF TunnelInv, TypeOK, Links
<1>2. /\ UNCHANGED <<mode, app, tgt, link, copier, server, est, reply, sent, got, dropped, lost>>
      /\ mode # "socks" /\ proxy = "relay" /\ proxy' = "closed"
  BY DEF PipeEnds, peers
<1>5. TypeOK' /\ Numbers'
  BY <1>1, <1>2, TypedNumbers, Ways DEF TypeOK, Links
<1>6. Conserved'
  BY <1>1, <1>2, <1>5 DEF Conserved, Up, Down, Holds
<1>7. Unstarted'
  BY <1>1, <1>2, <1>5 DEF Unstarted, Waiting
<1>8. Ends'
  BY <1>1, <1>2, <1>5 DEF Ends
<1>9. Stages'
  BY <1>1, <1>2, <1>5 DEF Stages
<1>10. UpFlow'
  BY <1>1, <1>2, <1>5 DEF UpFlow, Waiting, Up, Holds, Upload
<1>11. AppDrained'
  BY <1>1, <1>2, <1>5 DEF AppDrained, Waiting, Upload
<1>12. SourceDrained'
  BY <1>1, <1>2, <1>5 DEF SourceDrained, Upload
<1>13. UpWhole'
  BY <1>1, <1>2, <1>5 DEF UpWhole, Upload
<1>14. UpCut'
  BY <1>1, <1>2, <1>5 DEF UpCut, Up, Holds, Upload
<1>15. DownFlow'
  BY <1>1, <1>2, <1>5 DEF DownFlow, Down, Holds, Download
<1>16. DownReturned'
  BY <1>1, <1>2, <1>5 DEF DownReturned, Holds, Download
<1>17. DownEnded'
  BY <1>1, <1>2, <1>5 DEF DownEnded, Download
<1>18. DownWhole'
  BY <1>1, <1>2, <1>5 DEF DownWhole, Up, Holds, Download
<1> QED
  BY <1>5, <1>6, <1>7, <1>8, <1>9, <1>10, <1>11, <1>12, <1>13, <1>14, <1>15, <1>16, <1>17,
     <1>18
  DEF TunnelInv, Upload, Download

\* The connection under the stream breaks.
LEMMA LoseOK == ASSUME TunnelInv, Lose PROVE TunnelInv'
<1>1. /\ TypeOK /\ Conserved /\ Unstarted /\ Ends /\ Stages /\ Upload /\ Download
      /\ Numbers /\ link \in Links /\ copier \in [Copier -> CopierRec]
  BY TypedNumbers DEF TunnelInv, TypeOK, Links
<1>2. /\ UNCHANGED <<mode, app, tgt, copier, proxy, server, reply, sent, got, dropped>>
      /\ server # "returned" /\ lost' /\ lost' \in BOOLEAN /\ est' = (est /\ proxy # "dialing")
      /\ link' = [link EXCEPT !["gu"] = [@ EXCEPT !.n = 0, !.end = "err"],
                           !["gd"] = [@ EXCEPT !.n = 0, !.end = "err"]]
  BY DEF Lose, peers, Counted, EndedBy, FinishedBy, ResetBy
<1>3. /\ link' \in Links
      /\ Kept("au") /\ Kept("ad") /\ Kept("tu") /\ Kept("td")
      /\ link'["gu"].n = 0 /\ link'["gu"].end = "err"
      /\ link'["gu"].rd = link["gu"].rd
      /\ link'["gd"].n = 0 /\ link'["gd"].end = "err"
      /\ link'["gd"].rd = link["gd"].rd
  <2> DEFINE u == [link["gu"] EXCEPT !.n = 0, !.end = "err"]
             d == [link["gd"] EXCEPT !.n = 0, !.end = "err"]
  <2>1. "gu" \in LinkName /\ "gd" \in LinkName
    BY Names
  <2>2. /\ u \in LinkRec /\ u.n = 0 /\ u.end = "err" /\ u.rd = link["gu"].rd
        /\ d \in LinkRec /\ d.n = 0 /\ d.end = "err" /\ d.rd = link["gd"].rd
    BY <1>1, <2>1, LinkFields, LostFields
  <2>3. link' = [link EXCEPT !["gu"] = u, !["gd"] = d]
    BY <1>2
  <2> HIDE DEF u, d
  <2> QED
    BY <1>1, <2>1, <2>2, <2>3, Names DEF Links, Kept
<1>5. TypeOK' /\ Numbers'
  BY <1>1, <1>2, <1>3, TypedNumbers, Ways DEF TypeOK, Links
<1>6. Conserved'
  BY <1>1, <1>2, <1>3, <1>5 DEF Conserved, Up, Down, Holds, Numbers, Kept
<1>7. Unstarted'
  BY <1>1, <1>2, <1>3, <1>5 DEF Unstarted, Waiting, Kept
<1>8. Ends'
  BY <1>1, <1>2, <1>3, <1>5 DEF Ends, Kept
<1>9. Stages'
  BY <1>1, <1>2, <1>3, <1>5 DEF Stages
<1>10. UpFlow'
  BY <1>1, <1>2, <1>3, <1>5 DEF UpFlow, Waiting, Up, Holds, Upload, Kept
<1>11. AppDrained'
  BY <1>1, <1>2, <1>3, <1>5 DEF AppDrained, Waiting, Upload, Kept
<1>12. SourceDrained'
  BY <1>1, <1>2, <1>3, <1>5 DEF SourceDrained, Upload
<1>13. UpWhole'
  BY <1>1, <1>2, <1>3, <1>5 DEF UpWhole, Upload
<1>14. UpCut'
  BY <1>1, <1>2, <1>3, <1>5 DEF UpCut, Up, Holds, Upload, Numbers, Kept
<1>15. DownFlow'
  BY <1>1, <1>2, <1>3, <1>5 DEF DownFlow, Down, Holds, Download
<1>16. DownReturned'
  BY <1>1, <1>2, <1>3, <1>5 DEF DownReturned, Holds, Download
<1>17. DownEnded'
  BY <1>1, <1>2, <1>3, <1>5 DEF DownEnded, Download
<1>18. DownWhole'
  BY <1>1, <1>2, <1>3, <1>5 DEF DownWhole, Up, Holds, Download
<1> QED
  BY <1>5, <1>6, <1>7, <1>8, <1>9, <1>10, <1>11, <1>12, <1>13, <1>14, <1>15, <1>16, <1>17,
     <1>18
  DEF TunnelInv, Upload, Download

\* The app sends.
LEMMA AppSendsOK == ASSUME TunnelInv, AppSends PROVE TunnelInv'
<1>1. /\ TypeOK /\ Conserved /\ Unstarted /\ Ends /\ Stages /\ Upload /\ Download
      /\ Numbers /\ link \in Links /\ copier \in [Copier -> CopierRec]
  BY TypedNumbers DEF TunnelInv, TypeOK, Links
<1>2. /\ UNCHANGED <<mode, app, tgt, copier, proxy, server, est, reply, got, dropped, lost>>
      /\ app = "open" /\ sent.up < MaxSend
      /\ link["au"].n < Cap /\ link["au"].end = "open" /\ ~link["au"].rd
      /\ link' = Counted(link, "au", link["au"].n + 1)
      /\ sent' = [sent EXCEPT !["up"] = sent["up"] + 1]
  BY DEF AppSends, Counted, EndedBy, FinishedBy, ResetBy
<1>3. /\ link' \in Links
      /\ Kept("ad") /\ Kept("gu") /\ Kept("gd") /\ Kept("tu") /\ Kept("td")
      /\ link'["au"].n = link["au"].n + 1 /\ link'["au"].end = link["au"].end
      /\ link'["au"].rd = link["au"].rd
  <2>1. "au" \in LinkName /\ link["au"].n + 1 \in 0 .. Cap
    BY <1>1, <1>2, LinkFields, Names, TunnelAssumption
  <2>2. CountedAs(link', link, "au", link["au"].n + 1)
    BY <1>1, <1>2, <2>1, SetN
  <2> QED
    BY <2>2, Names DEF CountedAs, Kept
<1>4. /\ sent'.up = sent.up + 1 /\ sent'.down = sent.down
      /\ sent' \in [{"up", "down"} -> 0 .. MaxSend]
  BY <1>1, <1>2, Grows DEF TypeOK
<1>5. TypeOK' /\ Numbers'
  BY <1>1, <1>2, <1>3, <1>4, TypedNumbers, Ways DEF TypeOK, Links
<1>6. Conserved'
  BY <1>1, <1>2, <1>3, <1>4, <1>5 DEF Conserved, Up, Down, Holds, Numbers, Kept
<1>7. Unstarted'
  BY <1>1, <1>2, <1>3, <1>4, <1>5 DEF Unstarted, Waiting, Kept
<1>8. Ends'
  BY <1>1, <1>2, <1>3, <1>4, <1>5 DEF Ends, Kept
<1>9. Stages'
  BY <1>1, <1>2, <1>3, <1>4, <1>5 DEF Stages
<1>10. UpFlow'
  BY <1>1, <1>2, <1>3, <1>4, <1>5 DEF UpFlow, Waiting, Up, Holds, Upload, Numbers, Kept
<1>11. AppDrained'
  BY <1>1, <1>2, <1>3, <1>4, <1>5 DEF AppDrained, Waiting, Upload
<1>12. SourceDrained'
  BY <1>1, <1>2, <1>3, <1>4, <1>5 DEF SourceDrained, Upload, Kept
<1>13. UpWhole'
  BY <1>1, <1>2, <1>3, <1>4, <1>5 DEF UpWhole, Upload, Kept
<1>14. UpCut'
  BY <1>1, <1>2, <1>3, <1>4, <1>5 DEF UpCut, Up, Holds, Upload, Numbers, Kept
<1>15. DownFlow'
  BY <1>1, <1>2, <1>3, <1>4, <1>5 DEF DownFlow, Down, Holds, Download, Kept
<1>16. DownReturned'
  BY <1>1, <1>2, <1>3, <1>4, <1>5 DEF DownReturned, Holds, Download, Kept
<1>17. DownEnded'
  BY <1>1, <1>2, <1>3, <1>4, <1>5 DEF DownEnded, Download, Kept
<1>18. DownWhole'
  BY <1>1, <1>2, <1>3, <1>4, <1>5 DEF DownWhole, Up, Holds, Download, Numbers, Kept
<1> QED
  BY <1>5, <1>6, <1>7, <1>8, <1>9, <1>10, <1>11, <1>12, <1>13, <1>14, <1>15, <1>16, <1>17,
     <1>18
  DEF TunnelInv, Upload, Download

\* The app ends its upload.
LEMMA AppEndsUploadOK == ASSUME TunnelInv, AppEndsUpload PROVE TunnelInv'
<1>1. /\ TypeOK /\ Conserved /\ Unstarted /\ Ends /\ Stages /\ Upload /\ Download
      /\ Numbers /\ link \in Links /\ copier \in [Copier -> CopierRec]
  BY TypedNumbers DEF TunnelInv, TypeOK, Links
<1>2. /\ UNCHANGED <<mode, tgt, copier, proxy, server, est, reply, sent, got, dropped, lost>>
      /\ app = "open" /\ app' = "half"
      /\ link' = FinishedBy(link, "au", "eof")
  BY DEF AppEndsUpload, Counted, EndedBy, FinishedBy, ResetBy
<1>3. /\ link' \in Links
      /\ Kept("ad") /\ Kept("gu") /\ Kept("gd") /\ Kept("tu") /\ Kept("td")
      /\ link'["au"].n = link["au"].n
      /\ link'["au"].end = (IF link["au"].end = "open" THEN "eof" ELSE link["au"].end)
      /\ link'["au"].rd = link["au"].rd
  <2>1. "au" \in LinkName
    BY <1>1, <1>2, LinkFields, Names
  <2>2. FinishedAs(link', link, "au", "eof")
    BY <1>1, <1>2, <2>1, SetEnd
  <2> QED
    BY <2>2, Names DEF FinishedAs, Kept
<1>5. TypeOK' /\ Numbers'
  BY <1>1, <1>2, <1>3, TypedNumbers, Ways DEF TypeOK, Links
<1>6. Conserved'
  BY <1>1, <1>2, <1>3, <1>5 DEF Conserved, Up, Down, Holds, Kept
<1>7. Unstarted'
  BY <1>1, <1>2, <1>3, <1>5 DEF Unstarted, Waiting, Kept
<1>8. Ends'
  BY <1>1, <1>2, <1>3, <1>5 DEF Ends, Kept
<1>9. Stages'
  BY <1>1, <1>2, <1>3, <1>5 DEF Stages
<1>10. UpFlow'
  BY <1>1, <1>2, <1>3, <1>5 DEF UpFlow, Waiting, Up, Holds, Upload, Kept
<1>11. AppDrained'
  BY <1>1, <1>2, <1>3, <1>5 DEF AppDrained, Waiting, Upload
<1>12. SourceDrained'
  BY <1>1, <1>2, <1>3, <1>5 DEF SourceDrained, Upload, Kept
<1>13. UpWhole'
  BY <1>1, <1>2, <1>3, <1>5 DEF UpWhole, Upload, Kept
<1>14. UpCut'
  BY <1>1, <1>2, <1>3, <1>5 DEF UpCut, Up, Holds, Upload
<1>15. DownFlow'
  BY <1>1, <1>2, <1>3, <1>5 DEF DownFlow, Down, Holds, Download, Kept
<1>16. DownReturned'
  BY <1>1, <1>2, <1>3, <1>5 DEF DownReturned, Holds, Download
<1>17. DownEnded'
  BY <1>1, <1>2, <1>3, <1>5 DEF DownEnded, Download, Kept
<1>18. DownWhole'
  BY <1>1, <1>2, <1>3, <1>5 DEF DownWhole, Up, Holds, Download
<1> QED
  BY <1>5, <1>6, <1>7, <1>8, <1>9, <1>10, <1>11, <1>12, <1>13, <1>14, <1>15, <1>16, <1>17,
     <1>18
  DEF TunnelInv, Upload, Download

\* The app closes its socket.
LEMMA AppClosesOK == ASSUME TunnelInv, AppCloses PROVE TunnelInv'
<1>1. /\ TypeOK /\ Conserved /\ Unstarted /\ Ends /\ Stages /\ Upload /\ Download
      /\ Numbers /\ link \in Links /\ copier \in [Copier -> CopierRec]
  BY TypedNumbers DEF TunnelInv, TypeOK, Links
<1>2. /\ UNCHANGED <<mode, tgt, copier, proxy, server, est, reply, sent, got, dropped, lost>>
      /\ app # "closed" /\ app' = "closed"
      /\ link' = Shut(link, "au", "ad")
  BY DEF AppCloses, Counted, EndedBy, FinishedBy, ResetBy
<1>3. /\ link' \in Links
      /\ Kept("gu") /\ Kept("gd") /\ Kept("tu") /\ Kept("td")
      /\ link'["au"].n = link["au"].n /\ link'["au"].end = (IF link["au"].end # "open" THEN link["au"].end
                            ELSE IF link["ad"].n > 0 THEN "err" ELSE "eof")
      /\ link'["au"].rd = link["au"].rd
      /\ link'["ad"].n = link["ad"].n /\ link'["ad"].end = link["ad"].end
      /\ link'["ad"].rd = TRUE
  <2>1. "au" \in LinkName /\ "ad" \in LinkName /\ "au" # "ad"
    BY <1>1, <1>2, LinkFields, Names
  <2>2. ShutAs(link', link, "au", "ad")
    BY <1>1, <1>2, <2>1, ShutFields
  <2> QED
    BY <2>2, Names DEF ShutAs, Kept
<1>5. TypeOK' /\ Numbers'
  BY <1>1, <1>2, <1>3, TypedNumbers, Ways DEF TypeOK, Links
<1>6. Conserved'
  BY <1>1, <1>2, <1>3, <1>5 DEF Conserved, Up, Down, Holds, Kept
<1>7. Unstarted'
  BY <1>1, <1>2, <1>3, <1>5 DEF Unstarted, Waiting, Kept
<1>8. Ends'
  BY <1>1, <1>2, <1>3, <1>5 DEF Ends, Kept
<1>9. Stages'
  BY <1>1, <1>2, <1>3, <1>5 DEF Stages
<1>10. UpFlow'
  BY <1>1, <1>2, <1>3, <1>5 DEF UpFlow, Waiting, Up, Holds, Upload, Kept
<1>11. AppDrained'
  BY <1>1, <1>2, <1>3, <1>5 DEF AppDrained, Waiting, Upload
<1>12. SourceDrained'
  BY <1>1, <1>2, <1>3, <1>5 DEF SourceDrained, Upload, Kept
<1>13. UpWhole'
  BY <1>1, <1>2, <1>3, <1>5 DEF UpWhole, Upload
<1>14. UpCut'
  BY <1>1, <1>2, <1>3, <1>5 DEF UpCut, Up, Holds, Upload
<1>15. DownFlow'
  BY <1>1, <1>2, <1>3, <1>5 DEF DownFlow, Down, Holds, Download
<1>16. DownReturned'
  BY <1>1, <1>2, <1>3, <1>5 DEF DownReturned, Holds, Download
<1>17. DownEnded'
  BY <1>1, <1>2, <1>3, <1>5 DEF DownEnded, Download
<1>18. DownWhole'
  BY <1>1, <1>2, <1>3, <1>5 DEF DownWhole, Up, Holds, Download
<1> QED
  BY <1>5, <1>6, <1>7, <1>8, <1>9, <1>10, <1>11, <1>12, <1>13, <1>14, <1>15, <1>16, <1>17,
     <1>18
  DEF TunnelInv, Upload, Download

\* The app receives.
LEMMA AppReadsOK == ASSUME TunnelInv, AppReads PROVE TunnelInv'
<1>1. /\ TypeOK /\ Conserved /\ Unstarted /\ Ends /\ Stages /\ Upload /\ Download
      /\ Numbers /\ link \in Links /\ copier \in [Copier -> CopierRec]
  BY TypedNumbers DEF TunnelInv, TypeOK, Links
<1>2. /\ UNCHANGED <<mode, app, tgt, copier, proxy, server, est, reply, sent, dropped, lost>>
      /\ app # "closed"
      /\ link["ad"].n > 0
      /\ link' = Counted(link, "ad", link["ad"].n - 1)
      /\ got' = [got EXCEPT !["down"] = got["down"] + 1]
  BY DEF AppReads, Counted, EndedBy, FinishedBy, ResetBy
<1>3. /\ link' \in Links
      /\ Kept("au") /\ Kept("gu") /\ Kept("gd") /\ Kept("tu") /\ Kept("td")
      /\ link'["ad"].n = link["ad"].n - 1 /\ link'["ad"].end = link["ad"].end
      /\ link'["ad"].rd = link["ad"].rd
  <2>1. "ad" \in LinkName /\ link["ad"].n - 1 \in 0 .. Cap
    BY <1>1, <1>2, LinkFields, Names, TunnelAssumption
  <2>2. CountedAs(link', link, "ad", link["ad"].n - 1)
    BY <1>1, <1>2, <2>1, SetN
  <2> QED
    BY <2>2, Names DEF CountedAs, Kept
<1>4. /\ got'.down = got.down + 1 /\ got'.up = got.up
      /\ got' \in [{"up", "down"} -> 0 .. MaxSend]
  <2>1. got.down + link["ad"].n <= sent.down
    BY <1>1 DEF Conserved, Up, Down, Holds, Numbers
  <2>2. sent.down \in 0 .. MaxSend
    BY <1>1, Ways DEF TypeOK
  <2>3. got["down"] < MaxSend
    BY <1>1, <1>2, <2>1, <2>2, TunnelAssumption DEF Numbers
  <2> QED
    BY <1>1, <1>2, <2>3, Grows DEF TypeOK
<1>5. TypeOK' /\ Numbers'
  BY <1>1, <1>2, <1>3, <1>4, TypedNumbers, Ways DEF TypeOK, Links
<1>6. Conserved'
  BY <1>1, <1>2, <1>3, <1>4, <1>5 DEF Conserved, Up, Down, Holds, Numbers, Kept
<1>7. Unstarted'
  BY <1>1, <1>2, <1>3, <1>4, <1>5 DEF Unstarted, Waiting
<1>8. Ends'
  BY <1>1, <1>2, <1>3, <1>4, <1>5 DEF Ends, Kept
<1>9. Stages'
  BY <1>1, <1>2, <1>3, <1>4, <1>5 DEF Stages
<1>10. UpFlow'
  BY <1>1, <1>2, <1>3, <1>4, <1>5 DEF UpFlow, Waiting, Up, Holds, Upload, Kept
<1>11. AppDrained'
  BY <1>1, <1>2, <1>3, <1>4, <1>5 DEF AppDrained, Waiting, Upload, Kept
<1>12. SourceDrained'
  BY <1>1, <1>2, <1>3, <1>4, <1>5 DEF SourceDrained, Upload, Kept
<1>13. UpWhole'
  BY <1>1, <1>2, <1>3, <1>4, <1>5 DEF UpWhole, Upload, Kept
<1>14. UpCut'
  BY <1>1, <1>2, <1>3, <1>4, <1>5 DEF UpCut, Up, Holds, Upload, Kept
<1>15. DownFlow'
  BY <1>1, <1>2, <1>3, <1>4, <1>5 DEF DownFlow, Down, Holds, Download, Numbers, Kept
<1>16. DownReturned'
  BY <1>1, <1>2, <1>3, <1>4, <1>5 DEF DownReturned, Holds, Download, Numbers, Kept
<1>17. DownEnded'
  BY <1>1, <1>2, <1>3, <1>4, <1>5 DEF DownEnded, Download, Kept
<1>18. DownWhole'
  BY <1>1, <1>2, <1>3, <1>4, <1>5 DEF DownWhole, Up, Holds, Download, Numbers, Kept
<1> QED
  BY <1>5, <1>6, <1>7, <1>8, <1>9, <1>10, <1>11, <1>12, <1>13, <1>14, <1>15, <1>16, <1>17,
     <1>18
  DEF TunnelInv, Upload, Download

\* The target sends.
LEMMA TargetSendsOK == ASSUME TunnelInv, TargetSends PROVE TunnelInv'
<1>1. /\ TypeOK /\ Conserved /\ Unstarted /\ Ends /\ Stages /\ Upload /\ Download
      /\ Numbers /\ link \in Links /\ copier \in [Copier -> CopierRec]
  BY TypedNumbers DEF TunnelInv, TypeOK, Links
<1>2. /\ UNCHANGED <<mode, app, tgt, copier, proxy, server, est, reply, got, dropped, lost>>
      /\ tgt = "open" /\ sent.down < MaxSend
      /\ link["td"].n < Cap /\ link["td"].end = "open" /\ ~link["td"].rd
      /\ link' = Counted(link, "td", link["td"].n + 1)
      /\ sent' = [sent EXCEPT !["down"] = sent["down"] + 1]
  BY DEF TargetSends, Counted, EndedBy, FinishedBy, ResetBy
<1>3. /\ link' \in Links
      /\ Kept("au") /\ Kept("ad") /\ Kept("gu") /\ Kept("gd") /\ Kept("tu")
      /\ link'["td"].n = link["td"].n + 1 /\ link'["td"].end = link["td"].end
      /\ link'["td"].rd = link["td"].rd
  <2>1. "td" \in LinkName /\ link["td"].n + 1 \in 0 .. Cap
    BY <1>1, <1>2, LinkFields, Names, TunnelAssumption
  <2>2. CountedAs(link', link, "td", link["td"].n + 1)
    BY <1>1, <1>2, <2>1, SetN
  <2> QED
    BY <2>2, Names DEF CountedAs, Kept
<1>4. /\ sent'.down = sent.down + 1 /\ sent'.up = sent.up
      /\ sent' \in [{"up", "down"} -> 0 .. MaxSend]
  BY <1>1, <1>2, Grows DEF TypeOK
<1>5. TypeOK' /\ Numbers'
  BY <1>1, <1>2, <1>3, <1>4, TypedNumbers, Ways DEF TypeOK, Links
<1>6. Conserved'
  BY <1>1, <1>2, <1>3, <1>4, <1>5 DEF Conserved, Up, Down, Holds, Numbers, Kept
<1>7. Unstarted'
  BY <1>1, <1>2, <1>3, <1>4, <1>5 DEF Unstarted, Waiting, Kept
<1>8. Ends'
  BY <1>1, <1>2, <1>3, <1>4, <1>5 DEF Ends, Kept
<1>9. Stages'
  BY <1>1, <1>2, <1>3, <1>4, <1>5 DEF Stages
<1>10. UpFlow'
  BY <1>1, <1>2, <1>3, <1>4, <1>5 DEF UpFlow, Waiting, Up, Holds, Upload, Kept
<1>11. AppDrained'
  BY <1>1, <1>2, <1>3, <1>4, <1>5 DEF AppDrained, Waiting, Upload, Kept
<1>12. SourceDrained'
  BY <1>1, <1>2, <1>3, <1>4, <1>5 DEF SourceDrained, Upload, Kept
<1>13. UpWhole'
  BY <1>1, <1>2, <1>3, <1>4, <1>5 DEF UpWhole, Upload, Kept
<1>14. UpCut'
  BY <1>1, <1>2, <1>3, <1>4, <1>5 DEF UpCut, Up, Holds, Upload, Kept
<1>15. DownFlow'
  BY <1>1, <1>2, <1>3, <1>4, <1>5 DEF DownFlow, Down, Holds, Download, Numbers, Kept
<1>16. DownReturned'
  BY <1>1, <1>2, <1>3, <1>4, <1>5 DEF DownReturned, Holds, Download, Kept
<1>17. DownEnded'
  BY <1>1, <1>2, <1>3, <1>4, <1>5 DEF DownEnded, Download, Kept
<1>18. DownWhole'
  BY <1>1, <1>2, <1>3, <1>4, <1>5 DEF DownWhole, Up, Holds, Download, Kept
<1> QED
  BY <1>5, <1>6, <1>7, <1>8, <1>9, <1>10, <1>11, <1>12, <1>13, <1>14, <1>15, <1>16, <1>17,
     <1>18
  DEF TunnelInv, Upload, Download

\* The target ends its download.
LEMMA TargetEndsDownloadOK == ASSUME TunnelInv, TargetEndsDownload PROVE TunnelInv'
<1>1. /\ TypeOK /\ Conserved /\ Unstarted /\ Ends /\ Stages /\ Upload /\ Download
      /\ Numbers /\ link \in Links /\ copier \in [Copier -> CopierRec]
  BY TypedNumbers DEF TunnelInv, TypeOK, Links
<1>2. /\ UNCHANGED <<mode, app, copier, proxy, server, est, reply, sent, got, dropped, lost>>
      /\ tgt = "open" /\ tgt' = "half"
      /\ link' = FinishedBy(link, "td", "eof")
  BY DEF TargetEndsDownload, Counted, EndedBy, FinishedBy, ResetBy
<1>3. /\ link' \in Links
      /\ Kept("au") /\ Kept("ad") /\ Kept("gu") /\ Kept("gd") /\ Kept("tu")
      /\ link'["td"].n = link["td"].n
      /\ link'["td"].end = (IF link["td"].end = "open" THEN "eof" ELSE link["td"].end)
      /\ link'["td"].rd = link["td"].rd
  <2>1. "td" \in LinkName
    BY <1>1, <1>2, LinkFields, Names
  <2>2. FinishedAs(link', link, "td", "eof")
    BY <1>1, <1>2, <2>1, SetEnd
  <2> QED
    BY <2>2, Names DEF FinishedAs, Kept
<1>5. TypeOK' /\ Numbers'
  BY <1>1, <1>2, <1>3, TypedNumbers, Ways DEF TypeOK, Links
<1>6. Conserved'
  BY <1>1, <1>2, <1>3, <1>5 DEF Conserved, Up, Down, Holds, Kept
<1>7. Unstarted'
  BY <1>1, <1>2, <1>3, <1>5 DEF Unstarted, Waiting, Kept
<1>8. Ends'
  BY <1>1, <1>2, <1>3, <1>5 DEF Ends, Kept
<1>9. Stages'
  BY <1>1, <1>2, <1>3, <1>5 DEF Stages
<1>10. UpFlow'
  BY <1>1, <1>2, <1>3, <1>5 DEF UpFlow, Waiting, Up, Holds, Upload, Kept
<1>11. AppDrained'
  BY <1>1, <1>2, <1>3, <1>5 DEF AppDrained, Waiting, Upload, Kept
<1>12. SourceDrained'
  BY <1>1, <1>2, <1>3, <1>5 DEF SourceDrained, Upload, Kept
<1>13. UpWhole'
  BY <1>1, <1>2, <1>3, <1>5 DEF UpWhole, Upload
<1>14. UpCut'
  BY <1>1, <1>2, <1>3, <1>5 DEF UpCut, Up, Holds, Upload, Kept
<1>15. DownFlow'
  BY <1>1, <1>2, <1>3, <1>5 DEF DownFlow, Down, Holds, Download, Kept
<1>16. DownReturned'
  BY <1>1, <1>2, <1>3, <1>5 DEF DownReturned, Holds, Download, Kept
<1>17. DownEnded'
  BY <1>1, <1>2, <1>3, <1>5 DEF DownEnded, Download, Kept
<1>18. DownWhole'
  BY <1>1, <1>2, <1>3, <1>5 DEF DownWhole, Up, Holds, Download, Kept
<1> QED
  BY <1>5, <1>6, <1>7, <1>8, <1>9, <1>10, <1>11, <1>12, <1>13, <1>14, <1>15, <1>16, <1>17,
     <1>18
  DEF TunnelInv, Upload, Download

\* The target closes its socket.
LEMMA TargetClosesOK == ASSUME TunnelInv, TargetCloses PROVE TunnelInv'
<1>1. /\ TypeOK /\ Conserved /\ Unstarted /\ Ends /\ Stages /\ Upload /\ Download
      /\ Numbers /\ link \in Links /\ copier \in [Copier -> CopierRec]
  BY TypedNumbers DEF TunnelInv, TypeOK, Links
<1>2. /\ UNCHANGED <<mode, app, copier, proxy, server, est, reply, sent, got, dropped, lost>>
      /\ tgt \in {"open", "half"} /\ tgt' = "closed"
      /\ link' = Shut(link, "td", "tu")
  BY DEF TargetCloses, Counted, EndedBy, FinishedBy, ResetBy
<1>3. /\ link' \in Links
      /\ Kept("au") /\ Kept("ad") /\ Kept("gu") /\ Kept("gd")
      /\ link'["tu"].n = link["tu"].n /\ link'["tu"].end = link["tu"].end
      /\ link'["tu"].rd = TRUE
      /\ link'["td"].n = link["td"].n /\ link'["td"].end = (IF link["td"].end # "open" THEN link["td"].end
                            ELSE IF link["tu"].n > 0 THEN "err" ELSE "eof")
      /\ link'["td"].rd = link["td"].rd
  <2>1. "td" \in LinkName /\ "tu" \in LinkName /\ "td" # "tu"
    BY <1>1, <1>2, LinkFields, Names
  <2>2. ShutAs(link', link, "td", "tu")
    BY <1>1, <1>2, <2>1, ShutFields
  <2> QED
    BY <2>2, Names DEF ShutAs, Kept
<1>5. TypeOK' /\ Numbers'
  BY <1>1, <1>2, <1>3, TypedNumbers, Ways DEF TypeOK, Links
<1>6. Conserved'
  BY <1>1, <1>2, <1>3, <1>5 DEF Conserved, Up, Down, Holds, Kept
<1>7. Unstarted'
  BY <1>1, <1>2, <1>3, <1>5 DEF Unstarted, Waiting, Kept
<1>8. Ends'
  BY <1>1, <1>2, <1>3, <1>5 DEF Ends, Kept
<1>9. Stages'
  BY <1>1, <1>2, <1>3, <1>5 DEF Stages
<1>10. UpFlow'
  BY <1>1, <1>2, <1>3, <1>5 DEF UpFlow, Waiting, Up, Holds, Upload, Kept
<1>11. AppDrained'
  BY <1>1, <1>2, <1>3, <1>5 DEF AppDrained, Waiting, Upload, Kept
<1>12. SourceDrained'
  BY <1>1, <1>2, <1>3, <1>5 DEF SourceDrained, Upload
<1>13. UpWhole'
  BY <1>1, <1>2, <1>3, <1>5 DEF UpWhole, Upload
<1>14. UpCut'
  BY <1>1, <1>2, <1>3, <1>5 DEF UpCut, Up, Holds, Upload, Kept
<1>15. DownFlow'
  BY <1>1, <1>2, <1>3, <1>5 DEF DownFlow, Down, Holds, Download, Kept
<1>16. DownReturned'
  BY <1>1, <1>2, <1>3, <1>5 DEF DownReturned, Holds, Download
<1>17. DownEnded'
  BY <1>1, <1>2, <1>3, <1>5 DEF DownEnded, Download, Kept
<1>18. DownWhole'
  BY <1>1, <1>2, <1>3, <1>5 DEF DownWhole, Up, Holds, Download
<1> QED
  BY <1>5, <1>6, <1>7, <1>8, <1>9, <1>10, <1>11, <1>12, <1>13, <1>14, <1>15, <1>16, <1>17,
     <1>18
  DEF TunnelInv, Upload, Download

\* The target receives.
LEMMA TargetReadsOK == ASSUME TunnelInv, TargetReads PROVE TunnelInv'
<1>1. /\ TypeOK /\ Conserved /\ Unstarted /\ Ends /\ Stages /\ Upload /\ Download
      /\ Numbers /\ link \in Links /\ copier \in [Copier -> CopierRec]
  BY TypedNumbers DEF TunnelInv, TypeOK, Links
<1>2. /\ UNCHANGED <<mode, app, tgt, copier, proxy, server, est, reply, sent, dropped, lost>>
      /\ tgt \in {"open", "half"}
      /\ link["tu"].n > 0
      /\ link' = Counted(link, "tu", link["tu"].n - 1)
      /\ got' = [got EXCEPT !["up"] = got["up"] + 1]
  BY DEF TargetReads, Counted, EndedBy, FinishedBy, ResetBy
<1>3. /\ link' \in Links
      /\ Kept("au") /\ Kept("ad") /\ Kept("gu") /\ Kept("gd") /\ Kept("td")
      /\ link'["tu"].n = link["tu"].n - 1 /\ link'["tu"].end = link["tu"].end
      /\ link'["tu"].rd = link["tu"].rd
  <2>1. "tu" \in LinkName /\ link["tu"].n - 1 \in 0 .. Cap
    BY <1>1, <1>2, LinkFields, Names, TunnelAssumption
  <2>2. CountedAs(link', link, "tu", link["tu"].n - 1)
    BY <1>1, <1>2, <2>1, SetN
  <2> QED
    BY <2>2, Names DEF CountedAs, Kept
<1>4. /\ got'.up = got.up + 1 /\ got'.down = got.down
      /\ got' \in [{"up", "down"} -> 0 .. MaxSend]
  <2>1. got.up + link["tu"].n <= sent.up
    BY <1>1 DEF Conserved, Up, Down, Holds, Numbers
  <2>2. sent.up \in 0 .. MaxSend
    BY <1>1, Ways DEF TypeOK
  <2>3. got["up"] < MaxSend
    BY <1>1, <1>2, <2>1, <2>2, TunnelAssumption DEF Numbers
  <2> QED
    BY <1>1, <1>2, <2>3, Grows DEF TypeOK
<1>5. TypeOK' /\ Numbers'
  BY <1>1, <1>2, <1>3, <1>4, TypedNumbers, Ways DEF TypeOK, Links
<1>6. Conserved'
  BY <1>1, <1>2, <1>3, <1>4, <1>5 DEF Conserved, Up, Down, Holds, Numbers, Kept
<1>7. Unstarted'
  BY <1>1, <1>2, <1>3, <1>4, <1>5 DEF Unstarted, Waiting
<1>8. Ends'
  BY <1>1, <1>2, <1>3, <1>4, <1>5 DEF Ends, Kept
<1>9. Stages'
  BY <1>1, <1>2, <1>3, <1>4, <1>5 DEF Stages
<1>10. UpFlow'
  BY <1>1, <1>2, <1>3, <1>4, <1>5 DEF UpFlow, Waiting, Up, Holds, Upload, Numbers, Kept
<1>11. AppDrained'
  BY <1>1, <1>2, <1>3, <1>4, <1>5 DEF AppDrained, Waiting, Upload, Kept
<1>12. SourceDrained'
  BY <1>1, <1>2, <1>3, <1>4, <1>5 DEF SourceDrained, Upload, Kept
<1>13. UpWhole'
  BY <1>1, <1>2, <1>3, <1>4, <1>5 DEF UpWhole, Upload, Numbers
<1>14. UpCut'
  BY <1>1, <1>2, <1>3, <1>4, <1>5 DEF UpCut, Up, Holds, Upload, Numbers, Kept
<1>15. DownFlow'
  BY <1>1, <1>2, <1>3, <1>4, <1>5 DEF DownFlow, Down, Holds, Download, Kept
<1>16. DownReturned'
  BY <1>1, <1>2, <1>3, <1>4, <1>5 DEF DownReturned, Holds, Download, Kept
<1>17. DownEnded'
  BY <1>1, <1>2, <1>3, <1>4, <1>5 DEF DownEnded, Download, Kept
<1>18. DownWhole'
  BY <1>1, <1>2, <1>3, <1>4, <1>5 DEF DownWhole, Up, Holds, Download, Numbers, Kept
<1> QED
  BY <1>5, <1>6, <1>7, <1>8, <1>9, <1>10, <1>11, <1>12, <1>13, <1>14, <1>15, <1>16, <1>17,
     <1>18
  DEF TunnelInv, Upload, Download

-----------------------------------------------------------------------------
\* The invariant, and what follows from it.

LEMMA InitOK == Init => TunnelInv
<1> SUFFICES ASSUME Init PROVE TunnelInv
  OBVIOUS
<1>1. NewLink \in LinkRec /\ NewLink.n = 0 /\ NewLink.end = "open" /\ NewLink.rd = FALSE
  BY TunnelAssumption DEF NewLink, LinkRec
<1>2. Off \in CopierRec /\ Off.pc = "off"
  BY DEF Off, CopierRec
<1>3. /\ \A l \in LinkName : link[l] = NewLink
      /\ link \in [LinkName -> LinkRec]
  BY <1>1 DEF Init
<1>4. /\ \A l \in {"au", "ad", "gu", "gd", "tu", "td"} :
           link[l].n = 0 /\ link[l].end = "open" /\ link[l].rd = FALSE
  BY <1>1, <1>3, Names
<1>5. \A c \in {"pu", "pd", "su", "sd"} : copier[c].pc = "off" /\ Holds(c) = 0
  BY <1>2, Names DEF Init, Holds
<1>6. sent.up = 0 /\ sent.down = 0 /\ got.up = 0 /\ got.down = 0
  BY DEF Init
<1>7. TypeOK
  <2>1. copier \in [Copier -> CopierRec]
    BY <1>2 DEF Init
  <2>2. 0 \in 0 .. MaxSend
    BY TunnelAssumption
  <2>3. sent \in [{"up", "down"} -> 0 .. MaxSend] /\ got \in [{"up", "down"} -> 0 .. MaxSend]
    BY <2>2 DEF Init
  <2> QED
    BY <1>3, <2>1, <2>3 DEF Init, TypeOK
<1>8. Up = 0 /\ Down = 0
  BY <1>4, <1>5, <1>6 DEF Up, Down
<1>9. Conserved /\ Unstarted
  BY <1>4, <1>5, <1>6, <1>8 DEF Conserved, Unstarted
<1>10. Ends /\ Stages
  BY <1>4, <1>5 DEF Init, Ends, Stages
<1>11. Upload
  BY <1>4, <1>5, <1>6, <1>8 DEF Init, Upload, UpFlow, AppDrained, SourceDrained, UpWhole, UpCut
<1>12. Download
  BY <1>4, <1>5, <1>6, <1>8 DEF Init, Download, DownFlow, DownReturned, DownEnded, DownWhole
<1> QED
  BY <1>7, <1>9, <1>10, <1>11, <1>12 DEF TunnelInv

LEMMA StutterOK == ASSUME TunnelInv, UNCHANGED vars PROVE TunnelInv'
<1>1. TypeOK' /\ Conserved' /\ Unstarted' /\ Ends' /\ Stages'
  BY DEF TunnelInv, vars, TypeOK, Conserved, Up, Down, Holds, Unstarted, Waiting, Ends, Stages
<1>2. Upload'
  BY DEF TunnelInv, vars, Upload, UpFlow, AppDrained, SourceDrained, UpWhole, UpCut,
         Up, Holds, Waiting
<1>3. Download'
  BY DEF TunnelInv, vars, Download, DownFlow, DownReturned, DownEnded, DownWhole,
         Up, Down, Holds
<1> QED
  BY <1>1, <1>2, <1>3 DEF TunnelInv

LEMMA CopyStepOK == ASSUME TunnelInv, NEW c \in Copier, CopyStep(c) PROVE TunnelInv'
<1>1. CASE CopyRead(c)
  BY <1>1, Names, ProxyUpReadsOK, ProxyDownReadsOK, ServerUpReadsOK, ServerDownReadsOK
<1>2. CASE CopyWrite(c)
  BY <1>2, Names, ProxyUpWritesOK, ProxyDownWritesOK, ServerUpWritesOK, ServerDownWritesOK
<1>3. CASE CopySwallowed(c)
  \* What a copy writes to the stream is not swallowed.
  <2>1. c \in {"pd", "su"}
    BY <1>3, Names DEF CopySwallowed, Out, Tcp
  <2> QED
    BY <1>3, <2>1, ProxyDownSwallowedOK, ServerUpSwallowedOK
<1>4. CASE CopyEnds(c)
  BY <1>4, Names, ProxyUpEndsOK, ProxyDownEndsOK, ServerUpEndsOK, ServerDownEndsOK
<1> QED
  BY <1>1, <1>2, <1>3, <1>4 DEF CopyStep

LEMMA ServerStepOK == ASSUME TunnelInv, ServerStep PROVE TunnelInv'
<1>1. CASE ServerReturn
  <2>1. ReturnsBy("su") \/ ReturnsBy("sd")
    BY <1>1 DEF ServerReturn, ReturnsBy
  <2> QED
    BY <2>1, ReturnsByUpOK, ReturnsByDownOK
<1> QED
  BY <1>1, RefuseOK, AdmitOK, ConnectOK DEF ServerStep

LEMMA ProxyStepOK == ASSUME TunnelInv, ProxyStep PROVE TunnelInv'
<1>1. CASE HttpEstablished
  <2>1. \E left \in 0 .. link["au"].n : EstablishedWith(left)
    BY <1>1 DEF HttpEstablished, EstablishedWith
  <2> QED
    BY <2>1, EstablishedWithOK
<1> QED
  BY <1>1, SocksEstablishedOK, AnswerFailsOK, SocksDialFailsOK, HttpDialFailsOK, NextRequestOK,
     NoMoreRequestsOK, SocksEndsOK, PipeUpEndsOK, PipeDownEndsOK, PipeEndsOK DEF ProxyStep

LEMMA PeerStepOK == ASSUME TunnelInv, PeerStep PROVE TunnelInv'
  BY AppSendsOK, AppEndsUploadOK, AppClosesOK, AppReadsOK, TargetSendsOK,
     TargetEndsDownloadOK, TargetClosesOK, TargetReadsOK DEF PeerStep

LEMMA TunnelInductive == Spec => []TunnelInv
<1>1. TunnelInv /\ [Next]_vars => TunnelInv'
  BY StutterOK, CopyStepOK, ServerStepOK, ProxyStepOK, PeerStepOK, DrainOK, DrainEndsOK, LoseOK
  DEF Next, DrainStep
<1> QED
  BY <1>1, InitOK, PTL DEF Spec

\* Every variable keeps its range: no link holds more than Cap chunks, and
\* neither end receives more than was ever sent (io.Copy between the sockets
\* and the stream, server.go:131-147, socks5.go:86-103, pipe.go:44-58).
THEOREM TunnelTyped == Spec => []TypeOK
<1>1. TunnelInv => TypeOK
  BY DEF TunnelInv
<1> QED
  BY <1>1, TunnelInductive, PTL

\* An app that sees the end of the stream has all the target sent.  The
\* handler returns with the result of the first copy (server.go:131-147), and
\* the proxy closes the app's socket with it (socks5.go:86-103, pipe.go:51-58):
\* nothing is cut off by that, whatever the sizes of the buffers, but for what
\* ResponseComplete names.
THEOREM ResponseWhole == Spec => []ResponseComplete
<1>1. TunnelInv => ResponseComplete
  <2> SUFFICES ASSUME TunnelInv, reply = "ok", Ended(link["ad"]), app = "open", tgt # "closed",
                      ~lost, mode = "socks" => got.up = sent.up
               PROVE  tgt = "half" /\ got.down = sent.down
    BY DEF ResponseComplete
  <2>1. Numbers /\ DownWhole /\ Conserved
    BY TypedNumbers DEF TunnelInv, Download
  <2>2. link["ad"].n = 0 /\ link["ad"].end = "eof"
    BY DEF Ended
  <2>3. mode = "socks" => ~(Up < sent.up)
    BY <2>1 DEF Up, Holds, Numbers
  <2>4. tgt = "half" /\ link["ad"].n + got.down = sent.down
    BY <2>1, <2>2, <2>3 DEF DownWhole
  <2> QED
    BY <2>1, <2>2, <2>4 DEF Numbers
<1> QED
  BY <1>1, TunnelInductive, PTL

\* A target that sees the end of the stream has all the app sent, unless the
\* proxy threw some of it away: the handler closes the target's socket with the
\* first result (server.go:131-147), and that of the copy towards the target is
\* nil only behind the last chunk (pipe.go:56-57).
THEOREM UploadWhole == Spec => []UploadComplete
<1>1. TunnelInv => UploadComplete
  <2> SUFFICES ASSUME TunnelInv, Ended(link["tu"]), tgt = "open", app # "closed", ~lost,
                      dropped = "no"
               PROVE  app = "half" /\ got.up = sent.up
    BY DEF UploadComplete
  <2>1. Numbers /\ UpWhole
    BY TypedNumbers DEF TunnelInv, Upload
  <2>2. link["tu"].n = 0 /\ link["tu"].end = "eof"
    BY DEF Ended
  <2> QED
    BY <2>1, <2>2 DEF UpWhole, Numbers
<1> QED
  BY <1>1, TunnelInductive, PTL
=============================================================================
