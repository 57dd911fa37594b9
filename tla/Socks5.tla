------------------------------- MODULE Socks5 -------------------------------
(***************************************************************************)
(* The proxy as Run (socks5/socks5.go) starts it: the accepted connections *)
(* and the loop for datagrams, side by side.  They share no state: a       *)
(* datagram is relayed whether or not an association is open.              *)
(***************************************************************************)
EXTENDS Session, UdpRelay

vars == <<sessionVars, udpVars>>

Socks5Init == Init /\ UdpInit

Socks5Next ==
  \/ SessionNext /\ UNCHANGED udpVars
  \/ UdpNext /\ UNCHANGED sessionVars

Socks5Spec == Socks5Init /\ [][Socks5Next]_vars /\ SessionFairness /\ UdpFairness

\* Both halves keep to their types.
Socks5TypeOK == TypeOK /\ UdpTypeOK
=============================================================================
