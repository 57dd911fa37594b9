------------------------------ MODULE MCSocks5 ------------------------------
(***************************************************************************)
(* Small instances of Socks5 for TLC: one connection under every script,   *)
(* and datagrams of two apps, with no association.                         *)
(***************************************************************************)
EXTENDS Socks5

Greeting == <<5, 2, 0, 2>>
Port443 == <<1, 187>>
Data == <<65, 66>>

\* CONNECT to each kind of address with data behind it, UDP ASSOCIATE, BIND,
\* an empty name and list of methods, what is refused, and HTTP: CONNECT,
\* requests to the proxy itself, to a target with bytes behind, and one behind
\* another.
AppScripts ==
  { <<4, 1>>,
    Greeting \o <<5, 1, 0, 1, 7, 8>> \o Port443 \o Data,
    Greeting \o <<5, 1, 0, 3, 3, 97, 98, 99>> \o Port443 \o Data,
    Greeting \o <<5, 1, 0, 4, 7, 8, 9>> \o Port443 \o Data,
    <<5, 0, 5, 3, 0, 3, 0, 0, 53>>,
    Greeting \o <<5, 3, 0, 1, 0, 0>> \o Port443 \o Data,
    Greeting \o <<5, 2, 0, 1, 7, 8>> \o Port443,
    Greeting \o <<5, 1, 0, 2, 7, 8>> \o Port443,
    Greeting \o <<4, 1, 0, 1, 7, 8>> \o Port443,
    <<4, 1, 1, 187>>,
    <<67, 1, 9, 5, 6>>,
    <<71, 1, 0, 71, 2, 0, 71, 3, 0>>,
    <<80, 1, 0, 5, 6, 7>>,
    <<71, 1, 9, 71, 2, 0, 5>>,
    <<71, 2, 0, 67, 3, 9, 5>> }

Lengths == [t \in {1, 4} |-> IF t = 1 THEN 2 ELSE 3]

V4(h) == [family |-> 4, mapped |-> FALSE, host |-> h]
V6(h) == [family |-> 6, mapped |-> FALSE, host |-> h]
Mapped(h) == [family |-> 6, mapped |-> TRUE, host |-> h]
Udp(type, addr, data) ==
  [rsv |-> 0, frag |-> 0, atyp |-> type, ip |-> addr, port |-> 53, payload |-> data, cut |-> FALSE]

Packets ==
  << Udp(1, V4(1), 1), Udp(4, Mapped(1), 2), [Udp(1, V4(2), 3) EXCEPT !.frag = 1] >>
Apps == <<1, 2, 1>>
Ids == DOMAIN Packets

\* The two halves share no state: every script is run without datagrams, and the
\* datagrams beside a connection that is refused, for they need no association.
Refused == {<<4, 1>>}
DatagramsOnly == \A c \in Conn : app[c].script \in Refused

SmallInit ==
  /\ Socks5Init
  /\ IF DatagramsOnly THEN events = 0 ELSE queue = {}

SmallNext ==
  \/ SessionNext /\ UNCHANGED udpVars
  \/ DatagramsOnly /\ UdpNext /\ UNCHANGED sessionVars

SmallSpec == SmallInit /\ [][SmallNext]_vars /\ SessionFairness /\ UdpFairness
=============================================================================
