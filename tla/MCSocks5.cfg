\* One connection under every script, and the datagrams of two apps.
SPECIFICATION SmallSpec
CONSTANTS
  Conn = {c1}
  Scripts <- AppScripts
  AddrLen <- Lengths
  EventCap = 1
  Datagram <- Ids
  From <- Apps
  Packet <- Packets
INVARIANTS
  Socks5TypeOK
  RelayStartsBehindRequest
  SocksAnswersFit
  HttpAnswersInOrder
  BlockedPipeHoldsNothing
  AnswerBelongs
PROPERTIES
  RequestAnswered
  
  ReadIsServed
CHECK_DEADLOCK FALSE
