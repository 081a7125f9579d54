CONSTANTS
  p1 = p1
  h1 = h1
  Sockets <- PeerAndHub
  Threads <- PeerAndHub
  Peers <- OnePeer
  MaxSockets = 1
  MaxTasks = 2
SPECIFICATION FairSpec
INVARIANTS
  TypeOK
  WriteNotLost
PROPERTIES
  LifeSpec
  HungUp
  SocketsEnd
  WaitersGo
