CONSTANTS
  SubMax = 3
  ProbeMax = 2
  IntervalMax = 3
  PacketIdMax = 5
  MaxSockets = 4
  MaxFaults = 3
  QueueMax = 2
  MayRefuseSub = TRUE
SPECIFICATION FairSpec
INVARIANTS StateMatchesSocket SocketsAccounted ConnectedAsks
PROPERTIES HealthyLinkKept DeadLinkNoticed Recovers
