CONSTANTS
  h1 = h1
  h2 = h2
  NoHandler = NoHandler
  Wanted <- TheWanted
  Names <- TheNames
  TableMax = 2
  SubMax = 2
  PacketIdMax = 3
  QueueMax = 1
  MaxFaults = 1
SPECIFICATION Spec
INVARIANT SubscribedIsHandled
PROPERTY HandedOnce
