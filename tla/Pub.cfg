CONSTANTS
  PubMax = 2
  PacketIdMax = 3
  MaxReports = 3
  QueueMax = 2
  MaxFaults = 2
SPECIFICATION FairSpec
INVARIANTS AcksAreTrue CutAfterLoss
PROPERTIES  ReportsArrive
