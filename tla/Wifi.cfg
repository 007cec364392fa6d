CONSTANTS
  Tasks = {a, b}
  MaxPresses = 2
  MaxFaults = 1
  MaxEvents = 2
SPECIFICATION FairSpec
INVARIANTS FlagFollowsLink WorkingHasOwner NoSecondStart
PROPERTIES SmartConfigEnds StaysConnected BitFollowsFlag
