CONSTANTS
  Base = 2
  MaxDigits = 3
  BufSize = 5
  Publish = 3
  Packets <- MCPackets
  Sizes = {2}
  MaxDown = 3
  MaxUp = 3
  MaxConns = 2
SPECIFICATION FairStreamSpec
INVARIANTS PacketsWhole SentWhole
PROPERTY HandledOrEnded
