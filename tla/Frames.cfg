CONSTANTS
  Last = 11
  Byte <- MCByte
  Sof = 253
  Learn = 175
  Send = 191
  Frames <- MCFrames
  Stale = {0, 9}
  MaxFrames = 2
  MaxConns = 2
SPECIFICATION FairSpec
INVARIANTS FramesServed StraysExplained
PROPERTY FramesParsed
