CONSTANTS
  Word = 16
  MaxDelay = 7
  MaxUnasked = 6
SPECIFICATION TimerSpec
INVARIANT ExpiryIsTrue
PROPERTY LeftIsTrue
