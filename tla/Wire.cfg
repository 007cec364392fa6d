CONSTANTS
  Sendable <- MCSendable
  Answers = {0, 129, 126}
  ReadLen = 2
  MaxTransfers = 3
SPECIFICATION WireSpec
INVARIANTS NoFight TransferExact
