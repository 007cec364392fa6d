CONSTANTS
  Socks = {1, 2, 3, 4}
  Listener = Listener
  Slots = 3
  Elements = 3
  MaxFrames <- MCMaxFrames
SPECIFICATION FairSpec
INVARIANTS SocketsServed SlotsHaveOwn OnceInOrder AnswersAreOwn
PROPERTY PeersReleased
