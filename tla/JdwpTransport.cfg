SPECIFICATION FairSpec
CONSTANTS
  d1 = d1
  d2 = d2
  Debuggers = {d1, d2}
  MaxCommands = 3
  can_timeout_accept = TRUE
  can_timeout_handshake = TRUE
INVARIANTS TypeOK
PROPERTIES ImplementsSessions NobodyWaitsInVain EveryCommandIsAnswered ListensAgain
