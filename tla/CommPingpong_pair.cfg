SPECIFICATION PingpongSpec
CONSTANTS
  Ranks = {0, 1}
  NoRank = NoRank
  Modulus = 8
  MaxMsgs = 4
  Calls <- AllCalls
  Iters = 3
  MaxReqs = 10
  Modes <- EveryMix
INVARIANTS TableFits
PROPERTIES Terminates
CHECK_DEADLOCK FALSE
