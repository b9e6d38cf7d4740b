SPECIFICATION PingpongSpec
CONSTANTS
  Ranks = {0, 1, 2}
  NoRank = NoRank
  Modulus = 8
  MaxMsgs = 3
  Calls <- AllCalls
  Iters = 1
  MaxReqs = 7
  Modes <- EveryMix
INVARIANTS NeverStuck ContractMet QuietAtEnd
CHECK_DEADLOCK FALSE
