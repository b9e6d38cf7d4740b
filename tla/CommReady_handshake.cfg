SPECIFICATION Spec
CONSTANTS
  Ranks = {i1, i2}
  NoRank = NoRank
  Modulus = 3
  MaxMsgs = 2
  Calls = {"comm_send_ready", "comm_send_ready_on_stream", "comm_wait_ready", "comm_test_ready", "comm_wait_ready_on_stream", "comm_isend", "comm_isend_on_stream", "comm_prepare_wait_ready", "comm_prepare_isend"}
INVARIANTS TypeOK DataHasReceive CellCounts
SYMMETRY Symmetry
CHECK_DEADLOCK FALSE
