SPECIFICATION FairSpec
CONSTANTS
  Reqs = {r1, r2}
  Bufs = {b1}
  Flows = {f1}
  None = None
  MaxReqs = 3
  NDreqs = 2
  MaxDescs = 1
  MaxKeys = 2
  Calls = {"comm_isend", "comm_prepare_isend", "comm_send_ready", "comm_send_ready_on_stream", "comm_deregister", "comm_wait", "comm_wait_all_on_stream", "comm_progress", "comm_flush", "comm_prepare_wait_all"}
  Faults = {"post", "desc", "wait", "gpu"}
INVARIANTS TypeOK FreeListSound NoAbort Covered StaysRegistered BlockIntact CompletionsInFlight
PROPERTIES FlushReturns
CHECK_DEADLOCK FALSE
