SPECIFICATION Spec
CONSTANTS
  Reqs = {r1}
  Peers = {p1}
  Streams = {s1}
  NoReq = NoReq
  QueueDepth = 1
  MaxId = 1
  MaxOps = 4
  Calls = {"mp_irecv", "mp_wait_on_stream", "mp_wait_all"}
  Faults = {"stream_post"}
  Liberties = {}
INVARIANTS StreamNotEarly
SYMMETRY Symmetry
CHECK_DEADLOCK FALSE
