SPECIFICATION FairSpec
CONSTANTS
  Reqs = {r1, r2}
  Peers = {p1}
  Streams = {s1}
  NoReq = NoReq
  QueueDepth = 1
  MaxId = 3
  MaxOps = 3
  Calls = {"mp_irecv", "mp_irecvv", "mp_isendv", "mp_send_prepare", "mp_send_on_stream", "mp_isend_on_stream", "mp_isend_post_all_on_stream", "mp_wait_on_stream", "mp_wait_all"}
  Faults = {"post", "stream_post", "gpu"}
  Liberties = {"misorder"}
PROPERTIES LifeSpec WaitReturns
CHECK_DEADLOCK FALSE
