SPECIFICATION Spec
CONSTANTS
  Reqs = {r1, r2}
  Peers = {p1}
  Streams = {s1, s2}
  NoReq = NoReq
  QueueDepth = 1
  MaxId = 2
  MaxOps = 6
  Calls = {"mp_isend", "mp_send_on_stream", "mp_isend_on_stream", "mp_send_prepare", "mp_send_post_on_stream", "mp_isend_post_on_stream", "mp_send_post_all_on_stream", "mp_isend_post_all_on_stream", "mp_wait_on_stream", "mp_wait_all_on_stream", "mp_wait_all", "mp_progress_all"}
  Faults = {}
  Liberties = {}
INVARIANTS TypeOK NeverEnds TrackedIsTriggered StreamNotEarly SendNotEarly
SYMMETRY Symmetry
CHECK_DEADLOCK FALSE
