SPECIFICATION Spec
CONSTANTS
  Reqs = {r1, r2}
  Peers = {p1}
  Streams = {s1}
  NoStream = NoStream
  QueueDepth = 2
  MaxPosts = 2
  Calls = {"mp_send_prepare", "mp_send_post_all_on_stream", "mp_progress_all"}
  Faults = {}
  Liberties = {}
INVARIANTS NoFatalExit
SYMMETRY Symmetry
CHECK_DEADLOCK FALSE
