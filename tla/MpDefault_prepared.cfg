SPECIFICATION Spec
CONSTANTS
  Reqs = {r1, r2, r3}
  Peers = {p1}
  Streams = {s1, s2}
  NoStream = NoStream
  QueueDepth = 2
  MaxPosts = 3
  Calls = {"mp_send_prepare", "mp_sendv_prepare", "mp_put_prepare", "mp_send_post_on_stream", "mp_isend_post_on_stream", "mp_iput_post_on_stream", "mp_isend_post_all_on_stream", "mp_iput_post_all_on_stream", "mp_isend", "mp_isendv", "mp_isendv_on_stream", "mp_send_on_stream", "mp_isend_on_stream", "mp_iput_on_stream", "mp_desc_queue", "get_descriptors", "mp_wait_on_stream", "mp_wait_all_on_stream", "mp_wait_all", "mp_progress_all"}
  Faults = {"prepare_wait"}
  Liberties = {}
INVARIANTS TypeOK SendNotEarly WaitsForItself PendingIsArmed
SYMMETRY Symmetry
CHECK_DEADLOCK FALSE
