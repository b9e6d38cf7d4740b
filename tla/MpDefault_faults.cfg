SPECIFICATION FairSpec
CONSTANTS
  Reqs = {r1, r2}
  Peers = {p1}
  Streams = {s1}
  NoStream = NoStream
  QueueDepth = 2
  MaxPosts = 2
  Calls = {"mp_irecv", "mp_irecvv", "mp_isend", "mp_iput", "mp_iget", "mp_send_prepare", "mp_put_prepare", "mp_send_post_on_stream", "mp_isend_post_on_stream", "mp_iput_post_on_stream", "mp_isend_post_all_on_stream", "mp_iput_post_all_on_stream", "mp_isend_on_stream", "mp_iput_on_stream", "mp_iget_on_stream", "mp_desc_queue", "get_descriptors", "mp_wait_on_stream", "mp_wait_all_on_stream", "mp_wait_all"}
  Faults = {"post", "stream_post", "gpu"}
  Liberties = {"unordered", "wait_nowait"}
INVARIANTS NoFatalExit NoDanglingCompletion
PROPERTIES LifeSpec WaitReturns
CHECK_DEADLOCK FALSE
