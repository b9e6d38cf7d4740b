------------------------------- MODULE MpEvent -------------------------------
(***************************************************************************)
(* The request engine of libmp with MP_EVENT_ASYNC=1: the GPU rings no     *)
(* doorbell and waits for no completion queue.  A send on a stream only    *)
(* queues a write of its request id to last_trigger_id; the CPU, whenever  *)
(* it polls, posts the sends whose id has been written                     *)
(* (progress_posted_list), and writes the ids of the completed requests a  *)
(* stream waits for to last_tracked_id, which the stream compares.  Both   *)
(* words hold ids of one peer and one direction, and ids are drawn from    *)
(* one counter per peer.                                                   *)
(*                                                                         *)
(* Puts and gets have no code for this mode and are left to MpDefault.     *)
(***************************************************************************)
EXTENDS Naturals, Sequences

CONSTANTS Reqs, Peers, Streams,
          NoReq,       \* no request structure
          QueueDepth,  \* work requests a queue holds before gds_post_* says ENOMEM
          MaxId,       \* bound: requests created for one peer
          MaxOps,      \* bound: operations queued on one stream
          Calls,       \* the library functions the application uses
          Faults,      \* the external calls that may fail
          Liberties    \* what the application does beyond its contract

AllCalls == {"mp_irecv", "mp_irecvv", "mp_isend", "mp_isendv",
             "mp_send_on_stream", "mp_isend_on_stream", "mp_send_prepare",
             "mp_send_post_on_stream", "mp_isend_post_on_stream",
             "mp_send_post_all_on_stream", "mp_isend_post_all_on_stream",
             "mp_wait_on_stream", "mp_wait_all_on_stream", "mp_wait_all",
             "mp_progress_all"}

AllFaults == {"post", "stream_post", "gpu"}

\* "streams": uses a second stream for a channel while the first one still has
\* operations of it; "mix": sends at once while sends are held back for a stream;
\* "misorder": posts in another order than it prepared, or waits on a stream for
\* a send it has not posted; "rewait": gives mp_wait_all_on_stream a request
\* that may be complete.
AllLiberties == {"streams", "mix", "misorder", "rewait"}

ASSUME ConstantsAssumption ==
    /\ QueueDepth \in Nat \ {0} /\ MaxId \in Nat /\ MaxOps \in Nat
    /\ Calls \subseteq AllCalls /\ Faults \subseteq AllFaults
    /\ Liberties \subseteq AllLiberties
    /\ NoReq \notin Reqs

States   == {"UNDEF", "PREPARED", "PENDING_NOWAIT", "PENDING", "COMPLETE"}
Channels == Peers \X {"TX", "RX"}

VARIABLES
    status,               \* status[r]: mp_request.status
    req,                  \* req[r]: the other fields of mp_request
    user,                 \* the requests whose handle the application was given
    last_req_id,          \* last_req_id[p]
    last_posted_trigger,  \* last_posted_trigger[p]: the last id given to a stream (TX)
    last_trigger,         \* last_trigger[p]: the id the stream wrote last (TX)
    posted_list,          \* posted_list[p]: posted_stream_req[TX_FLOW]
    last_posted_tracked,  \* last_posted_tracked[c]: the last id a stream will wait for
    last_tracked,         \* last_tracked[c]: the id the CPU wrote last
    wq,                   \* wq[c]: work requests the HCA has still to execute
    cq,                   \* cq[c]: completions ibv_poll_cq has still to return
    stream,               \* stream[s]: the operations the GPU has still to execute
    pc, waited, post      \* what the application thread does, waits for and posts

client == <<last_req_id, last_posted_trigger, last_trigger, posted_list,
            last_posted_tracked, last_tracked>>
vars == <<status, req, user, client, wq, cq, stream, pc, waited, post>>

(***************************************************************************)
(* Requests                                                                *)
(***************************************************************************)
NullReq == [peer |-> "none", flow |-> "none", id |-> 0, trigger |-> FALSE]

Chan(r) == <<req[r].peer, req[r].flow>>
Tx(r)   == <<req[r].peer, "TX">>

\* Mutant of NewRequest: req->type is not set.
NewRequestUntyped(r, p, flow, state, trigger) ==
    /\ status[r] = "UNDEF" /\ last_req_id[p] < MaxId
    /\ last_req_id' = [last_req_id EXCEPT ![p] = @ + 1]
    /\ status' = [status EXCEPT ![r] = state]
    /\ req' = [req EXCEPT ![r] = [peer |-> p, flow |-> "none",
                                  id |-> last_req_id[p] + 1, trigger |-> trigger]]

\* new_stream_request; which free structure it takes is not observable.
NewRequest(r, p, flow, state, trigger) ==
    /\ status[r] = "UNDEF"
    /\ last_req_id[p] < MaxId
    /\ last_req_id' = [last_req_id EXCEPT ![p] = @ + 1]
    /\ status' = [status EXCEPT ![r] = state]
    /\ req' = [req EXCEPT ![r] = [peer |-> p, flow |-> flow,
                                  id |-> last_req_id[p] + 1, trigger |-> trigger]]

HasRoom(c) == Len(wq[c]) + Len(cq[c]) < QueueDepth

InSeq(x, seq) == \E i \in DOMAIN seq : seq[i] = x

\* A prepared send that no stream was given.
Unposted(r) == status[r] = "PREPARED" /\ ~InSeq(r, posted_list[req[r].peer])

\* Kernel marks where the application's next work stands on a stream when the
\* call that makes the stream wait for request r has returned 0.
TriggerOp(p, id)    == [op |-> "trigger", chan |-> <<p, "TX">>, id |-> id, req |-> NoReq]
WaitOp(c, id)       == [op |-> "wait", chan |-> c, id |-> id, req |-> NoReq]
KernelOp(r, c, id)  == [op |-> "kernel", chan |-> c, id |-> id, req |-> r]

OnStream(s, ops) ==
    /\ Len(stream[s]) + Len(ops) <= MaxOps
    /\ stream' = [stream EXCEPT ![s] = @ \o ops]

\* The application's contract on streams: it moves a channel to another stream
\* when the first one has executed its triggers and waits.
SoleStream(c, s) ==
    "streams" \in Liberties \/ \A t \in Streams \ {s} : \A i \in DOMAIN stream[t] :
                                   stream[t][i].chan = c => stream[t][i].op = "kernel"

(***************************************************************************)
(* Requests posted at once                                                 *)
(***************************************************************************)

\* retry: a full queue is polled a bounded number of times (mp_post_send,
\* mp_post_recv); otherwise it is an error.
Immediate(r, p, flow, retry, handle) ==
    LET c == <<p, flow>>
    IN  /\ pc = "idle"
        /\ NewRequest(r, p, flow, "PENDING_NOWAIT", FALSE)
        /\ \/ /\ HasRoom(c)
              /\ wq' = [wq EXCEPT ![c] = Append(@, r)]
              /\ user' = IF handle THEN user \union {r} ELSE user
              /\ UNCHANGED <<pc, post>>
           \/ /\ retry /\ ~HasRoom(c)
              /\ pc' = "posting" /\ post' = r
              /\ UNCHANGED <<wq, user>>
           \/ /\ "post" \in Faults \/ (~retry /\ ~HasRoom(c))
              /\ UNCHANGED <<wq, user, pc, post>>
        /\ UNCHANGED <<last_posted_trigger, last_trigger, posted_list,
                       last_posted_tracked, last_tracked, cq, stream, waited>>

mp_irecv(r, p)  == "mp_irecv" \in Calls /\ Immediate(r, p, "RX", TRUE, TRUE)
mp_irecvv(r, p) == "mp_irecvv" \in Calls /\ Immediate(r, p, "RX", FALSE, TRUE)

\* The contract on mixing: no send to p is prepared or held back for a stream.
Unmixed(p) ==
    "mix" \in Liberties \/ \A r \in Reqs : ~(status[r] = "PREPARED" /\ req[r].peer = p)

mp_isend(r, p) ==
    "mp_isend" \in Calls /\ Unmixed(p) /\ Immediate(r, p, "TX", TRUE, TRUE)

\* mp_isendv does not retry and never assigns *req_t.
mp_isendv(r, p) ==
    "mp_isendv" \in Calls /\ Unmixed(p) /\ Immediate(r, p, "TX", FALSE, FALSE)

PostRetry ==
    /\ pc = "posting" /\ HasRoom(Chan(post))
    /\ wq' = [wq EXCEPT ![Chan(post)] = Append(@, post)]
    /\ user' = user \union {post}
    /\ pc' = "idle" /\ post' = NoReq
    /\ UNCHANGED <<status, req, client, cq, stream, waited>>

\* More than MP_MAX_PROGRESS_FLOW_TRY attempts: ENOMEM, the request is leaked.
PostGiveUp ==
    /\ pc = "posting" /\ ~HasRoom(Chan(post))
    /\ pc' = "idle" /\ post' = NoReq
    /\ UNCHANGED <<status, req, user, client, wq, cq, stream, waited>>

(***************************************************************************)
(* Sends on a stream                                                       *)
(***************************************************************************)

\* mp_send_on_stream: trigger and wait go to the stream together, after the
\* request was put into the list and last_posted_tracked_id advanced.
mp_send_on_stream(r, p, s) ==
    LET id == last_req_id[p] + 1
        c  == <<p, "TX">>
    IN  /\ pc = "idle" /\ "mp_send_on_stream" \in Calls /\ SoleStream(c, s)
        /\ NewRequest(r, p, "TX", "PREPARED", last_posted_tracked[c] < id)
        /\ last_posted_trigger' = [last_posted_trigger EXCEPT ![p] = id]
        /\ posted_list' = [posted_list EXCEPT ![p] = Append(@, r)]
        /\ last_posted_tracked' = [last_posted_tracked EXCEPT ![c] = IF @ < id THEN id ELSE @]
        /\ \/ /\ OnStream(s, <<TriggerOp(p, id)>>
                             \o (IF last_posted_tracked[c] < id THEN <<WaitOp(c, id)>> ELSE <<>>)
                             \o <<KernelOp(r, c, id)>>)
              /\ user' = user \union {r}
           \/ "stream_post" \in Faults /\ UNCHANGED <<stream, user>>
        /\ UNCHANGED <<last_trigger, last_tracked, wq, cq, pc, waited, post>>

\* mp_isend_on_stream puts the request into the list when its trigger is posted.
mp_isend_on_stream(r, p, s) ==
    LET id == last_req_id[p] + 1
    IN  /\ pc = "idle" /\ "mp_isend_on_stream" \in Calls /\ SoleStream(<<p, "TX">>, s)
        /\ NewRequest(r, p, "TX", "PREPARED", FALSE)
        /\ last_posted_trigger' = [last_posted_trigger EXCEPT ![p] = id]
        /\ \/ /\ OnStream(s, <<TriggerOp(p, id)>>)
              /\ posted_list' = [posted_list EXCEPT ![p] = Append(@, r)]
              /\ user' = user \union {r}
           \/ "stream_post" \in Faults /\ UNCHANGED <<posted_list, stream, user>>
        /\ UNCHANGED <<last_trigger, last_posted_tracked, last_tracked, wq, cq, pc, waited, post>>

mp_send_prepare(r, p) ==
    /\ pc = "idle" /\ "mp_send_prepare" \in Calls
    /\ NewRequest(r, p, "TX", "PREPARED", FALSE)
    /\ user' = user \union {r}
    /\ UNCHANGED <<last_posted_trigger, last_trigger, posted_list, last_posted_tracked,
                   last_tracked, wq, cq, stream, pc, waited, post>>

(***************************************************************************)
(* Prepared sends: one call takes a sequence of requests.  Its loop stops  *)
(* with MP_FAILURE at the first request whose id is not beyond             *)
(* last_posted_trigger_id; what it did to the requests before remains.     *)
(***************************************************************************)

\* rs[i] passes the test on last_posted_trigger_id, given the requests before it.
InOrder(rs, i) ==
    LET before == {j \in 1..(i - 1) : req[rs[j]].peer = req[rs[i]].peer}
    IN  /\ req[rs[i]].id > last_posted_trigger[req[rs[i]].peer]
        /\ \A j \in before : req[rs[j]].id < req[rs[i]].id

\* The requests of a batch of one or two that the loop processes.
Accepted(rs) ==
    IF ~InOrder(rs, 1) THEN <<>>
    ELSE IF Len(rs) = 2 /\ ~InOrder(rs, 2) THEN <<rs[1]>> ELSE rs

\* Those among them that go to peer p.
OfPeer(r, p) == IF req[r].peer = p THEN <<r>> ELSE <<>>
AllOfPeer(rs, p) ==
    IF rs = <<>> THEN <<>>
    ELSE IF Len(rs) = 1 THEN OfPeer(rs[1], p) ELSE OfPeer(rs[1], p) \o OfPeer(rs[2], p)

LastId(rs, p, default) ==
    LET ids == {req[rs[i]].id : i \in {j \in DOMAIN rs : req[rs[j]].peer = p}}
    IN  IF ids = {} THEN default ELSE CHOOSE n \in ids : \A m \in ids : m <= n

\* The stream waits for r unless it waits for a later id of the channel already.
NeedsWait(r) == last_posted_tracked[Chan(r)] < req[r].id

OpsOf(r, block) ==
    IF block /\ NeedsWait(r)
    THEN <<TriggerOp(req[r].peer, req[r].id), WaitOp(Tx(r), req[r].id)>>
    ELSE <<TriggerOp(req[r].peer, req[r].id)>>

\* Mutant of OpsOfAll: the descriptors of the second request are not counted.
OpsOfAllFirst(rs, block) == OpsOf(rs[1], block)

\* The descriptors of a batch of one or two requests.
OpsOfAll(rs, block) ==
    IF Len(rs) = 1 THEN OpsOf(rs[1], block)
    ELSE OpsOf(rs[1], block) \o OpsOf(rs[2], block)

Kernels(rs) == [i \in DOMAIN rs |-> KernelOp(rs[i], Chan(rs[i]), req[rs[i]].id)]

PostBatch(call, rs, s, block) ==
    LET acc  == Accepted(rs)
        done == {acc[i] : i \in DOMAIN acc}
    IN  /\ pc = "idle" /\ call \in Calls
        /\ \A i \in DOMAIN rs : rs[i] \in user /\ Unposted(rs[i]) /\ SoleStream(Tx(rs[i]), s)
        /\ "misorder" \in Liberties \/ acc = rs
        /\ last_posted_trigger' = [p \in Peers |-> LastId(acc, p, last_posted_trigger[p])]
        /\ posted_list' = [p \in Peers |-> posted_list[p] \o AllOfPeer(acc, p)]
        /\ req' = [r \in Reqs |-> IF block /\ r \in done /\ NeedsWait(r)
                                  THEN [req[r] EXCEPT !.trigger = TRUE] ELSE req[r]]
        /\ last_posted_tracked' = [c \in Channels |->
               IF block /\ c[2] = "TX" /\ last_posted_tracked[c] < LastId(acc, c[1], 0)
               THEN LastId(acc, c[1], 0) ELSE last_posted_tracked[c]]
        /\ \/ /\ acc = rs
              /\ OnStream(s, OpsOfAll(rs, block) \o (IF block THEN Kernels(rs) ELSE <<>>))
           \/ /\ acc # rs \/ "stream_post" \in Faults
              /\ UNCHANGED stream
        /\ UNCHANGED <<status, user, last_req_id, last_trigger, last_tracked,
                       wq, cq, pc, waited, post>>

mp_send_post_on_stream(r, s) == PostBatch("mp_send_post_on_stream", <<r>>, s, TRUE)

\* A failing gds_stream_post_descriptors is reported, but only after the request
\* was put into the list: the test before is on the other return code.
mp_isend_post_on_stream(r, s) == PostBatch("mp_isend_post_on_stream", <<r>>, s, FALSE)

mp_send_post_all_on_stream(a, b, s) ==
    a # b /\ PostBatch("mp_send_post_all_on_stream", <<a, b>>, s, TRUE)

mp_isend_post_all_on_stream(a, b, s) ==
    a # b /\ PostBatch("mp_isend_post_all_on_stream", <<a, b>>, s, FALSE)

(***************************************************************************)
(* Waits                                                                   *)
(***************************************************************************)

\* The application waits on a stream for a send only after it posted it.
MayWait(r) == r \in user /\ ("misorder" \in Liberties \/ ~Unposted(r))

\* req->trigger and last_posted_tracked_id are set before the wait is posted.
Track(rs) ==
    /\ req' = [r \in Reqs |-> IF r \in rs THEN [req[r] EXCEPT !.trigger = TRUE] ELSE req[r]]
    /\ last_posted_tracked' = [c \in Channels |->
           LET ids == {req[r].id : r \in {x \in rs : Chan(x) = c}}
           IN  IF ids = {} THEN last_posted_tracked[c]
               ELSE CHOOSE n \in ids : \A m \in ids : m <= n]

\* Mutant of mp_wait_on_stream: the stream is not made to wait for a request
\* that the CPU has posted already.
mp_wait_on_stream_IfPrepared(r, s) ==
    LET needed == status[r] = "PREPARED" /\ NeedsWait(r)
    IN  /\ pc = "idle" /\ "mp_wait_on_stream" \in Calls
        /\ MayWait(r) /\ SoleStream(Chan(r), s)
        /\ Track(IF needed THEN {r} ELSE {})
        /\ OnStream(s, (IF needed THEN <<WaitOp(Chan(r), req[r].id)>> ELSE <<>>)
                       \o <<KernelOp(r, Chan(r), req[r].id)>>)
        /\ UNCHANGED <<status, user, last_req_id, last_posted_trigger, last_trigger,
                       posted_list, last_tracked, wq, cq, pc, waited, post>>

\* A complete request, and one behind which the stream already waits, need
\* nothing.
mp_wait_on_stream(r, s) ==
    LET needed == status[r] # "COMPLETE" /\ NeedsWait(r)
    IN  /\ pc = "idle" /\ "mp_wait_on_stream" \in Calls
        /\ MayWait(r) /\ SoleStream(Chan(r), s)
        /\ Track(IF needed THEN {r} ELSE {})
        /\ \/ OnStream(s, (IF needed THEN <<WaitOp(Chan(r), req[r].id)>> ELSE <<>>)
                          \o <<KernelOp(r, Chan(r), req[r].id)>>)
           \/ needed /\ "stream_post" \in Faults /\ UNCHANGED stream
        /\ UNCHANGED <<status, user, last_req_id, last_posted_trigger, last_trigger,
                       posted_list, last_tracked, wq, cq, pc, waited, post>>

\* The requests of <<a, b>> for which the loop posts a wait: b counts only when
\* it is beyond a on the same channel.
WaitsOfAll(a, b) ==
    {r \in {a, b} : NeedsWait(r) /\ (r = b /\ Chan(a) = Chan(b) => req[a].id < req[b].id)}

\* A request that has completed meanwhile fails the assertion on its status.
mp_wait_all_on_stream(a, b, s) ==
    LET W(r) == IF r \in WaitsOfAll(a, b) THEN <<WaitOp(Chan(r), req[r].id)>> ELSE <<>>
    IN  /\ pc = "idle" /\ "mp_wait_all_on_stream" \in Calls /\ a # b
        /\ \A r \in {a, b} : MayWait(r) /\ SoleStream(Chan(r), s)
        /\ \/ /\ \A r \in {a, b} : status[r] # "COMPLETE"
              /\ Track(WaitsOfAll(a, b))
              /\ \/ OnStream(s, W(a) \o W(b) \o Kernels(<<a, b>>))
                 \/ "stream_post" \in Faults /\ UNCHANGED stream
              /\ UNCHANGED pc
           \/ /\ "rewait" \in Liberties
              /\ \E r \in {a, b} : status[r] = "COMPLETE"
              /\ pc' = "aborted"
              /\ UNCHANGED <<req, last_posted_tracked, stream>>
        /\ UNCHANGED <<status, user, last_req_id, last_posted_trigger, last_trigger,
                       posted_list, last_tracked, wq, cq, waited, post>>

\* mp_wait_all: requests that were posted at once become MP_PENDING.  (In this
\* mode gds_post_wait_cq gets a gds_wait_info nothing was written to; there is
\* no guard it could free, but it may refuse.)
mp_wait_all(rs) ==
    LET Pending(S) == status' = [r \in Reqs |->
            IF r \in S /\ status[r] = "PENDING_NOWAIT" THEN "PENDING" ELSE status[r]]
    IN  /\ pc = "idle" /\ "mp_wait_all" \in Calls
        /\ rs # {} /\ rs \subseteq user
        /\ \/ Pending(rs) /\ pc' = "waiting" /\ waited' = rs
           \/ /\ "post" \in Faults /\ \E x \in rs : status[x] = "PENDING_NOWAIT"
              /\ \E S \in SUBSET rs : S # rs /\ Pending(S)
              /\ UNCHANGED <<pc, waited>>
        /\ UNCHANGED <<req, user, client, wq, cq, stream, post>>

\* Mutant of WaitReturn: one complete request ends the wait.
WaitReturnAny ==
    /\ pc = "waiting" /\ \E r \in waited : status[r] = "COMPLETE"
    /\ status' = [r \in Reqs |-> IF r \in waited THEN "UNDEF" ELSE status[r]]
    /\ req' = [r \in Reqs |-> IF r \in waited THEN NullReq ELSE req[r]]
    /\ user' = user \ waited
    /\ pc' = "idle" /\ waited' = {}
    /\ UNCHANGED <<client, wq, cq, stream, post>>

WaitReturn ==
    /\ pc = "waiting" /\ \A r \in waited : status[r] = "COMPLETE"
    /\ status' = [r \in Reqs |-> IF r \in waited THEN "UNDEF" ELSE status[r]]
    /\ req' = [r \in Reqs |-> IF r \in waited THEN NullReq ELSE req[r]]
    /\ user' = user \ waited
    /\ pc' = "idle" /\ waited' = {}
    /\ UNCHANGED <<client, wq, cq, stream, post>>

WaitGpuError ==
    /\ pc = "waiting" /\ "gpu" \in Faults
    /\ pc' = "idle" /\ waited' = {}
    /\ UNCHANGED <<status, req, user, client, wq, cq, stream, post>>

(***************************************************************************)
(* Polling                                                                 *)
(***************************************************************************)

\* mp_progress_all, the loop of mp_wait_all, or a retry loop, which polls its
\* own flow only.
Polling(flow) ==
    \/ pc = "idle" /\ "mp_progress_all" \in Calls
    \/ pc = "waiting" /\ \E r \in waited : status[r] # "COMPLETE"
    \/ pc = "posting" /\ flow = req[post].flow

\* Mutant of progress_posted_list: the head is posted whatever its id.
progress_posted_list_Early(p) ==
    LET r == Head(posted_list[p])
        c == <<p, "TX">>
    IN  /\ Polling("TX")
        /\ posted_list[p] # <<>> /\ HasRoom(c)
        /\ wq' = [wq EXCEPT ![c] = Append(@, r)]
        /\ status' = [status EXCEPT ![r] = "PENDING"]
        /\ posted_list' = [posted_list EXCEPT ![p] = Tail(@)]
        /\ UNCHANGED <<req, user, last_req_id, last_posted_trigger, last_trigger,
                       last_posted_tracked, last_tracked, cq, stream, pc, waited, post>>

\* Mutant of progress_posted_list: the list is emptied from its tail.
progress_posted_list_Last(p) ==
    LET n == Len(posted_list[p])
        r == posted_list[p][n]
        c == <<p, "TX">>
    IN  /\ Polling("TX")
        /\ posted_list[p] # <<>> /\ req[r].id <= last_trigger[p] /\ HasRoom(c)
        /\ wq' = [wq EXCEPT ![c] = Append(@, r)]
        /\ status' = [status EXCEPT ![r] = "PENDING"]
        /\ posted_list' = [posted_list EXCEPT ![p] = SubSeq(@, 1, n - 1)]
        /\ UNCHANGED <<req, user, last_req_id, last_posted_trigger, last_trigger,
                       last_posted_tracked, last_tracked, cq, stream, pc, waited, post>>

\* Mutant of progress_posted_list: a request whose id is exactly the trigger
\* stays in the list.
progress_posted_list_Below(p) ==
    LET r == Head(posted_list[p])
        c == <<p, "TX">>
    IN  /\ Polling("TX")
        /\ posted_list[p] # <<>> /\ req[r].id < last_trigger[p] /\ HasRoom(c)
        /\ wq' = [wq EXCEPT ![c] = Append(@, r)]
        /\ status' = [status EXCEPT ![r] = "PENDING"]
        /\ posted_list' = [posted_list EXCEPT ![p] = Tail(@)]
        /\ UNCHANGED <<req, user, last_req_id, last_posted_trigger, last_trigger,
                       last_posted_tracked, last_tracked, cq, stream, pc, waited, post>>

\* One request of the list; when the queue is full the request stays at the head
\* (the caller ignores the error).
progress_posted_list(p) ==
    LET r == Head(posted_list[p])
        c == <<p, "TX">>
    IN  /\ Polling("TX")
        /\ posted_list[p] # <<>> /\ req[r].id <= last_trigger[p] /\ HasRoom(c)
        /\ wq' = [wq EXCEPT ![c] = Append(@, r)]
        /\ status' = [status EXCEPT ![r] = "PENDING"]
        /\ posted_list' = [posted_list EXCEPT ![p] = Tail(@)]
        /\ UNCHANGED <<req, user, last_req_id, last_posted_trigger, last_trigger,
                       last_posted_tracked, last_tracked, cq, stream, pc, waited, post>>

\* One completion.  Its request must be pending (exit otherwise), and ids that a
\* stream waits for must come in ascending order (assertion).
mp_progress_single_flow(c) ==
    LET r      == Head(cq[c])
        fatal  == status[r] \notin {"PENDING_NOWAIT", "PENDING"}
        behind == req[r].trigger /\ last_tracked[c] >= req[r].id
    IN  /\ Polling(c[2]) /\ cq[c] # <<>>
        /\ cq' = [cq EXCEPT ![c] = Tail(@)]
        /\ \/ /\ fatal \/ behind
              /\ pc' = IF fatal THEN "exited" ELSE "aborted"
              /\ UNCHANGED <<status, last_tracked>>
           \/ /\ ~fatal /\ ~behind
              /\ last_tracked' = IF req[r].trigger THEN [last_tracked EXCEPT ![c] = req[r].id]
                                 ELSE last_tracked
              /\ status' = [status EXCEPT ![r] = "COMPLETE"]
              /\ UNCHANGED pc
        /\ UNCHANGED <<req, user, last_req_id, last_posted_trigger, last_trigger, posted_list,
                       last_posted_tracked, wq, stream, waited, post>>

(***************************************************************************)
(* The GPU and the HCA                                                     *)
(***************************************************************************)
StreamTrigger(s) ==
    LET op == Head(stream[s])
    IN  /\ stream[s] # <<>> /\ op.op = "trigger"
        /\ last_trigger' = [last_trigger EXCEPT ![op.chan[1]] = op.id]
        /\ stream' = [stream EXCEPT ![s] = Tail(@)]
        /\ UNCHANGED <<status, req, user, last_req_id, last_posted_trigger, posted_list,
                       last_posted_tracked, last_tracked, wq, cq, pc, waited, post>>

\* GDS_WAIT_COND_GEQ on last_tracked_id; the application's own work just runs.
StreamRun(s) ==
    LET op == Head(stream[s])
    IN  /\ stream[s] # <<>>
        /\ \/ op.op = "wait" /\ last_tracked[op.chan] >= op.id
           \/ op.op = "kernel"
        /\ stream' = [stream EXCEPT ![s] = Tail(@)]
        /\ UNCHANGED <<status, req, user, client, wq, cq, pc, waited, post>>

HcaExecute(c) ==
    /\ wq[c] # <<>>
    /\ wq' = [wq EXCEPT ![c] = Tail(@)]
    /\ cq' = [cq EXCEPT ![c] = Append(@, Head(wq[c]))]
    /\ UNCHANGED <<status, req, user, client, stream, pc, waited, post>>

Init ==
    /\ status = [r \in Reqs |-> "UNDEF"] /\ req = [r \in Reqs |-> NullReq] /\ user = {}
    /\ last_req_id = [p \in Peers |-> 0] /\ last_posted_trigger = [p \in Peers |-> 0]
    /\ last_trigger = [p \in Peers |-> 0] /\ posted_list = [p \in Peers |-> <<>>]
    /\ last_posted_tracked = [c \in Channels |-> 0] /\ last_tracked = [c \in Channels |-> 0]
    /\ wq = [c \in Channels |-> <<>>] /\ cq = [c \in Channels |-> <<>>]
    /\ stream = [s \in Streams |-> <<>>]
    /\ pc = "idle" /\ waited = {} /\ post = NoReq

Submit ==
    \E r \in Reqs, p \in Peers :
        \/ mp_irecv(r, p) \/ mp_irecvv(r, p) \/ mp_isend(r, p) \/ mp_isendv(r, p)
        \/ mp_send_prepare(r, p)
        \/ \E s \in Streams : mp_send_on_stream(r, p, s) \/ mp_isend_on_stream(r, p, s)

StreamCalls ==
    \E s \in Streams :
        \/ \E r \in Reqs :
              \/ mp_send_post_on_stream(r, s) \/ mp_isend_post_on_stream(r, s)
              \/ mp_wait_on_stream(r, s)
        \/ \E a, b \in Reqs :
              \/ mp_send_post_all_on_stream(a, b, s) \/ mp_isend_post_all_on_stream(a, b, s)
              \/ mp_wait_all_on_stream(a, b, s)

CpuWait == WaitReturn \/ WaitGpuError \/ PostRetry \/ PostGiveUp
           \/ \E rs \in SUBSET user : mp_wait_all(rs)

Progress ==
    \/ \E p \in Peers : progress_posted_list(p)
    \/ \E c \in Channels : mp_progress_single_flow(c) \/ HcaExecute(c)
    \/ \E s \in Streams : StreamTrigger(s) \/ StreamRun(s)

Next == Submit \/ StreamCalls \/ CpuWait \/ Progress

Spec == Init /\ [][Next]_vars

(***************************************************************************)
(* Fairness, as in MpDefault: GPU and HCA run, a thread inside a loop of   *)
(* the library polls on and leaves the loop when it can.                   *)
(***************************************************************************)
LoopPost(p) == pc # "idle" /\ progress_posted_list(p)
LoopPoll(c) == pc # "idle" /\ mp_progress_single_flow(c)

Fairness ==
    /\ \A p \in Peers : WF_vars(LoopPost(p))
    /\ \A c \in Channels : WF_vars(LoopPoll(c)) /\ WF_vars(HcaExecute(c))
    /\ \A s \in Streams : WF_vars(StreamTrigger(s)) /\ WF_vars(StreamRun(s))
    /\ WF_vars(WaitReturn) /\ WF_vars(PostRetry \/ PostGiveUp)

FairSpec == Spec /\ Fairness

(***************************************************************************)
(* Properties                                                              *)
(***************************************************************************)

Op == [op : {"trigger", "wait", "kernel"}, chan : Channels, id : Nat,
       req : Reqs \union {NoReq}]

\* Every variable has its type, and a request in use has a peer and a flow.
TypeOK ==
    /\ status \in [Reqs -> States]
    /\ req \in [Reqs -> [peer : Peers \union {"none"}, flow : {"TX", "RX", "none"},
                         id : Nat, trigger : BOOLEAN]]
    /\ \A r \in Reqs : status[r] # "UNDEF" => Chan(r) \in Channels
    /\ user \subseteq Reqs
    /\ last_req_id \in [Peers -> Nat] /\ last_posted_trigger \in [Peers -> Nat]
    /\ last_trigger \in [Peers -> Nat] /\ posted_list \in [Peers -> Seq(Reqs)]
    /\ last_posted_tracked \in [Channels -> Nat] /\ last_tracked \in [Channels -> Nat]
    /\ wq \in [Channels -> Seq(Reqs)] /\ cq \in [Channels -> Seq(Reqs)]
    /\ stream \in [Streams -> Seq(Op)]
    /\ pc \in {"idle", "waiting", "posting", "exited", "aborted"}
    /\ waited \subseteq Reqs
    /\ post \in Reqs \union {NoReq}
    /\ (pc = "posting" => post # NoReq) /\ (pc \in {"idle", "waiting"} => post = NoReq)

\* The process is not ended by the library: no completion of a request that is
\* not pending (mp.c:504-507), no id tracked behind a later one (mp.c:512), no
\* complete request in mp_wait_all_on_stream (mp_peersync.c:1192).
NeverEnds == pc \notin {"exited", "aborted"}

\* The work a stream was given after a call that waits for a request starts only
\* when the HCA has executed that request, although the stream only compares ids
\* and no wait is queued for an id below the last one waited for.
Executed(op) ==
    LET r == op.req
    IN  \/ Chan(r) # op.chan \/ req[r].id # op.id \* the structure was given out again
        \/ status[r] \in {"UNDEF", "COMPLETE"}
        \/ InSeq(r, cq[Chan(r)])
StreamNotEarly ==
    \A s \in Streams :
        stream[s] # <<>> /\ Head(stream[s]).op = "kernel" => Executed(Head(stream[s]))

\* A send whose trigger is still on a stream is still in the list: the CPU posts
\* no send before its stream reached it.
SendNotEarly ==
    \A s \in Streams : \A i \in DOMAIN stream[s] :
        stream[s][i].op = "trigger" =>
            LET p == stream[s][i].chan[1]
            IN  \E j \in DOMAIN posted_list[p] : req[posted_list[p][j]].id = stream[s][i].id

\* A send in the list will be posted by polling alone: its trigger, or a later
\* one, has been written or is still on a stream.
TrackedIsTriggered ==
    \A p \in Peers : \A i \in DOMAIN posted_list[p] :
        LET id == req[posted_list[p][i]].id
        IN  \/ last_trigger[p] >= id
            \/ \E s \in Streams : \E j \in DOMAIN stream[s] :
                  /\ stream[s][j].op = "trigger" /\ stream[s][j].chan[1] = p
                  /\ stream[s][j].id >= id

\* The event mode refines RequestLife too.
LifeOf(r) ==
    IF status[r] = "UNDEF" THEN "free"
    ELSE IF status[r] = "PREPARED" THEN "created"
    ELSE IF status[r] = "COMPLETE" THEN "complete"
    ELSE IF InSeq(r, wq[Chan(r)]) THEN "active"
    ELSE IF InSeq(r, cq[Chan(r)]) THEN "executed" ELSE "created"

Life == INSTANCE RequestLife WITH life <- [r \in Reqs |-> LifeOf(r)]

\* Requests complete after their execution and are released after their
\* completion, whatever fails and whatever order the streams run in.
LifeSpec == Life!Spec

\* No stream waits for a prepared send in front of its trigger, or without one.
WaitsAreTriggered ==
    \A s \in Streams : \A i \in DOMAIN stream[s] : stream[s][i].op = "wait" =>
        \A r \in Reqs :
            /\ status[r] = "PREPARED" /\ Chan(r) = stream[s][i].chan
            /\ req[r].id <= stream[s][i].id
            => \/ last_trigger[req[r].peer] >= req[r].id
               \/ \E j \in 1..(i - 1) : /\ stream[s][j].op = "trigger"
                                       /\ stream[s][j].chan = Chan(r)
                                       /\ stream[s][j].id >= req[r].id

\* mp_wait_all returns when every send was posted, none has lost its trigger to
\* a failed call, and no stream waits for itself.
WaitReturns ==
    (/\ pc = "waiting" /\ \A r \in Reqs : ~Unposted(r)
     /\ TrackedIsTriggered /\ WaitsAreTriggered) ~> (pc = "idle")
=============================================================================
