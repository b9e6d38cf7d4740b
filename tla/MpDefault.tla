------------------------------ MODULE MpDefault ------------------------------
(***************************************************************************)
(* The request engine of libmp with MP_EVENT_ASYNC=0 (src/src/mp.c,        *)
(* src/src/mp_peersync.c, src/src/desc_queue.cpp, src/src/mp_device.cpp):  *)
(* one application thread calls the library, the GPU executes the streams, *)
(* the HCA executes the work queues, and the thread polls the CQs.         *)
(*                                                                         *)
(* Each peer has a TX and an RX channel, one work queue and one completion *)
(* queue each.  The indices of work requests and completions are absolute  *)
(* and never reused.  The k-th call of gds_prepare_wait_cq on a CQ guards  *)
(* ("peeks") its k-th completion: while the guard is busy ibv_poll_cq does *)
(* not return that completion; the stream that executes the wait, or       *)
(* gds_post_wait_cq on the CPU, frees it.                                  *)
(***************************************************************************)
EXTENDS Naturals, Sequences

CONSTANTS Reqs,        \* the request structures of the pool
          Peers, Streams,
          NoStream,    \* the stream argument of the calls that have none
          QueueDepth,  \* work requests a queue holds before gds_post_* says ENOMEM
          MaxPosts,    \* bound: work requests posted to one channel
          Calls,       \* the library functions the application uses
          Faults,      \* the external calls that may fail
          Liberties    \* what the application does beyond its contract

AllCalls ==
    {"mp_irecv", "mp_irecvv", "mp_isend", "mp_isendv", "mp_iput", "mp_iget",
     "mp_send_on_stream", "mp_isend_on_stream", "mp_isendv_on_stream",
     "mp_iput_on_stream", "mp_iget_on_stream",
     "mp_send_prepare", "mp_sendv_prepare", "mp_put_prepare",
     "mp_send_post_on_stream", "mp_isend_post_on_stream", "mp_iput_post_on_stream",
     "mp_send_post_all_on_stream", "mp_isend_post_all_on_stream",
     "mp_iput_post_all_on_stream", "mp_desc_queue", "get_descriptors",
     "mp_wait_on_stream", "mp_wait_all_on_stream", "mp_wait_all", "mp_progress_all"}

AllFaults == {"post", "prepare_wait", "stream_post", "gpu"}

\* "rewait": waits on a stream for a request that is already complete;
\* "unordered": lets a doorbell overtake the doorbells of earlier sends;
\* "wait_nowait": waits for a MP_PUT_NOWAIT put, which answers EINVAL.
AllLiberties == {"rewait", "unordered", "wait_nowait"}

ASSUME ConstantsAssumption ==
    /\ QueueDepth \in Nat \ {0} /\ MaxPosts \in Nat
    /\ Calls \subseteq AllCalls /\ Faults \subseteq AllFaults
    /\ Liberties \subseteq AllLiberties
    /\ NoStream \notin Streams

States   == {"UNDEF", "PREPARED", "PENDING_NOWAIT", "PENDING", "COMPLETE"}
Types    == {"NULL", "SEND", "RECV", "RDMA"}
Channels == Peers \X {"TX", "RX"}

\* The two places descriptors are collected in before the GPU gets them: a
\* mp_desc_queue_t, and the arguments of a kernel that sends and waits itself.
DescQueues == {"desc_queue", "kernel"}

VARIABLES
    status,   \* status[r]: mp_request.status
    req,      \* req[r]: the other fields of mp_request that are read again
    user,     \* the requests whose handle the application was given
    posted,   \* posted[c]: work requests written to the queue
    rung,     \* rung[c]: work requests the doorbell has shown to the HCA
    done,     \* done[c]: work requests the HCA has executed
    cq,       \* cq[c]: work request and request structure (wr_id) of each completion
    polled,   \* polled[c]: completions ibv_poll_cq has returned
    peek,     \* peek[c]: the guards, in the order gds_prepare_wait_cq was called
    stream,   \* stream[s]: the operations the GPU has still to execute
    descs,    \* descs[q]: collected, not yet posted descriptors
    pc,       \* what the application thread is doing
    waited,   \* the requests mp_wait_all is waiting for
    post      \* the submission that found its queue full

vars == <<status, req, user, posted, rung, done, cq, polled, peek, stream,
          descs, pc, waited, post>>

queues   == <<posted, rung, cq>>
control  == <<pc, waited, post>>

(***************************************************************************)
(* Requests                                                                *)
(***************************************************************************)

\* wqe and wait are what gds_send_info and gds_wait_info refer to.
NullReq == [peer |-> "none", type |-> "NULL", nowait |-> FALSE, wqe |-> 0, wait |-> 0]

mp_type_to_flow(type) == IF type \in {"SEND", "RDMA"} THEN "TX" ELSE "RX"

Chan(r) == <<req[r].peer, mp_type_to_flow(req[r].type)>>

req_can_be_waited(r) ==
    \/ req[r].type = "RECV"
    \/ req[r].type \in {"SEND", "RDMA"} /\ ~req[r].nowait

\* What a submitting call does with its request: the state it creates it in and
\* leaves it in, who rings the doorbell, what it does when the queue is full,
\* whether the stream also waits for it, whether the caller gets the handle, and
\* whether the error path releases it.
How == [call : AllCalls, type : {"SEND", "RECV", "RDMA"},
        state : {"PREPARED", "PENDING_NOWAIT", "PENDING"},
        after : {"PREPARED", "PENDING_NOWAIT", "PENDING", "COMPLETE"},
        nowait : BOOLEAN, ring : {"cpu", "stream", "later"},
        full : {"fail", "bounded", "forever"},
        block : BOOLEAN, handle : BOOLEAN, undo : BOOLEAN]

Plain(call, type, ring) ==
    [call |-> call, type |-> type, state |-> "PENDING_NOWAIT",
     after |-> "PENDING_NOWAIT", nowait |-> FALSE, ring |-> ring, full |-> "fail",
     block |-> FALSE, handle |-> TRUE, undo |-> FALSE]

NoPost == [req |-> "none", peer |-> "none", stream |-> NoStream,
           how |-> Plain("mp_isend", "SEND", "cpu")]

SendOp(r, c, n) == [op |-> "send", chan |-> c, index |-> n, req |-> r]
WaitOp(r, c, k) == [op |-> "wait", chan |-> c, index |-> k, req |-> r]

\* Mutant of WaitOf: the position of the work request is taken for that of its
\* completion.
WaitOfWqe(r) == WaitOp(r, Chan(r), req[r].wqe)

SendOf(r) == SendOp(r, Chan(r), req[r].wqe)
WaitOf(r) == WaitOp(r, Chan(r), req[r].wait)

InSeq(op, seq) == \E i \in DOMAIN seq : seq[i] = op
InStreams(op) == \E s \in Streams : InSeq(op, stream[s])
InDescs(op) == \E q \in DescQueues : InSeq(op, descs[q])

(***************************************************************************)
(* Submission                                                              *)
(***************************************************************************)

\* A completion the CPU polls retires its work request and all earlier ones.
Retired(c) == IF polled[c] = 0 THEN 0 ELSE cq[c][polled[c]].wqe
HasRoom(c) == posted[c] - Retired(c) < QueueDepth

\* The application's contract on doorbells: it rings one for channel c from
\* stream s only when no earlier send of c is held back on the CPU (prepared or
\* collected in a descriptor queue) or queued on another stream.
Held(c, r) == status[r] = "PREPARED" /\ Chan(r) = c /\ req[r].wqe # 0
Ordered(c, s) ==
    \/ "unordered" \in Liberties
    \/ /\ \A r \in Reqs : ~Held(c, r)
       /\ \A q \in DescQueues : \A i \in DOMAIN descs[q] :
              ~(descs[q][i].op = "send" /\ descs[q][i].chan = c)
       /\ \A t \in Streams \ {s} : \A i \in DOMAIN stream[t] :
              ~(stream[t][i].op = "send" /\ stream[t][i].chan = c)

Release(rs) ==
    /\ status' = [r \in Reqs |-> IF r \in rs THEN "UNDEF" ELSE status[r]]
    /\ req' = [r \in Reqs |-> IF r \in rs THEN NullReq ELSE req[r]]
    /\ user' = user \ rs

\* Mutant of Create: req->type is not set.
CreateUntyped(r, p, how, state, n, w) ==
    /\ status' = [status EXCEPT ![r] = state]
    /\ req' = [req EXCEPT ![r] = [peer |-> p, type |-> "NULL",
                                  nowait |-> how.nowait, wqe |-> n, wait |-> w]]

\* new_stream_request: the first free structure; which one is not observable.
Create(r, p, how, state, n, w) ==
    /\ status' = [status EXCEPT ![r] = state]
    /\ req' = [req EXCEPT ![r] = [peer |-> p, type |-> how.type,
                                  nowait |-> how.nowait, wqe |-> n, wait |-> w]]

\* The error path: the structure is leaked, or given back.
Abandon(r, p, how, n) ==
    /\ IF how.undo THEN Release({r})
                   ELSE Create(r, p, how, how.state, n, 0) /\ user' = user

Append1(f, c, e) == [f EXCEPT ![c] = Append(@, e)]

\* gds_post_send, gds_stream_queue_send, gds_prepare_send, gds_post_recv.
PostWqe(r, c, how) ==
    /\ posted' = [posted EXCEPT ![c] = @ + 1]
    /\ rung' = IF how.ring = "cpu" THEN [rung EXCEPT ![c] = posted[c] + 1] ELSE rung
    /\ cq' = IF how.nowait THEN cq
             ELSE Append1(cq, c, [wqe |-> posted[c] + 1, req |-> r])

\* From the work request to the return of the call: post it, guard its
\* completion with gds_prepare_wait_cq, hand the request to the caller.
Enqueue(r, p, s, how) ==
    LET c    == <<p, mp_type_to_flow(how.type)>>
        n    == posted[c] + 1
        w    == Len(peek[c]) + 1
        send == IF how.ring = "stream" THEN <<SendOp(r, c, n)>> ELSE <<>>
        ops  == IF how.block THEN Append(send, WaitOp(r, c, w)) ELSE send
        To(os) == [t \in Streams |-> IF t = s THEN stream[t] \o os ELSE stream[t]]
    IN  /\ PostWqe(r, c, how)
        /\ pc' = "idle" /\ post' = NoPost
        /\ \/ /\ how.nowait
              /\ Create(r, p, how, how.after, n, 0)
              /\ user' = user \union {r}
              /\ stream' = To(ops) /\ peek' = peek
           \/ /\ ~how.nowait
              /\ Create(r, p, how, how.after, n, IF how.block THEN 0 ELSE w)
              /\ user' = IF how.handle THEN user \union {r} ELSE user
              /\ stream' = To(ops) /\ peek' = Append1(peek, c, "busy")
           \/ /\ ~how.nowait /\ "prepare_wait" \in Faults
              /\ Abandon(r, p, how, n)
              /\ stream' = To(send) /\ peek' = Append1(peek, c, "none")
        /\ UNCHANGED <<done, polled, descs, waited>>

\* A call that creates a request and posts it.
Submit(r, p, s, how) ==
    LET c == <<p, mp_type_to_flow(how.type)>>
    IN  /\ pc = "idle" /\ how.call \in Calls
        /\ status[r] = "UNDEF"
        /\ posted[c] < MaxPosts
        /\ how.ring # "later" => Ordered(c, s)
        /\ \/ HasRoom(c) /\ Enqueue(r, p, s, how)
           \/ /\ ~HasRoom(c) /\ how.full # "fail"
              /\ Create(r, p, how, how.state, 0, 0)
              /\ pc' = "posting"
              /\ post' = [req |-> r, peer |-> p, stream |-> s, how |-> how]
              /\ UNCHANGED <<user, posted, rung, done, cq, polled, peek, stream, descs, waited>>
           \/ /\ "post" \in Faults \/ (~HasRoom(c) /\ how.full = "fail")
              /\ Abandon(r, p, how, 0)
              /\ UNCHANGED <<posted, rung, done, cq, polled, peek, stream, descs, pc, waited, post>>

\* mp_irecv: a full queue is polled a bounded number of times (mp_post_recv).
mp_irecv(r, p) ==
    Submit(r, p, NoStream, [Plain("mp_irecv", "RECV", "cpu") EXCEPT !.full = "bounded"])

\* mp_irecvv posts once: a full queue is an error.
mp_irecvv(r, p) == Submit(r, p, NoStream, Plain("mp_irecvv", "RECV", "cpu"))

mp_isend(r, p) ==
    Submit(r, p, NoStream, [Plain("mp_isend", "SEND", "cpu") EXCEPT !.full = "bounded"])

\* mp_isendv never assigns *req_t.
mp_isendv(r, p) ==
    Submit(r, p, NoStream, [Plain("mp_isendv", "SEND", "cpu") EXCEPT !.handle = FALSE])

mp_iput(r, p, nw) ==
    Submit(r, p, NoStream, [Plain("mp_iput", "RDMA", "cpu") EXCEPT
                                !.full = "bounded", !.nowait = nw])

mp_iget(r, p) == Submit(r, p, NoStream, Plain("mp_iget", "RDMA", "cpu"))

\* mp_send_on_stream: the stream sends and then waits (gds_stream_wait_cq).
mp_send_on_stream(r, p, s) ==
    Submit(r, p, s, [Plain("mp_send_on_stream", "SEND", "stream") EXCEPT
                         !.state = "PENDING", !.after = "PENDING", !.block = TRUE])

\* mp_isend_on_stream: a full queue is polled for ever (mp_post_send_on_stream).
mp_isend_on_stream(r, p, s) ==
    Submit(r, p, s, [Plain("mp_isend_on_stream", "SEND", "stream") EXCEPT !.full = "forever"])

mp_isendv_on_stream(r, p, s) ==
    Submit(r, p, s, Plain("mp_isendv_on_stream", "SEND", "stream"))

\* A MP_PUT_NOWAIT put has no completion and is complete at once.
mp_iput_on_stream(r, p, s, nw) ==
    Submit(r, p, s, [Plain("mp_iput_on_stream", "RDMA", "stream") EXCEPT
                         !.full = "forever", !.nowait = nw, !.undo = TRUE,
                         !.after = IF nw THEN "COMPLETE" ELSE "PENDING_NOWAIT"])

mp_iget_on_stream(r, p, s) ==
    Submit(r, p, s, Plain("mp_iget_on_stream", "RDMA", "stream"))

\* Mutant of mp_send_prepare: gds_post_send, which rings the doorbell.
mp_send_prepare_Rings(r, p) ==
    Submit(r, p, NoStream, [Plain("mp_send_prepare", "SEND", "cpu") EXCEPT
                                !.state = "PREPARED", !.after = "PREPARED"])

mp_send_prepare(r, p) ==
    Submit(r, p, NoStream, [Plain("mp_send_prepare", "SEND", "later") EXCEPT
                                !.state = "PREPARED", !.after = "PREPARED"])

mp_sendv_prepare(r, p) ==
    Submit(r, p, NoStream, [Plain("mp_sendv_prepare", "SEND", "later") EXCEPT
                                !.state = "PREPARED", !.after = "PREPARED"])

mp_put_prepare(r, p, nw) ==
    Submit(r, p, NoStream, [Plain("mp_put_prepare", "RDMA", "later") EXCEPT
                                !.state = "PREPARED", !.after = "PREPARED",
                                !.nowait = nw, !.undo = TRUE])

\* The retry loops of mp_post_recv, mp_post_send and mp_post_send_on_stream.
PostRetry ==
    /\ pc = "posting"
    /\ HasRoom(<<post.peer, mp_type_to_flow(post.how.type)>>)
    /\ Enqueue(post.req, post.peer, post.stream, post.how)

\* MP_MAX_PROGRESS_FLOW_TRY calls of mp_progress_single_flow found no room (the
\* HCA may be that slow), or the bounded-time check of the unbounded loop saw a
\* GPU error.
PostGiveUp ==
    /\ pc = "posting"
    /\ \/ post.how.full = "bounded"
       \/ post.how.full = "forever" /\ "gpu" \in Faults
    /\ Abandon(post.req, post.peer, post.how, 0)
    /\ pc' = "idle" /\ post' = NoPost
    /\ UNCHANGED <<posted, rung, done, cq, polled, peek, stream, descs, waited>>

(***************************************************************************)
(* Posting prepared requests                                               *)
(***************************************************************************)

\* A call that hands operations of requests it holds to stream s.
OnStream(call, s, ops) ==
    /\ pc = "idle" /\ call \in Calls
    /\ stream' = [stream EXCEPT ![s] = @ \o ops]
    /\ UNCHANGED <<req, user, posted, rung, done, cq, polled, peek, descs, pc, waited, post>>

\* The application posts what it prepared in the order it prepared it.
PostOrder(rs, s) ==
    \/ "unordered" \in Liberties
    \/ \A i \in DOMAIN rs :
          /\ \A q \in Reqs :
                Held(Chan(rs[i]), q) /\ req[q].wqe < req[rs[i]].wqe
                => \E j \in 1..(i - 1) : rs[j] = q
          /\ \A t \in Streams \ {s} : \A k \in DOMAIN stream[t] :
                ~(stream[t][k].op = "send" /\ stream[t][k].chan = Chan(rs[i]))
          /\ \A q \in DescQueues : \A k \in DOMAIN descs[q] :
                ~(descs[q][k].op = "send" /\ descs[q][k].chan = Chan(rs[i]))

\* What was prepared as a send (a put) is posted as a send (a put).
Prepared(r) == r \in user /\ status[r] = "PREPARED"
PreparedAs(r, type) == Prepared(r) /\ req[r].type = type

SetStatus(rs, state) ==
    status' = [r \in Reqs |-> IF r \in rs THEN state ELSE status[r]]

\* What reaches the stream: the operations of both gds calls, or those of the
\* calls before the one that failed.
Delivered(first, second) ==
    {first \o second} \union IF "stream_post" \in Faults THEN {<<>>, first} ELSE {}

\* Mutant of mp_send_post_on_stream: the request stays MP_PREPARED.
mp_send_post_on_stream_Prepared(r, s) ==
    /\ PreparedAs(r, "SEND") /\ PostOrder(<<r>>, s)
    /\ UNCHANGED status
    /\ \E ops \in Delivered(<<SendOf(r)>>, <<WaitOf(r)>>) :
          OnStream("mp_send_post_on_stream", s, ops)

mp_send_post_on_stream(r, s) ==
    /\ PreparedAs(r, "SEND") /\ PostOrder(<<r>>, s)
    /\ SetStatus({r}, "PENDING")
    /\ \E ops \in Delivered(<<SendOf(r)>>, <<WaitOf(r)>>) :
          OnStream("mp_send_post_on_stream", s, ops)

mp_isend_post_on_stream(r, s) ==
    /\ PreparedAs(r, "SEND") /\ PostOrder(<<r>>, s)
    /\ SetStatus({r}, "PENDING_NOWAIT")
    /\ \E ops \in Delivered(<<SendOf(r)>>, <<>>) :
          OnStream("mp_isend_post_on_stream", s, ops)

\* The status changes after the send was handed over, and only if it was.
mp_iput_post_on_stream(r, s) ==
    /\ PreparedAs(r, "RDMA") /\ PostOrder(<<r>>, s)
    /\ \E ops \in Delivered(<<SendOf(r)>>, <<>>) :
          /\ OnStream("mp_iput_post_on_stream", s, ops)
          /\ SetStatus({r}, IF ops = <<>> THEN "PREPARED"
                            ELSE IF req[r].nowait THEN "COMPLETE" ELSE "PENDING_NOWAIT")

\* The calls on an array of requests; the model passes two (Batch).
Batch == {ab \in user \X user : ab[1] # ab[2]}

\* The requests stay MP_PREPARED, so nothing but the application's discipline
\* keeps it from posting them twice.
Unposted(r) == req[r].wqe > rung[Chan(r)] /\ ~InStreams(SendOf(r))

mp_send_post_all_on_stream(a, b, s) ==
    /\ PreparedAs(a, "SEND") /\ PreparedAs(b, "SEND") /\ PostOrder(<<a, b>>, s)
    /\ Unposted(a) /\ Unposted(b)
    /\ \E ops \in Delivered(<<SendOf(a), SendOf(b)>>, <<WaitOf(a), WaitOf(b)>>) :
          OnStream("mp_send_post_all_on_stream", s, ops)
    /\ UNCHANGED status

mp_isend_post_all_on_stream(a, b, s) ==
    /\ PreparedAs(a, "SEND") /\ PreparedAs(b, "SEND") /\ PostOrder(<<a, b>>, s)
    /\ SetStatus({a, b}, "PENDING_NOWAIT")
    /\ \E ops \in Delivered(<<SendOf(a), SendOf(b)>>, <<>>) :
          OnStream("mp_isend_post_all_on_stream", s, ops)

\* A MP_PUT_NOWAIT put is left MP_PENDING_NOWAIT here.
mp_iput_post_all_on_stream(a, b, s) ==
    /\ PreparedAs(a, "RDMA") /\ PreparedAs(b, "RDMA") /\ PostOrder(<<a, b>>, s)
    /\ SetStatus({a, b}, "PENDING_NOWAIT")
    /\ \E ops \in Delivered(<<SendOf(a), SendOf(b)>>, <<>>) :
          OnStream("mp_iput_post_all_on_stream", s, ops)
(***************************************************************************)
(* Descriptor queues and kernels that communicate themselves               *)
(***************************************************************************)

\* Collecting a descriptor; get_descriptors may fail after the status changed,
\* the push onto a mp_desc_queue_t may not.
Collect(q, op) ==
    /\ pc = "idle"
    /\ (IF q = "kernel" THEN "get_descriptors" ELSE "mp_desc_queue") \in Calls
    /\ \/ descs' = Append1(descs, q, op)
       \/ q = "kernel" /\ "stream_post" \in Faults /\ descs' = descs
    /\ UNCHANGED <<req, user, posted, rung, done, cq, polled, peek, stream, pc, waited, post>>

\* mp_desc_queue_add_send, get_descriptors(send_desc_t).
add_send(q, r) ==
    /\ Prepared(r)
    /\ \/ "unordered" \in Liberties
       \/ /\ \A x \in Reqs : Held(Chan(r), x) => req[r].wqe <= req[x].wqe
          /\ \A i \in DOMAIN descs[CHOOSE o \in DescQueues : o # q] :
                 descs[CHOOSE o \in DescQueues : o # q][i].chan # Chan(r)
    /\ SetStatus({r}, "PENDING_NOWAIT")
    /\ Collect(q, SendOf(r))

\* mp_desc_queue_add_wait_send, mp_desc_queue_add_wait_recv,
\* get_descriptors(wait_desc_t).
Waitable(r) ==
    /\ r \in user /\ req_can_be_waited(r)
    /\ \/ status[r] = "PENDING_NOWAIT"
       \/ status[r] = "COMPLETE" /\ "rewait" \in Liberties

add_wait(q, r) ==
    /\ Waitable(r)
    /\ SetStatus({r}, "PENDING")
    /\ Collect(q, WaitOf(r))

\* mp_desc_queue_post_on_stream flushes the queue even when the post failed; a
\* kernel is launched with the descriptors it was given.
post_descs(q, s) ==
    /\ pc = "idle" /\ descs[q] # <<>>
    /\ \/ "unordered" \in Liberties
       \/ \A t \in Streams \ {s} : \A i \in DOMAIN stream[t], j \in DOMAIN descs[q] :
             stream[t][i].op = "send" => stream[t][i].chan # descs[q][j].chan
    /\ \E ops \in Delivered(descs[q], <<>>) :
          stream' = [stream EXCEPT ![s] = @ \o ops]
    /\ descs' = [descs EXCEPT ![q] = <<>>]
    /\ UNCHANGED <<status, req, user, posted, rung, done, cq, polled, peek, pc, waited, post>>

(***************************************************************************)
(* Waiting                                                                 *)
(***************************************************************************)

mp_wait_on_stream(r, s) ==
    /\ Waitable(r)
    /\ SetStatus({r}, "PENDING")
    /\ \E ops \in Delivered(<<WaitOf(r)>>, <<>>) :
          OnStream("mp_wait_on_stream", s, ops)

\* A second request that cannot be waited for ends the call with EINVAL when
\* the first one is already MP_PENDING.
mp_wait_all_on_stream(a, b, s) ==
    /\ Waitable(a)
    /\ \/ /\ Waitable(b)
          /\ SetStatus({a, b}, "PENDING")
          /\ \E ops \in Delivered(<<WaitOf(a), WaitOf(b)>>, <<>>) :
                OnStream("mp_wait_all_on_stream", s, ops)
       \/ /\ ~req_can_be_waited(b) /\ "wait_nowait" \in Liberties
          /\ SetStatus({a}, "PENDING")
          /\ OnStream("mp_wait_all_on_stream", s, <<>>)

\* Mutant of AbortPeeks: gds_post_wait_cq is not called.
AbortPeeksSkipped(rs) ==
    /\ peek' = peek
    /\ SetStatus({r \in rs : status[r] = "PENDING_NOWAIT"}, "PENDING")

\* gds_post_wait_cq for the MP_PENDING_NOWAIT requests of rs: the CPU will poll
\* their completions itself.
AbortPeeks(rs) ==
    LET nw == {r \in rs : status[r] = "PENDING_NOWAIT"}
    IN  /\ peek' = [c \in Channels |-> [k \in DOMAIN peek[c] |->
                        IF \E r \in nw : Chan(r) = c /\ req[r].wait = k
                        THEN "free" ELSE peek[c][k]]]
        /\ SetStatus(nw, "PENDING")

\* The loop meets a request that cannot be waited for, or gds_post_wait_cq fails.
WaitRefused(r) ==
    \/ "wait_nowait" \in Liberties /\ ~req_can_be_waited(r)
    \/ "post" \in Faults /\ status[r] = "PENDING_NOWAIT"

\* The first loop of mp_wait_all (mp_wait is the call with one request).  It
\* stops with an error at a request that cannot be waited for, when it has
\* already aborted the guards of the requests before it.
mp_wait_all(rs) ==
    /\ pc = "idle" /\ "mp_wait_all" \in Calls
    /\ rs # {} /\ rs \subseteq user
    /\ \/ /\ \A r \in rs : req_can_be_waited(r)
          /\ AbortPeeks(rs)
          /\ pc' = "waiting" /\ waited' = rs
       \/ /\ \E x \in rs : WaitRefused(x)
          /\ \E before \in SUBSET {r \in rs : req_can_be_waited(r)} :
                before # rs /\ AbortPeeks(before)
          /\ UNCHANGED <<pc, waited>>
    /\ UNCHANGED <<req, user, posted, rung, done, cq, polled, stream, descs, post>>

\* Mutant of WaitReturn: one complete request ends the wait.
WaitReturnAny ==
    /\ pc = "waiting"
    /\ \E r \in waited : status[r] = "COMPLETE"
    /\ Release(waited)
    /\ pc' = "idle" /\ waited' = {}
    /\ UNCHANGED <<posted, rung, done, cq, polled, peek, stream, descs, post>>

\* The last loop of mp_wait_all: every request is complete and is released.
WaitReturn ==
    /\ pc = "waiting"
    /\ \A r \in waited : status[r] = "COMPLETE"
    /\ Release(waited)
    /\ pc' = "idle" /\ waited' = {}
    /\ UNCHANGED <<posted, rung, done, cq, polled, peek, stream, descs, post>>

\* Mutant of WaitGpuError: the requests are released on the error path too.
WaitGpuErrorReleases ==
    /\ pc = "waiting" /\ "gpu" \in Faults
    /\ Release(waited)
    /\ pc' = "idle" /\ waited' = {}
    /\ UNCHANGED <<posted, rung, done, cq, polled, peek, stream, descs, post>>

\* mp_check_gpu_error after MP_PROGRESS_ERROR_CHECK_TMOUT_US: nothing is released.
WaitGpuError ==
    /\ pc = "waiting" /\ "gpu" \in Faults
    /\ pc' = "idle" /\ waited' = {}
    /\ UNCHANGED <<status, req, user, posted, rung, done, cq, polled, peek, stream, descs, post>>

(***************************************************************************)
(* Polling: mp_progress_single_flow, one completion of ibv_poll_cq a step  *)
(***************************************************************************)

\* ibv_poll_cq returns the next completion of c.
Pollable(c) ==
    /\ polled[c] < Len(cq[c])
    /\ cq[c][polled[c] + 1].wqe <= done[c]
    /\ polled[c] + 1 \in DOMAIN peek[c] => peek[c][polled[c] + 1] # "busy"

\* Mutant of Polling: mp_wait_all stops polling at the first complete request.
PollingUntilFirst(c) ==
    \/ pc = "idle" /\ "mp_progress_all" \in Calls
    \/ pc = "waiting" /\ \A r \in waited : status[r] # "COMPLETE"
    \/ /\ pc = "posting"
       /\ post.how.full = "bounded" => c[2] = mp_type_to_flow(post.how.type)

\* Who calls it: mp_progress_all, the loop of mp_wait_all, or a retry loop
\* (mp_post_recv and mp_post_send poll their own flow only).
Polling(c) ==
    \/ pc = "idle" /\ "mp_progress_all" \in Calls
    \/ pc = "waiting" /\ \E r \in waited : status[r] # "COMPLETE"
    \/ /\ pc = "posting"
       /\ post.how.full = "bounded" => c[2] = mp_type_to_flow(post.how.type)

\* A completion whose request is not pending ends the process: exit(-1).
mp_progress_single_flow(c) ==
    LET r == cq[c][polled[c] + 1].req
    IN  /\ Polling(c) /\ Pollable(c)
        /\ polled' = [polled EXCEPT ![c] = @ + 1]
        /\ \/ /\ status[r] \in {"PENDING_NOWAIT", "PENDING"}
              /\ SetStatus({r}, "COMPLETE") /\ UNCHANGED pc
           \/ /\ status[r] \notin {"PENDING_NOWAIT", "PENDING"}
              /\ pc' = "exited" /\ UNCHANGED status
        /\ UNCHANGED <<req, user, posted, rung, done, cq, peek, stream, descs, waited, post>>

(***************************************************************************)
(* The GPU and the HCA                                                     *)
(***************************************************************************)

\* A doorbell shows the HCA every work request up to its own.
StreamSend(s) ==
    LET op == Head(stream[s])
    IN  /\ stream[s] # <<>> /\ op.op = "send"
        /\ rung' = [rung EXCEPT ![op.chan] = IF @ < op.index THEN op.index ELSE @]
        /\ stream' = [stream EXCEPT ![s] = Tail(@)]
        /\ UNCHANGED <<status, req, user, posted, done, cq, polled, peek, descs, pc, waited, post>>

\* The stream waits for its completion and then frees the guard.
StreamWait(s) ==
    LET op == Head(stream[s])
    IN  /\ stream[s] # <<>> /\ op.op = "wait"
        /\ op.index \in DOMAIN cq[op.chan]
        /\ cq[op.chan][op.index].wqe <= done[op.chan]
        /\ peek' = [peek EXCEPT ![op.chan][op.index] = "free"]
        /\ stream' = [stream EXCEPT ![s] = Tail(@)]
        /\ UNCHANGED <<status, req, user, posted, rung, done, cq, polled, descs, pc, waited, post>>

\* The HCA executes the work requests of a queue in order; on an RX channel a
\* message of the peer has arrived.
HcaExecute(c) ==
    /\ done[c] < rung[c]
    /\ done' = [done EXCEPT ![c] = @ + 1]
    /\ UNCHANGED <<status, req, user, posted, rung, cq, polled, peek, stream, descs, pc, waited, post>>

Init ==
    /\ status = [r \in Reqs |-> "UNDEF"] /\ req = [r \in Reqs |-> NullReq]
    /\ user = {}
    /\ posted = [c \in Channels |-> 0] /\ rung = [c \in Channels |-> 0]
    /\ done = [c \in Channels |-> 0] /\ polled = [c \in Channels |-> 0]
    /\ cq = [c \in Channels |-> <<>>] /\ peek = [c \in Channels |-> <<>>]
    /\ stream = [s \in Streams |-> <<>>] /\ descs = [q \in DescQueues |-> <<>>]
    /\ pc = "idle" /\ waited = {} /\ post = NoPost

CpuSubmit ==
    \E r \in Reqs, p \in Peers :
        \/ mp_irecv(r, p) \/ mp_irecvv(r, p) \/ mp_isend(r, p) \/ mp_isendv(r, p)
        \/ mp_iget(r, p) \/ mp_send_prepare(r, p) \/ mp_sendv_prepare(r, p)
        \/ \E nw \in BOOLEAN : mp_iput(r, p, nw) \/ mp_put_prepare(r, p, nw)

StreamSubmit ==
    \E r \in Reqs, p \in Peers, s \in Streams :
        \/ mp_send_on_stream(r, p, s) \/ mp_isend_on_stream(r, p, s)
        \/ mp_isendv_on_stream(r, p, s) \/ mp_iget_on_stream(r, p, s)
        \/ \E nw \in BOOLEAN : mp_iput_on_stream(r, p, s, nw)

PostPrepared ==
    \E s \in Streams :
        \/ \E r \in Reqs :
              \/ mp_send_post_on_stream(r, s) \/ mp_isend_post_on_stream(r, s)
              \/ mp_iput_post_on_stream(r, s)
        \/ \E ab \in Batch :
              \/ mp_send_post_all_on_stream(ab[1], ab[2], s)
              \/ mp_isend_post_all_on_stream(ab[1], ab[2], s)
              \/ mp_iput_post_all_on_stream(ab[1], ab[2], s)
        \/ \E q \in DescQueues : post_descs(q, s)

CpuWait ==
    \/ \E r \in Reqs, s \in Streams : mp_wait_on_stream(r, s)
    \/ \E ab \in Batch, s \in Streams : mp_wait_all_on_stream(ab[1], ab[2], s)
    \/ \E q \in DescQueues, r \in Reqs : add_send(q, r) \/ add_wait(q, r)
    \/ \E rs \in SUBSET user : mp_wait_all(rs)
    \/ WaitReturn \/ WaitGpuError

Progress ==
    \/ \E c \in Channels : mp_progress_single_flow(c) \/ HcaExecute(c)
    \/ \E s \in Streams : StreamSend(s) \/ StreamWait(s)
    \/ PostRetry \/ PostGiveUp

Next == CpuSubmit \/ StreamSubmit \/ PostPrepared \/ CpuWait \/ Progress

Spec == Init /\ [][Next]_vars

(***************************************************************************)
(* Fairness: the GPU executes its streams and the HCA its queues whatever  *)
(* the application does (a posted receive is eventually matched by the     *)
(* peer's send), and a thread inside mp_wait_all or a retry loop keeps     *)
(* polling and leaves the loop when it can.  Nothing makes the application *)
(* call the library again.                                                 *)
(***************************************************************************)
LoopProgress(c) == pc # "idle" /\ mp_progress_single_flow(c)

Fairness ==
    /\ \A c \in Channels : WF_vars(HcaExecute(c)) /\ WF_vars(LoopProgress(c))
    /\ \A s \in Streams : WF_vars(StreamSend(s)) /\ WF_vars(StreamWait(s))
    /\ WF_vars(WaitReturn) /\ WF_vars(PostRetry)

FairSpec == Spec /\ Fairness

(***************************************************************************)
(* Properties                                                              *)
(***************************************************************************)

Op == [op : {"send", "wait"}, chan : Channels, index : Nat, req : Reqs]

ReqFields == [peer : Peers \union {"none"}, type : Types, nowait : BOOLEAN,
              wqe : Nat, wait : Nat]
Submission == [req : Reqs, peer : Peers, stream : Streams \union {NoStream}, how : How]

\* Every variable has its type, and a request in use has a peer and a type.
TypeOK ==
    /\ status \in [Reqs -> States] /\ req \in [Reqs -> ReqFields]
    /\ \A r \in Reqs : status[r] # "UNDEF" => req[r].peer \in Peers /\ req[r].type # "NULL"
    /\ user \subseteq Reqs
    /\ posted \in [Channels -> Nat] /\ rung \in [Channels -> Nat]
    /\ done \in [Channels -> Nat] /\ polled \in [Channels -> Nat]
    /\ cq \in [Channels -> Seq([wqe : Nat, req : Reqs])]
    /\ peek \in [Channels -> Seq({"busy", "free", "none"})]
    /\ stream \in [Streams -> Seq(Op)] /\ descs \in [DescQueues -> Seq(Op)]
    /\ pc \in {"idle", "waiting", "posting", "exited"}
    /\ waited \subseteq Reqs
    /\ post \in IF pc = "posting" THEN Submission ELSE {NoPost} \union Submission

\* The completions of c that ibv_poll_cq has still to return.
ToPoll(c) == (polled[c] + 1)..Len(cq[c])

\* The poll never meets a completion whose request is not pending
\* (mp.c:501-507 would call exit).
NoFatalExit == pc # "exited"

\* A completion still to come names a request that waits for it: no structure
\* that is complete, or back in the free list, will be written by
\* mp_progress_single_flow, so a reused one is not completed by the completion
\* of its former life.
NoDanglingCompletion ==
    \A c \in Channels : \A k \in ToPoll(c) :
        status[cq[c][k].req] \notin {"UNDEF", "COMPLETE"}

\* gds_prepare_wait_cq guards completions by position.  The guard a request
\* remembers, and the guard a stream or a descriptor queue will wait on, is the
\* one of the request's own completion: no call posts a signaled work request
\* without a guard, or a guard without a signaled work request.
IsWaitFor(op) ==
    op.op = "wait" => /\ op.index \in DOMAIN cq[op.chan]
                      /\ cq[op.chan][op.index].req = op.req
WaitsForItself ==
    /\ \A r \in user : req_can_be_waited(r) /\ status[r] \in {"PREPARED", "PENDING_NOWAIT"} =>
          /\ req[r].wait \in DOMAIN cq[Chan(r)]
          /\ cq[Chan(r)][req[r].wait] = [wqe |-> req[r].wqe, req |-> r]
    /\ \A s \in Streams : \A i \in DOMAIN stream[s] : IsWaitFor(stream[s][i])
    /\ \A q \in DescQueues : \A i \in DOMAIN descs[q] : IsWaitFor(descs[q][i])

\* Under the contract on doorbells the HCA sees a send only after the stream it
\* was posted on has reached it: what is prepared, collected or queued is not
\* behind the doorbell.
SendNotEarly ==
    /\ \A r \in Reqs : status[r] = "PREPARED" => req[r].wqe = 0 \/ req[r].wqe > rung[Chan(r)]
    /\ \A s \in Streams : \A i \in DOMAIN stream[s] :
          stream[s][i].op = "send" => stream[s][i].index > rung[stream[s][i].chan]
    /\ \A q \in DescQueues : \A i \in DOMAIN descs[q] :
          descs[q][i].op = "send" => descs[q][i].index > rung[descs[q][i].chan]

\* A MP_PENDING request needs nothing more from the application than posting its
\* descriptors: its completion is to come, and its guard is free or some stream
\* or descriptor queue holds the wait that frees it.
PendingIsArmed ==
    \A r \in user : status[r] = "PENDING" =>
        \E k \in ToPoll(Chan(r)) :
            /\ cq[Chan(r)][k].req = r
            /\ \/ peek[Chan(r)][k] # "busy"
               \/ InStreams(WaitOp(r, Chan(r), k)) \/ InDescs(WaitOp(r, Chan(r), k))

\* The promise of RequestLife, under this mapping.
OwnCompletions(r) == {k \in ToPoll(Chan(r)) : cq[Chan(r)][k].req = r}

LifeOf(r) ==
    IF status[r] = "UNDEF" THEN "free"
    ELSE IF req[r].wqe = 0 THEN "created"
    ELSE IF req[r].nowait THEN "unsignaled"
    ELSE IF OwnCompletions(r) # {}
         THEN IF req[r].wqe <= done[Chan(r)] THEN "executed" ELSE "active"
    ELSE IF status[r] = "COMPLETE" THEN "complete" ELSE "lost"

Life == INSTANCE RequestLife WITH life <- [r \in Reqs |-> LifeOf(r)]

\* The library refines RequestLife: requests complete after their execution and
\* are released after their completion.
LifeSpec == Life!Spec

\* The completions up to k will be returned without the application's help: each
\* guard is free, or a stream holds the wait that frees it.
Serviceable(c, k) ==
    \A j \in (polled[c] + 1)..k :
        peek[c][j] = "busy" => InStreams(WaitOp(cq[c][j].req, c, j))

\* No send is held back on the CPU, where only the waiting thread could post it.
AllPosted ==
    \A c \in Channels : posted[c] > rung[c] =>
        \E s \in Streams : \E i \in DOMAIN stream[s] :
            stream[s][i].op = "send" /\ stream[s][i].chan = c /\ stream[s][i].index = posted[c]

\* A stream reaches its waits: the doorbell that covers what a wait is for was
\* rung or stands in front of it on the same stream.
StreamsRun ==
    \A s \in Streams : \A i \in DOMAIN stream[s] :
        LET op == stream[s][i]
            n  == cq[op.chan][op.index].wqe
        IN  op.op = "wait" =>
                \/ n <= rung[op.chan]
                \/ \E j \in 1..(i - 1) : /\ stream[s][j].op = "send"
                                        /\ stream[s][j].chan = op.chan
                                        /\ stream[s][j].index >= n

\* mp_wait_all returns, provided the application waits in the order in which it
\* posted on each channel (an earlier guard nobody frees hides all completions
\* behind it), holds no send back, and lets no stream wait in front of the
\* doorbell it waits for.
WaitReturns ==
    (/\ pc = "waiting" /\ AllPosted /\ StreamsRun
     /\ \A r \in waited : \A k \in OwnCompletions(r) : Serviceable(Chan(r), k))
    ~> (pc = "idle")
=============================================================================
