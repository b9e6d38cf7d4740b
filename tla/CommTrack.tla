------------------------------ MODULE CommTrack ------------------------------
(***************************************************************************)
(* The bookkeeping of the COMM library at one rank                         *)
(* (src/comm_library/comm.cpp): the table reqs[] of posted requests that   *)
(* comm_flush waits for, the registrations cached in the application's     *)
(* comm_reg_t variables, and the ring of descriptor blocks that kernels    *)
(* read.  Under it lies the engine with MP_EVENT_ASYNC=0 (src/src/mp.c):   *)
(* its pool, which gives out the structure released last, and its          *)
(* completion queues, which are polled in order and only up to the first   *)
(* completion whose guard is busy.                                         *)
(***************************************************************************)
EXTENDS Naturals, Sequences, FiniteSets, Functions, SequencesExt

CONSTANTS Reqs,      \* bound: the structures of the pool
          Bufs,      \* the buffers of the application, each with a comm_reg_t
          Flows,     \* the completion queues: one for each peer and direction
          None,
          MaxReqs,   \* MAX_REQS, the length of reqs[]
          NDreqs,    \* n_dreqs, the length of the ring
          MaxDescs,  \* max_n_descs, the descriptors of one kind in a block
          MaxKeys,   \* bound: registrations made
          Calls,     \* the functions the application uses
          Faults     \* the external calls that may fail

AllCalls ==
    {"comm_isend", "comm_prepare_isend", "comm_send_ready", "comm_send_ready_on_stream",
     "comm_deregister", "comm_wait", "comm_wait_all_on_stream", "comm_prepare_wait_all",
     "comm_progress", "comm_flush"}

ASSUME ConstantsAssumption ==
    /\ IsFiniteSet(Reqs) /\ None \notin Nat
    /\ MaxReqs \in Nat \ {0} /\ NDreqs \in Nat \ {0} /\ MaxDescs \in Nat /\ MaxKeys \in Nat
    /\ Calls \subseteq AllCalls /\ Faults \subseteq {"post", "desc", "wait", "gpu"}

VARIABLES
    status,         \* status[r]: the state of the request in structure r
    free,           \* mp_request_free_list
    reg,            \* reg[r]: the registration its work request refers to
    cq,             \* cq[f]: the requests whose completions are to come, in order
    shown,          \* the requests of cq that a doorbell has shown to the HCA
    guard,          \* guard[r]: what holds the completion of r back
    reqs,           \* the table; n_reqs is its length
    creg,           \* creg[b]: the cached registration of buffer b
    mrs, keys,      \* the live registrations, and how many were made
    slots,          \* slots[k]: the send and wait descriptors in block k
    dreq_idx,       \* the block being filled
    kernels,        \* the launched kernels: their block, and what it held then
    pc, waited,     \* what the thread is doing, and waits for
    mixed,          \* history: comm_wait has released a request of the table
    lost,           \* history: a comm_flush has failed
    broken          \* history: the registrations dropped while in use

pool  == <<status, free, reg>>
queue == <<cq, shown, guard>>
cache == <<creg, mrs, keys>>
ring  == <<slots, dreq_idx, kernels>>
past  == <<mixed, lost, broken>>
vars  == <<pool, queue, reqs, cache, ring, pc, waited, past>>

\* NOWAIT: a put with MP_PUT_NOWAIT; LEAKED: its post failed; STRAY: it was
\* posted and get_descriptors failed, so that nobody knows it; SPENT: such a
\* request was polled.  All four keep their structure.
States == {"UNDEF", "ACTIVE", "COMPLETE", "NOWAIT", "LEAKED", "STRAY", "SPENT"}
Live   == {"ACTIVE", "COMPLETE"}
InFlight == {"ACTIVE", "STRAY"}
Done   == {"COMPLETE", "SPENT"}

\* "busy": gds_prepare_wait_cq, the request is MP_PENDING_NOWAIT; "none": the CPU
\* polls it; "stream", "passed": a wait on a stream, and after it; "desc", then
\* "kernel": the wait descriptor of a kernel, and of one that runs; "stuck": the
\* request is MP_PENDING and nobody has its descriptor.
Guards == {"none", "busy", "stream", "passed", "desc", "kernel", "stuck"}

Elements(seq) == ToSet(seq)

\* The application, not inside the library, calls one of its functions.
Calling(call) == pc = "idle" /\ call \in Calls

Slots == 0..(NDreqs - 1)
Desc  == [kind : {"tx", "wait"}, req : Reqs]

(***************************************************************************)
(* The pool                                                                *)
(***************************************************************************)

\* get_request and new_stream_request.
Take(state, key) ==
    /\ free # <<>>
    /\ free' = Tail(free)
    /\ status' = [status EXCEPT ![Head(free)] = state]
    /\ reg' = [reg EXCEPT ![Head(free)] = key]

\* The work request of the structure taken goes to flow f, its completion guarded.
Enqueue(f) ==
    /\ cq' = [cq EXCEPT ![f] = Append(@, Head(free))]
    /\ guard' = [guard EXCEPT ![Head(free)] = "busy"]

\* No work request was posted for the structure taken.
NotEnqueued ==
    /\ guard' = [guard EXCEPT ![Head(free)] = "none"]
    /\ UNCHANGED <<cq, shown>>

\* A doorbell of f shows the HCA every work request of f in front of it.
Doorbell(f) == shown' = shown \union Elements(cq'[f])

\* Mutant of ReleaseAll: the loop does not look at the status.
ReleaseAllUnchecked(seq) ==
    /\ status' = [r \in Reqs |-> IF r \in Elements(seq) THEN "UNDEF" ELSE status[r]]
    /\ reg' = [r \in Reqs |-> IF r \in Elements(seq) THEN None ELSE reg[r]]
    /\ free' = Reverse(seq) \o free

\* r has its first turn in seq before q has one.
Before(seq, r, q) == \E k \in DOMAIN seq : seq[k] = r /\ \A n \in 1..k : seq[n] # q

\* The last loop of mp_wait_all: a structure that is in seq twice is MP_UNDEF at
\* its second turn and not released again; the one released last is first in the
\* free list.
ReleaseAll(seq) ==
    /\ status' = [r \in Reqs |-> IF r \in Elements(seq) THEN "UNDEF" ELSE status[r]]
    /\ reg' = [r \in Reqs |-> IF r \in Elements(seq) THEN None ELSE reg[r]]
    /\ \E order \in Bijection(1..Cardinality(Elements(seq)), Elements(seq)) :
          /\ \A k, n \in DOMAIN order : k < n => Before(seq, order[n], order[k])
          /\ free' = order \o free

(***************************************************************************)
(* Registrations                                                           *)
(***************************************************************************)

\* comm_register keeps a cached registration.
Fresh(b)  == creg[b] = None
KeyFor(b) == IF Fresh(b) THEN keys + 1 ELSE creg[b]

comm_register(b) ==
    /\ creg' = [creg EXCEPT ![b] = KeyFor(b)]
    /\ mrs' = IF Fresh(b) THEN mrs \union {keys + 1} ELSE mrs
    /\ keys' = IF Fresh(b) THEN keys + 1 ELSE keys

\* Mutant of RegisterAndDrop: *creg is not cleared after mp_deregister.
RegisterAndDropKept(b) ==
    /\ creg' = [creg EXCEPT ![b] = KeyFor(b)]
    /\ mrs' = mrs \ {KeyFor(b)}
    /\ keys' = IF Fresh(b) THEN keys + 1 ELSE keys

\* comm_register and then, because the post failed, comm_deregister.
RegisterAndDrop(b) ==
    /\ creg' = [creg EXCEPT ![b] = None]
    /\ mrs' = mrs \ {KeyFor(b)}
    /\ keys' = IF Fresh(b) THEN keys + 1 ELSE keys

InUse(b) == ~Fresh(b) /\ \E r \in Reqs : status[r] = "ACTIVE" /\ reg[r] = creg[b]

\* The application drops the registrations no request needs any more.
comm_deregister(b) ==
    /\ Calling("comm_deregister") /\ ~Fresh(b) /\ ~InUse(b)
    /\ creg' = [creg EXCEPT ![b] = None] /\ mrs' = mrs \ {creg[b]}
    /\ UNCHANGED <<pool, queue, reqs, keys, ring, pc, waited, past>>

(***************************************************************************)
(* Posting                                                                 *)
(***************************************************************************)

\* The contract: fewer than MAX_REQS requests are outstanding at any time.
MayPost(call) ==
    /\ Calling(call) /\ free # <<>>
    /\ Cardinality({r \in Reqs : status[r] \in Live}) + 1 < MaxReqs

\* comm_track_request; its assertion ends the process when the table is full.
comm_track_request(r) ==
    \/ /\ Len(reqs) < MaxReqs
       /\ reqs' = Append(reqs, r)
       /\ UNCHANGED pc
    \/ /\ Len(reqs) >= MaxReqs
       /\ pc' = "aborted" /\ UNCHANGED reqs

\* The error path of a post: the structure is not released, the registration is
\* dropped, also when other requests use it.
PostFails(b, state) ==
    /\ Take(state, None)
    /\ RegisterAndDrop(b)
    /\ broken' = IF InUse(b) THEN broken \union {creg[b]} ELSE broken
    /\ UNCHANGED <<reqs, pc>>

\* comm_irecv, comm_isend, comm_isend_on_stream.  The stream of the last one
\* reaches its doorbell at some time, which is the time it is shown here.
comm_isend(b, f) ==
    /\ MayPost("comm_isend")
    /\ Fresh(b) => keys < MaxKeys
    /\ \/ /\ comm_register(b)
          /\ Take("ACTIVE", KeyFor(b)) /\ Enqueue(f) /\ Doorbell(f)
          /\ comm_track_request(Head(free))
          /\ UNCHANGED broken
       \/ "post" \in Faults /\ PostFails(b, "LEAKED") /\ NotEnqueued
    /\ UNCHANGED <<ring, waited, mixed, lost>>

\* The descriptors of a kind in the block being filled, and one more of r.
Count(kind) == Len(SelectSeq(slots[dreq_idx], LAMBDA d : d.kind = kind))
AddDesc(kind, r) ==
    slots' = [slots EXCEPT ![dreq_idx] = Append(@, [kind |-> kind, req |-> r])]

\* Mutant of comm_prepare_isend: n_tx is not incremented.
comm_prepare_isend_NotCounted(b, f) ==
    /\ MayPost("comm_prepare_isend")
    /\ Fresh(b) => keys < MaxKeys
    /\ comm_register(b)
    /\ Take("ACTIVE", KeyFor(b)) /\ Enqueue(f) /\ UNCHANGED shown
    /\ comm_track_request(Head(free))
    /\ UNCHANGED <<ring, waited, past>>

\* comm_prepare_isend collects the send in the block of the next kernel; when
\* get_descriptors fails, n_tx has already counted the descriptor, and the work
\* request stays in the queue, its completion guarded.  The contract: n_tx, which
\* is not tested, stays within max_n_descs.
comm_prepare_isend(b, f) ==
    /\ MayPost("comm_prepare_isend") /\ Count("tx") < MaxDescs
    /\ Fresh(b) => keys < MaxKeys
    /\ \/ /\ comm_register(b)
          /\ Take("ACTIVE", KeyFor(b)) /\ Enqueue(f) /\ UNCHANGED shown
          /\ comm_track_request(Head(free))
          /\ AddDesc("tx", Head(free))
          /\ UNCHANGED broken
       \/ "post" \in Faults /\ PostFails(b, "LEAKED") /\ NotEnqueued /\ UNCHANGED slots
       \/ /\ "desc" \in Faults /\ PostFails(b, "STRAY") /\ Enqueue(f) /\ UNCHANGED shown
          /\ AddDesc("tx", Head(free))
    /\ UNCHANGED <<dreq_idx, kernels, waited, mixed, lost>>

\* The put is not tracked and has no completion; its doorbell covers what was
\* prepared before it.
comm_send_ready(f) ==
    /\ Calling("comm_send_ready")
    /\ Take("NOWAIT", None)
    /\ guard' = [guard EXCEPT ![Head(free)] = "none"]
    /\ UNCHANGED cq /\ Doorbell(f)
    /\ UNCHANGED <<reqs, cache, ring, pc, waited, past>>

\* The put of the table is registered once for all (remote_ready_values_reg).
comm_send_ready_on_stream(f) ==
    /\ MayPost("comm_send_ready_on_stream")
    /\ Take("ACTIVE", None) /\ Enqueue(f) /\ Doorbell(f)
    /\ comm_track_request(Head(free))
    /\ UNCHANGED <<cache, ring, waited, past>>

(***************************************************************************)
(* Kernels                                                                 *)
(***************************************************************************)

\* Mutant of comm_prepared_requests: the index stays where it is.
comm_prepared_requests_Same ==
    /\ pc = "idle" /\ slots[dreq_idx] # <<>> /\ Len(kernels) + 1 < NDreqs
    /\ kernels' = Append(kernels, [slot |-> dreq_idx, block |-> slots[dreq_idx]])
    /\ slots' = [slots EXCEPT ![dreq_idx] = <<>>]
    /\ UNCHANGED <<pool, queue, reqs, cache, dreq_idx, pc, waited, past>>

\* Mutant of comm_prepared_requests: the index does not wrap.
comm_prepared_requests_NoWrap ==
    /\ pc = "idle" /\ slots[dreq_idx] # <<>> /\ Len(kernels) + 1 < NDreqs
    /\ kernels' = Append(kernels, [slot |-> dreq_idx, block |-> slots[dreq_idx]])
    /\ dreq_idx' = dreq_idx + 1
    /\ slots' = [k \in Slots |-> IF k = dreq_idx + 1 THEN <<>> ELSE slots[k]]
    /\ UNCHANGED <<pool, queue, reqs, cache, pc, waited, past>>

\* comm_prepared_requests clears the next block; the application launches the
\* kernel.  The contract: fewer than n_dreqs kernels are launched at a time.
comm_prepared_requests ==
    LET next == (dreq_idx + 1) % NDreqs
    IN  /\ pc = "idle" /\ slots[dreq_idx] # <<>> /\ Len(kernels) + 1 < NDreqs
        /\ kernels' = Append(kernels, [slot |-> dreq_idx, block |-> slots[dreq_idx]])
        /\ dreq_idx' = next /\ slots' = [slots EXCEPT ![next] = <<>>]
        /\ UNCHANGED <<pool, queue, reqs, cache, pc, waited, past>>

\* A structure that was released and prepared again has its descriptor in a later
\* block too: the doorbell of its former life shows nothing new.
PreparedAgain(r) ==
    \E k \in {dreq_idx} \union {kernels[n].slot : n \in 2..Len(kernels)} :
        \E d \in Elements(slots[k]) : d.kind = "tx" /\ d.req = r

\* The first kernel of the stream rings the doorbells its block has and begins the
\* waits; STRAY and stuck requests have no descriptor.
RunKernel ==
    LET block == Elements(slots[Head(kernels).slot])
        rings == {d.req : d \in {e \in block : e.kind = "tx" /\ status[e.req] = "ACTIVE"
                                              /\ ~PreparedAgain(e.req)}}
        waits == {d.req : d \in {e \in block : e.kind = "wait"}}
    IN  /\ kernels # <<>>
        /\ shown' = shown \union
               {r \in Reqs : \E f \in Flows : \E k, n \in DOMAIN cq[f] :
                                 k <= n /\ cq[f][k] = r /\ cq[f][n] \in rings}
        /\ guard' = [r \in Reqs |-> IF r \in waits /\ guard[r] = "desc" THEN "kernel" ELSE guard[r]]
        /\ kernels' = Tail(kernels)
        /\ UNCHANGED <<pool, cq, reqs, cache, slots, dreq_idx, pc, waited, past>>

\* The GPU passes a wait, in a stream or a kernel, and frees the guard.  When it
\* gets there is left open: CommReady has the order of the streams.
PassWait(r) ==
    /\ guard[r] \in {"stream", "kernel"} /\ r \in shown
    /\ guard' = [guard EXCEPT ![r] = IF @ = "stream" THEN "passed" ELSE "none"]
    /\ UNCHANGED <<pool, cq, shown, reqs, cache, ring, pc, waited, past>>

(***************************************************************************)
(* Waiting                                                                 *)
(***************************************************************************)

\* The application holds the handles of its requests until they are released;
\* comm_wait_all_on_stream takes them away.
Handles == {r \in Reqs : status[r] \in Live /\ guard[r] \notin {"stream", "passed"}}

\* The contract: the descriptors of the block being filled have no kernel yet.
Launched(rs) == \A d \in Elements(slots[dreq_idx]) : d.req \notin rs

\* comm_wait_all_on_stream, one request of its array a step; an error ends the
\* process (MP_CHECK).  The contract: the request is not waited for already.
comm_wait_all_on_stream(r) ==
    /\ Calling("comm_wait_all_on_stream") /\ r \in Handles /\ guard[r] = "busy"
    /\ \/ guard' = [guard EXCEPT ![r] = "stream"] /\ UNCHANGED pc
       \/ "wait" \in Faults /\ pc' = "exited" /\ UNCHANGED guard
    /\ UNCHANGED <<pool, cq, shown, reqs, cache, ring, waited, past>>

\* comm_prepare_wait_all, one request of its array a step; when get_descriptors
\* fails the request is MP_PENDING and n_wait has counted the descriptor.
comm_prepare_wait_all(r) ==
    /\ Calling("comm_prepare_wait_all") /\ r \in Handles /\ guard[r] = "busy" /\ Count("wait") < MaxDescs
    /\ \/ guard' = [guard EXCEPT ![r] = "desc"]
       \/ "desc" \in Faults /\ guard' = [guard EXCEPT ![r] = "stuck"]
    /\ AddDesc("wait", r)
    /\ UNCHANGED <<pool, cq, shown, reqs, cache, dreq_idx, kernels, pc, waited, past>>

\* The first loop of mp_wait_all: gds_post_wait_cq for the MP_PENDING_NOWAIT
\* requests of rs.
FreeGuards(rs) ==
    guard' = [r \in Reqs |-> IF r \in rs /\ guard[r] = "busy" THEN "none" ELSE guard[r]]

\* comm_wait and comm_wait_all; an error ends the process (MP_CHECK).
comm_wait(seq) ==
    /\ Calling("comm_wait") /\ Elements(seq) \subseteq Handles /\ Launched(Elements(seq))
    /\ \/ FreeGuards(Elements(seq)) /\ pc' = "waiting" /\ waited' = seq
       \/ /\ "wait" \in Faults /\ \E r \in Elements(seq) : guard[r] = "busy"
          /\ pc' = "exited" /\ UNCHANGED <<guard, waited>>
    /\ UNCHANGED <<pool, cq, shown, reqs, cache, ring, past>>

\* Mutant of WaitReturn: the table is emptied as in comm_flush.
WaitReturnFlushes ==
    /\ pc = "waiting" /\ \A r \in Elements(waited) : status[r] = "COMPLETE"
    /\ ReleaseAll(waited)
    /\ mixed' = TRUE /\ reqs' = <<>>
    /\ pc' = "idle" /\ waited' = <<>>
    /\ UNCHANGED <<queue, cache, ring, lost, broken>>

\* The structures are released, and stay in the table.
WaitReturn ==
    /\ pc = "waiting" /\ \A r \in Elements(waited) : status[r] = "COMPLETE"
    /\ ReleaseAll(waited)
    /\ mixed' = TRUE
    /\ pc' = "idle" /\ waited' = <<>>
    /\ UNCHANGED <<queue, reqs, cache, ring, lost, broken>>

\* ibv_poll_cq returns the next completion of f, unless its guard is busy; the
\* process ends when its request is not in flight.
mp_progress_single_flow(f) ==
    LET r == Head(cq[f])
    IN  /\ cq[f] # <<>> /\ r \in shown /\ guard[r] \in {"none", "passed"}
        /\ cq' = [cq EXCEPT ![f] = Tail(@)] /\ shown' = shown \ {r}
        /\ status' = [status EXCEPT ![r] = IF @ = "ACTIVE" THEN "COMPLETE"
                                           ELSE IF @ = "STRAY" THEN "SPENT" ELSE @]
        /\ pc' = IF status[r] \in InFlight THEN pc ELSE "exited"
        /\ UNCHANGED guard

\* comm_progress, also from comm_wait_ready, polls while a request of the table
\* is not complete: it completes requests, of the table or not, and releases none.
comm_progress(f) ==
    /\ Calling("comm_progress")
    /\ \/ /\ Len(reqs) < MaxReqs
          /\ \E q \in Elements(reqs) : status[q] \notin Done
          /\ mp_progress_single_flow(f)
       \/ Len(reqs) >= MaxReqs /\ pc' = "aborted" /\ UNCHANGED <<status, queue>>
    /\ UNCHANGED <<free, reg, reqs, cache, ring, waited, past>>

\* The first loop of mp_wait_all goes through the table in order: it fails an
\* assertion at a structure that was released (req_type_rx), returns EINVAL at one
\* that a MP_PUT_NOWAIT put has taken over, and an error when gds_post_wait_cq
\* fails; n_reqs is reset all the same, and the guards before are free.
Upto(k) == {reqs[n] : n \in 1..(k - 1)}
Reaches(k) == \A r \in Upto(k) : status[r] \notin {"UNDEF", "NOWAIT"}
FailsAt(k) ==
    /\ Reaches(k)
    /\ \/ status[reqs[k]] = "NOWAIT"
       \/ "wait" \in Faults /\ guard[reqs[k]] = "busy" /\ reqs[k] \notin Upto(k)

comm_flush ==
    /\ Calling("comm_flush") /\ reqs # <<>> /\ Launched(Elements(reqs))
    /\ \/ /\ \/ Len(reqs) >= MaxReqs
             \/ \E k \in DOMAIN reqs : Reaches(k) /\ status[reqs[k]] = "UNDEF"
          /\ pc' = "aborted" /\ UNCHANGED <<guard, reqs, waited, lost>>
       \/ /\ Len(reqs) < MaxReqs
          /\ \E k \in DOMAIN reqs : FailsAt(k) /\ FreeGuards(Upto(k))
          /\ reqs' = <<>> /\ lost' = TRUE /\ UNCHANGED <<pc, waited>>
       \/ /\ Len(reqs) < MaxReqs /\ Reaches(Len(reqs) + 1)
          /\ FreeGuards(Elements(reqs))
          /\ pc' = "flushing" /\ waited' = reqs /\ UNCHANGED <<reqs, lost>>
    /\ UNCHANGED <<pool, cq, shown, cache, ring, mixed, broken>>

\* Mutant of FlushReturn: n_reqs is not reset.
FlushReturnKept ==
    /\ pc = "flushing" /\ \A r \in Elements(waited) : status[r] \in Done
    /\ ReleaseAll(waited)
    /\ pc' = "idle" /\ waited' = <<>>
    /\ UNCHANGED <<queue, reqs, cache, ring, past>>

FlushReturn ==
    /\ pc = "flushing" /\ \A r \in Elements(waited) : status[r] \in Done
    /\ ReleaseAll(waited) /\ reqs' = <<>>
    /\ pc' = "idle" /\ waited' = <<>>
    /\ UNCHANGED <<queue, cache, ring, past>>

\* Mutant of GpuError: the last loop of mp_wait_all runs on the error path too.
GpuErrorReleases ==
    /\ "gpu" \in Faults /\ pc \in {"waiting", "flushing"}
    /\ ReleaseAll(waited)
    /\ pc' = IF pc = "waiting" THEN "exited" ELSE "idle"
    /\ reqs' = IF pc = "waiting" THEN reqs ELSE <<>>
    /\ lost' = TRUE /\ waited' = <<>>
    /\ UNCHANGED <<queue, cache, ring, mixed, broken>>

\* mp_wait_all gives up on a GPU error: comm_wait ends the process (MP_CHECK),
\* comm_flush returns the error and has forgotten the requests.
GpuError ==
    /\ "gpu" \in Faults /\ pc \in {"waiting", "flushing"}
    /\ pc' = IF pc = "waiting" THEN "exited" ELSE "idle"
    /\ reqs' = IF pc = "waiting" THEN reqs ELSE <<>>
    /\ lost' = TRUE /\ waited' = <<>>
    /\ UNCHANGED <<pool, queue, cache, ring, mixed, broken>>

\* The second loop of mp_wait_all polls while a request is not complete.
Poll(f) ==
    /\ pc \in {"waiting", "flushing"} /\ \E r \in Elements(waited) : status[r] \notin Done
    /\ mp_progress_single_flow(f)
    /\ UNCHANGED <<free, reg, reqs, cache, ring, waited, past>>

(***************************************************************************)
(* Specification                                                           *)
(***************************************************************************)

Init ==
    /\ status = [r \in Reqs |-> "UNDEF"] /\ reg = [r \in Reqs |-> None]
    /\ free = SetToSeq(Reqs)
    /\ cq = [f \in Flows |-> <<>>] /\ shown = {} /\ guard = [r \in Reqs |-> "none"]
    /\ reqs = <<>>
    /\ creg = [b \in Bufs |-> None] /\ mrs = {} /\ keys = 0
    /\ slots = [k \in Slots |-> <<>>] /\ dreq_idx = 0 /\ kernels = <<>>
    /\ pc = "idle" /\ waited = <<>>
    /\ mixed = FALSE /\ lost = FALSE /\ broken = {}

Next ==
    \/ \E b \in Bufs, f \in Flows : comm_isend(b, f) \/ comm_prepare_isend(b, f)
    \/ \E b \in Bufs : comm_deregister(b)
    \/ \E f \in Flows : comm_send_ready(f) \/ comm_send_ready_on_stream(f)
    \/ comm_prepared_requests \/ RunKernel
    \/ \E r \in Reqs : comm_wait_all_on_stream(r) \/ comm_prepare_wait_all(r) \/ PassWait(r)
    \/ \E r \in Handles : comm_wait(<<r>>)
    \/ \E a, b \in Handles : a # b /\ comm_wait(<<a, b>>)
    \/ \E f \in Flows : comm_progress(f) \/ Poll(f)
    \/ comm_flush \/ WaitReturn \/ FlushReturn \/ GpuError

Spec == Init /\ [][Next]_vars

\* The GPU runs the kernels and passes the waits, the HCA executes what it was
\* shown, and a waiting thread polls.
Fairness ==
    /\ WF_vars(RunKernel) /\ WF_vars(WaitReturn) /\ WF_vars(FlushReturn)
    /\ \A r \in Reqs : WF_vars(PassWait(r))
    /\ \A f \in Flows : WF_vars(Poll(f))

FairSpec == Spec /\ Fairness

(***************************************************************************)
(* Properties                                                              *)
(***************************************************************************)

\* Every variable has its type.
TypeOK ==
    /\ status \in [Reqs -> States] /\ free \in Seq(Reqs)
    /\ reg \in [Reqs -> Nat \union {None}]
    /\ cq \in [Flows -> Seq(Reqs)] /\ shown \subseteq Reqs /\ guard \in [Reqs -> Guards]
    /\ reqs \in Seq(Reqs) /\ Len(reqs) <= MaxReqs
    /\ creg \in [Bufs -> Nat \union {None}] /\ mrs \subseteq Nat /\ keys \in Nat
    /\ slots \in [Slots -> Seq(Desc)] /\ dreq_idx \in Slots
    /\ kernels \in Seq([slot : Slots, block : Seq(Desc)])
    /\ pc \in {"idle", "waiting", "flushing", "aborted", "exited"} /\ waited \in Seq(Reqs)
    /\ mixed \in BOOLEAN /\ lost \in BOOLEAN /\ broken \subseteq Nat

\* The free list holds the released structures, each once, although the table
\* may name one twice when comm_flush releases.
FreeListSound ==
    /\ \A k, n \in DOMAIN free : free[k] = free[n] => k = n
    /\ \A r \in Reqs : status[r] = "UNDEF" <=> r \in Elements(free)

\* An application that leaves the waiting to comm_flush meets no assertion of
\* the table, as long as it has fewer than MAX_REQS requests outstanding.
NoAbort == pc = "aborted" => mixed

\* comm_flush will wait for every request that was posted and not released: none
\* leaves the table another way than by a failed comm_flush.
Covered ==
    ~lost /\ pc # "aborted" => \A r \in Reqs : status[r] \in Live => r \in Elements(reqs)

\* The memory of a request in flight stays registered, unless a later post on
\* the same buffer failed.
StaysRegistered ==
    \A r \in Reqs : status[r] = "ACTIVE" /\ reg[r] # None =>
        reg[r] \in mrs \union broken

\* A kernel finds its block as it was when the kernel was launched.
BlockIntact == \A k \in DOMAIN kernels : slots[kernels[k].slot] = kernels[k].block

\* The completions to come are those of requests in flight: no structure goes
\* back to the pool before its completion was polled, also when comm_flush fails.
CompletionsInFlight ==
    \A f \in Flows : \A k \in DOMAIN cq[f] : status[cq[f][k]] \in InFlight

\* The completions of f up to k will be returned without the application's help:
\* their guards are free, or the GPU will free them.
Serviceable(f, k) ==
    \A n \in 1..k : /\ guard[cq[f][n]] \notin {"busy", "stuck"}
                    /\ guard[cq[f][n]] = "desc" => Launched({cq[f][n]})

\* comm_flush returns, unless it waits for a structure that has no completion or no
\* doorbell (a failed post took it over), or a guard nobody frees hides one of its
\* completions: that of a send whose get_descriptors failed, or that an earlier,
\* failed comm_flush has left.
FlushReturns ==
    (/\ pc = "flushing" /\ \A r \in Elements(waited) : status[r] \notin {"LEAKED", "STRAY"}
     /\ \A f \in Flows : \A k \in DOMAIN cq[f] : cq[f][k] \in Elements(waited) => Serviceable(f, k))
    ~> (pc # "flushing")
=============================================================================
