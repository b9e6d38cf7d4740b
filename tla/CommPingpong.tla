---------------------------- MODULE CommPingpong ----------------------------
(***************************************************************************)
(* The exchange of src/comm_library/examples/comm_pingpong.cpp, the        *)
(* pattern the COMM library is made for: every rank posts its receives and *)
(* announces them, then waits for the ready of every peer and sends to it. *)
(* sync_exchange does so from the CPU and flushes in every iteration;      *)
(* async_exchange (comm_use_model_sa) puts everything on the stream and    *)
(* only flushes at the end.  Each step is the program's control and the    *)
(* call of CommReady that it makes: a call whose contract the program did  *)
(* not meet would never be enabled.                                        *)
(***************************************************************************)
EXTENDS CommReady

CONSTANTS Iters,     \* tot_iters
          MaxReqs,   \* MAX_REQS of the library's table
          Modes      \* what comm_use_model_sa may be at the ranks

ASSUME PingpongAssumption ==
    /\ IsFiniteSet(Ranks) /\ Cardinality(Ranks) > 1 /\ Ranks = 0..(Cardinality(Ranks) - 1)
    /\ Iters \in Nat \ {0} /\ MaxReqs \in Nat
    /\ Iters <= MaxMsgs /\ Iters + 1 < Modulus
    /\ Calls = AllCalls /\ Modes \subseteq [Ranks -> BOOLEAN]

VARIABLES
    sa,          \* sa[i]: comm_use_model_sa, from the environment of rank i
    line,        \* line[i]: the next call of rank i
    peer, iter,  \* its loop variables
    n_reqs       \* n_reqs[i]: the length of its table of tracked requests

program == <<sa, line, peer, iter, n_reqs>>
allvars == <<vars, program>>

(***************************************************************************)
(* Control                                                                 *)
(***************************************************************************)
Least(S) == CHOOSE x \in S : \A y \in S : x <= y
First(i) == Least(Ranks \ {i})
Rest(i)  == {q \in Ranks \ {i} : q > peer[i]}

\* The end of a loop body: again for the next peer, otherwise what follows.
Loop(i, again, after) ==
    \/ /\ Rest(i) # {}
       /\ peer' = [peer EXCEPT ![i] = Least(Rest(i))]
       /\ line' = [line EXCEPT ![i] = again]
    \/ /\ Rest(i) = {}
       /\ peer' = [peer EXCEPT ![i] = First(i)]
       /\ line' = [line EXCEPT ![i] = after]

Goto(i, next) == line' = [line EXCEPT ![i] = next] /\ UNCHANGED peer

\* Mutant of EndIteration: one iteration too many.
EndIterationLate(i) ==
    /\ iter' = [iter EXCEPT ![i] = @ + 1]
    /\ Goto(i, IF iter[i] < Iters THEN "irecv" ELSE IF sa[i] THEN "synchronize" ELSE "freed")

\* The loop of main.
EndIteration(i) ==
    /\ iter' = [iter EXCEPT ![i] = @ + 1]
    /\ Goto(i, IF iter[i] + 1 < Iters THEN "irecv" ELSE IF sa[i] THEN "synchronize" ELSE "freed")

comm_track_request(i) == n_reqs' = [n_reqs EXCEPT ![i] = @ + 1]

(***************************************************************************)
(* async_exchange and sync_exchange                                        *)
(***************************************************************************)
Irecv(i) ==
    /\ line[i] = "irecv"
    /\ comm_irecv(<<i, peer[i]>>) /\ comm_track_request(i)
    /\ Goto(i, "send_ready") /\ UNCHANGED <<sa, iter>>

\* Mutant of SendReady: one receive is posted, and every peer gets a ready.
SendReadyAgain(i) ==
    /\ line[i] = "send_ready"
    /\ \/ sa[i] /\ comm_send_ready_on_stream(<<i, peer[i]>>) /\ comm_track_request(i)
       \/ ~sa[i] /\ comm_send_ready(<<i, peer[i]>>) /\ UNCHANGED n_reqs
    /\ Loop(i, "send_ready", "wait_ready") /\ UNCHANGED <<sa, iter>>

\* comm_send_ready does not track its request.
SendReady(i) ==
    /\ line[i] = "send_ready"
    /\ \/ sa[i] /\ comm_send_ready_on_stream(<<i, peer[i]>>) /\ comm_track_request(i)
       \/ ~sa[i] /\ comm_send_ready(<<i, peer[i]>>) /\ UNCHANGED n_reqs
    /\ Loop(i, "irecv", "wait_ready") /\ UNCHANGED <<sa, iter>>

WaitReady(i) ==
    /\ line[i] = "wait_ready"
    /\ \/ sa[i] /\ comm_wait_ready_on_stream(<<i, peer[i]>>) /\ Goto(i, "isend")
       \/ ~sa[i] /\ comm_wait_ready(<<i, peer[i]>>) /\ Goto(i, "spin")
    /\ UNCHANGED <<sa, iter, n_reqs>>

SpinReturn(i) ==
    /\ line[i] = "spin"
    /\ WaitReadyReturn(<<i, peer[i]>>)
    /\ Goto(i, "isend") /\ UNCHANGED <<sa, iter, n_reqs>>

Isend(i) ==
    /\ line[i] = "isend"
    /\ \/ sa[i] /\ comm_isend_on_stream(<<i, peer[i]>>)
       \/ ~sa[i] /\ comm_isend(<<i, peer[i]>>)
    /\ comm_track_request(i)
    /\ Loop(i, "wait_ready", IF sa[i] THEN "wait_all" ELSE "flush") /\ UNCHANGED <<sa, iter>>

\* comm_wait_all_on_stream for the receives and then for the sends; all of
\* them are waited for, in the order of the peers.
Peers(i) == {p \in Pairs : p[1] = i}
Ordered(i) == [k \in 1..Cardinality(Peers(i)) |->
                  CHOOSE p \in Peers(i) : Cardinality({q \in Peers(i) : q[2] <= p[2]}) = k]

WaitAll(i) ==
    LET recv(p) == [op |-> "received", pair |-> p, value |-> recvs[p]]
        sent(p) == [op |-> "sent", pair |-> p, value |-> sends[p]]
        ops == [k \in DOMAIN Ordered(i) |-> recv(Ordered(i)[k])] \o
               [k \in DOMAIN Ordered(i) |-> sent(Ordered(i)[k])]
    IN  /\ line[i] = "wait_all"
        /\ stream' = [stream EXCEPT ![i] = @ \o ops]
        /\ EndIteration(i)
        /\ UNCHANGED <<tables, queue, dreqs, spinning, app, sa, n_reqs>>

(***************************************************************************)
(* Completion                                                              *)
(***************************************************************************)

\* The work requests of a kind that the queue of p has executed.
Executed(p, kind) == Cardinality({k \in 1..done[p] : wqe[p][k].kind = kind})

\* The stream executes an operation that waits for a request.
StreamWait(i) ==
    LET op == Head(stream[i])
    IN  /\ stream[i] # <<>>
        /\ \/ op.op = "received" /\ Executed(Rev(op.pair), "data") >= op.value
           \/ op.op = "sent" /\ Executed(op.pair, "data") >= op.value
        /\ stream' = [stream EXCEPT ![i] = Tail(@)]
        /\ UNCHANGED <<tables, queue, dreqs, spinning, app>>

\* cudaDeviceSynchronize.
Synchronize(i) ==
    /\ line[i] = "synchronize" /\ stream[i] = <<>>
    /\ Goto(i, "flush")
    /\ UNCHANGED <<vars, sa, iter, n_reqs>>

\* Every request of the table is complete.
TableComplete(i) ==
    \A p \in Peers(i) :
        /\ Executed(Rev(p), "data") >= recvs[p]
        /\ Executed(p, "data") >= sends[p]
        /\ sa[i] => Executed(p, "ready") >= readies[p]

\* Mutant of Flush: the receives are not tracked.
FlushSendsOnly(i) ==
    /\ line[i] = "flush" /\ \A p \in Peers(i) : Executed(p, "data") >= sends[p]
    /\ n_reqs' = [n_reqs EXCEPT ![i] = 0]
    /\ \/ sa[i] /\ Goto(i, "freed") /\ UNCHANGED iter
       \/ ~sa[i] /\ EndIteration(i)
    /\ UNCHANGED <<vars, sa>>

\* comm_flush, at the end of sync_exchange or of main.
Flush(i) ==
    /\ line[i] = "flush" /\ TableComplete(i)
    /\ n_reqs' = [n_reqs EXCEPT ![i] = 0]
    /\ \/ sa[i] /\ Goto(i, "freed") /\ UNCHANGED iter
       \/ ~sa[i] /\ EndIteration(i)
    /\ UNCHANGED <<vars, sa>>

(***************************************************************************)
(* Specification                                                           *)
(***************************************************************************)
PingpongInit ==
    /\ Init
    /\ sa \in Modes
    /\ line = [i \in Ranks |-> "irecv"] /\ peer = [i \in Ranks |-> First(i)]
    /\ iter = [i \in Ranks |-> 0] /\ n_reqs = [i \in Ranks |-> 0]

Program(i) ==
    \/ Irecv(i) \/ SendReady(i) \/ WaitReady(i) \/ SpinReturn(i) \/ Isend(i)
    \/ WaitAll(i) \/ Synchronize(i) \/ Flush(i)

Gpu(i) == (StreamStep(i) \/ StreamWait(i)) /\ UNCHANGED program
Hca(p) == HcaExecute(p) /\ UNCHANGED program

PingpongNext ==
    \/ \E i \in Ranks : Program(i) \/ Gpu(i)
    \/ \E p \in Pairs : Hca(p)

\* The system does not stand still while a rank, a GPU or a HCA can take a step.
PingpongFairness == WF_allvars(PingpongNext)

PingpongSpec == PingpongInit /\ [][PingpongNext]_allvars /\ PingpongFairness

(***************************************************************************)
(* Properties                                                              *)
(***************************************************************************)

\* main returns at every rank: the exchange has no cycle of waits, of threads that
\* spin or flush, of streams that wait for a ready, a receive or a send of each
\* other, or of both.
Terminates == <>(\A i \in Ranks : line[i] = "freed")

\* In no mix of the two modes do all wait for each other: as long as a rank has
\* not come to the end, a rank, a GPU or a HCA has a step to take.
NeverStuck == (\A i \in Ranks : line[i] = "freed") \/ ENABLED PingpongNext

\* Every call meets its contract at the moment it is made, so that a rank waits
\* for its peers (in comm_wait_ready, for the GPU, in comm_flush) and for nothing
\* else: a ready is for a receive not yet announced, a message has its own wait, and
\* a call of the CPU never overtakes doorbells that are left to the GPU.
ContractMet ==
    \A i \in Ranks : LET p == <<i, peer[i]>> IN
        /\ line[i] # "spin" => Idle(i)
        /\ line[i] = "irecv" => recvs[p] < MaxMsgs
        /\ line[i] = "send_ready" =>
              readies[p] < recvs[p] /\ (IF sa[i] THEN NonePrepared(p) ELSE NoneHeld(p))
        /\ line[i] = "wait_ready" => waits[p] < MaxMsgs
        /\ line[i] = "isend" =>
              /\ sends[p] < waits[p]
              /\ IF sa[i] THEN NonePrepared(p) /\ ~HeldBySeq(p, (sends[p] + 1) % Modulus, dreqs[i].ready)
                          ELSE NoneHeld(p) /\ ~InWaits(p, (sends[p] + 1) % Modulus)

\* When a rank frees its buffers no work request from it or to it is left,
\* although comm_send_ready's puts are neither tracked nor waited for.
QuietAtEnd ==
    \A p \in Pairs : "freed" \in {line[p[1]], line[p[2]]} => done[p] = Len(wqe[p])

\* The table never fills up, although async_exchange does not flush: comm_flush
\* and comm_progress assert that it is not full.
TableFits == \A i \in Ranks : n_reqs[i] < MaxReqs
=============================================================================
