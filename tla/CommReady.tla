------------------------------ MODULE CommReady ------------------------------
(***************************************************************************)
(* The ready handshake of the COMM library (src/comm_library/comm.cpp): a  *)
(* rank that has posted a receive puts an increasing value into its cell   *)
(* of the peer's ready_table, and the peer sends only when the cell has    *)
(* reached the value it expects next.  Puts and sends share the queue pair *)
(* of the two ranks.  A call on a stream, and a descriptor prepared for a  *)
(* kernel, leave the work request in the queue; its doorbell, which covers *)
(* all work requests in front of it, is rung by the GPU.                   *)
(*                                                                         *)
(* A function on Pairs holds at <<i, j>> what rank i keeps about rank j.   *)
(***************************************************************************)
EXTENDS Naturals, Sequences, FiniteSets

CONSTANTS Ranks,
          NoRank,     \* the thread of a rank waits for nobody
          Modulus,    \* the tables hold unsigned integers below it (2^32 in the code)
          MaxMsgs,    \* bound: receives posted, and waits called, for one peer
          Calls       \* the library functions the application uses

AllCalls == {"comm_send_ready", "comm_send_ready_on_stream", "comm_wait_ready",
             "comm_test_ready", "comm_wait_ready_on_stream", "comm_isend",
             "comm_isend_on_stream", "comm_prepare_wait_ready", "comm_prepare_isend"}

ASSUME ConstantsAssumption ==
    /\ Modulus \in Nat \ {0} /\ MaxMsgs \in Nat
    /\ Calls \subseteq AllCalls
    /\ NoRank \notin Ranks

\* comm_init: peers are all the other ranks; self reference is forbidden.
Pairs == {p \in Ranks \X Ranks : p[1] # p[2]}
Rev(p) == <<p[2], p[1]>>

VARIABLES
    ready_table,          \* written by the peer
    ready_values,         \* the value expected next
    remote_ready_values,  \* the value to be put next
    wqe,                  \* wqe[p]: the work requests posted to the queue pair
    rung, done,           \* how many the HCA was shown, and has executed
    stream,               \* stream[i]: the operations the GPU of i has still to execute
    dreqs,                \* dreqs[i]: the descriptors collected for the next kernel
    spinning,             \* spinning[i]: the rank comm_wait_ready waits for
    recvs,                \* receives the application has posted
    readies, waits,       \* calls of comm_send_ready, and waits that returned or were queued
    sends                 \* messages the application has sent

tables == <<ready_table, ready_values, remote_ready_values>>
queue  == <<wqe, rung, done>>
gpu    == <<stream, dreqs>>
app    == <<recvs, readies, waits, sends>>
vars   == <<tables, queue, gpu, spinning, app>>

\* inline: the put carries the value of the moment it was posted.
Ready(v, inline) == [kind |-> "ready", value |-> v, inline |-> inline]
Data(n)          == [kind |-> "data", value |-> n, inline |-> FALSE]

RingOp(p, k) == [op |-> "ring", pair |-> p, value |-> k]
WaitOp(p, v) == [op |-> "wait", pair |-> p, value |-> v]

Idle(i) == spinning[i] = NoRank

(***************************************************************************)
(* The application's contract: one ready for each receive, and one send    *)
(* for each wait, after it: the n-th message may be posted when the n-th   *)
(* wait has returned (CPU), or is queued in front of it (GPU).  Doorbells  *)
(* keep the order of the work requests.                                    *)
(***************************************************************************)
HeldBySeq(p, n, seq) ==
    \E x \in DOMAIN seq : seq[x].op = "wait" /\ seq[x].pair = p /\ seq[x].value = n

InWaits(p, n) == HeldBySeq(p, n, stream[p[1]]) \/ HeldBySeq(p, n, dreqs[p[1]].ready)

NoneHeld(p)     == rung[p] = Len(wqe[p])
NonePrepared(p) == \A x \in DOMAIN dreqs[p[1]].tx : dreqs[p[1]].tx[x].pair # p

(***************************************************************************)
(* Work requests                                                           *)
(***************************************************************************)
PostRung(p, w) ==
    /\ wqe' = [wqe EXCEPT ![p] = Append(@, w)]
    /\ rung' = [rung EXCEPT ![p] = Len(wqe[p]) + 1]
    /\ UNCHANGED <<done, stream, dreqs>>

PostOnStream(p, w) ==
    /\ wqe' = [wqe EXCEPT ![p] = Append(@, w)]
    /\ stream' = [stream EXCEPT ![p[1]] = Append(@, RingOp(p, Len(wqe[p]) + 1))]
    /\ UNCHANGED <<rung, done, dreqs>>

(***************************************************************************)
(* Receives and readies                                                    *)
(***************************************************************************)

\* The application posts a receive for the peer (comm_irecv).
comm_irecv(p) ==
    /\ Idle(p[1]) /\ recvs[p] < MaxMsgs
    /\ recvs' = [recvs EXCEPT ![p] = @ + 1]
    /\ UNCHANGED <<tables, queue, gpu, spinning, readies, waits, sends>>

\* Mutant of Announce: the counter is wider than the cells of the table.
AnnounceWide(p) ==
    /\ readies[p] < recvs[p]
    /\ remote_ready_values' = [remote_ready_values EXCEPT ![p] = @ + 1]
    /\ readies' = [readies EXCEPT ![p] = @ + 1]
    /\ UNCHANGED <<ready_table, ready_values, recvs, waits, sends, spinning>>

\* atomic_inc of remote_ready_values.
Announce(p) ==
    /\ readies[p] < recvs[p]
    /\ remote_ready_values' = [remote_ready_values EXCEPT ![p] = (@ + 1) % Modulus]
    /\ readies' = [readies EXCEPT ![p] = @ + 1]
    /\ UNCHANGED <<ready_table, ready_values, recvs, waits, sends, spinning>>

comm_send_ready(p) ==
    /\ Idle(p[1]) /\ "comm_send_ready" \in Calls /\ NoneHeld(p)
    /\ PostRung(p, Ready(remote_ready_values[p], TRUE))
    /\ Announce(p)

\* Mutant of comm_send_ready_on_stream: the put is left to the doorbell of the next
\* message, which stands behind the wait for the peer.
comm_send_ready_on_stream_Unrung(p) ==
    /\ Idle(p[1]) /\ "comm_send_ready_on_stream" \in Calls /\ NonePrepared(p)
    /\ wqe' = [wqe EXCEPT ![p] = Append(@, Ready(remote_ready_values[p], TRUE))]
    /\ UNCHANGED <<rung, done, stream, dreqs>>
    /\ Announce(p)

\* Mutant of comm_send_ready_on_stream: MP_PUT_INLINE is forgotten.
comm_send_ready_on_stream_NotInline(p) ==
    /\ Idle(p[1]) /\ "comm_send_ready_on_stream" \in Calls /\ NonePrepared(p)
    /\ PostOnStream(p, Ready(remote_ready_values[p], FALSE))
    /\ Announce(p)

comm_send_ready_on_stream(p) ==
    /\ Idle(p[1]) /\ "comm_send_ready_on_stream" \in Calls /\ NonePrepared(p)
    /\ PostOnStream(p, Ready(remote_ready_values[p], TRUE))
    /\ Announce(p)

(***************************************************************************)
(* Waits                                                                   *)
(***************************************************************************)
\* Mutant of Expect: the counter is incremented before and after the wait.
ExpectTwice(p) ==
    /\ waits[p] < MaxMsgs
    /\ ready_values' = [ready_values EXCEPT ![p] = (@ + 2) % Modulus]
    /\ waits' = [waits EXCEPT ![p] = @ + 1]
    /\ UNCHANGED <<ready_table, remote_ready_values, queue, recvs, readies, sends>>

Expect(p) ==
    /\ waits[p] < MaxMsgs
    /\ ready_values' = [ready_values EXCEPT ![p] = (@ + 1) % Modulus]
    /\ waits' = [waits EXCEPT ![p] = @ + 1]
    /\ UNCHANGED <<ready_table, remote_ready_values, queue, recvs, readies, sends>>

\* comm_wait_ready spins; comm_progress, which it calls, changes no table.
comm_wait_ready(p) ==
    /\ Idle(p[1]) /\ "comm_wait_ready" \in Calls /\ waits[p] < MaxMsgs
    /\ spinning' = [spinning EXCEPT ![p[1]] = p[2]]
    /\ UNCHANGED <<tables, queue, gpu, app>>

WaitReadyReturn(p) ==
    /\ spinning[p[1]] = p[2] /\ ready_table[p] >= ready_values[p]
    /\ spinning' = [spinning EXCEPT ![p[1]] = NoRank]
    /\ Expect(p) /\ UNCHANGED gpu

\* comm_test_ready when the peer is ready; otherwise it changes nothing.
comm_test_ready(p) ==
    /\ Idle(p[1]) /\ "comm_test_ready" \in Calls
    /\ ready_table[p] >= ready_values[p]
    /\ Expect(p) /\ UNCHANGED <<gpu, spinning>>

\* Mutant of comm_wait_ready_on_stream: the stream waits for the value before.
comm_wait_ready_on_stream_Previous(p) ==
    /\ Idle(p[1]) /\ "comm_wait_ready_on_stream" \in Calls
    /\ stream' = [stream EXCEPT ![p[1]] = Append(@, WaitOp(p, waits[p]))]
    /\ Expect(p) /\ UNCHANGED <<dreqs, spinning>>

comm_wait_ready_on_stream(p) ==
    /\ Idle(p[1]) /\ "comm_wait_ready_on_stream" \in Calls
    /\ stream' = [stream EXCEPT ![p[1]] = Append(@, WaitOp(p, ready_values[p]))]
    /\ Expect(p) /\ UNCHANGED <<dreqs, spinning>>

comm_prepare_wait_ready(p) ==
    /\ Idle(p[1]) /\ "comm_prepare_wait_ready" \in Calls
    /\ dreqs' = [dreqs EXCEPT ![p[1]].ready = Append(@, WaitOp(p, ready_values[p]))]
    /\ Expect(p) /\ UNCHANGED <<stream, spinning>>

(***************************************************************************)
(* Sends                                                                   *)
(***************************************************************************)
MaySend(p) ==
    /\ Idle(p[1]) /\ sends[p] < waits[p]
    /\ sends' = [sends EXCEPT ![p] = @ + 1]
    /\ UNCHANGED <<tables, spinning, recvs, readies, waits>>

comm_isend(p) ==
    /\ "comm_isend" \in Calls /\ NoneHeld(p)
    /\ ~InWaits(p, (sends[p] + 1) % Modulus)
    /\ MaySend(p) /\ PostRung(p, Data(sends[p] + 1))

comm_isend_on_stream(p) ==
    /\ "comm_isend_on_stream" \in Calls /\ NonePrepared(p)
    /\ ~HeldBySeq(p, (sends[p] + 1) % Modulus, dreqs[p[1]].ready)
    /\ MaySend(p) /\ PostOnStream(p, Data(sends[p] + 1))

comm_prepare_isend(p) ==
    /\ "comm_prepare_isend" \in Calls
    /\ MaySend(p)
    /\ wqe' = [wqe EXCEPT ![p] = Append(@, Data(sends[p] + 1))]
    /\ dreqs' = [dreqs EXCEPT ![p[1]].tx = Append(@, RingOp(p, Len(wqe[p]) + 1))]
    /\ UNCHANGED <<rung, done, stream>>

NoDreqs == [ready |-> <<>>, tx |-> <<>>]

\* comm_prepared_requests, and the launch of the kernel that uses the
\* descriptors: it waits for all the readies before it sends.
comm_prepared_requests(i) ==
    /\ Idle(i) /\ dreqs[i] # NoDreqs
    /\ stream' = [stream EXCEPT ![i] = @ \o dreqs[i].ready \o dreqs[i].tx]
    /\ dreqs' = [dreqs EXCEPT ![i] = NoDreqs]
    /\ UNCHANGED <<tables, queue, spinning, app>>

(***************************************************************************)
(* The GPU and the HCA                                                     *)
(***************************************************************************)
StreamStep(i) ==
    LET op == Head(stream[i])
    IN  /\ stream[i] # <<>>
        /\ \/ op.op = "wait" /\ ready_table[op.pair] >= op.value /\ UNCHANGED rung
           \/ /\ op.op = "ring"
              /\ rung' = [rung EXCEPT ![op.pair] = IF @ < op.value THEN op.value ELSE @]
        /\ stream' = [stream EXCEPT ![i] = Tail(@)]
        /\ UNCHANGED <<tables, wqe, done, dreqs, spinning, app>>

\* A message that finds no receive is retried for ever (rnr_retry is 7).
HcaExecute(p) ==
    LET w == wqe[p][done[p] + 1]
    IN  /\ done[p] < rung[p]
        /\ \/ /\ w.kind = "ready"
              /\ ready_table' = [ready_table EXCEPT ![Rev(p)] =
                                    IF w.inline THEN w.value ELSE remote_ready_values[p]]
           \/ /\ w.kind = "data" /\ w.value <= recvs[Rev(p)]
              /\ UNCHANGED ready_table
        /\ done' = [done EXCEPT ![p] = @ + 1]
        /\ UNCHANGED <<ready_values, remote_ready_values, wqe, rung, gpu, spinning, app>>

Init ==
    /\ ready_table = [p \in Pairs |-> 0]
    /\ ready_values = [p \in Pairs |-> 1 % Modulus]
    /\ remote_ready_values = [p \in Pairs |-> 1 % Modulus]
    /\ wqe = [p \in Pairs |-> <<>>]
    /\ rung = [p \in Pairs |-> 0] /\ done = [p \in Pairs |-> 0]
    /\ stream = [i \in Ranks |-> <<>>] /\ dreqs = [i \in Ranks |-> NoDreqs]
    /\ spinning = [i \in Ranks |-> NoRank]
    /\ recvs = [p \in Pairs |-> 0] /\ readies = [p \in Pairs |-> 0]
    /\ waits = [p \in Pairs |-> 0] /\ sends = [p \in Pairs |-> 0]

Next ==
    \/ \E p \in Pairs :
          \/ comm_irecv(p) \/ comm_send_ready(p) \/ comm_send_ready_on_stream(p)
          \/ comm_wait_ready(p) \/ WaitReadyReturn(p) \/ comm_test_ready(p)
          \/ comm_wait_ready_on_stream(p) \/ comm_prepare_wait_ready(p)
          \/ comm_isend(p) \/ comm_isend_on_stream(p) \/ comm_prepare_isend(p)
          \/ HcaExecute(p)
    \/ \E i \in Ranks : comm_prepared_requests(i) \/ StreamStep(i)

Spec == Init /\ [][Next]_vars

(***************************************************************************)
(* Properties                                                              *)
(***************************************************************************)
WorkRequest == [kind : {"ready", "data"}, value : Nat, inline : BOOLEAN]
\* A stream also carries the waits for a receive or a send (CommPingpong).
Op == [op : {"ring", "wait", "received", "sent"}, pair : Pairs, value : Nat]

\* Every variable has its type; the tables hold unsigned integers.
TypeOK ==
    /\ ready_table \in [Pairs -> 0..(Modulus - 1)]
    /\ ready_values \in [Pairs -> 0..(Modulus - 1)]
    /\ remote_ready_values \in [Pairs -> 0..(Modulus - 1)]
    /\ wqe \in [Pairs -> Seq(WorkRequest)]
    /\ rung \in [Pairs -> Nat] /\ done \in [Pairs -> Nat]
    /\ stream \in [Ranks -> Seq(Op)]
    /\ dreqs \in [Ranks -> [ready : Seq(Op), tx : Seq(Op)]]
    /\ spinning \in [Ranks -> Ranks \union {NoRank}]
    /\ recvs \in [Pairs -> Nat] /\ readies \in [Pairs -> Nat]
    /\ waits \in [Pairs -> Nat] /\ sends \in [Pairs -> Nat]

\* No message leaves a rank before its receiver has posted the receive for it:
\* what the HCA was shown of a queue needs no retry.
DataHasReceive ==
    \A p \in Pairs : \A k \in 1..rung[p] :
        k \in DOMAIN wqe[p] /\ wqe[p][k].kind = "data" => wqe[p][k].value <= recvs[Rev(p)]

\* The cell of a rank counts the readies that its peer has executed, although each
\* put overwrites it and the counter the value is taken from goes on while the put
\* waits for its doorbell: no receive is announced early, skipped or taken back.
CellCounts ==
    \A p \in Pairs :
        ready_table[Rev(p)] = Cardinality({k \in 1..done[p] : wqe[p][k].kind = "ready"})
=============================================================================
