------------------------------- MODULE MpInit -------------------------------
(***************************************************************************)
(* Connections and windows of libmp (src/src/mp.c): mp_init connects every *)
(* rank with its peers, one queue pair for each, in phases that MPI        *)
(* collectives separate; mp_window_create exchanges the keys of the        *)
(* memory that peers may write; mp_window_destroy and mp_finalize take it  *)
(* all down again.  The library knows a peer by its rank and keeps what it *)
(* knows about it at a client index, the position in the list of peers.    *)
(*                                                                         *)
(* MPI is modelled by the collectives it has been asked for: a rank leaves *)
(* its n-th collective when every rank has entered its n-th.               *)
(***************************************************************************)
EXTENDS Naturals, Sequences

CONSTANTS Ranks,
          Peers,       \* Peers[i]: the peers argument of mp_init at rank i
          None,        \* no queue pair, no key, no index
          MaxWindows,  \* bound: windows created one after the other
          Faults       \* the external calls that may fail

AllFaults == {"early", "gds_create_qp", "init", "rtr", "rts", "register"}

\* Connections are made in pairs: the peer lists are symmetric.
ASSUME PeersAssumption ==
    /\ Peers \in [Ranks -> Seq(Ranks)]
    /\ \A i \in Ranks : \A k, n \in DOMAIN Peers[i] :
          Peers[i][k] # i /\ (Peers[i][k] = Peers[i][n] => k = n)
    /\ \A i \in Ranks : \A k \in DOMAIN Peers[i] :
          \E n \in DOMAIN Peers[Peers[i][k]] : Peers[Peers[i][k]][n] = i
    /\ MaxWindows \in Nat /\ Faults \subseteq AllFaults

\* None is neither an index nor a queue pair or key, nor the keys of a window.
ASSUME NoneAssumption ==
    /\ None \notin Nat /\ None \notin Ranks \X Nat
    /\ \A i \in Ranks : None \notin [1..Len(Peers[i]) -> Ranks \X Nat]

VARIABLES
    mp_enable_ud,   \* datagrams instead of connections
    pc,             \* pc[i]: the call rank i is in, or between calls
    idx,            \* idx[i]: the loop variable of mp_init
    clients,        \* clients[i]: what rank i knows of its peers, by client index
    client_index,   \* client_index[i][j]: the client index of rank j
    qpinfo,         \* qpinfo[i]: qpinfo_all, the numbers to give and then those received
    called, colls,  \* collectives rank i has entered, and the ones called so far
    sent,           \* sent[i]: what rank i gave to its last exchange
    mrs, keys,      \* the registered keys of rank i, and how many it has made
    window,         \* window[i]: the keys of the peers, by client index
    flight          \* messages between the queue pairs

connection == <<idx, clients, client_index, qpinfo>>
mpi        == <<called, colls, sent>>
memory     == <<mrs, keys, window>>
vars == <<mp_enable_ud, pc, connection, mpi, memory, flight>>

(***************************************************************************)
(* Collectives                                                             *)
(***************************************************************************)

\* All ranks call the same collectives in the same order: the first to make
\* its n-th call chooses it.
Enter(i, coll) ==
    /\ called[i] < Len(colls) => colls[called[i] + 1] = coll
    /\ colls' = IF called[i] < Len(colls) THEN colls ELSE Append(colls, coll)
    /\ called' = [called EXCEPT ![i] = @ + 1]

EveryoneIn(i) == \A j \in Ranks : called[j] >= called[i]

Goto(i, label) == pc' = [pc EXCEPT ![i] = label]

(***************************************************************************)
(* mp_init                                                                 *)
(***************************************************************************)
Count(i) == Len(Peers[i])

\* Parameters, the library's version, the device and the memory of the tables.
mp_init(i) ==
    /\ pc[i] = "start"
    /\ \/ Goto(i, "create")
       \/ "early" \in Faults /\ Goto(i, "failed")
    /\ UNCHANGED <<mp_enable_ud, connection, mpi, memory, flight>>

\* A queue pair is known by the rank and the index it was created for.
NewClient(i, k) ==
    [rank |-> Peers[i][k], state |-> "INIT", qpn |-> <<i, k>>, dest |-> None]

\* One turn of the first loop.  A failing gds_create_qp returns, a failing
\* ibv_modify_qp ends the process.
CreateQp(i) ==
    LET k == idx[i]
    IN  /\ pc[i] = "create" /\ k <= Count(i)
        /\ \/ /\ clients' = [clients EXCEPT ![i] = Append(@, NewClient(i, k))]
              /\ client_index' = [client_index EXCEPT ![i][Peers[i][k]] = k]
              /\ qpinfo' = [qpinfo EXCEPT ![i][Peers[i][k]] = <<i, k>>]
              /\ idx' = [idx EXCEPT ![i] = @ + 1]
              /\ UNCHANGED pc
           \/ /\ "gds_create_qp" \in Faults /\ Goto(i, "failed")
              /\ UNCHANGED connection
           \/ /\ "init" \in Faults /\ Goto(i, "exited")
              /\ UNCHANGED connection
        /\ UNCHANGED <<mp_enable_ud, mpi, memory, flight>>

\* Mutant of MPI_Alltoall: a rank with a single peer exchanges with it alone.
MPI_AlltoallIfSeveral(i) ==
    /\ pc[i] = "create" /\ idx[i] > Count(i)
    /\ Enter(i, IF Count(i) > 1 THEN "MPI_Alltoall" ELSE "MPI_Sendrecv")
    /\ sent' = [sent EXCEPT ![i] = qpinfo[i]]
    /\ Goto(i, "alltoall")
    /\ UNCHANGED <<mp_enable_ud, connection, memory, flight>>

MPI_Alltoall(i) ==
    /\ pc[i] = "create" /\ idx[i] > Count(i)
    /\ Enter(i, "MPI_Alltoall") /\ sent' = [sent EXCEPT ![i] = qpinfo[i]]
    /\ Goto(i, "alltoall")
    /\ UNCHANGED <<mp_enable_ud, connection, memory, flight>>

\* The exchange is in place: rank j's entry for i replaces i's entry for j.
AlltoallReturn(i) ==
    /\ pc[i] = "alltoall" /\ EveryoneIn(i)
    /\ qpinfo' = [qpinfo EXCEPT ![i] = [j \in Ranks |-> sent[j][i]]]
    /\ idx' = [idx EXCEPT ![i] = 1]
    /\ Goto(i, "rtr")
    /\ UNCHANGED <<mp_enable_ud, clients, client_index, mpi, memory, flight>>

\* ibv_modify_qp to RTR, where a connected queue pair learns its destination.
ToRTR(i) ==
    LET k == idx[i]
    IN  /\ pc[i] = "rtr" /\ k <= Count(i)
        /\ \/ /\ clients' = [clients EXCEPT
                      ![i][k].state = "RTR",
                      ![i][k].dest = IF mp_enable_ud THEN @ ELSE qpinfo[i][Peers[i][k]]]
              /\ idx' = [idx EXCEPT ![i] = @ + 1] /\ UNCHANGED pc
           \/ "rtr" \in Faults /\ Goto(i, "failed") /\ UNCHANGED <<clients, idx>>
        /\ UNCHANGED <<mp_enable_ud, client_index, qpinfo, mpi, memory, flight>>

RtrBarrier(i) ==
    /\ pc[i] = "rtr" /\ idx[i] > Count(i)
    /\ Enter(i, "MPI_Barrier") /\ Goto(i, "rtr_barrier")
    /\ UNCHANGED <<mp_enable_ud, connection, sent, memory, flight>>

RtrBarrierReturn(i) ==
    /\ pc[i] = "rtr_barrier" /\ EveryoneIn(i)
    /\ idx' = [idx EXCEPT ![i] = 1] /\ Goto(i, "rts")
    /\ UNCHANGED <<mp_enable_ud, clients, client_index, qpinfo, mpi, memory, flight>>

\* ibv_modify_qp to RTS; for datagrams the address handle and the destination.
\* Both may fail.
ToRTS(i) ==
    LET k == idx[i]
    IN  /\ pc[i] = "rts" /\ k <= Count(i)
        /\ \/ /\ clients' = [clients EXCEPT
                      ![i][k].state = "RTS",
                      ![i][k].dest = IF mp_enable_ud THEN qpinfo[i][Peers[i][k]] ELSE @]
              /\ idx' = [idx EXCEPT ![i] = @ + 1] /\ UNCHANGED pc
           \/ "rts" \in Faults /\ Goto(i, "failed") /\ UNCHANGED <<clients, idx>>
        /\ UNCHANGED <<mp_enable_ud, client_index, qpinfo, mpi, memory, flight>>

\* Mutant of RtsBarrier: mp_init returns without the last barrier.
RtsBarrierSkipped(i) ==
    /\ pc[i] = "rts" /\ idx[i] > Count(i)
    /\ Goto(i, "up")
    /\ UNCHANGED <<mp_enable_ud, connection, mpi, memory, flight>>

\* For datagrams the padding is registered first; a failure is an assertion.
RtsBarrier(i) ==
    /\ pc[i] = "rts" /\ idx[i] > Count(i)
    /\ \/ Enter(i, "MPI_Barrier") /\ Goto(i, "rts_barrier")
       \/ mp_enable_ud /\ "register" \in Faults /\ Goto(i, "exited") /\ UNCHANGED <<called, colls>>
    /\ UNCHANGED <<mp_enable_ud, connection, sent, memory, flight>>

mp_init_return(i) ==
    /\ pc[i] = "rts_barrier" /\ EveryoneIn(i)
    /\ Goto(i, "up")
    /\ UNCHANGED <<mp_enable_ud, connection, mpi, memory, flight>>

(***************************************************************************)
(* Messages.  Bound: one in flight from each queue pair.                   *)
(***************************************************************************)
Message(q, key) == [src |-> q.qpn, dst |-> q.dest, key |-> key]

Unsent(q) == \A m \in flight : m.src # q.qpn

\* mp_isend and its relatives to rank j.
mp_isend(i, j) ==
    LET q == clients[i][client_index[i][j]]
    IN  /\ pc[i] = "up" /\ client_index[i][j] # None /\ Unsent(q)
        /\ flight' = flight \union {Message(q, None)}
        /\ UNCHANGED <<mp_enable_ud, pc, connection, mpi, memory>>

\* mp_iput and mp_iget into the window of rank j.
mp_iput(i, j) ==
    LET k == client_index[i][j]
    IN  /\ pc[i] = "up" /\ k # None /\ Unsent(clients[i][k])
        /\ ~mp_enable_ud /\ window[i] # None
        /\ flight' = flight \union {Message(clients[i][k], window[i][k])}
        /\ UNCHANGED <<mp_enable_ud, pc, connection, mpi, memory>>

\* The peer's HCA has executed and acknowledged the message.
Deliver(m) ==
    /\ flight' = flight \ {m}
    /\ UNCHANGED <<mp_enable_ud, pc, connection, mpi, memory>>

\* The contract: the application waits for its own requests before it makes a
\* call that takes down what they use.
Quiet(i) == \A m \in flight : m.src[1] # i

(***************************************************************************)
(* Windows                                                                 *)
(***************************************************************************)

\* Every registration has a key of its own.
Key(i, n) == <<i, n>>

mp_register(i) ==
    /\ mrs' = [mrs EXCEPT ![i] = @ \union {Key(i, keys[i] + 1)}]
    /\ keys' = [keys EXCEPT ![i] = @ + 1]

mp_deregister(i, key) == mrs' = [mrs EXCEPT ![i] = @ \ {key}]

\* mp_register, then the exchange of the keys; a failure is an assertion.
mp_window_create(i) ==
    /\ pc[i] = "up" /\ window[i] = None /\ keys[i] < MaxWindows
    /\ \/ /\ mp_register(i) /\ sent' = [sent EXCEPT ![i] = Key(i, keys[i] + 1)]
          /\ Enter(i, "MPI_Allgather") /\ Goto(i, "allgather")
       \/ /\ "register" \in Faults /\ Goto(i, "exited")
          /\ UNCHANGED <<mrs, keys, mpi>>
    /\ UNCHANGED <<mp_enable_ud, connection, window, flight>>

\* Mutant of AllgatherReturn: the loop runs over the ranks.
AllgatherReturnAllRanks(i) ==
    /\ pc[i] = "allgather" /\ EveryoneIn(i)
    /\ window' = [window EXCEPT ![i] = sent]
    /\ Enter(i, "MPI_Barrier") /\ Goto(i, "window_barrier")
    /\ UNCHANGED <<mp_enable_ud, connection, sent, mrs, keys, flight>>

\* Mutant of AllgatherReturn: the loop reads the rank of the first peer.
AllgatherReturnStalePeer(i) ==
    /\ pc[i] = "allgather" /\ EveryoneIn(i)
    /\ window' = [window EXCEPT ![i] = [k \in DOMAIN clients[i] |-> sent[clients[i][1].rank]]]
    /\ Enter(i, "MPI_Barrier") /\ Goto(i, "window_barrier")
    /\ UNCHANGED <<mp_enable_ud, connection, sent, mrs, keys, flight>>

AllgatherReturn(i) ==
    /\ pc[i] = "allgather" /\ EveryoneIn(i)
    /\ window' = [window EXCEPT ![i] = [k \in DOMAIN clients[i] |-> sent[clients[i][k].rank]]]
    /\ Enter(i, "MPI_Barrier") /\ Goto(i, "window_barrier")
    /\ UNCHANGED <<mp_enable_ud, connection, sent, mrs, keys, flight>>

WindowBarrierReturn(i) ==
    /\ pc[i] = "window_barrier" /\ EveryoneIn(i)
    /\ Goto(i, "up")
    /\ UNCHANGED <<mp_enable_ud, connection, mpi, memory, flight>>

\* mp_window_destroy does not synchronize: the application calls MPI_Barrier
\* before it, as the exchanges of mp_putget.c do.
AppBarrier(i) ==
    /\ pc[i] = "up" /\ window[i] # None /\ Quiet(i)
    /\ Enter(i, "AppBarrier") /\ Goto(i, "app_barrier")
    /\ UNCHANGED <<mp_enable_ud, connection, sent, memory, flight>>

mp_window_destroy(i) ==
    /\ pc[i] = "app_barrier" /\ EveryoneIn(i)
    /\ mp_deregister(i, Key(i, keys[i]))
    /\ window' = [window EXCEPT ![i] = None]
    /\ Goto(i, "up")
    /\ UNCHANGED <<mp_enable_ud, connection, mpi, keys, flight>>

(***************************************************************************)
(* mp_finalize                                                             *)
(***************************************************************************)
mp_finalize(i) ==
    /\ pc[i] = "up" /\ Quiet(i)
    /\ Enter(i, "mp_finalize") /\ Goto(i, "finalize")
    /\ UNCHANGED <<mp_enable_ud, connection, sent, memory, flight>>

\* Mutant of FinalizeReturn: the barrier is missing.
FinalizeReturnEarly(i) ==
    /\ pc[i] = "finalize"
    /\ clients' = [clients EXCEPT ![i] = <<>>]
    /\ client_index' = [client_index EXCEPT ![i] = [j \in Ranks |-> None]]
    /\ Goto(i, "down")
    /\ UNCHANGED <<mp_enable_ud, idx, qpinfo, mpi, memory, flight>>

\* The queue pairs are destroyed and the tables freed; windows are left alone.
FinalizeReturn(i) ==
    /\ pc[i] = "finalize" /\ EveryoneIn(i)
    /\ clients' = [clients EXCEPT ![i] = <<>>]
    /\ client_index' = [client_index EXCEPT ![i] = [j \in Ranks |-> None]]
    /\ Goto(i, "down")
    /\ UNCHANGED <<mp_enable_ud, idx, qpinfo, mpi, memory, flight>>

(***************************************************************************)
(* Specification                                                           *)
(***************************************************************************)
Init ==
    /\ mp_enable_ud \in BOOLEAN
    /\ pc = [i \in Ranks |-> "start"] /\ idx = [i \in Ranks |-> 1]
    /\ clients = [i \in Ranks |-> <<>>]
    /\ client_index = [i \in Ranks |-> [j \in Ranks |-> None]]
    /\ qpinfo = [i \in Ranks |-> [j \in Ranks |-> None]]
    /\ called = [i \in Ranks |-> 0] /\ colls = <<>> /\ sent = [i \in Ranks |-> None]
    /\ mrs = [i \in Ranks |-> {}] /\ keys = [i \in Ranks |-> 0]
    /\ window = [i \in Ranks |-> None]
    /\ flight = {}

InitStep(i) ==
    \/ mp_init(i) \/ CreateQp(i) \/ MPI_Alltoall(i) \/ AlltoallReturn(i)
    \/ ToRTR(i) \/ RtrBarrier(i) \/ RtrBarrierReturn(i)
    \/ ToRTS(i) \/ RtsBarrier(i) \/ mp_init_return(i)

WindowStep(i) ==
    \/ mp_window_create(i) \/ AllgatherReturn(i) \/ WindowBarrierReturn(i)
    \/ AppBarrier(i) \/ mp_window_destroy(i)

Next ==
    \/ \E i \in Ranks : InitStep(i) \/ WindowStep(i) \/ mp_finalize(i) \/ FinalizeReturn(i)
    \/ \E i, j \in Ranks : mp_isend(i, j) \/ mp_iput(i, j)
    \/ \E m \in flight : Deliver(m)

Spec == Init /\ [][Next]_vars

\* A rank inside mp_init goes on, and returns from a collective it may leave.
FairSpec == Spec /\ \A i \in Ranks : WF_vars(InitStep(i))

(***************************************************************************)
(* Properties                                                              *)
(***************************************************************************)
Qpns == Ranks \X Nat
Client == [rank : Ranks, state : {"INIT", "RTR", "RTS"}, qpn : Qpns, dest : Qpns \union {None}]

InInit == {"start", "create", "alltoall", "rtr", "rtr_barrier", "rts", "rts_barrier"}
Returned == {"up", "allgather", "window_barrier", "app_barrier", "finalize", "down"}
Gone == {"failed", "exited"}

\* Every variable has its type.
TypeOK ==
    /\ mp_enable_ud \in BOOLEAN
    /\ pc \in [Ranks -> InInit \union Returned \union Gone]
    /\ idx \in [Ranks -> Nat]
    /\ clients \in [Ranks -> Seq(Client)]
    /\ client_index \in [Ranks -> [Ranks -> Nat \union {None}]]
    /\ qpinfo \in [Ranks -> [Ranks -> Qpns \union {None}]]
    /\ called \in [Ranks -> Nat] /\ DOMAIN sent = Ranks
    /\ mrs \in [Ranks -> SUBSET Qpns] /\ keys \in [Ranks -> Nat]
    /\ DOMAIN window = Ranks
    /\ \A i \in Ranks : window[i] = None \/ window[i] \in [1..Count(i) -> Qpns]
    /\ flight \subseteq [src : Qpns, dst : Qpns \union {None}, key : Qpns \union {None}]

\* A message in flight will be accepted whenever it arrives: the queue pair it
\* is for exists and can receive, is connected to the one it comes from, and the
\* memory it names is registered.
Deliverable ==
    \A m \in flight : m.dst # None /\
        LET j == m.dst[1]
            n == m.dst[2]
        IN  /\ n \in DOMAIN clients[j] /\ clients[j][n].state \in {"RTR", "RTS"}
            /\ ~mp_enable_ud => clients[j][n].dest = m.src
            /\ m.key # None => m.key \in mrs[j]

\* What a rank keeps at the client index of a peer leads to that peer: its queue
\* pair for this rank, and its window.
LeadsToPeer ==
    \A i, j \in Ranks : \A k \in DOMAIN clients[i] : client_index[i][j] = k =>
        /\ clients[i][k].dest # None =>
              clients[i][k].dest[1] = j /\ Peers[j][clients[i][k].dest[2]] = i
        /\ window[i] # None => window[i][k][1] = j

\* mp_init succeeds at no rank before every queue pair of every rank can send:
\* when some rank gives up, no other is told that it is connected.
AllOrNothing ==
    (\E i \in Ranks : pc[i] \in Returned) =>
        \A j \in Ranks : pc[j] # "down" =>
            Len(clients[j]) = Count(j) /\ \A k \in 1..Count(j) : clients[j][k].state = "RTS"

\* mp_init returns everywhere, unless it fails somewhere.
InitReturns ==
    \A i \in Ranks : <>(pc[i] \in Returned \/ \E j \in Ranks : pc[j] \in Gone)
=============================================================================
