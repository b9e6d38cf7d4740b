---------------------------- MODULE MpInitProofs ----------------------------
(***************************************************************************)
(* Proofs about MpInit, for any number of ranks, any symmetric peer lists, *)
(* any number of windows, connected or datagram queue pairs, and whatever  *)
(* calls fail.                                                             *)
(***************************************************************************)
EXTENDS MpInit, SequenceFacts

USE NoneAssumption

HasWindow(i) == window[i] # None

\* q is the queue pair that the k-th peer of rank i keeps for rank i.
Right(i, k, q) ==
    /\ q \in Qpns /\ q[1] = Peers[i][k]
    /\ q[2] \in DOMAIN Peers[q[1]] /\ Peers[q[1]][q[2]] = i

(***************************************************************************)
(* The inductive invariant.  The number of collectives a rank has entered  *)
(* says where it is: three in mp_init, three for every window.             *)
(***************************************************************************)
Phase(i) ==
    /\ pc[i] \in {"start", "create"} => called[i] = 0
    /\ pc[i] \in {"alltoall", "rtr"} => called[i] = 1
    /\ pc[i] \in {"rtr_barrier", "rts"} => called[i] = 2
    /\ pc[i] = "rts_barrier" => called[i] = 3
    /\ pc[i] \in InInit => keys[i] = 0 /\ ~HasWindow(i)
    /\ pc[i] = "failed" => called[i] <= 2 /\ keys[i] = 0 /\ ~HasWindow(i)
    /\ pc[i] = "exited" =>
          ~HasWindow(i) /\ (called[i] = 3 * keys[i] + 3 \/ (keys[i] = 0 /\ called[i] \in {0, 2}))
    /\ pc[i] = "up" => called[i] = IF HasWindow(i) THEN 3 * keys[i] + 2 ELSE 3 * keys[i] + 3
    /\ pc[i] = "allgather" => ~HasWindow(i) /\ keys[i] >= 1 /\ called[i] = 3 * keys[i] + 1
    /\ pc[i] = "window_barrier" => HasWindow(i) /\ called[i] = 3 * keys[i] + 2
    /\ pc[i] = "app_barrier" => HasWindow(i) /\ called[i] = 3 * keys[i] + 3
    /\ pc[i] \in {"finalize", "down"} =>
          called[i] = IF HasWindow(i) THEN 3 * keys[i] + 3 ELSE 3 * keys[i] + 4
    /\ HasWindow(i) => keys[i] >= 1

\* What is at a client index belongs to one peer.
Clients(i) ==
    /\ Len(clients[i]) <= Count(i)
    /\ \A k \in 1..Len(clients[i]) :
          /\ clients[i][k].rank = Peers[i][k] /\ clients[i][k].qpn = <<i, k>>
          /\ client_index[i][Peers[i][k]] = k
          /\ clients[i][k].dest # None => Right(i, k, clients[i][k].dest)
          /\ clients[i][k].state = "RTS" => clients[i][k].dest # None
          /\ clients[i][k].state = "RTR" /\ ~mp_enable_ud => clients[i][k].dest # None
    /\ \A j \in Ranks : client_index[i][j] # None =>
          client_index[i][j] \in 1..Len(clients[i]) /\ Peers[i][client_index[i][j]] = j
    /\ called[i] >= 1 => Len(clients[i]) = Count(i)
    /\ called[i] >= 2 => \A k \in 1..Count(i) : clients[i][k].state \in {"RTR", "RTS"}
    /\ called[i] >= 3 => \A k \in 1..Count(i) : clients[i][k].state = "RTS"

Tables(i) ==
    /\ pc[i] = "down" => clients[i] = <<>>
    /\ pc[i] # "down" => Clients(i)
    /\ pc[i] = "start" => clients[i] = <<>> /\ idx[i] = 1
    /\ pc[i] = "create" => idx[i] = Len(clients[i]) + 1
    /\ pc[i] \in {"start", "create", "alltoall"} =>
          \A k \in 1..Len(clients[i]) : qpinfo[i][Peers[i][k]] = <<i, k>>
    /\ pc[i] \in {"rtr", "rtr_barrier", "rts"} =>
          \A k \in 1..Count(i) : Right(i, k, qpinfo[i][Peers[i][k]])
    /\ pc[i] \in {"rtr", "rts"} => idx[i] >= 1
    /\ pc[i] = "rtr" => \A k \in 1..Count(i) : k < idx[i] => clients[i][k].state = "RTR"
    /\ pc[i] = "rts" => \A k \in 1..Count(i) : k < idx[i] => clients[i][k].state = "RTS"

\* What a rank gave to the exchange that others may still read.
Exchanged(i) ==
    /\ called[i] \in 1..3 => /\ sent[i] \in [Ranks -> Qpns \union {None}]
                             /\ \A k \in 1..Count(i) : sent[i][Peers[i][k]] = <<i, k>>
    /\ keys[i] >= 1 => sent[i] = Key(i, keys[i])

Memory(i) ==
    /\ pc[i] = "allgather" \/ HasWindow(i) => Key(i, keys[i]) \in mrs[i]
    /\ HasWindow(i) => window[i] = [k \in 1..Count(i) |-> Key(Peers[i][k], keys[i])]

\* No rank is two collectives ahead of another, and one that is not inside a
\* collective is not ahead at all.
Waiting == {"alltoall", "rtr_barrier", "rts_barrier", "allgather", "window_barrier",
            "app_barrier", "finalize"}
Sync ==
    \A i, j \in Ranks : /\ called[i] <= called[j] + 1
                        /\ pc[i] \notin Waiting => called[i] <= called[j]

\* The collective of mp_finalize is the last one of every rank that entered it.
Collectives == {"MPI_Alltoall", "MPI_Barrier", "MPI_Allgather", "AppBarrier", "mp_finalize"}
Final ==
    /\ colls \in Seq(Collectives)
    /\ \A i \in Ranks :
          /\ called[i] <= Len(colls)
          /\ pc[i] \in {"finalize", "down"} => called[i] >= 1 /\ colls[called[i]] = "mp_finalize"
          /\ \A n \in 1..called[i] : colls[n] = "mp_finalize" => pc[i] \in {"finalize", "down"}

\* A message belongs to a queue pair that is still there, and one with a key to a
\* window that its rank has not given up.
MessageOK(m) ==
    \E i \in Ranks : \E k \in 1..Count(i) :
        /\ m.src = <<i, k>> /\ Right(i, k, m.dst)
        /\ pc[i] \in {"up", "allgather", "window_barrier", "exited"} /\ called[i] >= 3
        /\ m.key # None => /\ pc[i] = "up" /\ HasWindow(i)
                           /\ m.key = Key(Peers[i][k], keys[i])
Messages == \A m \in flight : MessageOK(m)

Inv == /\ \A i \in Ranks : Phase(i) /\ Tables(i) /\ Exchanged(i) /\ Memory(i)
       /\ Sync /\ Final /\ Messages
Base == TypeOK /\ Inv

-----------------------------------------------------------------------------
(* Facts about the peer lists *)

LEMMA PeerFacts ==
    ASSUME NEW i \in Ranks
    PROVE  /\ Peers[i] \in Seq(Ranks) /\ Count(i) \in Nat /\ DOMAIN Peers[i] = 1..Count(i)
           /\ \A k \in 1..Count(i) : Peers[i][k] \in Ranks /\ k \in Nat
           /\ \A k, n \in 1..Count(i) : Peers[i][k] = Peers[i][n] => k = n
           /\ \A k \in 1..Count(i) :
                 \E n \in 1..Count(Peers[i][k]) : Peers[Peers[i][k]][n] = i
  <1>1. /\ Peers[i] \in Seq(Ranks) /\ Count(i) \in Nat /\ DOMAIN Peers[i] = 1..Count(i)
        /\ \A k \in 1..Count(i) : Peers[i][k] \in Ranks /\ k \in Nat
    BY PeersAssumption DEF Count
  <1>2. ASSUME NEW j \in Ranks PROVE DOMAIN Peers[j] = 1..Count(j)
    BY PeersAssumption DEF Count
  <1>3. \A k \in 1..Count(i) : \E n \in DOMAIN Peers[Peers[i][k]] : Peers[Peers[i][k]][n] = i
    BY <1>1, PeersAssumption
  <1>4. \A k, n \in 1..Count(i) : Peers[i][k] = Peers[i][n] => k = n
    BY <1>1, PeersAssumption
  <1>5. ASSUME NEW k \in 1..Count(i)
        PROVE  \E n \in 1..Count(Peers[i][k]) : Peers[Peers[i][k]][n] = i
    <2>1. PICK j \in Ranks : j = Peers[i][k]
      BY <1>1
    <2>2. DOMAIN Peers[j] = 1..Count(j)
      BY <1>2
    <2> QED
      BY <1>3, <2>1, <2>2
  <1> QED
    BY <1>1, <1>4, <1>5

\* The queue pair of a peer for rank i and the one of rank i for the peer name
\* each other.
LEMMA RightBack ==
    ASSUME NEW i \in Ranks, NEW k \in 1..Count(i), NEW q, Right(i, k, q), NEW back, Right(q[1], q[2], back)
    PROVE  /\ q[1] \in Ranks /\ q[2] \in 1..Count(q[1]) /\ q = <<q[1], q[2]>>
           /\ back = <<i, k>>
  <1>1. PICK j \in Ranks : j = q[1] /\ j = Peers[i][k]
    BY PeerFacts DEF Right
  <1>2. PICK n \in 1..Count(j) : n = q[2] /\ Peers[j][n] = i
    <2>1. DOMAIN Peers[j] = 1..Count(j)
      BY PeerFacts
    <2> QED
      BY <1>1, <2>1 DEF Right
  <1>3. q = <<q[1], q[2]>>
    BY DEF Right, Qpns
  <1>4. back \in Qpns /\ back[1] = i /\ back[2] \in DOMAIN Peers[i] /\ Peers[i][back[2]] = j
    BY <1>1, <1>2 DEF Right
  <1>5. back[2] = k
    <2>1. PICK h \in 1..Count(i) : h = back[2]
      BY <1>4, PeerFacts
    <2>2. Peers[i][h] = Peers[i][k]
      BY <1>1, <1>4, <2>1
    <2>3. h = k
      BY <2>2, PeerFacts
    <2> QED
      BY <2>1, <2>3
  <1> QED
    BY <1>1, <1>2, <1>3, <1>4, <1>5 DEF Qpns

-----------------------------------------------------------------------------
(* What the invariant says of the properties *)

LEMMA Connected ==
    ASSUME Base, NEW j \in Ranks, pc[j] # "down", called[j] >= 3
    PROVE  /\ Len(clients[j]) = Count(j) /\ DOMAIN clients[j] = 1..Count(j)
           /\ \A k \in 1..Count(j) : clients[j][k].state = "RTS" /\ Right(j, k, clients[j][k].dest)
  <1>1. called[j] \in Nat /\ called[j] >= 1 /\ clients[j] \in Seq(Client)
    BY DEF Base, TypeOK
  <1>2. Clients(j)
    BY DEF Base, Inv, Tables
  <1>3. Len(clients[j]) = Count(j) /\ DOMAIN clients[j] = 1..Count(j)
    BY <1>1, <1>2 DEF Clients
  <1> QED
    BY <1>2, <1>3 DEF Clients

LEMMA InvAllOrNothing == ASSUME Base PROVE AllOrNothing
  <1> SUFFICES ASSUME NEW i \in Ranks, pc[i] \in Returned, NEW j \in Ranks, pc[j] # "down"
               PROVE  Len(clients[j]) = Count(j) /\ \A k \in 1..Count(j) : clients[j][k].state = "RTS"
    BY DEF AllOrNothing
  <1>1. called[i] \in Nat /\ called[j] \in Nat /\ keys[i] \in Nat
    BY DEF Base, TypeOK
  <1>2. Phase(i) /\ called[i] <= called[j] + 1 /\ (pc[i] \notin Waiting => called[i] <= called[j])
    BY DEF Base, Inv, Sync
  <1>3. called[j] >= 3
    <2>1. CASE pc[i] \in {"up", "down"}
      BY <1>1, <1>2, <2>1 DEF Phase, Waiting
    <2>2. CASE pc[i] \notin {"up", "down"}
      BY <1>1, <1>2, <2>2 DEF Phase, Returned
    <2> QED
      BY <2>1, <2>2
  <1> QED
    BY <1>3, Connected

LEMMA InvLeadsToPeer == ASSUME Base PROVE LeadsToPeer
  <1> SUFFICES ASSUME NEW i \in Ranks, NEW j \in Ranks, NEW k \in DOMAIN clients[i], client_index[i][j] = k
               PROVE  /\ clients[i][k].dest # None =>
                            clients[i][k].dest[1] = j /\ Peers[j][clients[i][k].dest[2]] = i
                      /\ window[i] # None => window[i][k][1] = j
    BY DEF LeadsToPeer
  <1>1. /\ clients[i] \in Seq(Client) /\ DOMAIN clients[i] = 1..Len(clients[i])
        /\ Len(clients[i]) \in Nat /\ Count(i) \in Nat /\ k \in 1..Len(clients[i])
    BY PeerFacts, SeqElem DEF Base, TypeOK
  <1>2. pc[i] # "down"
    BY <1>1 DEF Base, Inv, Tables
  <1>3. Clients(i)
    BY <1>2 DEF Base, Inv, Tables
  <1>4. k \in 1..Count(i) /\ Peers[i][k] = j
    <2>1. k \in Nat /\ k # None
      BY <1>1
    <2>2. Len(clients[i]) <= Count(i)
      BY <1>3 DEF Clients
    <2>3. Peers[i][k] = j
      BY <1>3, <2>1 DEF Clients
    <2> QED
      BY <1>1, <2>2, <2>3
  <1>5. clients[i][k].dest # None => clients[i][k].dest[1] = j /\ Peers[j][clients[i][k].dest[2]] = i
    <2>1. clients[i][k].dest # None => Right(i, k, clients[i][k].dest)
      BY <1>1, <1>3 DEF Clients
    <2> QED
      BY <1>4, <2>1 DEF Right
  <1>6. ASSUME window[i] # None PROVE window[i][k][1] = j
    <2>1. window[i] = [n \in 1..Count(i) |-> Key(Peers[i][n], keys[i])]
      BY <1>6 DEF Base, Inv, Memory, HasWindow
    <2> QED
      BY <1>4, <2>1 DEF Key
  <1> QED
    BY <1>5, <1>6

\* How many collectives a rank has entered says which window it is at.
LEMMA ThreeApart ==
    ASSUME NEW a \in Nat, NEW b \in Nat, NEW n \in Nat, 3 * a + 2 <= n, n <= 3 * a + 3
    PROVE  n # 3 * b + 1 /\ n # 3 * b + 4 /\ (n = 3 * b + 2 \/ n = 3 * b + 3 => a = b)
  <1>1. n # 3 * b + 1
    OBVIOUS
  <1>2. n # 3 * b + 4
    OBVIOUS
  <1>3. n = 3 * b + 2 => a = b
    OBVIOUS
  <1>4. n = 3 * b + 3 => a = b
    OBVIOUS
  <1> QED
    BY <1>1, <1>2, <1>3, <1>4

\* When a rank may put into its window, every rank keeps the memory it registered
\* for this window.
LEMMA WindowKept ==
    ASSUME Base, NEW i \in Ranks, pc[i] = "up", HasWindow(i), NEW j \in Ranks
    PROVE  Key(j, keys[i]) \in mrs[j]
  <1>1. called[i] \in Nat /\ called[j] \in Nat /\ keys[i] \in Nat /\ keys[j] \in Nat
    BY DEF Base, TypeOK
  <1>2. called[i] = 3 * keys[i] + 2 /\ keys[i] >= 1
    BY DEF Base, Inv, Phase
  <1>3. /\ called[i] <= called[j] /\ called[j] <= called[i] + 1
        /\ pc[j] \notin Waiting => called[j] <= called[i]
    BY DEF Base, Inv, Sync, Waiting
  <1>4. Phase(j) /\ Memory(j) /\ pc[j] \in InInit \union Returned \union Gone
    BY DEF Base, Inv, TypeOK
  <1>5. keys[j] = keys[i] /\ HasWindow(j)
    <2>1. CASE pc[j] \in InInit \union Gone
      BY SMTT(30), <1>1, <1>2, <1>3, <1>4, <2>1 DEF Phase, InInit, Gone, Waiting
    <2>2. /\ 3 * keys[i] + 2 <= called[j] /\ called[j] <= 3 * keys[i] + 3
          /\ pc[j] \notin Waiting => called[j] = 3 * keys[i] + 2
      BY <1>1, <1>2, <1>3
    <2>3. /\ called[j] # 3 * keys[j] + 1 /\ called[j] # 3 * keys[j] + 4
          /\ called[j] = 3 * keys[j] + 2 \/ called[j] = 3 * keys[j] + 3 => keys[i] = keys[j]
      BY <1>1, <2>2, ThreeApart
    <2>4. CASE pc[j] = "up"
      <3>1. called[j] = 3 * keys[i] + 2
        BY <2>2, <2>4 DEF Waiting
      <3>2. IF HasWindow(j) THEN called[j] = 3 * keys[j] + 2 ELSE called[j] = 3 * keys[j] + 3
        BY <1>4, <2>4 DEF Phase
      <3> QED
        BY <1>1, <2>3, <3>1, <3>2
    <2>5. CASE pc[j] \in {"allgather", "window_barrier", "app_barrier", "finalize", "down"}
      BY <1>4, <2>3, <2>5 DEF Phase
    <2> QED
      BY <1>4, <2>1, <2>4, <2>5 DEF Returned
  <1> QED
    BY <1>4, <1>5 DEF Memory

\* A rank whose messages are in flight keeps the others from finalizing.
LEMMA NotDown ==
    ASSUME Base, NEW i \in Ranks, NEW j \in Ranks, pc[i] \notin {"finalize", "down"}
    PROVE  pc[j] # "down"
  <1> SUFFICES ASSUME pc[j] = "down" PROVE FALSE
    OBVIOUS
  <1>1. called[i] \in Nat /\ called[j] \in Nat
    BY DEF Base, TypeOK
  <1>2. called[j] <= called[i]
    BY DEF Base, Inv, Sync, Waiting
  <1>3. called[j] >= 1 /\ colls[called[j]] = "mp_finalize"
    BY DEF Base, Inv, Final
  <1>4. called[j] \in 1..called[i]
    BY <1>1, <1>2, <1>3
  <1> QED
    BY <1>3, <1>4 DEF Base, Inv, Final

LEMMA InvDeliverable == ASSUME Base PROVE Deliverable
  <1> SUFFICES ASSUME NEW m \in flight
               PROVE  m.dst # None /\
                      LET j == m.dst[1]
                          n == m.dst[2]
                      IN  /\ n \in DOMAIN clients[j] /\ clients[j][n].state \in {"RTR", "RTS"}
                          /\ ~mp_enable_ud => clients[j][n].dest = m.src
                          /\ m.key # None => m.key \in mrs[j]
    BY DEF Deliverable
  <1>1. PICK i \in Ranks, k \in Nat :
           /\ k \in 1..Count(i) /\ m.src = <<i, k>> /\ Right(i, k, m.dst)
           /\ pc[i] \in {"up", "allgather", "window_barrier", "exited"} /\ called[i] >= 3
           /\ m.key # None => /\ pc[i] = "up" /\ HasWindow(i)
                              /\ m.key = Key(Peers[i][k], keys[i])
    BY DEF Base, Inv, Messages, MessageOK
  <1>2. PICK j \in Ranks : j = m.dst[1] /\ j = Peers[i][k]
    BY <1>1, PeerFacts DEF Right
  <1>3. PICK n \in 1..Count(j) : n = m.dst[2]
    <2>1. DOMAIN Peers[j] = 1..Count(j)
      BY PeerFacts
    <2> QED
      BY <1>1, <1>2, <2>1 DEF Right
  <1>4. pc[j] # "down"
    BY <1>1, NotDown
  <1>5. called[j] >= 3
    <2>1. called[i] \in Nat /\ called[j] \in Nat /\ keys[i] \in Nat
      BY DEF Base, TypeOK
    <2>2. /\ Phase(i) /\ called[i] <= called[j] + 1
          /\ pc[i] \notin Waiting => called[i] <= called[j]
      BY DEF Base, Inv, Sync
    <2>3. CASE pc[i] \in {"up", "exited"}
      BY <1>1, <2>1, <2>2, <2>3 DEF Waiting
    <2>4. CASE pc[i] \in {"allgather", "window_barrier"}
      BY <2>1, <2>2, <2>4 DEF Phase
    <2> QED
      BY <1>1, <2>3, <2>4
  <1>6. /\ n \in DOMAIN clients[j] /\ clients[j][n].state = "RTS"
        /\ Right(j, n, clients[j][n].dest)
    BY <1>3, <1>4, <1>5, Connected
  <1>7. clients[j][n].dest = <<i, k>>
    <2>1. PICK q, back : q = m.dst /\ back = clients[j][n].dest
      OBVIOUS
    <2>2. Right(i, k, q) /\ Right(q[1], q[2], back)
      BY <1>1, <1>2, <1>3, <1>6, <2>1
    <2>3. k \in 1..Count(i)
      BY <1>1
    <2> QED
      BY <2>1, <2>2, <2>3, RightBack
  <1>8. m.key # None => m.key \in mrs[j]
    BY <1>1, <1>2, WindowKept
  <1>9. m.dst # None
    BY <1>1 DEF Right, Qpns
  <1> QED
    BY <1>1, <1>2, <1>3, <1>6, <1>7, <1>8, <1>9

-----------------------------------------------------------------------------
(* Steps of one rank *)

\* The ranks other than i stay as they are.
OthersSame(i) ==
    /\ UNCHANGED mp_enable_ud
    /\ \A j \in Ranks : j # i =>
          /\ pc'[j] = pc[j] /\ idx'[j] = idx[j] /\ clients'[j] = clients[j]
          /\ client_index'[j] = client_index[j] /\ qpinfo'[j] = qpinfo[j]
          /\ called'[j] = called[j] /\ sent'[j] = sent[j] /\ mrs'[j] = mrs[j]
          /\ keys'[j] = keys[j] /\ window'[j] = window[j]

LEMMA RankStep ==
    ASSUME Base, NEW i \in Ranks, OthersSame(i), TypeOK',
           Phase(i)', Tables(i)', Exchanged(i)', Memory(i)', Sync', Final', Messages'
    PROVE  Base'
  <1>1. ASSUME NEW j \in Ranks, j # i PROVE (Phase(j) /\ Tables(j) /\ Exchanged(j) /\ Memory(j))'
    <2>1. /\ UNCHANGED mp_enable_ud
          /\ pc'[j] = pc[j] /\ idx'[j] = idx[j] /\ clients'[j] = clients[j]
          /\ client_index'[j] = client_index[j] /\ qpinfo'[j] = qpinfo[j]
          /\ called'[j] = called[j] /\ sent'[j] = sent[j] /\ mrs'[j] = mrs[j]
          /\ keys'[j] = keys[j] /\ window'[j] = window[j]
      BY <1>1 DEF OthersSame
    <2>2. Phase(j) /\ Tables(j) /\ Exchanged(j) /\ Memory(j)
      BY DEF Base, Inv
    <2>3. Phase(j)' /\ Exchanged(j)' /\ Memory(j)'
      BY <2>1, <2>2 DEF Phase, Exchanged, Memory, HasWindow
    <2>4. Clients(j) => Clients(j)'
      BY <2>1 DEF Clients
    <2>5. Tables(j)'
      BY <2>1, <2>2, <2>4 DEF Tables
    <2> QED
      BY <2>3, <2>5
  <1> QED
    BY <1>1 DEF Base, Inv

\* Rank i enters its next collective.
LEMMA SyncEnter ==
    ASSUME Base, NEW i \in Ranks, NEW coll \in Collectives, Enter(i, coll),
           NEW label \in Waiting, Goto(i, label), label = "finalize" <=> coll = "mp_finalize",
           pc[i] \notin Waiting \/ EveryoneIn(i), pc[i] \notin {"finalize", "down"}
    PROVE  /\ Sync' /\ Final' /\ called'[i] = called[i] + 1 /\ pc'[i] = label
           /\ called' \in [Ranks -> Nat] /\ pc' \in [Ranks -> InInit \union Returned \union Gone]
           /\ \A j \in Ranks : j # i => called'[j] = called[j] /\ pc'[j] = pc[j]
  <1>1. /\ called \in [Ranks -> Nat] /\ pc \in [Ranks -> InInit \union Returned \union Gone]
        /\ colls \in Seq(Collectives)
    BY DEF Base, TypeOK, Inv, Final
  <1>2. /\ called'[i] = called[i] + 1 /\ pc'[i] = label /\ called' \in [Ranks -> Nat]
        /\ \A j \in Ranks : j # i => called'[j] = called[j] /\ pc'[j] = pc[j]
    BY <1>1 DEF Enter, Goto
  <1>3. pc' \in [Ranks -> InInit \union Returned \union Gone]
    BY <1>1 DEF Goto, Waiting, InInit, Returned
  <1>4. ASSUME NEW j \in Ranks PROVE called[i] <= called[j]
    <2>1. called[i] \in Nat /\ called[j] \in Nat
      BY <1>1
    <2>2. CASE EveryoneIn(i)
      BY <2>1, <2>2 DEF EveryoneIn
    <2>3. CASE pc[i] \notin Waiting
      BY <2>3 DEF Base, Inv, Sync
    <2> QED
      BY <2>2, <2>3
  <1>5. Sync'
    <2> SUFFICES ASSUME NEW a \in Ranks, NEW b \in Ranks
                 PROVE  /\ called'[a] <= called'[b] + 1
                        /\ pc'[a] \notin Waiting => called'[a] <= called'[b]
      BY DEF Sync
    <2>1. called[a] <= called[b] + 1 /\ (pc[a] \notin Waiting => called[a] <= called[b])
      BY DEF Base, Inv, Sync
    <2> QED
      BY <1>1, <1>2, <1>4, <2>1
  <1>6. /\ colls' \in Seq(Collectives) /\ Len(colls) <= Len(colls')
        /\ \A n \in 1..Len(colls) : colls'[n] = colls[n]
        /\ called[i] + 1 <= Len(colls') /\ colls'[called[i] + 1] = coll
    <2>1. called[i] <= Len(colls) /\ Len(colls) \in Nat
      BY <1>1 DEF Base, Inv, Final
    <2>2. CASE called[i] < Len(colls)
      BY <1>1, <2>1, <2>2 DEF Enter
    <2>3. CASE ~(called[i] < Len(colls))
      <3>1. colls' = Append(colls, coll) /\ Len(colls) = called[i]
        BY <1>1, <2>1, <2>3 DEF Enter
      <3> QED
        BY <1>1, <2>1, <3>1, SeqAppend
    <2> QED
      BY <2>2, <2>3
  <1>7. Final'
    <2> SUFFICES ASSUME NEW j \in Ranks
                 PROVE  /\ called'[j] <= Len(colls')
                        /\ pc'[j] \in {"finalize", "down"} =>
                              called'[j] >= 1 /\ colls'[called'[j]] = "mp_finalize"
                        /\ \A n \in 1..called'[j] : colls'[n] = "mp_finalize" =>
                              pc'[j] \in {"finalize", "down"}
      BY <1>6 DEF Final
    <2>1. /\ called[j] <= Len(colls) /\ called[j] \in Nat /\ Len(colls) \in Nat
          /\ Len(colls') \in Nat
          /\ pc[j] \in {"finalize", "down"} => called[j] >= 1 /\ colls[called[j]] = "mp_finalize"
          /\ \A n \in 1..called[j] : colls[n] = "mp_finalize" => pc[j] \in {"finalize", "down"}
      BY <1>1, <1>6 DEF Base, Inv, Final
    <2>2. CASE j = i
      <3>1. called[i] + 1 >= 1
        BY <2>1, <2>2
      <3>2. \A n \in 1..called'[i] : n \in 1..called[i] \/ n = called[i] + 1
        BY <1>2, <2>1, <2>2
      <3>3. \A n \in 1..called[i] : colls'[n] # "mp_finalize"
        BY <1>6, <2>1, <2>2
      <3>4. pc'[i] # "down"
        BY <1>2 DEF Waiting
      <3> QED
        BY <1>2, <1>6, <2>2, <3>1, <3>2, <3>3, <3>4
    <2>3. CASE j # i
      BY <1>2, <1>6, <2>1, <2>3
    <2> QED
      BY <2>2, <2>3
  <1> QED
    BY <1>2, <1>3, <1>5, <1>7

\* Rank i goes on without entering a collective.
LEMMA SyncStay ==
    ASSUME Base, NEW i \in Ranks, UNCHANGED <<called, colls>>,
           NEW label \in InInit \union Returned \union Gone, Goto(i, label),
           pc[i] \notin Waiting \/ EveryoneIn(i) \/ label \in Waiting,
           label \in {"finalize", "down"} <=> pc[i] \in {"finalize", "down"}
    PROVE  /\ Sync' /\ Final' /\ pc'[i] = label
           /\ pc' \in [Ranks -> InInit \union Returned \union Gone]
           /\ \A j \in Ranks : j # i => pc'[j] = pc[j]
  <1>1. called \in [Ranks -> Nat] /\ pc \in [Ranks -> InInit \union Returned \union Gone]
    BY DEF Base, TypeOK
  <1>2. /\ pc'[i] = label /\ \A j \in Ranks : j # i => pc'[j] = pc[j]
        /\ pc' \in [Ranks -> InInit \union Returned \union Gone]
    BY <1>1 DEF Goto
  <1>3. Sync'
    BY <1>1, <1>2 DEF Base, Inv, Sync, EveryoneIn
  <1>4. Final'
    BY <1>1, <1>2 DEF Base, Inv, Final
  <1> QED
    BY <1>2, <1>3, <1>4

\* The messages of rank i allow the step.
LEMMA MessagesKeep ==
    ASSUME Base, NEW i \in Ranks, OthersSame(i), flight' = flight,
           \/ Quiet(i)
           \/ pc[i] \notin {"up", "allgather", "window_barrier", "exited"}
           \/ /\ pc'[i] \in {"up", "allgather", "window_barrier", "exited"}
              /\ called'[i] \in Nat /\ called'[i] >= called[i] /\ called[i] \in Nat
              /\ pc[i] = "up" /\ HasWindow(i) =>
                    pc'[i] = "up" /\ window'[i] = window[i] /\ keys'[i] = keys[i]
    PROVE  Messages'
  <1> SUFFICES ASSUME NEW m \in flight PROVE MessageOK(m)'
    BY DEF Messages
  <1>1. PICK a \in Ranks, k \in Nat :
           /\ k \in 1..Count(a) /\ m.src = <<a, k>> /\ Right(a, k, m.dst)
           /\ pc[a] \in {"up", "allgather", "window_barrier", "exited"} /\ called[a] >= 3
           /\ m.key # None => /\ pc[a] = "up" /\ HasWindow(a)
                              /\ m.key = Key(Peers[a][k], keys[a])
    BY DEF Base, Inv, Messages, MessageOK
  <1>2. m.src[1] = a
    BY <1>1
  <1>3. CASE a # i
    BY <1>1, <1>3 DEF OthersSame, MessageOK, HasWindow
  <1>4. CASE a = i
    <2>1. /\ pc'[i] \in {"up", "allgather", "window_barrier", "exited"}
          /\ called'[i] \in Nat /\ called'[i] >= called[i] /\ called[i] \in Nat
          /\ pc[i] = "up" /\ HasWindow(i) =>
                pc'[i] = "up" /\ window'[i] = window[i] /\ keys'[i] = keys[i]
      BY <1>1, <1>2, <1>4 DEF Quiet
    <2>2. called'[i] >= 3
      BY <1>1, <1>4, <2>1
    <2>3. m.key # None => pc'[i] = "up" /\ (HasWindow(i))' /\ m.key = Key(Peers[i][k], keys'[i])
      BY <1>1, <1>4, <2>1 DEF HasWindow
    <2> QED
      BY <1>1, <1>4, <2>1, <2>2, <2>3 DEF MessageOK
  <1> QED
    BY <1>3, <1>4

-----------------------------------------------------------------------------
(* The steps that only move rank i on *)

Labels == InInit \union Returned \union Gone
Sending == {"up", "allgather", "window_barrier", "exited"}

LEMMA PcStep ==
    ASSUME Base, NEW i \in Ranks, NEW label \in Labels, Goto(i, label),
           UNCHANGED <<mp_enable_ud, connection, mpi, memory, flight>>,
           pc[i] \notin Waiting \/ EveryoneIn(i), pc[i] \notin {"finalize", "down"},
           label \notin {"finalize", "down"},
           pc[i] \in Sending => label \in Sending /\ (label = "up" \/ ~HasWindow(i) \/ pc[i] # "up"),
           Phase(i)', Tables(i)', Memory(i)'
    PROVE  Base'
  <1>1. TypeOK
    BY DEF Base
  <1>2. /\ UNCHANGED <<idx, clients, client_index, qpinfo, called, colls, sent, mrs, keys, window>>
        /\ UNCHANGED <<mp_enable_ud, flight>>
    BY DEF connection, mpi, memory
  <1>3. Sync' /\ Final' /\ pc'[i] = label /\ pc' \in [Ranks -> Labels]
    BY <1>2, SyncStay DEF Labels
  <1>4. \A j \in Ranks : j # i => pc'[j] = pc[j]
    BY <1>1 DEF Goto, TypeOK
  <1>5. TypeOK'
    BY <1>1, <1>2, <1>3 DEF TypeOK, Labels
  <1>6. OthersSame(i)
    BY <1>2, <1>4 DEF OthersSame
  <1>7. Exchanged(i)'
    <2>1. Exchanged(i)
      BY DEF Base, Inv
    <2> QED
      BY <1>2, <2>1 DEF Exchanged
  <1>8. Messages'
    <2>1. called'[i] \in Nat /\ called'[i] >= called[i] /\ called[i] \in Nat
      BY <1>1, <1>2 DEF TypeOK
    <2>2. CASE pc[i] \notin Sending
      BY <1>2, <1>6, <2>2, MessagesKeep DEF Sending
    <2>3. CASE pc[i] \in Sending
      <3>1. pc'[i] \in Sending
        BY <1>3, <2>3
      <3>2. pc[i] = "up" /\ HasWindow(i) =>
               pc'[i] = "up" /\ window'[i] = window[i] /\ keys'[i] = keys[i]
        BY <1>2, <1>3, <2>3
      <3> QED
        BY <1>2, <1>6, <2>1, <3>1, <3>2, MessagesKeep DEF Sending
    <2> QED
      BY <2>2, <2>3
  <1> QED
    BY <1>3, <1>5, <1>6, <1>7, <1>8, RankStep

\* What the invariant says of a rank, and what carries over when only pc changes.
LEMMA PcKeeps ==
    ASSUME Base, NEW i \in Ranks, UNCHANGED <<mp_enable_ud, connection, mpi, memory>>
    PROVE  /\ Phase(i) /\ Tables(i) /\ Memory(i) /\ Exchanged(i)
           /\ Clients(i) => Clients(i)'
           /\ called'[i] = called[i] /\ keys'[i] = keys[i] /\ HasWindow(i)' = HasWindow(i)
           /\ idx'[i] = idx[i] /\ clients'[i] = clients[i] /\ qpinfo'[i] = qpinfo[i]
           /\ mrs'[i] = mrs[i] /\ window'[i] = window[i]
  <1>1. UNCHANGED <<idx, clients, client_index, qpinfo, called, colls, sent, mrs, keys, window, mp_enable_ud>>
    BY DEF connection, mpi, memory
  <1>2. Phase(i) /\ Tables(i) /\ Memory(i) /\ Exchanged(i)
    BY DEF Base, Inv
  <1>3. Clients(i) => Clients(i)'
    BY <1>1 DEF Clients
  <1> QED
    BY <1>1, <1>2, <1>3 DEF HasWindow

LEMMA BaseInitCall == ASSUME Base, NEW i \in Ranks, mp_init(i) PROVE Base'
  <1>1. PICK label \in {"create", "failed"} : Goto(i, label)
    BY DEF mp_init
  <1>2. /\ UNCHANGED <<mp_enable_ud, connection, mpi, memory, flight>> /\ pc[i] = "start"
        /\ pc'[i] = label
    BY <1>1 DEF mp_init, Goto, Base, TypeOK
  <1>3. /\ Phase(i) /\ Tables(i) /\ Memory(i)
        /\ Clients(i) => Clients(i)'
        /\ called'[i] = called[i] /\ keys'[i] = keys[i] /\ HasWindow(i)' = HasWindow(i)
        /\ idx'[i] = idx[i] /\ clients'[i] = clients[i] /\ qpinfo'[i] = qpinfo[i]
        /\ mrs'[i] = mrs[i] /\ window'[i] = window[i]
    BY <1>2, PcKeeps
  <1>4. Phase(i)'
    BY <1>1, <1>2, <1>3 DEF Phase, InInit
  <1>5. Tables(i)'
    BY <1>1, <1>2, <1>3 DEF Tables
  <1>6. Memory(i)'
    BY <1>1, <1>2, <1>3 DEF Memory, Phase, InInit
  <1> QED
    BY <1>1, <1>2, <1>4, <1>5, <1>6, PcStep DEF Labels, InInit, Gone, Waiting, Sending

\* A call fails: mp_init returns an error, or the process exits.
LEMMA BaseGiveUp ==
    ASSUME Base, NEW i \in Ranks, NEW label \in Gone, Goto(i, label),
           UNCHANGED <<mp_enable_ud, connection, mpi, memory, flight>>,
           \/ pc[i] \in {"create", "rts"}
           \/ pc[i] = "rtr" /\ label = "failed"
           \/ pc[i] = "up" /\ ~HasWindow(i) /\ label = "exited"
    PROVE  Base'
  <1>1. pc'[i] = label /\ keys[i] \in Nat
    BY DEF Goto, Base, TypeOK
  <1>2. /\ Phase(i) /\ Tables(i) /\ Memory(i)
        /\ Clients(i) => Clients(i)'
        /\ called'[i] = called[i] /\ keys'[i] = keys[i] /\ HasWindow(i)' = HasWindow(i)
        /\ idx'[i] = idx[i] /\ clients'[i] = clients[i] /\ qpinfo'[i] = qpinfo[i]
        /\ mrs'[i] = mrs[i] /\ window'[i] = window[i]
    BY PcKeeps
  <1>3. Phase(i)'
    BY <1>1, <1>2 DEF Phase, InInit, Gone
  <1>4. Tables(i)'
    BY <1>1, <1>2 DEF Tables, Gone
  <1>5. Memory(i)'
    BY <1>1, <1>2 DEF Memory, Phase, InInit, Gone
  <1> QED
    BY <1>3, <1>4, <1>5, PcStep DEF Labels, Gone, Waiting, Sending

LEMMA BaseInitReturn == ASSUME Base, NEW i \in Ranks, mp_init_return(i) PROVE Base'
  <1>1. /\ UNCHANGED <<mp_enable_ud, connection, mpi, memory, flight>> /\ pc[i] = "rts_barrier"
        /\ pc'[i] = "up" /\ EveryoneIn(i) /\ Goto(i, "up")
    BY DEF mp_init_return, Goto, Base, TypeOK
  <1>2. /\ Phase(i) /\ Tables(i) /\ Memory(i)
        /\ Clients(i) => Clients(i)'
        /\ called'[i] = called[i] /\ keys'[i] = keys[i] /\ HasWindow(i)' = HasWindow(i)
        /\ idx'[i] = idx[i] /\ clients'[i] = clients[i] /\ qpinfo'[i] = qpinfo[i]
        /\ mrs'[i] = mrs[i] /\ window'[i] = window[i]
    BY <1>1, PcKeeps
  <1>3. Phase(i)'
    BY <1>1, <1>2 DEF Phase, InInit
  <1>4. Tables(i)'
    BY <1>1, <1>2 DEF Tables
  <1>5. Memory(i)'
    BY <1>1, <1>2 DEF Memory, Phase, InInit
  <1>6. PICK label \in Labels : label = "up"
    BY DEF Labels, Returned
  <1> QED
    BY <1>1, <1>3, <1>4, <1>5, <1>6, PcStep DEF Sending

LEMMA BaseWindowBarrierReturn == ASSUME Base, NEW i \in Ranks, WindowBarrierReturn(i) PROVE Base'
  <1>1. /\ UNCHANGED <<mp_enable_ud, connection, mpi, memory, flight>> /\ pc[i] = "window_barrier"
        /\ pc'[i] = "up" /\ EveryoneIn(i) /\ Goto(i, "up")
    BY DEF WindowBarrierReturn, Goto, Base, TypeOK
  <1>2. /\ Phase(i) /\ Tables(i) /\ Memory(i)
        /\ Clients(i) => Clients(i)'
        /\ called'[i] = called[i] /\ keys'[i] = keys[i] /\ HasWindow(i)' = HasWindow(i)
        /\ idx'[i] = idx[i] /\ clients'[i] = clients[i] /\ qpinfo'[i] = qpinfo[i]
        /\ mrs'[i] = mrs[i] /\ window'[i] = window[i]
    BY <1>1, PcKeeps
  <1>3. Phase(i)'
    BY <1>1, <1>2 DEF Phase, InInit
  <1>4. Tables(i)'
    BY <1>1, <1>2 DEF Tables
  <1>5. Memory(i)'
    BY <1>1, <1>2 DEF Memory
  <1>6. PICK label \in Labels : label = "up"
    BY DEF Labels, Returned
  <1> QED
    BY <1>1, <1>3, <1>4, <1>5, <1>6, PcStep DEF Sending

-----------------------------------------------------------------------------
(* The loops of mp_init *)

\* A turn of a loop leaves everything but the connection of rank i alone.
LEMMA LoopStep ==
    ASSUME Base, NEW i \in Ranks, UNCHANGED <<mp_enable_ud, pc, mpi, memory, flight>>,
           pc[i] \in {"create", "rtr", "rts"},
           idx' \in [Ranks -> Nat], clients' \in [Ranks -> Seq(Client)],
           client_index' \in [Ranks -> [Ranks -> Nat \union {None}]],
           qpinfo' \in [Ranks -> [Ranks -> Qpns \union {None}]],
           \A j \in Ranks : j # i =>
               /\ idx'[j] = idx[j] /\ clients'[j] = clients[j]
               /\ client_index'[j] = client_index[j] /\ qpinfo'[j] = qpinfo[j],
           Tables(i)'
    PROVE  Base'
  <1>1. TypeOK
    BY DEF Base
  <1>2. UNCHANGED <<mp_enable_ud, pc, called, colls, sent, mrs, keys, window, flight>>
    BY DEF mpi, memory
  <1>3. TypeOK'
    BY <1>1, <1>2 DEF TypeOK
  <1>4. OthersSame(i)
    BY <1>2 DEF OthersSame
  <1>5. Phase(i)' /\ Exchanged(i)' /\ Memory(i)'
    <2>1. Phase(i) /\ Exchanged(i) /\ Memory(i)
      BY DEF Base, Inv
    <2> QED
      BY <1>2, <2>1 DEF Phase, Exchanged, Memory, HasWindow
  <1>6. Sync' /\ Final'
    <2>1. Sync /\ Final
      BY DEF Base, Inv
    <2>2. Sync'
      BY <1>2, <2>1 DEF Sync
    <2>3. Final'
      BY <1>2, <2>1 DEF Final
    <2> QED
      BY <2>2, <2>3
  <1>7. Messages'
    BY <1>2, <1>4, MessagesKeep
  <1> QED
    BY <1>3, <1>4, <1>5, <1>6, <1>7, RankStep

LEMMA BaseCreateQp == ASSUME Base, NEW i \in Ranks, CreateQp(i) PROVE Base'
  <1>1. TypeOK /\ Phase(i) /\ Tables(i)
    BY DEF Base, Inv
  <1>2. PICK k \in Nat : k = idx[i] /\ k <= Count(i)
    BY <1>1 DEF CreateQp, TypeOK
  <1>3. pc[i] = "create" /\ UNCHANGED <<mp_enable_ud, mpi, memory, flight>>
    BY DEF CreateQp
  <1>4. CASE "gds_create_qp" \in Faults /\ Goto(i, "failed") /\ UNCHANGED connection
    BY <1>3, <1>4, BaseGiveUp DEF Gone
  <1>5. CASE "init" \in Faults /\ Goto(i, "exited") /\ UNCHANGED connection
    BY <1>3, <1>5, BaseGiveUp DEF Gone
  <1>6. CASE /\ clients' = [clients EXCEPT ![i] = Append(@, NewClient(i, k))]
             /\ client_index' = [client_index EXCEPT ![i][Peers[i][k]] = k]
             /\ qpinfo' = [qpinfo EXCEPT ![i][Peers[i][k]] = <<i, k>>]
             /\ idx' = [idx EXCEPT ![i] = @ + 1]
             /\ UNCHANGED pc
    <2>1. /\ clients[i] \in Seq(Client) /\ Len(clients[i]) \in Nat /\ k = Len(clients[i]) + 1
          /\ called[i] = 0 /\ Clients(i) /\ k \in 1..Count(i) /\ Count(i) \in Nat
      BY <1>1, <1>2, <1>3, PeerFacts DEF TypeOK, Tables, Phase
    <2>2. PICK p \in Ranks : p = Peers[i][k]
      BY <2>1, PeerFacts
    <2>3. NewClient(i, k) \in Client /\ <<i, k>> \in Qpns
      BY <2>1, <2>2 DEF NewClient, Client, Qpns
    <2>4. /\ clients'[i] = Append(clients[i], NewClient(i, k)) /\ idx'[i] = k + 1
          /\ clients' \in [Ranks -> Seq(Client)] /\ idx' \in [Ranks -> Nat]
          /\ \A j \in Ranks : j # i => idx'[j] = idx[j] /\ clients'[j] = clients[j]
      BY <1>1, <1>2, <1>6, <2>1, <2>3 DEF TypeOK
    <2>5. /\ client_index'[i] = [client_index[i] EXCEPT ![p] = k]
          /\ client_index' \in [Ranks -> [Ranks -> Nat \union {None}]]
          /\ \A j \in Ranks : j # i => client_index'[j] = client_index[j]
          /\ client_index[i] \in [Ranks -> Nat \union {None}]
      BY <1>1, <1>6, <2>2 DEF TypeOK
    <2>6. /\ qpinfo'[i] = [qpinfo[i] EXCEPT ![p] = <<i, k>>]
          /\ qpinfo' \in [Ranks -> [Ranks -> Qpns \union {None}]]
          /\ \A j \in Ranks : j # i => qpinfo'[j] = qpinfo[j]
          /\ qpinfo[i] \in [Ranks -> Qpns \union {None}]
      BY <1>1, <1>6, <2>2, <2>3 DEF TypeOK
    <2>7. /\ Len(clients'[i]) = k /\ clients'[i][k] = NewClient(i, k)
          /\ \A n \in 1..Len(clients[i]) : clients'[i][n] = clients[i][n]
      BY <2>1, <2>3, <2>4, SeqAppend
    <2>8. ASSUME NEW n \in 1..Len(clients[i])
          PROVE  /\ n \in 1..Count(i) /\ n # k /\ Peers[i][n] # p /\ Peers[i][n] \in Ranks
                 /\ client_index'[i][Peers[i][n]] = client_index[i][Peers[i][n]]
                 /\ qpinfo'[i][Peers[i][n]] = qpinfo[i][Peers[i][n]]
      <3>1. n \in 1..Count(i) /\ n # k
        BY <2>1
      <3>2. Peers[i][n] # p /\ Peers[i][n] \in Ranks
        BY <2>1, <2>2, <3>1, PeerFacts
      <3> QED
        BY <2>5, <2>6, <3>1, <3>2
    <2>9. UNCHANGED <<pc, called>>
      BY <1>3, <1>6 DEF mpi
    <2>10. \A n \in 1..Len(clients'[i]) : n = k \/ n \in 1..Len(clients[i])
      BY <2>1, <2>7
    <2>11. Clients(i)'
      <3>1. Len(clients'[i]) <= Count(i) /\ ~(called'[i] >= 1)
        BY <2>1, <2>7, <2>9
      <3>2. ASSUME NEW n \in 1..Len(clients'[i])
            PROVE  /\ clients'[i][n].rank = Peers[i][n] /\ clients'[i][n].qpn = <<i, n>>
                   /\ client_index'[i][Peers[i][n]] = n
                   /\ clients'[i][n].dest # None => Right(i, n, clients'[i][n].dest)
                   /\ clients'[i][n].state = "RTS" => clients'[i][n].dest # None
                   /\ clients'[i][n].state = "RTR" /\ ~mp_enable_ud' => clients'[i][n].dest # None
        <4>1. CASE n = k
          BY <2>2, <2>5, <2>7, <4>1 DEF NewClient
        <4>2. CASE n \in 1..Len(clients[i])
          <5>1. clients'[i][n] = clients[i][n] /\ mp_enable_ud' = mp_enable_ud
            BY <1>3, <2>7, <4>2
          <5>2. client_index'[i][Peers[i][n]] = client_index[i][Peers[i][n]]
            BY <2>8, <4>2
          <5> QED
            BY <2>1, <4>2, <5>1, <5>2 DEF Clients
        <4> QED
          BY <2>10, <4>1, <4>2
      <3>3. ASSUME NEW j \in Ranks, client_index'[i][j] # None
            PROVE  client_index'[i][j] \in 1..Len(clients'[i]) /\ Peers[i][client_index'[i][j]] = j
        <4>1. CASE j = p
          BY <2>1, <2>2, <2>5, <2>7, <4>1
        <4>2. CASE j # p
          <5>1. client_index'[i][j] = client_index[i][j]
            BY <2>5, <4>2
          <5>2. client_index[i][j] \in 1..Len(clients[i]) /\ Peers[i][client_index[i][j]] = j
            BY <2>1, <3>3, <5>1 DEF Clients
          <5> QED
            BY <2>1, <2>7, <5>1, <5>2
        <4> QED
          BY <4>1, <4>2
      <3>4. ~(called'[i] >= 2) /\ ~(called'[i] >= 3)
        BY <2>1, <2>9
      <3> QED
        BY <3>1, <3>2, <3>3, <3>4 DEF Clients
    <2>12. Tables(i)'
      <3>1. pc'[i] = "create" /\ idx'[i] = Len(clients'[i]) + 1
        BY <1>3, <2>4, <2>7, <2>9
      <3>2. ASSUME NEW n \in 1..Len(clients'[i]) PROVE qpinfo'[i][Peers[i][n]] = <<i, n>>
        <4>1. CASE n = k
          BY <2>2, <2>6, <4>1
        <4>2. CASE n \in 1..Len(clients[i])
          BY <1>1, <1>3, <2>8, <4>2 DEF Tables
        <4> QED
          BY <2>10, <4>1, <4>2
      <3> QED
        BY <2>11, <3>1, <3>2 DEF Tables
    <2> QED
      BY <1>3, <2>4, <2>5, <2>6, <2>9, <2>12, LoopStep
  <1> QED
    BY <1>2, <1>4, <1>5, <1>6 DEF CreateQp

\* A turn of the loop to RTR or of the loop to RTS: the k-th queue pair is c now.
QpMoves(i, k, c) ==
    /\ k = idx[i] /\ k <= Count(i)
    /\ UNCHANGED <<mp_enable_ud, pc, client_index, qpinfo, mpi, memory, flight>>
    /\ clients' = [clients EXCEPT ![i] = [@ EXCEPT ![k] = c]]
    /\ idx' = [idx EXCEPT ![i] = @ + 1]
    /\ c.rank = clients[i][k].rank /\ c.qpn = clients[i][k].qpn
    /\ \/ pc[i] = "rtr" /\ c.state = "RTR"
       \/ pc[i] = "rts" /\ c.state = "RTS"
    /\ c.dest = IF mp_enable_ud <=> pc[i] = "rts" THEN qpinfo[i][Peers[i][k]]
                ELSE clients[i][k].dest

LEMMA QpStep ==
    ASSUME Base, NEW i \in Ranks, NEW k \in Nat, NEW c \in Client, QpMoves(i, k, c)
    PROVE  Base'
  <1> USE DEF QpMoves
  <1>1. TypeOK /\ Phase(i) /\ Tables(i)
    BY DEF Base, Inv
  <1>2. /\ pc[i] # "down" /\ Clients(i) /\ idx[i] >= 1 /\ k \in 1..Count(i) /\ Count(i) \in Nat
        /\ Right(i, k, qpinfo[i][Peers[i][k]]) /\ called[i] \in Nat
        /\ pc[i] = "rtr" => called[i] = 1
        /\ pc[i] = "rts" => called[i] = 2
    <2>1. pc[i] \in {"rtr", "rts"} /\ pc[i] # "down" /\ Count(i) \in Nat
      BY PeerFacts
    <2>2. /\ Clients(i) /\ idx[i] >= 1 /\ \A n \in 1..Count(i) : Right(i, n, qpinfo[i][Peers[i][n]])
      BY <1>1, <2>1 DEF Tables
    <2>3. k \in 1..Count(i)
      BY <2>1, <2>2
    <2>4. (pc[i] = "rtr" => called[i] = 1) /\ (pc[i] = "rts" => called[i] = 2)
      BY <1>1 DEF Phase
    <2> QED
      BY <1>1, <2>1, <2>2, <2>3, <2>4 DEF TypeOK
  <1>3. clients[i] \in Seq(Client) /\ Len(clients[i]) = Count(i)
    BY <1>1, <1>2 DEF TypeOK, Clients
  <1>4. /\ clients'[i] = [clients[i] EXCEPT ![k] = c] /\ clients' \in [Ranks -> Seq(Client)]
        /\ \A j \in Ranks : j # i => clients'[j] = clients[j] /\ idx'[j] = idx[j]
        /\ idx' \in [Ranks -> Nat] /\ idx'[i] = k + 1
    BY <1>1, <1>2, <1>3 DEF TypeOK
  <1>5. /\ Len(clients'[i]) = Count(i) /\ clients'[i][k] = c
        /\ \A n \in 1..Count(i) : n # k => clients'[i][n] = clients[i][n]
    BY <1>2, <1>3, <1>4
  <1>6. UNCHANGED <<called, mp_enable_ud, pc, client_index, qpinfo>>
    BY DEF mpi
  <1>7. /\ c.dest # None => Right(i, k, c.dest)
        /\ c.state = "RTS" => c.dest # None
        /\ c.state = "RTR" /\ ~mp_enable_ud => c.dest # None
    <2>1. qpinfo[i][Peers[i][k]] # None
      BY <1>2 DEF Right, Qpns
    <2>2. /\ clients[i][k].dest # None => Right(i, k, clients[i][k].dest)
          /\ clients[i][k].state = "RTR" /\ ~mp_enable_ud => clients[i][k].dest # None
          /\ clients[i][k].state = "RTS" => clients[i][k].dest # None
      BY <1>2, <1>3 DEF Clients
    <2>3. pc[i] = "rts" => clients[i][k].state \in {"RTR", "RTS"}
      BY <1>2 DEF Clients
    <2>4. CASE pc[i] = "rtr" /\ c.state = "RTR"
      BY <1>2, <2>1, <2>2, <2>4
    <2>5. CASE pc[i] = "rts" /\ c.state = "RTS"
      BY <1>2, <2>1, <2>2, <2>3, <2>5
    <2> QED
      BY <2>4, <2>5
  <1>8. Clients(i)'
    <2>1. ASSUME NEW n \in 1..Len(clients'[i])
          PROVE  /\ clients'[i][n].rank = Peers[i][n] /\ clients'[i][n].qpn = <<i, n>>
                 /\ client_index'[i][Peers[i][n]] = n
                 /\ clients'[i][n].dest # None => Right(i, n, clients'[i][n].dest)
                 /\ clients'[i][n].state = "RTS" => clients'[i][n].dest # None
                 /\ clients'[i][n].state = "RTR" /\ ~mp_enable_ud' => clients'[i][n].dest # None
      <3>1. n \in 1..Len(clients[i]) /\ n \in 1..Count(i)
        BY <1>3, <1>5
      <3>2. CASE n = k
        <4>1. clients[i][k].rank = Peers[i][k] /\ clients[i][k].qpn = <<i, k>>
              /\ client_index[i][Peers[i][k]] = k
          BY <1>2, <3>1, <3>2 DEF Clients
        <4>2. c.rank = clients[i][k].rank /\ c.qpn = clients[i][k].qpn
          OBVIOUS
        <4>3. clients'[i][n] = c
          BY <1>5, <3>2
        <4> QED
          BY <1>6, <1>7, <3>2, <4>1, <4>2, <4>3
      <3>3. CASE n # k
        BY <1>2, <1>5, <1>6, <3>1, <3>3 DEF Clients
      <3> QED
        BY <3>2, <3>3
    <2>2. \A j \in Ranks : client_index'[i][j] # None =>
             client_index'[i][j] \in 1..Len(clients'[i]) /\ Peers[i][client_index'[i][j]] = j
      BY <1>2, <1>3, <1>5, <1>6 DEF Clients
    <2>3. called'[i] >= 2 => \A n \in 1..Count(i) : clients'[i][n].state \in {"RTR", "RTS"}
      BY <1>2, <1>5, <1>6 DEF Clients
    <2>4. ~(called'[i] >= 3) /\ Len(clients'[i]) <= Count(i)
      BY <1>2, <1>5, <1>6
    <2> QED
      BY <1>5, <2>1, <2>2, <2>3, <2>4 DEF Clients
  <1>9. Tables(i)'
    <2>1. \A n \in 1..Count(i) : n < idx'[i] => n < k \/ n = k
      BY <1>2, <1>4
    <2>2. idx'[i] >= 1
      BY <1>4
    <2>3. \A n \in 1..Count(i) : Right(i, n, qpinfo'[i][Peers[i][n]])
      BY <1>1, <1>6 DEF Tables
    <2>4. CASE pc[i] = "rtr" /\ c.state = "RTR"
      <3>1. \A n \in 1..Count(i) : n < idx'[i] => clients'[i][n].state = "RTR"
        BY <1>1, <1>5, <2>1, <2>4 DEF Tables
      <3> QED
        BY <1>6, <1>8, <2>2, <2>3, <2>4, <3>1 DEF Tables
    <2>5. CASE pc[i] = "rts" /\ c.state = "RTS"
      <3>1. \A n \in 1..Count(i) : n < idx'[i] => clients'[i][n].state = "RTS"
        BY <1>1, <1>5, <2>1, <2>5 DEF Tables
      <3> QED
        BY <1>6, <1>8, <2>2, <2>3, <2>5, <3>1 DEF Tables
    <2> QED
      BY <2>4, <2>5
  <1>10. /\ client_index' \in [Ranks -> [Ranks -> Nat \union {None}]]
         /\ qpinfo' \in [Ranks -> [Ranks -> Qpns \union {None}]]
    BY <1>1, <1>6 DEF TypeOK
  <1> QED
    BY <1>4, <1>6, <1>9, <1>10, LoopStep

LEMMA BaseToRTR == ASSUME Base, NEW i \in Ranks, ToRTR(i) PROVE Base'
  <1>1. TypeOK /\ Phase(i) /\ Tables(i)
    BY DEF Base, Inv
  <1>2. PICK k \in Nat : k = idx[i] /\ k <= Count(i)
    BY <1>1 DEF ToRTR, TypeOK
  <1>3. pc[i] = "rtr" /\ UNCHANGED <<mp_enable_ud, client_index, qpinfo, mpi, memory, flight>>
    BY DEF ToRTR
  <1>4. CASE "rtr" \in Faults /\ Goto(i, "failed") /\ UNCHANGED <<clients, idx>>
    BY <1>3, <1>4, BaseGiveUp DEF Gone, connection
  <1>5. CASE /\ clients' = [clients EXCEPT
                      ![i][k].state = "RTR",
                      ![i][k].dest = IF mp_enable_ud THEN @ ELSE qpinfo[i][Peers[i][k]]]
             /\ idx' = [idx EXCEPT ![i] = @ + 1] /\ UNCHANGED pc
    <2>1. /\ clients \in [Ranks -> Seq(Client)] /\ k \in 1..Len(clients[i]) /\ k \in 1..Count(i)
          /\ qpinfo[i] \in [Ranks -> Qpns \union {None}] /\ Peers[i][k] \in Ranks
      <3>1. Clients(i) /\ called[i] = 1 /\ idx[i] >= 1 /\ Count(i) \in Nat
        BY <1>1, <1>3, PeerFacts DEF Tables, Phase
      <3>2. k \in 1..Count(i) /\ Len(clients[i]) = Count(i)
        BY <1>2, <3>1 DEF Clients
      <3> QED
        BY <1>1, <3>2, PeerFacts DEF TypeOK
    <2>2. clients[i] \in Seq(Client) /\ clients[i][k] \in Client
      BY <2>1
    <2>3. PICK c \in Client :
             c = [clients[i][k] EXCEPT !.state = "RTR",
                     !.dest = IF mp_enable_ud THEN @ ELSE qpinfo[i][Peers[i][k]]]
      BY <2>1, <2>2 DEF Client
    <2>4. clients' = [clients EXCEPT ![i] = [@ EXCEPT ![k] = c]]
      BY ZenonT(60), <1>5, <2>1, <2>2, <2>3
    <2>5. /\ c.rank = clients[i][k].rank /\ c.qpn = clients[i][k].qpn /\ c.state = "RTR"
          /\ c.dest = IF mp_enable_ud THEN clients[i][k].dest ELSE qpinfo[i][Peers[i][k]]
      BY <2>2, <2>3 DEF Client
    <2>6. c.dest = IF mp_enable_ud <=> pc[i] = "rts" THEN qpinfo[i][Peers[i][k]]
                   ELSE clients[i][k].dest
      BY <1>1, <1>3, <2>5 DEF TypeOK
    <2>7. QpMoves(i, k, c)
      BY <1>2, <1>3, <1>5, <2>4, <2>5, <2>6 DEF QpMoves
    <2> QED
      BY <2>7, QpStep
  <1> QED
    BY <1>2, <1>4, <1>5 DEF ToRTR

LEMMA BaseToRTS == ASSUME Base, NEW i \in Ranks, ToRTS(i) PROVE Base'
  <1>1. TypeOK /\ Phase(i) /\ Tables(i)
    BY DEF Base, Inv
  <1>2. PICK k \in Nat : k = idx[i] /\ k <= Count(i)
    BY <1>1 DEF ToRTS, TypeOK
  <1>3. pc[i] = "rts" /\ UNCHANGED <<mp_enable_ud, client_index, qpinfo, mpi, memory, flight>>
    BY DEF ToRTS
  <1>4. CASE "rts" \in Faults /\ Goto(i, "failed") /\ UNCHANGED <<clients, idx>>
    BY <1>3, <1>4, BaseGiveUp DEF Gone, connection
  <1>5. CASE /\ clients' = [clients EXCEPT
                      ![i][k].state = "RTS",
                      ![i][k].dest = IF mp_enable_ud THEN qpinfo[i][Peers[i][k]] ELSE @]
             /\ idx' = [idx EXCEPT ![i] = @ + 1] /\ UNCHANGED pc
    <2>1. /\ clients \in [Ranks -> Seq(Client)] /\ k \in 1..Len(clients[i]) /\ k \in 1..Count(i)
          /\ qpinfo[i] \in [Ranks -> Qpns \union {None}] /\ Peers[i][k] \in Ranks
      <3>1. Clients(i) /\ called[i] = 2 /\ idx[i] >= 1 /\ Count(i) \in Nat
        BY <1>1, <1>3, PeerFacts DEF Tables, Phase
      <3>2. k \in 1..Count(i) /\ Len(clients[i]) = Count(i)
        BY <1>2, <3>1 DEF Clients
      <3> QED
        BY <1>1, <3>2, PeerFacts DEF TypeOK
    <2>2. clients[i] \in Seq(Client) /\ clients[i][k] \in Client
      BY <2>1
    <2>3. PICK c \in Client :
             c = [clients[i][k] EXCEPT !.state = "RTS",
                     !.dest = IF mp_enable_ud THEN qpinfo[i][Peers[i][k]] ELSE @]
      BY <2>1, <2>2 DEF Client
    <2>4. clients' = [clients EXCEPT ![i] = [@ EXCEPT ![k] = c]]
      BY <1>5, <2>1, <2>2, <2>3
    <2>5. /\ c.rank = clients[i][k].rank /\ c.qpn = clients[i][k].qpn /\ c.state = "RTS"
          /\ c.dest = IF mp_enable_ud THEN qpinfo[i][Peers[i][k]] ELSE clients[i][k].dest
      BY <2>2, <2>3 DEF Client
    <2>6. c.dest = IF mp_enable_ud <=> pc[i] = "rts" THEN qpinfo[i][Peers[i][k]]
                   ELSE clients[i][k].dest
      BY <1>1, <1>3, <2>5 DEF TypeOK
    <2>7. QpMoves(i, k, c)
      BY <1>2, <1>3, <1>5, <2>4, <2>5, <2>6 DEF QpMoves
    <2> QED
      BY <2>7, QpStep
  <1> QED
    BY <1>2, <1>4, <1>5 DEF ToRTS

-----------------------------------------------------------------------------
(* Collectives *)

\* Rank i enters a collective; what it gives and registers with it is its own.
Joins(i, coll, label) ==
    /\ Enter(i, coll) /\ Goto(i, label) /\ (label = "finalize" <=> coll = "mp_finalize")
    /\ UNCHANGED <<mp_enable_ud, connection, flight>>
    /\ \A j \in Ranks : j # i => /\ sent'[j] = sent[j] /\ mrs'[j] = mrs[j]
                                 /\ keys'[j] = keys[j] /\ window'[j] = window[j]
    /\ mrs' \in [Ranks -> SUBSET Qpns] /\ keys' \in [Ranks -> Nat]
    /\ window'[i] = None \/ window'[i] \in [1..Count(i) -> Qpns]
    /\ DOMAIN sent' = Ranks /\ DOMAIN window' = Ranks
    /\ pc[i] \notin Waiting \/ EveryoneIn(i)
    /\ pc[i] \notin {"finalize", "down"}
    /\ \/ Quiet(i)
       \/ pc[i] \notin Sending
       \/ label \in Sending /\ ~(pc[i] = "up" /\ HasWindow(i))

LEMMA JoinPc ==
    ASSUME Base, NEW i \in Ranks, NEW coll \in Collectives, NEW label \in Waiting, Joins(i, coll, label)
    PROVE  /\ pc'[i] = label /\ called'[i] = called[i] + 1 /\ called[i] \in Nat
           /\ idx'[i] = idx[i] /\ clients'[i] = clients[i] /\ qpinfo'[i] = qpinfo[i]
           /\ client_index'[i] = client_index[i] /\ mp_enable_ud' = mp_enable_ud
           /\ Phase(i) /\ Tables(i) /\ Exchanged(i) /\ Memory(i)
  <1>1. called \in [Ranks -> Nat] /\ pc \in [Ranks -> InInit \union Returned \union Gone]
    BY DEF Base, TypeOK
  <1>2. pc'[i] = label /\ called'[i] = called[i] + 1 /\ called[i] \in Nat
    BY <1>1 DEF Joins, Enter, Goto
  <1>3. Phase(i) /\ Tables(i) /\ Exchanged(i) /\ Memory(i)
    BY DEF Base, Inv
  <1> QED
    BY <1>2, <1>3 DEF Joins, connection

LEMMA JoinStep ==
    ASSUME Base, NEW i \in Ranks, NEW coll \in Collectives, NEW label \in Waiting, Joins(i, coll, label),
           Phase(i)', Tables(i)', Exchanged(i)', Memory(i)'
    PROVE  Base'
  <1>1. TypeOK
    BY DEF Base
  <1>2. UNCHANGED <<mp_enable_ud, idx, clients, client_index, qpinfo, flight>>
    BY DEF Joins, connection
  <1>3. /\ Enter(i, coll) /\ Goto(i, label) /\ (label = "finalize" <=> coll = "mp_finalize")
        /\ pc[i] \notin {"finalize", "down"}
    BY DEF Joins
  <1>4. pc[i] \notin Waiting \/ EveryoneIn(i)
    BY DEF Joins
  <1>5. /\ Sync' /\ Final' /\ called'[i] = called[i] + 1 /\ pc'[i] = label
        /\ called' \in [Ranks -> Nat] /\ pc' \in [Ranks -> InInit \union Returned \union Gone]
        /\ \A j \in Ranks : j # i => called'[j] = called[j] /\ pc'[j] = pc[j]
    BY <1>3, <1>4, SyncEnter
  <1>6. /\ \A j \in Ranks : j # i => /\ sent'[j] = sent[j] /\ mrs'[j] = mrs[j]
                                     /\ keys'[j] = keys[j] /\ window'[j] = window[j]
        /\ mrs' \in [Ranks -> SUBSET Qpns] /\ keys' \in [Ranks -> Nat]
        /\ window'[i] = None \/ window'[i] \in [1..Count(i) -> Qpns]
        /\ DOMAIN sent' = Ranks /\ DOMAIN window' = Ranks
    BY DEF Joins
  <1>7. OthersSame(i)
    BY <1>2, <1>5, <1>6 DEF OthersSame
  <1>8. TypeOK'
    <2>1. \A j \in Ranks : window'[j] = None \/ window'[j] \in [1..Count(j) -> Qpns]
      BY <1>1, <1>6 DEF TypeOK
    <2> QED
      BY <1>1, <1>2, <1>5, <1>6, <2>1 DEF TypeOK
  <1>9. Messages'
    <2>1. called'[i] \in Nat /\ called'[i] >= called[i] /\ called[i] \in Nat
      BY <1>1, <1>5 DEF TypeOK
    <2>2. CASE Quiet(i)
      BY <1>2, <1>7, <2>2, MessagesKeep
    <2>3. CASE pc[i] \notin Sending
      BY <1>2, <1>7, <2>3, MessagesKeep DEF Sending
    <2>4. CASE label \in Sending /\ ~(pc[i] = "up" /\ HasWindow(i))
      BY <1>2, <1>5, <1>7, <2>1, <2>4, MessagesKeep DEF Sending
    <2> QED
      BY <2>2, <2>3, <2>4 DEF Joins
  <1> QED
    BY <1>5, <1>7, <1>8, <1>9, RankStep

LEMMA BaseAlltoall == ASSUME Base, NEW i \in Ranks, MPI_Alltoall(i) PROVE Base'
  <1>1. TypeOK
    BY DEF Base
  <1>2. PICK coll \in Collectives, label \in Waiting : coll = "MPI_Alltoall" /\ label = "alltoall"
    BY DEF Collectives, Waiting
  <1>3. /\ pc[i] = "create" /\ idx[i] > Count(i) /\ Enter(i, coll) /\ Goto(i, label)
        /\ UNCHANGED <<mp_enable_ud, connection, flight, mrs, keys, window>>
        /\ sent'[i] = qpinfo[i] /\ DOMAIN sent' = Ranks
        /\ \A j \in Ranks : j # i => sent'[j] = sent[j]
    BY <1>1, <1>2 DEF MPI_Alltoall, TypeOK, memory
  <1>4. Joins(i, coll, label)
    BY <1>1, <1>2, <1>3 DEF Joins, TypeOK, Waiting, Sending
  <1>5. /\ pc'[i] = "alltoall" /\ called'[i] = called[i] + 1
        /\ idx'[i] = idx[i] /\ clients'[i] = clients[i] /\ qpinfo'[i] = qpinfo[i]
        /\ client_index'[i] = client_index[i] /\ mp_enable_ud' = mp_enable_ud
        /\ Phase(i) /\ Tables(i) /\ Memory(i)
    BY <1>2, <1>4, JoinPc
  <1>6. called[i] = 0 /\ called'[i] = 1 /\ keys'[i] = 0 /\ keys[i] = 0 /\ window'[i] = None
    BY <1>3, <1>5 DEF Phase, InInit, HasWindow
  <1>7. Len(clients[i]) = Count(i) /\ Clients(i)
    <2>1. Clients(i) /\ idx[i] = Len(clients[i]) + 1
      BY <1>3, <1>5 DEF Tables
    <2>2. Len(clients[i]) \in Nat /\ Count(i) \in Nat /\ Len(clients[i]) <= Count(i)
      BY <1>1, <2>1, PeerFacts DEF TypeOK, Clients
    <2> QED
      BY <1>3, <2>1, <2>2
  <1>8. Clients(i)'
    <2>1. ~(called'[i] >= 2) /\ ~(called'[i] >= 3) /\ Len(clients'[i]) = Count(i)
      BY <1>5, <1>6, <1>7
    <2> QED
      BY <1>5, <1>7, <2>1 DEF Clients
  <1>9. Phase(i)'
    BY <1>5, <1>6 DEF Phase, InInit, HasWindow
  <1>10. \A k \in 1..Count(i) : qpinfo[i][Peers[i][k]] = <<i, k>>
    BY <1>3, <1>5, <1>7 DEF Tables
  <1>11. Tables(i)'
    BY <1>5, <1>7, <1>8, <1>10 DEF Tables
  <1>12. Exchanged(i)'
    <2>1. sent'[i] \in [Ranks -> Qpns \union {None}]
      BY <1>1, <1>3 DEF TypeOK
    <2> QED
      BY <1>3, <1>6, <1>10, <2>1 DEF Exchanged
  <1>13. Memory(i)'
    BY <1>5, <1>6 DEF Memory, HasWindow
  <1> QED
    BY <1>4, <1>9, <1>11, <1>12, <1>13, JoinStep

\* The barriers of mp_init, of the application and of mp_finalize.
LEMMA BarrierJoins ==
    ASSUME Base, NEW i \in Ranks, NEW coll \in Collectives, NEW label \in Waiting,
           Enter(i, coll), Goto(i, label), label = "finalize" <=> coll = "mp_finalize",
           UNCHANGED <<mp_enable_ud, connection, sent, memory, flight>>,
           pc[i] \in {"rtr", "rts", "up"}, pc[i] = "up" => Quiet(i)
    PROVE  /\ Joins(i, coll, label)
           /\ pc'[i] = label /\ called'[i] = called[i] + 1 /\ called[i] \in Nat
           /\ idx'[i] = idx[i] /\ clients'[i] = clients[i] /\ qpinfo'[i] = qpinfo[i]
           /\ client_index'[i] = client_index[i] /\ mp_enable_ud' = mp_enable_ud
           /\ keys'[i] = keys[i] /\ window'[i] = window[i] /\ mrs'[i] = mrs[i] /\ sent'[i] = sent[i]
           /\ Phase(i) /\ Tables(i) /\ Exchanged(i) /\ Memory(i)
  <1>1. TypeOK
    BY DEF Base
  <1>2. UNCHANGED <<mrs, keys, window>>
    BY DEF memory
  <1>3. Joins(i, coll, label)
    <2>1. pc[i] \notin Waiting /\ pc[i] \notin {"finalize", "down"}
      BY DEF Waiting
    <2>2. Quiet(i) \/ pc[i] \notin Sending
      BY DEF Sending
    <2> QED
      BY <1>1, <1>2, <2>1, <2>2 DEF Joins, TypeOK
  <1> QED
    BY <1>2, <1>3, JoinPc

LEMMA BaseRtrBarrier == ASSUME Base, NEW i \in Ranks, RtrBarrier(i) PROVE Base'
  <1>1. PICK coll \in Collectives, label \in Waiting : coll = "MPI_Barrier" /\ label = "rtr_barrier"
    BY DEF Collectives, Waiting
  <1>2. /\ pc[i] = "rtr" /\ idx[i] > Count(i) /\ Enter(i, coll) /\ Goto(i, label)
        /\ UNCHANGED <<mp_enable_ud, connection, sent, memory, flight>>
    BY <1>1 DEF RtrBarrier
  <1>3. /\ Joins(i, coll, label)
        /\ pc'[i] = label /\ called'[i] = called[i] + 1 /\ called[i] \in Nat
        /\ idx'[i] = idx[i] /\ clients'[i] = clients[i] /\ qpinfo'[i] = qpinfo[i]
        /\ client_index'[i] = client_index[i] /\ mp_enable_ud' = mp_enable_ud
        /\ keys'[i] = keys[i] /\ window'[i] = window[i] /\ mrs'[i] = mrs[i] /\ sent'[i] = sent[i]
        /\ Phase(i) /\ Tables(i) /\ Exchanged(i) /\ Memory(i)
    BY <1>1, <1>2, BarrierJoins
  <1>4. called[i] = 1 /\ called'[i] = 2 /\ keys[i] = 0 /\ window[i] = None
    BY <1>2, <1>3 DEF Phase, InInit, HasWindow
  <1>5. Phase(i)'
    BY <1>1, <1>3, <1>4 DEF Phase, InInit, HasWindow
  <1>6. Exchanged(i)' /\ Memory(i)'
    BY <1>1, <1>3, <1>4 DEF Exchanged, Memory, HasWindow
  <1>7. Clients(i)'
    <2>1. Count(i) \in Nat /\ idx[i] \in Nat
      BY PeerFacts DEF Base, TypeOK
    <2>2. \A k \in 1..Count(i) : clients[i][k].state = "RTR"
      BY <1>2, <1>3, <2>1 DEF Tables
    <2>3. Clients(i) /\ Len(clients[i]) = Count(i)
      BY <1>2, <1>3, <1>4 DEF Tables, Clients
    <2>4. ~(called'[i] >= 3)
      BY <1>4
    <2> QED
      BY <1>3, <2>2, <2>3, <2>4 DEF Clients
  <1>8. Tables(i)'
    BY <1>1, <1>2, <1>3, <1>7 DEF Tables
  <1> QED
    BY <1>3, <1>5, <1>6, <1>8, JoinStep

LEMMA BaseRtsBarrier == ASSUME Base, NEW i \in Ranks, RtsBarrier(i) PROVE Base'
  <1>1. PICK coll \in Collectives, label \in Waiting : coll = "MPI_Barrier" /\ label = "rts_barrier"
    BY DEF Collectives, Waiting
  <1>2. /\ pc[i] = "rts" /\ idx[i] > Count(i)
        /\ UNCHANGED <<mp_enable_ud, connection, sent, memory, flight>>
    BY DEF RtsBarrier
  <1>3. CASE mp_enable_ud /\ "register" \in Faults /\ Goto(i, "exited") /\ UNCHANGED <<called, colls>>
    BY <1>2, <1>3, BaseGiveUp DEF Gone, mpi
  <1>4. CASE Enter(i, coll) /\ Goto(i, label)
    <2>1. /\ Joins(i, coll, label)
          /\ pc'[i] = label /\ called'[i] = called[i] + 1 /\ called[i] \in Nat
          /\ idx'[i] = idx[i] /\ clients'[i] = clients[i] /\ qpinfo'[i] = qpinfo[i]
          /\ client_index'[i] = client_index[i] /\ mp_enable_ud' = mp_enable_ud
          /\ keys'[i] = keys[i] /\ window'[i] = window[i] /\ mrs'[i] = mrs[i] /\ sent'[i] = sent[i]
          /\ Phase(i) /\ Tables(i) /\ Exchanged(i) /\ Memory(i)
      BY <1>1, <1>2, <1>4, BarrierJoins
    <2>2. called[i] = 2 /\ called'[i] = 3 /\ keys[i] = 0 /\ window[i] = None
      BY <1>2, <2>1 DEF Phase, InInit, HasWindow
    <2>3. Phase(i)'
      BY <1>1, <2>1, <2>2 DEF Phase, InInit, HasWindow
    <2>4. Exchanged(i)' /\ Memory(i)'
      <3>1. called[i] \in 1..3 /\ ~(keys'[i] >= 1)
        BY <2>1, <2>2
      <3>2. Exchanged(i)'
        BY <2>1, <3>1 DEF Exchanged
      <3>3. Memory(i)'
        BY <1>1, <2>1, <2>2 DEF Memory, HasWindow
      <3> QED
        BY <3>2, <3>3
    <2>5. Clients(i)'
      <3>1. Count(i) \in Nat /\ idx[i] \in Nat
        BY PeerFacts DEF Base, TypeOK
      <3>2. \A k \in 1..Count(i) : clients[i][k].state = "RTS"
        BY <1>2, <2>1, <3>1 DEF Tables
      <3>3. Clients(i) /\ Len(clients[i]) = Count(i)
        BY <1>2, <2>1, <2>2 DEF Tables, Clients
      <3> QED
        BY <2>1, <3>2, <3>3 DEF Clients
    <2>6. Tables(i)'
      BY <1>1, <1>2, <2>1, <2>5 DEF Tables
    <2> QED
      BY <2>1, <2>3, <2>4, <2>6, JoinStep
  <1> QED
    BY <1>1, <1>3, <1>4 DEF RtsBarrier

\* A rank that is done with mp_init keeps its tables when it enters a collective.
LEMMA UpTables ==
    ASSUME Base, NEW i \in Ranks, NEW coll \in Collectives, NEW label \in Waiting, Joins(i, coll, label),
           called[i] >= 3, pc[i] # "down", label \notin InInit
    PROVE  Tables(i)'
  <1>1. /\ pc'[i] = label /\ called'[i] = called[i] + 1 /\ called[i] \in Nat
        /\ idx'[i] = idx[i] /\ clients'[i] = clients[i] /\ qpinfo'[i] = qpinfo[i]
        /\ client_index'[i] = client_index[i] /\ mp_enable_ud' = mp_enable_ud
        /\ Tables(i)
    BY JoinPc
  <1>2. Clients(i) /\ called[i] >= 1 /\ called[i] >= 2
    BY <1>1 DEF Tables
  <1>3. Clients(i)'
    BY <1>1, <1>2 DEF Clients
  <1> QED
    BY <1>1, <1>3 DEF Tables, InInit, Waiting

LEMMA BaseAppBarrier == ASSUME Base, NEW i \in Ranks, AppBarrier(i) PROVE Base'
  <1>1. PICK coll \in Collectives, label \in Waiting : coll = "AppBarrier" /\ label = "app_barrier"
    BY DEF Collectives, Waiting
  <1>2. /\ pc[i] = "up" /\ window[i] # None /\ Quiet(i) /\ Enter(i, coll) /\ Goto(i, label)
        /\ UNCHANGED <<mp_enable_ud, connection, sent, memory, flight>>
    BY <1>1 DEF AppBarrier
  <1>3. /\ Joins(i, coll, label)
        /\ pc'[i] = label /\ called'[i] = called[i] + 1 /\ called[i] \in Nat
        /\ keys'[i] = keys[i] /\ window'[i] = window[i] /\ mrs'[i] = mrs[i] /\ sent'[i] = sent[i]
        /\ Phase(i) /\ Exchanged(i) /\ Memory(i)
    BY <1>1, <1>2, BarrierJoins
  <1>4. keys[i] \in Nat /\ keys[i] >= 1 /\ called[i] = 3 * keys[i] + 2 /\ called'[i] = 3 * keys[i] + 3
    BY <1>2, <1>3 DEF Phase, HasWindow, Base, TypeOK
  <1>5. Phase(i)'
    BY <1>1, <1>2, <1>3, <1>4 DEF Phase, InInit, HasWindow
  <1>6. Exchanged(i)' /\ Memory(i)'
    BY <1>1, <1>2, <1>3, <1>4 DEF Exchanged, Memory, HasWindow
  <1>7. Tables(i)'
    BY <1>1, <1>2, <1>3, <1>4, UpTables DEF InInit
  <1> QED
    BY <1>3, <1>5, <1>6, <1>7, JoinStep

LEMMA BaseFinalize == ASSUME Base, NEW i \in Ranks, mp_finalize(i) PROVE Base'
  <1>1. PICK coll \in Collectives, label \in Waiting : coll = "mp_finalize" /\ label = "finalize"
    BY DEF Collectives, Waiting
  <1>2. /\ pc[i] = "up" /\ Quiet(i) /\ Enter(i, coll) /\ Goto(i, label)
        /\ UNCHANGED <<mp_enable_ud, connection, sent, memory, flight>>
    BY <1>1 DEF mp_finalize
  <1>3. /\ Joins(i, coll, label)
        /\ pc'[i] = label /\ called'[i] = called[i] + 1 /\ called[i] \in Nat
        /\ keys'[i] = keys[i] /\ window'[i] = window[i] /\ mrs'[i] = mrs[i] /\ sent'[i] = sent[i]
        /\ Phase(i) /\ Exchanged(i) /\ Memory(i)
    BY <1>1, <1>2, BarrierJoins
  <1>4. /\ keys[i] \in Nat /\ (HasWindow(i) => keys[i] >= 1) /\ called[i] >= 3
        /\ called[i] = IF HasWindow(i) THEN 3 * keys[i] + 2 ELSE 3 * keys[i] + 3
    BY <1>2, <1>3 DEF Phase, Base, TypeOK
  <1>5. Phase(i)'
    BY <1>1, <1>2, <1>3, <1>4 DEF Phase, InInit, HasWindow
  <1>6. Exchanged(i)' /\ Memory(i)'
    BY <1>1, <1>2, <1>3, <1>4 DEF Exchanged, Memory, HasWindow
  <1>7. Tables(i)'
    BY <1>1, <1>2, <1>3, <1>4, UpTables DEF InInit
  <1> QED
    BY <1>3, <1>5, <1>6, <1>7, JoinStep

LEMMA BaseRtrBarrierReturn == ASSUME Base, NEW i \in Ranks, RtrBarrierReturn(i) PROVE Base'
  <1>1. TypeOK /\ Phase(i) /\ Tables(i) /\ Exchanged(i) /\ Memory(i)
    BY DEF Base, Inv
  <1>2. PICK label \in Labels : label = "rts"
    BY DEF Labels, InInit
  <1>3. /\ pc[i] = "rtr_barrier" /\ EveryoneIn(i) /\ Goto(i, label) /\ idx' = [idx EXCEPT ![i] = 1]
        /\ UNCHANGED <<mp_enable_ud, clients, client_index, qpinfo, called, colls, sent, mrs, keys, window, flight>>
    BY <1>2 DEF RtrBarrierReturn, mpi, memory
  <1>4. /\ Sync' /\ Final' /\ pc'[i] = label /\ pc' \in [Ranks -> Labels]
        /\ \A j \in Ranks : j # i => pc'[j] = pc[j]
    BY <1>2, <1>3, SyncStay DEF Labels
  <1>5. idx' \in [Ranks -> Nat] /\ idx'[i] = 1 /\ \A j \in Ranks : j # i => idx'[j] = idx[j]
    BY <1>1, <1>3 DEF TypeOK
  <1>6. TypeOK'
    BY <1>1, <1>3, <1>4, <1>5 DEF TypeOK, Labels
  <1>7. OthersSame(i)
    BY <1>3, <1>4, <1>5 DEF OthersSame
  <1>8. Phase(i)' /\ Exchanged(i)' /\ Memory(i)'
    BY <1>1, <1>2, <1>3, <1>4 DEF Phase, Exchanged, Memory, HasWindow, InInit
  <1>9. Tables(i)'
    <2>1. Clients(i)'
      BY <1>1, <1>3 DEF Tables, Clients
    <2> QED
      BY <1>1, <1>2, <1>3, <1>4, <1>5, <2>1 DEF Tables
  <1>10. Messages'
    BY <1>3, <1>7, MessagesKeep
  <1> QED
    BY <1>4, <1>6, <1>7, <1>8, <1>9, <1>10, RankStep

\* What the exchange of mp_init gives to rank i: the queue pair that each of its
\* peers created for it.
LEMMA Received ==
    ASSUME Base, NEW i \in Ranks, pc[i] = "alltoall", EveryoneIn(i)
    PROVE  /\ \A j \in Ranks : sent[j] \in [Ranks -> Qpns \union {None}]
           /\ \A k \in 1..Count(i) : Right(i, k, sent[Peers[i][k]][i])
  <1>1. ASSUME NEW j \in Ranks
        PROVE  /\ sent[j] \in [Ranks -> Qpns \union {None}]
               /\ \A k \in 1..Count(j) : sent[j][Peers[j][k]] = <<j, k>>
    <2>1. called[i] = 1 /\ called[j] \in Nat /\ called[j] >= called[i] /\ called[j] <= called[i] + 1
      BY DEF Base, Inv, Phase, TypeOK, EveryoneIn, Sync
    <2>2. called[j] \in 1..3
      BY <2>1
    <2> QED
      BY <2>2 DEF Base, Inv, Exchanged
  <1>2. ASSUME NEW k \in 1..Count(i) PROVE Right(i, k, sent[Peers[i][k]][i])
    <2>1. PICK j \in Ranks : j = Peers[i][k]
      BY PeerFacts
    <2>2. PICK n \in 1..Count(j) : Peers[j][n] = i
      <3>1. \E n \in 1..Count(Peers[i][k]) : Peers[Peers[i][k]][n] = i
        BY PeerFacts
      <3> QED
        BY <2>1, <3>1
    <2>3. sent[j][i] = <<j, n>>
      BY <1>1, <2>2
    <2>4. n \in Nat /\ n \in DOMAIN Peers[j]
      BY <2>2, PeerFacts
    <2> QED
      BY <2>1, <2>2, <2>3, <2>4 DEF Right, Qpns
  <1> QED
    BY <1>1, <1>2

LEMMA BaseAlltoallReturn == ASSUME Base, NEW i \in Ranks, AlltoallReturn(i) PROVE Base'
  <1>1. TypeOK /\ Phase(i) /\ Tables(i) /\ Exchanged(i) /\ Memory(i)
    BY DEF Base, Inv
  <1>2. PICK label \in Labels : label = "rtr"
    BY DEF Labels, InInit
  <1>3. /\ pc[i] = "alltoall" /\ EveryoneIn(i) /\ Goto(i, label) /\ idx' = [idx EXCEPT ![i] = 1]
        /\ qpinfo' = [qpinfo EXCEPT ![i] = [j \in Ranks |-> sent[j][i]]]
        /\ UNCHANGED <<mp_enable_ud, clients, client_index, called, colls, sent, mrs, keys, window, flight>>
    BY <1>2 DEF AlltoallReturn, mpi, memory
  <1>4. /\ Sync' /\ Final' /\ pc'[i] = label /\ pc' \in [Ranks -> Labels]
        /\ \A j \in Ranks : j # i => pc'[j] = pc[j]
    BY <1>2, <1>3, SyncStay DEF Labels
  <1>5. idx' \in [Ranks -> Nat] /\ idx'[i] = 1 /\ \A j \in Ranks : j # i => idx'[j] = idx[j]
    BY <1>1, <1>3 DEF TypeOK
  <1>6. /\ \A j \in Ranks : sent[j] \in [Ranks -> Qpns \union {None}]
        /\ \A k \in 1..Count(i) : Right(i, k, sent[Peers[i][k]][i])
    BY <1>3, Received
  <1>7. /\ qpinfo' \in [Ranks -> [Ranks -> Qpns \union {None}]]
        /\ qpinfo'[i] = [j \in Ranks |-> sent[j][i]]
        /\ \A j \in Ranks : j # i => qpinfo'[j] = qpinfo[j]
    <2>1. [j \in Ranks |-> sent[j][i]] \in [Ranks -> Qpns \union {None}]
      BY <1>6
    <2> QED
      BY <1>1, <1>3, <2>1 DEF TypeOK
  <1>8. TypeOK'
    BY <1>1, <1>3, <1>4, <1>5, <1>7 DEF TypeOK, Labels
  <1>9. OthersSame(i)
    BY <1>3, <1>4, <1>5, <1>7 DEF OthersSame
  <1>10. Phase(i)' /\ Exchanged(i)' /\ Memory(i)'
    BY <1>1, <1>2, <1>3, <1>4 DEF Phase, Exchanged, Memory, HasWindow, InInit
  <1>11. Tables(i)'
    <2>1. Clients(i)'
      BY <1>1, <1>3 DEF Tables, Clients
    <2>2. \A k \in 1..Count(i) : Right(i, k, qpinfo'[i][Peers[i][k]])
      BY <1>6, <1>7, PeerFacts
    <2>3. \A k \in 1..Count(i) : ~(k < idx'[i])
      BY <1>5
    <2> QED
      BY <1>2, <1>4, <1>5, <2>1, <2>2, <2>3 DEF Tables
  <1>12. Messages'
    BY <1>3, <1>9, MessagesKeep
  <1> QED
    BY <1>4, <1>8, <1>9, <1>10, <1>11, <1>12, RankStep

-----------------------------------------------------------------------------
(* Windows and mp_finalize *)

LEMMA BaseWindowCreate == ASSUME Base, NEW i \in Ranks, mp_window_create(i) PROVE Base'
  <1>1. TypeOK
    BY DEF Base
  <1>2. PICK coll \in Collectives, label \in Waiting : coll = "MPI_Allgather" /\ label = "allgather"
    BY DEF Collectives, Waiting
  <1>3. /\ pc[i] = "up" /\ window[i] = None /\ ~HasWindow(i)
        /\ UNCHANGED <<mp_enable_ud, connection, window, flight>>
    BY DEF mp_window_create, HasWindow
  <1>4. CASE "register" \in Faults /\ Goto(i, "exited") /\ UNCHANGED <<mrs, keys, mpi>>
    BY <1>3, <1>4, BaseGiveUp DEF Gone, memory
  <1>5. CASE /\ mp_register(i) /\ sent' = [sent EXCEPT ![i] = Key(i, keys[i] + 1)]
             /\ Enter(i, coll) /\ Goto(i, label)
    <2>1. PICK key \in Qpns : key = Key(i, keys[i] + 1)
      <3>1. keys[i] + 1 \in Nat
        BY <1>1 DEF TypeOK
      <3> QED
        BY <3>1 DEF Key, Qpns
    <2>2. /\ sent'[i] = key /\ DOMAIN sent' = Ranks /\ \A j \in Ranks : j # i => sent'[j] = sent[j]
      BY <1>1, <1>5, <2>1 DEF TypeOK
    <2>3. /\ mrs'[i] = mrs[i] \union {key} /\ mrs' \in [Ranks -> SUBSET Qpns]
          /\ \A j \in Ranks : j # i => mrs'[j] = mrs[j]
      BY <1>1, <1>5, <2>1 DEF TypeOK, mp_register
    <2>4. /\ keys'[i] = keys[i] + 1 /\ keys' \in [Ranks -> Nat] /\ keys[i] \in Nat
          /\ \A j \in Ranks : j # i => keys'[j] = keys[j]
      BY <1>1, <1>5 DEF TypeOK, mp_register
    <2>5. Joins(i, coll, label)
      <3>1. label \in Sending /\ ~(pc[i] = "up" /\ HasWindow(i)) /\ pc[i] \notin Waiting
        BY <1>2, <1>3 DEF Sending, Waiting
      <3>2. DOMAIN window' = Ranks /\ window'[i] = None
        BY <1>1, <1>3 DEF TypeOK
      <3> QED
        BY <1>2, <1>3, <1>5, <2>2, <2>3, <2>4, <3>1, <3>2 DEF Joins
    <2>6. /\ pc'[i] = "allgather" /\ called'[i] = called[i] + 1 /\ Phase(i)
      BY <1>2, <2>5, JoinPc
    <2>7. called[i] = 3 * keys[i] + 3
      BY <1>3, <2>6 DEF Phase
    <2>8. called'[i] = 3 * keys'[i] + 1 /\ keys'[i] >= 1 /\ window'[i] = None
      BY <1>3, <2>4, <2>6, <2>7
    <2>9. Phase(i)'
      BY <2>6, <2>8 DEF Phase, HasWindow, InInit
    <2>10. Memory(i)' /\ Exchanged(i)'
      <3>1. called'[i] \notin 1..3
        BY <2>4, <2>6, <2>7
      <3> QED
        BY <2>1, <2>2, <2>3, <2>4, <2>8, <3>1 DEF Memory, Exchanged, HasWindow
    <2>11. Tables(i)'
      BY <1>2, <1>3, <2>4, <2>5, <2>7, UpTables DEF InInit
    <2> QED
      BY <2>5, <2>9, <2>10, <2>11, JoinStep
  <1> QED
    BY <1>2, <1>4, <1>5 DEF mp_window_create

\* Where the ranks are when one has all the keys.
LEMMA TwoApart ==
    ASSUME NEW a \in Nat, NEW b \in Nat, NEW n \in Nat, 3 * a + 1 <= n, n <= 3 * a + 2
    PROVE  /\ n # 3 * b + 3 /\ (n = 3 * b + 1 \/ n = 3 * b + 2 => a = b)
           /\ n = 3 * b + 4 => n = 3 * a + 1
  <1>1. n # 3 * b + 3
    OBVIOUS
  <1>2. n = 3 * b + 1 => a = b
    OBVIOUS
  <1>3. n = 3 * b + 2 => a = b
    OBVIOUS
  <1>4. n = 3 * b + 4 => n = 3 * a + 1
    OBVIOUS
  <1> QED
    BY <1>1, <1>2, <1>3, <1>4

LEMMA Gathered ==
    ASSUME Base, NEW i \in Ranks, pc[i] = "allgather", EveryoneIn(i), NEW j \in Ranks
    PROVE  sent[j] = Key(j, keys[i])
  <1>1. called[i] \in Nat /\ called[j] \in Nat /\ keys[i] \in Nat /\ keys[j] \in Nat
    BY DEF Base, TypeOK
  <1>2. called[i] = 3 * keys[i] + 1 /\ keys[i] >= 1
    BY DEF Base, Inv, Phase
  <1>3. called[i] <= called[j] /\ called[j] <= called[i] + 1
    BY <1>1 DEF Base, Inv, Sync, EveryoneIn
  <1>4. Phase(j) /\ Exchanged(j) /\ pc[j] \in InInit \union Returned \union Gone
    BY DEF Base, Inv, TypeOK
  <1>5. 3 * keys[i] + 1 <= called[j] /\ called[j] <= 3 * keys[i] + 2 /\ called[j] > 3
    BY <1>1, <1>2, <1>3
  <1>6. /\ called[j] # 3 * keys[j] + 3
        /\ called[j] = 3 * keys[j] + 1 \/ called[j] = 3 * keys[j] + 2 => keys[i] = keys[j]
        /\ called[j] = 3 * keys[j] + 4 => called[j] = called[i]
    <2>1. PICK a \in Nat : a = keys[i]
      BY <1>1
    <2>2. PICK b \in Nat : b = keys[j]
      BY <1>1
    <2>3. PICK n \in Nat : n = called[j]
      BY <1>1
    <2>4. 3 * a + 1 <= n /\ n <= 3 * a + 2
      BY <1>5, <2>1, <2>3
    <2>5. /\ n # 3 * b + 3 /\ (n = 3 * b + 1 \/ n = 3 * b + 2 => a = b)
          /\ n = 3 * b + 4 => n = 3 * a + 1
      BY <2>4, TwoApart
    <2> QED
      BY <1>2, <2>1, <2>2, <2>3, <2>5
  <1>7. keys[i] = keys[j]
    <2>1. CASE pc[j] \in InInit \union Gone
      <3>1. pc[j] \in {"start", "create", "alltoall", "rtr"} => called[j] \in {0, 1}
        BY <1>4 DEF Phase
      <3>2. pc[j] \in {"rtr_barrier", "rts", "rts_barrier"} => called[j] \in {2, 3}
        BY <1>4 DEF Phase
      <3>3. pc[j] = "failed" => called[j] <= 2
        BY <1>4 DEF Phase
      <3>4. pc[j] = "exited" => called[j] = 3 * keys[j] + 3 \/ called[j] \in {0, 2}
        BY <1>4 DEF Phase
      <3> QED
        BY <1>1, <1>5, <1>6, <2>1, <3>1, <3>2, <3>3, <3>4 DEF InInit, Gone
    <2>2. CASE pc[j] \in {"up", "allgather", "window_barrier", "app_barrier"}
      BY <1>4, <1>6, <2>2 DEF Phase
    <2>3. CASE pc[j] \in {"finalize", "down"}
      <3>1. called[j] = 3 * keys[j] + 4
        BY <1>4, <1>6, <2>3 DEF Phase
      <3>2. called[j] = called[i]
        BY <1>6, <3>1
      <3>3. called[j] >= 1 /\ colls[called[j]] = "mp_finalize"
        BY <2>3 DEF Base, Inv, Final
      <3>4. called[i] \in 1..called[i] /\ colls[called[i]] = "mp_finalize"
        BY <1>1, <3>2, <3>3
      <3>5. pc[i] \in {"finalize", "down"}
        BY <3>4 DEF Base, Inv, Final
      <3> QED
        BY <3>5
    <2> QED
      BY <1>4, <2>1, <2>2, <2>3 DEF Returned
  <1> QED
    BY <1>2, <1>4, <1>7 DEF Exchanged

LEMMA BaseAllgatherReturn == ASSUME Base, NEW i \in Ranks, AllgatherReturn(i) PROVE Base'
  <1>1. TypeOK
    BY DEF Base
  <1>2. PICK coll \in Collectives, label \in Waiting : coll = "MPI_Barrier" /\ label = "window_barrier"
    BY DEF Collectives, Waiting
  <1>3. /\ pc[i] = "allgather" /\ EveryoneIn(i) /\ Enter(i, coll) /\ Goto(i, label)
        /\ window' = [window EXCEPT ![i] = [k \in DOMAIN clients[i] |-> sent[clients[i][k].rank]]]
        /\ UNCHANGED <<mp_enable_ud, connection, sent, mrs, keys, flight>>
    BY <1>2 DEF AllgatherReturn
  <1>4. Phase(i) /\ Tables(i) /\ Memory(i) /\ Exchanged(i) /\ keys[i] \in Nat /\ called[i] \in Nat
    BY <1>1 DEF Base, Inv, TypeOK
  <1>5. called[i] = 3 * keys[i] + 1 /\ keys[i] >= 1 /\ called[i] >= 3
    BY <1>3, <1>4 DEF Phase
  <1>6. DOMAIN clients[i] = 1..Count(i) /\ \A k \in 1..Count(i) : clients[i][k].rank = Peers[i][k]
    <2>1. Clients(i) /\ DOMAIN clients[i] = 1..Count(i) /\ Len(clients[i]) = Count(i)
      BY <1>3, <1>4, <1>5, Connected DEF Tables
    <2> QED
      BY <2>1 DEF Clients
  <1>7. /\ window'[i] = [k \in 1..Count(i) |-> Key(Peers[i][k], keys[i])]
        /\ DOMAIN window' = Ranks /\ \A j \in Ranks : j # i => window'[j] = window[j]
    <2>1. ASSUME NEW k \in 1..Count(i) PROVE sent[clients[i][k].rank] = Key(Peers[i][k], keys[i])
      BY <1>3, <1>6, PeerFacts, Gathered
    <2>2. /\ window'[i] = [k \in DOMAIN clients[i] |-> sent[clients[i][k].rank]]
          /\ DOMAIN window' = Ranks /\ \A j \in Ranks : j # i => window'[j] = window[j]
      BY <1>1, <1>3 DEF TypeOK
    <2> QED
      BY <1>6, <2>1, <2>2
  <1>8. window'[i] \in [1..Count(i) -> Qpns] /\ window'[i] # None
    <2>1. \A k \in 1..Count(i) : Key(Peers[i][k], keys[i]) \in Qpns
      BY <1>4, PeerFacts DEF Key, Qpns
    <2>2. window'[i] \in [1..Count(i) -> Qpns]
      BY <1>7, <2>1
    <2> QED
      BY <2>2 DEF Qpns, Count
  <1>9. Joins(i, coll, label)
    <2>1. label \in Sending /\ ~(pc[i] = "up" /\ HasWindow(i))
      BY <1>2, <1>3 DEF Sending
    <2>2. /\ DOMAIN sent' = Ranks /\ mrs' \in [Ranks -> SUBSET Qpns] /\ keys' \in [Ranks -> Nat]
          /\ UNCHANGED <<sent, mrs, keys>>
      BY <1>1, <1>3 DEF TypeOK
    <2> QED
      BY <1>2, <1>3, <1>7, <1>8, <2>1, <2>2 DEF Joins
  <1>10. pc'[i] = "window_barrier" /\ called'[i] = 3 * keys[i] + 2 /\ keys'[i] = keys[i]
    <2>1. pc'[i] = "window_barrier" /\ called'[i] = called[i] + 1
      BY <1>2, <1>9, JoinPc
    <2> QED
      BY <1>3, <1>4, <1>5, <2>1
  <1>11. Phase(i)'
    BY <1>4, <1>5, <1>8, <1>10 DEF Phase, HasWindow, InInit
  <1>12. Memory(i)'
    <2>1. Key(i, keys[i]) \in mrs[i]
      BY <1>3, <1>4 DEF Memory
    <2> QED
      BY <1>3, <1>7, <1>10, <2>1 DEF Memory
  <1>13. Exchanged(i)'
    <2>1. called'[i] \notin 1..3 /\ sent'[i] = sent[i]
      BY <1>3, <1>4, <1>5, <1>10
    <2> QED
      BY <1>4, <1>10, <2>1 DEF Exchanged
  <1>14. Tables(i)'
    BY <1>2, <1>3, <1>5, <1>9, UpTables DEF InInit
  <1> QED
    BY <1>9, <1>11, <1>12, <1>13, <1>14, JoinStep

LEMMA BaseWindowDestroy == ASSUME Base, NEW i \in Ranks, mp_window_destroy(i) PROVE Base'
  <1>1. TypeOK /\ Phase(i) /\ Tables(i) /\ Exchanged(i) /\ Memory(i)
    BY DEF Base, Inv
  <1>2. PICK label \in Labels : label = "up"
    BY DEF Labels, Returned
  <1>3. /\ pc[i] = "app_barrier" /\ EveryoneIn(i) /\ Goto(i, label)
        /\ mrs' = [mrs EXCEPT ![i] = @ \ {Key(i, keys[i])}]
        /\ window' = [window EXCEPT ![i] = None]
        /\ UNCHANGED <<mp_enable_ud, idx, clients, client_index, qpinfo, called, colls, sent, keys, flight>>
    BY <1>2 DEF mp_window_destroy, mp_deregister, mpi, connection
  <1>4. /\ Sync' /\ Final' /\ pc'[i] = label /\ pc' \in [Ranks -> Labels]
        /\ \A j \in Ranks : j # i => pc'[j] = pc[j]
    BY <1>2, <1>3, SyncStay DEF Labels
  <1>5. /\ mrs' \in [Ranks -> SUBSET Qpns] /\ \A j \in Ranks : j # i => mrs'[j] = mrs[j]
        /\ DOMAIN window' = Ranks /\ window'[i] = None
        /\ \A j \in Ranks : j # i => window'[j] = window[j]
    BY <1>1, <1>3 DEF TypeOK
  <1>6. TypeOK'
    <2>1. \A j \in Ranks : window'[j] = None \/ window'[j] \in [1..Count(j) -> Qpns]
      BY <1>1, <1>5 DEF TypeOK
    <2> QED
      BY <1>1, <1>3, <1>4, <1>5, <2>1 DEF TypeOK, Labels
  <1>7. OthersSame(i)
    BY <1>3, <1>4, <1>5 DEF OthersSame
  <1>8. Phase(i)'
    BY <1>1, <1>2, <1>3, <1>4, <1>5 DEF Phase, HasWindow, InInit
  <1>9. Exchanged(i)' /\ Memory(i)'
    BY <1>1, <1>2, <1>3, <1>4, <1>5 DEF Exchanged, Memory, HasWindow
  <1>10. Tables(i)'
    <2>1. Clients(i)'
      BY <1>1, <1>3 DEF Tables, Clients
    <2> QED
      BY <1>2, <1>4, <2>1 DEF Tables
  <1>11. Messages'
    BY <1>3, <1>7, MessagesKeep
  <1> QED
    BY <1>4, <1>6, <1>7, <1>8, <1>9, <1>10, <1>11, RankStep

LEMMA BaseFinalizeReturn == ASSUME Base, NEW i \in Ranks, FinalizeReturn(i) PROVE Base'
  <1>1. TypeOK /\ Phase(i) /\ Tables(i) /\ Exchanged(i) /\ Memory(i)
    BY DEF Base, Inv
  <1>2. PICK label \in Labels : label = "down"
    BY DEF Labels, Returned
  <1>3. /\ pc[i] = "finalize" /\ EveryoneIn(i) /\ Goto(i, label)
        /\ clients' = [clients EXCEPT ![i] = <<>>]
        /\ client_index' = [client_index EXCEPT ![i] = [j \in Ranks |-> None]]
        /\ UNCHANGED <<mp_enable_ud, idx, qpinfo, called, colls, sent, mrs, keys, window, flight>>
    BY <1>2 DEF FinalizeReturn, mpi, memory
  <1>4. /\ Sync' /\ Final' /\ pc'[i] = label /\ pc' \in [Ranks -> Labels]
        /\ \A j \in Ranks : j # i => pc'[j] = pc[j]
    BY <1>2, <1>3, SyncStay DEF Labels
  <1>5. /\ clients' \in [Ranks -> Seq(Client)] /\ clients'[i] = <<>>
        /\ client_index' \in [Ranks -> [Ranks -> Nat \union {None}]]
        /\ \A j \in Ranks : j # i => clients'[j] = clients[j] /\ client_index'[j] = client_index[j]
    BY <1>1, <1>3 DEF TypeOK
  <1>6. TypeOK'
    BY <1>1, <1>3, <1>4, <1>5 DEF TypeOK, Labels
  <1>7. OthersSame(i)
    BY <1>3, <1>4, <1>5 DEF OthersSame
  <1>8. Phase(i)'
    BY <1>1, <1>2, <1>3, <1>4 DEF Phase, HasWindow, InInit
  <1>9. Exchanged(i)' /\ Memory(i)'
    BY <1>1, <1>2, <1>3, <1>4 DEF Exchanged, Memory, HasWindow
  <1>10. Tables(i)'
    BY <1>2, <1>4, <1>5 DEF Tables
  <1>11. Messages'
    BY <1>3, <1>7, MessagesKeep
  <1> QED
    BY <1>4, <1>6, <1>7, <1>8, <1>9, <1>10, <1>11, RankStep

-----------------------------------------------------------------------------
(* Messages *)

\* A step that changes nothing but the messages.
LEMMA FlightStep ==
    ASSUME Base, UNCHANGED <<mp_enable_ud, pc, connection, mpi, memory>>,
           flight' \subseteq [src : Qpns, dst : Qpns \union {None}, key : Qpns \union {None}],
           \A m \in flight' : MessageOK(m)
    PROVE  Base'
  <1>1. UNCHANGED <<mp_enable_ud, pc, idx, clients, client_index, qpinfo, called, colls, sent, mrs, keys, window>>
    BY DEF connection, mpi, memory
  <1>2. TypeOK'
    BY <1>1 DEF Base, TypeOK
  <1>3. ASSUME NEW i \in Ranks PROVE (Phase(i) /\ Tables(i) /\ Exchanged(i) /\ Memory(i))'
    <2>1. Phase(i) /\ Tables(i) /\ Exchanged(i) /\ Memory(i)
      BY DEF Base, Inv
    <2>2. Phase(i)' /\ Exchanged(i)' /\ Memory(i)'
      BY <1>1, <2>1 DEF Phase, Exchanged, Memory, HasWindow
    <2>3. Clients(i) => Clients(i)'
      BY <1>1 DEF Clients
    <2>4. Tables(i)'
      BY <1>1, <2>1, <2>3 DEF Tables
    <2> QED
      BY <2>2, <2>4
  <1>4. Sync'
    BY <1>1 DEF Base, Inv, Sync
  <1>5. Final'
    BY <1>1 DEF Base, Inv, Final
  <1>6. Messages'
    <2> SUFFICES ASSUME NEW m \in flight' PROVE MessageOK(m)'
      BY DEF Messages
    <2>1. MessageOK(m)
      OBVIOUS
    <2> QED
      BY <1>1, <2>1 DEF MessageOK, HasWindow
  <1> QED
    BY <1>2, <1>3, <1>4, <1>5, <1>6 DEF Base, Inv

\* What rank i sends to rank j goes to the queue pair rank j keeps for it.
LEMMA Sends ==
    ASSUME Base, NEW i \in Ranks, NEW j \in Ranks, pc[i] = "up", client_index[i][j] # None
    PROVE  LET k == client_index[i][j]
               q == clients[i][k]
           IN  /\ k \in 1..Count(i) /\ q.qpn = <<i, k>> /\ Right(i, k, q.dest)
               /\ q.qpn \in Qpns /\ q.dest \in Qpns /\ called[i] >= 3
  <1>1. Phase(i) /\ Tables(i) /\ keys[i] \in Nat /\ called[i] \in Nat /\ Count(i) \in Nat
    BY PeerFacts DEF Base, Inv, TypeOK
  <1>2. Clients(i) /\ called[i] >= 3
    BY <1>1 DEF Tables, Phase
  <1>3. Len(clients[i]) = Count(i) /\ \A k \in 1..Count(i) : Right(i, k, clients[i][k].dest)
    BY <1>2, Connected
  <1>4. PICK k \in Nat : k = client_index[i][j] /\ k \in 1..Count(i)
    BY <1>2, <1>3 DEF Clients
  <1>5. clients[i][k].qpn = <<i, k>> /\ Right(i, k, clients[i][k].dest)
    BY <1>2, <1>3, <1>4 DEF Clients
  <1>6. clients[i][k].dest \in Qpns /\ <<i, k>> \in Qpns
    BY <1>4, <1>5, PeerFacts DEF Right, Qpns
  <1> QED
    BY <1>2, <1>4, <1>5, <1>6

LEMMA BaseIsend == ASSUME Base, NEW i \in Ranks, NEW j \in Ranks, mp_isend(i, j) PROVE Base'
  <1>1. PICK k, q : k = client_index[i][j] /\ q = clients[i][k]
    OBVIOUS
  <1>2. /\ pc[i] = "up" /\ k # None /\ flight' = flight \union {Message(q, None)}
        /\ UNCHANGED <<mp_enable_ud, pc, connection, mpi, memory>>
    BY <1>1 DEF mp_isend
  <1>3. /\ k \in 1..Count(i) /\ q.qpn = <<i, k>> /\ Right(i, k, q.dest)
        /\ q.qpn \in Qpns /\ q.dest \in Qpns /\ called[i] >= 3
    BY <1>1, <1>2, Sends
  <1>4. MessageOK(Message(q, None))
    BY <1>2, <1>3 DEF MessageOK, Message
  <1>5. flight' \subseteq [src : Qpns, dst : Qpns \union {None}, key : Qpns \union {None}]
    <2>1. flight \subseteq [src : Qpns, dst : Qpns \union {None}, key : Qpns \union {None}]
      BY DEF Base, TypeOK
    <2>2. Message(q, None) \in [src : Qpns, dst : Qpns \union {None}, key : Qpns \union {None}]
      BY <1>3 DEF Message
    <2> QED
      BY <1>2, <2>1, <2>2
  <1>6. \A m \in flight' : MessageOK(m)
    BY <1>2, <1>4 DEF Base, Inv, Messages
  <1> QED
    BY <1>2, <1>5, <1>6, FlightStep

LEMMA BaseIput == ASSUME Base, NEW i \in Ranks, NEW j \in Ranks, mp_iput(i, j) PROVE Base'
  <1>1. PICK k, q : k = client_index[i][j] /\ q = clients[i][k]
    OBVIOUS
  <1>2. /\ pc[i] = "up" /\ k # None /\ flight' = flight \union {Message(q, window[i][k])}
        /\ HasWindow(i) /\ UNCHANGED <<mp_enable_ud, pc, connection, mpi, memory>>
    BY <1>1 DEF mp_iput, HasWindow
  <1>3. /\ k \in 1..Count(i) /\ q.qpn = <<i, k>> /\ Right(i, k, q.dest)
        /\ q.qpn \in Qpns /\ q.dest \in Qpns /\ called[i] >= 3
    BY <1>1, <1>2, Sends
  <1>4. PICK key \in Qpns : key = window[i][k] /\ key = Key(Peers[i][k], keys[i])
    <2>1. window[i] = [n \in 1..Count(i) |-> Key(Peers[i][n], keys[i])]
      BY <1>2 DEF Base, Inv, Memory
    <2>2. window[i] \in [1..Count(i) -> Qpns]
      BY <1>2 DEF Base, TypeOK, HasWindow
    <2> QED
      BY <1>3, <2>1, <2>2
  <1>5. MessageOK(Message(q, key))
    BY <1>2, <1>3, <1>4 DEF MessageOK, Message
  <1>6. flight' \subseteq [src : Qpns, dst : Qpns \union {None}, key : Qpns \union {None}]
    <2>1. flight \subseteq [src : Qpns, dst : Qpns \union {None}, key : Qpns \union {None}]
      BY DEF Base, TypeOK
    <2>2. Message(q, key) \in [src : Qpns, dst : Qpns \union {None}, key : Qpns \union {None}]
      BY <1>3 DEF Message
    <2> QED
      BY <1>2, <1>4, <2>1, <2>2
  <1>7. \A m \in flight' : MessageOK(m)
    BY <1>2, <1>4, <1>5 DEF Base, Inv, Messages
  <1> QED
    BY <1>2, <1>6, <1>7, FlightStep

LEMMA BaseDeliver == ASSUME Base, NEW m \in flight, Deliver(m) PROVE Base'
  <1>1. flight' \subseteq flight /\ UNCHANGED <<mp_enable_ud, pc, connection, mpi, memory>>
    BY DEF Deliver
  <1> QED
    BY <1>1, FlightStep DEF Base, TypeOK, Inv, Messages

-----------------------------------------------------------------------------
(* The theorems *)

LEMMA BaseInit == ASSUME Init PROVE Base
  <1>1. TypeOK
    BY DEF Init, TypeOK, InInit
  <1>2. ASSUME NEW i \in Ranks PROVE Phase(i) /\ Tables(i) /\ Exchanged(i) /\ Memory(i)
    <2>1. /\ pc[i] = "start" /\ idx[i] = 1 /\ clients[i] = <<>> /\ called[i] = 0 /\ keys[i] = 0
          /\ window[i] = None /\ \A j \in Ranks : client_index[i][j] = None
      BY DEF Init
    <2>2. Phase(i) /\ Exchanged(i) /\ Memory(i)
      BY <2>1 DEF Phase, Exchanged, Memory, HasWindow
    <2>3. Clients(i)
      BY <2>1, PeerFacts DEF Clients
    <2>4. Tables(i)
      BY <2>1, <2>3 DEF Tables
    <2> QED
      BY <2>2, <2>4
  <1>3. Sync
    BY DEF Init, Sync
  <1>4. Final
    BY DEF Init, Final
  <1>5. Messages
    BY DEF Init, Messages
  <1> QED
    BY <1>1, <1>2, <1>3, <1>4, <1>5 DEF Base, Inv

LEMMA BaseStep == ASSUME Base, [Next]_vars PROVE Base'
  <1>1. ASSUME NEW i \in Ranks, InitStep(i) PROVE Base'
    BY <1>1, BaseInitCall, BaseCreateQp, BaseAlltoall, BaseAlltoallReturn, BaseToRTR,
       BaseRtrBarrier, BaseRtrBarrierReturn, BaseToRTS, BaseRtsBarrier, BaseInitReturn
       DEF InitStep
  <1>2. ASSUME NEW i \in Ranks, WindowStep(i) PROVE Base'
    BY <1>2, BaseWindowCreate, BaseAllgatherReturn, BaseWindowBarrierReturn, BaseAppBarrier,
       BaseWindowDestroy DEF WindowStep
  <1>3. ASSUME NEW i \in Ranks, mp_finalize(i) \/ FinalizeReturn(i) PROVE Base'
    BY <1>3, BaseFinalize, BaseFinalizeReturn
  <1>4. ASSUME NEW i \in Ranks, NEW j \in Ranks, mp_isend(i, j) \/ mp_iput(i, j) PROVE Base'
    BY <1>4, BaseIsend, BaseIput
  <1>5. ASSUME NEW m \in flight, Deliver(m) PROVE Base'
    BY <1>5, BaseDeliver
  <1>6. CASE UNCHANGED vars
    <2>1. /\ UNCHANGED <<mp_enable_ud, pc, connection, mpi, memory>> /\ flight' = flight
      BY <1>6 DEF vars
    <2> QED
      BY <2>1, FlightStep DEF Base, TypeOK, Inv, Messages
  <1> QED
    BY <1>1, <1>2, <1>3, <1>4, <1>5, <1>6 DEF Next

\* The variables of every rank keep their types, and the number of collectives a
\* rank has entered says what mp_init and the windows have done so far.
THEOREM TypeCorrect == Spec => [](TypeOK /\ Inv)
  <1>1. Base => TypeOK /\ Inv
    BY DEF Base
  <1> QED
    BY <1>1, BaseInit, BaseStep, PTL DEF Spec

\* Every message finds its queue pair connected to the sender and able to receive,
\* and the memory its key names registered (mp.c, mp_init, mp_window_create,
\* mp_window_destroy, mp_finalize), however the ranks interleave and whatever fails.
THEOREM AlwaysDeliverable == Spec => []Deliverable
  BY BaseInit, BaseStep, InvDeliverable, PTL DEF Spec

\* The client index that client_index gives for a peer leads to that peer's queue
\* pair and window, whatever the order of the two peer lists.
THEOREM IndexLeadsToPeer == Spec => []LeadsToPeer
  BY BaseInit, BaseStep, InvLeadsToPeer, PTL DEF Spec

\* mp_init returns success at no rank before all queue pairs of all ranks are in
\* RTS: a failure anywhere keeps every rank in mp_init.
THEOREM ConnectsAllOrNothing == Spec => []AllOrNothing
  BY BaseInit, BaseStep, InvAllOrNothing, PTL DEF Spec
=============================================================================
