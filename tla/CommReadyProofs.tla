--------------------------- MODULE CommReadyProofs ---------------------------
(***************************************************************************)
(* Proofs about CommReady for any set of ranks: the types, and, as long as *)
(* the counters do not wrap, that every message finds its receive posted   *)
(* and that a cell of the ready table counts the readies executed.         *)
(***************************************************************************)
EXTENDS CommReady, SequenceFacts, FiniteSetTheorems

\* The counters stay below the width of the tables.
NoWrap == MaxMsgs < Modulus

(***************************************************************************)
(* The inductive invariant                                                 *)
(***************************************************************************)

\* The tables count the calls, and calls follow the contract.
Counters ==
    \A p \in Pairs :
        /\ remote_ready_values[p] = (readies[p] + 1) % Modulus
        /\ ready_values[p] = (waits[p] + 1) % Modulus
        /\ readies[p] <= recvs[p] /\ recvs[p] <= MaxMsgs
        /\ sends[p] <= waits[p] /\ waits[p] <= MaxMsgs
        /\ done[p] <= rung[p]

\* The readies of a queue q carry their values, which grow along the queue up to
\* r; those behind the d executed ones are not below the cell t they will be
\* written to.
ReadiesOf(q, t, r, d) ==
    /\ t <= r
    /\ \A k \in 1..Len(q) : q[k].kind = "ready" =>
          q[k].inline /\ q[k].value <= r /\ (k > d => t <= q[k].value)
    /\ \A k, l \in 1..Len(q) :
          k < l /\ q[k].kind = "ready" /\ q[l].kind = "ready" => q[k].value <= q[l].value
Readies == \A p \in Pairs : ReadiesOf(wqe[p], ready_table[Rev(p)], readies[p], done[p])

\* The messages of a queue are numbered up to s, and those of the g work requests
\* the HCA was shown have been announced in cell t.
MessagesOf(q, s, g, t) ==
    \A k \in 1..Len(q) : q[k].kind = "data" =>
        q[k].value \in 1..s /\ (k <= g => q[k].value <= t)
Messages == \A p \in Pairs : MessagesOf(wqe[p], sends[p], rung[p], ready_table[p])

\* A wait that was called is over, on the stream, or among the descriptors.
IssuedOf(p, w, t, seq, rdy) ==
    \A n \in 1..w : n <= t \/ HeldBySeq(p, n, seq) \/ HeldBySeq(p, n, rdy)
Issued == \A p \in Pairs :
    IssuedOf(p, waits[p], ready_table[p], stream[p[1]], dreqs[p[1]].ready)

\* Doorbells and waits belong to the rank that keeps them, and no doorbell is for
\* more than was posted; descriptors are separated by kind.
OwnOp(i, op, q) == op.pair[1] = i /\ (op.op = "ring" => op.value <= Len(q[op.pair]))
OwnSeq(i, seq, q) == \A x \in 1..Len(seq) : OwnOp(i, seq[x], q)
Own ==
    /\ \A p \in Pairs : rung[p] <= Len(wqe[p])
    /\ \A i \in Ranks :
          /\ OwnSeq(i, stream[i], wqe)
          /\ OwnSeq(i, dreqs[i].tx, wqe) /\ OwnSeq(i, dreqs[i].ready, wqe)
          /\ \A x \in 1..Len(dreqs[i].tx) : dreqs[i].tx[x].op = "ring"
          /\ \A x \in 1..Len(dreqs[i].ready) : dreqs[i].ready[x].op = "wait"

\* Where a doorbell stands on a stream, every message it shows to the HCA has
\* been announced or is waited for in front of it.
WaitBefore(p, n, seq, x) ==
    \E y \in 1..(x - 1) : seq[y].op = "wait" /\ seq[y].pair = p /\ seq[y].value = n
GuardOp(seq, x, q, g, t) ==
    LET p == seq[x].pair
    IN  \A l \in (g[p] + 1)..seq[x].value : q[p][l].kind = "data" =>
            q[p][l].value <= t[p] \/ WaitBefore(p, q[p][l].value, seq, x)
GuardSeq(seq, q, g, t) == \A x \in 1..Len(seq) : seq[x].op = "ring" => GuardOp(seq, x, q, g, t)
Guarded == \A i \in Ranks : GuardSeq(stream[i], wqe, rung, ready_table)

\* A message whose wait is still among the descriptors has its doorbell there too.
TogetherOf(p, q, g, d) ==
    \A l \in (g + 1)..Len(q) :
        q[l].kind = "data" /\ HeldBySeq(p, q[l].value, d.ready)
        => \E x \in 1..Len(d.tx) : d.tx[x].pair = p
Together == \A p \in Pairs : TogetherOf(p, wqe[p], rung[p], dreqs[p[1]])

\* What is needed of the queues for the type of the table.
Narrow ==
    \A p \in Pairs : \A k \in 1..Len(wqe[p]) :
        wqe[p][k].kind = "ready" => wqe[p][k].value \in 0..(Modulus - 1)

TInv == TypeOK /\ Narrow /\ Own
Inv  == Counters /\ Readies /\ Messages /\ Issued /\ Guarded /\ Together
IInv == TInv /\ Inv

USE ConstantsAssumption

-----------------------------------------------------------------------------
(* Type correctness *)

LEMMA ModRange ==
    ASSUME NEW n \in Nat
    PROVE  /\ n % Modulus \in 0..(Modulus - 1)
           /\ n < Modulus => n % Modulus = n
  OBVIOUS

LEMMA RevPair ==
    ASSUME NEW p \in Pairs
    PROVE  /\ Rev(p) \in Pairs /\ Rev(Rev(p)) = p
           /\ p[1] \in Ranks /\ p[2] \in Ranks
  BY DEF Pairs, Rev

LEMMA OpsAreOps ==
    ASSUME NEW p \in Pairs, NEW n \in Nat
    PROVE  RingOp(p, n) \in Op /\ WaitOp(p, n) \in Op
  BY DEF RingOp, WaitOp, Op

LEMMA ReadyType ==
    ASSUME TypeOK, NEW p \in Pairs
    PROVE  /\ Ready(remote_ready_values[p], TRUE) \in WorkRequest
           /\ Ready(remote_ready_values[p], TRUE).value \in 0..(Modulus - 1)
           /\ Data(sends[p] + 1) \in WorkRequest
           /\ Data(sends[p] + 1).kind = "data"
           /\ Data(sends[p] + 1).value = sends[p] + 1
           /\ Ready(remote_ready_values[p], TRUE).kind = "ready"
           /\ Ready(remote_ready_values[p], TRUE).value = remote_ready_values[p]
           /\ Ready(remote_ready_values[p], TRUE).inline
  BY DEF TypeOK, Ready, Data, WorkRequest

LEMMA AppendWqe ==
    ASSUME TInv, NEW p \in Pairs, NEW w \in WorkRequest,
           w.kind = "ready" => w.value \in 0..(Modulus - 1),
           wqe' = [wqe EXCEPT ![p] = Append(@, w)]
    PROVE  /\ wqe' \in [Pairs -> Seq(WorkRequest)] /\ Narrow'
           /\ \A q \in Pairs : Len(wqe'[q]) = IF q = p THEN Len(wqe[q]) + 1 ELSE Len(wqe[q])
           /\ \A q \in Pairs : \A k \in 1..Len(wqe[q]) : wqe'[q][k] = wqe[q][k]
           /\ wqe'[p][Len(wqe[p]) + 1] = w
  <1>1. wqe' \in [Pairs -> Seq(WorkRequest)] /\ wqe'[p] = Append(wqe[p], w)
    BY SeqAppend DEF TInv, TypeOK
  <1>2. \A q \in Pairs : q # p => wqe'[q] = wqe[q]
    BY DEF TInv, TypeOK
  <1>3. wqe[p] \in Seq(WorkRequest)
    BY DEF TInv, TypeOK
  <1>4. /\ \A q \in Pairs : Len(wqe'[q]) = IF q = p THEN Len(wqe[q]) + 1 ELSE Len(wqe[q])
        /\ \A q \in Pairs : \A k \in 1..Len(wqe[q]) : wqe'[q][k] = wqe[q][k]
        /\ wqe'[p][Len(wqe[p]) + 1] = w
    BY <1>1, <1>2, <1>3, SeqAppend
  <1>5. Narrow'
    <2> SUFFICES ASSUME NEW q \in Pairs, NEW k \in 1..Len(wqe'[q]), wqe'[q][k].kind = "ready"
                 PROVE  wqe'[q][k].value \in 0..(Modulus - 1)
      BY DEF Narrow
    <2>1. CASE q = p /\ k = Len(wqe[p]) + 1
      BY <2>1, <1>4
    <2>2. CASE ~(q = p /\ k = Len(wqe[p]) + 1)
      <3>1. Len(wqe[q]) \in Nat
        BY SeqElem DEF TInv, TypeOK
      <3>2. k \in 1..Len(wqe[q])
        BY <3>1, <2>2, <1>4
      <3> QED BY <3>2, <1>4 DEF TInv, Narrow
    <2> QED BY <2>1, <2>2
  <1> QED BY <1>1, <1>4, <1>5

\* The operations kept remain within the queues when a queue grows.
Longer(q, r) == \A p \in Pairs : Len(q[p]) \in Nat /\ Len(r[p]) \in Nat /\ Len(q[p]) <= Len(r[p])

LEMMA OwnGrows ==
    ASSUME NEW i \in Ranks, NEW seq \in Seq(Op), NEW q, NEW r, OwnSeq(i, seq, q), Longer(q, r)
    PROVE  OwnSeq(i, seq, r)
  <1> SUFFICES ASSUME NEW x \in 1..Len(seq)
               PROVE  OwnOp(i, seq[x], r)
    BY DEF OwnSeq
  <1>1. seq[x] \in Op
    BY SeqElem
  <1>2. seq[x].pair \in Pairs /\ seq[x].value \in Nat
    BY <1>1 DEF Op
  <1> QED BY <1>2 DEF OwnSeq, OwnOp, Longer

LEMMA OwnAppend ==
    ASSUME NEW i \in Ranks, NEW seq \in Seq(Op), NEW q, OwnSeq(i, seq, q),
           NEW op \in Op, OwnOp(i, op, q)
    PROVE  OwnSeq(i, Append(seq, op), q)
  <1> SUFFICES ASSUME NEW x \in 1..Len(Append(seq, op))
               PROVE  OwnOp(i, Append(seq, op)[x], q)
    BY DEF OwnSeq
  <1>1. Len(seq) \in Nat
    BY SeqElem
  <1>2. x \in 1..Len(seq) \/ x = Len(seq) + 1
    BY <1>1, SeqAppend
  <1> QED BY <1>2, SeqAppend DEF OwnSeq

LEMMA OwnConcat ==
    ASSUME NEW i \in Ranks, NEW s \in Seq(Op), NEW t \in Seq(Op), NEW q,
           OwnSeq(i, s, q), OwnSeq(i, t, q)
    PROVE  OwnSeq(i, s \o t, q)
  <1> SUFFICES ASSUME NEW x \in 1..Len(s \o t)
               PROVE  OwnOp(i, (s \o t)[x], q)
    BY DEF OwnSeq
  <1>1. Len(s) \in Nat /\ Len(t) \in Nat
    BY SeqElem
  <1>2. x \in 1..Len(s) \/ x \in (Len(s) + 1)..(Len(s) + Len(t))
    BY <1>1, SeqConcat
  <1> QED BY <1>2, SeqConcat DEF OwnSeq

LEMMA OwnTail ==
    ASSUME NEW i \in Ranks, NEW s \in Seq(Op), s # <<>>, NEW q, OwnSeq(i, s, q)
    PROVE  OwnSeq(i, Tail(s), q)
  BY SeqTail DEF OwnSeq

LEMMA LongerSame == ASSUME TypeOK PROVE Longer(wqe, wqe)
  BY SeqElem DEF Longer, TypeOK

LEMMA LongerAppend ==
    ASSUME TypeOK, NEW p \in Pairs, NEW w \in WorkRequest,
           wqe' = [wqe EXCEPT ![p] = Append(@, w)]
    PROVE  Longer(wqe, wqe') /\ Len(wqe'[p]) = Len(wqe[p]) + 1
  <1>1. \A q \in Pairs : Len(wqe[q]) \in Nat /\ wqe[q] \in Seq(WorkRequest)
    BY SeqElem DEF TypeOK
  <1>2. wqe'[p] = Append(wqe[p], w) /\ \A q \in Pairs : q # p => wqe'[q] = wqe[q]
    BY DEF TypeOK
  <1> QED BY <1>1, <1>2, SeqAppend DEF Longer

\* What the two kinds of posts and the engine leave well typed.
QueuesOK ==
    /\ wqe \in [Pairs -> Seq(WorkRequest)]
    /\ rung \in [Pairs -> Nat] /\ done \in [Pairs -> Nat]
    /\ stream \in [Ranks -> Seq(Op)]
    /\ dreqs \in [Ranks -> [ready : Seq(Op), tx : Seq(Op)]]
    /\ Narrow /\ Own

TablesOK ==
    /\ ready_table \in [Pairs -> 0..(Modulus - 1)]
    /\ ready_values \in [Pairs -> 0..(Modulus - 1)]
    /\ remote_ready_values \in [Pairs -> 0..(Modulus - 1)]
    /\ spinning \in [Ranks -> Ranks \union {NoRank}]
    /\ recvs \in [Pairs -> Nat] /\ readies \in [Pairs -> Nat]
    /\ waits \in [Pairs -> Nat] /\ sends \in [Pairs -> Nat]

LEMMA TInvParts == TInv <=> QueuesOK /\ TablesOK
  BY DEF TInv, TypeOK, QueuesOK, TablesOK

LEMMA Dreqs ==
    ASSUME TInv, NEW i \in Ranks
    PROVE  /\ stream[i] \in Seq(Op) /\ dreqs[i].ready \in Seq(Op) /\ dreqs[i].tx \in Seq(Op)
           /\ dreqs[i] \in [ready : Seq(Op), tx : Seq(Op)]
  BY DEF TInv, TypeOK

LEMMA OwnKept ==
    ASSUME TInv, Longer(wqe, wqe'), stream' = stream, dreqs' = dreqs,
           \A q \in Pairs : rung'[q] <= Len(wqe'[q])
    PROVE  Own'
  <1> SUFFICES ASSUME NEW i \in Ranks
               PROVE  /\ OwnSeq(i, stream[i], wqe')
                      /\ OwnSeq(i, dreqs[i].tx, wqe') /\ OwnSeq(i, dreqs[i].ready, wqe')
    BY DEF TInv, Own
  <1>1. /\ OwnSeq(i, stream[i], wqe)
        /\ OwnSeq(i, dreqs[i].tx, wqe) /\ OwnSeq(i, dreqs[i].ready, wqe)
    BY DEF TInv, Own
  <1> QED BY <1>1, Dreqs, OwnGrows

LEMMA RungWithin ==
    ASSUME TInv, Longer(wqe, wqe'), rung' = rung
    PROVE  \A q \in Pairs : rung'[q] <= Len(wqe'[q])
  BY DEF TInv, TypeOK, Own, Longer

LEMMA PostRungType ==
    ASSUME TInv, NEW p \in Pairs, NEW w \in WorkRequest,
           w.kind = "ready" => w.value \in 0..(Modulus - 1), PostRung(p, w)
    PROVE  QueuesOK'
  <1>1. wqe' \in [Pairs -> Seq(WorkRequest)] /\ Narrow'
    BY AppendWqe DEF PostRung
  <1>2. Longer(wqe, wqe') /\ Len(wqe'[p]) = Len(wqe[p]) + 1
    BY LongerAppend DEF TInv, PostRung
  <1>3. rung' \in [Pairs -> Nat]
    BY SeqElem DEF TInv, TypeOK, PostRung
  <1>4. \A q \in Pairs : rung'[q] <= Len(wqe'[q])
    BY <1>2 DEF TInv, TypeOK, Own, Longer, PostRung
  <1>5. Own'
    BY <1>2, <1>4, OwnKept DEF PostRung
  <1> QED BY <1>1, <1>3, <1>5 DEF QueuesOK, TInv, TypeOK, PostRung

LEMMA PostOnStreamType ==
    ASSUME TInv, NEW p \in Pairs, NEW w \in WorkRequest,
           w.kind = "ready" => w.value \in 0..(Modulus - 1), PostOnStream(p, w)
    PROVE  QueuesOK'
  <1> DEFINE op == RingOp(p, Len(wqe[p]) + 1)
  <1>1. wqe' \in [Pairs -> Seq(WorkRequest)] /\ Narrow'
    BY AppendWqe DEF PostOnStream
  <1>2. Longer(wqe, wqe') /\ Len(wqe'[p]) = Len(wqe[p]) + 1
    BY LongerAppend DEF TInv, PostOnStream
  <1>3. op \in Op /\ op.pair = p /\ op.value = Len(wqe[p]) + 1 /\ p[1] \in Ranks
    <2>1. Len(wqe[p]) + 1 \in Nat
      BY SeqElem DEF TInv, TypeOK
    <2>2. op \in Op
      BY <2>1, OpsAreOps
    <2> QED BY <2>2, RevPair DEF RingOp
  <1>4. OwnOp(p[1], op, wqe')
    <2>1. Len(wqe[p]) \in Nat
      BY SeqElem DEF TInv, TypeOK
    <2> HIDE DEF op
    <2> QED BY <1>2, <1>3, <2>1 DEF OwnOp
  <1> HIDE DEF op
  <1>5. stream' = [stream EXCEPT ![p[1]] = Append(@, op)] /\ dreqs' = dreqs
    BY DEF PostOnStream, op
  <1>6. stream' \in [Ranks -> Seq(Op)]
    BY SMTT(30), <1>3, <1>5, SeqAppend DEF TInv, TypeOK
  <1>7. ASSUME NEW i \in Ranks
        PROVE  /\ OwnSeq(i, stream'[i], wqe')
               /\ OwnSeq(i, dreqs[i].tx, wqe') /\ OwnSeq(i, dreqs[i].ready, wqe')
    <2>1. /\ OwnSeq(i, stream[i], wqe')
          /\ OwnSeq(i, dreqs[i].tx, wqe') /\ OwnSeq(i, dreqs[i].ready, wqe')
      BY <1>2, Dreqs, OwnGrows DEF TInv, Own
    <2>2. CASE i = p[1]
      <3>1. stream'[i] = Append(stream[i], op)
        BY <1>5, <2>2 DEF TInv, TypeOK
      <3> QED BY <3>1, <2>1, <2>2, <1>3, <1>4, OwnAppend, Dreqs
    <2>3. CASE i # p[1]
      BY <2>1, <2>3, <1>5 DEF TInv, TypeOK
    <2> QED BY <2>2, <2>3
  <1>8. Own'
    <2>1. \A q \in Pairs : rung'[q] <= Len(wqe'[q])
      BY <1>2, RungWithin DEF PostOnStream
    <2>2. /\ \A j \in Ranks : \A x \in 1..Len(dreqs[j].tx) : dreqs[j].tx[x].op = "ring"
          /\ \A j \in Ranks : \A x \in 1..Len(dreqs[j].ready) : dreqs[j].ready[x].op = "wait"
      BY DEF TInv, Own
    <2> QED BY <1>5, <1>7, <2>1, <2>2 DEF Own
  <1> QED BY <1>1, <1>6, <1>8, <1>5 DEF QueuesOK, TInv, TypeOK, PostOnStream

LEMMA AnnounceType ==
    ASSUME TInv, NEW p \in Pairs, Announce(p)
    PROVE  TablesOK'
  <1> DEFINE v == (remote_ready_values[p] + 1) % Modulus
  <1>1. remote_ready_values[p] + 1 \in Nat
    BY DEF TInv, TypeOK
  <1>2. v \in 0..(Modulus - 1)
    BY <1>1, ModRange
  <1>3. remote_ready_values' = [remote_ready_values EXCEPT ![p] = v]
    BY DEF Announce
  <1> HIDE DEF v
  <1>4. /\ readies' = [readies EXCEPT ![p] = @ + 1]
        /\ UNCHANGED <<ready_table, ready_values, recvs, waits, sends, spinning>>
    BY DEF Announce
  <1>5. remote_ready_values' \in [Pairs -> 0..(Modulus - 1)]
    <2>1. remote_ready_values \in [Pairs -> 0..(Modulus - 1)]
      BY DEF TInv, TypeOK
    <2> QED BY <1>2, <1>3, <2>1
  <1>6. readies' \in [Pairs -> Nat]
    BY <1>4 DEF TInv, TypeOK
  <1> QED BY <1>4, <1>5, <1>6 DEF TInv, TypeOK, TablesOK

LEMMA ExpectType ==
    ASSUME TInv, NEW p \in Pairs, Expect(p),
           spinning' \in [Ranks -> Ranks \union {NoRank}]
    PROVE  TablesOK'
  <1> DEFINE v == (ready_values[p] + 1) % Modulus
  <1>1. ready_values[p] + 1 \in Nat
    BY DEF TInv, TypeOK
  <1>2. v \in 0..(Modulus - 1)
    BY <1>1, ModRange
  <1>3. ready_values' = [ready_values EXCEPT ![p] = v]
    BY DEF Expect
  <1> HIDE DEF v
  <1>4. /\ waits' = [waits EXCEPT ![p] = @ + 1]
        /\ UNCHANGED <<ready_table, remote_ready_values, recvs, readies, sends>>
    BY DEF Expect
  <1>5. ready_values' \in [Pairs -> 0..(Modulus - 1)]
    <2>1. ready_values \in [Pairs -> 0..(Modulus - 1)]
      BY DEF TInv, TypeOK
    <2> QED BY <1>2, <1>3, <2>1
  <1>6. waits' \in [Pairs -> Nat]
    BY <1>4 DEF TInv, TypeOK
  <1> QED BY <1>4, <1>5, <1>6 DEF TInv, TypeOK, TablesOK

LEMMA GpuKeptType ==
    ASSUME TInv, UNCHANGED <<queue, gpu>>
    PROVE  QueuesOK'
  BY DEF TInv, TypeOK, QueuesOK, queue, gpu, Narrow, Own

\* One more operation on a stream, or among the descriptors of a rank.
LEMMA StreamAppendType ==
    ASSUME TInv, NEW i \in Ranks, NEW op \in Op, OwnOp(i, op, wqe), UNCHANGED <<queue, dreqs>>,
           stream' = [stream EXCEPT ![i] = Append(@, op)]
    PROVE  QueuesOK'
  <1>1. stream' \in [Ranks -> Seq(Op)]
    BY SeqAppend DEF TInv, TypeOK
  <1>2. \A j \in Ranks : OwnSeq(j, stream'[j], wqe)
    <2> TAKE j \in Ranks
    <2>1. OwnSeq(j, stream[j], wqe)
      BY DEF TInv, Own
    <2>2. CASE j = i
      <3>1. stream'[j] = Append(stream[j], op)
        BY <2>2 DEF TInv, TypeOK
      <3> QED BY <3>1, <2>1, <2>2, OwnAppend, Dreqs
    <2>3. CASE j # i
      BY <2>1, <2>3 DEF TInv, TypeOK
    <2> QED BY <2>2, <2>3
  <1> QED BY <1>1, <1>2 DEF TInv, TypeOK, QueuesOK, queue, Narrow, Own

LEMMA ReadyAppendType ==
    ASSUME TInv, NEW i \in Ranks, NEW op \in Op, op.op = "wait", OwnOp(i, op, wqe),
           UNCHANGED <<queue, stream>>,
           dreqs' = [dreqs EXCEPT ![i].ready = Append(@, op)]
    PROVE  QueuesOK'
  <1>1. dreqs' \in [Ranks -> [ready : Seq(Op), tx : Seq(Op)]]
    <2>1. Append(dreqs[i].ready, op) \in Seq(Op)
      BY Dreqs, SeqAppend
    <2> QED BY <2>1 DEF TInv, TypeOK
  <1>2. \A j \in Ranks :
           /\ OwnSeq(j, dreqs'[j].ready, wqe) /\ OwnSeq(j, dreqs'[j].tx, wqe)
           /\ \A x \in 1..Len(dreqs'[j].tx) : dreqs'[j].tx[x].op = "ring"
           /\ \A x \in 1..Len(dreqs'[j].ready) : dreqs'[j].ready[x].op = "wait"
    <2> TAKE j \in Ranks
    <2>1. /\ OwnSeq(j, dreqs[j].ready, wqe) /\ OwnSeq(j, dreqs[j].tx, wqe)
          /\ \A x \in 1..Len(dreqs[j].tx) : dreqs[j].tx[x].op = "ring"
          /\ \A x \in 1..Len(dreqs[j].ready) : dreqs[j].ready[x].op = "wait"
      BY DEF TInv, Own
    <2>2. CASE j = i
      <3>1. dreqs'[j].ready = Append(dreqs[j].ready, op) /\ dreqs'[j].tx = dreqs[j].tx
        BY <2>2 DEF TInv, TypeOK
      <3>2. OwnSeq(j, dreqs'[j].ready, wqe)
        BY <3>1, <2>1, <2>2, OwnAppend, Dreqs
      <3>3. ASSUME NEW x \in 1..Len(dreqs'[j].ready) PROVE dreqs'[j].ready[x].op = "wait"
        <4>1. dreqs[j].ready \in Seq(Op) /\ Len(dreqs[j].ready) \in Nat
          BY Dreqs, SeqElem
        <4>2. x \in 1..Len(dreqs[j].ready) \/ x = Len(dreqs[j].ready) + 1
          BY <4>1, <3>1, SeqAppend
        <4> QED BY <4>1, <4>2, <3>1, <2>1, SeqAppend
      <3> QED BY <3>1, <3>2, <3>3, <2>1
    <2>3. CASE j # i
      BY <2>1, <2>3 DEF TInv, TypeOK
    <2> QED BY <2>2, <2>3
  <1> QED BY SMTT(30), <1>1, <1>2 DEF TInv, TypeOK, QueuesOK, queue, Narrow, Own

LEMMA PrepareType ==
    ASSUME TInv, NEW p \in Pairs, comm_prepare_isend(p)
    PROVE  QueuesOK'
  <1> DEFINE w == Data(sends[p] + 1)
             op == RingOp(p, Len(wqe[p]) + 1)
             i == p[1]
  <1>0. w \in WorkRequest /\ w.kind = "data"
    BY ReadyType DEF TInv
  <1>1. wqe' = [wqe EXCEPT ![p] = Append(@, w)] /\ rung' = rung /\ done' = done /\ stream' = stream
        /\ dreqs' = [dreqs EXCEPT ![i].tx = Append(@, op)]
    BY DEF comm_prepare_isend
  <1> HIDE DEF w
  <1>2. wqe' \in [Pairs -> Seq(WorkRequest)] /\ Narrow'
    BY <1>0, <1>1, AppendWqe
  <1>3. Longer(wqe, wqe') /\ Len(wqe'[p]) = Len(wqe[p]) + 1
    BY <1>0, <1>1, LongerAppend DEF TInv
  <1>4. op \in Op /\ op.op = "ring" /\ op.pair = p /\ op.value = Len(wqe[p]) + 1 /\ i \in Ranks
    <2>1. Len(wqe[p]) + 1 \in Nat
      BY SeqElem DEF TInv, TypeOK
    <2>2. op \in Op
      BY <2>1, OpsAreOps
    <2> QED BY <2>2, RevPair DEF RingOp
  <1> HIDE DEF op
  <1>5. OwnOp(i, op, wqe')
    <2>1. Len(wqe[p]) \in Nat
      BY SeqElem DEF TInv, TypeOK
    <2> QED BY <1>3, <1>4, <2>1 DEF OwnOp
  <1> HIDE DEF i
  <1>6. dreqs' \in [Ranks -> [ready : Seq(Op), tx : Seq(Op)]]
    <2>1. Append(dreqs[i].tx, op) \in Seq(Op)
      BY <1>4, Dreqs, SeqAppend
    <2> QED BY <2>1, <1>1 DEF TInv, TypeOK
  <1>7. \A j \in Ranks :
           /\ OwnSeq(j, stream[j], wqe')
           /\ OwnSeq(j, dreqs'[j].ready, wqe') /\ OwnSeq(j, dreqs'[j].tx, wqe')
           /\ \A x \in 1..Len(dreqs'[j].tx) : dreqs'[j].tx[x].op = "ring"
           /\ \A x \in 1..Len(dreqs'[j].ready) : dreqs'[j].ready[x].op = "wait"
    <2> TAKE j \in Ranks
    <2>1. /\ OwnSeq(j, dreqs[j].ready, wqe) /\ OwnSeq(j, dreqs[j].tx, wqe)
          /\ OwnSeq(j, stream[j], wqe)
          /\ \A x \in 1..Len(dreqs[j].tx) : dreqs[j].tx[x].op = "ring"
          /\ \A x \in 1..Len(dreqs[j].ready) : dreqs[j].ready[x].op = "wait"
      BY DEF TInv, Own
    <2>0. /\ OwnSeq(j, dreqs[j].ready, wqe') /\ OwnSeq(j, dreqs[j].tx, wqe')
          /\ OwnSeq(j, stream[j], wqe')
      BY <2>1, <1>3, Dreqs, OwnGrows
    <2>2. CASE j = i
      <3>0. /\ dreqs \in [Ranks -> [ready : Seq(Op), tx : Seq(Op)]]
            /\ dreqs' = [dreqs EXCEPT ![i].tx = Append(@, op)]
        BY <1>1 DEF TInv, TypeOK
      <3>1. dreqs'[j].tx = Append(dreqs[j].tx, op) /\ dreqs'[j].ready = dreqs[j].ready
        BY <3>0, <2>2
      <3>2. OwnSeq(j, dreqs'[j].tx, wqe')
        BY <3>1, <2>0, <2>2, <1>4, <1>5, OwnAppend, Dreqs
      <3>3. ASSUME NEW x \in 1..Len(dreqs'[j].tx) PROVE dreqs'[j].tx[x].op = "ring"
        <4>1. dreqs[j].tx \in Seq(Op) /\ Len(dreqs[j].tx) \in Nat
          BY Dreqs, SeqElem
        <4>2. x \in 1..Len(dreqs[j].tx) \/ x = Len(dreqs[j].tx) + 1
          BY <4>1, <3>1, <1>4, SeqAppend
        <4> QED BY <4>1, <4>2, <3>1, <2>1, <1>4, SeqAppend
      <3> QED BY <3>1, <3>2, <3>3, <2>0, <2>1
    <2>3. CASE j # i
      <3>1. dreqs'[j] = dreqs[j]
        BY <1>1, <2>3 DEF TInv, TypeOK
      <3> QED BY <3>1, <2>0, <2>1
    <2> QED BY <2>2, <2>3
  <1>8. \A q \in Pairs : rung'[q] <= Len(wqe'[q])
    BY <1>1, <1>3, RungWithin
  <1> QED BY <1>1, <1>2, <1>6, <1>7, <1>8 DEF TInv, TypeOK, QueuesOK, Own

LEMMA LaunchType ==
    ASSUME TInv, NEW i \in Ranks, comm_prepared_requests(i)
    PROVE  QueuesOK'
  <1> DEFINE seq == stream[i] \o dreqs[i].ready \o dreqs[i].tx
  <1>0. /\ stream' = [stream EXCEPT ![i] = seq] /\ dreqs' = [dreqs EXCEPT ![i] = NoDreqs]
        /\ UNCHANGED <<wqe, rung, done>>
    BY DEF comm_prepared_requests, queue
  <1>1. /\ OwnSeq(i, stream[i], wqe) /\ OwnSeq(i, dreqs[i].ready, wqe)
        /\ OwnSeq(i, dreqs[i].tx, wqe)
    BY DEF TInv, Own
  <1>2. stream[i] \o dreqs[i].ready \in Seq(Op) /\ OwnSeq(i, stream[i] \o dreqs[i].ready, wqe)
    BY <1>1, Dreqs, SeqConcat, OwnConcat
  <1>3. seq \in Seq(Op) /\ OwnSeq(i, seq, wqe)
    BY <1>1, <1>2, Dreqs, SeqConcat, OwnConcat
  <1> HIDE DEF seq
  <1>4. /\ <<>> \in Seq(Op) /\ OwnSeq(i, <<>>, wqe)
        /\ NoDreqs.ready = <<>> /\ NoDreqs.tx = <<>> /\ NoDreqs \in [ready : Seq(Op), tx : Seq(Op)]
    BY DEF OwnSeq, NoDreqs
  <1>5. stream' \in [Ranks -> Seq(Op)] /\ dreqs' \in [Ranks -> [ready : Seq(Op), tx : Seq(Op)]]
    BY <1>0, <1>3, <1>4 DEF TInv, TypeOK
  <1>6. \A j \in Ranks :
           /\ OwnSeq(j, stream'[j], wqe)
           /\ OwnSeq(j, dreqs'[j].ready, wqe) /\ OwnSeq(j, dreqs'[j].tx, wqe)
           /\ \A x \in 1..Len(dreqs'[j].tx) : dreqs'[j].tx[x].op = "ring"
           /\ \A x \in 1..Len(dreqs'[j].ready) : dreqs'[j].ready[x].op = "wait"
    <2> TAKE j \in Ranks
    <2>1. CASE j = i
      <3>1. stream'[j] = seq /\ dreqs'[j] = NoDreqs
        BY <1>0, <2>1 DEF TInv, TypeOK
      <3> QED BY <3>1, <1>3, <1>4, <2>1
    <2>2. CASE j # i
      <3>1. stream'[j] = stream[j] /\ dreqs'[j] = dreqs[j]
        BY <1>0, <2>2 DEF TInv, TypeOK
      <3> QED BY <3>1 DEF TInv, Own
    <2> QED BY <2>1, <2>2
  <1> QED BY <1>0, <1>5, <1>6 DEF TInv, TypeOK, QueuesOK, Own, Narrow

\* The operation a stream executes next, and what is left of the stream.
LEMMA HeadOp ==
    ASSUME TInv, NEW i \in Ranks, stream[i] # <<>>
    PROVE  /\ Head(stream[i]) \in Op /\ Head(stream[i]).pair \in Pairs
           /\ Head(stream[i]).value \in Nat
           /\ Tail(stream[i]) \in Seq(Op) /\ OwnOp(i, Head(stream[i]), wqe)
           /\ OwnSeq(i, Tail(stream[i]), wqe)
  <1>1. stream[i] \in Seq(Op) /\ OwnSeq(i, stream[i], wqe)
    BY Dreqs DEF TInv, Own
  <1>2. Head(stream[i]) \in Op /\ Tail(stream[i]) \in Seq(Op) /\ OwnOp(i, Head(stream[i]), wqe)
    BY <1>1, SeqTail DEF OwnSeq
  <1>3. OwnSeq(i, Tail(stream[i]), wqe)
    BY <1>1, OwnTail
  <1> QED BY <1>2, <1>3 DEF Op

LEMMA StreamStepType ==
    ASSUME TInv, NEW i \in Ranks, StreamStep(i)
    PROVE  QueuesOK' /\ TablesOK'
  <1> DEFINE op == Head(stream[i])
             rest == Tail(stream[i])
  <1>0. /\ stream[i] # <<>> /\ stream' = [stream EXCEPT ![i] = rest]
        /\ UNCHANGED <<tables, wqe, done, dreqs, spinning, app>>
    BY DEF StreamStep
  <1>1. /\ op.pair \in Pairs /\ op.value \in Nat /\ rest \in Seq(Op)
        /\ OwnOp(i, op, wqe) /\ OwnSeq(i, rest, wqe)
    BY <1>0, HeadOp
  <1>2. \/ UNCHANGED rung
        \/ /\ op.op = "ring"
           /\ rung' = [rung EXCEPT ![op.pair] = IF @ < op.value THEN op.value ELSE @]
    BY DEF StreamStep
  <1> HIDE DEF op, rest
  <1>3. rung' \in [Pairs -> Nat] /\ \A q \in Pairs : rung'[q] <= Len(wqe[q])
    <2>1. rung \in [Pairs -> Nat] /\ \A q \in Pairs : rung[q] <= Len(wqe[q])
      BY DEF TInv, TypeOK, Own
    <2>2. op.op = "ring" => op.value <= Len(wqe[op.pair])
      BY <1>1 DEF OwnOp
    <2>3. CASE UNCHANGED rung
      BY <2>1, <2>3
    <2>4. CASE /\ op.op = "ring"
               /\ rung' = [rung EXCEPT ![op.pair] = IF @ < op.value THEN op.value ELSE @]
      BY <1>1, <2>1, <2>2, <2>4
    <2> QED BY <1>2, <2>3, <2>4
  <1>4. stream' \in [Ranks -> Seq(Op)]
    BY <1>0, <1>1 DEF TInv, TypeOK
  <1>5. \A j \in Ranks : OwnSeq(j, stream'[j], wqe)
    <2>1. \A j \in Ranks : OwnSeq(j, stream[j], wqe)
      BY DEF TInv, Own
    <2>2. stream'[i] = rest /\ \A j \in Ranks : j # i => stream'[j] = stream[j]
      BY <1>0 DEF TInv, TypeOK
    <2> QED BY <1>1, <2>1, <2>2
  <1>6. QueuesOK'
    BY <1>0, <1>3, <1>4, <1>5 DEF TInv, TypeOK, QueuesOK, Own, Narrow
  <1>7. TablesOK'
    BY <1>0 DEF TInv, TypeOK, TablesOK, tables, app
  <1> QED BY <1>6, <1>7

LEMMA HcaType ==
    ASSUME TInv, NEW p \in Pairs, HcaExecute(p)
    PROVE  QueuesOK' /\ TablesOK'
  <1> DEFINE w == wqe[p][done[p] + 1]
             v == IF w.inline THEN w.value ELSE remote_ready_values[p]
  <1>0. /\ done[p] < rung[p] /\ done' = [done EXCEPT ![p] = @ + 1]
        /\ UNCHANGED <<ready_values, remote_ready_values, wqe, rung, gpu, spinning, app>>
        /\ \/ w.kind = "ready" /\ ready_table' = [ready_table EXCEPT ![Rev(p)] = v]
           \/ UNCHANGED ready_table
    BY DEF HcaExecute
  <1>1. done[p] + 1 \in 1..Len(wqe[p])
    <2>1. done[p] \in Nat /\ rung[p] \in Nat /\ rung[p] <= Len(wqe[p])
      BY DEF TInv, TypeOK, Own
    <2>2. Len(wqe[p]) \in Nat
      BY SeqElem DEF TInv, TypeOK
    <2> QED BY <1>0, <2>1, <2>2
  <1>2. w.kind = "ready" => v \in 0..(Modulus - 1)
    BY <1>1 DEF TInv, TypeOK, Narrow
  <1> HIDE DEF w, v
  <1>3. ready_table' \in [Pairs -> 0..(Modulus - 1)]
    BY <1>0, <1>2, RevPair DEF TInv, TypeOK
  <1>4. QueuesOK'
    BY SMTT(30), <1>0 DEF TInv, TypeOK, QueuesOK, Own, Narrow, gpu
  <1>5. TablesOK'
    BY <1>0, <1>3 DEF TInv, TypeOK, TablesOK, app
  <1> QED BY <1>4, <1>5

LEMMA InitType == Init => TInv
  <1> SUFFICES ASSUME Init PROVE TInv
    OBVIOUS
  <1>1. 1 % Modulus \in 0..(Modulus - 1) /\ 0 \in 0..(Modulus - 1)
    BY ModRange
  <1>2. TablesOK
    BY <1>1 DEF Init, TablesOK
  <1>3. <<>> \in Seq(Op) /\ <<>> \in Seq(WorkRequest) /\ NoDreqs \in [ready : Seq(Op), tx : Seq(Op)]
        /\ NoDreqs.ready = <<>> /\ NoDreqs.tx = <<>>
    BY DEF NoDreqs
  <1>4. QueuesOK
    BY <1>3 DEF Init, QueuesOK, Narrow, Own, OwnSeq
  <1> QED BY <1>2, <1>4, TInvParts

LEMMA WaitOpOwn ==
    ASSUME TInv, NEW p \in Pairs
    PROVE  /\ WaitOp(p, ready_values[p]) \in Op /\ OwnOp(p[1], WaitOp(p, ready_values[p]), wqe)
           /\ WaitOp(p, ready_values[p]).op = "wait" /\ WaitOp(p, ready_values[p]).pair = p
           /\ WaitOp(p, ready_values[p]).value = ready_values[p]
           /\ p[1] \in Ranks /\ p[2] \in Ranks
  <1>1. ready_values[p] \in Nat
    BY DEF TInv, TypeOK
  <1> QED BY <1>1, OpsAreOps, RevPair DEF WaitOp, OwnOp

LEMMA SendTables ==
    ASSUME TInv, NEW p \in Pairs, MaySend(p)
    PROVE  TablesOK'
  BY SMTT(30) DEF TInv, TypeOK, MaySend, tables, TablesOK

LEMMA ReadyCallsType ==
    ASSUME TInv, NEW p \in Pairs,
           comm_irecv(p) \/ comm_send_ready(p) \/ comm_send_ready_on_stream(p)
    PROVE  QueuesOK' /\ TablesOK'
  <1>1. CASE comm_irecv(p)
    <2>1. QueuesOK'
      BY <1>1, GpuKeptType DEF comm_irecv
    <2>2. /\ recvs' = [recvs EXCEPT ![p] = @ + 1]
          /\ UNCHANGED <<ready_table, ready_values, remote_ready_values, spinning, readies,
                         waits, sends>>
      BY <1>1 DEF comm_irecv, tables
    <2>3. recvs' \in [Pairs -> Nat]
      BY <2>2 DEF TInv, TypeOK
    <2>4. TablesOK'
      BY <2>2, <2>3 DEF TInv, TypeOK, TablesOK
    <2> QED BY <2>1, <2>4
  <1>2. CASE comm_send_ready(p)
    <2>1. PostRung(p, Ready(remote_ready_values[p], TRUE)) /\ Announce(p)
      BY <1>2 DEF comm_send_ready
    <2> QED BY <2>1, ReadyType, PostRungType, AnnounceType DEF TInv
  <1>3. CASE comm_send_ready_on_stream(p)
    <2>1. PostOnStream(p, Ready(remote_ready_values[p], TRUE)) /\ Announce(p)
      BY <1>3 DEF comm_send_ready_on_stream
    <2> QED BY <2>1, ReadyType, PostOnStreamType, AnnounceType DEF TInv
  <1> QED BY <1>1, <1>2, <1>3

LEMMA WaitCallsType ==
    ASSUME TInv, NEW p \in Pairs,
           \/ comm_wait_ready(p) \/ WaitReadyReturn(p) \/ comm_test_ready(p)
           \/ comm_wait_ready_on_stream(p) \/ comm_prepare_wait_ready(p)
    PROVE  QueuesOK' /\ TablesOK'
  <1>0. p[1] \in Ranks /\ p[2] \in Ranks /\ spinning \in [Ranks -> Ranks \union {NoRank}]
    BY RevPair DEF TInv, TypeOK
  <1>1. CASE comm_wait_ready(p)
    <2>1. QueuesOK'
      BY <1>1, GpuKeptType DEF comm_wait_ready
    <2>2. TablesOK'
      BY <1>0, <1>1 DEF comm_wait_ready, tables, app, TInv, TypeOK, TablesOK
    <2> QED BY <2>1, <2>2
  <1>2. CASE WaitReadyReturn(p)
    <2>1. Expect(p) /\ UNCHANGED gpu /\ spinning' = [spinning EXCEPT ![p[1]] = NoRank]
      BY <1>2 DEF WaitReadyReturn
    <2>2. QueuesOK'
      BY <2>1, GpuKeptType DEF Expect
    <2>3. spinning' \in [Ranks -> Ranks \union {NoRank}]
      BY <2>1, <1>0
    <2> QED BY <2>1, <2>2, <2>3, ExpectType
  <1>3. CASE comm_test_ready(p)
    <2>1. Expect(p) /\ UNCHANGED <<gpu, spinning>>
      BY <1>3 DEF comm_test_ready
    <2>2. QueuesOK'
      BY <2>1, GpuKeptType DEF Expect
    <2> QED BY <1>0, <2>1, <2>2, ExpectType
  <1>4. CASE comm_wait_ready_on_stream(p)
    <2>1. /\ Expect(p) /\ UNCHANGED <<dreqs, spinning>>
          /\ stream' = [stream EXCEPT ![p[1]] = Append(@, WaitOp(p, ready_values[p]))]
      BY <1>4 DEF comm_wait_ready_on_stream
    <2>2. QueuesOK'
      BY <2>1, WaitOpOwn, StreamAppendType DEF Expect
    <2> QED BY <1>0, <2>1, <2>2, ExpectType
  <1>5. CASE comm_prepare_wait_ready(p)
    <2>1. /\ Expect(p) /\ UNCHANGED <<stream, spinning>>
          /\ dreqs' = [dreqs EXCEPT ![p[1]].ready = Append(@, WaitOp(p, ready_values[p]))]
      BY <1>5 DEF comm_prepare_wait_ready
    <2>2. QueuesOK'
      <3> DEFINE op == WaitOp(p, ready_values[p])
      <3>1. UNCHANGED <<queue, stream>> /\ dreqs' = [dreqs EXCEPT ![p[1]].ready = Append(@, op)]
        BY <2>1 DEF Expect
      <3>2. op \in Op /\ op.op = "wait" /\ OwnOp(p[1], op, wqe)
        BY WaitOpOwn
      <3> HIDE DEF op
      <3> QED BY <1>0, <3>1, <3>2, ReadyAppendType
    <2> QED BY <1>0, <2>1, <2>2, ExpectType
  <1> QED BY <1>1, <1>2, <1>3, <1>4, <1>5

LEMMA SendCallsType ==
    ASSUME TInv, NEW p \in Pairs,
           comm_isend(p) \/ comm_isend_on_stream(p) \/ comm_prepare_isend(p)
    PROVE  QueuesOK' /\ TablesOK'
  <1>1. CASE comm_isend(p)
    <2>1. MaySend(p) /\ PostRung(p, Data(sends[p] + 1))
      BY <1>1 DEF comm_isend
    <2> QED BY <2>1, ReadyType, PostRungType, SendTables DEF TInv
  <1>2. CASE comm_isend_on_stream(p)
    <2>1. MaySend(p) /\ PostOnStream(p, Data(sends[p] + 1))
      BY <1>2 DEF comm_isend_on_stream
    <2> QED BY <2>1, ReadyType, PostOnStreamType, SendTables DEF TInv
  <1>3. CASE comm_prepare_isend(p)
    <2>1. MaySend(p)
      BY <1>3 DEF comm_prepare_isend
    <2> QED BY <2>1, <1>3, PrepareType, SendTables
  <1> QED BY <1>1, <1>2, <1>3

LEMMA NextType == TInv /\ [Next]_vars => TInv'
  <1> SUFFICES ASSUME TInv, [Next]_vars PROVE QueuesOK' /\ TablesOK'
    BY TInvParts DEF TInv, TypeOK, QueuesOK, TablesOK
  <1>1. CASE UNCHANGED vars
    BY <1>1 DEF vars, tables, queue, gpu, app, TInv, TypeOK, QueuesOK, TablesOK, Narrow, Own
  <1>2. ASSUME NEW p \in Pairs,
               \/ comm_irecv(p) \/ comm_send_ready(p) \/ comm_send_ready_on_stream(p)
               \/ comm_wait_ready(p) \/ WaitReadyReturn(p) \/ comm_test_ready(p)
               \/ comm_wait_ready_on_stream(p) \/ comm_prepare_wait_ready(p)
               \/ comm_isend(p) \/ comm_isend_on_stream(p) \/ comm_prepare_isend(p)
               \/ HcaExecute(p)
        PROVE  QueuesOK' /\ TablesOK'
    BY <1>2, ReadyCallsType, WaitCallsType, SendCallsType, HcaType
  <1>3. ASSUME NEW i \in Ranks, comm_prepared_requests(i)
        PROVE  QueuesOK' /\ TablesOK'
    <2>1. TablesOK'
      BY <1>3 DEF comm_prepared_requests, tables, app, TInv, TypeOK, TablesOK
    <2> QED BY <2>1, <1>3, LaunchType
  <1>4. ASSUME NEW i \in Ranks, StreamStep(i)
        PROVE  QueuesOK' /\ TablesOK'
    BY <1>4, StreamStepType
  <1> QED BY <1>1, <1>2, <1>3, <1>4 DEF Next

\* Every variable keeps its type, whether the counters wrap or not: what
\* comm_send_ready puts into a peer's table is an unsigned integer of its width.
THEOREM TypeCorrect == Spec => []TypeOK
  <1>1. Spec => []TInv
    BY InitType, NextType, PTL DEF Spec
  <1>2. TInv => TypeOK
    BY DEF TInv
  <1> QED BY <1>1, <1>2, PTL

-----------------------------------------------------------------------------
(* Operations waited for, and guarded doorbells, when a sequence changes *)

IsWait(op, p, n) == op.op = "wait" /\ op.pair = p /\ op.value = n

LEMMA HeldAppend ==
    ASSUME NEW p, NEW n, NEW s \in Seq(Op), NEW e \in Op
    PROVE  HeldBySeq(p, n, Append(s, e)) <=> HeldBySeq(p, n, s) \/ IsWait(e, p, n)
  <1>1. /\ Len(s) \in Nat /\ DOMAIN s = 1..Len(s)
        /\ DOMAIN Append(s, e) = 1..(Len(s) + 1)
    BY SeqElem, SeqAppend
  <1>2. /\ \A x \in 1..Len(s) : Append(s, e)[x] = s[x]
        /\ Append(s, e)[Len(s) + 1] = e
    BY SeqAppend
  <1>3. \A x : x \in 1..(Len(s) + 1) <=> x \in 1..Len(s) \/ x = Len(s) + 1
    BY <1>1
  <1> QED BY <1>1, <1>2, <1>3 DEF HeldBySeq, IsWait

LEMMA HeldConcat ==
    ASSUME NEW p, NEW n, NEW s \in Seq(Op), NEW t \in Seq(Op),
           HeldBySeq(p, n, s) \/ HeldBySeq(p, n, t)
    PROVE  HeldBySeq(p, n, s \o t)
  <1>1. /\ Len(s) \in Nat /\ DOMAIN s = 1..Len(s) /\ Len(t) \in Nat /\ DOMAIN t = 1..Len(t)
        /\ DOMAIN (s \o t) = 1..(Len(s) + Len(t))
    BY SeqElem, SeqConcat
  <1>2. CASE HeldBySeq(p, n, s)
    <2>1. PICK x \in 1..Len(s) : IsWait(s[x], p, n)
      BY <1>1, <1>2 DEF HeldBySeq, IsWait
    <2>2. x \in 1..(Len(s) + Len(t)) /\ (s \o t)[x] = s[x]
      BY <1>1, SeqConcat
    <2> QED BY <2>1, <2>2, <1>1 DEF HeldBySeq, IsWait
  <1>3. CASE HeldBySeq(p, n, t)
    <2>1. PICK x \in 1..Len(t) : IsWait(t[x], p, n)
      BY <1>1, <1>3 DEF HeldBySeq, IsWait
    <2>2. x + Len(s) \in 1..(Len(s) + Len(t)) /\ (s \o t)[x + Len(s)] = t[x]
      BY <1>1, SeqConcat
    <2> QED BY <2>1, <2>2, <1>1 DEF HeldBySeq, IsWait
  <1> QED BY <1>2, <1>3

LEMMA HeldTail ==
    ASSUME NEW p, NEW n, NEW s \in Seq(Op), s # <<>>, HeldBySeq(p, n, s)
    PROVE  HeldBySeq(p, n, Tail(s)) \/ IsWait(Head(s), p, n)
  <1>1. PICK x \in 1..Len(s) : IsWait(s[x], p, n)
    BY SeqElem DEF HeldBySeq, IsWait
  <1>2. CASE x = 1
    BY <1>1, <1>2, SeqTail
  <1>3. CASE x # 1
    <2>1. x - 1 \in 1..Len(Tail(s)) /\ Tail(s)[x - 1] = s[x] /\ DOMAIN Tail(s) = 1..Len(Tail(s))
      BY <1>3, SeqTail, SeqElem
    <2> QED BY <1>1, <2>1 DEF HeldBySeq, IsWait
  <1> QED BY <1>2, <1>3

LEMMA BeforeAppend ==
    ASSUME NEW p, NEW n, NEW s \in Seq(Op), NEW e \in Op
    PROVE  /\ \A x \in 1..Len(s) : WaitBefore(p, n, s, x) => WaitBefore(p, n, Append(s, e), x)
           /\ HeldBySeq(p, n, s) => WaitBefore(p, n, Append(s, e), Len(s) + 1)
  <1>1. Len(s) \in Nat /\ DOMAIN s = 1..Len(s) /\ \A x \in 1..Len(s) : Append(s, e)[x] = s[x]
    BY SeqElem, SeqAppend
  <1> QED BY <1>1 DEF WaitBefore, HeldBySeq

LEMMA BeforeConcat ==
    ASSUME NEW p, NEW n, NEW s \in Seq(Op), NEW t \in Seq(Op)
    PROVE  /\ \A x \in 1..Len(s) : WaitBefore(p, n, s, x) => WaitBefore(p, n, s \o t, x)
           /\ HeldBySeq(p, n, s) => \A x \in (Len(s) + 1)..(Len(s) + Len(t)) :
                                       WaitBefore(p, n, s \o t, x)
  <1>1. /\ Len(s) \in Nat /\ Len(t) \in Nat /\ DOMAIN s = 1..Len(s)
        /\ \A x \in 1..Len(s) : (s \o t)[x] = s[x]
    BY SeqElem, SeqConcat
  <1> QED BY <1>1 DEF WaitBefore, HeldBySeq

LEMMA BeforeTail ==
    ASSUME NEW p, NEW n, NEW s \in Seq(Op), s # <<>>, NEW x \in 1..Len(Tail(s)),
           WaitBefore(p, n, s, x + 1)
    PROVE  WaitBefore(p, n, Tail(s), x) \/ IsWait(Head(s), p, n)
  <1>1. PICK y \in 1..x : IsWait(s[y], p, n)
    BY DEF WaitBefore, IsWait
  <1>2. Len(Tail(s)) \in Nat
    BY SeqTail, SeqElem
  <1>3. CASE y = 1
    BY <1>1, <1>3, SeqTail
  <1>4. CASE y # 1
    <2>1. y - 1 \in 1..Len(Tail(s)) /\ y - 1 \in 1..(x - 1) /\ Tail(s)[y - 1] = s[y]
      BY <1>2, <1>4, SeqTail
    <2> QED BY <1>1, <2>1 DEF WaitBefore, IsWait
  <1> QED BY <1>3, <1>4

\* Guarded doorbells stay guarded when queues and tables grow.
LEMMA GuardKept ==
    ASSUME NEW i \in Ranks, NEW s \in Seq(Op),
           NEW q \in [Pairs -> Seq(WorkRequest)], NEW q2 \in [Pairs -> Seq(WorkRequest)],
           NEW g \in [Pairs -> Nat], NEW g2 \in [Pairs -> Nat],
           NEW t \in [Pairs -> Nat], NEW t2 \in [Pairs -> Nat],
           GuardSeq(s, q, g, t), OwnSeq(i, s, q),
           \A p \in Pairs : \A k \in 1..Len(q[p]) : q2[p][k] = q[p][k],
           \A p \in Pairs : g[p] <= g2[p] /\ t[p] <= t2[p]
    PROVE  GuardSeq(s, q2, g2, t2)
  <1> SUFFICES ASSUME NEW x \in 1..Len(s), s[x].op = "ring",
                      NEW l \in (g2[s[x].pair] + 1)..s[x].value,
                      q2[s[x].pair][l].kind = "data"
               PROVE  \/ q2[s[x].pair][l].value <= t2[s[x].pair]
                      \/ WaitBefore(s[x].pair, q2[s[x].pair][l].value, s, x)
    BY DEF GuardSeq, GuardOp
  <1> DEFINE p == s[x].pair
  <1>1. s[x] \in Op
    BY SeqElem
  <1>2. p \in Pairs /\ s[x].value \in Nat /\ s[x].value <= Len(q[p]) /\ Len(q[p]) \in Nat
    <2>1. p \in Pairs /\ s[x].value \in Nat
      BY <1>1 DEF Op
    <2>2. Len(q[p]) \in Nat
      BY <2>1, SeqElem
    <2>3. OwnOp(i, s[x], q)
      BY DEF OwnSeq
    <2> QED BY <2>1, <2>2, <2>3 DEF OwnOp
  <1>3. l \in 1..Len(q[p]) /\ l \in (g[p] + 1)..s[x].value
    BY SMTT(30), <1>2
  <1>4. q2[p][l] = q[p][l] /\ q[p][l].value \in Nat
    <2>1. q[p][l] \in WorkRequest
      BY <1>2, <1>3, SeqElem
    <2> QED BY <1>2, <1>3, <2>1 DEF WorkRequest
  <1>5. q[p][l].value <= t[p] \/ WaitBefore(p, q[p][l].value, s, x)
    BY <1>3, <1>4 DEF GuardSeq, GuardOp
  <1> QED BY SMTT(30), <1>2, <1>4, <1>5

LEMMA GuardAppendWait ==
    ASSUME NEW s \in Seq(Op), NEW e \in Op, NEW q, NEW g, NEW t,
           GuardSeq(s, q, g, t), e.op = "wait"
    PROVE  GuardSeq(Append(s, e), q, g, t)
  <1> DEFINE s2 == Append(s, e)
  <1> SUFFICES ASSUME NEW x \in 1..Len(s2), s2[x].op = "ring"
               PROVE  GuardOp(s2, x, q, g, t)
    BY DEF GuardSeq
  <1>1. Len(s) \in Nat /\ Len(s2) = Len(s) + 1 /\ s2[Len(s) + 1] = e
    BY SeqElem, SeqAppend
  <1>2. x \in 1..Len(s) /\ s2[x] = s[x]
    BY <1>1, SeqAppend
  <1> HIDE DEF s2
  <1>3. \A p, n : WaitBefore(p, n, s, x) => WaitBefore(p, n, s2, x)
    BY <1>2, BeforeAppend DEF s2
  <1>4. GuardOp(s, x, q, g, t)
    BY <1>2 DEF GuardSeq
  <1> QED BY <1>2, <1>3, <1>4 DEF GuardOp

LEMMA GuardAppendRing ==
    ASSUME NEW s \in Seq(Op), NEW e \in Op, NEW q, NEW g, NEW t,
           GuardSeq(s, q, g, t),
           \A l \in (g[e.pair] + 1)..e.value : q[e.pair][l].kind = "data" =>
               q[e.pair][l].value <= t[e.pair] \/ HeldBySeq(e.pair, q[e.pair][l].value, s)
    PROVE  GuardSeq(Append(s, e), q, g, t)
  <1> DEFINE s2 == Append(s, e)
  <1> SUFFICES ASSUME NEW x \in 1..Len(s2), s2[x].op = "ring"
               PROVE  GuardOp(s2, x, q, g, t)
    BY DEF GuardSeq
  <1>1. Len(s) \in Nat /\ Len(s2) = Len(s) + 1 /\ s2[Len(s) + 1] = e
    BY SeqElem, SeqAppend
  <1>2. CASE x \in 1..Len(s)
    <2>1. s2[x] = s[x]
      BY <1>2, SeqAppend
    <2> HIDE DEF s2
    <2>2. \A p, n : WaitBefore(p, n, s, x) => WaitBefore(p, n, s2, x)
      BY <1>2, BeforeAppend DEF s2
    <2>3. GuardOp(s, x, q, g, t)
      BY <1>2, <2>1 DEF GuardSeq
    <2> QED BY <2>1, <2>2, <2>3 DEF GuardOp
  <1>3. CASE x = Len(s) + 1
    <2> HIDE DEF s2
    <2>1. \A p, n : HeldBySeq(p, n, s) => WaitBefore(p, n, s2, x)
      BY <1>3, BeforeAppend DEF s2
    <2> QED BY <1>1, <1>3, <2>1 DEF GuardOp
  <1> HIDE DEF s2
  <1> QED BY <1>1, <1>2, <1>3

LEMMA GuardConcat ==
    ASSUME NEW s \in Seq(Op), NEW r \in Seq(Op), NEW q, NEW g, NEW t,
           GuardSeq(s, q, g, t),
           \A y \in 1..Len(r) : r[y].op = "ring" =>
               \A l \in (g[r[y].pair] + 1)..r[y].value : q[r[y].pair][l].kind = "data" =>
                   \/ q[r[y].pair][l].value <= t[r[y].pair]
                   \/ HeldBySeq(r[y].pair, q[r[y].pair][l].value, s)
    PROVE  GuardSeq(s \o r, q, g, t)
  <1> DEFINE s2 == s \o r
  <1> SUFFICES ASSUME NEW x \in 1..Len(s2), s2[x].op = "ring"
               PROVE  GuardOp(s2, x, q, g, t)
    BY DEF GuardSeq
  <1>1. Len(s) \in Nat /\ Len(r) \in Nat /\ Len(s2) = Len(s) + Len(r)
    BY SeqElem, SeqConcat
  <1>2. CASE x \in 1..Len(s)
    <2>1. s2[x] = s[x]
      BY <1>2, SeqConcat
    <2> HIDE DEF s2
    <2>2. \A p, n : WaitBefore(p, n, s, x) => WaitBefore(p, n, s2, x)
      BY <1>2, BeforeConcat DEF s2
    <2>3. GuardOp(s, x, q, g, t)
      BY <1>2, <2>1 DEF GuardSeq
    <2> QED BY <2>1, <2>2, <2>3 DEF GuardOp
  <1>3. CASE x \in (Len(s) + 1)..(Len(s) + Len(r))
    <2> DEFINE y == x - Len(s)
    <2>1. y \in 1..Len(r) /\ s2[x] = r[y]
      BY <1>3, SeqConcat
    <2>2. \A p, n : HeldBySeq(p, n, s) => WaitBefore(p, n, s2, x)
      BY <1>3, BeforeConcat
    <2> HIDE DEF s2, y
    <2>3. \A l \in (g[r[y].pair] + 1)..r[y].value : q[r[y].pair][l].kind = "data" =>
             \/ q[r[y].pair][l].value <= t[r[y].pair]
             \/ HeldBySeq(r[y].pair, q[r[y].pair][l].value, s)
      BY <2>1
    <2> QED BY <2>1, <2>2, <2>3 DEF GuardOp
  <1> HIDE DEF s2
  <1> QED BY <1>1, <1>2, <1>3

LEMMA GuardTail ==
    ASSUME NEW s \in Seq(Op), s # <<>>, NEW q, NEW g, NEW t, GuardSeq(s, q, g, t),
           Head(s).op = "wait" => Head(s).value <= t[Head(s).pair]
    PROVE  GuardSeq(Tail(s), q, g, t)
  <1> DEFINE s2 == Tail(s)
  <1> SUFFICES ASSUME NEW x \in 1..Len(s2), s2[x].op = "ring"
               PROVE  GuardOp(s2, x, q, g, t)
    BY DEF GuardSeq
  <1>1. x + 1 \in 1..Len(s) /\ s2[x] = s[x + 1]
    BY SeqTail
  <1>2. \A p, n : WaitBefore(p, n, s, x + 1) => WaitBefore(p, n, s2, x) \/ IsWait(Head(s), p, n)
    BY BeforeTail
  <1> HIDE DEF s2
  <1>3. GuardOp(s, x + 1, q, g, t)
    BY <1>1 DEF GuardSeq
  <1>4. \A p, n : IsWait(Head(s), p, n) => n <= t[p]
    BY DEF IsWait
  <1> QED BY <1>1, <1>2, <1>3, <1>4 DEF GuardOp

-----------------------------------------------------------------------------
(* Readies and messages when a queue changes *)

LEMMA ValueIsNat == \A w \in WorkRequest : w.value \in Nat
  BY DEF WorkRequest

LEMMA ReadiesAppend ==
    ASSUME NEW q \in Seq(WorkRequest), NEW t \in Nat, NEW r \in Nat, NEW d \in Nat,
           NEW r2 \in Nat, NEW w \in WorkRequest, ReadiesOf(q, t, r, d), r <= r2,
           w.kind = "ready" => w.inline /\ r <= w.value /\ w.value <= r2
    PROVE  ReadiesOf(Append(q, w), t, r2, d)
  <1> DEFINE q2 == Append(q, w)
  <1>1. Len(q) \in Nat /\ Len(q2) = Len(q) + 1 /\ q2[Len(q) + 1] = w
    BY SeqElem, SeqAppend
  <1>2. \A k \in 1..Len(q) : q2[k] = q[k] /\ q[k].value \in Nat
    <2>1. \A k \in 1..Len(q) : q[k] \in WorkRequest
      BY SeqElem
    <2> QED BY <2>1, ValueIsNat, SeqAppend
  <1>3. \A k \in 1..Len(q2) : k \in 1..Len(q) \/ k = Len(q) + 1
    BY <1>1
  <1>4. w.value \in Nat
    BY DEF WorkRequest
  <1> HIDE DEF q2
  <1>5. t <= r2
    BY DEF ReadiesOf
  <1>6. ASSUME NEW k \in 1..Len(q2), q2[k].kind = "ready"
        PROVE  q2[k].inline /\ q2[k].value <= r2 /\ (k > d => t <= q2[k].value)
    <2>1. CASE k \in 1..Len(q)
      <3>1. q2[k] = q[k] /\ q[k].value \in Nat
        BY <1>2, <2>1
      <3>2. q[k].inline /\ q[k].value <= r /\ (k > d => t <= q[k].value)
        BY <1>6, <2>1, <3>1 DEF ReadiesOf
      <3> QED BY <3>1, <3>2
    <2>2. CASE k = Len(q) + 1
      BY <1>1, <1>4, <1>6, <2>2 DEF ReadiesOf
    <2> QED BY <1>3, <2>1, <2>2
  <1>7. ASSUME NEW k \in 1..Len(q2), NEW l \in 1..Len(q2), k < l,
               q2[k].kind = "ready", q2[l].kind = "ready"
        PROVE  q2[k].value <= q2[l].value
    <2>0. k \in 1..Len(q)
      BY <1>1, <1>7
    <2>1. q2[k] = q[k] /\ q[k].kind = "ready" /\ q[k].value \in Nat /\ q[k].value <= r
      BY <1>2, <1>7, <2>0 DEF ReadiesOf
    <2>2. CASE l \in 1..Len(q)
      <3>1. q2[l] = q[l] /\ q[l].kind = "ready"
        BY <1>2, <1>7, <2>2
      <3> QED BY <1>7, <2>0, <2>1, <2>2, <3>1 DEF ReadiesOf
    <2>3. CASE l = Len(q) + 1
      <3>1. q2[l] = w
        BY <1>1, <2>3
      <3>2. r <= w.value
        BY <1>7, <3>1
      <3> QED BY <1>4, <2>1, <3>1, <3>2
    <2> QED BY <1>3, <2>2, <2>3
  <1> QED BY <1>5, <1>6, <1>7 DEF ReadiesOf, q2

LEMMA MessagesAppend ==
    ASSUME NEW q \in Seq(WorkRequest), NEW s \in Nat, NEW g \in Nat, NEW t \in Nat,
           NEW s2 \in Nat, NEW g2 \in Nat, NEW w \in WorkRequest,
           MessagesOf(q, s, g, t), s <= s2, g2 <= g \/ g = Len(q),
           w.kind = "data" => w.value \in 1..s2 /\ (Len(q) < g2 => w.value <= t)
    PROVE  MessagesOf(Append(q, w), s2, g2, t)
  <1> DEFINE q2 == Append(q, w)
  <1>1. Len(q) \in Nat /\ Len(q2) = Len(q) + 1 /\ q2[Len(q) + 1] = w
    BY SeqElem, SeqAppend
  <1>2. \A k \in 1..Len(q) : q2[k] = q[k] /\ q[k].value \in Nat
    <2>1. \A k \in 1..Len(q) : q[k] \in WorkRequest
      BY SeqElem
    <2> QED BY <2>1, ValueIsNat, SeqAppend
  <1> HIDE DEF q2
  <1> SUFFICES ASSUME NEW k \in 1..Len(q2), q2[k].kind = "data"
               PROVE  q2[k].value \in 1..s2 /\ (k <= g2 => q2[k].value <= t)
    BY DEF MessagesOf, q2
  <1>3. CASE k \in 1..Len(q)
    BY <1>1, <1>2, <1>3 DEF MessagesOf
  <1>4. CASE k = Len(q) + 1
    BY <1>1, <1>4
  <1> QED BY <1>1, <1>3, <1>4

LEMMA Nums ==
    ASSUME TInv, NEW p \in Pairs
    PROVE  /\ ready_table[p] \in Nat /\ ready_values[p] \in Nat /\ remote_ready_values[p] \in Nat
           /\ recvs[p] \in Nat /\ readies[p] \in Nat /\ waits[p] \in Nat /\ sends[p] \in Nat
           /\ rung[p] \in Nat /\ done[p] \in Nat /\ Len(wqe[p]) \in Nat
           /\ rung[p] <= Len(wqe[p]) /\ wqe[p] \in Seq(WorkRequest)
           /\ \A k \in 1..Len(wqe[p]) : wqe[p][k] \in WorkRequest /\ wqe[p][k].value \in Nat
  <1>1. wqe[p] \in Seq(WorkRequest)
    BY DEF TInv, TypeOK
  <1>2. \A w \in WorkRequest : w.value \in Nat
    BY ValueIsNat
  <1>3. Len(wqe[p]) \in Nat /\ \A k \in 1..Len(wqe[p]) : wqe[p][k] \in WorkRequest
    BY <1>1, SeqElem
  <1>4. 0..(Modulus - 1) \subseteq Nat
    OBVIOUS
  <1> QED BY <1>1, <1>2, <1>3, <1>4 DEF TInv, TypeOK, Own

LEMMA InOrder ==
    ASSUME TInv, Counters, NEW p \in Pairs
    PROVE  /\ readies[p] \in Nat /\ recvs[p] \in Nat /\ sends[p] \in Nat /\ waits[p] \in Nat
           /\ readies[p] <= recvs[p] /\ recvs[p] <= MaxMsgs
           /\ sends[p] <= waits[p] /\ waits[p] <= MaxMsgs
  <1>1. /\ readies[p] <= recvs[p] /\ recvs[p] <= MaxMsgs
        /\ sends[p] <= waits[p] /\ waits[p] <= MaxMsgs
    BY DEF Counters
  <1> QED BY <1>1, Nums

LEMMA CallNumbers ==
    ASSUME NoWrap, TInv, Counters, NEW p \in Pairs
    PROVE  /\ readies[p] < MaxMsgs => remote_ready_values[p] = readies[p] + 1
           /\ waits[p] < MaxMsgs => ready_values[p] = waits[p] + 1
           /\ sends[p] < MaxMsgs => (sends[p] + 1) % Modulus = sends[p] + 1
  <1>1. /\ readies[p] + 1 \in Nat /\ waits[p] + 1 \in Nat /\ sends[p] + 1 \in Nat
        /\ readies[p] < MaxMsgs => readies[p] + 1 < Modulus
        /\ waits[p] < MaxMsgs => waits[p] + 1 < Modulus
        /\ sends[p] < MaxMsgs => sends[p] + 1 < Modulus
    <2>1. readies[p] \in Nat /\ waits[p] \in Nat /\ sends[p] \in Nat
      BY Nums
    <2> QED BY <2>1 DEF NoWrap
  <1>2. /\ remote_ready_values[p] = (readies[p] + 1) % Modulus
        /\ ready_values[p] = (waits[p] + 1) % Modulus
    BY DEF Counters
  <1> QED BY <1>1, <1>2, ModRange

-----------------------------------------------------------------------------
(* Every step preserves the invariant *)

LEMMA SamePosts ==
    ASSUME TInv, NEW p \in Pairs, NEW w \in WorkRequest,
           wqe' = [wqe EXCEPT ![p] = Append(@, w)]
    PROVE  /\ wqe' \in [Pairs -> Seq(WorkRequest)] /\ wqe'[p] = Append(wqe[p], w)
           /\ \A q \in Pairs : q # p => wqe'[q] = wqe[q]
           /\ \A q \in Pairs : \A k \in 1..Len(wqe[q]) : wqe'[q][k] = wqe[q][k]
           /\ Len(wqe'[p]) = Len(wqe[p]) + 1 /\ wqe'[p][Len(wqe[p]) + 1] = w
  <1>1. wqe[p] \in Seq(WorkRequest)
    BY DEF TInv, TypeOK
  <1>2. Append(wqe[p], w) \in Seq(WorkRequest)
    BY <1>1, SeqAppend
  <1>3. /\ wqe' \in [Pairs -> Seq(WorkRequest)] /\ wqe'[p] = Append(wqe[p], w)
        /\ \A q \in Pairs : q # p => wqe'[q] = wqe[q]
    BY <1>2 DEF TInv, TypeOK
  <1> QED BY <1>1, <1>3, SeqAppend

LEMMA TableTypes ==
    ASSUME TInv
    PROVE  /\ wqe \in [Pairs -> Seq(WorkRequest)] /\ rung \in [Pairs -> Nat]
           /\ ready_table \in [Pairs -> Nat]
           /\ \A i \in Ranks : OwnSeq(i, stream[i], wqe)
  <1>1. 0..(Modulus - 1) \subseteq Nat
    OBVIOUS
  <1> QED BY <1>1 DEF TInv, TypeOK, Own

\* What a call posts: the next ready, or the next message.
NextReady(p, w) ==
    /\ w \in WorkRequest /\ w.kind = "ready" /\ w.inline /\ w.value = readies[p] + 1
    /\ readies' = [readies EXCEPT ![p] = @ + 1] /\ UNCHANGED sends
    /\ readies[p] < recvs[p]
NextData(p, w) ==
    /\ w \in WorkRequest /\ w.kind = "data" /\ w.value = sends[p] + 1
    /\ sends' = [sends EXCEPT ![p] = @ + 1] /\ UNCHANGED readies
    /\ sends[p] < waits[p]

LEMMA PostReadies ==
    ASSUME IInv, NEW p \in Pairs, NEW w, NextReady(p, w) \/ NextData(p, w),
           wqe' = [wqe EXCEPT ![p] = Append(@, w)], UNCHANGED <<ready_table, done>>
    PROVE  Readies'
  <1>0. TInv /\ Readies /\ w \in WorkRequest
    BY DEF IInv, Inv, NextReady, NextData
  <1>1. /\ readies'[p] \in Nat /\ readies[p] <= readies'[p]
        /\ w.kind = "ready" => w.inline /\ readies[p] <= w.value /\ w.value <= readies'[p]
        /\ \A q \in Pairs : q # p => readies'[q] = readies[q]
    <2>1. readies \in [Pairs -> Nat]
      BY <1>0 DEF TInv, TypeOK
    <2>2. CASE NextReady(p, w)
      BY <2>1, <2>2 DEF NextReady
    <2>3. CASE NextData(p, w)
      BY <2>1, <2>3 DEF NextData
    <2> QED BY <2>2, <2>3
  <1> SUFFICES ASSUME NEW q \in Pairs
               PROVE  ReadiesOf(wqe'[q], ready_table[Rev(q)], readies'[q], done[q])
    BY DEF Readies
  <1>2. ReadiesOf(wqe[q], ready_table[Rev(q)], readies[q], done[q])
    BY <1>0 DEF Readies
  <1>3. CASE q # p
    BY <1>0, <1>1, <1>2, <1>3, SamePosts
  <1>4. CASE q = p
    <2>1. wqe'[p] = Append(wqe[p], w)
      BY <1>0, SamePosts
    <2>2. wqe[p] \in Seq(WorkRequest) /\ ready_table[Rev(p)] \in Nat /\ readies[p] \in Nat
          /\ done[p] \in Nat
      BY <1>0, Nums, RevPair
    <2> QED BY <1>0, <1>1, <1>2, <1>4, <2>1, <2>2, ReadiesAppend
  <1> QED BY <1>3, <1>4

LEMMA PostMessages ==
    ASSUME IInv, NEW p \in Pairs, NEW w, NextReady(p, w) \/ NextData(p, w),
           wqe' = [wqe EXCEPT ![p] = Append(@, w)], UNCHANGED ready_table,
           \/ UNCHANGED rung
           \/ /\ rung[p] = Len(wqe[p]) /\ rung' = [rung EXCEPT ![p] = Len(wqe[p]) + 1]
              /\ w.kind = "data" => w.value <= ready_table[p]
    PROVE  Messages'
  <1>0. TInv /\ Messages /\ w \in WorkRequest
    BY DEF IInv, Inv, NextReady, NextData
  <1>1. /\ sends'[p] \in Nat /\ sends[p] <= sends'[p]
        /\ w.kind = "data" => w.value \in 1..sends'[p]
        /\ \A q \in Pairs : q # p => sends'[q] = sends[q]
    <2>1. sends \in [Pairs -> Nat]
      BY <1>0 DEF TInv, TypeOK
    <2>2. CASE NextReady(p, w)
      BY <2>1, <2>2 DEF NextReady
    <2>3. CASE NextData(p, w)
      <3>1. sends' = [sends EXCEPT ![p] = @ + 1] /\ w.value = sends[p] + 1
        BY <2>3 DEF NextData
      <3> QED BY <2>1, <3>1
    <2> QED BY <2>2, <2>3
  <1>2. /\ rung'[p] \in Nat /\ (rung'[p] <= rung[p] \/ rung[p] = Len(wqe[p]))
        /\ w.kind = "data" => (Len(wqe[p]) < rung'[p] => w.value <= ready_table[p])
        /\ \A q \in Pairs : q # p => rung'[q] = rung[q]
    BY <1>0, Nums, TableTypes
  <1> SUFFICES ASSUME NEW q \in Pairs
               PROVE  MessagesOf(wqe'[q], sends'[q], rung'[q], ready_table[q])
    BY DEF Messages
  <1>3. MessagesOf(wqe[q], sends[q], rung[q], ready_table[q])
    BY <1>0 DEF Messages
  <1>4. CASE q # p
    BY <1>0, <1>1, <1>2, <1>3, <1>4, SamePosts
  <1>5. CASE q = p
    <2>1. wqe'[p] = Append(wqe[p], w)
      BY <1>0, SamePosts
    <2>2. wqe[p] \in Seq(WorkRequest) /\ ready_table[p] \in Nat /\ sends[p] \in Nat /\ rung[p] \in Nat
      BY <1>0, Nums
    <2>3. MessagesOf(wqe[p], sends[p], rung[p], ready_table[p])
      BY <1>3, <1>5
    <2>4. w.kind = "data" =>
            w.value \in 1..sends'[p] /\ (Len(wqe[p]) < rung'[p] => w.value <= ready_table[p])
      BY <1>1, <1>2
    <2>5. MessagesOf(Append(wqe[p], w), sends'[p], rung'[p], ready_table[p])
      BY <1>0, <1>1, <1>2, <2>2, <2>3, <2>4, MessagesAppend
    <2> QED BY <1>5, <2>1, <2>5
  <1> QED BY <1>4, <1>5

\* The doorbells already on the streams stay guarded.
LEMMA GuardedGrow ==
    ASSUME TInv, Guarded, wqe' \in [Pairs -> Seq(WorkRequest)],
           \A p \in Pairs : \A k \in 1..Len(wqe[p]) : wqe'[p][k] = wqe[p][k],
           rung' \in [Pairs -> Nat], ready_table' \in [Pairs -> Nat],
           \A p \in Pairs : rung[p] <= rung'[p] /\ ready_table[p] <= ready_table'[p]
    PROVE  \A i \in Ranks : GuardSeq(stream[i], wqe', rung', ready_table')
  <1> TAKE i \in Ranks
  <1>1. GuardSeq(stream[i], wqe, rung, ready_table) /\ stream[i] \in Seq(Op)
    BY Dreqs DEF Guarded
  <1> QED BY <1>1, TableTypes, GuardKept

LEMMA Announced ==
    ASSUME IInv, NEW p \in Pairs, NEW n \in 1..waits[p]
    PROVE  \/ n <= ready_table[p] \/ HeldBySeq(p, n, stream[p[1]])
           \/ HeldBySeq(p, n, dreqs[p[1]].ready)
  BY DEF IInv, Inv, Issued, IssuedOf

LEMMA PostRungKeeps ==
    ASSUME IInv, NEW p \in Pairs, NEW w, NextReady(p, w) \/ NextData(p, w),
           PostRung(p, w), NoneHeld(p), UNCHANGED <<ready_table, waits>>,
           w.kind = "data" => w.value <= ready_table[p]
    PROVE  Readies' /\ Messages' /\ Issued' /\ Guarded' /\ Together'
  <1>0. /\ TInv /\ Guarded /\ Issued /\ Together /\ w \in WorkRequest
        /\ wqe' = [wqe EXCEPT ![p] = Append(@, w)]
        /\ rung' = [rung EXCEPT ![p] = Len(wqe[p]) + 1]
        /\ UNCHANGED <<done, stream, dreqs>> /\ rung[p] = Len(wqe[p])
    BY DEF IInv, Inv, NextReady, NextData, PostRung, NoneHeld
  <1>1. Readies'
    BY <1>0, PostReadies
  <1>2. Messages'
    BY <1>0, PostMessages
  <1>3. Issued'
    BY <1>0 DEF Issued
  <1>4. rung' \in [Pairs -> Nat] /\ \A q \in Pairs : rung[q] <= rung'[q]
    BY <1>0, Nums, TableTypes
  <1>5. Guarded'
    <2>1. \A q \in Pairs : ready_table[q] <= ready_table'[q]
      BY <1>0, Nums
    <2>2. \A i \in Ranks : GuardSeq(stream[i], wqe', rung', ready_table')
      BY <1>0, <1>4, <2>1, SamePosts, GuardedGrow, TableTypes
    <2> QED BY <1>0, <2>2 DEF Guarded
  <1>6. Together'
    <2> SUFFICES ASSUME NEW q \in Pairs PROVE TogetherOf(q, wqe'[q], rung'[q], dreqs[q[1]])
      BY <1>0 DEF Together
    <2>1. CASE q = p
      <3>1. rung'[p] = Len(wqe[p]) + 1 /\ Len(wqe'[p]) = Len(wqe[p]) + 1 /\ Len(wqe[p]) \in Nat
        BY <1>0, SamePosts, Nums, TableTypes
      <3> QED BY <2>1, <3>1 DEF TogetherOf
    <2>2. CASE q # p
      <3>1. wqe'[q] = wqe[q] /\ rung'[q] = rung[q]
        BY <1>0, <2>2, SamePosts, TableTypes
      <3> QED BY <1>0, <3>1 DEF Together
    <2> QED BY <2>1, <2>2
  <1> QED BY <1>1, <1>2, <1>3, <1>5, <1>6

\* A message behind the doorbells was waited for; with nothing prepared for its
\* queue, its wait is over or on the stream.
LEMMA HeldInFront ==
    ASSUME IInv, NEW p \in Pairs, NonePrepared(p),
           NEW l \in (rung[p] + 1)..Len(wqe[p]), wqe[p][l].kind = "data"
    PROVE  /\ wqe[p][l].value <= ready_table[p] \/ HeldBySeq(p, wqe[p][l].value, stream[p[1]])
           /\ ~HeldBySeq(p, wqe[p][l].value, dreqs[p[1]].ready)
  <1>0. TInv /\ Counters /\ Messages /\ Together
    BY DEF IInv, Inv
  <1>1. l \in 1..Len(wqe[p])
    BY <1>0, Nums
  <1>2. wqe[p][l].value \in 1..sends[p]
    BY <1>0, <1>1 DEF Messages, MessagesOf
  <1>3. wqe[p][l].value \in 1..waits[p]
    BY <1>0, <1>2, InOrder
  <1>4. DOMAIN dreqs[p[1]].tx = 1..Len(dreqs[p[1]].tx)
    BY <1>0, RevPair, Dreqs, SeqElem
  <1>5. ~HeldBySeq(p, wqe[p][l].value, dreqs[p[1]].ready)
    BY <1>0, <1>4 DEF Together, TogetherOf, NonePrepared
  <1> QED BY <1>3, <1>5, Announced

LEMMA PostOnStreamKeeps ==
    ASSUME IInv, NEW p \in Pairs, NEW w, NextReady(p, w) \/ NextData(p, w),
           PostOnStream(p, w), NonePrepared(p), UNCHANGED <<ready_table, waits>>,
           w.kind = "data" => ~HeldBySeq(p, w.value, dreqs[p[1]].ready)
    PROVE  Readies' /\ Messages' /\ Issued' /\ Guarded' /\ Together'
  <1> DEFINE i == p[1]
             k == Len(wqe[p]) + 1
             e == RingOp(p, k)
  <1>0. /\ TInv /\ Guarded /\ Issued /\ Together /\ w \in WorkRequest
        /\ wqe' = [wqe EXCEPT ![p] = Append(@, w)]
        /\ stream' = [stream EXCEPT ![i] = Append(@, e)]
        /\ UNCHANGED <<rung, done, dreqs>>
    BY DEF IInv, Inv, NextReady, NextData, PostOnStream
  <1>1. /\ e \in Op /\ e.op = "ring" /\ e.pair = p /\ e.value = k /\ i \in Ranks
        /\ Len(wqe[p]) \in Nat /\ rung[p] \in Nat
    <2>1. TInv
      BY <1>0
    <2>2. k \in Nat /\ Len(wqe[p]) \in Nat /\ rung[p] \in Nat
      BY <2>1, Nums
    <2> HIDE DEF k
    <2> QED BY <2>2, RevPair, OpsAreOps DEF RingOp
  <1> HIDE DEF e
  <1>2. stream'[i] = Append(stream[i], e) /\ \A j \in Ranks : j # i => stream'[j] = stream[j]
    BY <1>0, <1>1 DEF TInv, TypeOK
  <1>3. stream[i] \in Seq(Op)
    BY <1>0, <1>1, Dreqs
  <1>4. Readies'
    BY <1>0, PostReadies
  <1>5. Messages'
    BY <1>0, PostMessages
  <1>6. Issued'
    <2> SUFFICES ASSUME NEW q \in Pairs, NEW n \in 1..waits[q]
                 PROVE  \/ n <= ready_table[q] \/ HeldBySeq(q, n, stream'[q[1]])
                        \/ HeldBySeq(q, n, dreqs[q[1]].ready)
      BY <1>0 DEF Issued, IssuedOf
    <2>1. q[1] \in Ranks
      BY RevPair
    <2>2. HeldBySeq(q, n, stream[q[1]]) => HeldBySeq(q, n, stream'[q[1]])
      BY <1>1, <1>2, <1>3, <2>1, HeldAppend
    <2> QED BY <2>2, Announced
  <1>7. \A l \in (rung[p] + 1)..k : wqe'[p][l].kind = "data" =>
           /\ wqe'[p][l].value <= ready_table[p] \/ HeldBySeq(p, wqe'[p][l].value, stream[i])
           /\ ~HeldBySeq(p, wqe'[p][l].value, dreqs[i].ready)
    <2> SUFFICES ASSUME NEW l \in (rung[p] + 1)..k, wqe'[p][l].kind = "data"
                 PROVE  /\ \/ wqe'[p][l].value <= ready_table[p]
                           \/ HeldBySeq(p, wqe'[p][l].value, stream[i])
                        /\ ~HeldBySeq(p, wqe'[p][l].value, dreqs[i].ready)
      OBVIOUS
    <2>1. CASE l = k
      <3>1. wqe'[p][l] = w
        BY <1>0, <2>1, SamePosts
      <3>2. w.kind = "data"
        BY <3>1
      <3>3. NextData(p, w)
        BY <3>2 DEF NextReady
      <3>4. w.value \in 1..waits[p]
        BY <1>0, <3>3, Nums DEF NextData
      <3> QED BY <3>1, <3>2, <3>4, Announced
    <2>2. CASE l # k
      <3>1. l \in (rung[p] + 1)..Len(wqe[p]) /\ l \in 1..Len(wqe[p])
        BY <1>1, <2>2
      <3>2. wqe'[p][l] = wqe[p][l]
        BY <1>0, <3>1, SamePosts
      <3> QED BY <3>1, <3>2, HeldInFront
    <2> QED BY <2>1, <2>2
  <1>8. Guarded'
    <2> SUFFICES ASSUME NEW j \in Ranks
                 PROVE  GuardSeq(stream'[j], wqe', rung, ready_table)
      BY <1>0 DEF Guarded
    <2>1. GuardSeq(stream[j], wqe', rung, ready_table)
      <3>1. \A q \in Pairs : rung[q] <= rung'[q] /\ ready_table[q] <= ready_table'[q]
        BY <1>0, Nums
      <3> QED BY <1>0, <3>1, SamePosts, GuardedGrow, TableTypes
    <2>2. CASE j # i
      BY <1>2, <2>1, <2>2
    <2>3. CASE j = i
      <3>1. \A l \in (rung[e.pair] + 1)..e.value : wqe'[e.pair][l].kind = "data" =>
                \/ wqe'[e.pair][l].value <= ready_table[e.pair]
                \/ HeldBySeq(e.pair, wqe'[e.pair][l].value, stream[i])
        BY <1>1, <1>7
      <3>2. GuardSeq(Append(stream[i], e), wqe', rung, ready_table)
        BY <1>1, <1>3, <2>1, <2>3, <3>1, GuardAppendRing
      <3> QED BY <1>2, <2>3, <3>2
    <2> QED BY <2>2, <2>3
  <1>9. Together'
    <2> SUFFICES ASSUME NEW q \in Pairs PROVE TogetherOf(q, wqe'[q], rung[q], dreqs[q[1]])
      BY <1>0 DEF Together
    <2>1. CASE q = p
      <3>1. Len(wqe'[p]) = k
        BY <1>0, SamePosts
      <3> QED BY <1>7, <2>1, <3>1 DEF TogetherOf
    <2>2. CASE q # p
      <3>1. wqe'[q] = wqe[q]
        BY <1>0, <2>2, SamePosts
      <3> QED BY <1>0, <3>1 DEF Together
    <2> QED BY <2>1, <2>2
  <1> QED BY <1>4, <1>5, <1>6, <1>8, <1>9

LEMMA PrepareKeeps ==
    ASSUME IInv, NEW p \in Pairs, comm_prepare_isend(p)
    PROVE  Readies' /\ Messages' /\ Issued' /\ Guarded' /\ Together'
  <1> DEFINE i == p[1]
             k == Len(wqe[p]) + 1
             e == RingOp(p, k)
             w == Data(sends[p] + 1)
  <1>0. /\ TInv /\ Guarded /\ Issued /\ Together
        /\ wqe' = [wqe EXCEPT ![p] = Append(@, w)]
        /\ dreqs' = [dreqs EXCEPT ![i].tx = Append(@, e)]
        /\ sends[p] < waits[p] /\ sends' = [sends EXCEPT ![p] = @ + 1]
        /\ UNCHANGED <<rung, done, stream, ready_table, readies, waits>>
    BY DEF IInv, Inv, comm_prepare_isend, MaySend, tables
  <1>1. /\ e \in Op /\ e.pair = p /\ i \in Ranks
        /\ Len(wqe[p]) \in Nat /\ rung[p] \in Nat
    <2>1. TInv
      BY <1>0
    <2>2. k \in Nat /\ Len(wqe[p]) \in Nat /\ rung[p] \in Nat
      BY <2>1, Nums
    <2> HIDE DEF k
    <2> QED BY <2>2, RevPair, OpsAreOps DEF RingOp
  <1>2. NextData(p, w) /\ w \in WorkRequest
    <2>1. TypeOK
      BY <1>0 DEF TInv
    <2>2. w \in WorkRequest /\ w.kind = "data" /\ w.value = sends[p] + 1
      BY <2>1, ReadyType
    <2> HIDE DEF w
    <2> QED BY <1>0, <2>2 DEF NextData
  <1> HIDE DEF e, w
  <1>3. /\ dreqs'[i].tx = Append(dreqs[i].tx, e) /\ dreqs'[i].ready = dreqs[i].ready
        /\ \A j \in Ranks : j # i => dreqs'[j] = dreqs[j]
    <2>1. Append(dreqs[i].tx, e) \in Seq(Op)
      BY <1>0, <1>1, Dreqs, SeqAppend
    <2>2. dreqs \in [Ranks -> [ready : Seq(Op), tx : Seq(Op)]]
      BY <1>0 DEF TInv, TypeOK
    <2> QED BY <1>0, <1>1, <2>1, <2>2
  <1>4. Readies'
    BY <1>0, <1>2, PostReadies
  <1>5. Messages'
    BY <1>0, <1>2, PostMessages
  <1>6. Issued'
    <2>1. \A q \in Pairs : dreqs'[q[1]].ready = dreqs[q[1]].ready
      BY <1>3, RevPair
    <2> QED BY <1>0, <2>1 DEF Issued
  <1>7. Guarded'
    <2>1. \A q \in Pairs : rung[q] <= rung'[q] /\ ready_table[q] <= ready_table'[q]
      BY <1>0, Nums
    <2> QED BY <1>0, <1>2, <2>1, SamePosts, GuardedGrow, TableTypes DEF Guarded
  <1>8. Together'
    <2> SUFFICES ASSUME NEW q \in Pairs PROVE TogetherOf(q, wqe'[q], rung[q], dreqs'[q[1]])
      BY <1>0 DEF Together
    <2>0. q[1] \in Ranks
      BY RevPair
    <2>3. /\ dreqs[i].tx \in Seq(Op) /\ Len(dreqs[i].tx) \in Nat
          /\ Len(dreqs'[i].tx) = Len(dreqs[i].tx) + 1 /\ dreqs'[i].tx[Len(dreqs[i].tx) + 1] = e
          /\ \A x \in 1..Len(dreqs[i].tx) : dreqs'[i].tx[x] = dreqs[i].tx[x]
      BY <1>0, <1>1, <1>3, Dreqs, SeqElem, SeqAppend
    <2>1. CASE q = p
      <3>1. \E x \in 1..Len(dreqs'[i].tx) : dreqs'[i].tx[x].pair = p
        BY <1>1, <2>3
      <3> QED BY <2>1, <3>1 DEF TogetherOf
    <2>2. CASE q # p
      <3>1. wqe'[q] = wqe[q] /\ TogetherOf(q, wqe[q], rung[q], dreqs[q[1]])
        BY <1>0, <1>2, <2>2, SamePosts DEF Together
      <3>2. CASE q[1] = i
        <4>1. (\E x \in 1..Len(dreqs[i].tx) : dreqs[i].tx[x].pair = q)
              => \E x \in 1..Len(dreqs'[i].tx) : dreqs'[i].tx[x].pair = q
          BY SMTT(30), <2>3
        <4> QED BY <1>3, <3>1, <3>2, <4>1 DEF TogetherOf
      <3>3. CASE q[1] # i
        BY <1>3, <2>0, <3>1, <3>3
      <3> QED BY <3>2, <3>3
    <2> QED BY <2>1, <2>2
  <1> QED BY <1>4, <1>5, <1>6, <1>7, <1>8

\* A wait that returned, or was queued, with the number n = waits[p] + 1.
LEMMA ExpectKeeps ==
    ASSUME NoWrap, IInv, NEW p \in Pairs, Expect(p),
           \A q \in Pairs : \A n : HeldBySeq(q, n, stream[q[1]]) => HeldBySeq(q, n, stream'[q[1]]),
           \A q \in Pairs : \A n : HeldBySeq(q, n, dreqs[q[1]].ready)
                                   => HeldBySeq(q, n, dreqs'[q[1]].ready),
           \/ waits[p] + 1 <= ready_table[p]
           \/ HeldBySeq(p, waits[p] + 1, stream'[p[1]])
           \/ HeldBySeq(p, waits[p] + 1, dreqs'[p[1]].ready)
    PROVE  Readies' /\ Messages' /\ Issued'
  <1>0. /\ TInv /\ Readies /\ Messages /\ waits' = [waits EXCEPT ![p] = @ + 1]
        /\ UNCHANGED <<ready_table, wqe, rung, done, readies, sends>>
    BY DEF IInv, Inv, Expect, queue
  <1>1. Readies' /\ Messages'
    BY <1>0 DEF Readies, Messages
  <1>2. Issued'
    <2> SUFFICES ASSUME NEW q \in Pairs, NEW n \in 1..waits'[q]
                 PROVE  \/ n <= ready_table[q] \/ HeldBySeq(q, n, stream'[q[1]])
                        \/ HeldBySeq(q, n, dreqs'[q[1]].ready)
      BY <1>0 DEF Issued, IssuedOf
    <2>1. n \in 1..waits[q] \/ (q = p /\ n = waits[p] + 1)
      <3>1. waits \in [Pairs -> Nat]
        BY <1>0 DEF TInv, TypeOK
      <3> QED BY <1>0, <3>1
    <2>2. CASE n \in 1..waits[q]
      BY <2>2, Announced
    <2>3. CASE q = p /\ n = waits[p] + 1
      BY <2>3
    <2> QED BY <2>1, <2>2, <2>3
  <1> QED BY <1>1, <1>2

LEMMA CpuWaitKeeps ==
    ASSUME NoWrap, IInv, NEW p \in Pairs, Expect(p), UNCHANGED gpu,
           ready_table[p] >= ready_values[p]
    PROVE  Readies' /\ Messages' /\ Issued' /\ Guarded' /\ Together'
  <1>0. /\ TInv /\ Counters /\ Guarded /\ Together /\ waits[p] < MaxMsgs
        /\ UNCHANGED <<stream, dreqs, wqe, rung, ready_table>>
    BY DEF IInv, Inv, Expect, queue, gpu
  <1>1. waits[p] + 1 <= ready_table[p]
    BY <1>0, CallNumbers, Nums
  <1>2. Readies' /\ Messages' /\ Issued'
    BY <1>0, <1>1, ExpectKeeps
  <1> QED BY <1>0, <1>2 DEF Guarded, Together

LEMMA StreamWaitKeeps ==
    ASSUME NoWrap, IInv, NEW p \in Pairs, comm_wait_ready_on_stream(p)
    PROVE  Readies' /\ Messages' /\ Issued' /\ Guarded' /\ Together'
  <1> DEFINE i == p[1]
             e == WaitOp(p, ready_values[p])
  <1>0. /\ TInv /\ Counters /\ Guarded /\ Together /\ Expect(p) /\ waits[p] < MaxMsgs
        /\ stream' = [stream EXCEPT ![i] = Append(@, e)]
        /\ UNCHANGED <<dreqs, wqe, rung, ready_table>>
    BY DEF IInv, Inv, Expect, queue, comm_wait_ready_on_stream
  <1>1. e \in Op /\ e.op = "wait" /\ IsWait(e, p, waits[p] + 1) /\ i \in Ranks
    BY <1>0, WaitOpOwn, CallNumbers DEF IsWait
  <1> HIDE DEF e
  <1>2. stream[i] \in Seq(Op) /\ stream'[i] = Append(stream[i], e)
        /\ \A j \in Ranks : j # i => stream'[j] = stream[j]
    BY <1>0, <1>1 DEF TInv, TypeOK
  <1>3. /\ \A q \in Pairs : \A n : HeldBySeq(q, n, stream[q[1]]) => HeldBySeq(q, n, stream'[q[1]])
        /\ HeldBySeq(p, waits[p] + 1, stream'[i])
    BY <1>1, <1>2, HeldAppend, RevPair
  <1>4. Readies' /\ Messages' /\ Issued'
    BY <1>0, <1>3, ExpectKeeps
  <1>5. Guarded'
    <2> SUFFICES ASSUME NEW j \in Ranks PROVE GuardSeq(stream'[j], wqe, rung, ready_table)
      BY <1>0 DEF Guarded
    <2>1. GuardSeq(stream[j], wqe, rung, ready_table)
      BY <1>0 DEF Guarded
    <2>2. CASE j = i
      <3>1. GuardSeq(Append(stream[i], e), wqe, rung, ready_table)
        BY <1>1, <1>2, <2>1, <2>2, GuardAppendWait
      <3> QED BY <1>2, <2>2, <3>1
    <2>3. CASE j # i
      BY <1>2, <2>1, <2>3
    <2> QED BY <2>2, <2>3
  <1> QED BY <1>0, <1>4, <1>5 DEF Together

LEMMA PrepareWaitKeeps ==
    ASSUME NoWrap, IInv, NEW p \in Pairs, comm_prepare_wait_ready(p)
    PROVE  Readies' /\ Messages' /\ Issued' /\ Guarded' /\ Together'
  <1> DEFINE i == p[1]
             e == WaitOp(p, ready_values[p])
  <1>0. /\ TInv /\ Counters /\ Messages /\ Guarded /\ Together /\ Expect(p) /\ waits[p] < MaxMsgs
        /\ dreqs' = [dreqs EXCEPT ![i].ready = Append(@, e)]
        /\ UNCHANGED <<stream, wqe, rung, ready_table>>
    BY DEF IInv, Inv, Expect, queue, comm_prepare_wait_ready
  <1>1. e \in Op /\ IsWait(e, p, waits[p] + 1) /\ i \in Ranks
    BY <1>0, WaitOpOwn, CallNumbers DEF IsWait
  <1> HIDE DEF e
  <1>2. /\ dreqs[i].ready \in Seq(Op) /\ dreqs'[i].ready = Append(dreqs[i].ready, e)
        /\ dreqs'[i].tx = dreqs[i].tx /\ \A j \in Ranks : j # i => dreqs'[j] = dreqs[j]
    <2>1. dreqs[i].ready \in Seq(Op) /\ Append(dreqs[i].ready, e) \in Seq(Op)
      BY <1>0, <1>1, Dreqs, SeqAppend
    <2>2. dreqs \in [Ranks -> [ready : Seq(Op), tx : Seq(Op)]]
      BY <1>0 DEF TInv, TypeOK
    <2> QED BY <1>0, <1>1, <2>1, <2>2
  <1>3. \A q \in Pairs : \A n : HeldBySeq(q, n, dreqs'[q[1]].ready) <=>
           HeldBySeq(q, n, dreqs[q[1]].ready) \/ (q = p /\ n = waits[p] + 1)
    <2> SUFFICES ASSUME NEW q \in Pairs, NEW n
                 PROVE  HeldBySeq(q, n, dreqs'[q[1]].ready) <=>
                          HeldBySeq(q, n, dreqs[q[1]].ready) \/ (q = p /\ n = waits[p] + 1)
      OBVIOUS
    <2>1. q[1] \in Ranks
      BY RevPair
    <2>2. CASE q[1] = i
      <3>1. HeldBySeq(q, n, dreqs'[q[1]].ready) <=>
              HeldBySeq(q, n, dreqs[q[1]].ready) \/ IsWait(e, q, n)
        <4>1. HeldBySeq(q, n, Append(dreqs[i].ready, e)) <=>
                HeldBySeq(q, n, dreqs[i].ready) \/ IsWait(e, q, n)
          BY <1>1, <1>2, HeldAppend
        <4> QED BY <1>2, <2>2, <4>1
      <3>2. IsWait(e, q, n) <=> q = p /\ n = waits[p] + 1
        BY <1>1 DEF IsWait
      <3> QED BY <3>1, <3>2
    <2>3. CASE q[1] # i
      BY <1>2, <2>1, <2>3
    <2> QED BY <2>2, <2>3
  <1>4. Readies' /\ Messages' /\ Issued'
    BY <1>0, <1>3, ExpectKeeps
  <1>5. Guarded'
    BY <1>0 DEF Guarded
  <1>6. Together'
    <2> SUFFICES ASSUME NEW q \in Pairs, NEW l \in (rung[q] + 1)..Len(wqe[q]),
                        wqe[q][l].kind = "data",
                        HeldBySeq(q, wqe[q][l].value, dreqs'[q[1]].ready)
                 PROVE  \E x \in 1..Len(dreqs'[q[1]].tx) : dreqs'[q[1]].tx[x].pair = q
      BY <1>0 DEF Together, TogetherOf
    <2>1. wqe[q][l].value \in 1..waits[q] /\ waits[q] \in Nat
      <3>1. l \in 1..Len(wqe[q])
        BY <1>0, Nums
      <3>2. wqe[q][l].value \in 1..sends[q]
        BY <1>0, <3>1 DEF Messages, MessagesOf
      <3>3. sends[q] \in Nat /\ waits[q] \in Nat /\ sends[q] <= waits[q]
        BY <1>0, InOrder
      <3> QED BY <3>2, <3>3
    <2>2. HeldBySeq(q, wqe[q][l].value, dreqs[q[1]].ready)
      <3>1. ~(q = p /\ wqe[q][l].value = waits[p] + 1)
        BY <2>1
      <3> QED BY <1>3, <3>1
    <2>3. \E x \in 1..Len(dreqs[q[1]].tx) : dreqs[q[1]].tx[x].pair = q
      BY <1>0, <2>2 DEF Together, TogetherOf
    <2>4. dreqs'[q[1]].tx = dreqs[q[1]].tx
      BY <1>2, RevPair
    <2> QED BY <2>3, <2>4
  <1> QED BY <1>4, <1>5, <1>6

LEMMA LaunchKeeps ==
    ASSUME IInv, NEW i \in Ranks, comm_prepared_requests(i)
    PROVE  Readies' /\ Messages' /\ Issued' /\ Guarded' /\ Together'
  <1> DEFINE r == dreqs[i].ready
             t == dreqs[i].tx
             s == stream[i]
             s2 == s \o r
  <1>0. /\ TInv /\ Counters /\ Readies /\ Messages /\ Guarded /\ Together
        /\ stream' = [stream EXCEPT ![i] = @ \o r \o t]
        /\ dreqs' = [dreqs EXCEPT ![i] = NoDreqs]
        /\ UNCHANGED <<ready_table, wqe, rung, done, readies, sends, waits>>
    BY DEF IInv, Inv, comm_prepared_requests, tables, queue, app
  <1>1. s \in Seq(Op) /\ r \in Seq(Op) /\ t \in Seq(Op) /\ s2 \in Seq(Op)
    BY <1>0, Dreqs, SeqConcat
  <1>2. stream'[i] = s2 \o t /\ \A j \in Ranks : j # i => stream'[j] = stream[j]
    BY <1>0 DEF TInv, TypeOK
  <1>3. dreqs'[i].ready = <<>> /\ \A j \in Ranks : j # i => dreqs'[j] = dreqs[j]
    BY <1>0 DEF TInv, TypeOK, NoDreqs
  <1>4. \A q \in Pairs : \A n : HeldBySeq(q, n, s) \/ HeldBySeq(q, n, r) => HeldBySeq(q, n, s2)
    BY <1>1, HeldConcat
  <1> HIDE DEF s2
  <1>5. Readies' /\ Messages'
    BY <1>0 DEF Readies, Messages
  <1>6. Issued'
    <2> SUFFICES ASSUME NEW q \in Pairs, NEW n \in 1..waits[q]
                 PROVE  \/ n <= ready_table[q] \/ HeldBySeq(q, n, stream'[q[1]])
                        \/ HeldBySeq(q, n, dreqs'[q[1]].ready)
      BY <1>0 DEF Issued, IssuedOf
    <2>1. q[1] \in Ranks
      BY RevPair
    <2>2. CASE q[1] # i
      BY <1>2, <1>3, <2>1, <2>2, Announced
    <2>3. CASE q[1] = i
      <3>1. n <= ready_table[q] \/ HeldBySeq(q, n, s2)
        BY <1>4, <2>3, Announced
      <3>2. HeldBySeq(q, n, s2) => HeldBySeq(q, n, s2 \o t)
        BY <1>1, HeldConcat
      <3> QED BY <1>2, <2>3, <3>1, <3>2
    <2> QED BY <2>2, <2>3
  <1>7. Guarded'
    <2> SUFFICES ASSUME NEW j \in Ranks PROVE GuardSeq(stream'[j], wqe, rung, ready_table)
      BY <1>0 DEF Guarded
    <2>1. GuardSeq(stream[j], wqe, rung, ready_table)
      BY <1>0 DEF Guarded
    <2>2. CASE j # i
      BY <1>2, <2>1, <2>2
    <2>3. CASE j = i
      <3>1. \A y \in 1..Len(r) : r[y].op # "ring"
        BY <1>0 DEF TInv, Own
      <3>2. GuardSeq(s2, wqe, rung, ready_table)
        BY <1>1, <2>1, <2>3, <3>1, GuardConcat DEF s2
      <3>3. ASSUME NEW y \in 1..Len(t), NEW l \in (rung[t[y].pair] + 1)..t[y].value,
                   wqe[t[y].pair][l].kind = "data"
            PROVE  \/ wqe[t[y].pair][l].value <= ready_table[t[y].pair]
                   \/ HeldBySeq(t[y].pair, wqe[t[y].pair][l].value, s2)
        <4> DEFINE q == t[y].pair
        <4>1. t[y] \in Op
          BY <1>1, SeqElem
        <4>2. q \in Pairs /\ t[y].value \in Nat
          BY <4>1 DEF Op
        <4>3. q[1] = i /\ t[y].value <= Len(wqe[q])
          <5>1. OwnOp(i, t[y], wqe) /\ t[y].op = "ring"
            BY <1>0 DEF TInv, Own, OwnSeq
          <5> QED BY <5>1 DEF OwnOp
        <4> HIDE DEF q
        <4>4. l \in 1..Len(wqe[q])
          <5>1. l \in (rung[q] + 1)..t[y].value
            BY DEF q
          <5>2. rung[q] \in Nat /\ Len(wqe[q]) \in Nat
            BY <1>0, <4>2, Nums
          <5> QED BY <4>2, <4>3, <5>1, <5>2
        <4>5. wqe[q][l].value \in 1..sends[q]
          BY <1>0, <3>3, <4>2, <4>4 DEF Messages, MessagesOf, q
        <4>6. wqe[q][l].value \in 1..waits[q]
          <5>1. sends[q] \in Nat /\ waits[q] \in Nat /\ sends[q] <= waits[q]
            BY <1>0, <4>2, InOrder
          <5> QED BY <4>5, <5>1
        <4>7. wqe[q][l].value <= ready_table[q] \/ HeldBySeq(q, wqe[q][l].value, s2)
          BY <1>4, <4>2, <4>3, <4>6, Announced
        <4> QED BY <4>7 DEF q
      <3>4. GuardSeq(s2 \o t, wqe, rung, ready_table)
        BY <1>1, <3>2, <3>3, GuardConcat
      <3> QED BY <1>2, <2>3, <3>4
    <2> QED BY <2>2, <2>3
  <1>8. Together'
    <2> SUFFICES ASSUME NEW q \in Pairs PROVE TogetherOf(q, wqe[q], rung[q], dreqs'[q[1]])
      BY <1>0 DEF Together
    <2>1. CASE q[1] = i
      BY <1>3, <2>1 DEF TogetherOf, HeldBySeq
    <2>2. CASE q[1] # i
      BY <1>0, <1>3, <2>2, RevPair DEF Together
    <2> QED BY <2>1, <2>2
  <1> QED BY <1>5, <1>6, <1>7, <1>8

LEMMA StreamStepKeeps ==
    ASSUME IInv, NEW i \in Ranks, StreamStep(i)
    PROVE  Readies' /\ Messages' /\ Issued' /\ Guarded' /\ Together' /\
           \A p \in Pairs : rung[p] <= rung'[p]
  <1> DEFINE s == stream[i]
             op == Head(s)
  <1>0. /\ TInv /\ Counters /\ Readies /\ Messages /\ Guarded /\ Together /\ s # <<>>
        /\ \/ op.op = "wait" /\ ready_table[op.pair] >= op.value /\ UNCHANGED rung
           \/ /\ op.op = "ring"
              /\ rung' = [rung EXCEPT ![op.pair] = IF @ < op.value THEN op.value ELSE @]
        /\ stream' = [stream EXCEPT ![i] = Tail(@)]
        /\ UNCHANGED <<ready_table, wqe, done, dreqs, readies, sends, waits>>
    BY DEF IInv, Inv, StreamStep, tables, app
  <1>1. /\ s \in Seq(Op) /\ Tail(s) \in Seq(Op) /\ op \in Op /\ op = s[1] /\ 1 \in 1..Len(s)
    BY <1>0, Dreqs, SeqTail
  <1>2. op.pair \in Pairs /\ op.value \in Nat /\ OwnOp(i, op, wqe)
    <2>1. op.pair \in Pairs /\ op.value \in Nat
      BY <1>1 DEF Op
    <2> QED BY <1>0, <1>1, <2>1 DEF TInv, Own, OwnSeq
  <1>3. stream'[i] = Tail(s) /\ \A j \in Ranks : j # i => stream'[j] = stream[j]
    BY <1>0 DEF TInv, TypeOK
  <1> HIDE DEF s, op
  <1>4. /\ rung' \in [Pairs -> Nat] /\ \A q \in Pairs : rung[q] <= rung'[q]
        /\ \A q \in Pairs : rung'[q] = rung[q] \/ (q = op.pair /\ op.op = "ring" /\ rung'[q] = op.value)
    <2>1. rung \in [Pairs -> Nat]
      BY <1>0, TableTypes
    <2>2. CASE UNCHANGED rung
      BY <2>1, <2>2
    <2>3. CASE /\ op.op = "ring"
               /\ rung' = [rung EXCEPT ![op.pair] = IF @ < op.value THEN op.value ELSE @]
      BY <1>2, <2>1, <2>3
    <2> QED BY <1>0, <2>2, <2>3
  <1>5. op.op = "wait" => op.value <= ready_table[op.pair]
    BY <1>0, <1>2, Nums
  <1>6. Readies'
    BY <1>0 DEF Readies
  <1>7. Messages'
    <2> SUFFICES ASSUME NEW q \in Pairs, NEW k \in 1..Len(wqe[q]), wqe[q][k].kind = "data"
                 PROVE  wqe[q][k].value \in 1..sends[q]
                        /\ (k <= rung'[q] => wqe[q][k].value <= ready_table[q])
      BY <1>0 DEF Messages, MessagesOf
    <2>1. wqe[q][k].value \in 1..sends[q] /\ (k <= rung[q] => wqe[q][k].value <= ready_table[q])
      BY <1>0 DEF Messages, MessagesOf
    <2>2. CASE k <= rung'[q] /\ ~(k <= rung[q])
      <3>1. q = op.pair /\ op.op = "ring" /\ k \in (rung[q] + 1)..op.value
        BY <1>0, <1>2, <1>4, <2>2, Nums
      <3>2. GuardOp(s, 1, wqe, rung, ready_table)
        BY <1>0, <1>1, <3>1 DEF Guarded, GuardSeq, s
      <3>3. wqe[q][k].value <= ready_table[q] \/ WaitBefore(q, wqe[q][k].value, s, 1)
        BY <1>1, <3>1, <3>2 DEF GuardOp
      <3>4. ~WaitBefore(q, wqe[q][k].value, s, 1)
        BY DEF WaitBefore
      <3> QED BY <2>1, <3>3, <3>4
    <2> QED BY <2>1, <2>2
  <1>8. Issued'
    <2> SUFFICES ASSUME NEW q \in Pairs, NEW n \in 1..waits[q]
                 PROVE  \/ n <= ready_table[q] \/ HeldBySeq(q, n, stream'[q[1]])
                        \/ HeldBySeq(q, n, dreqs[q[1]].ready)
      BY <1>0 DEF Issued, IssuedOf
    <2>1. q[1] \in Ranks
      BY RevPair
    <2>2. CASE q[1] # i
      BY <1>3, <2>1, <2>2, Announced
    <2>3. CASE q[1] = i
      <3>1. HeldBySeq(q, n, s) => HeldBySeq(q, n, Tail(s)) \/ IsWait(op, q, n)
        BY <1>0, <1>1, HeldTail DEF op
      <3>2. IsWait(op, q, n) => n <= ready_table[q]
        BY <1>5 DEF IsWait
      <3> QED BY <1>3, <2>3, <3>1, <3>2, Announced DEF s
    <2> QED BY <2>2, <2>3
  <1>9. Guarded'
    <2> SUFFICES ASSUME NEW j \in Ranks PROVE GuardSeq(stream'[j], wqe, rung', ready_table)
      BY <1>0 DEF Guarded
    <2>1. GuardSeq(stream[j], wqe, rung', ready_table)
      <3>1. \A q \in Pairs : rung[q] <= rung'[q] /\ ready_table[q] <= ready_table'[q]
        BY <1>0, <1>4, Nums
      <3>2. GuardSeq(stream[j], wqe', rung', ready_table')
        BY <1>0, <1>4, <3>1, GuardedGrow, TableTypes
      <3> QED BY <1>0, <3>2
    <2>2. CASE j # i
      BY <1>3, <2>1, <2>2
    <2>3. CASE j = i
      <3>1. GuardSeq(Tail(s), wqe, rung', ready_table)
        BY <1>0, <1>1, <1>5, <2>1, <2>3, GuardTail DEF s, op
      <3> QED BY <1>3, <2>3, <3>1
    <2> QED BY <2>2, <2>3
  <1>10. Together'
    <2> SUFFICES ASSUME NEW q \in Pairs, NEW l \in (rung'[q] + 1)..Len(wqe[q]),
                        wqe[q][l].kind = "data",
                        HeldBySeq(q, wqe[q][l].value, dreqs[q[1]].ready)
                 PROVE  \E x \in 1..Len(dreqs[q[1]].tx) : dreqs[q[1]].tx[x].pair = q
      BY <1>0 DEF Together, TogetherOf
    <2>1. l \in (rung[q] + 1)..Len(wqe[q])
      BY <1>0, <1>4, Nums
    <2> QED BY <1>0, <2>1 DEF Together, TogetherOf
  <1> QED BY <1>4, <1>6, <1>7, <1>8, <1>9, <1>10

\* The HCA executes a queue in order, so what it writes is not below the cell.
LEMMA HcaGrows ==
    ASSUME IInv, NEW p \in Pairs, HcaExecute(p)
    PROVE  /\ ready_table' \in [Pairs -> Nat]
           /\ \A q \in Pairs : ready_table[q] <= ready_table'[q]
           /\ ReadiesOf(wqe[p], ready_table'[Rev(p)], readies[p], done[p] + 1)
           /\ \A q \in Pairs : q # Rev(p) => ready_table'[q] = ready_table[q]
  <1> DEFINE k == done[p] + 1
             w == wqe[p][k]
             t == ready_table[Rev(p)]
             v == IF w.inline THEN w.value ELSE remote_ready_values[p]
  <1>0. /\ TInv /\ Readies /\ done[p] < rung[p]
        /\ \/ w.kind = "ready" /\ ready_table' = [ready_table EXCEPT ![Rev(p)] = v]
           \/ UNCHANGED ready_table
    BY DEF IInv, Inv, HcaExecute
  <1>1. /\ k \in 1..Len(wqe[p]) /\ done[p] \in Nat /\ k > done[p] /\ t \in Nat
        /\ readies[p] \in Nat /\ Len(wqe[p]) \in Nat
        /\ \A l \in 1..Len(wqe[p]) : wqe[p][l].value \in Nat
    BY <1>0, Nums, RevPair
  <1>2. ReadiesOf(wqe[p], t, readies[p], done[p])
    BY <1>0 DEF Readies
  <1>3. w.kind = "ready" => v = w.value /\ v \in Nat /\ t <= v /\ v <= readies[p]
    BY <1>1, <1>2 DEF ReadiesOf
  <1>4. w.kind = "ready" => ReadiesOf(wqe[p], v, readies[p], done[p] + 1)
    BY <1>1, <1>2, <1>3 DEF ReadiesOf
  <1>5. ReadiesOf(wqe[p], t, readies[p], done[p] + 1)
    BY <1>1, <1>2 DEF ReadiesOf
  <1>6. ready_table \in [Pairs -> Nat] /\ Rev(p) \in Pairs
    BY <1>0, TableTypes, RevPair
  <1> HIDE DEF v, w
  <1>7. CASE w.kind = "ready" /\ ready_table' = [ready_table EXCEPT ![Rev(p)] = v]
    <2>1. /\ ready_table'[Rev(p)] = v /\ ready_table' \in [Pairs -> Nat]
          /\ \A q \in Pairs : q # Rev(p) => ready_table'[q] = ready_table[q]
      BY <1>3, <1>6, <1>7
    <2>2. \A q \in Pairs : ready_table[q] <= ready_table'[q]
      BY <1>3, <1>6, <1>7, <2>1
    <2> QED BY <1>4, <1>7, <2>1, <2>2
  <1>8. CASE UNCHANGED ready_table
    BY <1>5, <1>6, <1>8
  <1> QED BY <1>0, <1>7, <1>8

LEMMA HcaKeeps ==
    ASSUME IInv, NEW p \in Pairs, HcaExecute(p)
    PROVE  Readies' /\ Messages' /\ Issued' /\ Guarded' /\ Together'
  <1>0. /\ TInv /\ Readies /\ Messages /\ Guarded /\ Together
        /\ done' = [done EXCEPT ![p] = @ + 1]
        /\ UNCHANGED <<wqe, rung, stream, dreqs, readies, sends, waits>>
    BY DEF IInv, Inv, HcaExecute, gpu, app
  <1>1. ready_table' \in [Pairs -> Nat] /\ \A q \in Pairs : ready_table[q] <= ready_table'[q]
    BY HcaGrows
  <1>2. Readies'
    <2> SUFFICES ASSUME NEW q \in Pairs
                 PROVE  ReadiesOf(wqe[q], ready_table'[Rev(q)], readies[q], done'[q])
      BY <1>0 DEF Readies
    <2>1. done \in [Pairs -> Nat]
      BY <1>0 DEF TInv, TypeOK
    <2>2. CASE q = p
      BY <1>0, <2>1, <2>2, HcaGrows
    <2>3. CASE q # p
      <3>1. Rev(q) # Rev(p) /\ Rev(q) \in Pairs
        BY <2>3, RevPair
      <3>2. ready_table'[Rev(q)] = ready_table[Rev(q)] /\ done'[q] = done[q]
        BY <1>0, <2>1, <2>3, <3>1, HcaGrows
      <3> QED BY <1>0, <3>2 DEF Readies
    <2> QED BY <2>2, <2>3
  <1>3. Messages'
    <2> SUFFICES ASSUME NEW q \in Pairs, NEW k \in 1..Len(wqe[q]), wqe[q][k].kind = "data"
                 PROVE  wqe[q][k].value \in 1..sends[q]
                        /\ (k <= rung[q] => wqe[q][k].value <= ready_table'[q])
      BY <1>0 DEF Messages, MessagesOf
    <2>1. wqe[q][k].value \in 1..sends[q] /\ (k <= rung[q] => wqe[q][k].value <= ready_table[q])
      BY <1>0 DEF Messages, MessagesOf
    <2> QED BY <1>0, <1>1, <2>1, Nums
  <1>4. Issued'
    <2> SUFFICES ASSUME NEW q \in Pairs, NEW n \in 1..waits[q]
                 PROVE  \/ n <= ready_table'[q] \/ HeldBySeq(q, n, stream[q[1]])
                        \/ HeldBySeq(q, n, dreqs[q[1]].ready)
      BY <1>0 DEF Issued, IssuedOf
    <2>1. n <= ready_table[q] => n <= ready_table'[q]
      BY <1>0, <1>1, Nums
    <2> QED BY <2>1, Announced
  <1>5. Guarded'
    <2>1. \A q \in Pairs : rung[q] <= rung'[q]
      BY <1>0, Nums
    <2>2. \A i \in Ranks : GuardSeq(stream[i], wqe', rung', ready_table')
      BY <1>0, <1>1, <2>1, GuardedGrow, TableTypes
    <2> QED BY <1>0, <2>2 DEF Guarded
  <1>6. Together'
    BY <1>0 DEF Together
  <1> QED BY <1>2, <1>3, <1>4, <1>5, <1>6

-----------------------------------------------------------------------------
(* The counters *)

LEMMA AnnounceCounters ==
    ASSUME NoWrap, TInv, Counters, NEW p \in Pairs, Announce(p), UNCHANGED done,
           \A q \in Pairs : rung'[q] \in Nat /\ rung[q] <= rung'[q]
    PROVE  Counters'
  <1>0. /\ readies[p] < recvs[p] /\ readies' = [readies EXCEPT ![p] = @ + 1]
        /\ UNCHANGED <<ready_values, recvs, waits, sends>>
    BY DEF Announce
  <1>1. remote_ready_values' = [remote_ready_values EXCEPT ![p] = (@ + 1) % Modulus]
    BY DEF Announce
  <1>2. remote_ready_values[p] = readies[p] + 1
    <2>1. readies[p] < MaxMsgs
      BY <1>0, InOrder
    <2> QED BY <2>1, CallNumbers
  <1>3. readies'[p] = readies[p] + 1 /\ \A q \in Pairs : q # p => readies'[q] = readies[q]
    BY <1>0 DEF TInv, TypeOK
  <1>4. \A q \in Pairs : remote_ready_values'[q] = (readies'[q] + 1) % Modulus
    <2> TAKE q \in Pairs
    <2>1. CASE q = p
      <3>1. remote_ready_values'[p] = (remote_ready_values[p] + 1) % Modulus
        BY <1>1 DEF TInv, TypeOK
      <3> QED BY <1>2, <1>3, <2>1, <3>1
    <2>2. CASE q # p
      <3>1. remote_ready_values'[q] = remote_ready_values[q]
        BY <1>1, <2>2 DEF TInv, TypeOK
      <3>2. remote_ready_values[q] = (readies[q] + 1) % Modulus
        BY DEF Counters
      <3> QED BY <1>3, <2>2, <3>1, <3>2
    <2> QED BY <2>1, <2>2
  <1>5. \A q \in Pairs : ready_values'[q] = (waits'[q] + 1) % Modulus
    <2>1. \A q \in Pairs : ready_values[q] = (waits[q] + 1) % Modulus
      BY DEF Counters
    <2> QED BY <1>0, <2>1
  <1>6. \A q \in Pairs : /\ readies'[q] <= recvs'[q] /\ recvs'[q] <= MaxMsgs
                         /\ sends'[q] <= waits'[q] /\ waits'[q] <= MaxMsgs
                         /\ done'[q] <= rung'[q]
    <2> TAKE q \in Pairs
    <2>1. /\ readies[q] <= recvs[q] /\ recvs[q] <= MaxMsgs
          /\ sends[q] <= waits[q] /\ waits[q] <= MaxMsgs /\ done[q] <= rung[q]
      BY DEF Counters
    <2> QED BY <1>0, <1>3, <2>1, Nums
  <1> QED BY <1>4, <1>5, <1>6 DEF Counters

LEMMA ExpectCounters ==
    ASSUME NoWrap, TInv, Counters, NEW p \in Pairs, Expect(p)
    PROVE  Counters'
  <1>0. /\ waits[p] < MaxMsgs /\ waits' = [waits EXCEPT ![p] = @ + 1]
        /\ UNCHANGED <<remote_ready_values, recvs, readies, sends, rung, done>>
    BY DEF Expect, queue
  <1>1. ready_values' = [ready_values EXCEPT ![p] = (@ + 1) % Modulus]
    BY DEF Expect
  <1>2. ready_values[p] = waits[p] + 1
    BY <1>0, CallNumbers
  <1>3. waits'[p] = waits[p] + 1 /\ \A q \in Pairs : q # p => waits'[q] = waits[q]
    BY <1>0 DEF TInv, TypeOK
  <1>4. \A q \in Pairs : ready_values'[q] = (waits'[q] + 1) % Modulus
    <2> TAKE q \in Pairs
    <2>1. CASE q = p
      <3>1. ready_values'[p] = (ready_values[p] + 1) % Modulus
        BY <1>1 DEF TInv, TypeOK
      <3> QED BY <1>2, <1>3, <2>1, <3>1
    <2>2. CASE q # p
      <3>1. ready_values'[q] = ready_values[q]
        BY <1>1, <2>2 DEF TInv, TypeOK
      <3>2. ready_values[q] = (waits[q] + 1) % Modulus
        BY DEF Counters
      <3> QED BY <1>3, <2>2, <3>1, <3>2
    <2> QED BY <2>1, <2>2
  <1>5. \A q \in Pairs : remote_ready_values'[q] = (readies'[q] + 1) % Modulus
    <2>1. \A q \in Pairs : remote_ready_values[q] = (readies[q] + 1) % Modulus
      BY DEF Counters
    <2> QED BY <1>0, <2>1
  <1>6. \A q \in Pairs : /\ readies'[q] <= recvs'[q] /\ recvs'[q] <= MaxMsgs
                         /\ sends'[q] <= waits'[q] /\ waits'[q] <= MaxMsgs
                         /\ done'[q] <= rung'[q]
    <2> TAKE q \in Pairs
    <2>1. /\ readies[q] <= recvs[q] /\ recvs[q] <= MaxMsgs
          /\ sends[q] <= waits[q] /\ waits[q] <= MaxMsgs /\ done[q] <= rung[q]
      BY DEF Counters
    <2> QED BY <1>0, <1>3, <2>1, Nums
  <1> QED BY <1>4, <1>5, <1>6 DEF Counters

\* The steps that number nothing.
LEMMA OtherCounters ==
    ASSUME TInv, Counters, UNCHANGED <<ready_values, remote_ready_values, readies, waits>>,
           \A q \in Pairs : readies[q] <= recvs'[q] /\ recvs'[q] <= MaxMsgs,
           \A q \in Pairs : sends'[q] <= waits[q], \A q \in Pairs : done'[q] <= rung'[q]
    PROVE  Counters'
  <1>1. \A q \in Pairs : /\ remote_ready_values[q] = (readies[q] + 1) % Modulus
                         /\ ready_values[q] = (waits[q] + 1) % Modulus /\ waits[q] <= MaxMsgs
    BY DEF Counters
  <1>2. \A q \in Pairs : /\ remote_ready_values'[q] = (readies'[q] + 1) % Modulus
                         /\ ready_values'[q] = (waits'[q] + 1) % Modulus /\ waits'[q] <= MaxMsgs
    BY <1>1
  <1>3. \A q \in Pairs : readies'[q] <= recvs'[q] /\ recvs'[q] <= MaxMsgs
                         /\ sends'[q] <= waits'[q] /\ done'[q] <= rung'[q]
    OBVIOUS
  <1> QED BY <1>2, <1>3 DEF Counters

-----------------------------------------------------------------------------
(* The theorems *)

LEMMA InitInv == NoWrap /\ Init => IInv
  <1> SUFFICES ASSUME NoWrap, Init PROVE IInv
    OBVIOUS
  <1>0. TInv
    BY InitType
  <1>1. /\ \A p \in Pairs : /\ ready_table[p] = 0 /\ wqe[p] = <<>> /\ rung[p] = 0 /\ done[p] = 0
                            /\ recvs[p] = 0 /\ readies[p] = 0 /\ waits[p] = 0 /\ sends[p] = 0
        /\ \A i \in Ranks : stream[i] = <<>>
    BY DEF Init
  <1>2. \A p \in Pairs : /\ remote_ready_values[p] = (readies[p] + 1) % Modulus
                         /\ ready_values[p] = (waits[p] + 1) % Modulus
    <2>1. \A p \in Pairs : remote_ready_values[p] = 1 % Modulus /\ ready_values[p] = 1 % Modulus
      BY DEF Init
    <2>2. 0 + 1 = 1
      OBVIOUS
    <2> QED BY <1>1, <2>1, <2>2
  <1>3. Counters
    <2>1. \A p \in Pairs : /\ readies[p] <= recvs[p] /\ recvs[p] <= MaxMsgs
                           /\ sends[p] <= waits[p] /\ waits[p] <= MaxMsgs /\ done[p] <= rung[p]
      BY <1>1
    <2> QED BY <1>2, <2>1 DEF Counters
  <1>4. Readies /\ Messages
    BY <1>1, RevPair DEF Readies, ReadiesOf, Messages, MessagesOf
  <1>5. Issued
    BY <1>1 DEF Issued, IssuedOf
  <1>6. Guarded
    BY <1>1 DEF Guarded, GuardSeq
  <1>7. Together
    BY <1>1 DEF Together, TogetherOf
  <1> QED BY <1>0, <1>3, <1>4, <1>5, <1>6, <1>7 DEF IInv, Inv

LEMMA ReadyCallsInv ==
    ASSUME NoWrap, IInv, NEW p \in Pairs,
           comm_irecv(p) \/ comm_send_ready(p) \/ comm_send_ready_on_stream(p)
    PROVE  Inv'
  <1> DEFINE w == Ready(remote_ready_values[p], TRUE)
  <1>0. TInv /\ Counters
    BY DEF IInv, Inv
  <1>1. CASE comm_irecv(p)
    <2>0. /\ recvs[p] < MaxMsgs /\ recvs' = [recvs EXCEPT ![p] = @ + 1]
          /\ UNCHANGED <<ready_table, ready_values, remote_ready_values, wqe, rung, done,
                         stream, dreqs, readies, waits, sends>>
      BY <1>1 DEF comm_irecv, tables, queue, gpu
    <2>1. \A q \in Pairs : readies[q] <= recvs'[q] /\ recvs'[q] <= MaxMsgs
      <3>1. recvs \in [Pairs -> Nat]
        BY <1>0 DEF TInv, TypeOK
      <3>2. \A q \in Pairs : readies[q] <= recvs[q] /\ recvs[q] <= MaxMsgs /\ readies[q] \in Nat
        BY <1>0, Nums DEF Counters
      <3> QED BY <2>0, <3>1, <3>2
    <2>2. \A q \in Pairs : sends'[q] <= waits[q] /\ done'[q] <= rung'[q]
      BY <1>0, <2>0 DEF Counters
    <2>3. Counters'
      BY <1>0, <2>0, <2>1, <2>2, OtherCounters
    <2> QED BY <2>0, <2>3 DEF IInv, Inv, Readies, Messages, Issued, Guarded, Together
  <1>2. ASSUME Announce(p)
        PROVE  /\ NextReady(p, w) /\ w.kind # "data" /\ w \in WorkRequest
               /\ UNCHANGED <<ready_table, waits>>
    <2>1. /\ readies[p] < recvs[p] /\ readies' = [readies EXCEPT ![p] = @ + 1]
          /\ UNCHANGED <<sends, ready_table, waits>>
      BY <1>2 DEF Announce
    <2>2. remote_ready_values[p] = readies[p] + 1
      <3>1. readies[p] < MaxMsgs
        BY <1>0, <2>1, InOrder
      <3> QED BY <1>0, <3>1, CallNumbers
    <2>3. w \in WorkRequest /\ w.kind = "ready" /\ w.inline /\ w.value = remote_ready_values[p]
      BY <1>0, ReadyType DEF TInv
    <2> HIDE DEF w
    <2> QED BY <2>1, <2>2, <2>3 DEF NextReady
  <1> HIDE DEF w
  <1>3. CASE comm_send_ready(p)
    <2>1. PostRung(p, w) /\ Announce(p) /\ NoneHeld(p)
      BY <1>3 DEF comm_send_ready, w
    <2>2. Readies' /\ Messages' /\ Issued' /\ Guarded' /\ Together'
      BY <1>2, <2>1, PostRungKeeps
    <2>3. UNCHANGED done /\ \A q \in Pairs : rung'[q] \in Nat /\ rung[q] <= rung'[q]
      BY <1>0, <2>1, Nums, TableTypes DEF PostRung
    <2> QED BY <1>0, <2>1, <2>2, <2>3, AnnounceCounters DEF Inv
  <1>4. CASE comm_send_ready_on_stream(p)
    <2>1. PostOnStream(p, w) /\ Announce(p) /\ NonePrepared(p)
      BY <1>4 DEF comm_send_ready_on_stream, w
    <2>2. Readies' /\ Messages' /\ Issued' /\ Guarded' /\ Together'
      BY <1>2, <2>1, PostOnStreamKeeps
    <2>3. UNCHANGED done /\ \A q \in Pairs : rung'[q] \in Nat /\ rung[q] <= rung'[q]
      BY <1>0, <2>1, Nums DEF PostOnStream
    <2> QED BY <1>0, <2>1, <2>2, <2>3, AnnounceCounters DEF Inv
  <1> QED BY <1>1, <1>3, <1>4

LEMMA WaitCallsInv ==
    ASSUME NoWrap, IInv, NEW p \in Pairs,
           \/ comm_wait_ready(p) \/ WaitReadyReturn(p) \/ comm_test_ready(p)
           \/ comm_wait_ready_on_stream(p) \/ comm_prepare_wait_ready(p)
    PROVE  Inv'
  <1>0. TInv /\ Counters
    BY DEF IInv, Inv
  <1>1. CASE comm_wait_ready(p)
    BY <1>1 DEF comm_wait_ready, tables, queue, gpu, app,
                IInv, Inv, Counters, Readies, Messages, Issued, Guarded, Together
  <1>2. CASE WaitReadyReturn(p) \/ comm_test_ready(p)
    <2>1. Expect(p) /\ UNCHANGED gpu /\ ready_table[p] >= ready_values[p]
      BY <1>2 DEF WaitReadyReturn, comm_test_ready
    <2> QED BY <1>0, <2>1, CpuWaitKeeps, ExpectCounters DEF Inv
  <1>3. CASE comm_wait_ready_on_stream(p)
    <2>1. Expect(p)
      BY <1>3 DEF comm_wait_ready_on_stream
    <2> QED BY <1>0, <1>3, <2>1, StreamWaitKeeps, ExpectCounters DEF Inv
  <1>4. CASE comm_prepare_wait_ready(p)
    <2>1. Expect(p)
      BY <1>4 DEF comm_prepare_wait_ready
    <2> QED BY <1>0, <1>4, <2>1, PrepareWaitKeeps, ExpectCounters DEF Inv
  <1> QED BY <1>1, <1>2, <1>3, <1>4

LEMMA SendCallsInv ==
    ASSUME NoWrap, IInv, NEW p \in Pairs,
           comm_isend(p) \/ comm_isend_on_stream(p) \/ comm_prepare_isend(p)
    PROVE  Inv'
  <1> DEFINE w == Data(sends[p] + 1)
  <1>0. TInv /\ Counters
    BY DEF IInv, Inv
  <1>1. MaySend(p)
    BY DEF comm_isend, comm_isend_on_stream, comm_prepare_isend
  <1>2. /\ sends[p] < waits[p] /\ sends' = [sends EXCEPT ![p] = @ + 1]
        /\ UNCHANGED <<ready_table, ready_values, remote_ready_values, recvs, readies, waits>>
    BY <1>1 DEF MaySend, tables
  <1>3. w \in WorkRequest /\ w.kind = "data" /\ w.value = sends[p] + 1
    BY <1>0, ReadyType DEF TInv
  <1>4. w.value \in 1..waits[p] /\ (sends[p] + 1) % Modulus = w.value
    <2>1. sends[p] < MaxMsgs
      BY <1>0, <1>2, InOrder
    <2>2. (sends[p] + 1) % Modulus = sends[p] + 1
      BY <1>0, <2>1, CallNumbers
    <2> HIDE DEF w
    <2>3. w.value \in 1..waits[p]
      BY <1>0, <1>2, <1>3, Nums
    <2> QED BY <1>3, <2>2, <2>3
  <1> HIDE DEF w
  <1>5. NextData(p, w)
    BY <1>2, <1>3 DEF NextData
  <1>6. ASSUME \A q \in Pairs : done'[q] <= rung'[q]
        PROVE  Counters'
    <2>1. \A q \in Pairs : sends'[q] <= waits[q]
      <3>1. sends \in [Pairs -> Nat]
        BY <1>0 DEF TInv, TypeOK
      <3>2. \A q \in Pairs : sends[q] <= waits[q] /\ waits[q] \in Nat
        BY <1>0, Nums DEF Counters
      <3> QED BY <1>2, <3>1, <3>2
    <2>2. \A q \in Pairs : readies[q] <= recvs'[q] /\ recvs'[q] <= MaxMsgs
      BY <1>0, <1>2 DEF Counters
    <2> QED BY <1>0, <1>2, <1>6, <2>1, <2>2, OtherCounters
  <1>7. \A q \in Pairs : done[q] <= rung[q] /\ done[q] \in Nat /\ rung[q] \in Nat
                         /\ rung[q] <= Len(wqe[q]) /\ Len(wqe[q]) \in Nat
    BY <1>0, Nums DEF Counters
  <1>8. CASE comm_isend(p)
    <2>1. PostRung(p, w) /\ NoneHeld(p) /\ ~InWaits(p, w.value)
      <3>1. PostRung(p, w) /\ NoneHeld(p) /\ ~InWaits(p, (sends[p] + 1) % Modulus)
        BY <1>8 DEF comm_isend, w
      <3> QED BY <1>4, <3>1
    <2>2. w.value <= ready_table[p]
      BY <1>4, <2>1, Announced DEF InWaits
    <2>3. Readies' /\ Messages' /\ Issued' /\ Guarded' /\ Together'
      BY <1>2, <1>5, <2>1, <2>2, PostRungKeeps
    <2>4. \A q \in Pairs : done'[q] <= rung'[q]
      BY <1>0, <1>7, <2>1, TableTypes DEF PostRung
    <2> QED BY <1>6, <2>3, <2>4 DEF Inv
  <1>9. CASE comm_isend_on_stream(p)
    <2>1. PostOnStream(p, w) /\ NonePrepared(p) /\ ~HeldBySeq(p, w.value, dreqs[p[1]].ready)
      <3>1. /\ PostOnStream(p, w) /\ NonePrepared(p)
            /\ ~HeldBySeq(p, (sends[p] + 1) % Modulus, dreqs[p[1]].ready)
        BY <1>9 DEF comm_isend_on_stream, w
      <3> QED BY <1>4, <3>1
    <2>2. Readies' /\ Messages' /\ Issued' /\ Guarded' /\ Together'
      BY <1>2, <1>5, <2>1, PostOnStreamKeeps
    <2>3. \A q \in Pairs : done'[q] <= rung'[q]
      BY <1>7, <2>1 DEF PostOnStream
    <2> QED BY <1>6, <2>2, <2>3 DEF Inv
  <1>10. CASE comm_prepare_isend(p)
    <2>1. \A q \in Pairs : done'[q] <= rung'[q]
      BY <1>7, <1>10 DEF comm_prepare_isend
    <2> QED BY <1>6, <1>10, <2>1, PrepareKeeps DEF Inv
  <1> QED BY <1>8, <1>9, <1>10

LEMMA NextInv ==
    ASSUME NoWrap, IInv, [Next]_vars
    PROVE  IInv'
  <1>0. TInv /\ Counters /\ TInv'
    BY NextType DEF IInv, Inv
  <1> SUFFICES Inv'
    BY <1>0 DEF IInv
  <1>1. CASE UNCHANGED vars
    BY <1>1 DEF vars, tables, queue, gpu, app,
                IInv, Inv, Counters, Readies, Messages, Issued, Guarded, Together
  <1>2. ASSUME NEW p \in Pairs,
               \/ comm_irecv(p) \/ comm_send_ready(p) \/ comm_send_ready_on_stream(p)
               \/ comm_wait_ready(p) \/ WaitReadyReturn(p) \/ comm_test_ready(p)
               \/ comm_wait_ready_on_stream(p) \/ comm_prepare_wait_ready(p)
               \/ comm_isend(p) \/ comm_isend_on_stream(p) \/ comm_prepare_isend(p)
        PROVE  Inv'
    BY <1>2, ReadyCallsInv, WaitCallsInv, SendCallsInv
  <1>3. ASSUME NEW p \in Pairs, HcaExecute(p)
        PROVE  Inv'
    <2>1. /\ done[p] < rung[p] /\ done' = [done EXCEPT ![p] = @ + 1]
          /\ UNCHANGED <<ready_values, remote_ready_values, rung, recvs, readies, waits, sends>>
      BY <1>3 DEF HcaExecute, app
    <2>2. \A q \in Pairs : done'[q] <= rung'[q]
      <3>1. done \in [Pairs -> Nat] /\ rung \in [Pairs -> Nat]
        BY <1>0 DEF TInv, TypeOK
      <3>2. \A q \in Pairs : done[q] <= rung[q]
        BY <1>0 DEF Counters
      <3> QED BY <2>1, <3>1, <3>2
    <2>3. \A q \in Pairs : readies[q] <= recvs'[q] /\ recvs'[q] <= MaxMsgs /\ sends'[q] <= waits[q]
      BY <1>0, <2>1 DEF Counters
    <2>4. Counters'
      BY <1>0, <2>1, <2>2, <2>3, OtherCounters
    <2> QED BY <1>3, <2>4, HcaKeeps DEF Inv
  <1>4. ASSUME NEW i \in Ranks, comm_prepared_requests(i)
        PROVE  Inv'
    <2>1. Counters'
      BY <1>0, <1>4 DEF comm_prepared_requests, tables, queue, app, Counters
    <2> QED BY <1>4, <2>1, LaunchKeeps DEF Inv
  <1>5. ASSUME NEW i \in Ranks, StreamStep(i)
        PROVE  Inv'
    <2>1. UNCHANGED <<ready_values, remote_ready_values, done, recvs, readies, waits, sends>>
      BY <1>5 DEF StreamStep, tables, app
    <2>2. \A q \in Pairs : done'[q] <= rung'[q]
      <3>1. \A q \in Pairs : rung[q] <= rung'[q]
        BY <1>5, StreamStepKeeps
      <3>2. \A q \in Pairs : done[q] <= rung[q] /\ done[q] \in Nat /\ rung[q] \in Nat
        BY <1>0, Nums DEF Counters
      <3>3. rung' \in [Pairs -> Nat]
        BY <1>0 DEF TInv, TypeOK
      <3> QED BY <2>1, <3>1, <3>2, <3>3
    <2>3. \A q \in Pairs : readies[q] <= recvs'[q] /\ recvs'[q] <= MaxMsgs /\ sends'[q] <= waits[q]
      BY <1>0, <2>1 DEF Counters
    <2>4. Counters'
      BY <1>0, <2>1, <2>2, <2>3, OtherCounters
    <2> QED BY <1>5, <2>4, StreamStepKeeps DEF Inv
  <1> QED BY <1>1, <1>2, <1>3, <1>4, <1>5 DEF Next

LEMMA Invariance == ASSUME NoWrap PROVE Spec => []IInv
  <1>1. Init => IInv
    BY InitInv
  <1>2. IInv /\ [Next]_vars => IInv'
    BY NextInv
  <1> QED BY <1>1, <1>2, PTL DEF Spec

LEMMA InvDataHasReceive == ASSUME IInv PROVE DataHasReceive
  <1> SUFFICES ASSUME NEW p \in Pairs, NEW k \in 1..rung[p],
                      k \in DOMAIN wqe[p], wqe[p][k].kind = "data"
               PROVE  wqe[p][k].value <= recvs[Rev(p)]
    BY DEF DataHasReceive
  <1>0. TInv /\ Counters /\ Readies /\ Messages
    BY DEF IInv, Inv
  <1>1. k \in 1..Len(wqe[p]) /\ wqe[p][k].value \in Nat
    BY <1>0, Nums
  <1>2. k <= rung[p]
    BY <1>0, Nums
  <1>3. wqe[p][k].value <= ready_table[p]
    BY <1>0, <1>1, <1>2 DEF Messages, MessagesOf
  <1>4. Rev(p) \in Pairs /\ Rev(Rev(p)) = p
    BY RevPair
  <1>5. ready_table[p] <= readies[Rev(p)]
    BY <1>0, <1>4 DEF Readies, ReadiesOf
  <1>6. readies[Rev(p)] <= recvs[Rev(p)]
    BY <1>0, <1>4 DEF Counters
  <1>7. ready_table[p] \in Nat /\ readies[Rev(p)] \in Nat /\ recvs[Rev(p)] \in Nat
    BY <1>0, <1>4, Nums
  <1> QED BY <1>1, <1>3, <1>5, <1>6, <1>7

\* While no counter wraps, a message never reaches the HCA of its sender before
\* its receiver has posted the receive and said so with comm_send_ready, whatever
\* mix of CPU, stream and descriptor calls the two ranks use.
THEOREM HandshakeHolds == ASSUME NoWrap PROVE Spec => []DataHasReceive
  <1>1. IInv => DataHasReceive
    BY InvDataHasReceive
  <1> QED BY <1>1, Invariance, PTL

-----------------------------------------------------------------------------
(* The cells count the readies *)

\* The readies among the first k work requests of a queue.
ReadySet(q, k)  == {l \in 1..k : q[l].kind = "ready"}
ReadyUpto(q, k) == Cardinality(ReadySet(q, k))

\* A ready carries its number; r readies were posted, and the d work requests that
\* were executed have left their count in cell t.
CountOf(q, t, r, d) ==
    /\ r = ReadyUpto(q, Len(q)) /\ t = ReadyUpto(q, d)
    /\ \A k \in 1..Len(q) : q[k].kind = "ready" => q[k].value = ReadyUpto(q, k)
Counting == \A p \in Pairs : CountOf(wqe[p], ready_table[Rev(p)], readies[p], done[p])

LEMMA ReadyFinite ==
    ASSUME NEW q, NEW k \in Nat
    PROVE  IsFiniteSet(ReadySet(q, k)) /\ ReadyUpto(q, k) \in Nat
  <1>1. IsFiniteSet(1..k)
    BY FS_Interval
  <1>2. IsFiniteSet(ReadySet(q, k))
    BY <1>1, FS_Subset DEF ReadySet
  <1> QED BY <1>2, FS_CardinalityType DEF ReadyUpto

LEMMA ReadyNext ==
    ASSUME NEW q, NEW k \in Nat
    PROVE  ReadyUpto(q, k + 1) = IF q[k + 1].kind = "ready" THEN ReadyUpto(q, k) + 1
                                 ELSE ReadyUpto(q, k)
  <1>0. IsFiniteSet(ReadySet(q, k))
    BY ReadyFinite
  <1>1. IsFiniteSet(ReadySet(q, k)) /\ k + 1 \notin ReadySet(q, k)
    BY <1>0 DEF ReadySet
  <1>2. CASE q[k + 1].kind = "ready"
    <2>1. ReadySet(q, k + 1) = ReadySet(q, k) \union {k + 1}
      BY <1>2 DEF ReadySet
    <2>2. Cardinality(ReadySet(q, k) \union {k + 1}) = Cardinality(ReadySet(q, k)) + 1
      BY <1>1, FS_AddElement
    <2> QED BY <1>2, <2>1, <2>2 DEF ReadyUpto
  <1>3. CASE q[k + 1].kind # "ready"
    <2>1. ReadySet(q, k + 1) = ReadySet(q, k)
      BY <1>3 DEF ReadySet
    <2> QED BY <1>3, <2>1 DEF ReadyUpto
  <1> QED BY <1>2, <1>3

LEMMA CountAppend ==
    ASSUME NEW q \in Seq(WorkRequest), NEW t \in Nat, NEW r \in Nat, NEW d \in 0..Len(q),
           NEW w \in WorkRequest, CountOf(q, t, r, d)
    PROVE  /\ w.kind = "ready" /\ w.value = r + 1 => CountOf(Append(q, w), t, r + 1, d)
           /\ w.kind = "data" => CountOf(Append(q, w), t, r, d)
  <1> DEFINE q2 == Append(q, w)
             n  == Len(q)
  <1>1. n \in Nat /\ Len(q2) = n + 1 /\ q2[n + 1] = w /\ \A k \in 1..n : q2[k] = q[k]
    BY SeqElem, SeqAppend
  <1> HIDE DEF q2, n
  <1>2. \A k \in 0..n : ReadyUpto(q2, k) = ReadyUpto(q, k)
    <2> TAKE k \in 0..n
    <2>1. \A l \in 1..k : q2[l] = q[l]
      BY <1>1
    <2>2. ReadySet(q2, k) = ReadySet(q, k)
      BY <2>1 DEF ReadySet
    <2> QED BY <2>2 DEF ReadyUpto
  <1>3. r = ReadyUpto(q, n) /\ t = ReadyUpto(q, d) /\ d \in 0..n
    BY DEF CountOf, n
  <1>4. ReadyUpto(q2, n + 1) = IF w.kind = "ready" THEN r + 1 ELSE r
    <2>1. ReadyUpto(q2, n + 1) = IF q2[n + 1].kind = "ready" THEN ReadyUpto(q2, n) + 1
                                 ELSE ReadyUpto(q2, n)
      BY <1>1, ReadyNext
    <2>2. n \in 0..n
      BY <1>1
    <2>3. ReadyUpto(q2, n) = r
      BY <1>2, <1>3, <2>2
    <2> QED BY <1>1, <2>1, <2>3
  <1>5. t = ReadyUpto(q2, d)
    BY <1>2, <1>3
  <1>6. ASSUME NEW k \in 1..(n + 1), q2[k].kind = "ready", w.kind = "ready" => w.value = r + 1
        PROVE  q2[k].value = ReadyUpto(q2, k)
    <2>1. CASE k = n + 1
      BY <1>1, <1>4, <1>6, <2>1
    <2>2. CASE k \in 1..n
      <3>1. q2[k] = q[k] /\ ReadyUpto(q2, k) = ReadyUpto(q, k)
        BY <1>1, <1>2, <2>2
      <3>2. q[k].value = ReadyUpto(q, k)
        BY <1>6, <2>2, <3>1 DEF CountOf, n
      <3> QED BY <3>1, <3>2
    <2> QED BY <1>1, <2>1, <2>2
  <1>7. w.kind = "ready" /\ w.value = r + 1 => CountOf(q2, t, r + 1, d)
    BY <1>1, <1>4, <1>5, <1>6 DEF CountOf
  <1>8. w.kind = "data" => CountOf(q2, t, r, d)
    BY <1>1, <1>4, <1>5, <1>6 DEF CountOf
  <1> QED BY <1>7, <1>8 DEF q2

LEMMA CountPost ==
    ASSUME IInv, Counting, NEW p \in Pairs, NEW w, NextReady(p, w) \/ NextData(p, w),
           wqe' = [wqe EXCEPT ![p] = Append(@, w)], UNCHANGED <<ready_table, done>>
    PROVE  Counting'
  <1>0. TInv /\ Counters /\ w \in WorkRequest
    BY DEF IInv, Inv, NextReady, NextData
  <1> SUFFICES ASSUME NEW q \in Pairs
               PROVE  CountOf(wqe'[q], ready_table[Rev(q)], readies'[q], done[q])
    BY DEF Counting
  <1>1. CountOf(wqe[q], ready_table[Rev(q)], readies[q], done[q])
    BY DEF Counting
  <1>2. readies \in [Pairs -> Nat]
    BY <1>0 DEF TInv, TypeOK
  <1>3. CASE q # p
    <2>1. wqe'[q] = wqe[q]
      BY <1>0, <1>3, SamePosts
    <2>2. readies'[q] = readies[q]
      BY <1>2, <1>3 DEF NextReady, NextData
    <2> QED BY <1>1, <2>1, <2>2
  <1>4. CASE q = p
    <2>1. wqe'[p] = Append(wqe[p], w)
      BY <1>0, SamePosts
    <2>2. /\ wqe[p] \in Seq(WorkRequest) /\ ready_table[Rev(p)] \in Nat /\ readies[p] \in Nat
          /\ done[p] \in 0..Len(wqe[p])
      <3>1. /\ wqe[p] \in Seq(WorkRequest) /\ ready_table[Rev(p)] \in Nat /\ readies[p] \in Nat
            /\ done[p] \in Nat /\ rung[p] \in Nat /\ rung[p] <= Len(wqe[p]) /\ Len(wqe[p]) \in Nat
        BY <1>0, Nums, RevPair
      <3>2. done[p] <= rung[p]
        BY <1>0 DEF Counters
      <3> QED BY <3>1, <3>2
    <2>3. CASE NextReady(p, w)
      <3>1. w.kind = "ready" /\ w.value = readies[p] + 1 /\ readies'[p] = readies[p] + 1
        BY <1>2, <2>3 DEF NextReady
      <3> QED BY <1>0, <1>1, <1>4, <2>1, <2>2, <3>1, CountAppend
    <2>4. CASE NextData(p, w)
      <3>1. w.kind = "data" /\ readies'[p] = readies[p]
        BY <2>4 DEF NextData
      <3> QED BY <1>0, <1>1, <1>4, <2>1, <2>2, <3>1, CountAppend
    <2> QED BY <2>3, <2>4
  <1> QED BY <1>3, <1>4

LEMMA CountExecute ==
    ASSUME IInv, Counting, NEW p \in Pairs, HcaExecute(p)
    PROVE  Counting'
  <1> DEFINE k == done[p] + 1
             w == wqe[p][k]
  <1>0. /\ TInv /\ Counters /\ Readies /\ UNCHANGED <<wqe, readies>>
        /\ done[p] < rung[p] /\ done' = [done EXCEPT ![p] = @ + 1]
        /\ \/ /\ w.kind = "ready"
              /\ ready_table' = [ready_table EXCEPT ![Rev(p)] =
                                    IF w.inline THEN w.value ELSE remote_ready_values[p]]
           \/ w.kind = "data" /\ UNCHANGED ready_table
    BY DEF IInv, Inv, HcaExecute, app
  <1>1. /\ done \in [Pairs -> Nat] /\ ready_table \in [Pairs -> Nat]
        /\ Rev(p) \in Pairs /\ done[p] \in Nat /\ k \in 1..Len(wqe[p])
    <2>1. done \in [Pairs -> Nat]
      BY <1>0 DEF TInv, TypeOK
    <2>2. rung[p] \in Nat /\ rung[p] <= Len(wqe[p]) /\ Len(wqe[p]) \in Nat
      BY <1>0, Nums
    <2> QED BY <1>0, <2>1, <2>2, RevPair, TableTypes
  <1> SUFFICES ASSUME NEW q \in Pairs
               PROVE  CountOf(wqe[q], ready_table'[Rev(q)], readies[q], done'[q])
    BY <1>0 DEF Counting
  <1>2. CountOf(wqe[q], ready_table[Rev(q)], readies[q], done[q])
    BY DEF Counting
  <1>3. CASE q # p
    <2>1. Rev(q) # Rev(p) /\ Rev(q) \in Pairs
      BY <1>3, RevPair
    <2>2. ready_table'[Rev(q)] = ready_table[Rev(q)] /\ done'[q] = done[q]
      BY <1>0, <1>1, <1>3, <2>1
    <2> QED BY <1>2, <2>2
  <1>4. CASE q = p
    <2>1. done'[p] = k
      BY <1>0, <1>1
    <2>2. /\ ready_table[Rev(p)] = ReadyUpto(wqe[p], done[p])
          /\ w.kind = "ready" => w.value = ReadyUpto(wqe[p], k)
      BY <1>1, <1>2, <1>4 DEF CountOf
    <2>3. w.kind = "ready" => w.inline
      BY <1>0, <1>1 DEF Readies, ReadiesOf
    <2>4. w.kind = "data" => ReadyUpto(wqe[p], k) = ReadyUpto(wqe[p], done[p])
      BY <1>1, ReadyNext
    <2>5. ready_table'[Rev(p)] = ReadyUpto(wqe[p], k)
      BY <1>0, <1>1, <2>2, <2>3, <2>4
    <2> QED BY <1>2, <1>4, <2>1, <2>5 DEF CountOf
  <1> QED BY <1>3, <1>4

LEMMA CountNext ==
    ASSUME NoWrap, IInv, Counting, [Next]_vars
    PROVE  Counting'
  <1>0. TInv /\ Counters
    BY DEF IInv, Inv
  <1>1. CASE UNCHANGED <<wqe, ready_table, readies, done>>
    BY <1>1 DEF Counting
  <1>2. ASSUME NEW p \in Pairs, comm_send_ready(p) \/ comm_send_ready_on_stream(p)
        PROVE  Counting'
    <2> DEFINE w == Ready(remote_ready_values[p], TRUE)
    <2>1. /\ Announce(p) /\ wqe' = [wqe EXCEPT ![p] = Append(@, w)] /\ UNCHANGED done
      BY <1>2 DEF comm_send_ready, comm_send_ready_on_stream, PostRung, PostOnStream
    <2>2. /\ readies[p] < recvs[p] /\ readies' = [readies EXCEPT ![p] = @ + 1]
          /\ UNCHANGED <<sends, ready_table>>
      BY <2>1 DEF Announce
    <2>3. remote_ready_values[p] = readies[p] + 1
      <3>1. readies[p] < MaxMsgs
        BY <1>0, <2>2, InOrder
      <3> QED BY <1>0, <3>1, CallNumbers
    <2>4. w \in WorkRequest /\ w.kind = "ready" /\ w.inline /\ w.value = remote_ready_values[p]
      BY <1>0, ReadyType DEF TInv
    <2> HIDE DEF w
    <2>5. NextReady(p, w)
      BY <2>2, <2>3, <2>4 DEF NextReady
    <2> QED BY <2>1, <2>2, <2>5, CountPost
  <1>3. ASSUME NEW p \in Pairs, comm_isend(p) \/ comm_isend_on_stream(p) \/ comm_prepare_isend(p)
        PROVE  Counting'
    <2> DEFINE w == Data(sends[p] + 1)
    <2>1. /\ MaySend(p) /\ wqe' = [wqe EXCEPT ![p] = Append(@, w)] /\ UNCHANGED done
      BY <1>3 DEF comm_isend, comm_isend_on_stream, comm_prepare_isend, PostRung, PostOnStream
    <2>2. /\ sends[p] < waits[p] /\ sends' = [sends EXCEPT ![p] = @ + 1]
          /\ UNCHANGED <<readies, ready_table>>
      BY <2>1 DEF MaySend, tables
    <2>3. w \in WorkRequest /\ w.kind = "data" /\ w.value = sends[p] + 1
      BY <1>0, ReadyType DEF TInv
    <2> HIDE DEF w
    <2>4. NextData(p, w)
      BY <2>2, <2>3 DEF NextData
    <2> QED BY <2>1, <2>2, <2>4, CountPost
  <1>4. \/ \E p \in Pairs : comm_send_ready(p) \/ comm_send_ready_on_stream(p)
        \/ \E p \in Pairs : comm_isend(p) \/ comm_isend_on_stream(p) \/ comm_prepare_isend(p)
        \/ \E p \in Pairs : HcaExecute(p)
        \/ UNCHANGED <<wqe, ready_table, readies, done>>
    BY Zenon DEF Next, comm_irecv, comm_wait_ready, WaitReadyReturn, comm_test_ready,
           comm_wait_ready_on_stream, comm_prepare_wait_ready, Expect,
           comm_prepared_requests, StreamStep, tables, queue, app, vars
  <1> QED BY <1>1, <1>2, <1>3, <1>4, CountExecute

LEMMA CountInit == Init => Counting
  <1> SUFFICES ASSUME Init, NEW p \in Pairs
               PROVE  CountOf(wqe[p], ready_table[Rev(p)], readies[p], done[p])
    BY DEF Counting
  <1>1. wqe[p] = <<>> /\ ready_table[Rev(p)] = 0 /\ readies[p] = 0 /\ done[p] = 0
    BY RevPair DEF Init
  <1>2. ReadySet(<<>>, 0) = {}
    BY DEF ReadySet
  <1>3. ReadyUpto(<<>>, 0) = 0
    BY <1>2, FS_EmptySet DEF ReadyUpto
  <1>4. Len(<<>>) = 0
    OBVIOUS
  <1> QED BY <1>1, <1>3, <1>4 DEF CountOf

\* While no counter wraps, a cell of the ready table holds the number of readies
\* that were executed: a put carries the number of its own receive, however long
\* its doorbell is left to the GPU and however far the counter has gone meanwhile.
THEOREM CellsCountReadies == ASSUME NoWrap PROVE Spec => []CellCounts
  <1>1. Init => Counting
    BY CountInit
  <1>2. IInv /\ Counting /\ [Next]_vars => Counting'
    BY CountNext
  <1>3. Counting => CellCounts
    BY DEF Counting, CountOf, ReadyUpto, ReadySet, CellCounts
  <1> QED BY <1>1, <1>2, <1>3, Invariance, PTL DEF Spec
=============================================================================
