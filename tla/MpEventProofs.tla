---------------------------- MODULE MpEventProofs ----------------------------
(***************************************************************************)
(* Proofs about MpEvent, for any number of requests, peers and streams,    *)
(* any queue depth, and any calls, faults and liberties unless a theorem   *)
(* says otherwise.                                                         *)
(***************************************************************************)
EXTENDS MpEvent, SequenceFacts

(***************************************************************************)
(* The inductive invariant.  Base needs no assumption on the application.  *)
(***************************************************************************)
Busy  == {"PENDING_NOWAIT", "PENDING"}
Owned == Busy \union {"PREPARED"}

\* A request in use has an id of its peer's counter, and no other request of the
\* peer has it.
IdRange == \A r \in Reqs : status[r] # "UNDEF" => req[r].id \in 1..last_req_id[req[r].peer]
IdUnique ==
    \A r, x \in Reqs :
        /\ status[r] # "UNDEF" /\ status[x] # "UNDEF"
        /\ req[r].peer = req[x].peer /\ req[r].id = req[x].id
        => r = x
\* The words hold ids that were given out.
Words ==
    /\ \A p \in Peers : last_posted_trigger[p] <= last_req_id[p]
    /\ \A c \in Channels : last_tracked[c] <= last_req_id[c[1]]
    /\ \A c \in Channels : last_posted_tracked[c] <= last_req_id[c[1]]

Sorted(seq, rq) == \A i, j \in DOMAIN seq : i < j => rq[seq[i]].id < rq[seq[j]].id

\* The list of a peer holds prepared sends to it, in the order of their ids.
ListOK(p) ==
    /\ \A x \in Elems(posted_list[p]) :
          /\ status[x] = "PREPARED" /\ Chan(x) = <<p, "TX">>
          /\ req[x].id <= last_posted_trigger[p]
    /\ Sorted(posted_list[p], req)
Lists == \A p \in Peers : ListOK(p)

\* A work request, executed or not, is that of one pending request.
QueueOK(c) ==
    /\ \A x \in Elems(wq[c]) \union Elems(cq[c]) : status[x] \in Busy /\ Chan(x) = c
    /\ Distinct(wq[c]) /\ Distinct(cq[c])
    /\ Elems(wq[c]) \cap Elems(cq[c]) = {}
Queues == \A c \in Channels : QueueOK(c)

Posting ==
    pc = "posting" =>
        /\ status[post] = "PENDING_NOWAIT" /\ post \notin user
        /\ post \notin Elems(wq[Chan(post)]) \union Elems(cq[Chan(post)])

Handles == waited \subseteq user /\ \A r \in user : status[r] # "UNDEF"

PreparedTx == \A r \in Reqs : status[r] = "PREPARED" => req[r].flow = "TX"

Inv == /\ IdRange /\ IdUnique /\ Words /\ Lists /\ Queues /\ Posting /\ Handles
       /\ PreparedTx /\ pc # "exited"
Base == TypeOK /\ Inv

ReqFields == [peer : Peers \union {"none"}, flow : {"TX", "RX", "none"}, id : Nat,
              trigger : BOOLEAN]

USE ConstantsAssumption DEF Channels

-----------------------------------------------------------------------------
(* Steps that keep the requests in the queues and lists. *)

SameId(x) ==
    req'[x].peer = req[x].peer /\ req'[x].flow = req[x].flow /\ req'[x].id = req[x].id
Held(x) ==
    /\ SameId(x)
    /\ status[x] = "PREPARED" => status'[x] = "PREPARED"
    /\ status[x] \in Busy => status'[x] \in Busy

LEMMA SortedSame ==
    ASSUME NEW seq \in Seq(Reqs), NEW rq, NEW rs, Sorted(seq, rq),
           \A x \in Elems(seq) : rq[x].id = rs[x].id
    PROVE  Sorted(seq, rs)
  BY DEF Sorted, Elems

LEMMA SortedAppend ==
    ASSUME NEW seq \in Seq(Reqs), NEW rq, NEW e \in Reqs, Sorted(seq, rq),
           \A x \in Elems(seq) : rq[x].id < rq[e].id
    PROVE  Sorted(Append(seq, e), rq)
  <1> DEFINE t == Append(seq, e)
  <1>1. /\ DOMAIN t = 1..(Len(seq) + 1) /\ DOMAIN seq = 1..Len(seq) /\ Len(seq) \in Nat
        /\ \A i \in 1..Len(seq) : t[i] = seq[i] /\ seq[i] \in Elems(seq)
        /\ t[Len(seq) + 1] = e
    BY SeqAppend, SeqElem
  <1> HIDE DEF t
  <1>2. ASSUME NEW i \in DOMAIN t, NEW j \in DOMAIN t, i < j PROVE rq[t[i]].id < rq[t[j]].id
    <2>1. CASE j = Len(seq) + 1
      BY <1>1, <1>2, <2>1
    <2>2. CASE j # Len(seq) + 1
      BY <1>1, <1>2, <2>2 DEF Sorted
    <2> QED
      BY <2>1, <2>2
  <1> QED
    BY <1>2 DEF t, Sorted

LEMMA SortedTail ==
    ASSUME NEW seq \in Seq(Reqs), NEW rq, seq # <<>>, Sorted(seq, rq),
           \A x \in Reqs : rq[x].id \in Nat
    PROVE  /\ Sorted(Tail(seq), rq)
           /\ \A x \in Elems(Tail(seq)) : rq[Head(seq)].id < rq[x].id
           /\ Head(seq) \notin Elems(Tail(seq))
  <1> DEFINE t == Tail(seq)
  <1>1. /\ DOMAIN t = 1..Len(t) /\ DOMAIN seq = 1..Len(seq) /\ Len(seq) \in Nat \ {0}
        /\ Head(seq) = seq[1] /\ Len(t) = Len(seq) - 1 /\ Head(seq) \in Reqs
        /\ \A i \in 1..Len(t) : i + 1 \in 1..Len(seq) /\ t[i] = seq[i + 1]
    BY SeqTail, SeqElem
  <1> HIDE DEF t
  <1>2. Sorted(t, rq)
    <2> SUFFICES ASSUME NEW i \in DOMAIN t, NEW j \in DOMAIN t, i < j
                 PROVE  rq[t[i]].id < rq[t[j]].id
      BY DEF Sorted
    <2>1. i + 1 \in DOMAIN seq /\ j + 1 \in DOMAIN seq /\ i + 1 < j + 1
      BY <1>1
    <2>2. rq[seq[i + 1]].id < rq[seq[j + 1]].id
      BY <2>1 DEF Sorted
    <2> QED
      BY <1>1, <2>2
  <1>3. ASSUME NEW x \in Elems(t) PROVE rq[Head(seq)].id < rq[x].id
    <2>1. PICK i \in DOMAIN t : t[i] = x
      BY DEF Elems
    <2>2. 1 \in DOMAIN seq /\ i + 1 \in DOMAIN seq /\ 1 < i + 1 /\ seq[i + 1] = x
      BY <1>1, <2>1
    <2> QED
      BY <1>1, <2>2 DEF Sorted
  <1>4. Head(seq) \notin Elems(t)
    BY <1>1, <1>3
  <1> QED
    BY <1>2, <1>3, <1>4 DEF t

LEMMA SortedDistinct ==
    ASSUME NEW seq \in Seq(Reqs), NEW rq, Sorted(seq, rq), \A x \in Reqs : rq[x].id \in Nat
    PROVE  Distinct(seq)
  <1> SUFFICES ASSUME NEW i \in DOMAIN seq, NEW j \in DOMAIN seq, seq[i] = seq[j], i # j
               PROVE  FALSE
    BY DEF Distinct
  <1>1. i < j \/ j < i
    BY SeqElem
  <1>2. seq[i] \in Reqs
    OBVIOUS
  <1> QED
    BY <1>1, <1>2 DEF Sorted

\* The types that later steps keep citing.
LEMMA Types ==
    ASSUME TypeOK
    PROVE  /\ \A p \in Peers : posted_list[p] \in Seq(Reqs) /\ Elems(posted_list[p]) \subseteq Reqs
           /\ \A c \in Channels : /\ wq[c] \in Seq(Reqs) /\ Elems(wq[c]) \subseteq Reqs
                                  /\ cq[c] \in Seq(Reqs) /\ Elems(cq[c]) \subseteq Reqs
           /\ \A p \in Peers : <<p, "TX">> \in Channels /\ <<p, "RX">> \in Channels
           /\ \A c \in Channels : c[1] \in Peers /\ c[2] \in {"TX", "RX"} /\ c = <<c[1], c[2]>>
           /\ \A p \in Peers : /\ last_req_id[p] \in Nat /\ last_posted_trigger[p] \in Nat
                               /\ last_trigger[p] \in Nat
           /\ \A c \in Channels : last_tracked[c] \in Nat /\ last_posted_tracked[c] \in Nat
           /\ \A r \in Reqs : /\ req[r] \in ReqFields /\ req[r].id \in Nat
                              /\ req[r].trigger \in BOOLEAN /\ status[r] \in States
           /\ \A s \in Streams : stream[s] \in Seq(Op)
  BY SeqElem DEF TypeOK, ReqFields

LEMMA InUse ==
    ASSUME TypeOK, NEW r \in Reqs, status[r] # "UNDEF"
    PROVE  /\ req[r].peer \in Peers /\ req[r].flow \in {"TX", "RX"}
           /\ Chan(r) = <<req[r].peer, req[r].flow>> /\ Chan(r) \in Channels
           /\ Tx(r) = <<req[r].peer, "TX">> /\ Tx(r) \in Channels
           /\ Chan(r)[1] = req[r].peer /\ Chan(r)[2] = req[r].flow
  BY DEF TypeOK, Chan, Tx

LEMMA ListSame ==
    ASSUME Base, NEW p \in Peers, posted_list'[p] = posted_list[p],
           \A x \in Elems(posted_list[p]) : Held(x),
           last_posted_trigger'[p] \in Nat, last_posted_trigger'[p] >= last_posted_trigger[p]
    PROVE  ListOK(p)'
  <1>1. ListOK(p) /\ posted_list[p] \in Seq(Reqs) /\ Elems(posted_list[p]) \subseteq Reqs
    BY Types DEF Base, Inv, Lists
  <1>2. \A x \in Elems(posted_list[p]) :
           /\ status'[x] = "PREPARED" /\ req'[x].peer = req[x].peer
           /\ req'[x].flow = req[x].flow /\ req'[x].id = req[x].id
    BY <1>1 DEF ListOK, Owned, Held, SameId
  <1>3. Sorted(posted_list[p], req')
    BY <1>1, <1>2, SortedSame DEF ListOK
  <1>4. \A x \in Elems(posted_list[p]) : req[x].id <= last_posted_trigger'[p]
    BY <1>1, Types DEF ListOK, Base
  <1>5. \A x \in Elems(posted_list[p]) : Chan(x)' = <<p, "TX">>
    BY <1>1, <1>2 DEF ListOK, Chan
  <1> QED
    BY <1>2, <1>3, <1>4, <1>5 DEF ListOK

LEMMA QueueSame ==
    ASSUME Base, NEW c \in Channels, wq'[c] = wq[c], cq'[c] = cq[c],
           \A x \in Elems(wq[c]) \union Elems(cq[c]) : Held(x)
    PROVE  QueueOK(c)'
  <1>1. QueueOK(c) /\ Elems(wq[c]) \subseteq Reqs /\ Elems(cq[c]) \subseteq Reqs
    BY Types DEF Base, Inv, Queues
  <1>2. \A x \in Elems(wq[c]) \union Elems(cq[c]) : status'[x] \in Busy /\ Chan(x)' = c
    BY <1>1 DEF QueueOK, Owned, Held, SameId, Chan
  <1> QED
    BY <1>1, <1>2 DEF QueueOK

\* A work request is posted.
LEMMA QueueAppend ==
    ASSUME Base, NEW c \in Channels, NEW r \in Reqs,
           wq'[c] = Append(wq[c], r), cq'[c] = cq[c],
           r \notin Elems(wq[c]) \union Elems(cq[c]),
           status'[r] \in Busy, Chan(r)' = c,
           \A x \in Elems(wq[c]) \union Elems(cq[c]) : Held(x)
    PROVE  QueueOK(c)' /\ Elems(wq'[c]) = Elems(wq[c]) \union {r}
  <1>1. QueueOK(c) /\ wq[c] \in Seq(Reqs) /\ Elems(wq[c]) \subseteq Reqs /\ Elems(cq[c]) \subseteq Reqs
    BY Types DEF Base, Inv, Queues
  <1>2. Elems(wq'[c]) = Elems(wq[c]) \union {r} /\ Distinct(wq'[c])
    BY <1>1, ElemsAppend, DistinctAppend DEF QueueOK
  <1>3. \A x \in Elems(wq[c]) \union Elems(cq[c]) : status'[x] \in Busy /\ Chan(x)' = c
    BY <1>1 DEF QueueOK, Owned, Held, SameId, Chan
  <1> QED
    BY <1>1, <1>2, <1>3 DEF QueueOK

\* Steps that leave every request in use as it is leave the lists and queues alone.
LEMMA AllHeld ==
    ASSUME Base, \A x \in Reqs : status[x] \in Owned => Held(x)
    PROVE  /\ \A p \in Peers : \A x \in Elems(posted_list[p]) : Held(x)
           /\ \A c \in Channels : \A x \in Elems(wq[c]) \union Elems(cq[c]) : Held(x)
  BY Types DEF Base, Inv, Lists, ListOK, Queues, QueueOK, Owned

LEMMA ListsSame ==
    ASSUME Base, UNCHANGED <<posted_list, last_posted_trigger>>,
           \A x \in Reqs : status[x] \in Owned => Held(x)
    PROVE  Lists'
  <1>1. \A p \in Peers : \A x \in Elems(posted_list[p]) : Held(x)
    BY AllHeld
  <1>2. \A p \in Peers : last_posted_trigger[p] \in Nat
    BY Types DEF Base
  <1>3. \A p \in Peers : ListOK(p)'
    BY <1>1, <1>2, ListSame
  <1> QED
    BY <1>3 DEF Lists

LEMMA QueuesSame ==
    ASSUME Base, UNCHANGED <<wq, cq>>, \A x \in Reqs : status[x] \in Owned => Held(x)
    PROVE  Queues'
  <1>1. \A c \in Channels : \A x \in Elems(wq[c]) \union Elems(cq[c]) : Held(x)
    BY AllHeld
  <1>2. \A c \in Channels : QueueOK(c)'
    BY <1>1, QueueSame
  <1> QED
    BY <1>2 DEF Queues

-----------------------------------------------------------------------------
(* New requests *)

\* What new_stream_request does to the requests, and what it finds.
Fresh(r, p, flow, state) ==
    /\ status[r] = "UNDEF" /\ status'[r] = state
    /\ req'[r].peer = p /\ req'[r].flow = flow /\ req'[r].id = last_req_id[p] + 1
    /\ \A x \in Reqs : x # r => status'[x] = status[x] /\ req'[x] = req[x]
    /\ \A x \in Reqs : status[x] \in Owned => Held(x)
    /\ Chan(r)' = <<p, flow>>
    /\ status' \in [Reqs -> States] /\ req' \in [Reqs -> ReqFields]
    /\ \A x \in Reqs : status'[x] # "UNDEF" => Chan(x)' \in Channels
    /\ last_req_id' \in [Peers -> Nat]
    /\ last_req_id'[p] = last_req_id[p] + 1
    /\ \A q \in Peers : last_req_id[q] <= last_req_id'[q]
    /\ IdRange' /\ IdUnique' /\ PreparedTx'
    /\ r \notin user /\ r \notin waited
    /\ \A q \in Peers : r \notin Elems(posted_list[q])
    /\ \A c \in Channels : r \notin Elems(wq[c]) /\ r \notin Elems(cq[c])
    /\ \A x \in user : status'[x] # "UNDEF"

LEMMA NewRequestStep ==
    ASSUME Base, NEW r \in Reqs, NEW p \in Peers, NEW flow \in {"TX", "RX"},
           NEW state \in States \ {"UNDEF"}, NEW trigger \in BOOLEAN,
           NewRequest(r, p, flow, state, trigger), state = "PREPARED" => flow = "TX"
    PROVE  Fresh(r, p, flow, state)
  <1>1. /\ status[r] = "UNDEF" /\ status'[r] = state
        /\ req'[r] = [peer |-> p, flow |-> flow, id |-> last_req_id[p] + 1, trigger |-> trigger]
        /\ \A x \in Reqs : x # r => status'[x] = status[x] /\ req'[x] = req[x]
        /\ status' \in [Reqs -> States]
        /\ last_req_id' \in [Peers -> Nat]
        /\ last_req_id'[p] = last_req_id[p] + 1
        /\ \A q \in Peers : last_req_id[q] <= last_req_id'[q]
        /\ \A q \in Peers : q # p => last_req_id[q] = last_req_id'[q]
    BY DEF Base, TypeOK, NewRequest
  <1>2. req' \in [Reqs -> ReqFields]
    BY DEF Base, TypeOK, NewRequest, ReqFields
  <1>3. \A x \in Reqs : status[x] \in Owned => Held(x)
    BY <1>1 DEF Held, SameId, Owned, Busy
  <1>4. Chan(r)' = <<p, flow>>
    BY <1>1 DEF Chan
  <1>5. \A x \in Reqs : status'[x] # "UNDEF" => Chan(x)' \in Channels
    <2>1. \A x \in Reqs : status[x] # "UNDEF" => Chan(x) \in Channels
      BY DEF Base, TypeOK
    <2>2. \A x \in Reqs : x # r => Chan(x)' = Chan(x)
      BY <1>1 DEF Chan
    <2> QED
      BY <1>1, <1>4, <2>1, <2>2
  <1>6. IdRange'
    <2> SUFFICES ASSUME NEW x \in Reqs, status'[x] # "UNDEF"
                 PROVE  req'[x].id \in 1..last_req_id'[req'[x].peer]
      BY DEF IdRange
    <2>1. CASE x = r
      <3>1. req'[x].peer = p /\ req'[x].id = last_req_id'[p] /\ last_req_id[p] \in Nat
        BY <1>1, <2>1, Types DEF Base
      <3> QED
        BY <1>1, <3>1
    <2>2. CASE x # r
      <3>1. req'[x] = req[x] /\ req[x].id \in 1..last_req_id[req[x].peer] /\ req[x].peer \in Peers
        BY <1>1, <2>2, InUse DEF IdRange, Base, Inv
      <3>2. PICK q \in Peers : q = req[x].peer
        BY <3>1
      <3>3. last_req_id[q] \in Nat /\ last_req_id'[q] \in Nat /\ last_req_id[q] <= last_req_id'[q]
        BY <1>1, Types DEF Base
      <3> QED
        BY <3>1, <3>2, <3>3
    <2> QED
      BY <2>1, <2>2
  <1>7. IdUnique'
    <2> SUFFICES ASSUME NEW x \in Reqs, NEW y \in Reqs, x # y,
                        status'[x] # "UNDEF", status'[y] # "UNDEF",
                        req'[x].peer = req'[y].peer, req'[x].id = req'[y].id
                 PROVE  FALSE
      BY DEF IdUnique
    <2>1. CASE x # r /\ y # r
      BY <1>1, <2>1 DEF IdUnique, Base, Inv
    <2>2. CASE x = r
      BY SMTT(30), <1>1, <2>2, InUse, Types DEF IdRange, Base, Inv
    <2>3. CASE y = r
      BY SMTT(30), <1>1, <2>3, InUse, Types DEF IdRange, Base, Inv
    <2> QED
      BY <2>1, <2>2, <2>3
  <1>8. PreparedTx'
    BY <1>1 DEF PreparedTx, Base, Inv
  <1>9. r \notin user /\ r \notin waited
    BY <1>1 DEF Base, Inv, Handles
  <1>10. \A q \in Peers : r \notin Elems(posted_list[q])
    BY <1>1 DEF Base, Inv, Lists, ListOK
  <1>11. \A c \in Channels : r \notin Elems(wq[c]) /\ r \notin Elems(cq[c])
    BY <1>1 DEF Base, Inv, Queues, QueueOK, Busy
  <1>12. \A x \in user : status'[x] # "UNDEF"
    BY <1>1, <1>9 DEF Base, Inv, Handles, TypeOK
  <1> QED
    BY <1>1, <1>2, <1>3, <1>4, <1>5, <1>6, <1>7, <1>8, <1>9, <1>10, <1>11, <1>12
    DEF Fresh

LEMMA WordsKept ==
    ASSUME Base, last_req_id' \in [Peers -> Nat],
           \A p \in Peers : last_req_id[p] <= last_req_id'[p],
           UNCHANGED <<last_posted_trigger, last_posted_tracked, last_tracked>>
    PROVE  Words'
  BY Types DEF Words, Base, Inv, TypeOK

LEMMA ImmediateBase ==
    ASSUME Base, NEW r \in Reqs, NEW p \in Peers, NEW flow \in {"TX", "RX"},
           NEW retry \in BOOLEAN, NEW handle \in BOOLEAN,
           Immediate(r, p, flow, retry, handle)
    PROVE  Base'
  <1> DEFINE c == <<p, flow>>
  <1>1. NewRequest(r, p, flow, "PENDING_NOWAIT", FALSE) /\ pc = "idle"
    BY DEF Immediate
  <1>2. Fresh(r, p, flow, "PENDING_NOWAIT")
    <2>1. "PENDING_NOWAIT" \in States \ {"UNDEF"} /\ "PENDING_NOWAIT" # "PREPARED"
      BY DEF States
    <2> QED
      BY <1>1, <2>1, NewRequestStep
  <1>3. /\ UNCHANGED <<last_posted_trigger, last_trigger, posted_list,
                       last_posted_tracked, last_tracked, cq, stream, waited>>
        /\ \/ /\ wq' = [wq EXCEPT ![c] = Append(@, r)]
              /\ user' \in {user, user \union {r}} /\ UNCHANGED <<pc, post>>
           \/ UNCHANGED <<wq, user>> /\ pc' = "posting" /\ post' = r
           \/ UNCHANGED <<wq, user, pc, post>>
    BY DEF Immediate
  <1>4. c \in Channels /\ wq[c] \in Seq(Reqs)
    BY Types DEF Base
  <1>5. /\ wq' \in [Channels -> Seq(Reqs)]
        /\ \A d \in Channels : d # c => wq'[d] = wq[d]
        /\ wq'[c] \in {wq[c], Append(wq[c], r)}
    <2>1. wq \in [Channels -> Seq(Reqs)] /\ Append(wq[c], r) \in Seq(Reqs)
      BY <1>4, SeqAppend DEF Base, TypeOK
    <2>2. CASE wq' = [wq EXCEPT ![c] = Append(@, r)]
      BY <1>4, <2>1, <2>2
    <2>3. CASE wq' = wq
      BY <1>4, <2>1, <2>3
    <2> QED
      BY <1>3, <2>2, <2>3
  <1>6. Words'
    BY <1>2, <1>3, WordsKept DEF Fresh
  <1>7. Lists'
    BY <1>2, <1>3, ListsSame DEF Fresh
  <1>8. Queues'
    <2>1. CASE wq' = wq
      BY <2>1, <1>2, <1>3, QueuesSame DEF Fresh
    <2>2. CASE wq' = [wq EXCEPT ![c] = Append(@, r)]
      <3>1. /\ r \notin Elems(wq[c]) \union Elems(cq[c]) /\ Chan(r)' = c
            /\ status'[r] \in Busy
        BY <1>2, <1>4 DEF Fresh, Busy
      <3>2. \A d \in Channels : \A x \in Elems(wq[d]) \union Elems(cq[d]) : Held(x)
        BY <1>2, AllHeld DEF Fresh
      <3>3. wq'[c] = Append(wq[c], r) /\ \A d \in Channels : d # c => wq'[d] = wq[d]
        BY <1>4, <2>2 DEF Base, TypeOK
      <3>4. QueueOK(c)'
        BY <1>3, <1>4, <3>1, <3>2, <3>3, QueueAppend
      <3>5. \A d \in Channels : d # c => QueueOK(d)'
        BY <1>3, <3>2, <3>3, QueueSame
      <3> QED
        BY <3>4, <3>5 DEF Queues
    <2> QED
      BY <1>3, <2>1, <2>2
  <1>9. Posting'
    BY <1>1, <1>2, <1>3, <1>4 DEF Posting, Fresh
  <1>10. Handles'
    BY <1>2, <1>3 DEF Fresh, Handles, Base, Inv
  <1>11. TypeOK'
    BY <1>1, <1>2, <1>3, <1>5 DEF Fresh, TypeOK, Base, ReqFields
  <1> QED
    BY <1>1, <1>2, <1>3, <1>6, <1>7, <1>8, <1>9, <1>10, <1>11 DEF Fresh, Base, Inv

LEMMA PostRetryBase == ASSUME Base, PostRetry PROVE Base'
  <1>1. PICK r \in Reqs : r = post
    BY DEF PostRetry, Base, TypeOK
  <1>a. status[r] = "PENDING_NOWAIT" /\ pc = "posting"
    BY <1>1 DEF PostRetry, Base, Inv, Posting
  <1>2. PICK c \in Channels : c = Chan(r)
    BY <1>a, InUse DEF Base
  <1>3. /\ UNCHANGED <<status, req, client, cq, stream, waited>>
        /\ wq' = [wq EXCEPT ![c] = Append(@, r)]
        /\ user' = user \union {r} /\ pc' = "idle" /\ post' = NoReq
    BY <1>1, <1>2 DEF PostRetry
  <1>4. /\ wq' \in [Channels -> Seq(Reqs)] /\ wq'[c] = Append(wq[c], r)
        /\ \A d \in Channels : d # c => wq'[d] = wq[d]
    BY <1>3, SeqAppend DEF Base, TypeOK
  <1>5. \A x \in Reqs : Held(x)
    BY <1>3 DEF Held, SameId
  <1>6. \A d \in Channels : \A x \in Elems(wq[d]) \union Elems(cq[d]) : Held(x)
    BY <1>5, AllHeld
  <1>7. r \notin Elems(wq[c]) \union Elems(cq[c])
    BY <1>1, <1>a, <1>2 DEF Base, Inv, Posting
  <1>8. Queues'
    <2>1. status'[r] \in Busy /\ Chan(r)' = c
      BY <1>a, <1>2, <1>3 DEF Busy, Chan
    <2>2. QueueOK(c)'
      BY <1>3, <1>4, <1>6, <1>7, <2>1, QueueAppend
    <2>3. \A d \in Channels : d # c => QueueOK(d)'
      BY <1>3, <1>4, <1>6, QueueSame
    <2> QED
      BY <2>2, <2>3 DEF Queues
  <1>9. Lists'
    BY <1>3, <1>5, ListsSame DEF client
  <1>10. Words' /\ IdRange' /\ IdUnique' /\ PreparedTx'
    BY <1>3 DEF Words, IdRange, IdUnique, PreparedTx, client, Base, Inv
  <1>11. Handles' /\ Posting'
    BY <1>a, <1>3 DEF Handles, Posting, Base, Inv
  <1>12. TypeOK'
    BY <1>1, <1>3, <1>4 DEF Base, TypeOK, client, Chan
  <1> QED
    BY <1>3, <1>8, <1>9, <1>10, <1>11, <1>12 DEF Base, Inv

\* Steps of the application that change neither requests nor queues.
LEMMA IdleBase ==
    ASSUME Base, UNCHANGED <<status, req, user, client, wq, cq, stream>>,
           pc' = "idle", post' = NoReq, waited' \in {waited, {}}
    PROVE  Base'
  <1>1. \A x \in Reqs : Held(x)
    BY DEF Held, SameId
  <1>2. Lists' /\ Queues'
    BY <1>1, ListsSame, QueuesSame DEF client
  <1>3. Words' /\ IdRange' /\ IdUnique' /\ PreparedTx' /\ Handles' /\ Posting'
    BY DEF Words, IdRange, IdUnique, PreparedTx, Handles, Posting, client, Base, Inv
  <1>4. TypeOK'
    BY DEF Base, TypeOK, client, Chan
  <1> QED
    BY <1>2, <1>3, <1>4 DEF Base, Inv

LEMMA ListAppend ==
    ASSUME Base, NEW p \in Peers, NEW r \in Reqs,
           posted_list'[p] = Append(posted_list[p], r),
           status'[r] = "PREPARED", Chan(r)' = <<p, "TX">>,
           req' \in [Reqs -> ReqFields], last_posted_trigger'[p] \in Nat,
           last_posted_trigger[p] < req'[r].id, req'[r].id <= last_posted_trigger'[p],
           \A x \in Elems(posted_list[p]) : Held(x)
    PROVE  ListOK(p)' /\ Elems(posted_list'[p]) = Elems(posted_list[p]) \union {r}
  <1>1. /\ ListOK(p) /\ posted_list[p] \in Seq(Reqs) /\ Elems(posted_list[p]) \subseteq Reqs
        /\ last_posted_trigger[p] \in Nat
    BY Types DEF Base, Inv, Lists
  <1>2. req'[r].id \in Nat /\ \A x \in Reqs : req[x].id \in Nat
    BY Types DEF ReqFields, Base
  <1>3. \A x \in Elems(posted_list[p]) :
           /\ status'[x] = "PREPARED" /\ req'[x].id = req[x].id
           /\ Chan(x)' = <<p, "TX">> /\ req[x].id <= last_posted_trigger[p]
    BY <1>1 DEF ListOK, Held, SameId, Chan
  <1>4. Sorted(posted_list[p], req')
    BY <1>1, <1>3, SortedSame DEF ListOK
  <1>5. \A x \in Elems(posted_list[p]) : req'[x].id < req'[r].id
    BY <1>1, <1>2, <1>3
  <1>6. Sorted(posted_list'[p], req')
    BY <1>1, <1>4, <1>5, SortedAppend
  <1>7. Elems(posted_list'[p]) = Elems(posted_list[p]) \union {r}
    BY <1>1, ElemsAppend
  <1>8. \A x \in Elems(posted_list[p]) : req'[x].id <= last_posted_trigger'[p]
    BY SMTT(30), <1>1, <1>2, <1>3
  <1> QED
    BY <1>3, <1>6, <1>7, <1>8 DEF ListOK

LEMMA OpsAreOps ==
    ASSUME NEW c \in Channels, NEW n \in Nat, NEW r \in Reqs
    PROVE  /\ TriggerOp(c[1], n) \in Op /\ WaitOp(c, n) \in Op /\ KernelOp(r, c, n) \in Op
           /\ TriggerOp(c[1], n).op = "trigger" /\ TriggerOp(c[1], n).chan[1] = c[1]
           /\ TriggerOp(c[1], n).chan = <<c[1], "TX">>
           /\ TriggerOp(c[1], n).id = n
           /\ WaitOp(c, n).op = "wait" /\ WaitOp(c, n).chan = c /\ WaitOp(c, n).id = n
           /\ KernelOp(r, c, n).op = "kernel" /\ KernelOp(r, c, n).chan = c
           /\ KernelOp(r, c, n).id = n /\ KernelOp(r, c, n).req = r
  BY DEF TriggerOp, WaitOp, KernelOp, Op

LEMMA OnStreamType ==
    ASSUME TypeOK, NEW s \in Streams, NEW ops \in Seq(Op), OnStream(s, ops)
    PROVE  /\ stream' \in [Streams -> Seq(Op)] /\ stream'[s] = stream[s] \o ops
           /\ \A t \in Streams : t # s => stream'[t] = stream[t]
  <1>1. stream[s] \o ops \in Seq(Op)
    BY SeqConcat DEF TypeOK
  <1> QED
    BY <1>1 DEF TypeOK, OnStream

\* The operations mp_send_on_stream queues.
SendOps(r, p) ==
    LET id == last_req_id[p] + 1
        c  == <<p, "TX">>
    IN  <<TriggerOp(p, id)>>
        \o (IF last_posted_tracked[c] < id THEN <<WaitOp(c, id)>> ELSE <<>>)
        \o <<KernelOp(r, c, id)>>

LEMMA SendOpsType ==
    ASSUME TypeOK, NEW r \in Reqs, NEW p \in Peers
    PROVE  SendOps(r, p) \in Seq(Op)
  <1> DEFINE id == last_req_id[p] + 1
             c  == <<p, "TX">>
             W  == IF last_posted_tracked[c] < id THEN <<WaitOp(c, id)>> ELSE <<>>
  <1>1. c \in Channels /\ c[1] = p /\ id \in Nat
    BY Types
  <1>2. TriggerOp(p, id) \in Op /\ WaitOp(c, id) \in Op /\ KernelOp(r, c, id) \in Op
    BY <1>1, OpsAreOps
  <1> HIDE DEF c, id
  <1>3. <<TriggerOp(p, id)>> \in Seq(Op) /\ <<KernelOp(r, c, id)>> \in Seq(Op)
    BY <1>2, SeqOne
  <1>4. W \in Seq(Op)
    BY <1>2, SeqOne, SeqNone
  <1> HIDE DEF W
  <1>5. <<TriggerOp(p, id)>> \o W \o <<KernelOp(r, c, id)>> \in Seq(Op)
    BY <1>3, <1>4, SeqConcat
  <1> QED
    BY <1>5 DEF SendOps, c, id, W

\* A request is created for a stream: put into the list or not.
LEMMA CreateBase ==
    ASSUME Base, pc = "idle", NEW r \in Reqs, NEW p \in Peers, Fresh(r, p, "TX", "PREPARED"),
           UNCHANGED <<last_trigger, last_tracked, wq, cq, pc, waited, post>>,
           user' \in {user, user \union {r}},
           \/ UNCHANGED <<posted_list, last_posted_trigger>>
           \/ /\ last_posted_trigger' = [last_posted_trigger EXCEPT ![p] = last_req_id[p] + 1]
              /\ \/ UNCHANGED posted_list
                 \/ posted_list' = [posted_list EXCEPT ![p] = Append(@, r)],
           last_posted_tracked' \in [Channels -> Nat],
           \A c \in Channels : last_posted_tracked'[c] <= last_req_id'[c[1]],
           stream' \in [Streams -> Seq(Op)]
    PROVE  Base'
  <1>1. /\ last_posted_trigger' \in [Peers -> Nat]
        /\ \A q \in Peers : /\ last_posted_trigger[q] <= last_posted_trigger'[q]
                            /\ last_posted_trigger'[q] <= last_req_id'[q]
    <2>1. /\ last_req_id' \in [Peers -> Nat] /\ last_req_id'[p] = last_req_id[p] + 1
          /\ \A q \in Peers : last_req_id[q] <= last_req_id'[q]
      BY DEF Fresh
    <2>2. \A q \in Peers : last_posted_trigger[q] <= last_req_id[q]
      BY DEF Base, Inv, Words
    <2>3. last_posted_trigger \in [Peers -> Nat] /\ last_req_id \in [Peers -> Nat]
      BY DEF Base, TypeOK
    <2>4. CASE last_posted_trigger' = last_posted_trigger
      BY <2>1, <2>2, <2>3, <2>4
    <2>5. CASE last_posted_trigger' = [last_posted_trigger EXCEPT ![p] = last_req_id[p] + 1]
      BY <2>1, <2>2, <2>3, <2>5
    <2> QED
      BY <2>4, <2>5
  <1>2. \A q \in Peers : \A x \in Elems(posted_list[q]) : Held(x)
    BY AllHeld DEF Fresh
  <1>3. posted_list' \in [Peers -> Seq(Reqs)]
    <2>1. posted_list \in [Peers -> Seq(Reqs)] /\ Append(posted_list[p], r) \in Seq(Reqs)
      BY SeqAppend DEF Base, TypeOK
    <2>2. CASE posted_list' = [posted_list EXCEPT ![p] = Append(@, r)]
      BY <2>1, <2>2
    <2> QED
      BY <2>1, <2>2
  <1>4. Lists'
    <2> SUFFICES ASSUME NEW q \in Peers PROVE ListOK(q)'
      BY DEF Lists
    <2>1. CASE posted_list'[q] = posted_list[q]
      BY <1>1, <1>2, <2>1, ListSame
    <2>2. CASE posted_list'[q] # posted_list[q]
      <3>1. /\ q = p /\ posted_list'[p] = Append(posted_list[p], r)
            /\ last_posted_trigger'[p] = last_req_id[p] + 1
        BY <2>2 DEF Base, TypeOK
      <3>2. /\ status'[r] = "PREPARED" /\ Chan(r)' = <<p, "TX">> /\ req' \in [Reqs -> ReqFields]
            /\ req'[r].id = last_req_id[p] + 1
        BY DEF Fresh
      <3>3. last_posted_trigger[p] < req'[r].id /\ req'[r].id <= last_posted_trigger'[p]
        BY <1>1, <3>1, <3>2, Types DEF Base, Inv, Words
      <3> QED
        BY <1>1, <1>2, <3>1, <3>2, <3>3, ListAppend
    <2> QED
      BY <2>1, <2>2
  <1>5. Queues'
    BY QueuesSame DEF Fresh
  <1>6. Words'
    <2>1. \A c \in Channels : last_tracked'[c] <= last_req_id'[c[1]]
      BY Types DEF Fresh, Base, Inv, Words
    <2> QED
      BY <1>1, <2>1 DEF Words
  <1>7. Handles' /\ Posting'
    BY DEF Fresh, Handles, Posting, Base, Inv
  <1>8. TypeOK'
    BY <1>1, <1>3 DEF Base, TypeOK, Fresh, ReqFields
  <1> QED
    BY <1>4, <1>5, <1>6, <1>7, <1>8 DEF Base, Inv, Fresh

LEMMA PrepareBase ==
    ASSUME Base, NEW r \in Reqs, NEW p \in Peers, mp_send_prepare(r, p)
    PROVE  Base' /\ Fresh(r, p, "TX", "PREPARED")
  <1>1. "PREPARED" \in States \ {"UNDEF"}
    BY DEF States
  <1>2. Fresh(r, p, "TX", "PREPARED")
    BY <1>1, NewRequestStep DEF mp_send_prepare
  <1>3. \A c \in Channels : last_posted_tracked[c] <= last_req_id'[c[1]]
    BY <1>2, Types DEF Fresh, Base, Inv, Words
  <1>4. Base'
    BY <1>2, <1>3, CreateBase DEF mp_send_prepare, Base, TypeOK
  <1> QED
    BY <1>2, <1>4

LEMMA IsendOnStreamBase ==
    ASSUME Base, NEW r \in Reqs, NEW p \in Peers, NEW s \in Streams, mp_isend_on_stream(r, p, s)
    PROVE  Base' /\ Fresh(r, p, "TX", "PREPARED")
  <1>1. "PREPARED" \in States \ {"UNDEF"}
    BY DEF States
  <1>2. Fresh(r, p, "TX", "PREPARED")
    BY <1>1, NewRequestStep DEF mp_isend_on_stream
  <1>3. \A c \in Channels : last_posted_tracked[c] <= last_req_id'[c[1]]
    BY <1>2, Types DEF Fresh, Base, Inv, Words
  <1>4. <<TriggerOp(p, last_req_id[p] + 1)>> \in Seq(Op)
    <2>1. <<p, "TX">> \in Channels /\ last_req_id[p] + 1 \in Nat /\ <<p, "TX">>[1] = p
      BY Types DEF Base
    <2>2. TriggerOp(p, last_req_id[p] + 1) \in Op
      BY <2>1, OpsAreOps
    <2> QED
      BY <2>2, SeqOne
  <1>5. stream' \in [Streams -> Seq(Op)]
    BY <1>4, OnStreamType DEF mp_isend_on_stream, Base, TypeOK
  <1>6. /\ pc = "idle" /\ UNCHANGED <<last_trigger, last_posted_tracked, last_tracked, wq, cq, pc, waited, post>>
        /\ user' \in {user, user \union {r}}
        /\ last_posted_trigger' = [last_posted_trigger EXCEPT ![p] = last_req_id[p] + 1]
        /\ \/ UNCHANGED posted_list
           \/ posted_list' = [posted_list EXCEPT ![p] = Append(@, r)]
    BY DEF mp_isend_on_stream
  <1>7. last_posted_tracked' \in [Channels -> Nat]
    BY <1>6 DEF Base, TypeOK
  <1>8. Base'
    BY <1>2, <1>3, <1>5, <1>6, <1>7, CreateBase
  <1> QED
    BY <1>2, <1>8

LEMMA SendOnStreamBase ==
    ASSUME Base, NEW r \in Reqs, NEW p \in Peers, NEW s \in Streams, mp_send_on_stream(r, p, s)
    PROVE  Base' /\ Fresh(r, p, "TX", "PREPARED")
  <1>1. "PREPARED" \in States \ {"UNDEF"} /\ <<p, "TX">> \in Channels
    BY DEF States
  <1>2. Fresh(r, p, "TX", "PREPARED")
    <2>1. (last_posted_tracked[<<p, "TX">>] < last_req_id[p] + 1) \in BOOLEAN
      OBVIOUS
    <2> QED
      BY <1>1, <2>1, NewRequestStep DEF mp_send_on_stream
  <1>3. \A c \in Channels : last_posted_tracked[c] <= last_req_id'[c[1]]
    BY <1>2, Types DEF Fresh, Base, Inv, Words
  <1>4. OnStream(s, SendOps(r, p)) \/ UNCHANGED stream
    BY DEF mp_send_on_stream, SendOps
  <1>5. stream' \in [Streams -> Seq(Op)]
    BY <1>4, SendOpsType, OnStreamType DEF Base, TypeOK
  <1>6. /\ pc = "idle" /\ UNCHANGED <<last_trigger, last_tracked, wq, cq, pc, waited, post>>
        /\ user' \in {user, user \union {r}}
        /\ last_posted_trigger' = [last_posted_trigger EXCEPT ![p] = last_req_id[p] + 1]
        /\ posted_list' = [posted_list EXCEPT ![p] = Append(@, r)]
        /\ last_posted_tracked' = [last_posted_tracked EXCEPT ![<<p, "TX">>] =
               IF @ < last_req_id[p] + 1 THEN last_req_id[p] + 1 ELSE @]
    BY DEF mp_send_on_stream
  <1>7. /\ last_posted_tracked' \in [Channels -> Nat]
        /\ \A c \in Channels : last_posted_tracked'[c] <= last_req_id'[c[1]]
    <2>1. last_req_id'[p] = last_req_id[p] + 1 /\ last_req_id[p] + 1 \in Nat
      BY <1>2, Types DEF Fresh, Base
    <2>2. last_posted_tracked \in [Channels -> Nat]
      BY DEF Base, TypeOK
    <2> QED
      BY <1>1, <1>3, <1>6, <2>1, <2>2
  <1>8. Base'
    BY <1>2, <1>5, <1>6, <1>7, CreateBase
  <1> QED
    BY <1>2, <1>8

-----------------------------------------------------------------------------
(* Batches of prepared sends *)

OneOrTwo(rs, a, b) == rs = <<a>> \/ (rs = <<a, b>> /\ a # b)

LEMMA AcceptedShape ==
    ASSUME TypeOK, NEW a \in Reqs, NEW b \in Reqs, NEW rs, OneOrTwo(rs, a, b)
    PROVE  LET acc == Accepted(rs)
           IN  /\ acc \in {<<>>, <<a>>, <<a, b>>}
               /\ acc # <<>> => req[a].id > last_posted_trigger[req[a].peer]
               /\ acc = <<a, b>> =>
                     /\ a # b /\ req[b].id > last_posted_trigger[req[b].peer]
                     /\ req[a].peer = req[b].peer => req[a].id < req[b].id
               /\ acc = rs => acc # <<>>
  <1>1. CASE rs = <<a>>
    <2>1. Len(rs) = 1 /\ rs[1] = a /\ rs # <<>>
      BY <1>1
    <2>2. Accepted(rs) = IF InOrder(rs, 1) THEN rs ELSE <<>>
      BY <2>1 DEF Accepted
    <2>3. InOrder(rs, 1) => req[a].id > last_posted_trigger[req[a].peer]
      BY <2>1 DEF InOrder
    <2>4. <<a>> # <<a, b>>
      OBVIOUS
    <2> QED
      BY <1>1, <2>1, <2>2, <2>3, <2>4
  <1>2. CASE rs = <<a, b>> /\ a # b
    <2>1. Len(rs) = 2 /\ rs[1] = a /\ rs[2] = b /\ rs # <<>> /\ <<a>> # <<a, b>> /\ <<a>> # <<>>
      BY <1>2
    <2>2. Accepted(rs) = IF ~InOrder(rs, 1) THEN <<>> ELSE IF ~InOrder(rs, 2) THEN <<a>> ELSE rs
      BY <2>1 DEF Accepted
    <2>3. InOrder(rs, 1) => req[a].id > last_posted_trigger[req[a].peer]
      BY <2>1 DEF InOrder
    <2>4. InOrder(rs, 2) => /\ req[b].id > last_posted_trigger[req[b].peer]
                            /\ req[a].peer = req[b].peer => req[a].id < req[b].id
      BY <2>1 DEF InOrder
    <2> QED
      BY <1>2, <2>1, <2>2, <2>3, <2>4
  <1> QED
    BY <1>1, <1>2 DEF OneOrTwo

LEMMA MaxOne == ASSUME NEW n \in Nat PROVE (CHOOSE k \in {n} : \A m \in {n} : m <= k) = n
  OBVIOUS

LEMMA MaxTwo ==
    ASSUME NEW n \in Nat, NEW m \in Nat, m <= n
    PROVE  (CHOOSE k \in {m, n} : \A l \in {m, n} : l <= k) = n
  <1>1. \A k \in {m, n} : (\A l \in {m, n} : l <= k) => k = n
    OBVIOUS
  <1>2. n \in {m, n} /\ \A l \in {m, n} : l <= n
    OBVIOUS
  <1> QED
    BY <1>1, <1>2

\* The last id of a peer in a batch.
LEMMA LastIdOne ==
    ASSUME TypeOK, NEW a \in Reqs, NEW p, NEW d
    PROVE  /\ LastId(<<>>, p, d) = d
           /\ LastId(<<a>>, p, d) = IF req[a].peer = p THEN req[a].id ELSE d
  <1>1. LastId(<<>>, p, d) = d
    BY DEF LastId
  <1>2. CASE req[a].peer = p
    <2>1. {req[<<a>>[i]].id : i \in {j \in DOMAIN <<a>> : req[<<a>>[j]].peer = p}} = {req[a].id}
      BY <1>2
    <2>2. req[a].id \in Nat
      BY Types
    <2> QED
      BY <1>1, <1>2, <2>1, <2>2, MaxOne DEF LastId
  <1>3. CASE req[a].peer # p
    <2>1. {req[<<a>>[i]].id : i \in {j \in DOMAIN <<a>> : req[<<a>>[j]].peer = p}} = {}
      BY <1>3
    <2> QED
      BY <1>1, <1>3, <2>1 DEF LastId
  <1> QED
    BY <1>2, <1>3

LEMMA LastIdTwo ==
    ASSUME TypeOK, NEW a \in Reqs, NEW b \in Reqs, NEW p, NEW d,
           req[a].peer = req[b].peer => req[a].id < req[b].id
    PROVE  LastId(<<a, b>>, p, d) = IF req[b].peer = p THEN req[b].id
                                    ELSE IF req[a].peer = p THEN req[a].id ELSE d
  <1> DEFINE rs  == <<a, b>>
             ids == {req[rs[i]].id : i \in {j \in DOMAIN rs : req[rs[j]].peer = p}}
  <1>1. DOMAIN rs = {1, 2} /\ rs[1] = a /\ rs[2] = b
    OBVIOUS
  <1>2. req[a].id \in Nat /\ req[b].id \in Nat
    BY Types
  <1>3. LastId(rs, p, d) = IF ids = {} THEN d ELSE CHOOSE n \in ids : \A m \in ids : m <= n
    BY DEF LastId
  <1> HIDE DEF rs
  <1>4. CASE req[a].peer = p /\ req[b].peer = p
    <2>1. ids = {req[a].id, req[b].id}
      BY <1>1, <1>4
    <2> HIDE DEF ids
    <2> QED
      BY <1>2, <1>3, <1>4, <2>1, MaxTwo DEF rs
  <1>5. CASE req[a].peer # p /\ req[b].peer = p
    <2>1. ids = {req[b].id}
      BY <1>1, <1>5
    <2> HIDE DEF ids
    <2> QED
      BY <1>2, <1>3, <1>5, <2>1, MaxOne DEF rs
  <1>6. CASE req[a].peer = p /\ req[b].peer # p
    <2>1. ids = {req[a].id}
      BY <1>1, <1>6
    <2> HIDE DEF ids
    <2> QED
      BY <1>2, <1>3, <1>6, <2>1, MaxOne DEF rs
  <1>7. CASE req[a].peer # p /\ req[b].peer # p
    <2>1. ids = {}
      BY <1>1, <1>7
    <2> HIDE DEF ids
    <2> QED
      BY <1>3, <1>7, <2>1 DEF rs
  <1> QED
    BY <1>4, <1>5, <1>6, <1>7

LEMMA SortedConcat ==
    ASSUME NEW s \in Seq(Reqs), NEW t \in Seq(Reqs), NEW rq, Sorted(s, rq), Sorted(t, rq),
           \A x \in Elems(s), y \in Elems(t) : rq[x].id < rq[y].id
    PROVE  Sorted(s \o t, rq)
  <1> DEFINE u == s \o t
  <1>1. /\ u \in Seq(Reqs) /\ DOMAIN u = 1..(Len(s) + Len(t))
        /\ DOMAIN s = 1..Len(s) /\ DOMAIN t = 1..Len(t) /\ Len(s) \in Nat /\ Len(t) \in Nat
    BY SeqConcat, SeqElem
  <1>2. /\ \A i \in 1..Len(s) : u[i] = s[i] /\ s[i] \in Elems(s)
        /\ \A i \in (Len(s) + 1)..(Len(s) + Len(t)) :
              i - Len(s) \in 1..Len(t) /\ u[i] = t[i - Len(s)] /\ u[i] \in Elems(t)
    BY <1>1, SeqConcat, SeqElem
  <1> HIDE DEF u
  <1> SUFFICES ASSUME NEW i \in DOMAIN u, NEW j \in DOMAIN u, i < j
               PROVE  rq[u[i]].id < rq[u[j]].id
    BY DEF Sorted, u
  <1>3. CASE i <= Len(s) /\ j <= Len(s)
    <2>1. i \in DOMAIN s /\ j \in DOMAIN s /\ u[i] = s[i] /\ u[j] = s[j]
      BY <1>1, <1>2, <1>3
    <2> QED
      BY <2>1 DEF Sorted
  <1>4. CASE i <= Len(s) /\ j > Len(s)
    <2>1. u[i] \in Elems(s) /\ u[j] \in Elems(t)
      BY <1>1, <1>2, <1>4
    <2> QED
      BY <2>1
  <1>5. CASE i > Len(s)
    <2>1. /\ i - Len(s) \in DOMAIN t /\ j - Len(s) \in DOMAIN t /\ i - Len(s) < j - Len(s)
          /\ u[i] = t[i - Len(s)] /\ u[j] = t[j - Len(s)]
      BY <1>1, <1>2, <1>5
    <2> QED
      BY <2>1 DEF Sorted
  <1> QED
    BY <1>1, <1>3, <1>4, <1>5

LEMMA ListConcat ==
    ASSUME Base, NEW p \in Peers, NEW new \in Seq(Reqs),
           posted_list'[p] = posted_list[p] \o new, Sorted(new, req'),
           req' \in [Reqs -> ReqFields], last_posted_trigger'[p] \in Nat,
           last_posted_trigger[p] <= last_posted_trigger'[p],
           \A x \in Elems(new) : /\ status'[x] = "PREPARED" /\ Chan(x)' = <<p, "TX">>
                                 /\ last_posted_trigger[p] < req'[x].id
                                 /\ req'[x].id <= last_posted_trigger'[p],
           \A x \in Elems(posted_list[p]) : Held(x)
    PROVE  ListOK(p)' /\ Elems(posted_list'[p]) = Elems(posted_list[p]) \union Elems(new)
  <1>1. /\ ListOK(p) /\ posted_list[p] \in Seq(Reqs) /\ Elems(posted_list[p]) \subseteq Reqs
        /\ last_posted_trigger[p] \in Nat /\ Elems(new) \subseteq Reqs
    BY Types, SeqElem DEF Base, Inv, Lists
  <1>2. \A x \in Reqs : req[x].id \in Nat /\ req'[x].id \in Nat
    BY Types DEF ReqFields, Base
  <1>3. \A x \in Elems(posted_list[p]) :
           /\ status'[x] = "PREPARED" /\ req'[x].id = req[x].id
           /\ Chan(x)' = <<p, "TX">> /\ req[x].id <= last_posted_trigger[p]
    BY <1>1 DEF ListOK, Held, SameId, Chan
  <1>4. Sorted(posted_list[p], req')
    BY ZenonT(60), <1>1, <1>3, SortedSame DEF ListOK
  <1>5. \A x \in Elems(posted_list[p]), y \in Elems(new) : req'[x].id < req'[y].id
    BY <1>1, <1>2, <1>3
  <1>6. Sorted(posted_list'[p], req')
    BY <1>1, <1>4, <1>5, SortedConcat
  <1>7. Elems(posted_list'[p]) = Elems(posted_list[p]) \union Elems(new)
    BY <1>1, ElemsConcat
  <1>8. \A x \in Elems(posted_list[p]) : req'[x].id <= last_posted_trigger'[p]
    BY <1>1, <1>2, <1>3
  <1> QED
    BY <1>3, <1>6, <1>7, <1>8 DEF ListOK

\* A batch of at most two requests whose ids ascend for one peer.
Ordered(acc, a, b) ==
    /\ a \in Reqs /\ b \in Reqs /\ acc \in {<<>>, <<a>>, <<a, b>>}
    /\ acc = <<a, b>> /\ req[a].peer = req[b].peer => req[a].id < req[b].id
SameIds(rq) == \A x \in Reqs : rq[x].id \in Nat /\ rq[x].id = req[x].id

\* The requests of one peer in a batch, in its order.
LEMMA AllOfPeerFacts ==
    ASSUME NEW a, NEW b, NEW acc, Ordered(acc, a, b), NEW p, NEW rq, SameIds(rq)
    PROVE  /\ AllOfPeer(acc, p) \in Seq(Reqs) /\ Sorted(AllOfPeer(acc, p), rq)
           /\ \A x : x \in Elems(AllOfPeer(acc, p)) <=> x \in Elems(acc) /\ req[x].peer = p
  <1> USE DEF Ordered, SameIds
  <1>1. CASE acc = <<>>
    <2>1. AllOfPeer(acc, p) = <<>>
      BY <1>1 DEF AllOfPeer
    <2>2. Sorted(<<>>, rq)
      BY DEF Sorted
    <2>3. <<>> # <<a>> /\ <<>> # <<a, b>>
      OBVIOUS
    <2> QED
      BY <1>1, <2>1, <2>2, <2>3, SeqNone
  <1>2. CASE acc = <<a>>
    <2>1. AllOfPeer(acc, p) = OfPeer(a, p) /\ <<a>> # <<a, b>> /\ <<a>> # <<>>
      BY <1>2 DEF AllOfPeer
    <2>2. OfPeer(a, p) = IF req[a].peer = p THEN <<a>> ELSE <<>>
      BY DEF OfPeer
    <2>3. Sorted(<<>>, rq) /\ Sorted(<<a>>, rq)
      BY DEF Sorted
    <2>4. Elems(<<a>>) = {a} /\ <<a>> \in Seq(Reqs) /\ Elems(<<>>) = {} /\ <<>> \in Seq(Reqs)
      BY SeqOne, SeqNone
    <2> QED
      BY <1>2, <2>1, <2>2, <2>3, <2>4
  <1>3. CASE acc = <<a, b>>
    <2>1. AllOfPeer(acc, p) = OfPeer(a, p) \o OfPeer(b, p) /\ <<a>> # <<a, b>> /\ <<a, b>> # <<>>
      BY <1>3 DEF AllOfPeer
    <2>2. /\ OfPeer(a, p) = IF req[a].peer = p THEN <<a>> ELSE <<>>
          /\ OfPeer(b, p) = IF req[b].peer = p THEN <<b>> ELSE <<>>
      BY DEF OfPeer
    <2>3. Sorted(<<>>, rq) /\ Sorted(<<a>>, rq) /\ Sorted(<<b>>, rq)
      BY DEF Sorted
    <2>4. /\ Elems(<<a>>) = {a} /\ <<a>> \in Seq(Reqs) /\ Elems(<<>>) = {} /\ <<>> \in Seq(Reqs)
          /\ Elems(<<b>>) = {b} /\ <<b>> \in Seq(Reqs)
      BY SeqOne, SeqNone
    <2>5. Elems(<<a, b>>) = {a, b}
      BY DEF Elems
    <2>6. /\ OfPeer(a, p) \in Seq(Reqs) /\ Elems(OfPeer(a, p)) = {x \in {a} : req[x].peer = p}
          /\ OfPeer(b, p) \in Seq(Reqs) /\ Elems(OfPeer(b, p)) = {x \in {b} : req[x].peer = p}
          /\ Sorted(OfPeer(a, p), rq) /\ Sorted(OfPeer(b, p), rq)
      BY <2>2, <2>3, <2>4
    <2>7. \A x \in Elems(OfPeer(a, p)), y \in Elems(OfPeer(b, p)) : rq[x].id < rq[y].id
      BY <1>3, <2>6
    <2>8. Elems(AllOfPeer(acc, p)) = Elems(OfPeer(a, p)) \union Elems(OfPeer(b, p))
      BY <2>1, <2>6, ElemsConcat
    <2>9. AllOfPeer(acc, p) \in Seq(Reqs)
      BY <2>1, <2>6, SeqConcat
    <2>10. Sorted(AllOfPeer(acc, p), rq)
      BY <2>1, <2>6, <2>7, SortedConcat
    <2> QED
      BY <1>3, <2>1, <2>5, <2>6, <2>8, <2>9, <2>10
  <1> QED
    BY <1>1, <1>2, <1>3

LEMMA LastIdFacts ==
    ASSUME TypeOK, NEW a, NEW b, NEW acc, Ordered(acc, a, b), NEW p, NEW d \in Nat
    PROVE  LET n == LastId(acc, p, d)
           IN  /\ n \in Nat
               /\ \A x \in Elems(acc) : req[x].peer = p => req[x].id <= n
               /\ n = d \/ \E x \in Elems(acc) : req[x].peer = p /\ req[x].id = n
               /\ (\A x \in Elems(acc) : req[x].peer # p) => n = d
  <1> USE DEF Ordered
  <1>1. \A x \in Reqs : req[x].id \in Nat
    BY Types
  <1>2. CASE acc = <<>>
    <2>1. Elems(acc) = {} /\ LastId(acc, p, d) = d
      BY <1>2, SeqNone, LastIdOne
    <2> QED
      BY <2>1
  <1>3. CASE acc = <<a>>
    <2>1. Elems(acc) = {a} /\ LastId(acc, p, d) = IF req[a].peer = p THEN req[a].id ELSE d
      BY <1>3, SeqOne, LastIdOne
    <2> QED
      BY <1>1, <2>1
  <1>4. CASE acc = <<a, b>>
    <2>1. Elems(acc) = {a, b}
      BY <1>4 DEF Elems
    <2>2. LastId(acc, p, d) = IF req[b].peer = p THEN req[b].id
                              ELSE IF req[a].peer = p THEN req[a].id ELSE d
      BY <1>4, LastIdTwo
    <2> QED
      BY <1>1, <1>4, <2>1, <2>2
  <1> QED
    BY <1>2, <1>3, <1>4

\* What a batch does to requests, lists and words; acc is what the loop accepted.
Batched(acc, block) ==
    /\ pc = "idle" /\ Elems(acc) \subseteq Reqs /\ Elems(acc) \subseteq user
    /\ \A x \in Elems(acc) :
          /\ status[x] = "PREPARED" /\ x \notin Elems(posted_list[req[x].peer])
          /\ req[x].peer \in Peers /\ Chan(x) = <<req[x].peer, "TX">>
          /\ last_posted_trigger[req[x].peer] < req[x].id
          /\ req[x].id <= last_posted_trigger'[req[x].peer]
    /\ last_posted_trigger' \in [Peers -> Nat]
    /\ \A p \in Peers :
          /\ last_posted_trigger[p] <= last_posted_trigger'[p]
          /\ \/ last_posted_trigger'[p] = last_posted_trigger[p]
             \/ \E x \in Elems(acc) : req[x].peer = p /\ req[x].id = last_posted_trigger'[p]
    /\ posted_list' \in [Peers -> Seq(Reqs)]
    /\ \A p \in Peers : Elems(posted_list'[p]) = Elems(posted_list[p])
                                                 \union {x \in Elems(acc) : req[x].peer = p}
    /\ req' \in [Reqs -> ReqFields] /\ \A x \in Reqs : SameId(x)
    /\ \A x \in Reqs : req'[x].trigger = (req[x].trigger \/ (block /\ x \in Elems(acc) /\ NeedsWait(x)))
    /\ last_posted_tracked' \in [Channels -> Nat]
    /\ \A c \in Channels :
          /\ last_posted_tracked[c] <= last_posted_tracked'[c]
          /\ \/ last_posted_tracked'[c] = last_posted_tracked[c]
             \/ block /\ \E x \in Elems(acc) : Chan(x) = c /\ req[x].id = last_posted_tracked'[c]
          /\ block => \A x \in Elems(acc) : Chan(x) = c => req[x].id <= last_posted_tracked'[c]
    /\ UNCHANGED <<status, user, last_req_id, last_trigger, last_tracked, wq, cq, pc, waited, post>>
    /\ Lists'

LEMMA PostBatchStep ==
    ASSUME Base, NEW a \in Reqs, NEW b \in Reqs, NEW rs, OneOrTwo(rs, a, b), NEW s \in Streams,
           NEW call, NEW block \in BOOLEAN, PostBatch(call, rs, s, block)
    PROVE  Batched(Accepted(rs), block)
  <1>1. PICK acc \in {<<>>, <<a>>, <<a, b>>} : acc = Accepted(rs)
    BY AcceptedShape DEF Base
  <1>2. /\ acc # <<>> => req[a].id > last_posted_trigger[req[a].peer]
        /\ acc = <<a, b>> => /\ a # b /\ req[b].id > last_posted_trigger[req[b].peer]
                             /\ req[a].peer = req[b].peer => req[a].id < req[b].id
    BY <1>1, AcceptedShape DEF Base
  <1>3. (\A x \in Reqs : req[x].id \in Nat) /\ TypeOK /\ Ordered(acc, a, b)
    BY <1>2, Types DEF Base, Ordered
  <1>4. /\ Elems(acc) \subseteq {a, b} /\ (acc = <<a>> => Elems(acc) = {a})
        /\ (acc = <<a, b>> => Elems(acc) = {a, b}) /\ (acc = <<>> => Elems(acc) = {})
    <2>1. Elems(<<>>) = {} /\ Elems(<<a>>) = {a} /\ Elems(<<a, b>>) = {a, b}
      BY DEF Elems
    <2> QED
      BY <2>1
  <1>5. /\ pc = "idle"
        /\ \A i \in DOMAIN rs : rs[i] \in user /\ Unposted(rs[i])
        /\ last_posted_trigger' = [p \in Peers |-> LastId(acc, p, last_posted_trigger[p])]
        /\ posted_list' = [p \in Peers |-> posted_list[p] \o AllOfPeer(acc, p)]
        /\ req' = [r \in Reqs |-> IF block /\ r \in Elems(acc) /\ NeedsWait(r)
                                  THEN [req[r] EXCEPT !.trigger = TRUE] ELSE req[r]]
        /\ last_posted_tracked' = [c \in Channels |->
               IF block /\ c[2] = "TX" /\ last_posted_tracked[c] < LastId(acc, c[1], 0)
               THEN LastId(acc, c[1], 0) ELSE last_posted_tracked[c]]
        /\ UNCHANGED <<status, user, last_req_id, last_trigger, last_tracked,
                       wq, cq, pc, waited, post>>
    BY <1>1 DEF PostBatch, Elems
  <1>6. \A x \in Elems(acc) : \E i \in DOMAIN rs : x = rs[i]
    <2>1. CASE rs = <<a>>
      <3>1. a = rs[1] /\ 1 \in DOMAIN rs /\ acc # <<a, b>>
        BY <1>1, <2>1, AcceptedShape DEF Base, Accepted
      <3> QED
        BY <1>4, <3>1
    <2>2. CASE rs = <<a, b>>
      <3>1. a = rs[1] /\ 1 \in DOMAIN rs /\ b = rs[2] /\ 2 \in DOMAIN rs
        BY <2>2
      <3> QED
        BY <1>4, <3>1
    <2> QED
      BY <2>1, <2>2 DEF OneOrTwo
  <1>7. \A x \in Elems(acc) :
           /\ x \in Reqs /\ x \in user /\ status[x] = "PREPARED"
           /\ x \notin Elems(posted_list[req[x].peer])
           /\ req[x].peer \in Peers /\ Chan(x) = <<req[x].peer, "TX">>
           /\ last_posted_trigger[req[x].peer] < req[x].id
    <2> SUFFICES ASSUME NEW x \in Elems(acc)
                 PROVE  /\ x \in Reqs /\ x \in user /\ status[x] = "PREPARED"
                        /\ x \notin Elems(posted_list[req[x].peer])
                        /\ req[x].peer \in Peers /\ Chan(x) = <<req[x].peer, "TX">>
                        /\ last_posted_trigger[req[x].peer] < req[x].id
      OBVIOUS
    <2>1. x \in Reqs /\ x \in user /\ Unposted(x)
      BY <1>4, <1>5, <1>6
    <2>2. status[x] = "PREPARED" /\ x \notin Elems(posted_list[req[x].peer])
      BY <2>1 DEF Unposted, InSeq, Elems
    <2>3. req[x].peer \in Peers /\ Chan(x) = <<req[x].peer, "TX">>
      BY <2>1, <2>2, InUse DEF Base, Inv, PreparedTx
    <2>4. last_posted_trigger[req[x].peer] < req[x].id
      BY <1>2, <1>3, <1>4, <2>3, Types DEF Base
    <2> QED
      BY <2>1, <2>2, <2>3, <2>4
  <1>8. \A p \in Peers :
           /\ last_posted_trigger'[p] \in Nat
           /\ \A x \in Elems(acc) : req[x].peer = p => req[x].id <= last_posted_trigger'[p]
           /\ \/ last_posted_trigger'[p] = last_posted_trigger[p]
              \/ \E x \in Elems(acc) : req[x].peer = p /\ req[x].id = last_posted_trigger'[p]
    <2> SUFFICES ASSUME NEW p \in Peers
                 PROVE  /\ last_posted_trigger'[p] \in Nat
                        /\ \A x \in Elems(acc) : req[x].peer = p => req[x].id <= last_posted_trigger'[p]
                        /\ \/ last_posted_trigger'[p] = last_posted_trigger[p]
                           \/ \E x \in Elems(acc) : req[x].peer = p /\ req[x].id = last_posted_trigger'[p]
      OBVIOUS
    <2>1. PICK d \in Nat : d = last_posted_trigger[p]
      BY Types DEF Base
    <2>2. last_posted_trigger'[p] = LastId(acc, p, d) /\ TypeOK
      BY <1>5, <2>1 DEF Base
    <2> QED
      BY <1>3, <2>1, <2>2, LastIdFacts
  <1>9. /\ \A p \in Peers : last_posted_trigger[p] <= last_posted_trigger'[p]
        /\ last_posted_trigger' \in [Peers -> Nat]
    <2>1. \A p \in Peers : last_posted_trigger[p] \in Nat
      BY Types DEF Base
    <2>2. \A p \in Peers : last_posted_trigger[p] <= last_posted_trigger'[p]
      BY <1>3, <1>7, <1>8, <2>1
    <2>3. last_posted_trigger' = [p \in Peers |-> last_posted_trigger'[p]]
      BY <1>5
    <2> QED
      BY <1>8, <2>2, <2>3
  <1>10. /\ req' \in [Reqs -> ReqFields]
         /\ \A x \in Reqs : SameId(x)
         /\ \A x \in Reqs : req'[x].trigger = (req[x].trigger \/ (block /\ x \in Elems(acc) /\ NeedsWait(x)))
    <2>1. \A x \in Reqs : req[x] \in ReqFields
      BY Types DEF Base
    <2>2. \A x \in Reqs : [req[x] EXCEPT !.trigger = TRUE] \in ReqFields
      BY <2>1 DEF ReqFields
    <2>3. req' \in [Reqs -> ReqFields]
      BY <1>5, <2>1, <2>2
    <2>4. \A x \in Reqs : SameId(x)
      BY <1>5, <2>1 DEF SameId, ReqFields
    <2>5. \A x \in Reqs : req'[x].trigger = (req[x].trigger \/ (block /\ x \in Elems(acc) /\ NeedsWait(x)))
      <3> SUFFICES ASSUME NEW x \in Reqs
                   PROVE  req'[x].trigger = (req[x].trigger \/ (block /\ x \in Elems(acc) /\ NeedsWait(x)))
        OBVIOUS
      <3>1. req[x].trigger \in BOOLEAN
        BY <2>1 DEF ReqFields
      <3>2. CASE block /\ x \in Elems(acc) /\ NeedsWait(x)
        <4>1. req'[x] = [req[x] EXCEPT !.trigger = TRUE]
          BY <1>5, <3>2
        <4>2. req'[x].trigger = TRUE
          BY <4>1, <2>1 DEF ReqFields
        <4> QED
          BY <3>2, <4>2
      <3>3. CASE ~(block /\ x \in Elems(acc) /\ NeedsWait(x))
        <4>1. req'[x] = req[x]
          BY <1>5, <3>3
        <4> QED
          BY <3>1, <3>3, <4>1
      <3> QED
        BY <3>2, <3>3
    <2> QED
      BY <2>3, <2>4, <2>5
  <1>11. \A p \in Peers : /\ AllOfPeer(acc, p) \in Seq(Reqs) /\ Sorted(AllOfPeer(acc, p), req')
                          /\ \A x : x \in Elems(AllOfPeer(acc, p)) <=> x \in Elems(acc) /\ req[x].peer = p
    <2>1. \A x \in Reqs : req'[x].id \in Nat /\ req'[x].id = req[x].id
      BY <1>3, <1>10 DEF SameId
    <2>2. PICK rq : rq = req'
      OBVIOUS
    <2>3. SameIds(rq)
      BY <2>1, <2>2 DEF SameIds
    <2> SUFFICES ASSUME NEW p \in Peers
                 PROVE  /\ AllOfPeer(acc, p) \in Seq(Reqs) /\ Sorted(AllOfPeer(acc, p), rq)
                        /\ \A x : x \in Elems(AllOfPeer(acc, p)) <=> x \in Elems(acc) /\ req[x].peer = p
      BY <2>2
    <2> QED
      BY ZenonT(60), <1>3, <2>3, AllOfPeerFacts
  <1>12. \A x \in Reqs : Held(x)
    BY <1>5, <1>10 DEF Held
  <1>13. \A p \in Peers : /\ ListOK(p)'
                          /\ Elems(posted_list'[p]) = Elems(posted_list[p])
                                 \union {x \in Elems(acc) : req[x].peer = p}
    <2> SUFFICES ASSUME NEW p \in Peers
                 PROVE  /\ ListOK(p)'
                        /\ Elems(posted_list'[p]) = Elems(posted_list[p])
                               \union {x \in Elems(acc) : req[x].peer = p}
      OBVIOUS
    <2>1. PICK new \in Seq(Reqs) : new = AllOfPeer(acc, p)
      BY <1>11
    <2>2. posted_list'[p] = posted_list[p] \o new /\ Sorted(new, req')
          /\ Elems(new) = {x \in Elems(acc) : req[x].peer = p}
      BY <1>5, <1>11, <2>1
    <2>3. \A x \in Elems(new) : /\ status'[x] = "PREPARED" /\ Chan(x)' = <<p, "TX">>
                                /\ last_posted_trigger[p] < req'[x].id
                                /\ req'[x].id <= last_posted_trigger'[p]
      BY <1>5, <1>7, <1>8, <1>10, <2>2 DEF SameId, Chan
    <2>4. \A x \in Elems(posted_list[p]) : Held(x)
      BY <1>12, Types DEF Base
    <2>5. ListOK(p)' /\ Elems(posted_list'[p]) = Elems(posted_list[p]) \union Elems(new)
      BY <1>8, <1>9, <1>10, <2>2, <2>3, <2>4, ListConcat
    <2> QED
      BY <2>2, <2>5
  <1>14. posted_list' \in [Peers -> Seq(Reqs)]
    <2>1. \A p \in Peers : posted_list[p] \o AllOfPeer(acc, p) \in Seq(Reqs)
      BY <1>11, Types, SeqConcat DEF Base
    <2> QED
      BY <1>5, <2>1
  <1>15. /\ last_posted_tracked' \in [Channels -> Nat]
         /\ \A c \in Channels :
              /\ last_posted_tracked[c] <= last_posted_tracked'[c]
              /\ \/ last_posted_tracked'[c] = last_posted_tracked[c]
                 \/ block /\ \E x \in Elems(acc) : Chan(x) = c /\ req[x].id = last_posted_tracked'[c]
              /\ block => \A x \in Elems(acc) : Chan(x) = c => req[x].id <= last_posted_tracked'[c]
    <2>1. \A c \in Channels : /\ last_posted_tracked[c] \in Nat /\ c[1] \in Peers
                              /\ c[2] \in {"TX", "RX"} /\ c = <<c[1], c[2]>>
      BY Types DEF Base
    <2>2. \A c \in Channels :
             /\ LastId(acc, c[1], 0) \in Nat
             /\ \A x \in Elems(acc) : req[x].peer = c[1] => req[x].id <= LastId(acc, c[1], 0)
             /\ \/ LastId(acc, c[1], 0) = 0
                \/ \E x \in Elems(acc) : req[x].peer = c[1] /\ req[x].id = LastId(acc, c[1], 0)
      <3> SUFFICES ASSUME NEW c \in Channels, NEW p, p = c[1]
                   PROVE  /\ LastId(acc, p, 0) \in Nat
                          /\ \A x \in Elems(acc) : req[x].peer = p => req[x].id <= LastId(acc, p, 0)
                          /\ \/ LastId(acc, p, 0) = 0
                             \/ \E x \in Elems(acc) : req[x].peer = p /\ req[x].id = LastId(acc, p, 0)
        OBVIOUS
      <3>1. TypeOK /\ 0 \in Nat
        BY DEF Base
      <3> QED
        BY <1>3, <3>1, LastIdFacts
    <2>3. \A c \in Channels : last_posted_tracked'[c] =
               IF block /\ c[2] = "TX" /\ last_posted_tracked[c] < LastId(acc, c[1], 0)
               THEN LastId(acc, c[1], 0) ELSE last_posted_tracked[c]
      BY <1>5
    <2>4. last_posted_tracked' \in [Channels -> Nat]
      BY <1>5, <2>1, <2>2
    <2> SUFFICES ASSUME NEW c \in Channels
                 PROVE  /\ last_posted_tracked[c] <= last_posted_tracked'[c]
                        /\ \/ last_posted_tracked'[c] = last_posted_tracked[c]
                           \/ block /\ \E x \in Elems(acc) : Chan(x) = c /\ req[x].id = last_posted_tracked'[c]
                        /\ block => \A x \in Elems(acc) : Chan(x) = c => req[x].id <= last_posted_tracked'[c]
      BY <2>4
    <2>5. \A x \in Elems(acc) : (req[x].peer = c[1] /\ c[2] = "TX") <=> Chan(x) = c
      BY <1>7, <2>1
    <2>6. CASE block /\ c[2] = "TX" /\ last_posted_tracked[c] < LastId(acc, c[1], 0)
      <3>1. last_posted_tracked'[c] = LastId(acc, c[1], 0) /\ LastId(acc, c[1], 0) # 0
        BY <2>1, <2>3, <2>6
      <3> QED
        BY <2>1, <2>2, <2>5, <2>6, <3>1
    <2>7. CASE ~(block /\ c[2] = "TX" /\ last_posted_tracked[c] < LastId(acc, c[1], 0))
      <3>1. last_posted_tracked'[c] = last_posted_tracked[c]
        BY <2>3, <2>7
      <3>2. ASSUME block, NEW x \in Elems(acc), Chan(x) = c PROVE req[x].id <= last_posted_tracked'[c]
        <4>1. c[2] = "TX" /\ req[x].id <= LastId(acc, c[1], 0) /\ x \in Reqs
          BY <1>7, <2>2, <2>5, <3>2
        <4> QED
          BY <1>3, <2>1, <2>2, <2>7, <3>1, <3>2, <4>1
      <3> QED
        BY <2>1, <3>1, <3>2
    <2> QED
      BY <2>6, <2>7
  <1>16. Lists'
    BY <1>13 DEF Lists
  <1>17. Batched(acc, block)
    BY <1>4, <1>5, <1>7, <1>8, <1>9, <1>10, <1>13, <1>14, <1>15, <1>16 DEF Batched
  <1> QED
    BY <1>1, <1>17

\* What a request is given on a stream.
TriggerOf(r) == TriggerOp(req[r].peer, req[r].id)
WaitOf(r)    == WaitOp(Chan(r), req[r].id)
KernelOf(r)  == KernelOp(r, Chan(r), req[r].id)

LEMMA OpsOfType ==
    ASSUME TypeOK, NEW r \in Reqs, status[r] # "UNDEF"
    PROVE  /\ TriggerOf(r) \in Op /\ WaitOf(r) \in Op /\ KernelOf(r) \in Op
           /\ TriggerOf(r).op = "trigger" /\ TriggerOf(r).chan[1] = req[r].peer
           /\ TriggerOf(r).chan = <<req[r].peer, "TX">> /\ TriggerOf(r).id = req[r].id
           /\ WaitOf(r).op = "wait" /\ WaitOf(r).chan = Chan(r) /\ WaitOf(r).id = req[r].id
           /\ KernelOf(r).op = "kernel" /\ KernelOf(r).chan = Chan(r)
           /\ KernelOf(r).id = req[r].id /\ KernelOf(r).req = r
  <1>1. PICK c \in Channels : c = Chan(r) /\ c[1] = req[r].peer
    BY InUse
  <1>2. PICK n \in Nat : n = req[r].id
    BY Types
  <1>3. PICK t \in Op : /\ t = TriggerOp(c[1], n) /\ t.op = "trigger" /\ t.chan[1] = c[1]
                        /\ t.chan = <<c[1], "TX">> /\ t.id = n
    BY OpsAreOps
  <1>4. PICK w \in Op : w = WaitOp(c, n) /\ w.op = "wait" /\ w.chan = c /\ w.id = n
    BY OpsAreOps
  <1>5. PICK k \in Op : k = KernelOp(r, c, n) /\ k.op = "kernel" /\ k.chan = c /\ k.id = n /\ k.req = r
    BY OpsAreOps
  <1>6. TriggerOf(r) = t /\ WaitOf(r) = w /\ KernelOf(r) = k
    BY <1>1, <1>2, <1>3, <1>4, <1>5 DEF TriggerOf, WaitOf, KernelOf
  <1> QED
    BY <1>1, <1>2, <1>3, <1>4, <1>5, <1>6

\* No two triggers of a channel in falling order.
TriggersAscend(ops) ==
    \A i, j \in DOMAIN ops :
        /\ i < j /\ ops[i].op = "trigger" /\ ops[j].op = "trigger" /\ ops[i].chan = ops[j].chan
        => ops[i].id < ops[j].id

LEMMA AscendConcat ==
    ASSUME NEW s \in Seq(Op), NEW t \in Seq(Op), TriggersAscend(s), TriggersAscend(t),
           \A x \in Elems(s), y \in Elems(t) :
              x.op = "trigger" /\ y.op = "trigger" /\ x.chan = y.chan => x.id < y.id
    PROVE  TriggersAscend(s \o t)
  <1> DEFINE u == s \o t
  <1>1. /\ u \in Seq(Op) /\ DOMAIN u = 1..(Len(s) + Len(t))
        /\ DOMAIN s = 1..Len(s) /\ DOMAIN t = 1..Len(t) /\ Len(s) \in Nat /\ Len(t) \in Nat
    BY SeqConcat, SeqElem
  <1>2. /\ \A i \in 1..Len(s) : u[i] = s[i] /\ s[i] \in Elems(s)
        /\ \A i \in (Len(s) + 1)..(Len(s) + Len(t)) :
              i - Len(s) \in 1..Len(t) /\ u[i] = t[i - Len(s)] /\ u[i] \in Elems(t)
    BY <1>1, SeqConcat, SeqElem
  <1> HIDE DEF u
  <1> SUFFICES ASSUME NEW i \in DOMAIN u, NEW j \in DOMAIN u, i < j,
                      u[i].op = "trigger", u[j].op = "trigger", u[i].chan = u[j].chan
               PROVE  u[i].id < u[j].id
    BY DEF TriggersAscend, u
  <1>3. CASE i <= Len(s) /\ j <= Len(s)
    <2>1. i \in DOMAIN s /\ j \in DOMAIN s /\ u[i] = s[i] /\ u[j] = s[j]
      BY <1>1, <1>2, <1>3
    <2> QED
      BY <2>1 DEF TriggersAscend
  <1>4. CASE i <= Len(s) /\ j > Len(s)
    <2>1. u[i] \in Elems(s) /\ u[j] \in Elems(t)
      BY <1>1, <1>2, <1>4
    <2> QED
      BY <2>1
  <1>5. CASE i > Len(s)
    <2>1. /\ i - Len(s) \in DOMAIN t /\ j - Len(s) \in DOMAIN t /\ i - Len(s) < j - Len(s)
          /\ u[i] = t[i - Len(s)] /\ u[j] = t[j - Len(s)]
      BY SMTT(30), <1>1, <1>2, <1>5
    <2> QED
      BY <2>1 DEF TriggersAscend
  <1> QED
    BY <1>1, <1>3, <1>4, <1>5

LEMMA AscendTail ==
    ASSUME NEW s \in Seq(Op), s # <<>>, TriggersAscend(s)
    PROVE  /\ TriggersAscend(Tail(s))
           /\ \A x \in Elems(Tail(s)) :
                 /\ Head(s).op = "trigger" /\ x.op = "trigger" /\ Head(s).chan = x.chan
                 => Head(s).id < x.id
  <1> DEFINE t == Tail(s)
  <1>1. /\ DOMAIN t = 1..Len(t) /\ DOMAIN s = 1..Len(s) /\ Len(s) \in Nat \ {0}
        /\ Head(s) = s[1] /\ Len(t) = Len(s) - 1
        /\ \A i \in 1..Len(t) : i + 1 \in 1..Len(s) /\ t[i] = s[i + 1]
    BY SeqTail, SeqElem
  <1> HIDE DEF t
  <1>2. TriggersAscend(t)
    <2> SUFFICES ASSUME NEW i \in DOMAIN t, NEW j \in DOMAIN t, i < j,
                        t[i].op = "trigger", t[j].op = "trigger", t[i].chan = t[j].chan
                 PROVE  t[i].id < t[j].id
      BY DEF TriggersAscend
    <2>1. i + 1 \in DOMAIN s /\ j + 1 \in DOMAIN s /\ i + 1 < j + 1 /\ t[i] = s[i + 1] /\ t[j] = s[j + 1]
      BY <1>1
    <2> QED
      BY <2>1 DEF TriggersAscend
  <1>3. ASSUME NEW x \in Elems(t), Head(s).op = "trigger", x.op = "trigger", Head(s).chan = x.chan
        PROVE  Head(s).id < x.id
    <2>1. PICK i \in DOMAIN t : t[i] = x
      BY DEF Elems
    <2>2. 1 \in DOMAIN s /\ i + 1 \in DOMAIN s /\ 1 < i + 1 /\ s[i + 1] = x
      BY <1>1, <2>1
    <2> QED
      BY <1>1, <1>3, <2>2 DEF TriggersAscend
  <1> QED
    BY <1>2, <1>3 DEF t

LEMMA OpsOfFacts ==
    ASSUME TypeOK, NEW r \in Reqs, status[r] = "PREPARED", req[r].flow = "TX",
           NEW block \in BOOLEAN
    PROVE  /\ OpsOf(r, block) \in Seq(Op) /\ TriggersAscend(OpsOf(r, block))
           /\ \A o : o \in Elems(OpsOf(r, block)) <=>
                        o = TriggerOf(r) \/ (block /\ NeedsWait(r) /\ o = WaitOf(r))
  <1>1. Chan(r) = Tx(r)
    BY InUse
  <1>2. PICK t \in Op : t = TriggerOf(r)
    BY OpsOfType
  <1>3. PICK w \in Op : w = WaitOf(r) /\ w.op = "wait"
    BY OpsOfType
  <1>4. OpsOf(r, block) = IF block /\ NeedsWait(r) THEN <<t, w>> ELSE <<t>>
    BY <1>1, <1>2, <1>3 DEF OpsOf, TriggerOf, WaitOf
  <1>5. /\ <<t>> \in Seq(Op) /\ <<t, w>> \in Seq(Op)
        /\ Elems(<<t>>) = {t} /\ Elems(<<t, w>>) = {t, w}
    BY DEF Elems
  <1>6. TriggersAscend(<<t>>) /\ TriggersAscend(<<t, w>>)
    BY <1>3 DEF TriggersAscend
  <1> QED
    BY <1>2, <1>3, <1>4, <1>5, <1>6

LEMMA OpsOfAllFacts ==
    ASSUME TypeOK, NEW a \in Reqs, NEW b \in Reqs, NEW rs, OneOrTwo(rs, a, b),
           \A x \in Elems(rs) : status[x] = "PREPARED" /\ req[x].flow = "TX",
           rs = <<a, b>> /\ req[a].peer = req[b].peer => req[a].id < req[b].id,
           NEW block \in BOOLEAN
    PROVE  /\ OpsOfAll(rs, block) \in Seq(Op) /\ TriggersAscend(OpsOfAll(rs, block))
           /\ \A o : o \in Elems(OpsOfAll(rs, block)) <=>
                        \E x \in Elems(rs) :
                           o = TriggerOf(x) \/ (block /\ NeedsWait(x) /\ o = WaitOf(x))
           /\ Kernels(rs) \in Seq(Op)
           /\ \A o : o \in Elems(Kernels(rs)) <=> \E x \in Elems(rs) : o = KernelOf(x)
           /\ Elems(rs) \subseteq {a, b}
  <1>1. CASE rs = <<a>>
    <2>1. Len(rs) = 1 /\ rs[1] = a /\ DOMAIN rs = {1} /\ Elems(rs) = {a}
      BY <1>1 DEF Elems
    <2>2. OpsOfAll(rs, block) = OpsOf(a, block)
      BY <2>1 DEF OpsOfAll
    <2>3. PICK k \in Op : k = KernelOf(a)
      BY <2>1, OpsOfType
    <2>4. Kernels(rs) = <<k>>
      BY <1>1, <2>3 DEF Kernels, KernelOf
    <2>5. Kernels(rs) \in Seq(Op) /\ Elems(Kernels(rs)) = {k}
      BY <2>4, SeqOne
    <2> QED
      BY <2>1, <2>2, <2>3, <2>5, OpsOfFacts
  <1>2. CASE rs = <<a, b>>
    <2>1. Len(rs) = 2 /\ rs[1] = a /\ rs[2] = b /\ DOMAIN rs = {1, 2} /\ Elems(rs) = {a, b}
      BY <1>2 DEF Elems
    <2>2. OpsOfAll(rs, block) = OpsOf(a, block) \o OpsOf(b, block)
      BY <2>1 DEF OpsOfAll
    <2>3. PICK k \in Op : k = KernelOf(a)
      BY <2>1, OpsOfType
    <2>4. PICK l \in Op : l = KernelOf(b)
      BY <2>1, OpsOfType
    <2>5. Kernels(rs) = <<k, l>>
      BY <1>2, <2>3, <2>4 DEF Kernels, KernelOf
    <2>6. Kernels(rs) \in Seq(Op) /\ Elems(Kernels(rs)) = {k, l}
      BY <2>5 DEF Elems
    <2>7. PICK u \in Seq(Op) :
             /\ u = OpsOf(a, block) /\ TriggersAscend(u)
             /\ \A o : o \in Elems(u) <=> o = TriggerOf(a) \/ (block /\ NeedsWait(a) /\ o = WaitOf(a))
      BY <2>1, OpsOfFacts
    <2>8. PICK v \in Seq(Op) :
             /\ v = OpsOf(b, block) /\ TriggersAscend(v)
             /\ \A o : o \in Elems(v) <=> o = TriggerOf(b) \/ (block /\ NeedsWait(b) /\ o = WaitOf(b))
      BY <2>1, OpsOfFacts
    <2>9. /\ TriggerOf(a).chan = <<req[a].peer, "TX">> /\ TriggerOf(a).id = req[a].id
          /\ TriggerOf(b).chan = <<req[b].peer, "TX">> /\ TriggerOf(b).id = req[b].id
          /\ WaitOf(a).op = "wait" /\ WaitOf(b).op = "wait"
      BY <2>1, OpsOfType
    <2>10. \A x \in Elems(u), y \in Elems(v) :
              x.op = "trigger" /\ y.op = "trigger" /\ x.chan = y.chan => x.id < y.id
      BY <1>2, <2>7, <2>8, <2>9
    <2>11. u \o v \in Seq(Op) /\ TriggersAscend(u \o v) /\ Elems(u \o v) = Elems(u) \union Elems(v)
      BY <2>7, <2>8, <2>10, AscendConcat, ElemsConcat, SeqConcat
    <2> QED
      BY <2>1, <2>2, <2>3, <2>4, <2>6, <2>7, <2>8, <2>11
  <1> QED
    BY <1>1, <1>2 DEF OneOrTwo

LEMMA PostBatchBase ==
    ASSUME Base, NEW a \in Reqs, NEW b \in Reqs, NEW rs, OneOrTwo(rs, a, b), NEW s \in Streams,
           NEW call, NEW block \in BOOLEAN, PostBatch(call, rs, s, block)
    PROVE  Base'
  <1>1. PICK acc : acc = Accepted(rs) /\ Batched(acc, block)
    BY PostBatchStep
  <1>2. \A x \in Reqs : Held(x) /\ SameId(x)
    BY <1>1 DEF Held, Batched
  <1>3. stream' \in [Streams -> Seq(Op)]
    <2>1. CASE acc = rs /\ OnStream(s, OpsOfAll(rs, block) \o (IF block THEN Kernels(rs) ELSE <<>>))
      <3>1. \A x \in Elems(rs) : x \in Reqs /\ status[x] = "PREPARED" /\ req[x].flow = "TX"
        BY <1>1, <2>1 DEF Batched, Chan
      <3>2. rs = <<a, b>> /\ req[a].peer = req[b].peer => req[a].id < req[b].id
        <4>1. TypeOK
          BY DEF Base
        <4>2. acc = <<a, b>> => (req[a].peer = req[b].peer => req[a].id < req[b].id)
          BY <1>1, <4>1, AcceptedShape
        <4> QED
          BY <2>1, <4>2
      <3>3. OpsOfAll(rs, block) \in Seq(Op) /\ Kernels(rs) \in Seq(Op)
        BY <3>1, <3>2, OpsOfAllFacts DEF Base
      <3>4. OpsOfAll(rs, block) \o (IF block THEN Kernels(rs) ELSE <<>>) \in Seq(Op)
        BY <3>3, SeqConcat, SeqNone
      <3> QED
        BY <2>1, <3>4, OnStreamType DEF Base
    <2>2. CASE UNCHANGED stream
      BY <2>2 DEF Base, TypeOK
    <2> QED
      BY <1>1, <2>1, <2>2 DEF PostBatch
  <1>4. Queues'
    BY <1>1, <1>2, QueuesSame DEF Batched
  <1>5. IdRange' /\ IdUnique' /\ PreparedTx'
    <2>1. UNCHANGED <<status, last_req_id>>
      BY <1>1 DEF Batched
    <2>2. IdRange /\ IdUnique /\ PreparedTx
      BY DEF Base, Inv
    <2> QED
      BY <1>2, <2>1, <2>2 DEF SameId, IdRange, IdUnique, PreparedTx
  <1>6. Words'
    <2>0. Words /\ IdRange
      BY DEF Base, Inv
    <2>a. \A x \in Elems(acc) : x \in Reqs /\ status[x] = "PREPARED" /\ req[x].peer \in Peers
      BY <1>1 DEF Batched
    <2>b. /\ UNCHANGED <<last_tracked, last_req_id>>
          /\ \A p \in Peers :
                \/ last_posted_trigger'[p] = last_posted_trigger[p]
                \/ \E x \in Elems(acc) : req[x].peer = p /\ req[x].id = last_posted_trigger'[p]
          /\ \A c \in Channels :
                \/ last_posted_tracked'[c] = last_posted_tracked[c]
                \/ \E x \in Elems(acc) : Chan(x) = c /\ req[x].id = last_posted_tracked'[c]
      BY <1>1 DEF Batched
    <2>1. \A x \in Elems(acc) : req[x].peer \in Peers /\ req[x].id <= last_req_id[req[x].peer]
      <3>1. \A p \in Peers : last_req_id[p] \in Nat
        BY Types DEF Base
      <3> QED
        BY <2>0, <2>a, <3>1 DEF IdRange
    <2>2. \A c \in Channels : c[1] \in Peers
      BY Types DEF Base
    <2>3. \A x \in Elems(acc) : Chan(x)[1] = req[x].peer
      BY DEF Chan
    <2>4. \A p \in Peers : last_posted_trigger'[p] <= last_req_id[p]
      BY <2>0, <2>1, <2>b DEF Words
    <2>5. \A c \in Channels : last_posted_tracked'[c] <= last_req_id[c[1]]
      BY <2>0, <2>1, <2>3, <2>b DEF Words
    <2> QED
      BY <2>0, <2>4, <2>5, <2>b DEF Words
  <1>7. Handles' /\ Posting'
    BY <1>1 DEF Batched, Handles, Posting, Base, Inv
  <1>8. TypeOK'
    <2>1. \A r \in Reqs : status'[r] # "UNDEF" => Chan(r)' \in Channels
      BY <1>1, <1>2 DEF Batched, SameId, Chan, Base, TypeOK
    <2> QED
      BY <1>1, <1>3, <2>1 DEF Batched, Base, TypeOK, ReqFields
  <1> QED
    BY <1>1, <1>4, <1>5, <1>6, <1>7, <1>8 DEF Base, Inv, Batched

-----------------------------------------------------------------------------
(* Waits on a stream *)

LEMMA MaxOfPair ==
    ASSUME NEW m \in Nat, NEW n \in Nat, NEW S, S \subseteq {m, n}, S # {}
    PROVE  \E k \in S : k \in Nat /\ \A l \in S : l <= k
  <1>1. \E k \in S : \A l \in S : l <= k
    <2>1. CASE m \in S /\ n \in S
      <3>1. CASE m <= n
        BY <2>1, <3>1
      <3>2. CASE n <= m
        BY <2>1, <3>2
      <3> QED
        BY <3>1, <3>2
    <2>2. CASE ~(m \in S /\ n \in S)
      <3>1. PICK k \in S : TRUE
        OBVIOUS
      <3>2. \A l \in S : l = k
        BY <2>2
      <3>3. k \in Nat /\ k <= k
        OBVIOUS
      <3> QED
        BY <3>2, <3>3
    <2> QED
      BY <2>1, <2>2
  <1> QED
    BY <1>1

\* What Track does for a set of requests that need a wait.
Tracked(W) ==
    /\ req' \in [Reqs -> ReqFields] /\ \A x \in Reqs : SameId(x)
    /\ \A x \in Reqs : req'[x].trigger = (req[x].trigger \/ x \in W)
    /\ last_posted_tracked' \in [Channels -> Nat]
    /\ \A c \in Channels :
          /\ last_posted_tracked[c] <= last_posted_tracked'[c]
          /\ \/ last_posted_tracked'[c] = last_posted_tracked[c]
             \/ \E x \in W : Chan(x) = c /\ req[x].id = last_posted_tracked'[c]
          /\ \A x \in W : Chan(x) = c => req[x].id <= last_posted_tracked'[c]

LEMMA TrackStep ==
    ASSUME TypeOK, NEW a \in Reqs, NEW b \in Reqs, NEW W, W \subseteq {a, b}, Track(W),
           \A x \in W : NeedsWait(x)
    PROVE  Tracked(W)
  <1>1. \A x \in Reqs : req[x] \in ReqFields /\ [req[x] EXCEPT !.trigger = TRUE] \in ReqFields
    BY ZenonT(60), Types DEF ReqFields
  <1>2. req' = [r \in Reqs |-> IF r \in W THEN [req[r] EXCEPT !.trigger = TRUE] ELSE req[r]]
    BY DEF Track
  <1>3. req' \in [Reqs -> ReqFields]
    BY <1>1, <1>2
  <1>4. \A x \in Reqs : SameId(x)
    BY <1>1, <1>2 DEF SameId, ReqFields
  <1>5. \A x \in Reqs : req'[x].trigger = (req[x].trigger \/ x \in W)
    <2> SUFFICES ASSUME NEW x \in Reqs PROVE req'[x].trigger = (req[x].trigger \/ x \in W)
      OBVIOUS
    <2>1. CASE x \in W
      <3>1. req'[x] = [req[x] EXCEPT !.trigger = TRUE]
        BY <1>2, <2>1
      <3>2. req'[x].trigger = TRUE
        BY <3>1, <1>1 DEF ReqFields
      <3> QED
        BY <2>1, <3>2
    <2>2. CASE x \notin W
      <3>1. req'[x] = req[x] /\ req[x].trigger \in BOOLEAN
        BY <1>1, <1>2, <2>2 DEF ReqFields
      <3> QED
        BY <2>2, <3>1
    <2> QED
      BY <2>1, <2>2
  <1>6. last_posted_tracked' = [c \in Channels |->
           LET ids == {req[r].id : r \in {x \in W : Chan(x) = c}}
           IN  IF ids = {} THEN last_posted_tracked[c]
               ELSE CHOOSE n \in ids : \A m \in ids : m <= n]
    BY DEF Track
  <1>7. \A x \in Reqs : req[x].id \in Nat
    BY Types
  <1>8. ASSUME NEW c \in Channels
        PROVE  /\ last_posted_tracked'[c] \in Nat
               /\ last_posted_tracked[c] <= last_posted_tracked'[c]
               /\ \/ last_posted_tracked'[c] = last_posted_tracked[c]
                  \/ \E x \in W : Chan(x) = c /\ req[x].id = last_posted_tracked'[c]
               /\ \A x \in W : Chan(x) = c => req[x].id <= last_posted_tracked'[c]
    <2>1. PICK ids : ids = {req[r].id : r \in {x \in W : Chan(x) = c}}
      OBVIOUS
    <2>2. last_posted_tracked'[c] = IF ids = {} THEN last_posted_tracked[c]
                                    ELSE CHOOSE n \in ids : \A m \in ids : m <= n
      BY <1>6, <2>1
    <2>3. last_posted_tracked[c] \in Nat
      BY Types
    <2>4. CASE ids = {}
      <3>1. \A x \in W : Chan(x) # c
        BY <2>1, <2>4
      <3> QED
        BY <2>2, <2>3, <2>4, <3>1
    <2>5. CASE ids # {}
      <3>1. PICK m \in Nat : m = req[a].id
        BY <1>7
      <3>2. PICK n \in Nat : n = req[b].id
        BY <1>7
      <3>3. ids \subseteq {m, n}
        BY <2>1, <3>1, <3>2
      <3>a. PICK k : k = last_posted_tracked'[c]
        OBVIOUS
      <3>b. k = CHOOSE n1 \in ids : \A m1 \in ids : m1 <= n1
        BY <2>2, <2>5, <3>a
      <3>4. k \in ids /\ k = last_posted_tracked'[c] /\ k \in Nat /\ \A l \in ids : l <= k
        <4>1. \E j \in ids : j \in Nat /\ \A l \in ids : l <= j
          BY <2>5, <3>3, MaxOfPair
        <4> QED
          BY <3>3, <3>a, <3>b, <4>1
      <3>5. PICK x \in W : Chan(x) = c /\ req[x].id = k
        BY <2>1, <3>4
      <3>6. last_posted_tracked[c] <= k
        BY <1>7, <2>3, <3>4, <3>5 DEF NeedsWait
      <3>7. \A y \in W : Chan(y) = c => req[y].id <= k
        BY <2>1, <3>4
      <3> QED
        BY <3>4, <3>5, <3>6, <3>7
    <2> QED
      BY <2>4, <2>5
  <1>9. last_posted_tracked' \in [Channels -> Nat]
    <2> DEFINE I(c) == {req[r].id : r \in {x \in W : Chan(x) = c}}
               F(c) == IF I(c) = {} THEN last_posted_tracked[c]
                       ELSE CHOOSE n \in I(c) : \A m \in I(c) : m <= n
    <2>1. last_posted_tracked' = [c \in Channels |-> F(c)]
      BY <1>6
    <2> HIDE DEF F
    <2> QED
      BY <1>8, <2>1
  <1> QED
    BY <1>3, <1>4, <1>5, <1>8, <1>9 DEF Tracked

LEMMA TrackedBase ==
    ASSUME Base, pc = "idle", NEW W, W \subseteq Reqs, \A x \in W : status[x] # "UNDEF", Tracked(W),
           stream' \in [Streams -> Seq(Op)], pc' \in {"idle", "aborted"},
           UNCHANGED <<status, user, last_req_id, last_posted_trigger, last_trigger,
                       posted_list, last_tracked, wq, cq, waited, post>>
    PROVE  Base'
  <1>2. \A x \in Reqs : Held(x) /\ SameId(x)
    BY DEF Held, Tracked
  <1>3. Queues' /\ Lists'
    BY <1>2, QueuesSame, ListsSame
  <1>5. IdRange' /\ IdUnique' /\ PreparedTx'
    <2>2. IdRange /\ IdUnique /\ PreparedTx
      BY DEF Base, Inv
    <2> QED
      BY <1>2, <2>2 DEF SameId, IdRange, IdUnique, PreparedTx
  <1>6. Words'
    <2>0. Words /\ IdRange
      BY DEF Base, Inv
    <2>b. \A c \in Channels :
                \/ last_posted_tracked'[c] = last_posted_tracked[c]
                \/ \E x \in W : Chan(x) = c /\ req[x].id = last_posted_tracked'[c]
      BY DEF Tracked
    <2>1. \A x \in W : req[x].peer \in Peers /\ req[x].id <= last_req_id[req[x].peer]
      <3>1. \A p \in Peers : last_req_id[p] \in Nat
        BY Types DEF Base
      <3>2. \A x \in W : req[x].peer \in Peers
        BY InUse DEF Base
      <3> QED
        BY <2>0, <3>1, <3>2 DEF IdRange
    <2>3. \A x \in W : Chan(x)[1] = req[x].peer
      BY DEF Chan
    <2>5. \A c \in Channels : last_posted_tracked'[c] <= last_req_id[c[1]]
      BY <2>0, <2>1, <2>3, <2>b DEF Words
    <2> QED
      BY <2>0, <2>5 DEF Words
  <1>7. Handles' /\ Posting'
    BY DEF Handles, Posting, Base, Inv
  <1>8. TypeOK'
    <2>1. \A r \in Reqs : status'[r] # "UNDEF" => Chan(r)' \in Channels
      BY <1>2 DEF SameId, Chan, Base, TypeOK
    <2> QED
      BY <2>1 DEF Tracked, Base, TypeOK, ReqFields
  <1> QED
    BY <1>3, <1>5, <1>6, <1>7, <1>8 DEF Base, Inv

\* The waits for W, then the work behind the requests R, go to the stream.
WaitsQueued(R, W, s) ==
    \E w, k \in Seq(Op) :
        /\ \A o : o \in Elems(w) <=> \E x \in W : o = WaitOf(x)
        /\ \A o : o \in Elems(k) <=> \E x \in R : o = KernelOf(x)
        /\ OnStream(s, w \o k)

\* One call makes stream s wait for the requests R; W are those it posts a wait for.
StreamWait(R, W, s) ==
    /\ pc = "idle" /\ R \subseteq user /\ R \subseteq Reqs /\ W \subseteq R
    /\ \A x \in R : /\ SoleStream(Chan(x), s)
                    /\ "misorder" \in Liberties \/ ~Unposted(x)
    /\ \A x \in W : NeedsWait(x) /\ status[x] # "COMPLETE"
    /\ \A x \in R \ W : \/ status[x] = "COMPLETE" \/ ~NeedsWait(x)
                        \/ \E y \in W : Chan(y) = Chan(x) /\ req[x].id <= req[y].id
    /\ Tracked(W)
    /\ WaitsQueued(R, W, s) \/ ("stream_post" \in Faults /\ UNCHANGED stream)
    /\ UNCHANGED <<status, user, last_req_id, last_posted_trigger, last_trigger,
                   posted_list, last_tracked, wq, cq, pc, waited, post>>

LEMMA WaitOnStreamStep ==
    ASSUME Base, NEW r \in Reqs, NEW s \in Streams, mp_wait_on_stream(r, s)
    PROVE  \E W : StreamWait({r}, W, s)
  <1>1. r \in user /\ status[r] # "UNDEF" /\ TypeOK
    BY DEF mp_wait_on_stream, MayWait, Base, Inv, Handles
  <1>2. PICK W : W = IF status[r] # "COMPLETE" /\ NeedsWait(r) THEN {r} ELSE {}
    OBVIOUS
  <1>3. Tracked(W)
    <2>1. Track(W) /\ W \subseteq {r, r} /\ \A x \in W : NeedsWait(x)
      BY <1>2 DEF mp_wait_on_stream
    <2> QED
      BY <1>1, <2>1, TrackStep
  <1>4. PICK o \in Op : o = WaitOf(r)
    BY <1>1, OpsOfType
  <1>5. PICK k \in Op : k = KernelOf(r)
    BY <1>1, OpsOfType
  <1>6. PICK w \in Seq(Op) : /\ w = IF status[r] # "COMPLETE" /\ NeedsWait(r) THEN <<o>> ELSE <<>>
                             /\ Elems(w) = IF W = {} THEN {} ELSE {o}
    BY <1>2, SeqOne, SeqNone
  <1>7. WaitsQueued({r}, W, s) \/ ("stream_post" \in Faults /\ UNCHANGED stream)
    <2>1. CASE OnStream(s, w \o <<k>>)
      <3>1. <<k>> \in Seq(Op) /\ Elems(<<k>>) = {k}
        BY SeqOne
      <3>2. \A x : x \in Elems(w) <=> \E y \in W : x = WaitOf(y)
        BY <1>2, <1>4, <1>6
      <3>3. \A x : x \in Elems(<<k>>) <=> \E y \in {r} : x = KernelOf(y)
        BY <1>5, <3>1
      <3> QED
        BY <2>1, <3>1, <3>2, <3>3 DEF WaitsQueued
    <2>2. CASE "stream_post" \in Faults /\ UNCHANGED stream
      BY <2>2
    <2> QED
      BY <1>4, <1>5, <1>6, <2>1, <2>2 DEF mp_wait_on_stream, WaitOf, KernelOf
  <1>8. /\ pc = "idle" /\ SoleStream(Chan(r), s) /\ ("misorder" \in Liberties \/ ~Unposted(r))
        /\ UNCHANGED <<status, user, last_req_id, last_posted_trigger, last_trigger,
                       posted_list, last_tracked, wq, cq, pc, waited, post>>
    BY DEF mp_wait_on_stream, MayWait
  <1>9. /\ W \subseteq {r} /\ \A x \in W : NeedsWait(x) /\ status[x] # "COMPLETE"
        /\ \A x \in {r} \ W : status[x] = "COMPLETE" \/ ~NeedsWait(x)
    BY <1>2
  <1> QED
    BY <1>1, <1>3, <1>7, <1>8, <1>9 DEF StreamWait

LEMMA WaitAllOnStreamStep ==
    ASSUME Base, NEW a \in Reqs, NEW b \in Reqs, NEW s \in Streams, mp_wait_all_on_stream(a, b, s)
    PROVE  \/ \E W : StreamWait({a, b}, W, s)
           \/ /\ pc = "idle" /\ "rewait" \in Liberties /\ pc' = "aborted"
              /\ UNCHANGED <<status, req, user, client, wq, cq, stream, waited, post>>
  <1>1. /\ a \in user /\ status[a] # "UNDEF" /\ b \in user /\ status[b] # "UNDEF" /\ TypeOK /\ a # b
        /\ pc = "idle" /\ \A x \in {a, b} : SoleStream(Chan(x), s) /\ ("misorder" \in Liberties \/ ~Unposted(x))
    BY DEF mp_wait_all_on_stream, MayWait, Base, Inv, Handles
  <1>2. PICK W : W = WaitsOfAll(a, b)
    OBVIOUS
  <1>3. CASE /\ \A r \in {a, b} : status[r] # "COMPLETE"
             /\ Track(WaitsOfAll(a, b)) /\ UNCHANGED pc
    <2>1. W \subseteq {a, b} /\ \A x \in W : NeedsWait(x)
      BY <1>2 DEF WaitsOfAll
    <2>2. Tracked(W)
      BY <1>1, <1>2, <1>3, <2>1, TrackStep
    <2>3. \A x \in {a, b} \ W : ~NeedsWait(x) \/ \E y \in W : Chan(y) = Chan(x) /\ req[x].id <= req[y].id
      <3>1. a \in W \/ ~NeedsWait(a)
        BY <1>1, <1>2 DEF WaitsOfAll
      <3>2. CASE b \notin W /\ NeedsWait(b)
        <4>1. Chan(a) = Chan(b) /\ ~(req[a].id < req[b].id)
          BY <1>2, <3>2 DEF WaitsOfAll
        <4>2. req[a].id \in Nat /\ req[b].id \in Nat /\ last_posted_tracked[Chan(a)] \in Nat
          BY <1>1, Types, InUse
        <4>3. req[b].id <= req[a].id /\ NeedsWait(a)
          BY <3>2, <4>1, <4>2 DEF NeedsWait
        <4> QED
          BY <3>1, <4>1, <4>3
      <3> QED
        BY <3>1, <3>2
    <2>4. PICK w1 \in Seq(Op) : /\ w1 = IF a \in W THEN <<WaitOf(a)>> ELSE <<>>
                                /\ \A o : o \in Elems(w1) <=> a \in W /\ o = WaitOf(a)
      <3>1. PICK o \in Op : o = WaitOf(a)
        BY <1>1, OpsOfType
      <3> QED
        BY <3>1, SeqOne, SeqNone
    <2>5. PICK w2 \in Seq(Op) : /\ w2 = IF b \in W THEN <<WaitOf(b)>> ELSE <<>>
                                /\ \A o : o \in Elems(w2) <=> b \in W /\ o = WaitOf(b)
      <3>1. PICK o \in Op : o = WaitOf(b)
        BY <1>1, OpsOfType
      <3> QED
        BY <3>1, SeqOne, SeqNone
    <2>6. PICK k \in Seq(Op) : /\ k = Kernels(<<a, b>>)
                               /\ \A o : o \in Elems(k) <=> \E x \in {a, b} : o = KernelOf(x)
      <3>1. PICK k1 \in Op : k1 = KernelOf(a)
        BY <1>1, OpsOfType
      <3>2. PICK k2 \in Op : k2 = KernelOf(b)
        BY <1>1, OpsOfType
      <3>3. Kernels(<<a, b>>) = <<k1, k2>>
        BY <3>1, <3>2 DEF Kernels, KernelOf
      <3>4. <<k1, k2>> \in Seq(Op) /\ Elems(<<k1, k2>>) = {k1, k2}
        BY DEF Elems
      <3> QED
        BY <3>1, <3>2, <3>3, <3>4
    <2>7. w1 \o w2 \in Seq(Op) /\ Elems(w1 \o w2) = Elems(w1) \union Elems(w2)
      BY SeqConcat, ElemsConcat
    <2>8. \A o : o \in Elems(w1 \o w2) <=> \E x \in W : o = WaitOf(x)
      BY <2>1, <2>4, <2>5, <2>7
    <2>9. WaitsQueued({a, b}, W, s) \/ ("stream_post" \in Faults /\ UNCHANGED stream)
      <3>1. OnStream(s, (w1 \o w2) \o k) \/ ("stream_post" \in Faults /\ UNCHANGED stream)
        BY <1>2, <1>3, <2>4, <2>5, <2>6 DEF mp_wait_all_on_stream, WaitOf
      <3> QED
        BY <2>6, <2>7, <2>8, <3>1 DEF WaitsQueued
    <2>10. UNCHANGED <<status, user, last_req_id, last_posted_trigger, last_trigger,
                       posted_list, last_tracked, wq, cq, pc, waited, post>>
      BY <1>3 DEF mp_wait_all_on_stream
    <2> QED
      BY <1>1, <1>3, <2>1, <2>2, <2>3, <2>9, <2>10 DEF StreamWait
  <1>4. CASE pc' = "aborted"
    BY <1>1, <1>4 DEF mp_wait_all_on_stream, client
  <1> QED
    BY <1>3, <1>4 DEF mp_wait_all_on_stream

LEMMA StreamWaitBase ==
    ASSUME Base, NEW R, NEW W, NEW s \in Streams, StreamWait(R, W, s)
    PROVE  Base'
  <1>1. stream' \in [Streams -> Seq(Op)]
    <2>1. CASE WaitsQueued(R, W, s)
      <3>1. PICK w \in Seq(Op), k \in Seq(Op) : OnStream(s, w \o k)
        BY <2>1 DEF WaitsQueued
      <3>2. w \o k \in Seq(Op)
        BY SeqConcat
      <3> QED
        BY <3>1, <3>2, OnStreamType DEF Base
    <2>2. CASE UNCHANGED stream
      BY <2>2 DEF Base, TypeOK
    <2> QED
      BY <2>1, <2>2 DEF StreamWait
  <1>2. /\ W \subseteq Reqs /\ \A x \in W : status[x] # "UNDEF"
    BY DEF StreamWait, Base, Inv, Handles
  <1> QED
    BY <1>1, <1>2, TrackedBase DEF StreamWait

LEMMA AbortBase ==
    ASSUME Base, pc = "idle", pc' = "aborted",
           UNCHANGED <<status, req, user, client, wq, cq, stream, waited, post>>
    PROVE  Base'
  <1>1. \A x \in Reqs : Held(x)
    BY DEF Held, SameId
  <1>2. Lists' /\ Queues'
    BY <1>1, ListsSame, QueuesSame DEF client
  <1>3. Words' /\ IdRange' /\ IdUnique' /\ PreparedTx' /\ Handles' /\ Posting'
    BY DEF Words, IdRange, IdUnique, PreparedTx, Handles, Posting, client, Base, Inv
  <1>4. TypeOK'
    BY DEF Base, TypeOK, client, Chan
  <1> QED
    BY <1>2, <1>3, <1>4 DEF Base, Inv

-----------------------------------------------------------------------------
(* Waits of the CPU *)

\* mp_wait_all changes at most MP_PENDING_NOWAIT into MP_PENDING.
WaitAll(rs) ==
    /\ pc = "idle" /\ rs \subseteq user
    /\ status' \in [Reqs -> States]
    /\ \A x \in Reqs : \/ status'[x] = status[x]
                       \/ status[x] = "PENDING_NOWAIT" /\ status'[x] = "PENDING"
    /\ \/ pc' = "waiting" /\ waited' = rs
       \/ UNCHANGED <<pc, waited>>
    /\ UNCHANGED <<req, user, client, wq, cq, stream, post>>

LEMMA WaitAllStep ==
    ASSUME TypeOK, NEW rs, mp_wait_all(rs)
    PROVE  WaitAll(rs)
  <1>1. PICK S : status' = [r \in Reqs |->
            IF r \in S /\ status[r] = "PENDING_NOWAIT" THEN "PENDING" ELSE status[r]]
    BY DEF mp_wait_all
  <1>2. status' \in [Reqs -> States]
    BY <1>1, Types DEF States
  <1>3. \A x \in Reqs : \/ status'[x] = status[x]
                        \/ status[x] = "PENDING_NOWAIT" /\ status'[x] = "PENDING"
    BY <1>1
  <1> QED
    BY <1>2, <1>3 DEF mp_wait_all, WaitAll

LEMMA WaitAllBase ==
    ASSUME Base, NEW rs, WaitAll(rs)
    PROVE  Base'
  <1>1. \A x \in Reqs : Held(x)
    BY DEF Held, SameId, WaitAll, Busy
  <1>2. Lists' /\ Queues'
    BY <1>1, ListsSame, QueuesSame DEF client, WaitAll
  <1>3. \A x \in Reqs : (status'[x] = "UNDEF" <=> status[x] = "UNDEF")
                        /\ (status'[x] = "PREPARED" <=> status[x] = "PREPARED")
    BY DEF WaitAll
  <1>4. Words' /\ IdRange' /\ IdUnique' /\ PreparedTx'
    BY <1>3 DEF Words, IdRange, IdUnique, PreparedTx, client, Base, Inv, WaitAll
  <1>5. user \subseteq Reqs
    BY DEF Base, TypeOK
  <1>6. Handles' /\ Posting' /\ pc' # "exited"
    BY <1>3, <1>5 DEF WaitAll, Handles, Posting, Base, Inv
  <1>7. TypeOK'
    BY <1>3 DEF Base, TypeOK, client, Chan, WaitAll
  <1> QED
    BY <1>2, <1>4, <1>6, <1>7 DEF Base, Inv

LEMMA WaitReturnBase == ASSUME Base, WaitReturn PROVE Base'
  <1>1. /\ pc = "waiting" /\ \A r \in waited : status[r] = "COMPLETE"
        /\ status' = [r \in Reqs |-> IF r \in waited THEN "UNDEF" ELSE status[r]]
        /\ req' = [r \in Reqs |-> IF r \in waited THEN NullReq ELSE req[r]]
        /\ user' = user \ waited /\ pc' = "idle" /\ waited' = {}
        /\ UNCHANGED <<client, wq, cq, stream, post>>
    BY DEF WaitReturn
  <1>2. /\ \A x \in Reqs : x \in waited => status'[x] = "UNDEF"
        /\ \A x \in Reqs : x \notin waited => status'[x] = status[x] /\ req'[x] = req[x]
    BY <1>1
  <1>3. \A x \in Reqs : status[x] \in Owned => Held(x)
    BY <1>1, <1>2 DEF Owned, Busy, Held, SameId
  <1>4. Lists' /\ Queues'
    BY <1>1, <1>3, ListsSame, QueuesSame DEF client
  <1>5. Words' /\ IdRange' /\ IdUnique' /\ PreparedTx'
    BY <1>1, <1>2 DEF Words, IdRange, IdUnique, PreparedTx, client, Base, Inv
  <1>6. Handles' /\ Posting'
    BY <1>1, <1>2 DEF Handles, Posting, Base, Inv, TypeOK
  <1>7. status' \in [Reqs -> States] /\ req' \in [Reqs -> ReqFields]
    <2>1. "UNDEF" \in States /\ NullReq \in ReqFields
      BY DEF States, NullReq, ReqFields
    <2> QED
      BY <1>1, <2>1, Types DEF Base
  <1>8. TypeOK'
    BY <1>1, <1>2, <1>7 DEF Base, TypeOK, client, Chan, ReqFields
  <1> QED
    BY <1>1, <1>4, <1>5, <1>6, <1>8 DEF Base, Inv

-----------------------------------------------------------------------------
(* Polling, the HCA and the GPU *)

\* The head of the list of p is posted.
ListPosted(r, p) ==
    /\ posted_list[p] # <<>> /\ r = Head(posted_list[p])
    /\ r \in Elems(posted_list[p]) /\ status[r] = "PREPARED" /\ Chan(r) = <<p, "TX">>
    /\ req[r].id <= last_trigger[p]
    /\ wq' \in [Channels -> Seq(Reqs)] /\ wq'[<<p, "TX">>] = Append(wq[<<p, "TX">>], r)
    /\ \A d \in Channels : d # <<p, "TX">> => wq'[d] = wq[d]
    /\ status' \in [Reqs -> States] /\ status'[r] = "PENDING"
    /\ \A x \in Reqs : x # r => status'[x] = status[x]
    /\ posted_list' \in [Peers -> Seq(Reqs)] /\ posted_list'[p] = Tail(posted_list[p])
    /\ \A q \in Peers : q # p => posted_list'[q] = posted_list[q]
    /\ Elems(posted_list[p]) = Elems(posted_list'[p]) \union {r}
    /\ r \notin Elems(posted_list'[p])
    /\ \A c \in Channels : r \notin Elems(wq[c]) /\ r \notin Elems(cq[c])
    /\ UNCHANGED <<req, user, last_req_id, last_posted_trigger, last_trigger,
                   last_posted_tracked, last_tracked, cq, stream, pc, waited, post>>

LEMMA ListPostedStep ==
    ASSUME Base, NEW p \in Peers, progress_posted_list(p)
    PROVE  \E r \in Reqs : ListPosted(r, p)
  <1>1. PICK q \in Seq(Reqs) : q = posted_list[p] /\ q # <<>>
    BY Types DEF Base, progress_posted_list
  <1>2. PICK r \in Reqs : r = Head(q) /\ r \in Elems(q) /\ Elems(q) = Elems(Tail(q)) \union {r}
                          /\ Tail(q) \in Seq(Reqs)
    BY <1>1, SeqTail, ElemsTail
  <1>3. ListOK(p)
    BY DEF Base, Inv, Lists
  <1>4. status[r] = "PREPARED" /\ Chan(r) = <<p, "TX">> /\ Sorted(q, req)
    BY <1>1, <1>2, <1>3 DEF ListOK
  <1>5. r \notin Elems(Tail(q))
    <2>1. \A x \in Reqs : req[x].id \in Nat
      BY Types DEF Base
    <2> QED
      BY <1>1, <1>2, <1>4, <2>1, SortedTail
  <1>6. \A c \in Channels : r \notin Elems(wq[c]) /\ r \notin Elems(cq[c])
    BY <1>4 DEF Base, Inv, Queues, QueueOK, Busy
  <1>7. PICK c \in Channels : c = <<p, "TX">>
    BY Types DEF Base
  <1>8. /\ wq' = [wq EXCEPT ![c] = Append(@, r)]
        /\ status' = [status EXCEPT ![r] = "PENDING"]
        /\ posted_list' = [posted_list EXCEPT ![p] = Tail(@)]
        /\ req[r].id <= last_trigger[p]
        /\ UNCHANGED <<req, user, last_req_id, last_posted_trigger, last_trigger,
                       last_posted_tracked, last_tracked, cq, stream, pc, waited, post>>
    BY <1>1, <1>2, <1>7 DEF progress_posted_list
  <1>9. /\ wq' \in [Channels -> Seq(Reqs)] /\ wq'[c] = Append(wq[c], r)
        /\ \A d \in Channels : d # c => wq'[d] = wq[d]
    BY SMTT(30), <1>8, SeqAppend DEF Base, TypeOK
  <1>10. /\ posted_list' \in [Peers -> Seq(Reqs)] /\ posted_list'[p] = Tail(q)
         /\ \A d \in Peers : d # p => posted_list'[d] = posted_list[d]
    BY <1>1, <1>2, <1>8 DEF Base, TypeOK
  <1>11. /\ status' \in [Reqs -> States] /\ status'[r] = "PENDING"
         /\ \A x \in Reqs : x # r => status'[x] = status[x]
    BY <1>8 DEF Base, TypeOK, States
  <1> QED
    BY <1>1, <1>2, <1>4, <1>5, <1>6, <1>7, <1>8, <1>9, <1>10, <1>11 DEF ListPosted

LEMMA ListPostedBase ==
    ASSUME Base, NEW p \in Peers, NEW r \in Reqs, ListPosted(r, p)
    PROVE  Base'
  <1>1. \A x \in Reqs : x # r => Held(x)
    BY DEF ListPosted, Held, SameId
  <1>2. \A c \in Channels : \A x \in Elems(wq[c]) \union Elems(cq[c]) : Held(x)
    <2>1. \A c \in Channels : r \notin Elems(wq[c]) /\ r \notin Elems(cq[c])
      BY DEF ListPosted
    <2>2. \A c \in Channels : Elems(wq[c]) \subseteq Reqs /\ Elems(cq[c]) \subseteq Reqs
      BY Types DEF Base
    <2> QED
      BY <1>1, <2>1, <2>2
  <1>3. Queues'
    <2>1. PICK c \in Channels : c = <<p, "TX">>
      BY Types DEF Base
    <2>2. /\ wq'[c] = Append(wq[c], r) /\ cq'[c] = cq[c] /\ status'[r] \in Busy /\ Chan(r)' = c
          /\ r \notin Elems(wq[c]) \union Elems(cq[c])
          /\ \A d \in Channels : d # c => wq'[d] = wq[d] /\ cq'[d] = cq[d]
      BY <2>1 DEF ListPosted, Busy, Chan
    <2>3. QueueOK(c)'
      BY <1>2, <2>2, QueueAppend
    <2>4. \A d \in Channels : d # c => QueueOK(d)'
      BY <1>2, <2>2, QueueSame
    <2> QED
      BY <2>3, <2>4 DEF Queues
  <1>4. Lists'
    <2> SUFFICES ASSUME NEW q \in Peers PROVE ListOK(q)'
      BY DEF Lists
    <2>1. last_posted_trigger[q] \in Nat /\ ListOK(q)
      BY Types DEF Base, Inv, Lists
    <2>2. CASE q = p
      <3>1. PICK l \in Seq(Reqs) : l = posted_list[p] /\ l # <<>> /\ Sorted(l, req)
        BY <2>1, <2>2, Types DEF ListPosted, ListOK, Base
      <3>2. \A x \in Reqs : req[x].id \in Nat
        BY Types DEF Base
      <3>3. Sorted(Tail(l), req)
        BY <3>1, <3>2, SortedTail
      <3>4. \A x \in Elems(posted_list'[p]) : x \in Elems(posted_list[p]) /\ x # r /\ x \in Reqs
        BY Types DEF ListPosted, Base
      <3>5. UNCHANGED <<req, last_posted_trigger>> /\ posted_list'[p] = Tail(l)
            /\ \A x \in Reqs : x # r => status'[x] = status[x]
        BY <3>1 DEF ListPosted
      <3> QED
        BY <2>1, <2>2, <3>3, <3>4, <3>5 DEF ListOK, Chan
    <2>3. CASE q # p
      <3>1. r \notin Elems(posted_list[q])
        BY <2>1, <2>3 DEF ListOK, ListPosted
      <3>2. \A x \in Elems(posted_list[q]) : Held(x)
        BY <1>1, <3>1, Types DEF Base
      <3> QED
        BY SMTT(30), <2>1, <2>3, <3>2, ListSame DEF ListPosted
    <2> QED
      BY <2>2, <2>3
  <1>5. Words' /\ IdRange' /\ IdUnique' /\ PreparedTx'
    <2>1. \A x \in Reqs : (status'[x] = "UNDEF" <=> status[x] = "UNDEF")
                          /\ (status'[x] = "PREPARED" => status[x] = "PREPARED")
      BY DEF ListPosted
    <2>2. UNCHANGED <<req, last_req_id, last_posted_trigger, last_posted_tracked, last_tracked>>
      BY DEF ListPosted
    <2> QED
      BY <2>1, <2>2 DEF Words, IdRange, IdUnique, PreparedTx, Base, Inv
  <1>6. Handles'
    <2>1. user \subseteq Reqs /\ Handles
      BY DEF Base, Inv, TypeOK
    <2>2. UNCHANGED <<user, waited>> /\ \A x \in Reqs : status[x] # "UNDEF" => status'[x] # "UNDEF"
      BY DEF ListPosted
    <2> QED
      BY <2>1, <2>2 DEF Handles
  <1>7. Posting'
    <2> SUFFICES ASSUME pc = "posting" PROVE Posting'
      BY DEF ListPosted, Posting
    <2>1. PICK x \in Reqs : x = post
      BY DEF Base, TypeOK
    <2>2. /\ status[x] = "PENDING_NOWAIT" /\ x \notin user /\ x # r
          /\ x \notin Elems(wq[Chan(x)]) \union Elems(cq[Chan(x)])
      BY <2>1 DEF Base, Inv, Posting, ListPosted
    <2>3. PICK d \in Channels : d = Chan(x)
      BY <2>2, InUse DEF Base
    <2>4. Elems(wq'[d]) \subseteq Elems(wq[d]) \union {r}
      <3>1. CASE d = <<p, "TX">>
        <4>1. wq'[d] = Append(wq[d], r) /\ wq[d] \in Seq(Reqs)
          BY <3>1, Types DEF ListPosted, Base
        <4> QED
          BY <4>1, ElemsAppend
      <3>2. CASE d # <<p, "TX">>
        BY <3>2 DEF ListPosted
      <3> QED
        BY <3>1, <3>2
    <2>5. status'[x] = "PENDING_NOWAIT" /\ x \notin user' /\ x = post' /\ d = Chan(x)' /\ cq'[d] = cq[d]
      BY <2>1, <2>2, <2>3 DEF ListPosted, Chan
    <2> QED
      BY <2>2, <2>3, <2>4, <2>5 DEF Posting
  <1>8. TypeOK'
    <2>1. \A x \in Reqs : status'[x] # "UNDEF" => Chan(x)' \in Channels
      BY DEF ListPosted, Base, TypeOK, Chan
    <2> QED
      BY <2>1 DEF ListPosted, Base, TypeOK
  <1> QED
    BY <1>3, <1>4, <1>5, <1>6, <1>7, <1>8 DEF ListPosted, Base, Inv

\* A completion of c is polled: it ends the process, or its request is complete.
Polled(r, c) ==
    /\ cq[c] # <<>> /\ r = Head(cq[c]) /\ r \in Elems(cq[c])
    /\ status[r] \in Busy /\ Chan(r) = c
    /\ cq' \in [Channels -> Seq(Reqs)] /\ cq'[c] = Tail(cq[c])
    /\ \A d \in Channels : d # c => cq'[d] = cq[d]
    /\ Elems(cq[c]) = Elems(cq'[c]) \union {r} /\ r \notin Elems(cq'[c])
    /\ pc \in {"idle", "waiting", "posting"}
    /\ pc = "posting" => c[2] = req[post].flow
    /\ \/ /\ req[r].trigger /\ last_tracked[c] >= req[r].id /\ pc' = "aborted"
          /\ UNCHANGED <<status, last_tracked>>
       \/ /\ ~(req[r].trigger /\ last_tracked[c] >= req[r].id)
          /\ last_tracked' = IF req[r].trigger THEN [last_tracked EXCEPT ![c] = req[r].id]
                             ELSE last_tracked
          /\ status' = [status EXCEPT ![r] = "COMPLETE"]
          /\ UNCHANGED pc
    /\ UNCHANGED <<req, user, last_req_id, last_posted_trigger, last_trigger, posted_list,
                   last_posted_tracked, wq, stream, waited, post>>

LEMMA PolledStep ==
    ASSUME Base, NEW c \in Channels, mp_progress_single_flow(c)
    PROVE  \E r \in Reqs : Polled(r, c)
  <1>1. PICK q \in Seq(Reqs) : q = cq[c] /\ q # <<>>
    BY Types DEF Base, mp_progress_single_flow
  <1>2. QueueOK(c)
    BY DEF Base, Inv, Queues
  <1>3. PICK r \in Reqs : /\ r = Head(q) /\ r \in Elems(q) /\ Elems(q) = Elems(Tail(q)) \union {r}
                          /\ Tail(q) \in Seq(Reqs) /\ r \notin Elems(Tail(q))
    BY <1>1, <1>2, SeqTail, ElemsTail DEF QueueOK
  <1>4. status[r] \in Busy /\ Chan(r) = c
    BY <1>1, <1>2, <1>3 DEF QueueOK
  <1>5. cq' = [cq EXCEPT ![c] = Tail(@)]
    BY DEF mp_progress_single_flow
  <1>6. /\ cq' \in [Channels -> Seq(Reqs)] /\ cq'[c] = Tail(q)
        /\ \A d \in Channels : d # c => cq'[d] = cq[d]
    BY <1>1, <1>3, <1>5 DEF Base, TypeOK
  <1>7. pc \in {"idle", "waiting", "posting"} /\ (pc = "posting" => c[2] = req[post].flow)
    BY DEF mp_progress_single_flow, Polling
  <1>8. UNCHANGED <<req, user, last_req_id, last_posted_trigger, last_trigger, posted_list,
                    last_posted_tracked, wq, stream, waited, post>>
    BY DEF mp_progress_single_flow
  <1>9. \/ /\ req[r].trigger /\ last_tracked[c] >= req[r].id /\ pc' = "aborted"
           /\ UNCHANGED <<status, last_tracked>>
        \/ /\ ~(req[r].trigger /\ last_tracked[c] >= req[r].id)
           /\ last_tracked' = IF req[r].trigger THEN [last_tracked EXCEPT ![c] = req[r].id]
                              ELSE last_tracked
           /\ status' = [status EXCEPT ![r] = "COMPLETE"]
           /\ UNCHANGED pc
    BY <1>1, <1>3, <1>4 DEF mp_progress_single_flow, Busy
  <1> QED
    BY <1>1, <1>3, <1>4, <1>6, <1>7, <1>8, <1>9 DEF Polled

LEMMA PolledBase ==
    ASSUME Base, NEW c \in Channels, NEW r \in Reqs, Polled(r, c)
    PROVE  Base'
  <1>1. /\ status' \in [Reqs -> States] /\ status'[r] \in {status[r], "COMPLETE"}
        /\ \A x \in Reqs : x # r => status'[x] = status[x]
        /\ last_tracked' \in [Channels -> Nat]
        /\ \A d \in Channels : last_tracked'[d] = last_tracked[d] \/ (d = c /\ last_tracked'[d] = req[r].id)
    <2>1. /\ status \in [Reqs -> States] /\ last_tracked \in [Channels -> Nat] /\ req[r].id \in Nat
          /\ "COMPLETE" \in States
      BY Types DEF Base, TypeOK, States
    <2>2. CASE UNCHANGED <<status, last_tracked>>
      BY <2>1, <2>2
    <2>3. CASE /\ status' = [status EXCEPT ![r] = "COMPLETE"]
               /\ last_tracked' = [last_tracked EXCEPT ![c] = req[r].id]
      BY <2>1, <2>3
    <2>4. CASE /\ status' = [status EXCEPT ![r] = "COMPLETE"]
               /\ last_tracked' = last_tracked
      BY <2>1, <2>4
    <2> QED
      BY <2>2, <2>3, <2>4 DEF Polled
  <1>2. \A x \in Reqs : x # r => Held(x)
    BY <1>1 DEF Held, SameId, Polled
  <1>3. Lists'
    <2>1. \A p \in Peers : r \notin Elems(posted_list[p]) /\ Elems(posted_list[p]) \subseteq Reqs
      BY Types DEF Polled, Busy, Base, Inv, Lists, ListOK
    <2>2. \A p \in Peers : /\ \A x \in Elems(posted_list[p]) : Held(x)
                           /\ last_posted_trigger[p] \in Nat
      BY <1>2, <2>1, Types DEF Base
    <2>3. UNCHANGED <<posted_list, last_posted_trigger>>
      BY DEF Polled
    <2>4. \A p \in Peers : ListOK(p)'
      BY <2>2, <2>3, ListSame
    <2> QED
      BY <2>4 DEF Lists
  <1>4. Queues'
    <2>1. ASSUME NEW d \in Channels, d # c PROVE QueueOK(d)'
      <3>1. QueueOK(d) /\ Elems(wq[d]) \subseteq Reqs /\ Elems(cq[d]) \subseteq Reqs
        BY Types DEF Base, Inv, Queues
      <3>2. r \notin Elems(wq[d]) \union Elems(cq[d])
        BY <2>1, <3>1 DEF Polled, QueueOK
      <3>3. \A x \in Elems(wq[d]) \union Elems(cq[d]) : Held(x)
        BY <1>2, <3>1, <3>2
      <3>4. wq'[d] = wq[d] /\ cq'[d] = cq[d]
        BY <2>1 DEF Polled
      <3> QED
        BY <3>3, <3>4, QueueSame
    <2>2. QueueOK(c)'
      <3>1. /\ QueueOK(c) /\ Elems(wq[c]) \subseteq Reqs /\ Elems(cq[c]) \subseteq Reqs /\ cq[c] \in Seq(Reqs)
        BY Types DEF Base, Inv, Queues
      <3>2. /\ Elems(cq[c]) = Elems(cq'[c]) \union {r} /\ r \notin Elems(cq'[c]) /\ wq'[c] = wq[c]
            /\ cq'[c] = Tail(cq[c]) /\ cq[c] # <<>> /\ r \in Elems(cq[c]) /\ UNCHANGED req
        BY DEF Polled
      <3>3. Distinct(cq'[c])
        BY <3>1, <3>2, ElemsTail DEF QueueOK
      <3>4. \A x \in Elems(wq'[c]) \union Elems(cq'[c]) :
               x # r /\ x \in Reqs /\ x \in Elems(wq[c]) \union Elems(cq[c])
        BY <3>1, <3>2 DEF QueueOK
      <3>5. \A x \in Elems(wq'[c]) \union Elems(cq'[c]) : status'[x] \in Busy /\ Chan(x)' = c
        BY <1>1, <3>1, <3>2, <3>4 DEF QueueOK, Chan
      <3>6. Elems(wq'[c]) \cap Elems(cq'[c]) = {}
        BY <3>1, <3>2 DEF QueueOK
      <3> QED
        BY <3>1, <3>2, <3>3, <3>5, <3>6 DEF QueueOK
    <2> QED
      BY <2>1, <2>2 DEF Queues
  <1>5. IdRange' /\ IdUnique' /\ PreparedTx'
    <2>1. \A x \in Reqs : (status'[x] = "UNDEF" <=> status[x] = "UNDEF")
                          /\ (status'[x] = "PREPARED" => status[x] = "PREPARED")
      BY <1>1 DEF Polled, Busy
    <2>2. UNCHANGED <<req, last_req_id>>
      BY DEF Polled
    <2> QED
      BY <2>1, <2>2 DEF IdRange, IdUnique, PreparedTx, Base, Inv
  <1>6. Words'
    <2>1. status[r] # "UNDEF" /\ Chan(r) = c
          /\ UNCHANGED <<last_req_id, last_posted_trigger, last_posted_tracked>>
      BY DEF Polled, Busy
    <2>2. req[r].id <= last_req_id[c[1]] /\ c[1] \in Peers
      BY <2>1, InUse, Types DEF Base, Inv, IdRange
    <2> QED
      BY <1>1, <2>1, <2>2 DEF Words, Base, Inv
  <1>7. Handles'
    BY <1>1 DEF Polled, Busy, Handles, Base, Inv, TypeOK
  <1>8. Posting' /\ pc' # "exited"
    <2>1. pc' # "exited" /\ (pc' = "posting" => pc = "posting")
      BY DEF Polled
    <2> SUFFICES ASSUME pc = "posting" PROVE Posting'
      BY <2>1 DEF Posting
    <2>2. PICK x \in Reqs : x = post
      BY DEF Base, TypeOK
    <2>3. /\ status[x] = "PENDING_NOWAIT" /\ x \notin user
          /\ x \notin Elems(wq[Chan(x)]) \union Elems(cq[Chan(x)])
      BY <2>2 DEF Base, Inv, Posting
    <2>4. PICK d \in Channels : d = Chan(x)
      BY <2>3, InUse DEF Base
    <2>5. x # r /\ Elems(cq'[d]) \subseteq Elems(cq[d]) /\ wq' = wq
      BY <2>3, <2>4 DEF Polled
    <2>6. status'[x] = "PENDING_NOWAIT" /\ x \notin user' /\ x = post' /\ d = Chan(x)'
      BY <1>1, <2>2, <2>3, <2>4, <2>5 DEF Polled, Chan
    <2> QED
      BY <2>3, <2>4, <2>5, <2>6 DEF Posting
  <1>9. TypeOK'
    <2>1. \A x \in Reqs : status'[x] # "UNDEF" => Chan(x)' \in Channels
      BY <1>1 DEF Polled, Busy, Base, TypeOK, Chan
    <2>2. /\ post' \in Reqs \union {NoReq} /\ (pc' = "posting" => post' # NoReq)
          /\ pc' \in {"idle", "waiting"} => post' = NoReq
      BY DEF Polled, Base, TypeOK
    <2>3. pc' \in {"idle", "waiting", "posting", "exited", "aborted"}
      BY DEF Polled
    <2> QED
      BY <1>1, <2>1, <2>2, <2>3 DEF Polled, Base, TypeOK
  <1> QED
    BY <1>3, <1>4, <1>5, <1>6, <1>7, <1>8, <1>9 DEF Base, Inv

\* The HCA executes the first work request of c.
Executes(r, c) ==
    /\ wq[c] # <<>> /\ r = Head(wq[c]) /\ r \in Elems(wq[c]) /\ r \notin Elems(cq[c])
    /\ status[r] \in Busy /\ Chan(r) = c
    /\ wq' \in [Channels -> Seq(Reqs)] /\ wq'[c] = Tail(wq[c])
    /\ cq' \in [Channels -> Seq(Reqs)] /\ cq'[c] = Append(cq[c], r)
    /\ \A d \in Channels : d # c => wq'[d] = wq[d] /\ cq'[d] = cq[d]
    /\ Elems(wq[c]) = Elems(wq'[c]) \union {r} /\ r \notin Elems(wq'[c])
    /\ Elems(cq'[c]) = Elems(cq[c]) \union {r}
    /\ UNCHANGED <<status, req, user, client, stream, pc, waited, post>>

LEMMA ExecutesStep ==
    ASSUME Base, NEW c \in Channels, HcaExecute(c)
    PROVE  \E r \in Reqs : Executes(r, c)
  <1>1. PICK q \in Seq(Reqs) : q = wq[c] /\ q # <<>>
    BY Types DEF Base, HcaExecute
  <1>2. QueueOK(c) /\ cq[c] \in Seq(Reqs)
    BY Types DEF Base, Inv, Queues
  <1>3. PICK r \in Reqs : /\ r = Head(q) /\ r \in Elems(q) /\ Elems(q) = Elems(Tail(q)) \union {r}
                          /\ Tail(q) \in Seq(Reqs) /\ r \notin Elems(Tail(q))
    BY <1>1, <1>2, SeqTail, ElemsTail DEF QueueOK
  <1>4. status[r] \in Busy /\ Chan(r) = c /\ r \notin Elems(cq[c])
    BY <1>1, <1>2, <1>3 DEF QueueOK
  <1>5. /\ wq' = [wq EXCEPT ![c] = Tail(@)] /\ cq' = [cq EXCEPT ![c] = Append(@, r)]
        /\ UNCHANGED <<status, req, user, client, stream, pc, waited, post>>
    BY <1>1, <1>3 DEF HcaExecute
  <1>6. /\ wq' \in [Channels -> Seq(Reqs)] /\ wq'[c] = Tail(q)
        /\ \A d \in Channels : d # c => wq'[d] = wq[d]
    BY <1>1, <1>3, <1>5 DEF Base, TypeOK
  <1>7. Append(cq[c], r) \in Seq(Reqs) /\ Elems(Append(cq[c], r)) = Elems(cq[c]) \union {r}
    BY <1>2, SeqAppend, ElemsAppend
  <1>8. /\ cq' \in [Channels -> Seq(Reqs)] /\ cq'[c] = Append(cq[c], r)
        /\ \A d \in Channels : d # c => cq'[d] = cq[d]
    BY <1>5, <1>7 DEF Base, TypeOK
  <1> QED
    BY <1>1, <1>3, <1>4, <1>5, <1>6, <1>7, <1>8 DEF Executes

LEMMA ExecutesBase ==
    ASSUME Base, NEW c \in Channels, NEW r \in Reqs, Executes(r, c)
    PROVE  Base'
  <1>1. \A x \in Reqs : Held(x)
    BY DEF Held, SameId, Executes
  <1>2. Lists'
    BY <1>1, ListsSame DEF Executes, client
  <1>3. Queues'
    <2>1. \A d \in Channels : d # c => QueueOK(d)'
      BY <1>1, AllHeld, QueueSame DEF Executes
    <2>2. QueueOK(c)'
      <3>1. QueueOK(c) /\ wq[c] \in Seq(Reqs) /\ cq[c] \in Seq(Reqs)
        BY Types DEF Base, Inv, Queues
      <3>2. Distinct(wq'[c])
        BY <3>1, ElemsTail DEF Executes, QueueOK
      <3>3. Distinct(cq'[c])
        BY <3>1, DistinctAppend DEF Executes, QueueOK
      <3>4. \A x \in Elems(wq'[c]) \union Elems(cq'[c]) : status'[x] \in Busy /\ Chan(x)' = c
        BY <3>1 DEF Executes, QueueOK, Chan
      <3>5. Elems(wq'[c]) \cap Elems(cq'[c]) = {}
        BY <3>1 DEF Executes, QueueOK
      <3> QED
        BY <3>2, <3>3, <3>4, <3>5 DEF QueueOK
    <2> QED
      BY <2>1, <2>2 DEF Queues
  <1>4. Words' /\ IdRange' /\ IdUnique' /\ PreparedTx' /\ Handles' /\ pc' # "exited"
    <2>1. UNCHANGED <<status, req, user, client, waited, pc>>
      BY DEF Executes
    <2> QED
      BY <2>1 DEF Words, IdRange, IdUnique, PreparedTx, Handles, client, Base, Inv
  <1>5. Posting'
    <2> SUFFICES ASSUME pc = "posting" PROVE Posting'
      BY DEF Executes, Posting
    <2>2. PICK x \in Reqs : x = post
      BY DEF Base, TypeOK
    <2>3. /\ status[x] = "PENDING_NOWAIT" /\ x \notin user
          /\ x \notin Elems(wq[Chan(x)]) \union Elems(cq[Chan(x)])
      BY <2>2 DEF Base, Inv, Posting
    <2>4. PICK d \in Channels : d = Chan(x)
      BY <2>3, InUse DEF Base
    <2>5. x # r
      BY <2>3 DEF Executes
    <2>6. Elems(wq'[d]) \subseteq Elems(wq[d]) /\ Elems(cq'[d]) \subseteq Elems(cq[d]) \union {r}
      <3>1. CASE d = c
        BY <3>1 DEF Executes
      <3>2. CASE d # c
        BY <3>2 DEF Executes
      <3> QED
        BY <3>1, <3>2
    <2>7. status'[x] = "PENDING_NOWAIT" /\ x \notin user' /\ x = post' /\ d = Chan(x)'
      BY <2>2, <2>3, <2>4 DEF Executes, Chan
    <2> QED
      BY <2>3, <2>4, <2>5, <2>6, <2>7 DEF Posting
  <1>6. TypeOK'
    <2>1. \A x \in Reqs : status'[x] # "UNDEF" => Chan(x)' \in Channels
      BY DEF Executes, Base, TypeOK, Chan
    <2> QED
      BY <2>1 DEF Executes, Base, TypeOK, client
  <1> QED
    BY <1>2, <1>3, <1>4, <1>5, <1>6 DEF Base, Inv

\* The GPU executes the first operation of stream s.
Runs(op, s) ==
    /\ stream[s] # <<>> /\ op = Head(stream[s])
    /\ stream' \in [Streams -> Seq(Op)] /\ stream'[s] = Tail(stream[s])
    /\ \A t \in Streams : t # s => stream'[t] = stream[t]
    /\ Elems(stream[s]) = Elems(stream'[s]) \union {op}
    /\ UNCHANGED <<status, req, user, last_req_id, last_posted_trigger, posted_list,
                   last_posted_tracked, last_tracked, wq, cq, pc, waited, post>>
    /\ \/ /\ op.op = "trigger"
          /\ last_trigger' = [last_trigger EXCEPT ![op.chan[1]] = op.id]
       \/ op.op = "wait" /\ last_tracked[op.chan] >= op.id /\ UNCHANGED last_trigger
       \/ op.op = "kernel" /\ UNCHANGED last_trigger

LEMMA RunsStep ==
    ASSUME TypeOK, NEW s \in Streams, StreamTrigger(s) \/ StreamRun(s)
    PROVE  \E op \in Op : Runs(op, s)
  <1>1. PICK q \in Seq(Op) : q = stream[s] /\ q # <<>>
    BY Types DEF StreamTrigger, StreamRun
  <1>2. PICK op \in Op : op = Head(q) /\ Elems(q) = Elems(Tail(q)) \union {op} /\ Tail(q) \in Seq(Op)
    BY <1>1, SeqTail, ElemsTail
  <1>3. stream' = [stream EXCEPT ![s] = Tail(@)]
    BY DEF StreamTrigger, StreamRun
  <1>4. /\ stream' \in [Streams -> Seq(Op)] /\ stream'[s] = Tail(q)
        /\ \A t \in Streams : t # s => stream'[t] = stream[t]
    BY <1>1, <1>2, <1>3 DEF TypeOK
  <1>5. UNCHANGED <<status, req, user, last_req_id, last_posted_trigger, posted_list,
                    last_posted_tracked, last_tracked, wq, cq, pc, waited, post>>
    BY DEF StreamTrigger, StreamRun, client
  <1>6. \/ /\ op.op = "trigger"
           /\ last_trigger' = [last_trigger EXCEPT ![op.chan[1]] = op.id]
        \/ op.op = "wait" /\ last_tracked[op.chan] >= op.id /\ UNCHANGED last_trigger
        \/ op.op = "kernel" /\ UNCHANGED last_trigger
    BY <1>1, <1>2 DEF StreamTrigger, StreamRun, client
  <1> QED
    BY <1>1, <1>2, <1>4, <1>5, <1>6 DEF Runs

LEMMA RunsBase ==
    ASSUME Base, NEW s \in Streams, NEW op \in Op, Runs(op, s)
    PROVE  Base'
  <1>1. \A x \in Reqs : Held(x)
    BY DEF Held, SameId, Runs
  <1>2. Lists' /\ Queues'
    BY <1>1, ListsSame, QueuesSame DEF Runs
  <1>3. Words' /\ IdRange' /\ IdUnique' /\ PreparedTx' /\ Handles' /\ Posting' /\ pc' # "exited"
    <2>1. UNCHANGED <<status, req, user, last_req_id, last_posted_trigger, posted_list,
                      last_posted_tracked, last_tracked, wq, cq, pc, waited, post>>
      BY DEF Runs
    <2> QED
      BY <2>1 DEF Words, IdRange, IdUnique, PreparedTx, Handles, Posting, Chan, Base, Inv
  <1>4. last_trigger' \in [Peers -> Nat]
    <2>1. op.id \in Nat /\ last_trigger \in [Peers -> Nat]
      BY DEF Op, Base, TypeOK
    <2> QED
      BY <2>1 DEF Runs
  <1>5. TypeOK'
    BY <1>4 DEF Runs, Base, TypeOK, Chan
  <1> QED
    BY <1>2, <1>3, <1>5 DEF Base, Inv

-----------------------------------------------------------------------------
(* The steps of the specification, by what they do *)

Abort ==
    /\ pc = "idle" /\ "rewait" \in Liberties /\ pc' = "aborted"
    /\ UNCHANGED <<status, req, user, client, wq, cq, stream, waited, post>>

SubmitCase ==
    \E r \in Reqs, p \in Peers :
        \/ \E flow \in {"TX", "RX"}, retry, handle \in BOOLEAN :
              (flow = "TX" => Unmixed(p)) /\ Immediate(r, p, flow, retry, handle)
        \/ mp_send_prepare(r, p)
        \/ \E s \in Streams : mp_send_on_stream(r, p, s) \/ mp_isend_on_stream(r, p, s)

StreamCase ==
    \E s \in Streams :
        \/ \E a, b \in Reqs, block \in BOOLEAN : \E rs, call :
              OneOrTwo(rs, a, b) /\ PostBatch(call, rs, s, block)
        \/ \E R, W : StreamWait(R, W, s)
        \/ Abort

CpuCase ==
    \/ WaitReturn \/ WaitGpuError \/ PostRetry \/ PostGiveUp
    \/ \E rs : WaitAll(rs)

ProgressCase ==
    \/ \E r \in Reqs, p \in Peers : ListPosted(r, p)
    \/ \E r \in Reqs, c \in Channels : Polled(r, c) \/ Executes(r, c)
    \/ \E s \in Streams, op \in Op : Runs(op, s)

LEMMA StepCases ==
    ASSUME Base, Next
    PROVE  SubmitCase \/ StreamCase \/ CpuCase \/ ProgressCase
  <1>1. CASE Submit
    <2>1. PICK r \in Reqs, p \in Peers :
        \/ mp_irecv(r, p) \/ mp_irecvv(r, p) \/ mp_isend(r, p) \/ mp_isendv(r, p)
        \/ mp_send_prepare(r, p)
        \/ \E s \in Streams : mp_send_on_stream(r, p, s) \/ mp_isend_on_stream(r, p, s)
      BY <1>1 DEF Submit
    <2>2. CASE mp_irecv(r, p)
      <3>1. Immediate(r, p, "RX", TRUE, TRUE)
        BY <2>2 DEF mp_irecv
      <3> QED
        BY <3>1 DEF SubmitCase
    <2>3. CASE mp_irecvv(r, p)
      <3>1. Immediate(r, p, "RX", FALSE, TRUE)
        BY <2>3 DEF mp_irecvv
      <3> QED
        BY <3>1 DEF SubmitCase
    <2>4. CASE mp_isend(r, p)
      <3>1. Unmixed(p) /\ Immediate(r, p, "TX", TRUE, TRUE)
        BY <2>4 DEF mp_isend
      <3> QED
        BY <3>1 DEF SubmitCase
    <2>5. CASE mp_isendv(r, p)
      <3>1. Unmixed(p) /\ Immediate(r, p, "TX", FALSE, FALSE)
        BY <2>5 DEF mp_isendv
      <3> QED
        BY <3>1 DEF SubmitCase
    <2>6. CASE \/ mp_send_prepare(r, p)
               \/ \E s \in Streams : mp_send_on_stream(r, p, s) \/ mp_isend_on_stream(r, p, s)
      BY <2>6 DEF SubmitCase
    <2> QED
      BY <2>1, <2>2, <2>3, <2>4, <2>5, <2>6
  <1>2. CASE StreamCalls
    <2>1. PICK s \in Streams :
        \/ \E r \in Reqs :
              \/ mp_send_post_on_stream(r, s) \/ mp_isend_post_on_stream(r, s)
              \/ mp_wait_on_stream(r, s)
        \/ \E a, b \in Reqs :
              \/ mp_send_post_all_on_stream(a, b, s) \/ mp_isend_post_all_on_stream(a, b, s)
              \/ mp_wait_all_on_stream(a, b, s)
      BY <1>2 DEF StreamCalls
    <2>2. ASSUME NEW r \in Reqs, mp_send_post_on_stream(r, s) PROVE StreamCase
      <3>1. PostBatch("mp_send_post_on_stream", <<r>>, s, TRUE) /\ OneOrTwo(<<r>>, r, r)
        BY <2>2 DEF mp_send_post_on_stream, OneOrTwo
      <3> QED
        BY <3>1 DEF StreamCase
    <2>3. ASSUME NEW r \in Reqs, mp_isend_post_on_stream(r, s) PROVE StreamCase
      <3>1. PostBatch("mp_isend_post_on_stream", <<r>>, s, FALSE) /\ OneOrTwo(<<r>>, r, r)
        BY <2>3 DEF mp_isend_post_on_stream, OneOrTwo
      <3> QED
        BY <3>1 DEF StreamCase
    <2>4. ASSUME NEW a \in Reqs, NEW b \in Reqs, mp_send_post_all_on_stream(a, b, s) PROVE StreamCase
      <3>1. PostBatch("mp_send_post_all_on_stream", <<a, b>>, s, TRUE) /\ OneOrTwo(<<a, b>>, a, b)
        BY <2>4 DEF mp_send_post_all_on_stream, OneOrTwo
      <3> QED
        BY <3>1 DEF StreamCase
    <2>5. ASSUME NEW a \in Reqs, NEW b \in Reqs, mp_isend_post_all_on_stream(a, b, s) PROVE StreamCase
      <3>1. PostBatch("mp_isend_post_all_on_stream", <<a, b>>, s, FALSE) /\ OneOrTwo(<<a, b>>, a, b)
        BY <2>5 DEF mp_isend_post_all_on_stream, OneOrTwo
      <3> QED
        BY <3>1 DEF StreamCase
    <2>6. ASSUME NEW r \in Reqs, mp_wait_on_stream(r, s) PROVE StreamCase
      BY <2>6, WaitOnStreamStep DEF StreamCase
    <2>7. ASSUME NEW a \in Reqs, NEW b \in Reqs, mp_wait_all_on_stream(a, b, s) PROVE StreamCase
      BY <2>7, WaitAllOnStreamStep DEF StreamCase, Abort
    <2> QED
      BY <2>1, <2>2, <2>3, <2>4, <2>5, <2>6, <2>7
  <1>3. CASE CpuWait
    BY <1>3, WaitAllStep DEF CpuWait, CpuCase, Base
  <1>4. CASE Progress
    <2>1. ASSUME NEW p \in Peers, progress_posted_list(p) PROVE ProgressCase
      BY <2>1, ListPostedStep DEF ProgressCase
    <2>2. ASSUME NEW c \in Channels, mp_progress_single_flow(c) PROVE ProgressCase
      BY <2>2, PolledStep DEF ProgressCase
    <2>3. ASSUME NEW c \in Channels, HcaExecute(c) PROVE ProgressCase
      BY <2>3, ExecutesStep DEF ProgressCase
    <2>4. ASSUME NEW s \in Streams, StreamTrigger(s) \/ StreamRun(s) PROVE ProgressCase
      <3>1. TypeOK
        BY DEF Base
      <3>2. PICK op \in Op : Runs(op, s)
        BY <2>4, <3>1, RunsStep
      <3> QED
        BY <3>2 DEF ProgressCase
    <2> QED
      BY <1>4, <2>1, <2>2, <2>3, <2>4 DEF Progress
  <1> QED
    BY <1>1, <1>2, <1>3, <1>4 DEF Next

LEMMA BaseInit == ASSUME Init PROVE Base
  <1>1. /\ status = [r \in Reqs |-> "UNDEF"] /\ req = [r \in Reqs |-> NullReq] /\ user = {}
        /\ pc = "idle" /\ waited = {} /\ post = NoReq
    BY DEF Init
  <1>2. /\ last_req_id = [p \in Peers |-> 0] /\ last_posted_trigger = [p \in Peers |-> 0]
        /\ last_trigger = [p \in Peers |-> 0] /\ posted_list = [p \in Peers |-> <<>>]
        /\ last_posted_tracked = [c \in Channels |-> 0] /\ last_tracked = [c \in Channels |-> 0]
        /\ wq = [c \in Channels |-> <<>>] /\ cq = [c \in Channels |-> <<>>]
        /\ stream = [s \in Streams |-> <<>>]
    BY DEF Init
  <1>3. /\ \A S : <<>> \in Seq(S)
        /\ Elems(<<>>) = {} /\ Distinct(<<>>) /\ Sorted(<<>>, req)
    BY SeqNone DEF Sorted
  <1>4. \A r \in Reqs : status[r] = "UNDEF"
    BY <1>1
  <1>5. status \in [Reqs -> States] /\ req \in [Reqs -> ReqFields]
    BY <1>1 DEF States, NullReq, ReqFields
  <1>6. /\ posted_list \in [Peers -> Seq(Reqs)] /\ wq \in [Channels -> Seq(Reqs)]
        /\ cq \in [Channels -> Seq(Reqs)] /\ stream \in [Streams -> Seq(Op)]
    BY <1>2, <1>3
  <1>7. TypeOK
    BY <1>1, <1>2, <1>4, <1>5, <1>6 DEF TypeOK, ReqFields
  <1>8. Lists
    BY <1>2, <1>3 DEF Lists, ListOK
  <1>9. Queues
    BY <1>2, <1>3 DEF Queues, QueueOK
  <1>10. Words
    <2>1. \A c \in Channels : c[1] \in Peers
      OBVIOUS
    <2> QED
      BY <1>2, <2>1 DEF Words
  <1> QED
    BY <1>1, <1>4, <1>7, <1>8, <1>9, <1>10 DEF Base, Inv, IdRange, IdUnique, Posting, Handles, PreparedTx

LEMMA BaseUnchanged == ASSUME Base, UNCHANGED vars PROVE Base'
  BY ZenonT(60) DEF vars, client, Base, Inv, TypeOK, IdRange, IdUnique, Words, Lists, ListOK, Queues,
         QueueOK, Posting, Handles, PreparedTx, Chan

LEMMA BaseNext == ASSUME Base, Next PROVE Base'
  <1>1. CASE SubmitCase
    BY <1>1, ImmediateBase, PrepareBase, SendOnStreamBase, IsendOnStreamBase DEF SubmitCase
  <1>2. CASE StreamCase
    BY <1>2, PostBatchBase, StreamWaitBase, AbortBase DEF StreamCase, Abort
  <1>3. CASE CpuCase
    <2>1. CASE PostGiveUp \/ WaitGpuError
      <3>1. waited' \in {waited, {}} /\ post' = NoReq /\ pc' = "idle"
            /\ UNCHANGED <<status, req, user, client, wq, cq, stream>>
        BY <2>1 DEF PostGiveUp, WaitGpuError, Base, TypeOK
      <3> QED
        BY <3>1, IdleBase
    <2> QED
      BY <1>3, <2>1, WaitReturnBase, PostRetryBase, WaitAllBase DEF CpuCase
  <1>4. CASE ProgressCase
    BY <1>4, ListPostedBase, PolledBase, ExecutesBase, RunsBase DEF ProgressCase
  <1> QED
    BY <1>1, <1>2, <1>3, <1>4, StepCases

\* Every reachable state is well typed (TypeOK), and in it ids are unique per peer,
\* queues and lists hold each request once and on the channel it belongs to.
THEOREM TypeCorrect == Spec => [](TypeOK /\ Inv)
  <1>1. Init => Base
    BY BaseInit
  <1>2. Base /\ [Next]_vars => Base'
    BY BaseNext, BaseUnchanged
  <1> QED
    BY <1>1, <1>2, PTL DEF Spec, Base

-----------------------------------------------------------------------------
(***************************************************************************)
(* The order of the ids.  When the application does not send at once while *)
(* sends are held back for a stream ("mix" is not in Liberties), requests  *)
(* reach the HCA in the order of their ids, so that ids are tracked in     *)
(* ascending order, the process is not aborted, and RequestLife is         *)
(* refined.                                                                *)
(***************************************************************************)

\* The requests of a channel were posted in the order of their ids, beyond the
\* id that was tracked last.
OrderOK(c) ==
    /\ Sorted(wq[c], req) /\ Sorted(cq[c], req)
    /\ \A x \in Elems(cq[c]), y \in Elems(wq[c]) : req[x].id < req[y].id
    /\ \A x \in Elems(cq[c]) \union Elems(wq[c]) : last_tracked[c] < req[x].id

\* A request with id n may be posted next.
Ahead(c, n) ==
    /\ last_tracked[c] < n
    /\ \A x \in Elems(cq[c]) \union Elems(wq[c]) : req[x].id < n

\* A send that is in the list, or may still be put there.
Ready(r) ==
    /\ status[r] = "PREPARED"
    /\ r \in Elems(posted_list[req[r].peer]) \/ req[r].id > last_posted_trigger[req[r].peer]

ReadyAhead == \A r \in Reqs : Ready(r) => Ahead(Chan(r), req[r].id)

\* A request in its retry loop is next, and no send to its peer is held back.
PostAhead ==
    pc = "posting" =>
        /\ Ahead(Chan(post), req[post].id)
        /\ req[post].flow = "TX" =>
              \A r \in Reqs : ~(status[r] = "PREPARED" /\ req[r].peer = req[post].peer)

Order == (\A c \in Channels : OrderOK(c)) /\ ReadyAhead /\ PostAhead

LEMMA Above ==
    ASSUME Base, NEW c \in Channels, NEW n \in Nat, n > last_req_id[c[1]]
    PROVE  Ahead(c, n)
  <1>1. c[1] \in Peers /\ last_req_id[c[1]] \in Nat /\ last_tracked[c] \in Nat
        /\ Elems(wq[c]) \subseteq Reqs /\ Elems(cq[c]) \subseteq Reqs
    BY Types DEF Base
  <1>2. last_tracked[c] <= last_req_id[c[1]]
    BY DEF Base, Inv, Words
  <1>3. ASSUME NEW x \in Elems(cq[c]) \union Elems(wq[c]) PROVE req[x].id < n
    <2>1. x \in Reqs /\ status[x] # "UNDEF" /\ Chan(x) = c
      BY <1>1 DEF Base, Inv, Queues, QueueOK, Busy
    <2>2. req[x].peer = c[1]
      BY <2>1 DEF Chan
    <2>3. req[x].id \in 1..last_req_id[c[1]]
      BY <2>1, <2>2 DEF Base, Inv, IdRange
    <2> QED
      BY <1>1, <2>3
  <1> QED
    BY <1>1, <1>2, <1>3 DEF Ahead

\* A channel whose queues and last tracked id a step leaves alone.
LEMMA ChannelSame ==
    ASSUME Base, NEW c \in Channels, wq'[c] = wq[c], cq'[c] = cq[c],
           last_tracked'[c] = last_tracked[c],
           \A x \in Elems(wq[c]) \union Elems(cq[c]) : SameId(x)
    PROVE  /\ OrderOK(c) => OrderOK(c)'
           /\ \A n : Ahead(c, n) => Ahead(c, n)'
  <1>1. wq[c] \in Seq(Reqs) /\ cq[c] \in Seq(Reqs)
    BY Types DEF Base
  <1>2. \A x \in Elems(wq[c]) \union Elems(cq[c]) : req'[x].id = req[x].id
    BY DEF SameId
  <1>3. ASSUME OrderOK(c) PROVE OrderOK(c)'
    <2>1. Sorted(wq[c], req') /\ Sorted(cq[c], req')
      BY <1>1, <1>2, <1>3, SortedSame DEF OrderOK
    <2> QED
      BY <1>2, <1>3, <2>1 DEF OrderOK
  <1>4. ASSUME NEW n, Ahead(c, n) PROVE Ahead(c, n)'
    BY <1>2, <1>4 DEF Ahead
  <1> QED
    BY <1>3, <1>4

\* Steps that leave all queues and tracked ids alone.
LEMMA OrderQuiet ==
    ASSUME Base, Base', Order, UNCHANGED <<wq, cq, last_tracked>>,
           \A x \in Reqs : status[x] \in Owned => Held(x),
           \A r \in Reqs : Ready(r)' => \/ Ready(r) /\ SameId(r)
                                        \/ req'[r].id > last_req_id[req'[r].peer],
           \/ pc' # "posting"
           \/ /\ pc = "posting" /\ post' = post
              /\ \A r \in Reqs : status'[r] = "PREPARED" => status[r] = "PREPARED" /\ SameId(r)
           \/ /\ req'[post'].id > last_req_id[req'[post'].peer]
              /\ req'[post'].flow = "TX" =>
                    \A r \in Reqs : ~(status'[r] = "PREPARED" /\ req'[r].peer = req'[post'].peer)
    PROVE  Order'
  <1>1. \A c \in Channels : \A x \in Elems(wq[c]) \union Elems(cq[c]) : SameId(x)
    BY AllHeld DEF Held
  <1>2. \A c \in Channels : (OrderOK(c) => OrderOK(c)') /\ \A n : Ahead(c, n) => Ahead(c, n)'
    BY <1>1, ChannelSame
  <1>3. \A c \in Channels : OrderOK(c)'
    BY <1>2 DEF Order
  <1>4. ASSUME NEW r \in Reqs, status'[r] # "UNDEF", req'[r].id > last_req_id[req'[r].peer]
        PROVE  Ahead(Chan(r), req[r].id)'
    <2>1. PICK c \in Channels : c = Chan(r)'
      BY <1>4 DEF Base, TypeOK
    <2>2. PICK n \in Nat : n = req'[r].id
      BY DEF Base, TypeOK
    <2>3. c[1] = req'[r].peer
      BY <2>1 DEF Chan
    <2>4. Ahead(c, n)
      BY <1>4, <2>2, <2>3, Above
    <2>5. Ahead(c, n)'
      BY <1>2, <2>4
    <2> QED
      BY <2>1, <2>2, <2>5 DEF Ahead
  <1>5. ASSUME NEW r \in Reqs, status[r] # "UNDEF", SameId(r), Ahead(Chan(r), req[r].id)
        PROVE  Ahead(Chan(r), req[r].id)'
    <2>1. PICK c \in Channels : c = Chan(r)
      BY <1>5, InUse DEF Base
    <2>2. PICK n : n = req[r].id
      OBVIOUS
    <2>3. c = Chan(r)' /\ n = req'[r].id
      BY <1>5, <2>1, <2>2 DEF Chan, SameId
    <2>4. Ahead(c, n)'
      BY <1>2, <1>5, <2>1, <2>2
    <2> QED
      BY <2>3, <2>4 DEF Ahead
  <1>6. ReadyAhead'
    <2> SUFFICES ASSUME NEW r \in Reqs, Ready(r)' PROVE Ahead(Chan(r), req[r].id)'
      BY DEF ReadyAhead
    <2>1. status'[r] = "PREPARED"
      BY DEF Ready
    <2>2. CASE Ready(r) /\ SameId(r)
      <3>1. Ahead(Chan(r), req[r].id) /\ status[r] # "UNDEF"
        BY <2>2 DEF Order, ReadyAhead, Ready
      <3> QED
        BY <1>5, <2>2, <3>1
    <2>3. CASE req'[r].id > last_req_id[req'[r].peer]
      BY <1>4, <2>1, <2>3
    <2> QED
      BY <2>2, <2>3
  <1>7. PostAhead'
    <2> SUFFICES ASSUME pc' = "posting" PROVE PostAhead'
      BY DEF PostAhead
    <2>1. PICK x \in Reqs : x = post'
      BY DEF Base, TypeOK
    <2>2. status'[x] = "PENDING_NOWAIT"
      BY <2>1 DEF Base, Inv, Posting
    <2>3. CASE /\ pc = "posting" /\ post' = post
               /\ \A r \in Reqs : status'[r] = "PREPARED" => status[r] = "PREPARED" /\ SameId(r)
      <3>1. x = post /\ status[x] = "PENDING_NOWAIT"
        BY <2>1, <2>3 DEF Base, Inv, Posting
      <3>2. SameId(x)
        BY <3>1 DEF Owned, Busy, Held
      <3>3. Ahead(Chan(x), req[x].id)
            /\ (req[x].flow = "TX" =>
                  \A r \in Reqs : ~(status[r] = "PREPARED" /\ req[r].peer = req[x].peer))
        BY <2>3, <3>1 DEF Order, PostAhead
      <3>4. Ahead(Chan(x), req[x].id)'
        BY <1>5, <3>1, <3>2, <3>3
      <3>5. req'[x].flow = "TX" =>
               \A r \in Reqs : ~(status'[r] = "PREPARED" /\ req'[r].peer = req'[x].peer)
        BY <2>3, <3>2, <3>3 DEF SameId
      <3> QED
        BY <2>1, <3>4, <3>5 DEF PostAhead
    <2>4. CASE /\ req'[post'].id > last_req_id[req'[post'].peer]
               /\ req'[post'].flow = "TX" =>
                    \A r \in Reqs : ~(status'[r] = "PREPARED" /\ req'[r].peer = req'[post'].peer)
      <3>1. Ahead(Chan(x), req[x].id)'
        BY <1>4, <2>1, <2>2, <2>4
      <3> QED
        BY <2>1, <2>4, <3>1 DEF PostAhead
    <2> QED
      BY <2>3, <2>4
  <1> QED
    BY <1>3, <1>6, <1>7 DEF Order

\* A request is posted that was ahead of its channel, and no other is held back
\* for this channel below it.
LEMMA OrderPost ==
    ASSUME Base, Base', Order, NEW c \in Channels, NEW r \in Reqs,
           wq'[c] = Append(wq[c], r), \A d \in Channels : d # c => wq'[d] = wq[d],
           UNCHANGED <<cq, last_tracked>>,
           \A x \in Reqs : status[x] \in Owned /\ x # r => SameId(x),
           \A d \in Channels : r \notin Elems(wq[d]) \union Elems(cq[d]),
           NEW n \in Nat, req'[r].id = n, Ahead(c, n),
           \A x \in Reqs : Ready(x)' => /\ Ready(x) /\ SameId(x)
                                        /\ Chan(x) = c => n < req[x].id,
           pc' = "posting" => /\ pc = "posting" /\ post' = post /\ SameId(post) /\ Chan(post) # c
                              /\ \A x \in Reqs : status'[x] = "PREPARED" => status[x] = "PREPARED" /\ SameId(x)
    PROVE  Order'
  <1>1. \A d \in Channels : \A x \in Elems(wq[d]) \union Elems(cq[d]) : x \in Reqs /\ status[x] \in Owned
    BY Types DEF Base, Inv, Queues, QueueOK, Owned
  <1>2. \A x \in Elems(wq[c]) \union Elems(cq[c]) : SameId(x)
    BY <1>1
  <1>3. /\ wq[c] \in Seq(Reqs) /\ cq[c] \in Seq(Reqs) /\ OrderOK(c)
        /\ Elems(wq'[c]) = Elems(wq[c]) \union {r}
    BY Types, ElemsAppend DEF Base, Order
  <1>4. \A x \in Elems(wq[c]) \union Elems(cq[c]) : req'[x].id = req[x].id /\ req[x].id < n
    BY <1>2 DEF SameId, Ahead
  <1>5. OrderOK(c)'
    <2>1. Sorted(wq[c], req') /\ Sorted(cq'[c], req')
      BY <1>3, <1>4, SortedSame DEF OrderOK
    <2>2. Sorted(wq'[c], req')
      <3>1. PICK rq : rq = req'
        OBVIOUS
      <3>2. Sorted(wq[c], rq) /\ \A x \in Elems(wq[c]) : rq[x].id < rq[r].id
        BY <1>4, <2>1, <3>1
      <3>3. Sorted(Append(wq[c], r), rq)
        BY <1>3, <3>2, SortedAppend
      <3> QED
        BY <3>1, <3>3
    <2>3. \A x \in Elems(cq'[c]), y \in Elems(wq'[c]) : req'[x].id < req'[y].id
      BY <1>3, <1>4 DEF OrderOK
    <2>4. \A x \in Elems(cq'[c]) \union Elems(wq'[c]) : last_tracked'[c] < req'[x].id
      BY <1>3, <1>4 DEF OrderOK, Ahead
    <2> QED
      BY <2>1, <2>2, <2>3, <2>4 DEF OrderOK
  <1>6. ASSUME NEW d \in Channels, d # c
        PROVE  OrderOK(d)' /\ \A m : Ahead(d, m) => Ahead(d, m)'
    <2>1. r \notin Elems(wq[d]) \union Elems(cq[d])
      OBVIOUS
    <2>2. wq'[d] = wq[d] /\ cq'[d] = cq[d] /\ last_tracked'[d] = last_tracked[d] /\ OrderOK(d)
      BY <1>6 DEF Order
    <2> QED
      BY <1>1, <2>1, <2>2, ChannelSame
  <1>7. ASSUME NEW m \in Nat, Ahead(c, m), n < m PROVE Ahead(c, m)'
    <2>1. \A x \in Elems(cq'[c]) \union Elems(wq'[c]) : req'[x].id < m
      BY <1>3, <1>4, <1>7 DEF Ahead
    <2> QED
      BY <1>7, <2>1 DEF Ahead
  <1>8. ReadyAhead'
    <2> SUFFICES ASSUME NEW x \in Reqs, Ready(x)' PROVE Ahead(Chan(x), req[x].id)'
      BY DEF ReadyAhead
    <2>1. /\ Ready(x) /\ SameId(x) /\ (Chan(x) = c => n < req[x].id)
          /\ Ahead(Chan(x), req[x].id) /\ status[x] # "UNDEF" 
      BY DEF Order, ReadyAhead, Ready
    <2>2. PICK d \in Channels : d = Chan(x)
      BY <2>1, InUse DEF Base
    <2>3. PICK m \in Nat : m = req[x].id
      BY Types DEF Base
    <2>4. d = Chan(x)' /\ m = req'[x].id
      BY <2>1, <2>2, <2>3 DEF Chan, SameId
    <2>5. Ahead(d, m)'
      <3>1. CASE d = c
        BY <1>7, <2>1, <2>2, <2>3, <3>1
      <3>2. CASE d # c
        BY <1>6, <2>1, <2>2, <2>3, <3>2
      <3> QED
        BY <3>1, <3>2
    <2> QED
      BY <2>4, <2>5 DEF Ahead
  <1>9. PostAhead'
    <2> SUFFICES ASSUME pc' = "posting" PROVE PostAhead'
      BY DEF PostAhead
    <2>1. PICK x \in Reqs : x = post
      BY DEF Base, TypeOK
    <2>2. /\ pc = "posting" /\ x = post' /\ SameId(x) /\ Chan(x) # c
          /\ \A y \in Reqs : status'[y] = "PREPARED" => status[y] = "PREPARED" /\ SameId(y)
          /\ status[x] = "PENDING_NOWAIT"
      BY <2>1 DEF Base, Inv, Posting
    <2>3. PICK d \in Channels : d = Chan(x)
      BY <2>2, InUse DEF Base
    <2>4. PICK m : m = req[x].id
      OBVIOUS
    <2>5. Ahead(d, m) /\ (req[x].flow = "TX" =>
              \A y \in Reqs : ~(status[y] = "PREPARED" /\ req[y].peer = req[x].peer))
      BY <2>1, <2>2, <2>3, <2>4 DEF Order, PostAhead
    <2>6. Ahead(d, m)' /\ d = Chan(x)' /\ m = req'[x].id
      BY <1>6, <2>2, <2>3, <2>4, <2>5 DEF SameId, Chan
    <2>7. Ahead(Chan(x), req[x].id)'
      BY <2>6 DEF Ahead
    <2>8. req'[x].flow = "TX" =>
              \A y \in Reqs : ~(status'[y] = "PREPARED" /\ req'[y].peer = req'[x].peer)
      BY <2>2, <2>5 DEF SameId
    <2> QED
      BY <2>2, <2>7, <2>8 DEF PostAhead
  <1> QED
    BY <1>5, <1>6, <1>8, <1>9 DEF Order

-----------------------------------------------------------------------------
(* The steps *)

NoMix == "mix" \notin Liberties

\* A request that is created, in whatever state, leaves the others ready or not.
LEMMA FreshReady ==
    ASSUME Base, NEW r \in Reqs, NEW p \in Peers, NEW flow, NEW state, Fresh(r, p, flow, state),
           last_posted_trigger' \in [Peers -> Nat],
           \A q \in Peers : last_posted_trigger[q] <= last_posted_trigger'[q],
           \A q \in Peers : Elems(posted_list'[q]) \subseteq Elems(posted_list[q]) \union {r},
           NEW x \in Reqs, Ready(x)'
    PROVE  \/ Ready(x) /\ SameId(x) /\ x # r
           \/ x = r /\ state = "PREPARED" /\ req'[x].id > last_req_id[req'[x].peer]
  <1>1. CASE x = r
    <2>1. status'[x] = "PREPARED" /\ req'[x].peer = p /\ req'[x].id = last_req_id[p] + 1 /\ status'[x] = state
      BY <1>1 DEF Ready, Fresh
    <2>2. last_req_id[p] \in Nat
      BY Types DEF Base
    <2> QED
      BY <1>1, <2>1, <2>2
  <1>2. CASE x # r
    <2>1. status'[x] = status[x] /\ req'[x] = req[x]
      BY <1>2 DEF Fresh
    <2>2. status[x] = "PREPARED" /\ (x \in Elems(posted_list'[req[x].peer])
                                     \/ req[x].id > last_posted_trigger'[req[x].peer])
      BY <2>1 DEF Ready
    <2>3. PICK q \in Peers : q = req[x].peer
      BY <2>2, InUse DEF Base
    <2>4. req[x].id \in Nat /\ last_posted_trigger[q] \in Nat /\ last_posted_trigger'[q] \in Nat
      BY Types DEF Base
    <2>5. Ready(x)
      BY <1>2, <2>2, <2>3, <2>4 DEF Ready
    <2> QED
      BY <1>2, <2>1, <2>5 DEF SameId
  <1> QED
    BY <1>1, <1>2

LEMMA ImmediateOrder ==
    ASSUME NoMix, Base, Base', Order, NEW r \in Reqs, NEW p \in Peers, NEW flow \in {"TX", "RX"},
           NEW retry \in BOOLEAN, NEW handle \in BOOLEAN, flow = "TX" => Unmixed(p),
           Immediate(r, p, flow, retry, handle)
    PROVE  Order'
  <1>1. Fresh(r, p, flow, "PENDING_NOWAIT")
    <2>1. "PENDING_NOWAIT" \in States \ {"UNDEF"} /\ "PENDING_NOWAIT" # "PREPARED"
      BY DEF States
    <2> QED
      BY <2>1, NewRequestStep DEF Immediate
  <1>2. PICK c \in Channels : c = <<p, flow>>
    OBVIOUS
  <1>3. /\ UNCHANGED <<last_posted_trigger, posted_list, last_tracked, cq>> /\ pc = "idle"
        /\ \/ /\ wq' = [wq EXCEPT ![c] = Append(@, r)] /\ UNCHANGED pc
           \/ UNCHANGED wq /\ pc' = "posting" /\ post' = r
           \/ UNCHANGED <<wq, pc>>
    BY <1>2 DEF Immediate
  <1>4. \A x \in Reqs : Ready(x)' => Ready(x) /\ SameId(x) /\ x # r
    <2>1. /\ last_posted_trigger' \in [Peers -> Nat]
          /\ \A q \in Peers : last_posted_trigger[q] <= last_posted_trigger'[q]
          /\ \A q \in Peers : Elems(posted_list'[q]) \subseteq Elems(posted_list[q]) \union {r}
      <3>1. UNCHANGED <<last_posted_trigger, posted_list>>
        BY <1>3
      <3>2. last_posted_trigger \in [Peers -> Nat]
        BY DEF Base, TypeOK
      <3> QED
        BY <3>1, <3>2
    <2> QED
      BY <1>1, <2>1, FreshReady
  <1>5. /\ req'[r].id = last_req_id[p] + 1 /\ req'[r].peer = p /\ req'[r].flow = flow
        /\ \A x \in Reqs : x # r => status'[x] = status[x] /\ req'[x] = req[x]
        /\ status'[r] = "PENDING_NOWAIT"
        /\ \A x \in Reqs : status[x] \in Owned => Held(x)
        /\ \A d \in Channels : r \notin Elems(wq[d]) \union Elems(cq[d])
    BY <1>1 DEF Fresh
  <1>6. flow = "TX" => \A x \in Reqs : ~(status[x] = "PREPARED" /\ req[x].peer = p)
    BY DEF Unmixed, NoMix
  <1>7. last_req_id[p] \in Nat
    BY Types DEF Base
  <1>8. CASE wq' = wq
    <2>1. \/ pc' # "posting"
          \/ /\ req'[post'].id > last_req_id[req'[post'].peer]
             /\ req'[post'].flow = "TX" =>
                    \A x \in Reqs : ~(status'[x] = "PREPARED" /\ req'[x].peer = req'[post'].peer)
      <3> SUFFICES ASSUME pc' = "posting"
                   PROVE  /\ req'[post'].id > last_req_id[req'[post'].peer]
                          /\ req'[post'].flow = "TX" =>
                               \A x \in Reqs : ~(status'[x] = "PREPARED" /\ req'[x].peer = req'[post'].peer)
        OBVIOUS
      <3>1. post' = r
        BY <1>3
      <3>2. req'[r].flow = "TX" => \A x \in Reqs : ~(status'[x] = "PREPARED" /\ req'[x].peer = p)
        BY <1>5, <1>6
      <3> QED
        BY <1>5, <1>7, <3>1, <3>2
    <2> QED
      BY <1>3, <1>4, <1>5, <1>8, <2>1, OrderQuiet
  <1>9. CASE wq' = [wq EXCEPT ![c] = Append(@, r)] /\ wq' # wq
    <2>1. wq'[c] = Append(wq[c], r) /\ \A d \in Channels : d # c => wq'[d] = wq[d]
      BY <1>9 DEF Base, TypeOK
    <2>2. PICK n \in Nat : n = last_req_id[p] + 1
      BY <1>7
    <2>3. Ahead(c, n)
      <3>1. c[1] = p
        BY <1>2
      <3> QED
        BY <1>7, <2>2, <3>1, Above
    <2>4. \A x \in Reqs : Ready(x) => Chan(x) # c
      <3> SUFFICES ASSUME NEW x \in Reqs, Ready(x), Chan(x) = c PROVE FALSE
        OBVIOUS
      <3>1. status[x] = "PREPARED" /\ req[x].flow = "TX" /\ req[x].peer = p /\ req[x].flow = flow
        BY <1>2 DEF Ready, Base, Inv, PreparedTx, Chan
      <3> QED
        BY <1>6, <3>1
    <2>5. \A x \in Reqs : status[x] \in Owned /\ x # r => SameId(x)
      BY <1>5 DEF Held
    <2>6. pc' # "posting"
      BY <1>3, <1>9
    <2>7. \A x \in Reqs : Ready(x)' => Ready(x) /\ SameId(x) /\ (Chan(x) = c => n < req[x].id)
      BY <1>4, <2>4
    <2>8. req'[r].id = n /\ UNCHANGED <<cq, last_tracked>>
      BY <1>3, <1>5, <2>2
    <2> QED
      BY <1>5, <2>1, <2>3, <2>5, <2>6, <2>7, <2>8, OrderPost
  <1> QED
    BY <1>3, <1>8, <1>9

LEMMA CreateOrder ==
    ASSUME Base, Base', Order, NEW r \in Reqs, NEW p \in Peers, Fresh(r, p, "TX", "PREPARED"),
           pc = "idle", UNCHANGED <<last_tracked, wq, cq, pc>>,
           \/ UNCHANGED <<posted_list, last_posted_trigger>>
           \/ /\ last_posted_trigger' = [last_posted_trigger EXCEPT ![p] = last_req_id[p] + 1]
              /\ \/ UNCHANGED posted_list
                 \/ posted_list' = [posted_list EXCEPT ![p] = Append(@, r)]
    PROVE  Order'
  <1>1. /\ last_posted_trigger' \in [Peers -> Nat]
        /\ \A q \in Peers : last_posted_trigger[q] <= last_posted_trigger'[q]
    <2>1. /\ \A q \in Peers : last_posted_trigger[q] <= last_req_id[q]
          /\ last_posted_trigger \in [Peers -> Nat] /\ last_req_id \in [Peers -> Nat]
      BY DEF Base, Inv, Words, TypeOK
    <2>2. last_posted_trigger' \in [Peers -> Nat]
      BY DEF Base, TypeOK
    <2>3. CASE last_posted_trigger' = last_posted_trigger
      BY <2>1, <2>3
    <2>4. CASE last_posted_trigger' = [last_posted_trigger EXCEPT ![p] = last_req_id[p] + 1]
      BY <2>1, <2>4
    <2> QED
      BY <2>2, <2>3, <2>4
  <1>2. \A q \in Peers : Elems(posted_list'[q]) \subseteq Elems(posted_list[q]) \union {r}
    <2>1. \A q \in Peers : posted_list[q] \in Seq(Reqs)
      BY Types DEF Base
    <2>2. CASE UNCHANGED posted_list
      BY <2>2
    <2>3. CASE posted_list' = [posted_list EXCEPT ![p] = Append(@, r)]
      <3>1. posted_list'[p] = Append(posted_list[p], r) /\ \A q \in Peers : q # p => posted_list'[q] = posted_list[q]
        BY <2>3 DEF Base, TypeOK
      <3>2. Elems(posted_list'[p]) = Elems(posted_list[p]) \union {r}
        BY <2>1, <3>1, ElemsAppend
      <3> QED
        BY <3>1, <3>2
    <2> QED
      BY <2>2, <2>3
  <1>3. \A x \in Reqs : Ready(x)' => \/ Ready(x) /\ SameId(x)
                                     \/ req'[x].id > last_req_id[req'[x].peer]
    BY <1>1, <1>2, FreshReady
  <1>4. \A x \in Reqs : status[x] \in Owned => Held(x)
    BY DEF Fresh
  <1> QED
    BY <1>3, <1>4, OrderQuiet

LEMMA PostRetryOrder == ASSUME Base, Base', Order, PostRetry PROVE Order'
  <1>1. PICK r \in Reqs : r = post
    BY DEF PostRetry, Base, TypeOK
  <1>2. /\ status[r] = "PENDING_NOWAIT" /\ pc = "posting"
        /\ r \notin Elems(wq[Chan(r)]) \union Elems(cq[Chan(r)])
    BY <1>1 DEF PostRetry, Base, Inv, Posting
  <1>3. PICK c \in Channels : c = Chan(r)
    BY <1>2, InUse DEF Base
  <1>4. /\ UNCHANGED <<status, req, posted_list, last_posted_trigger, cq, last_tracked>>
        /\ wq' = [wq EXCEPT ![c] = Append(@, r)] /\ pc' = "idle"
    BY <1>1, <1>3 DEF PostRetry, client
  <1>5. wq'[c] = Append(wq[c], r) /\ \A d \in Channels : d # c => wq'[d] = wq[d]
    BY <1>4 DEF Base, TypeOK
  <1>6. PICK n \in Nat : n = req[r].id
    BY Types DEF Base
  <1>7. Ahead(c, n) /\ (req[r].flow = "TX" =>
              \A y \in Reqs : ~(status[y] = "PREPARED" /\ req[y].peer = req[r].peer))
    BY <1>1, <1>2, <1>3, <1>6 DEF Order, PostAhead
  <1>8. \A x \in Reqs : SameId(x) /\ (Ready(x)' => Ready(x))
    BY <1>4 DEF SameId, Ready
  <1>9. \A x \in Reqs : Ready(x) => Chan(x) # c
    <2> SUFFICES ASSUME NEW x \in Reqs, Ready(x), Chan(x) = c PROVE FALSE
      OBVIOUS
    <2>1. status[x] = "PREPARED" /\ req[x].flow = "TX" /\ req[x].peer = req[r].peer /\ req[r].flow = "TX"
      BY <1>3 DEF Ready, Base, Inv, PreparedTx, Chan
    <2> QED
      BY <1>7, <2>1
  <1>10. \A d \in Channels : r \notin Elems(wq[d]) \union Elems(cq[d])
    BY <1>2, <1>3 DEF Base, Inv, Queues, QueueOK
  <1>11. \A x \in Reqs : Ready(x)' => Ready(x) /\ SameId(x) /\ (Chan(x) = c => n < req[x].id)
    BY <1>8, <1>9
  <1>12. req'[r].id = n /\ pc' # "posting" /\ UNCHANGED <<cq, last_tracked>>
    BY <1>4, <1>6
  <1> QED
    BY <1>5, <1>7, <1>8, <1>10, <1>11, <1>12, OrderPost

LEMMA BatchOrder ==
    ASSUME Base, Base', Order, NEW acc, NEW block \in BOOLEAN, Batched(acc, block)
    PROVE  Order'
  <1>1. /\ \A x \in Reqs : SameId(x)
        /\ UNCHANGED <<status, wq, cq, last_tracked, pc, post>> /\ pc = "idle"
    BY DEF Batched
  <1>2. \A x \in Reqs : Held(x)
    BY <1>1 DEF Held
  <1>3. ASSUME NEW x \in Reqs, Ready(x)' PROVE Ready(x)
    <2>1. /\ status[x] = "PREPARED" /\ req'[x].peer = req[x].peer /\ req'[x].id = req[x].id
      BY <1>1, <1>3 DEF Ready, SameId
    <2>2. PICK q \in Peers : q = req[x].peer
      BY <2>1, InUse DEF Base
    <2>3. \/ x \in Elems(posted_list'[q])
          \/ req[x].id > last_posted_trigger'[q]
      BY <1>3, <2>1, <2>2 DEF Ready
    <2>4. CASE x \in Elems(posted_list'[q])
      <3>1. \/ x \in Elems(posted_list[q])
            \/ last_posted_trigger[q] < req[x].id
        BY <2>2, <2>4 DEF Batched
      <3>2. req[x].id \in Nat /\ last_posted_trigger[q] \in Nat
        BY Types DEF Base
      <3> QED
        BY <2>1, <2>2, <3>1, <3>2 DEF Ready
    <2>5. CASE req[x].id > last_posted_trigger'[q]
      <3>1. /\ req[x].id \in Nat /\ last_posted_trigger[q] \in Nat
            /\ last_posted_trigger'[q] \in Nat /\ last_posted_trigger[q] <= last_posted_trigger'[q]
        BY Types DEF Base, Batched
      <3> QED
        BY <2>1, <2>2, <2>5, <3>1 DEF Ready
    <2> QED
      BY <2>3, <2>4, <2>5
  <1>4. pc' # "posting"
    BY <1>1
  <1> QED
    BY <1>1, <1>2, <1>3, <1>4, OrderQuiet

\* Steps that leave requests, lists and queues alone but for marks and waits.
LEMMA IdleOrder ==
    ASSUME Base, Base', Order, UNCHANGED <<wq, cq, last_tracked, posted_list, last_posted_trigger>>,
           \A x \in Reqs : status'[x] # "UNDEF" => SameId(x),
           \A x \in Reqs : status[x] \in Owned => Held(x),
           \A x \in Reqs : status'[x] = "PREPARED" => status[x] = "PREPARED",
           pc' = "posting" => pc = "posting" /\ post' = post
    PROVE  Order'
  <1>1. \A x \in Reqs : Ready(x)' => Ready(x) /\ SameId(x)
    BY DEF Ready, SameId
  <1>2. \A x \in Reqs : status'[x] = "PREPARED" => status[x] = "PREPARED" /\ SameId(x)
    OBVIOUS
  <1> QED
    BY <1>1, <1>2, OrderQuiet

LEMMA ListPostedOrder ==
    ASSUME Base, Base', Order, NEW p \in Peers, NEW r \in Reqs, ListPosted(r, p)
    PROVE  Order'
  <1>1. PICK c \in Channels : c = <<p, "TX">>
    OBVIOUS
  <1>2. PICK n \in Nat : n = req[r].id
    BY Types DEF Base
  <1>3. /\ wq'[c] = Append(wq[c], r) /\ \A d \in Channels : d # c => wq'[d] = wq[d]
        /\ UNCHANGED <<cq, last_tracked, req, last_posted_trigger, pc, post>>
        /\ \A d \in Channels : r \notin Elems(wq[d]) \union Elems(cq[d])
        /\ status[r] = "PREPARED" /\ Chan(r) = c /\ status'[r] = "PENDING"
        /\ \A x \in Reqs : x # r => status'[x] = status[x]
    BY <1>1 DEF ListPosted
  <1>4. \A x \in Reqs : SameId(x)
    BY <1>3 DEF SameId
  <1>5. req[r].peer = p /\ req[r].flow = "TX"
    BY <1>1, <1>3 DEF Chan
  <1>6. Ahead(c, n)
    <2>1. Ready(r)
      BY <1>3, <1>5 DEF Ready, ListPosted
    <2> QED
      BY <1>2, <1>3, <2>1 DEF Order, ReadyAhead
  <1>7. ASSUME NEW x \in Reqs, Ready(x)' PROVE Ready(x) /\ (Chan(x) = c => n < req[x].id)
    <2>1. status[x] = "PREPARED" /\ x # r
      BY <1>3, <1>7 DEF Ready
    <2>2. PICK q \in Peers : q = req[x].peer
      BY <2>1, InUse DEF Base
    <2>3. \/ x \in Elems(posted_list'[q])
          \/ req[x].id > last_posted_trigger[q]
      BY <1>3, <1>7, <2>2 DEF Ready
    <2>4. Elems(posted_list'[q]) \subseteq Elems(posted_list[q])
      <3>1. CASE q = p
        BY <3>1 DEF ListPosted
      <3>2. CASE q # p
        BY <3>2 DEF ListPosted
      <3> QED
        BY <3>1, <3>2
    <2>5. Ready(x)
      BY <2>1, <2>2, <2>3, <2>4 DEF Ready
    <2>6. ASSUME Chan(x) = c PROVE n < req[x].id
      <3>1. q = p
        BY <1>1, <2>2, <2>6 DEF Chan
      <3>2. PICK l \in Seq(Reqs) : l = posted_list[p] /\ l # <<>> /\ r = Head(l) /\ Tail(l) = posted_list'[p]
        BY Types DEF Base, ListPosted
      <3>3. /\ \A y \in Reqs : req[y].id \in Nat
            /\ Sorted(l, req) /\ r \in Elems(l) /\ \A y \in Elems(l) : req[y].id <= last_posted_trigger[p]
            /\ last_posted_trigger[p] \in Nat
        BY <3>2, Types DEF Base, Inv, Lists, ListOK, ListPosted
      <3>4. CASE x \in Elems(posted_list'[q])
        BY <1>2, <3>1, <3>2, <3>3, <3>4, SortedTail
      <3>5. CASE req[x].id > last_posted_trigger[q]
        BY <1>2, <3>1, <3>3, <3>5
      <3> QED
        BY <2>3, <3>4, <3>5
    <2> QED
      BY <2>5, <2>6
  <1>8. ASSUME pc' = "posting"
        PROVE  /\ pc = "posting" /\ post' = post /\ SameId(post) /\ Chan(post) # c
               /\ \A x \in Reqs : status'[x] = "PREPARED" => status[x] = "PREPARED" /\ SameId(x)
    <2>1. PICK x \in Reqs : x = post
      BY <1>3, <1>8 DEF Base, TypeOK
    <2>2. req[x].flow = "TX" => \A y \in Reqs : ~(status[y] = "PREPARED" /\ req[y].peer = req[x].peer)
      BY <1>3, <1>8, <2>1 DEF Order, PostAhead
    <2>3. Chan(x) # c
      BY <1>1, <1>3, <1>5, <2>2 DEF Chan
    <2>4. \A y \in Reqs : status'[y] = "PREPARED" => status[y] = "PREPARED"
      BY <1>3
    <2> QED
      BY <1>3, <1>4, <1>8, <2>1, <2>3, <2>4
  <1>9. req'[r].id = n /\ UNCHANGED <<cq, last_tracked>>
    BY <1>2, <1>3
  <1> QED
    BY <1>3, <1>4, <1>6, <1>7, <1>8, <1>9, OrderPost

\* A step that changes one channel, keeps what may be posted there ahead of it,
\* and changes no request that is held back.
LEMMA OrderChannel ==
    ASSUME Base, Base', Order, NEW c \in Channels, OrderOK(c)',
           \A d \in Channels : d # c => wq'[d] = wq[d] /\ cq'[d] = cq[d] /\ last_tracked'[d] = last_tracked[d],
           UNCHANGED <<req, posted_list, last_posted_trigger, post>>,
           \A x \in Reqs : status'[x] = "PREPARED" => status[x] = "PREPARED",
           pc' = "posting" => pc = "posting",
           \A n \in Nat : Ahead(c, n) => Ahead(c, n)'
    PROVE  Order'
  <1>1. \A x \in Reqs : SameId(x)
    BY DEF SameId
  <1>2. ASSUME NEW d \in Channels
        PROVE  OrderOK(d)' /\ \A n \in Nat : Ahead(d, n) => Ahead(d, n)'
    <2>1. CASE d = c
      BY <2>1
    <2>2. CASE d # c
      <3>1. \A x \in Elems(wq[d]) \union Elems(cq[d]) : SameId(x)
        BY <1>1, Types DEF Base
      <3>2. OrderOK(d) /\ wq'[d] = wq[d] /\ cq'[d] = cq[d] /\ last_tracked'[d] = last_tracked[d]
        BY <2>2 DEF Order
      <3> QED
        BY <3>1, <3>2, ChannelSame
    <2> QED
      BY <2>1, <2>2
  <1>3. ASSUME NEW x \in Reqs, status[x] # "UNDEF", Ahead(Chan(x), req[x].id)
        PROVE  Ahead(Chan(x), req[x].id)'
    <2>1. PICK d \in Channels : d = Chan(x)
      BY <1>3, InUse DEF Base
    <2>2. PICK n \in Nat : n = req[x].id
      BY Types DEF Base
    <2>3. Ahead(d, n)' /\ d = Chan(x)' /\ n = req'[x].id
      BY <1>2, <1>3, <2>1, <2>2 DEF Chan
    <2> QED
      BY <2>3 DEF Ahead
  <1>4. ReadyAhead'
    <2> SUFFICES ASSUME NEW x \in Reqs, Ready(x)' PROVE Ahead(Chan(x), req[x].id)'
      BY DEF ReadyAhead
    <2>1. Ready(x) /\ status[x] # "UNDEF"
      BY DEF Ready
    <2> QED
      BY <1>3, <2>1 DEF Order, ReadyAhead
  <1>5. PostAhead'
    <2> SUFFICES ASSUME pc' = "posting" PROVE PostAhead'
      BY DEF PostAhead
    <2>1. PICK x \in Reqs : x = post
      BY DEF Base, TypeOK
    <2>2. pc = "posting" /\ status[x] # "UNDEF" /\ x = post'
      BY <2>1 DEF Base, Inv, Posting
    <2>3. /\ Ahead(Chan(x), req[x].id)
          /\ req[x].flow = "TX" => \A y \in Reqs : ~(status[y] = "PREPARED" /\ req[y].peer = req[x].peer)
      BY <2>1, <2>2 DEF Order, PostAhead
    <2>4. Ahead(Chan(x), req[x].id)'
      BY <1>3, <2>2, <2>3
    <2> QED
      BY <2>2, <2>3, <2>4 DEF PostAhead
  <1> QED
    BY <1>2, <1>4, <1>5 DEF Order

LEMMA ExecutesOrder ==
    ASSUME Base, Base', Order, NEW c \in Channels, NEW r \in Reqs, Executes(r, c)
    PROVE  Order'
  <1>1. /\ wq'[c] = Tail(wq[c]) /\ cq'[c] = Append(cq[c], r) /\ wq[c] # <<>> /\ r = Head(wq[c])
        /\ r \in Elems(wq[c])
        /\ Elems(wq[c]) = Elems(wq'[c]) \union {r} /\ Elems(cq'[c]) = Elems(cq[c]) \union {r}
        /\ \A d \in Channels : d # c => wq'[d] = wq[d] /\ cq'[d] = cq[d] /\ last_tracked'[d] = last_tracked[d]
        /\ UNCHANGED <<req, status, posted_list, last_posted_trigger, last_tracked, pc, post>>
    BY DEF Executes, client
  <1>2. /\ wq[c] \in Seq(Reqs) /\ cq[c] \in Seq(Reqs) /\ OrderOK(c) /\ \A x \in Reqs : req[x].id \in Nat
    BY Types DEF Base, Order
  <1>3. Sorted(wq'[c], req) /\ \A x \in Elems(wq'[c]) : req[r].id < req[x].id
    BY <1>1, <1>2, SortedTail DEF OrderOK
  <1>4. Sorted(cq'[c], req)
    BY <1>1, <1>2, SortedAppend DEF OrderOK
  <1>5. OrderOK(c)'
    BY <1>1, <1>2, <1>3, <1>4 DEF OrderOK
  <1>6. ASSUME NEW n \in Nat, Ahead(c, n) PROVE Ahead(c, n)'
    BY <1>1, <1>6 DEF Ahead
  <1>7. /\ \A x \in Reqs : status'[x] = "PREPARED" => status[x] = "PREPARED"
        /\ pc' = "posting" => pc = "posting"
    BY <1>1
  <1> QED
    BY <1>1, <1>5, <1>6, <1>7, OrderChannel

LEMMA PolledOrder ==
    ASSUME Base, Base', Order, NEW c \in Channels, NEW r \in Reqs, Polled(r, c)
    PROVE  /\ Order' /\ UNCHANGED pc /\ status' = [status EXCEPT ![r] = "COMPLETE"]
           /\ last_tracked' = IF req[r].trigger THEN [last_tracked EXCEPT ![c] = req[r].id]
                              ELSE last_tracked
  <1>1. /\ cq'[c] = Tail(cq[c]) /\ cq[c] # <<>> /\ r = Head(cq[c]) /\ wq' = wq
        /\ r \in Elems(cq[c]) /\ Elems(cq[c]) = Elems(cq'[c]) \union {r}
        /\ \A d \in Channels : d # c => cq'[d] = cq[d]
        /\ UNCHANGED <<req, posted_list, last_posted_trigger, post>>
    BY DEF Polled
  <1>2. /\ wq[c] \in Seq(Reqs) /\ cq[c] \in Seq(Reqs) /\ OrderOK(c) /\ \A x \in Reqs : req[x].id \in Nat
        /\ last_tracked[c] \in Nat /\ last_tracked \in [Channels -> Nat]
    BY Types DEF Base, Order, TypeOK
  <1>3. last_tracked[c] < req[r].id
    BY <1>1, <1>2 DEF OrderOK
  <1>4. /\ UNCHANGED pc /\ status' = [status EXCEPT ![r] = "COMPLETE"]
        /\ last_tracked' = IF req[r].trigger THEN [last_tracked EXCEPT ![c] = req[r].id]
                           ELSE last_tracked
    BY <1>2, <1>3 DEF Polled
  <1>5. /\ \A d \in Channels : d # c => last_tracked'[d] = last_tracked[d]
        /\ last_tracked'[c] \in {last_tracked[c], req[r].id}
    <2>1. CASE req[r].trigger
      BY <1>2, <1>4, <2>1
    <2>2. CASE ~req[r].trigger
      BY <1>4, <2>2
    <2> QED
      BY <2>1, <2>2
  <1>6. Sorted(cq'[c], req) /\ \A x \in Elems(cq'[c]) : req[r].id < req[x].id
    BY <1>1, <1>2, SortedTail DEF OrderOK
  <1>7. OrderOK(c)'
    <2>1. \A x \in Elems(cq'[c]) \union Elems(wq[c]) : last_tracked'[c] < req[x].id
      BY <1>1, <1>2, <1>5, <1>6 DEF OrderOK
    <2> QED
      BY <1>1, <1>2, <1>6, <2>1 DEF OrderOK
  <1>8. ASSUME NEW n \in Nat, Ahead(c, n) PROVE Ahead(c, n)'
    BY <1>1, <1>5, <1>8 DEF Ahead
  <1>9. /\ \A x \in Reqs : status'[x] = "PREPARED" => status[x] = "PREPARED"
        /\ pc' = "posting" => pc = "posting"
    BY <1>4 DEF Base, TypeOK
  <1>10. Order'
    BY <1>1, <1>5, <1>7, <1>8, <1>9, OrderChannel
  <1> QED
    BY <1>4, <1>10

LEMMA OrderInit == ASSUME Init PROVE Order
  <1>1. /\ status = [r \in Reqs |-> "UNDEF"] /\ pc = "idle"
        /\ wq = [c \in Channels |-> <<>>] /\ cq = [c \in Channels |-> <<>>]
    BY DEF Init
  <1>2. Elems(<<>>) = {} /\ Sorted(<<>>, req)
    BY SeqNone DEF Sorted
  <1>3. \A c \in Channels : OrderOK(c)
    BY <1>1, <1>2 DEF OrderOK
  <1>4. ReadyAhead /\ PostAhead
    BY <1>1 DEF ReadyAhead, Ready, PostAhead
  <1> QED
    BY <1>3, <1>4 DEF Order

LEMMA OrderUnchanged == ASSUME Order, UNCHANGED vars PROVE Order'
  BY DEF vars, client, Order, OrderOK, ReadyAhead, Ready, Ahead, PostAhead, Chan

LEMMA OrderNext == ASSUME NoMix, Base, Order, Next PROVE Order'
  <1>0. Base'
    BY BaseNext
  <1>1. CASE SubmitCase
    <2>1. ASSUME NEW r \in Reqs, NEW p \in Peers, NEW flow \in {"TX", "RX"},
                 NEW retry \in BOOLEAN, NEW handle \in BOOLEAN,
                 flow = "TX" => Unmixed(p), Immediate(r, p, flow, retry, handle)
          PROVE  Order'
      BY <1>0, <2>1, ImmediateOrder
    <2>2. ASSUME NEW r \in Reqs, NEW p \in Peers, mp_send_prepare(r, p) PROVE Order'
      <3>1. Fresh(r, p, "TX", "PREPARED")
        BY <2>2, PrepareBase
      <3>2. pc = "idle" /\ UNCHANGED <<last_tracked, wq, cq, pc, posted_list, last_posted_trigger>>
        BY <2>2 DEF mp_send_prepare
      <3> QED
        BY <1>0, <3>1, <3>2, CreateOrder
    <2>3. ASSUME NEW r \in Reqs, NEW p \in Peers, NEW s \in Streams, mp_send_on_stream(r, p, s)
          PROVE  Order'
      <3>1. Fresh(r, p, "TX", "PREPARED")
        BY <2>3, SendOnStreamBase
      <3>2. /\ pc = "idle" /\ UNCHANGED <<last_tracked, wq, cq, pc>>
            /\ last_posted_trigger' = [last_posted_trigger EXCEPT ![p] = last_req_id[p] + 1]
            /\ posted_list' = [posted_list EXCEPT ![p] = Append(@, r)]
        BY <2>3 DEF mp_send_on_stream
      <3> QED
        BY <1>0, <3>1, <3>2, CreateOrder
    <2>4. ASSUME NEW r \in Reqs, NEW p \in Peers, NEW s \in Streams, mp_isend_on_stream(r, p, s)
          PROVE  Order'
      <3>1. Fresh(r, p, "TX", "PREPARED")
        BY <2>4, IsendOnStreamBase
      <3>2. /\ pc = "idle" /\ UNCHANGED <<last_tracked, wq, cq, pc>>
            /\ last_posted_trigger' = [last_posted_trigger EXCEPT ![p] = last_req_id[p] + 1]
            /\ \/ UNCHANGED posted_list
               \/ posted_list' = [posted_list EXCEPT ![p] = Append(@, r)]
        BY <2>4 DEF mp_isend_on_stream
      <3> QED
        BY <1>0, <3>1, <3>2, CreateOrder
    <2> QED
      BY <1>1, <2>1, <2>2, <2>3, <2>4 DEF SubmitCase
  <1>2. CASE StreamCase
    <2>1. ASSUME NEW s \in Streams, NEW a \in Reqs, NEW b \in Reqs, NEW block \in BOOLEAN, NEW rs,
                 NEW call, OneOrTwo(rs, a, b), PostBatch(call, rs, s, block)
          PROVE  Order'
      <3>1. PICK acc : Batched(acc, block)
        BY <2>1, PostBatchStep
      <3> QED
        BY <1>0, <3>1, BatchOrder
    <2>2. ASSUME NEW s \in Streams, NEW R, NEW W, StreamWait(R, W, s) PROVE Order'
      <3>1. /\ UNCHANGED <<status, wq, cq, last_tracked, posted_list, last_posted_trigger>>
            /\ pc' = "idle" /\ \A x \in Reqs : SameId(x)
        BY <2>2 DEF StreamWait, Tracked
      <3>2. \A x \in Reqs : Held(x)
        BY <3>1 DEF Held
      <3> QED
        BY <1>0, <3>1, <3>2, IdleOrder
    <2>3. CASE Abort
      <3>1. /\ UNCHANGED <<status, req, wq, cq, last_tracked, posted_list, last_posted_trigger>>
            /\ pc' = "aborted"
        BY <2>3 DEF Abort, client
      <3>2. \A x \in Reqs : Held(x) /\ SameId(x)
        BY <3>1 DEF Held, SameId
      <3> QED
        BY <1>0, <3>1, <3>2, IdleOrder
    <2> QED
      BY <1>2, <2>1, <2>2, <2>3 DEF StreamCase
  <1>3. CASE CpuCase
    <2>1. CASE PostGiveUp \/ WaitGpuError
      <3>1. /\ UNCHANGED <<status, req, wq, cq, last_tracked, posted_list, last_posted_trigger>>
            /\ pc' = "idle"
        BY <2>1 DEF PostGiveUp, WaitGpuError, client
      <3>2. \A x \in Reqs : Held(x) /\ SameId(x)
        BY <3>1 DEF Held, SameId
      <3> QED
        BY <1>0, <3>1, <3>2, IdleOrder
    <2>2. CASE WaitReturn
      <3>1. /\ UNCHANGED <<wq, cq, last_tracked, posted_list, last_posted_trigger>>
            /\ pc' = "idle" /\ \A x \in waited : status[x] = "COMPLETE"
            /\ \A x \in Reqs : x \in waited => status'[x] = "UNDEF"
            /\ \A x \in Reqs : x \notin waited => status'[x] = status[x] /\ req'[x] = req[x]
        BY <2>2 DEF WaitReturn, client
      <3>2. /\ \A x \in Reqs : status'[x] # "UNDEF" => SameId(x)
            /\ \A x \in Reqs : status[x] \in Owned => Held(x)
            /\ \A x \in Reqs : status'[x] = "PREPARED" => status[x] = "PREPARED"
        BY <3>1 DEF Held, SameId, Owned, Busy
      <3> QED
        BY <1>0, <3>1, <3>2, IdleOrder
    <2>3. CASE PostRetry
      BY <1>0, <2>3, PostRetryOrder
    <2>4. ASSUME NEW rs, WaitAll(rs) PROVE Order'
      <3>1. /\ UNCHANGED <<req, wq, cq, last_tracked, posted_list, last_posted_trigger>>
            /\ pc' # "posting"
            /\ \A x \in Reqs : \/ status'[x] = status[x]
                               \/ status[x] = "PENDING_NOWAIT" /\ status'[x] = "PENDING"
        BY <2>4 DEF WaitAll, client
      <3>2. /\ \A x \in Reqs : SameId(x) /\ Held(x)
            /\ \A x \in Reqs : status'[x] = "PREPARED" => status[x] = "PREPARED"
        BY <3>1 DEF Held, SameId, Owned, Busy
      <3> QED
        BY <1>0, <3>1, <3>2, IdleOrder
    <2> QED
      BY <1>3, <2>1, <2>2, <2>3, <2>4 DEF CpuCase
  <1>4. CASE ProgressCase
    <2>1. ASSUME NEW s \in Streams, NEW op \in Op, Runs(op, s) PROVE Order'
      <3>1. UNCHANGED <<status, req, wq, cq, last_tracked, posted_list, last_posted_trigger, pc, post>>
        BY <2>1 DEF Runs
      <3>2. \A x \in Reqs : Held(x) /\ SameId(x)
        BY <3>1 DEF Held, SameId
      <3> QED
        BY <1>0, <3>1, <3>2, IdleOrder
    <2> QED
      BY <1>0, <1>4, <2>1, ListPostedOrder, PolledOrder, ExecutesOrder DEF ProgressCase
  <1> QED
    BY <1>1, <1>2, <1>3, <1>4, StepCases

\* When the application mixes no sends, each channel is posted, executed and tracked
\* in the order of its ids.
THEOREM PostedInOrder == ASSUME NoMix PROVE Spec => [](Base /\ Order)
  <1>1. Init => Base /\ Order
    BY BaseInit, OrderInit
  <1>2. Base /\ Order /\ [Next]_vars => (Base /\ Order)'
    BY BaseNext, BaseUnchanged, OrderNext, OrderUnchanged
  <1> QED
    BY <1>1, <1>2, PTL DEF Spec

-----------------------------------------------------------------------------
(* The process is not ended *)

NoRewait == "rewait" \notin Liberties

LEMMA NotAborted ==
    ASSUME NoMix, NoRewait, Base, Order, pc # "aborted", Next
    PROVE  pc' # "aborted"
  <1>0. Base'
    BY BaseNext
  <1>1. CASE SubmitCase
    <2>1. ASSUME NEW r \in Reqs, NEW p \in Peers, NEW flow \in {"TX", "RX"},
                 NEW retry \in BOOLEAN, NEW handle \in BOOLEAN, Immediate(r, p, flow, retry, handle)
          PROVE  pc' # "aborted"
      BY <2>1 DEF Immediate
    <2>2. ASSUME NEW r \in Reqs, NEW p \in Peers, mp_send_prepare(r, p) PROVE pc' # "aborted"
      BY <2>2 DEF mp_send_prepare
    <2>3. ASSUME NEW r \in Reqs, NEW p \in Peers, NEW s \in Streams,
                 mp_send_on_stream(r, p, s) \/ mp_isend_on_stream(r, p, s)
          PROVE  pc' # "aborted"
      <3>1. pc' = pc
        BY <2>3 DEF mp_send_on_stream, mp_isend_on_stream
      <3> QED
        BY <3>1
    <2> QED
      BY <1>1, <2>1, <2>2, <2>3 DEF SubmitCase
  <1>2. CASE StreamCase
    BY <1>2 DEF StreamCase, PostBatch, StreamWait, Abort, NoRewait
  <1>3. CASE CpuCase
    BY <1>3 DEF CpuCase, WaitReturn, WaitGpuError, PostRetry, PostGiveUp, WaitAll
  <1>4. CASE ProgressCase
    <2>1. ASSUME NEW r \in Reqs, NEW c \in Channels, Polled(r, c) PROVE UNCHANGED pc
      BY <1>0, <2>1, PolledOrder
    <2> QED
      BY <1>4, <2>1 DEF ProgressCase, ListPosted, Executes, Runs
  <1> QED
    BY <1>1, <1>2, <1>3, <1>4, StepCases

\* No completion and no id comes in an order that makes the library exit or abort
\* (mp.c:504-512, mp_peersync.c:1192): the application mixes no sends and gives
\* mp_wait_all_on_stream no request that may be complete; faults are allowed.
THEOREM NotEnded == ASSUME NoMix, NoRewait PROVE Spec => []NeverEnds
  <1>1. Init => Base /\ Order /\ pc # "aborted"
    BY BaseInit, OrderInit DEF Init
  <1>2. Base /\ Order /\ pc # "aborted" /\ [Next]_vars => (Base /\ Order /\ pc # "aborted")'
    <2>1. ASSUME Base, Order, pc # "aborted", Next PROVE (Base /\ Order /\ pc # "aborted")'
      BY <2>1, BaseNext, OrderNext, NotAborted
    <2>2. ASSUME Base, Order, pc # "aborted", UNCHANGED vars PROVE (Base /\ Order /\ pc # "aborted")'
      BY <2>2, BaseUnchanged, OrderUnchanged DEF vars
    <2> QED
      BY <2>1, <2>2
  <1>3. Base /\ Order /\ pc # "aborted" => NeverEnds
    BY DEF Base, Inv, NeverEnds
  <1> QED
    BY <1>1, <1>2, <1>3, PTL DEF Spec

-----------------------------------------------------------------------------
(* Refinement of RequestLife *)

LEMMA LifeCases ==
    ASSUME NEW r \in Reqs
    PROVE  /\ status[r] = "UNDEF" => LifeOf(r) = "free"
           /\ status[r] = "PREPARED" => LifeOf(r) = "created"
           /\ status[r] = "COMPLETE" => LifeOf(r) = "complete"
           /\ status[r] \in Busy =>
                 /\ r \in Elems(wq[Chan(r)]) /\ r \notin Elems(cq[Chan(r)]) => LifeOf(r) = "active"
                 /\ r \notin Elems(wq[Chan(r)]) /\ r \in Elems(cq[Chan(r)]) => LifeOf(r) = "executed"
                 /\ r \notin Elems(wq[Chan(r)]) \union Elems(cq[Chan(r)]) => LifeOf(r) = "created"
  <1>1. \A q : InSeq(r, q) <=> r \in Elems(q)
    BY DEF InSeq, Elems
  <1> QED
    BY <1>1 DEF LifeOf, Busy

LEMMA NextLifeCases ==
    ASSUME NEW r \in Reqs
    PROVE  /\ status'[r] = "UNDEF" => LifeOf(r)' = "free"
           /\ status'[r] = "PREPARED" => LifeOf(r)' = "created"
           /\ status'[r] = "COMPLETE" => LifeOf(r)' = "complete"
           /\ status'[r] \in Busy =>
                 /\ r \in Elems(wq'[Chan(r)']) /\ r \notin Elems(cq'[Chan(r)']) => LifeOf(r)' = "active"
                 /\ r \notin Elems(wq'[Chan(r)']) /\ r \in Elems(cq'[Chan(r)']) => LifeOf(r)' = "executed"
                 /\ r \notin Elems(wq'[Chan(r)']) \union Elems(cq'[Chan(r)']) => LifeOf(r)' = "created"
  <1>1. (InSeq(r, wq[Chan(r)])' <=> r \in Elems(wq'[Chan(r)']))
        /\ (InSeq(r, cq[Chan(r)])' <=> r \in Elems(cq'[Chan(r)']))
    BY DEF InSeq, Elems
  <1> QED
    BY <1>1 DEF LifeOf, Busy

LifeSame(x) == LifeOf(x)' = LifeOf(x)

\* A step that keeps where a request stands.
LEMMA SameLife ==
    ASSUME Base, Base', NEW x \in Reqs,
           \/ status'[x] = status[x]
           \/ status[x] \in Busy /\ status'[x] \in Busy,
           status[x] \in Busy =>
              /\ SameId(x)
              /\ x \in Elems(wq'[Chan(x)]) <=> x \in Elems(wq[Chan(x)])
              /\ x \in Elems(cq'[Chan(x)]) <=> x \in Elems(cq[Chan(x)])
    PROVE  LifeSame(x)
  <1>1. status[x] \in States
    BY Types DEF Base
  <1>2. CASE status[x] \notin Busy
    <2>1. status'[x] = status[x] /\ status[x] \in {"UNDEF", "PREPARED", "COMPLETE"}
      BY <1>1, <1>2 DEF States, Busy
    <2> QED
      BY <2>1, LifeCases, NextLifeCases DEF LifeSame
  <1>3. CASE status[x] \in Busy
    <2>1. status'[x] \in Busy /\ Chan(x)' = Chan(x) /\ Chan(x) \in Channels
      BY <1>3, InUse DEF SameId, Chan, Base, Busy
    <2>2. ~(x \in Elems(wq[Chan(x)]) /\ x \in Elems(cq[Chan(x)]))
      BY <2>1 DEF Base, Inv, Queues, QueueOK
    <2> QED
      BY <1>3, <2>1, <2>2, LifeCases, NextLifeCases DEF LifeSame
  <1> QED
    BY <1>2, <1>3

\* The steps of RequestLife that change one request.
LEMMA LifeMove ==
    ASSUME NEW r \in Reqs, \A x \in Reqs : x # r => LifeSame(x),
           \/ LifeOf(r) = "free" /\ LifeOf(r)' \in {"created", "active"}
           \/ LifeOf(r) = "created" /\ LifeOf(r)' = "active"
           \/ LifeOf(r) = "active" /\ LifeOf(r)' = "executed"
           \/ LifeOf(r) = "executed" /\ LifeOf(r)' = "complete"
    PROVE  Life!Next
  <1>1. [x \in Reqs |-> LifeOf(x)]' = [[x \in Reqs |-> LifeOf(x)] EXCEPT ![r] = LifeOf(r)']
    BY DEF LifeSame
  <1>2. CASE LifeOf(r) = "free" /\ LifeOf(r)' \in {"created", "active"}
    <2>1. Life!Create(r)
      BY <1>1, <1>2 DEF Life!Create
    <2> QED
      BY <2>1 DEF Life!Next
  <1>3. CASE LifeOf(r) = "created" /\ LifeOf(r)' = "active"
    <2>1. Life!Post(r)
      BY <1>1, <1>3 DEF Life!Post
    <2> QED
      BY <2>1 DEF Life!Next
  <1>4. CASE LifeOf(r) = "active" /\ LifeOf(r)' = "executed"
    <2>1. Life!Execute(r)
      BY <1>1, <1>4 DEF Life!Execute
    <2> QED
      BY <2>1 DEF Life!Next
  <1>5. CASE LifeOf(r) = "executed" /\ LifeOf(r)' = "complete"
    <2>1. Life!Complete(r)
      BY <1>1, <1>5 DEF Life!Complete
    <2> QED
      BY <2>1 DEF Life!Next
  <1> QED
    BY <1>2, <1>3, <1>4, <1>5

LEMMA LifeStutter ==
    ASSUME \A x \in Reqs : LifeSame(x)
    PROVE  UNCHANGED [r \in Reqs |-> LifeOf(r)]
  BY DEF LifeSame

LifeStep == Life!Next \/ UNCHANGED [r \in Reqs |-> LifeOf(r)]

\* Steps that change no queue and no status, but perhaps from one pending state to
\* the other.
LEMMA QuietLife ==
    ASSUME Base, Base', UNCHANGED <<wq, cq>>,
           \A x \in Reqs : \/ status'[x] = status[x]
                           \/ status[x] \in Busy /\ status'[x] \in Busy,
           \A x \in Reqs : status[x] \in Busy => SameId(x)
    PROVE  LifeStep
  <1>1. \A x \in Reqs : LifeSame(x)
    BY SameLife
  <1> QED
    BY <1>1, LifeStutter DEF LifeStep

\* A request is created, and perhaps posted.
LEMMA CreateLife ==
    ASSUME Base, Base', NEW r \in Reqs, NEW p \in Peers, NEW flow \in {"TX", "RX"},
           NEW state \in {"PREPARED", "PENDING_NOWAIT"}, Fresh(r, p, flow, state), UNCHANGED cq,
           \/ UNCHANGED wq
           \/ wq' = [wq EXCEPT ![<<p, flow>>] = Append(@, r)]
    PROVE  LifeStep
  <1> DEFINE c == <<p, flow>>
  <1>1. /\ c \in Channels /\ wq \in [Channels -> Seq(Reqs)] /\ wq[c] \in Seq(Reqs)
    BY DEF Base, TypeOK
  <1>2. /\ status[r] = "UNDEF" /\ status'[r] = state /\ Chan(r)' = c
        /\ \A x \in Reqs : x # r => status'[x] = status[x] /\ req'[x] = req[x]
        /\ \A d \in Channels : r \notin Elems(wq[d]) /\ r \notin Elems(cq[d])
    BY DEF Fresh
  <1> HIDE DEF c
  <1>3. Elems(Append(wq[c], r)) = Elems(wq[c]) \union {r}
    BY <1>1, ElemsAppend
  <1>4. wq' = wq \/ wq' = [wq EXCEPT ![c] = Append(@, r)]
    BY DEF c
  <1>5. \A d \in Channels : Elems(wq'[d]) \ {r} = Elems(wq[d]) \ {r}
    <2>1. CASE wq' = wq
      BY <2>1
    <2>2. CASE wq' = [wq EXCEPT ![c] = Append(@, r)]
      BY <1>1, <1>3, <2>2
    <2> QED
      BY <1>4, <2>1, <2>2
  <1>6. ASSUME NEW x \in Reqs, x # r PROVE LifeSame(x)
    <2>1. status'[x] = status[x] /\ SameId(x)
      BY <1>2, <1>6 DEF SameId
    <2>2. status[x] \in Busy => Chan(x) \in Channels
      BY InUse DEF Base, Busy
    <2>3. status[x] \in Busy => (x \in Elems(wq'[Chan(x)]) <=> x \in Elems(wq[Chan(x)]))
      BY <1>5, <1>6, <2>2
    <2> QED
      BY <2>1, <2>3, SameLife
  <1>7. LifeOf(r) = "free"
    BY <1>2, LifeCases
  <1>8. LifeOf(r)' \in {"created", "active"}
    <2>1. CASE state = "PREPARED"
      BY <1>2, <2>1, NextLifeCases
    <2>2. CASE state # "PREPARED"
      <3>1. status'[r] \in Busy
        BY <1>2, <2>2 DEF Busy
      <3>2. r \notin Elems(cq'[c])
        BY <1>1, <1>2
      <3> QED
        BY <1>2, <3>1, <3>2, NextLifeCases
    <2> QED
      BY <2>1, <2>2
  <1> QED
    BY <1>6, <1>7, <1>8, LifeMove DEF LifeStep

\* A work request of a created request is posted.
LEMMA PostLife ==
    ASSUME Base, Base', NEW r \in Reqs, NEW c \in Channels, Chan(r) = c, UNCHANGED <<req, cq>>,
           wq'[c] = Append(wq[c], r), \A d \in Channels : d # c => wq'[d] = wq[d],
           \/ status[r] = "PREPARED"
           \/ status[r] \in Busy /\ r \notin Elems(wq[c]) \union Elems(cq[c]),
           status'[r] \in Busy,
           \A x \in Reqs : x # r => status'[x] = status[x]
    PROVE  LifeStep
  <1>1. wq[c] \in Seq(Reqs) /\ Elems(wq'[c]) = Elems(wq[c]) \union {r}
    BY Types, ElemsAppend DEF Base
  <1>2. ASSUME NEW x \in Reqs, x # r PROVE LifeSame(x)
    <2>1. status'[x] = status[x] /\ SameId(x)
      BY <1>2 DEF SameId
    <2>2. status[x] \in Busy => Chan(x) \in Channels
      BY InUse DEF Base, Busy
    <2>3. status[x] \in Busy => (x \in Elems(wq'[Chan(x)]) <=> x \in Elems(wq[Chan(x)]))
      BY <1>1, <1>2, <2>2
    <2> QED
      BY <2>1, <2>3, SameLife
  <1>3. LifeOf(r) = "created"
    BY LifeCases
  <1>4. Chan(r)' = c
    BY DEF Chan
  <1>5. LifeOf(r)' = "active"
    <2>1. r \in Elems(wq'[c]) /\ r \notin Elems(cq'[c])
      BY <1>1 DEF Base, Inv, Queues, QueueOK, Busy
    <2> QED
      BY <1>4, <2>1, NextLifeCases
  <1> QED
    BY <1>2, <1>3, <1>5, LifeMove DEF LifeStep

LEMMA ExecutesLife ==
    ASSUME Base, Base', NEW r \in Reqs, NEW c \in Channels, Executes(r, c)
    PROVE  LifeStep
  <1>1. /\ r \in Elems(wq[c]) /\ r \notin Elems(cq[c]) /\ status[r] \in Busy /\ Chan(r) = c
        /\ \A d \in Channels : d # c => wq'[d] = wq[d] /\ cq'[d] = cq[d]
        /\ Elems(wq[c]) = Elems(wq'[c]) \union {r} /\ r \notin Elems(wq'[c])
        /\ Elems(cq'[c]) = Elems(cq[c]) \union {r}
        /\ UNCHANGED <<status, req>>
    BY DEF Executes
  <1>2. ASSUME NEW x \in Reqs, x # r PROVE LifeSame(x)
    <2>1. status'[x] = status[x] /\ SameId(x)
      BY <1>1, <1>2 DEF SameId
    <2>2. status[x] \in Busy => Chan(x) \in Channels
      BY InUse DEF Base, Busy
    <2>3. status[x] \in Busy => /\ x \in Elems(wq'[Chan(x)]) <=> x \in Elems(wq[Chan(x)])
                                /\ x \in Elems(cq'[Chan(x)]) <=> x \in Elems(cq[Chan(x)])
      BY <1>1, <1>2, <2>2
    <2> QED
      BY <2>1, <2>3, SameLife
  <1>3. LifeOf(r) = "active"
    BY <1>1, LifeCases
  <1>4. LifeOf(r)' = "executed"
    <2>1. Chan(r)' = c
      BY <1>1 DEF Chan
    <2> QED
      BY <1>1, <2>1, NextLifeCases
  <1> QED
    BY <1>2, <1>3, <1>4, LifeMove DEF LifeStep

LEMMA PolledLife ==
    ASSUME Base, Base', Order, NEW r \in Reqs, NEW c \in Channels, Polled(r, c)
    PROVE  LifeStep
  <1>1. /\ r \in Elems(cq[c]) /\ status[r] \in Busy /\ Chan(r) = c
        /\ \A d \in Channels : d # c => cq'[d] = cq[d]
        /\ Elems(cq[c]) = Elems(cq'[c]) \union {r}
        /\ UNCHANGED <<wq, req>>
    BY DEF Polled
  <1>2. status' = [status EXCEPT ![r] = "COMPLETE"] /\ status \in [Reqs -> States]
    BY PolledOrder DEF Base, TypeOK
  <1>3. ASSUME NEW x \in Reqs, x # r PROVE LifeSame(x)
    <2>1. status'[x] = status[x] /\ SameId(x)
      BY <1>1, <1>2, <1>3 DEF SameId
    <2>2. status[x] \in Busy => Chan(x) \in Channels
      BY InUse DEF Base, Busy
    <2>3. status[x] \in Busy => (x \in Elems(cq'[Chan(x)]) <=> x \in Elems(cq[Chan(x)]))
      BY <1>1, <1>3, <2>2
    <2> QED
      BY <1>1, <2>1, <2>3, SameLife
  <1>4. LifeOf(r) = "executed"
    <2>1. r \notin Elems(wq[c])
      BY <1>1 DEF Base, Inv, Queues, QueueOK
    <2> QED
      BY <1>1, <2>1, LifeCases
  <1>5. LifeOf(r)' = "complete"
    BY <1>2, NextLifeCases
  <1> QED
    BY <1>3, <1>4, <1>5, LifeMove DEF LifeStep

LEMMA WaitReturnLife == ASSUME Base, Base', WaitReturn PROVE LifeStep
  <1>1. /\ waited \subseteq Reqs /\ \A x \in waited : status[x] = "COMPLETE"
        /\ \A x \in Reqs : x \in waited => status'[x] = "UNDEF"
        /\ \A x \in Reqs : x \notin waited => status'[x] = status[x] /\ req'[x] = req[x]
        /\ UNCHANGED <<wq, cq>>
    BY DEF WaitReturn, Base, TypeOK
  <1>2. \A x \in Reqs \ waited : LifeSame(x)
    BY <1>1, SameLife DEF SameId
  <1>3. \A x \in waited : LifeOf(x) = "complete" /\ LifeOf(x)' = "free"
    BY <1>1, LifeCases, NextLifeCases
  <1>4. [x \in Reqs |-> LifeOf(x)]' =
            [x \in Reqs |-> IF x \in waited THEN "free" ELSE [y \in Reqs |-> LifeOf(y)][x]]
    BY <1>2, <1>3 DEF LifeSame
  <1>5. Life!Retire(waited)
    BY <1>1, <1>3, <1>4 DEF Life!Retire
  <1> QED
    BY <1>1, <1>5 DEF Life!Next, LifeStep

LEMMA LifeNext == ASSUME NoMix, Base, Order, Next PROVE LifeStep
  <1>0. Base'
    BY BaseNext
  <1>1. CASE SubmitCase
    <2>1. ASSUME NEW r \in Reqs, NEW p \in Peers, NEW flow \in {"TX", "RX"},
                 NEW retry \in BOOLEAN, NEW handle \in BOOLEAN, Immediate(r, p, flow, retry, handle)
          PROVE  LifeStep
      <3>1. NewRequest(r, p, flow, "PENDING_NOWAIT", FALSE) /\ UNCHANGED cq
            /\ (UNCHANGED wq \/ wq' = [wq EXCEPT ![<<p, flow>>] = Append(@, r)])
        BY <2>1 DEF Immediate
      <3>2. "PENDING_NOWAIT" \in States \ {"UNDEF"} /\ "PENDING_NOWAIT" # "PREPARED"
        BY DEF States
      <3>3. Fresh(r, p, flow, "PENDING_NOWAIT")
        BY <3>1, <3>2, NewRequestStep
      <3> QED
        BY <1>0, <3>1, <3>3, CreateLife
    <2>2. ASSUME NEW r \in Reqs, NEW p \in Peers, mp_send_prepare(r, p) PROVE LifeStep
      BY <1>0, <2>2, PrepareBase, CreateLife DEF mp_send_prepare
    <2>3. ASSUME NEW r \in Reqs, NEW p \in Peers, NEW s \in Streams, mp_send_on_stream(r, p, s)
          PROVE  LifeStep
      <3>1. Fresh(r, p, "TX", "PREPARED") /\ UNCHANGED <<wq, cq>>
        BY <2>3, SendOnStreamBase DEF mp_send_on_stream
      <3> QED
        BY <1>0, <3>1, CreateLife
    <2>4. ASSUME NEW r \in Reqs, NEW p \in Peers, NEW s \in Streams, mp_isend_on_stream(r, p, s)
          PROVE  LifeStep
      <3>1. Fresh(r, p, "TX", "PREPARED") /\ UNCHANGED <<wq, cq>>
        BY <2>4, IsendOnStreamBase DEF mp_isend_on_stream
      <3> QED
        BY <1>0, <3>1, CreateLife
    <2> QED
      BY <1>1, <2>1, <2>2, <2>3, <2>4 DEF SubmitCase
  <1>2. CASE StreamCase
    <2>1. ASSUME NEW s \in Streams, NEW a \in Reqs, NEW b \in Reqs, NEW block \in BOOLEAN, NEW rs,
                 NEW call, OneOrTwo(rs, a, b), PostBatch(call, rs, s, block)
          PROVE  LifeStep
      <3>1. PICK acc : Batched(acc, block)
        BY <2>1, PostBatchStep
      <3>2. UNCHANGED <<status, wq, cq>> /\ \A x \in Reqs : SameId(x)
        BY <3>1 DEF Batched
      <3> QED
        BY <1>0, <3>2, QuietLife
    <2>2. ASSUME NEW s \in Streams, NEW R, NEW W, StreamWait(R, W, s) PROVE LifeStep
      <3>1. UNCHANGED <<status, wq, cq>> /\ \A x \in Reqs : SameId(x)
        BY <2>2 DEF StreamWait, Tracked
      <3> QED
        BY <1>0, <3>1, QuietLife
    <2>3. CASE Abort
      <3>1. UNCHANGED <<status, wq, cq>> /\ \A x \in Reqs : SameId(x)
        BY <2>3 DEF Abort, SameId
      <3> QED
        BY <1>0, <3>1, QuietLife
    <2> QED
      BY <1>2, <2>1, <2>2, <2>3 DEF StreamCase
  <1>3. CASE CpuCase
    <2>1. CASE PostGiveUp \/ WaitGpuError
      <3>1. UNCHANGED <<status, wq, cq>> /\ \A x \in Reqs : SameId(x)
        BY <2>1 DEF PostGiveUp, WaitGpuError, SameId
      <3> QED
        BY <1>0, <3>1, QuietLife
    <2>2. CASE WaitReturn
      BY <1>0, <2>2, WaitReturnLife
    <2>3. CASE PostRetry
      <3>1. PICK r \in Reqs : r = post /\ status[r] \in Busy
        BY <2>3 DEF PostRetry, Base, TypeOK, Inv, Posting, Busy
      <3>2. PICK c \in Channels : c = Chan(r)
        BY <3>1, InUse DEF Base, Busy
      <3>3. wq' = [wq EXCEPT ![c] = Append(@, r)] /\ UNCHANGED <<status, req, cq>>
        BY <2>3, <3>1, <3>2 DEF PostRetry
      <3>4. wq'[c] = Append(wq[c], r) /\ \A d \in Channels : d # c => wq'[d] = wq[d]
        BY <3>3 DEF Base, TypeOK
      <3>5. r \notin Elems(wq[c]) \union Elems(cq[c])
        BY <2>3, <3>1, <3>2 DEF PostRetry, Base, Inv, Posting
      <3> QED
        BY <1>0, <3>1, <3>2, <3>3, <3>4, <3>5, PostLife
    <2>4. ASSUME NEW rs, WaitAll(rs) PROVE LifeStep
      <3>1. /\ UNCHANGED <<req, wq, cq>>
            /\ \A x \in Reqs : \/ status'[x] = status[x]
                               \/ status[x] = "PENDING_NOWAIT" /\ status'[x] = "PENDING"
        BY <2>4 DEF WaitAll
      <3>2. \A x \in Reqs : SameId(x) /\ (\/ status'[x] = status[x]
                                          \/ status[x] \in Busy /\ status'[x] \in Busy)
        BY <3>1 DEF SameId, Busy
      <3> QED
        BY <1>0, <3>1, <3>2, QuietLife
    <2> QED
      BY <1>3, <2>1, <2>2, <2>3, <2>4 DEF CpuCase
  <1>4. CASE ProgressCase
    <2>1. ASSUME NEW r \in Reqs, NEW p \in Peers, ListPosted(r, p) PROVE LifeStep
      <3>1. PICK c \in Channels : c = <<p, "TX">>
        BY Types DEF Base
      <3>2. /\ Chan(r) = c /\ UNCHANGED <<req, cq>> /\ wq'[c] = Append(wq[c], r)
            /\ \A d \in Channels : d # c => wq'[d] = wq[d]
            /\ status[r] = "PREPARED" /\ status'[r] \in Busy
            /\ \A x \in Reqs : x # r => status'[x] = status[x]
        BY <2>1, <3>1 DEF ListPosted, Busy
      <3> QED
        BY <1>0, <3>2, PostLife
    <2>2. ASSUME NEW s \in Streams, NEW op \in Op, Runs(op, s) PROVE LifeStep
      <3>1. UNCHANGED <<status, wq, cq>> /\ \A x \in Reqs : SameId(x)
        BY <2>2 DEF Runs, SameId
      <3> QED
        BY <1>0, <3>1, QuietLife
    <2> QED
      BY <1>0, <1>4, <2>1, <2>2, PolledLife, ExecutesLife DEF ProgressCase
  <1> QED
    BY <1>1, <1>2, <1>3, <1>4, StepCases

LEMMA LifeInit == ASSUME Init, NEW r \in Reqs PROVE LifeOf(r) = "free"
  <1>1. status = [x \in Reqs |-> "UNDEF"]
    BY DEF Init
  <1>2. status[r] = "UNDEF"
    BY <1>1
  <1> QED
    BY <1>2, LifeCases

\* The event mode implements RequestLife whatever fails: a request is complete only
\* after the HCA executed it, and its structure is free only after that.
THEOREM RefinesLife == ASSUME NoMix PROVE Spec => LifeSpec
  <1>1. Init => Base /\ Order
    BY BaseInit, OrderInit
  <1>2. Init => Life!Init
    BY LifeInit DEF Life!Init
  <1>3. Base /\ Order /\ [Next]_vars => (Base /\ Order)'
    BY BaseNext, BaseUnchanged, OrderNext, OrderUnchanged
  <1>4. Base /\ Order /\ [Next]_vars => [Life!Next]_[r \in Reqs |-> LifeOf(r)]
    <2>1. ASSUME Base, Order, Next PROVE [Life!Next]_[r \in Reqs |-> LifeOf(r)]
      BY <2>1, LifeNext DEF LifeStep
    <2>2. ASSUME UNCHANGED vars PROVE UNCHANGED [r \in Reqs |-> LifeOf(r)]
      BY <2>2 DEF vars, LifeOf, InSeq, Chan
    <2> QED
      BY <2>1, <2>2
  <1> QED
    BY <1>1, <1>2, <1>3, <1>4, PTL DEF Spec, LifeSpec, Life!Spec
=============================================================================
