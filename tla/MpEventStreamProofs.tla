------------------------- MODULE MpEventStreamProofs -------------------------
(***************************************************************************)
(* MpEvent, seen from the streams: no send is posted before its stream     *)
(* reached it, every send in the list gets posted, and no stream passes a  *)
(* wait for a request that the HCA has not executed.  Each theorem names   *)
(* the liberties and faults it excludes.                                   *)
(***************************************************************************)
EXTENDS MpEventProofs

USE ConstantsAssumption DEF Channels

OneStream  == "streams" \notin Liberties
InSequence == "misorder" \notin Liberties
Reliable   == "stream_post" \notin Faults

-----------------------------------------------------------------------------
(* What a call gives to a stream *)

\* No other stream holds a trigger or a wait of channel c.
Alone(c, s) ==
    \A t \in Streams : t # s => \A o \in Elems(stream[t]) : o.chan = c => o.op = "kernel"

\* A wait among ops that is enough for the kernel o.
WaitIn(ops, o) == \E u \in ops : u.op = "wait" /\ u.chan = o.chan /\ o.id <= u.id

\* Stream s gets the triggers and waits w, then the kernels k.
Queued(s, w, k) ==
    /\ w \in Seq(Op) /\ k \in Seq(Op) /\ TriggersAscend(w)
    /\ stream' \in [Streams -> Seq(Op)] /\ stream'[s] = stream[s] \o (w \o k)
    /\ \A t \in Streams : t # s => stream'[t] = stream[t]
    /\ \A o \in Elems(w) : o.op \in {"trigger", "wait"} /\ Alone(o.chan, s)
    /\ \A o \in Elems(k) : o.op = "kernel" /\ Alone(o.chan, s)

\* Its triggers are those of the sends that the call put into the lists.
TriggersQueued(w) ==
    /\ \A o \in Elems(w) : o.op = "trigger" =>
          /\ o.chan = <<o.chan[1], "TX">> /\ o.id > last_posted_trigger[o.chan[1]]
          /\ \E x \in Elems(posted_list'[o.chan[1]]) : req'[x].id = o.id
    /\ \A p \in Peers : \A x \in Elems(posted_list'[p]) :
          \/ x \in Elems(posted_list[p])
          \/ \E o \in Elems(w) : o.op = "trigger" /\ o.chan[1] = p /\ o.id = req'[x].id

\* Its waits are those last_posted_tracked_id counts.
TrackingQueued(w) ==
    \A c \in Channels :
        \/ last_posted_tracked'[c] = last_posted_tracked[c]
        \/ \E o \in Elems(w) : o.op = "wait" /\ o.chan = c /\ o.id = last_posted_tracked'[c]

\* Its kernels follow requests of the application, behind a wait unless one is
\* counted already.
KernelsQueued(w, k) ==
    \A o \in Elems(k) :
        /\ o.req \in Reqs /\ o.req \in user' /\ status'[o.req] # "UNDEF"
        /\ Chan(o.req)' = o.chan /\ req'[o.req].id = o.id
        /\ InSequence /\ status'[o.req] = "PREPARED" =>
              o.req \in Elems(posted_list'[req'[o.req].peer])
        /\ status'[o.req] = "COMPLETE" \/ WaitIn(Elems(w), o) \/ o.id <= last_posted_tracked[o.chan]

Call(s, w, k) ==
    Queued(s, w, k) /\ TriggersQueued(w) /\ TrackingQueued(w) /\ KernelsQueued(w, k)

\* The sends in the lists stay there.
ListsGrow ==
    \A p \in Peers :
        /\ last_posted_trigger[p] <= last_posted_trigger'[p]
        /\ \A x \in Elems(posted_list[p]) : x \in Elems(posted_list'[p]) /\ req'[x].id = req[x].id

LEMMA SoleAlone ==
    ASSUME OneStream, NEW c, NEW s, SoleStream(c, s)
    PROVE  Alone(c, s)
  BY DEF SoleStream, Alone, Elems, OneStream

LEMMA QueuedOnStream ==
    ASSUME TypeOK, NEW s \in Streams, NEW w \in Seq(Op), NEW k \in Seq(Op), OnStream(s, w \o k),
           TriggersAscend(w),
           \A o \in Elems(w) : o.op \in {"trigger", "wait"} /\ Alone(o.chan, s),
           \A o \in Elems(k) : o.op = "kernel" /\ Alone(o.chan, s)
    PROVE  Queued(s, w, k)
  <1>1. w \o k \in Seq(Op)
    BY SeqConcat
  <1>2. PICK ops \in Seq(Op) : ops = w \o k
    BY <1>1
  <1>3. /\ stream' \in [Streams -> Seq(Op)] /\ stream'[s] = stream[s] \o ops
        /\ \A t \in Streams : t # s => stream'[t] = stream[t]
    BY <1>2, OnStreamType
  <1> QED
    BY <1>2, <1>3 DEF Queued

LEMMA QueuedElems ==
    ASSUME TypeOK, NEW s \in Streams, NEW w, NEW k, Queued(s, w, k)
    PROVE  \E v \in Seq(Op) : /\ v = w \o k /\ Elems(v) = Elems(w) \union Elems(k)
                             /\ Elems(stream'[s]) = Elems(stream[s]) \union Elems(v)
  <1>1. /\ w \in Seq(Op) /\ k \in Seq(Op) /\ stream[s] \in Seq(Op)
        /\ stream'[s] = stream[s] \o (w \o k)
    BY Types DEF Queued
  <1>2. w \o k \in Seq(Op)
    BY <1>1, SeqConcat
  <1>3. Elems(w \o k) = Elems(w) \union Elems(k)
    BY <1>1, ElemsConcat
  <1>4. PICK v \in Seq(Op) : v = w \o k
    BY <1>2
  <1>5. Elems(stream[s] \o v) = Elems(stream[s]) \union Elems(v)
    BY <1>1, ElemsConcat
  <1> QED
    BY <1>1, <1>3, <1>4, <1>5

LEMMA TriggerOpFacts ==
    ASSUME NEW p \in Peers, NEW n \in Nat
    PROVE  /\ TriggerOp(p, n) \in Op /\ TriggerOp(p, n).op = "trigger"
           /\ TriggerOp(p, n).chan = <<p, "TX">> /\ TriggerOp(p, n).id = n
  BY DEF TriggerOp, Op

LEMMA OneOp ==
    ASSUME NEW t \in Op
    PROVE  <<t>> \in Seq(Op) /\ Elems(<<t>>) = {t} /\ TriggersAscend(<<t>>)
  <1>1. <<t>> \in Seq(Op) /\ Elems(<<t>>) = {t}
    BY SeqOne
  <1>2. TriggersAscend(<<t>>)
    BY DEF TriggersAscend
  <1> QED
    BY <1>1, <1>2

LEMMA TwoOps ==
    ASSUME NEW t \in Op, NEW u \in Op, u.op = "wait"
    PROVE  <<t>> \o <<u>> \in Seq(Op) /\ Elems(<<t>> \o <<u>>) = {t, u}
           /\ TriggersAscend(<<t>> \o <<u>>)
  <1>1. PICK a \in Seq(Op) : a = <<t>> /\ Elems(a) = {t} /\ TriggersAscend(a)
    BY OneOp
  <1>2. PICK b \in Seq(Op) : b = <<u>> /\ Elems(b) = {u} /\ TriggersAscend(b)
    BY OneOp
  <1>3. TriggersAscend(a \o b)
    BY <1>1, <1>2, AscendConcat
  <1>4. a \o b \in Seq(Op)
    BY SeqConcat
  <1>5. Elems(a \o b) = Elems(a) \union Elems(b)
    BY ElemsConcat
  <1> QED
    BY <1>1, <1>2, <1>3, <1>4, <1>5

LEMMA SendCall ==
    ASSUME OneStream, Base, Base', NEW r \in Reqs, NEW p \in Peers, NEW s \in Streams,
           mp_send_on_stream(r, p, s)
    PROVE  /\ ListsGrow /\ UNCHANGED last_trigger
           /\ (\E w, k : Call(s, w, k)) \/ ("stream_post" \in Faults /\ UNCHANGED stream)
  <1>1. Fresh(r, p, "TX", "PREPARED")
    BY SendOnStreamBase
  <1>2. PICK n \in Nat : n = last_req_id[p] + 1
    BY Types DEF Base
  <1>3. PICK c \in Channels : c = <<p, "TX">> /\ c[1] = p
    BY Types DEF Base
  <1>4. /\ SoleStream(c, s) /\ UNCHANGED last_trigger
        /\ last_posted_trigger' = [last_posted_trigger EXCEPT ![p] = n]
        /\ posted_list' = [posted_list EXCEPT ![p] = Append(@, r)]
        /\ last_posted_tracked' = [last_posted_tracked EXCEPT ![c] = IF @ < n THEN n ELSE @]
    BY <1>2, <1>3 DEF mp_send_on_stream
  <1>5. \/ OnStream(s, SendOps(r, p)) /\ user' = user \union {r}
        \/ "stream_post" \in Faults /\ UNCHANGED stream
    BY DEF mp_send_on_stream, SendOps
  <1>6. /\ last_posted_tracked[c] < n /\ last_posted_trigger[p] < n
        /\ last_posted_tracked \in [Channels -> Nat] /\ last_posted_trigger \in [Peers -> Nat]
        /\ posted_list \in [Peers -> Seq(Reqs)]
    <2>1. last_posted_tracked[c] <= last_req_id[p] /\ last_posted_trigger[p] <= last_req_id[p]
      BY <1>3 DEF Base, Inv, Words
    <2>2. last_req_id[p] \in Nat
      BY Types DEF Base
    <2>3. /\ last_posted_tracked \in [Channels -> Nat] /\ last_posted_trigger \in [Peers -> Nat]
          /\ posted_list \in [Peers -> Seq(Reqs)]
      BY DEF Base, TypeOK
    <2> QED
      BY <1>2, <2>1, <2>2, <2>3
  <1>7. /\ req'[r].id = n /\ Chan(r)' = c /\ status'[r] = "PREPARED" /\ req'[r].peer = p
        /\ \A x \in Reqs : x # r => req'[x] = req[x]
        /\ \A q \in Peers : r \notin Elems(posted_list[q])
    BY <1>1, <1>2, <1>3 DEF Fresh
  <1>8. Elems(posted_list'[p]) = Elems(posted_list[p]) \union {r}
        /\ \A q \in Peers : q # p => posted_list'[q] = posted_list[q]
    BY <1>4, <1>6, ElemsAppend
  <1>9. ListsGrow
    <2>1. \A q \in Peers : Elems(posted_list[q]) \subseteq Reqs
      BY Types DEF Base
    <2>2. \A q \in Peers : last_posted_trigger[q] <= last_posted_trigger'[q]
      BY <1>4, <1>6
    <2>3. \A q \in Peers : \A x \in Elems(posted_list[q]) : x \in Elems(posted_list'[q])
      BY <1>8
    <2>4. \A q \in Peers : \A x \in Elems(posted_list[q]) : req'[x].id = req[x].id
      BY <1>7, <2>1
    <2> QED
      BY <2>2, <2>3, <2>4 DEF ListsGrow
  <1>10. ASSUME OnStream(s, SendOps(r, p)), user' = user \union {r} PROVE \E w, k : Call(s, w, k)
    <2>1. PICK t \in Op : t = TriggerOp(p, n) /\ t.op = "trigger" /\ t.chan = c /\ t.id = n
      BY <1>3, TriggerOpFacts
    <2>2. PICK u \in Op : u = WaitOp(c, n) /\ u.op = "wait" /\ u.chan = c /\ u.id = n
      BY OpsAreOps
    <2>3. PICK o \in Op : o = KernelOp(r, c, n) /\ o.op = "kernel" /\ o.chan = c /\ o.id = n /\ o.req = r
      BY OpsAreOps
    <2>4. <<t>> \o <<u>> \o <<o>> = SendOps(r, p)
      BY <1>2, <1>3, <1>6, <2>1, <2>2, <2>3 DEF SendOps
    <2>5. PICK w \in Seq(Op) : w = <<t>> \o <<u>> /\ Elems(w) = {t, u} /\ TriggersAscend(w)
      BY <2>2, TwoOps
    <2>6. PICK k \in Seq(Op) : k = <<o>> /\ Elems(k) = {o}
      BY SeqOne
    <2>8. Alone(c, s)
      BY <1>4, SoleAlone
    <2>9. Queued(s, w, k)
      <3>1. OnStream(s, w \o k)
        BY <1>10, <2>4, <2>5, <2>6
      <3> QED
        BY <2>1, <2>2, <2>3, <2>6, <2>5, <2>8, <3>1, QueuedOnStream DEF Base
    <2>10. TriggersQueued(w)
      <3>1. \A q \in Peers : \A x \in Elems(posted_list'[q]) :
               x \in Elems(posted_list[q]) \/ (q = p /\ x = r)
        BY <1>8
      <3>2. t.chan = <<t.chan[1], "TX">> /\ t.chan[1] = p
        BY <1>3, <2>1
      <3>3. ASSUME NEW e \in Elems(w), e.op = "trigger"
            PROVE  /\ e.chan = <<e.chan[1], "TX">> /\ e.id > last_posted_trigger[e.chan[1]]
                   /\ \E x \in Elems(posted_list'[e.chan[1]]) : req'[x].id = e.id
        <4>1. e = t
          BY <2>2, <2>5, <3>3
        <4> QED
          BY <1>6, <1>7, <1>8, <2>1, <3>2, <4>1
      <3>4. ASSUME NEW q \in Peers, NEW x \in Elems(posted_list'[q]), x \notin Elems(posted_list[q])
            PROVE  \E e \in Elems(w) : e.op = "trigger" /\ e.chan[1] = q /\ e.id = req'[x].id
        BY <1>7, <2>1, <2>5, <3>1, <3>2, <3>4
      <3> QED
        BY SMTT(30), <3>3, <3>4 DEF TriggersQueued
    <2>11. TrackingQueued(w)
      BY <1>4, <1>6, <2>2, <2>5 DEF TrackingQueued
    <2>12. KernelsQueued(w, k)
      <3>1. WaitIn(Elems(w), o)
        BY <2>2, <2>3, <2>5 DEF WaitIn
      <3> QED
        BY <1>7, <1>8, <1>10, <2>3, <2>6, <3>1 DEF KernelsQueued
    <2> QED
      BY <2>9, <2>10, <2>11, <2>12 DEF Call
  <1> QED
    BY <1>4, <1>5, <1>9, <1>10

LEMMA ConcatNone == ASSUME NEW w \in Seq(Op) PROVE w \o <<>> = w
  OBVIOUS

LEMMA IsendCall ==
    ASSUME OneStream, Base, Base', NEW r \in Reqs, NEW p \in Peers, NEW s \in Streams,
           mp_isend_on_stream(r, p, s)
    PROVE  /\ ListsGrow /\ UNCHANGED last_trigger
           /\ (\E w, k : Call(s, w, k)) \/ ("stream_post" \in Faults /\ UNCHANGED stream)
  <1>1. Fresh(r, p, "TX", "PREPARED")
    BY IsendOnStreamBase
  <1>2. PICK n \in Nat : n = last_req_id[p] + 1
    BY Types DEF Base
  <1>3. PICK c \in Channels : c = <<p, "TX">> /\ c[1] = p
    BY Types DEF Base
  <1>4. /\ SoleStream(c, s) /\ UNCHANGED <<last_trigger, last_posted_tracked>>
        /\ last_posted_trigger' = [last_posted_trigger EXCEPT ![p] = n]
    BY <1>2, <1>3 DEF mp_isend_on_stream
  <1>5. \/ OnStream(s, <<TriggerOp(p, n)>>) /\ posted_list' = [posted_list EXCEPT ![p] = Append(@, r)]
        \/ "stream_post" \in Faults /\ UNCHANGED <<stream, posted_list>>
    BY <1>2 DEF mp_isend_on_stream
  <1>6. /\ last_posted_trigger[p] < n /\ last_posted_trigger \in [Peers -> Nat]
        /\ posted_list \in [Peers -> Seq(Reqs)]
    <2>1. last_posted_trigger[p] <= last_req_id[p]
      BY DEF Base, Inv, Words
    <2>2. last_req_id[p] \in Nat
      BY Types DEF Base
    <2>3. last_posted_trigger \in [Peers -> Nat] /\ posted_list \in [Peers -> Seq(Reqs)]
      BY DEF Base, TypeOK
    <2> QED
      BY <1>2, <2>1, <2>2, <2>3
  <1>7. /\ req'[r].id = n /\ \A x \in Reqs : x # r => req'[x] = req[x]
        /\ \A q \in Peers : r \notin Elems(posted_list[q])
    BY <1>1, <1>2 DEF Fresh
  <1>8. ASSUME posted_list' = [posted_list EXCEPT ![p] = Append(@, r)]
        PROVE  /\ Elems(posted_list'[p]) = Elems(posted_list[p]) \union {r}
               /\ \A q \in Peers : q # p => posted_list'[q] = posted_list[q]
    BY <1>6, <1>8, ElemsAppend
  <1>9. ListsGrow
    <2>1. \A q \in Peers : Elems(posted_list[q]) \subseteq Reqs
      BY Types DEF Base
    <2>2. \A q \in Peers : last_posted_trigger[q] <= last_posted_trigger'[q]
      BY <1>4, <1>6
    <2>3. \A q \in Peers : \A x \in Elems(posted_list[q]) : x \in Elems(posted_list'[q])
      <3>1. CASE posted_list' = posted_list
        BY <3>1
      <3>2. CASE posted_list' = [posted_list EXCEPT ![p] = Append(@, r)]
        BY <1>8, <3>2
      <3> QED
        BY <1>5, <3>1, <3>2
    <2>4. \A q \in Peers : \A x \in Elems(posted_list[q]) : req'[x].id = req[x].id
      BY <1>7, <2>1
    <2> QED
      BY <2>2, <2>3, <2>4 DEF ListsGrow
  <1>10. ASSUME OnStream(s, <<TriggerOp(p, n)>>),
                posted_list' = [posted_list EXCEPT ![p] = Append(@, r)]
         PROVE  \E w, k : Call(s, w, k)
    <2>1. PICK t \in Op : t = TriggerOp(p, n) /\ t.op = "trigger" /\ t.chan = c /\ t.id = n
      BY <1>3, TriggerOpFacts
    <2>2. PICK w \in Seq(Op) : w = <<t>> /\ Elems(w) = {t} /\ TriggersAscend(w)
      BY OneOp
    <2>3. PICK k \in Seq(Op) : k = <<>> /\ Elems(k) = {}
      BY SeqNone
    <2>4. Alone(c, s)
      BY <1>4, SoleAlone
    <2>5. Queued(s, w, k)
      <3>1. OnStream(s, w \o k)
        BY <1>10, <2>1, <2>2, <2>3, ConcatNone
      <3> QED
        BY <2>1, <2>2, <2>3, <2>4, <3>1, QueuedOnStream DEF Base
    <2>6. TriggersQueued(w)
      <3>1. \A q \in Peers : \A x \in Elems(posted_list'[q]) :
               x \in Elems(posted_list[q]) \/ (q = p /\ x = r)
        BY <1>8, <1>10
      <3>2. t.chan = <<t.chan[1], "TX">> /\ t.chan[1] = p
        BY <1>3, <2>1
      <3>3. r \in Elems(posted_list'[p])
        BY <1>8, <1>10
      <3>4. ASSUME NEW e \in Elems(w), e.op = "trigger"
            PROVE  /\ e.chan = <<e.chan[1], "TX">> /\ e.id > last_posted_trigger[e.chan[1]]
                   /\ \E x \in Elems(posted_list'[e.chan[1]]) : req'[x].id = e.id
        BY <1>6, <1>7, <2>1, <2>2, <3>2, <3>3
      <3>5. ASSUME NEW q \in Peers, NEW x \in Elems(posted_list'[q]), x \notin Elems(posted_list[q])
            PROVE  \E e \in Elems(w) : e.op = "trigger" /\ e.chan[1] = q /\ e.id = req'[x].id
        BY <1>7, <2>1, <2>2, <3>1, <3>2, <3>5
      <3> QED
        BY <3>4, <3>5 DEF TriggersQueued
    <2>7. TrackingQueued(w) /\ KernelsQueued(w, k)
      BY <1>4, <2>3 DEF TrackingQueued, KernelsQueued
    <2> QED
      BY <2>5, <2>6, <2>7 DEF Call
  <1> QED
    BY <1>4, <1>5, <1>9, <1>10

LEMMA BatchCall ==
    ASSUME OneStream, Base, Base', NEW a \in Reqs, NEW b \in Reqs, NEW rs, OneOrTwo(rs, a, b),
           NEW s \in Streams, NEW call, NEW block \in BOOLEAN, PostBatch(call, rs, s, block)
    PROVE  /\ ListsGrow /\ UNCHANGED last_trigger
           /\ \/ \E w, k : Call(s, w, k)
              \/ UNCHANGED stream /\ (InSequence => "stream_post" \in Faults)
  <1>1. PICK acc : acc = Accepted(rs) /\ Batched(acc, block)
    BY PostBatchStep
  <1>2. /\ \A i \in DOMAIN rs : SoleStream(Tx(rs[i]), s)
        /\ \/ acc = rs /\ OnStream(s, OpsOfAll(rs, block) \o (IF block THEN Kernels(rs) ELSE <<>>))
           \/ UNCHANGED stream /\ (InSequence => "stream_post" \in Faults)
    BY <1>1 DEF PostBatch, InSequence
  <1>3. /\ Elems(acc) \subseteq Reqs /\ Elems(acc) \subseteq user
        /\ \A x \in Elems(acc) :
              /\ status[x] = "PREPARED" /\ req[x].peer \in Peers /\ Chan(x) = <<req[x].peer, "TX">>
              /\ last_posted_trigger[req[x].peer] < req[x].id
        /\ \A p \in Peers : last_posted_trigger[p] <= last_posted_trigger'[p]
        /\ \A p \in Peers : Elems(posted_list'[p]) = Elems(posted_list[p])
                                                     \union {x \in Elems(acc) : req[x].peer = p}
        /\ \A x \in Reqs : SameId(x)
        /\ \A c \in Channels :
              /\ last_posted_tracked[c] <= last_posted_tracked'[c]
              /\ \/ last_posted_tracked'[c] = last_posted_tracked[c]
                 \/ block /\ \E x \in Elems(acc) : Chan(x) = c /\ req[x].id = last_posted_tracked'[c]
        /\ UNCHANGED <<status, user, last_trigger>>
    BY <1>1 DEF Batched
  <1>4. ListsGrow
    <2>1. \A p \in Peers : Elems(posted_list[p]) \subseteq Reqs
      BY Types DEF Base
    <2> QED
      BY <1>3, <2>1 DEF ListsGrow, SameId
  <1>5. ASSUME acc = rs, OnStream(s, OpsOfAll(rs, block) \o (IF block THEN Kernels(rs) ELSE <<>>))
        PROVE  \E w, k : Call(s, w, k)
    <2>1. \A x \in Elems(rs) : x \in Reqs /\ status[x] = "PREPARED" /\ req[x].flow = "TX"
      BY <1>3, <1>5 DEF Chan
    <2>2. rs = <<a, b>> /\ req[a].peer = req[b].peer => req[a].id < req[b].id
      <3>1. TypeOK
        BY DEF Base
      <3>2. acc = <<a, b>> => (req[a].peer = req[b].peer => req[a].id < req[b].id)
        BY <1>1, <3>1, AcceptedShape
      <3> QED
        BY <1>5, <3>2
    <2>3. PICK w \in Seq(Op) :
             /\ w = OpsOfAll(rs, block) /\ TriggersAscend(w)
             /\ \A o : o \in Elems(w) <=>
                          \E x \in Elems(rs) :
                             o = TriggerOf(x) \/ (block /\ NeedsWait(x) /\ o = WaitOf(x))
      BY <2>1, <2>2, OpsOfAllFacts DEF Base
    <2>4. PICK k \in Seq(Op) :
             /\ k = IF block THEN Kernels(rs) ELSE <<>>
             /\ \A o \in Elems(k) : block /\ \E x \in Elems(rs) : o = KernelOf(x)
      <3>1. /\ Kernels(rs) \in Seq(Op)
            /\ \A o : o \in Elems(Kernels(rs)) <=> \E x \in Elems(rs) : o = KernelOf(x)
        BY <2>1, <2>2, OpsOfAllFacts DEF Base
      <3>2. <<>> \in Seq(Op) /\ Elems(<<>>) = {}
        BY SeqNone
      <3> QED
        BY <3>1, <3>2
    <2>5. \A x \in Elems(rs) :
             /\ TriggerOf(x).op = "trigger" /\ TriggerOf(x).chan[1] = req[x].peer
             /\ TriggerOf(x).chan = Chan(x) /\ TriggerOf(x).id = req[x].id
             /\ WaitOf(x).op = "wait" /\ WaitOf(x).chan = Chan(x) /\ WaitOf(x).id = req[x].id
             /\ KernelOf(x).op = "kernel" /\ KernelOf(x).chan = Chan(x)
             /\ KernelOf(x).id = req[x].id /\ KernelOf(x).req = x
      <3>1. TypeOK /\ "PREPARED" # "UNDEF"
        BY DEF Base
      <3>2. \A x \in Elems(rs) : x \in Reqs /\ status[x] # "UNDEF" /\ Chan(x) = <<req[x].peer, "TX">>
        BY <1>3, <1>5, <2>1
      <3> QED
        BY <3>1, <3>2, OpsOfType
    <2>6. \A x \in Elems(rs) : Alone(Chan(x), s)
      <3>1. \A x \in Elems(rs) : SoleStream(Tx(x), s) /\ Tx(x) = Chan(x)
        BY <1>2, <1>3, <1>5 DEF Elems, Tx
      <3> QED
        BY <3>1, SoleAlone
    <2>7. Queued(s, w, k)
      <3>1. OnStream(s, w \o k)
        BY <1>5, <2>3, <2>4
      <3>2. \A o \in Elems(w) : o.op \in {"trigger", "wait"} /\ Alone(o.chan, s)
        BY <2>3, <2>5, <2>6
      <3>3. \A o \in Elems(k) : o.op = "kernel" /\ Alone(o.chan, s)
        BY <2>4, <2>5, <2>6
      <3> QED
        BY <2>3, <3>1, <3>2, <3>3, QueuedOnStream DEF Base
    <2>8. TriggersQueued(w)
      <3>1. ASSUME NEW e \in Elems(w), e.op = "trigger"
            PROVE  /\ e.chan = <<e.chan[1], "TX">> /\ e.id > last_posted_trigger[e.chan[1]]
                   /\ \E x \in Elems(posted_list'[e.chan[1]]) : req'[x].id = e.id
        <4>1. PICK x \in Elems(rs) : e = TriggerOf(x)
          BY <2>3, <2>5, <3>1
        <4>2. e.chan = <<req[x].peer, "TX">> /\ e.chan[1] = req[x].peer /\ e.id = req[x].id
          BY <1>3, <1>5, <2>5, <4>1
        <4>3. req[x].id \in Nat /\ last_posted_trigger[req[x].peer] \in Nat
          BY <1>3, <1>5, <2>1, Types DEF Base
        <4>4. x \in Elems(posted_list'[req[x].peer]) /\ req'[x].id = req[x].id
          BY <1>3, <1>5, <2>1 DEF SameId
        <4> QED
          BY <1>3, <1>5, <4>2, <4>3, <4>4
      <3>2. ASSUME NEW q \in Peers, NEW x \in Elems(posted_list'[q]), x \notin Elems(posted_list[q])
            PROVE  \E e \in Elems(w) : e.op = "trigger" /\ e.chan[1] = q /\ e.id = req'[x].id
        <4>1. x \in Elems(rs) /\ req[x].peer = q /\ req'[x].id = req[x].id
          BY <1>3, <1>5, <2>1, <3>2 DEF SameId
        <4> QED
          BY <2>3, <2>5, <4>1
      <3> QED
        BY <3>1, <3>2 DEF TriggersQueued
    <2>9. TrackingQueued(w)
      <3> SUFFICES ASSUME NEW c \in Channels, last_posted_tracked'[c] # last_posted_tracked[c]
                   PROVE  \E o \in Elems(w) : o.op = "wait" /\ o.chan = c /\ o.id = last_posted_tracked'[c]
        BY DEF TrackingQueued
      <3>1. PICK x \in Elems(rs) : block /\ Chan(x) = c /\ req[x].id = last_posted_tracked'[c]
        BY <1>3, <1>5
      <3>2. last_posted_tracked[c] < last_posted_tracked'[c]
        <4>1. last_posted_tracked[c] \in Nat /\ last_posted_tracked'[c] \in Nat
          BY DEF Base, TypeOK
        <4> QED
          BY <1>3, <4>1
      <3>3. NeedsWait(x)
        BY <3>1, <3>2 DEF NeedsWait
      <3>4. WaitOf(x) \in Elems(w)
        BY <2>3, <3>1, <3>3
      <3>5. WaitOf(x).op = "wait" /\ WaitOf(x).chan = c /\ WaitOf(x).id = last_posted_tracked'[c]
        BY <2>5, <3>1
      <3> QED
        BY <3>4, <3>5
    <2>10. KernelsQueued(w, k)
      <3> SUFFICES ASSUME NEW o \in Elems(k)
                   PROVE  /\ o.req \in Reqs /\ o.req \in user' /\ status'[o.req] # "UNDEF"
                          /\ Chan(o.req)' = o.chan /\ req'[o.req].id = o.id
                          /\ o.req \in Elems(posted_list'[req'[o.req].peer])
                          /\ WaitIn(Elems(w), o) \/ o.id <= last_posted_tracked[o.chan]
        BY DEF KernelsQueued
      <3>1. PICK x \in Elems(rs) : block /\ o = KernelOf(x)
        BY <2>4
      <3>2. o.req = x /\ o.chan = Chan(x) /\ o.id = req[x].id
        BY <2>5, <3>1
      <3>3. /\ x \in Reqs /\ x \in user' /\ status'[x] # "UNDEF" /\ req'[x].id = req[x].id
            /\ req'[x].peer = req[x].peer /\ Chan(x)' = Chan(x)
            /\ x \in Elems(posted_list'[req[x].peer])
        BY <1>3, <1>5 DEF SameId, Chan
      <3>4. WaitIn(Elems(w), o) \/ o.id <= last_posted_tracked[o.chan]
        <4>1. CASE NeedsWait(x)
          <5>1. WaitOf(x) \in Elems(w)
            BY <2>3, <3>1, <4>1
          <5>2. req[x].id <= req[x].id
            BY <3>3, Types DEF Base
          <5> QED
            BY <2>5, <3>2, <5>1, <5>2 DEF WaitIn
        <4>2. CASE ~NeedsWait(x)
          <5>1. Chan(x) \in Channels /\ req[x].id \in Nat
            BY <2>1, InUse, Types DEF Base
          <5>2. last_posted_tracked[Chan(x)] \in Nat
            BY <5>1, Types DEF Base
          <5> QED
            BY <3>2, <4>2, <5>1, <5>2 DEF NeedsWait
        <4> QED
          BY <4>1, <4>2
      <3> QED
        BY <3>2, <3>3, <3>4
    <2> QED
      BY <2>7, <2>8, <2>9, <2>10 DEF Call
  <1> QED
    BY <1>2, <1>3, <1>4, <1>5

LEMMA WaitCall ==
    ASSUME OneStream, Base, Base', NEW R, NEW W, NEW s \in Streams, StreamWait(R, W, s)
    PROVE  /\ ListsGrow /\ UNCHANGED last_trigger
           /\ (\E w, k : Call(s, w, k)) \/ ("stream_post" \in Faults /\ UNCHANGED stream)
  <1>1. /\ R \subseteq user /\ R \subseteq Reqs /\ W \subseteq R
        /\ \A x \in R : SoleStream(Chan(x), s) /\ (InSequence => ~Unposted(x))
        /\ \A x \in R \ W : \/ status[x] = "COMPLETE" \/ ~NeedsWait(x)
                            \/ \E y \in W : Chan(y) = Chan(x) /\ req[x].id <= req[y].id
        /\ WaitsQueued(R, W, s) \/ ("stream_post" \in Faults /\ UNCHANGED stream)
        /\ UNCHANGED <<status, user, last_posted_trigger, last_trigger, posted_list>>
    BY DEF StreamWait, InSequence
  <1>2. /\ \A x \in Reqs : SameId(x)
        /\ \A c \in Channels :
              \/ last_posted_tracked'[c] = last_posted_tracked[c]
              \/ \E x \in W : Chan(x) = c /\ req[x].id = last_posted_tracked'[c]
    BY DEF StreamWait, Tracked
  <1>3. ListsGrow
    <2>1. \A p \in Peers : Elems(posted_list[p]) \subseteq Reqs /\ last_posted_trigger[p] \in Nat
      BY Types DEF Base
    <2> QED
      BY <1>1, <1>2, <2>1 DEF ListsGrow, SameId
  <1>4. ASSUME WaitsQueued(R, W, s) PROVE \E w, k : Call(s, w, k)
    <2>1. PICK w \in Seq(Op), k \in Seq(Op) :
             /\ \A o : o \in Elems(w) <=> \E x \in W : o = WaitOf(x)
             /\ \A o : o \in Elems(k) <=> \E x \in R : o = KernelOf(x)
             /\ OnStream(s, w \o k)
      BY <1>4 DEF WaitsQueued
    <2>2. \A x \in R : x \in Reqs /\ status[x] # "UNDEF"
      BY <1>1 DEF Base, Inv, Handles
    <2>3. \A x \in R :
             /\ WaitOf(x).op = "wait" /\ WaitOf(x).chan = Chan(x) /\ WaitOf(x).id = req[x].id
             /\ KernelOf(x).op = "kernel" /\ KernelOf(x).chan = Chan(x)
             /\ KernelOf(x).id = req[x].id /\ KernelOf(x).req = x
      <3>1. TypeOK
        BY DEF Base
      <3> QED
        BY <2>2, <3>1, OpsOfType
    <2>4. \A x \in R : Alone(Chan(x), s)
      BY <1>1, SoleAlone
    <2>5. \A o \in Elems(w) : o.op = "wait" /\ Alone(o.chan, s)
      BY <1>1, <2>1, <2>3, <2>4
    <2>6. \A o \in Elems(k) : o.op = "kernel" /\ Alone(o.chan, s)
      BY <2>1, <2>3, <2>4
    <2>7. TriggersAscend(w)
      <3>1. \A i \in DOMAIN w : w[i] \in Elems(w)
        BY DEF Elems
      <3> QED
        BY <2>5, <3>1 DEF TriggersAscend
    <2>8. Queued(s, w, k)
      BY <2>1, <2>5, <2>6, <2>7, QueuedOnStream DEF Base
    <2>9. TriggersQueued(w)
      BY <1>1, <2>5 DEF TriggersQueued
    <2>10. TrackingQueued(w)
      <3> SUFFICES ASSUME NEW c \in Channels, last_posted_tracked'[c] # last_posted_tracked[c]
                   PROVE  \E o \in Elems(w) : o.op = "wait" /\ o.chan = c /\ o.id = last_posted_tracked'[c]
        BY DEF TrackingQueued
      <3>1. PICK x \in W : Chan(x) = c /\ req[x].id = last_posted_tracked'[c]
        BY <1>2
      <3>2. WaitOf(x) \in Elems(w)
        BY <2>1
      <3>3. WaitOf(x).op = "wait" /\ WaitOf(x).chan = c /\ WaitOf(x).id = last_posted_tracked'[c]
        BY <1>1, <2>3, <3>1
      <3> QED
        BY <3>2, <3>3
    <2>11. KernelsQueued(w, k)
      <3> SUFFICES ASSUME NEW o \in Elems(k)
                   PROVE  /\ o.req \in Reqs /\ o.req \in user' /\ status'[o.req] # "UNDEF"
                          /\ Chan(o.req)' = o.chan /\ req'[o.req].id = o.id
                          /\ InSequence /\ status'[o.req] = "PREPARED" =>
                                o.req \in Elems(posted_list'[req'[o.req].peer])
                          /\ \/ status'[o.req] = "COMPLETE" \/ WaitIn(Elems(w), o)
                             \/ o.id <= last_posted_tracked[o.chan]
        BY DEF KernelsQueued
      <3>1. PICK x \in R : o = KernelOf(x)
        BY <2>1
      <3>2. o.req = x /\ o.chan = Chan(x) /\ o.id = req[x].id
        BY <2>3, <3>1
      <3>3. /\ x \in Reqs /\ x \in user' /\ status'[x] # "UNDEF" /\ req'[x].id = req[x].id
            /\ req'[x].peer = req[x].peer /\ Chan(x)' = Chan(x)
        BY <1>1, <1>2, <2>2 DEF SameId, Chan
      <3>4. ASSUME InSequence, status[x] = "PREPARED" PROVE x \in Elems(posted_list[req[x].peer])
        BY <1>1, <3>4 DEF Unposted, InSeq, Elems
      <3>5. Chan(x) \in Channels /\ req[x].id \in Nat /\ last_posted_tracked[Chan(x)] \in Nat
        <4>1. Chan(x) \in Channels /\ req[x].id \in Nat
          BY <2>2, InUse, Types DEF Base
        <4> QED
          BY <4>1, Types DEF Base
      <3>6. ASSUME NEW y \in W, Chan(y) = Chan(x), req[x].id <= req[y].id PROVE WaitIn(Elems(w), o)
        <4>1. WaitOf(y) \in Elems(w)
          BY <2>1
        <4>2. WaitOf(y).op = "wait" /\ WaitOf(y).chan = o.chan /\ o.id <= WaitOf(y).id
          BY <1>1, <2>3, <3>2, <3>6
        <4> QED
          BY <4>1, <4>2 DEF WaitIn
      <3>7. status[x] = "COMPLETE" \/ WaitIn(Elems(w), o) \/ o.id <= last_posted_tracked[o.chan]
        <4>1. CASE x \in W
          BY <3>5, <3>6, <4>1
        <4>2. CASE x \notin W
          BY <1>1, <3>2, <3>5, <3>6, <4>2 DEF NeedsWait
        <4> QED
          BY <4>1, <4>2
      <3> QED
        BY <1>1, <3>2, <3>3, <3>4, <3>7
    <2> QED
      BY <2>8, <2>9, <2>10, <2>11 DEF Call
  <1> QED
    BY <1>1, <1>3, <1>4

-----------------------------------------------------------------------------
(* Triggers *)

\* The trigger o is still to be written, and the send it stands for is in the list.
TriggerWaits(o) ==
    /\ o.chan = <<o.chan[1], "TX">> /\ last_trigger[o.chan[1]] < o.id
    /\ \E x \in Elems(posted_list[o.chan[1]]) : req[x].id = o.id

\* No two streams hold triggers or waits of one channel.
Apart ==
    \A s, t \in Streams : s # t =>
        \A o \in Elems(stream[s]), u \in Elems(stream[t]) :
            o.chan = u.chan => o.op = "kernel" \/ u.op = "kernel"

Triggers ==
    /\ \A s \in Streams : TriggersAscend(stream[s])
    /\ \A s \in Streams : \A o \in Elems(stream[s]) : o.op = "trigger" => TriggerWaits(o)
    /\ Apart
    /\ \A p \in Peers : last_trigger[p] <= last_posted_trigger[p]

\* Steps that leave the streams alone and take only triggered sends from the lists.
LEMMA TriggersQuiet ==
    ASSUME Base, Base', Triggers, UNCHANGED <<stream, last_trigger>>,
           \A p \in Peers : last_posted_trigger[p] <= last_posted_trigger'[p],
           \A p \in Peers : \A x \in Elems(posted_list[p]) :
              \/ x \in Elems(posted_list'[p]) /\ req'[x].id = req[x].id
              \/ req[x].id <= last_trigger[p]
    PROVE  Triggers'
  <1>1. /\ \A p \in Peers : last_trigger[p] \in Nat /\ last_posted_trigger[p] \in Nat
                            /\ Elems(posted_list[p]) \subseteq Reqs
        /\ \A x \in Reqs : req[x].id \in Nat
        /\ \A p \in Peers : last_posted_trigger'[p] \in Nat
    BY Types DEF Base, TypeOK
  <1>2. ASSUME NEW s \in Streams, NEW o \in Elems(stream[s]), o.op = "trigger"
        PROVE  TriggerWaits(o)'
    <2>1. o \in Op /\ TriggerWaits(o)
      BY <1>2, Types, SeqElem DEF Base, Triggers
    <2>2. PICK p \in Peers : p = o.chan[1]
      BY <2>1 DEF Op
    <2>3. PICK x \in Elems(posted_list[p]) : req[x].id = o.id
      BY <2>1, <2>2 DEF TriggerWaits
    <2>4. last_trigger[p] < o.id /\ o.id \in Nat
      BY <2>1, <2>2 DEF TriggerWaits, Op
    <2>5. x \in Elems(posted_list'[p]) /\ req'[x].id = o.id
      BY <1>1, <2>3, <2>4
    <2> QED
      BY <2>1, <2>2, <2>5 DEF TriggerWaits
  <1>3. Apart'
    BY DEF Triggers, Apart
  <1>4. \A p \in Peers : last_trigger[p] <= last_posted_trigger'[p]
    BY <1>1 DEF Triggers
  <1> QED
    BY <1>2, <1>3, <1>4 DEF Triggers

LEMMA TriggersCall ==
    ASSUME Base, Base', Triggers, NEW s \in Streams, NEW w, NEW k, Call(s, w, k),
           ListsGrow, UNCHANGED last_trigger
    PROVE  Triggers'
  <1>1. Queued(s, w, k) /\ TriggersQueued(w)
    BY DEF Call
  <1>2. /\ w \in Seq(Op) /\ k \in Seq(Op) /\ TriggersAscend(w) /\ stream[s] \in Seq(Op)
        /\ stream'[s] = stream[s] \o (w \o k)
        /\ \A t \in Streams : t # s => stream'[t] = stream[t]
        /\ \A o \in Elems(w) : o.op \in {"trigger", "wait"} /\ Alone(o.chan, s)
        /\ \A o \in Elems(k) : o.op = "kernel"
    BY <1>1, Types DEF Queued, Base
  <1>3. PICK v \in Seq(Op) : /\ v = w \o k /\ Elems(v) = Elems(w) \union Elems(k)
                            /\ Elems(stream'[s]) = Elems(stream[s]) \union Elems(v)
    <2>1. TypeOK
      BY DEF Base
    <2> QED
      BY <1>1, <2>1, QueuedElems
  <1>4. Elems(stream'[s]) = Elems(stream[s]) \union Elems(v)
    BY <1>3
  <1>5. ASSUME NEW p \in Peers
        PROVE  /\ last_trigger[p] \in Nat /\ last_posted_trigger[p] \in Nat
               /\ last_posted_trigger'[p] \in Nat
               /\ last_trigger[p] <= last_posted_trigger[p]
               /\ last_posted_trigger[p] <= last_posted_trigger'[p]
    BY Types DEF Base, TypeOK, Triggers, ListsGrow
  <1>6. ASSUME NEW t \in Streams, NEW o \in Elems(stream[t]), o.op = "trigger"
        PROVE  /\ TriggerWaits(o)' /\ o.id \in Nat /\ o.id <= last_posted_trigger[o.chan[1]]
    <2>1. o \in Op /\ TriggerWaits(o)
      BY <1>6, Types, SeqElem DEF Base, Triggers
    <2>2. PICK p \in Peers : p = o.chan[1]
      BY <2>1 DEF Op
    <2>3. PICK x \in Elems(posted_list[p]) : req[x].id = o.id
      BY <2>1, <2>2 DEF TriggerWaits
    <2>4. x \in Elems(posted_list'[p]) /\ req'[x].id = o.id
      BY <2>3 DEF ListsGrow
    <2>5. o.id <= last_posted_trigger[p]
      BY <2>3 DEF Base, Inv, Lists, ListOK
    <2> QED
      BY <2>1, <2>2, <2>4, <2>5 DEF TriggerWaits, Op
  <1>7. ASSUME NEW o \in Elems(v), o.op = "trigger"
        PROVE  /\ TriggerWaits(o)' /\ o.id \in Nat /\ last_posted_trigger[o.chan[1]] < o.id
    <2>1. o \in Elems(w) /\ o \in Op
      BY <1>2, <1>3, <1>7, SeqElem
    <2>2. PICK p \in Peers : p = o.chan[1]
      BY <2>1 DEF Op
    <2>3. o.id \in Nat /\ o.id > last_posted_trigger[p] /\ o.chan = <<o.chan[1], "TX">>
          /\ \E x \in Elems(posted_list'[p]) : req'[x].id = o.id
      BY <1>1, <1>7, <2>1, <2>2 DEF TriggersQueued, Op
    <2>4. last_trigger[p] < o.id
      BY <1>5, <2>3
    <2> QED
      BY <1>5, <2>2, <2>3, <2>4 DEF TriggerWaits
  <1>8. TriggersAscend(v)
    <2>1. TriggersAscend(k)
      <3>1. \A i \in DOMAIN k : k[i] \in Elems(k)
        BY DEF Elems
      <3> QED
        BY <1>2, <3>1 DEF TriggersAscend
    <2> QED
      BY <1>2, <1>3, <2>1, AscendConcat
  <1>9. TriggersAscend(stream'[s])
    <2>1. ASSUME NEW x \in Elems(stream[s]), NEW y \in Elems(v),
                 x.op = "trigger", y.op = "trigger", x.chan = y.chan
          PROVE  x.id < y.id
      <3>1. x.id \in Nat /\ x.id <= last_posted_trigger[x.chan[1]] /\ x.chan[1] \in Peers
        <4>1. x \in Op
          BY Types, SeqElem DEF Base
        <4> QED
          BY <1>6, <2>1, <4>1 DEF Op
      <3>2. y.id \in Nat /\ last_posted_trigger[x.chan[1]] < y.id
        BY <1>7, <2>1
      <3> QED
        BY <1>5, <3>1, <3>2
    <2>2. TriggersAscend(stream[s])
      BY DEF Triggers
    <2> QED
      BY <1>2, <1>3, <1>8, <2>1, <2>2, AscendConcat
  <1>10. \A t \in Streams : TriggersAscend(stream[t])'
    BY <1>2, <1>9 DEF Triggers
  <1>11. ASSUME NEW t \in Streams, NEW o \in Elems(stream'[t]), o.op = "trigger"
         PROVE  TriggerWaits(o)'
    BY <1>2, <1>4, <1>6, <1>7, <1>11
  <1>12. Apart'
    <2>1. \A o \in Elems(v) : o.op = "kernel" \/ Alone(o.chan, s)
      BY <1>2, <1>3
    <2>2. ASSUME NEW t \in Streams, t # s, NEW o \in Elems(stream'[s]), NEW u \in Elems(stream[t]),
                 o.chan = u.chan
          PROVE  o.op = "kernel" \/ u.op = "kernel"
      BY <1>4, <2>1, <2>2 DEF Triggers, Apart, Alone
    <2> QED
      BY <1>2, <2>2 DEF Triggers, Apart
  <1>13. \A p \in Peers : last_trigger[p] <= last_posted_trigger'[p]
    BY <1>5
  <1> QED
    BY <1>10, <1>11, <1>12, <1>13 DEF Triggers

LEMMA TriggersRun ==
    ASSUME Base, Base', Triggers, NEW s \in Streams, NEW op \in Op, Runs(op, s)
    PROVE  Triggers'
  <1>1. /\ stream[s] # <<>> /\ op = Head(stream[s]) /\ stream'[s] = Tail(stream[s])
        /\ \A t \in Streams : t # s => stream'[t] = stream[t]
        /\ Elems(stream[s]) = Elems(stream'[s]) \union {op}
        /\ UNCHANGED <<req, posted_list, last_posted_trigger>>
        /\ \/ /\ op.op = "trigger"
              /\ last_trigger' = [last_trigger EXCEPT ![op.chan[1]] = op.id]
           \/ op.op # "trigger" /\ UNCHANGED last_trigger
    BY DEF Runs
  <1>2. /\ \A t \in Streams : stream[t] \in Seq(Op) /\ Elems(stream[t]) \subseteq Op
        /\ \A t \in Streams : Elems(stream'[t]) \subseteq Elems(stream[t])
    <2>1. \A t \in Streams : stream[t] \in Seq(Op) /\ Elems(stream[t]) \subseteq Op
      BY Types, SeqElem DEF Base
    <2> QED
      BY <1>1, <2>1
  <1>3. \A t \in Streams : TriggersAscend(stream'[t])
    BY <1>1, <1>2, AscendTail DEF Triggers
  <1>4. Apart'
    BY SMTT(30), <1>2 DEF Triggers, Apart
  <1>5. op \in Elems(stream[s])
    BY <1>1
  <1>6. CASE op.op # "trigger"
    <2>1. last_trigger' = last_trigger
      BY <1>1, <1>6
    <2>2. \A t \in Streams : \A o \in Elems(stream'[t]) : o.op = "trigger" => TriggerWaits(o)
      BY <1>2 DEF Triggers
    <2>3. \A o : TriggerWaits(o) => TriggerWaits(o)'
      BY <1>1, <2>1 DEF TriggerWaits
    <2> QED
      BY <1>1, <1>3, <1>4, <2>1, <2>2, <2>3 DEF Triggers
  <1>7. CASE op.op = "trigger"
    <2>1. PICK p \in Peers : p = op.chan[1] /\ op.chan = <<p, "TX">>
      BY <1>5, <1>7 DEF Triggers, TriggerWaits, Op
    <2>2. /\ last_trigger'[p] = op.id /\ op.id \in Nat
          /\ \A q \in Peers : q # p => last_trigger'[q] = last_trigger[q]
      BY <1>1, <1>7, <2>1 DEF Base, TypeOK, Op
    <2>3. op.id <= last_posted_trigger[p]
      <3>1. PICK x \in Elems(posted_list[p]) : req[x].id = op.id
        BY <1>5, <1>7, <2>1 DEF Triggers, TriggerWaits
      <3> QED
        BY <3>1 DEF Base, Inv, Lists, ListOK
    <2>4. ASSUME NEW t \in Streams, NEW o \in Elems(stream'[t]), o.op = "trigger"
          PROVE  TriggerWaits(o)'
      <3>1. o \in Op /\ TriggerWaits(o)
        BY <1>2, <2>4 DEF Triggers
      <3>2. PICK q \in Peers : q = o.chan[1] /\ o.chan = <<q, "TX">>
        BY <3>1 DEF TriggerWaits, Op
      <3>3. last_trigger'[q] < o.id
        <4>1. CASE q # p
          BY <2>2, <3>1, <3>2, <4>1 DEF TriggerWaits
        <4>2. CASE q = p
          <5>1. t = s
            BY ZenonT(60), <1>2, <1>5, <1>7, <2>1, <2>4, <3>2, <4>2 DEF Triggers, Apart
          <5>2. op.id < o.id
            BY <1>1, <1>2, <1>7, <2>1, <2>4, <3>2, <4>2, <5>1, AscendTail DEF Triggers
          <5> QED
            BY <2>2, <4>2, <5>2
        <4> QED
          BY <4>1, <4>2
      <3> QED
        BY <1>1, <3>1, <3>2, <3>3 DEF TriggerWaits
    <2>5. \A q \in Peers : last_trigger'[q] <= last_posted_trigger'[q]
      BY <1>1, <2>2, <2>3 DEF Triggers
    <2> QED
      BY <1>3, <1>4, <2>4, <2>5 DEF Triggers
  <1> QED
    BY <1>6, <1>7

\* Steps that leave the streams alone: triggered sends leave the lists, and none is
\* added unless a call failed.
Quiet ==
    /\ UNCHANGED <<stream, last_trigger>>
    /\ \A p \in Peers : last_posted_trigger[p] <= last_posted_trigger'[p]
    /\ \A p \in Peers : \A x \in Elems(posted_list[p]) :
          \/ x \in Elems(posted_list'[p]) /\ req'[x].id = req[x].id
          \/ req[x].id <= last_trigger[p]
    /\ InSequence /\ Reliable =>
          /\ UNCHANGED last_posted_tracked
          /\ \A p \in Peers : \A x \in Elems(posted_list'[p]) :
                x \in Elems(posted_list[p]) /\ req'[x].id = req[x].id

LEMMA QuietSame ==
    ASSUME Base, UNCHANGED <<stream, last_trigger, last_posted_trigger, posted_list,
                             last_posted_tracked>>,
           \A x \in Reqs : status[x] \in Owned => Held(x)
    PROVE  Quiet
  <1>1. \A p \in Peers : \A x \in Elems(posted_list[p]) : req'[x].id = req[x].id
    BY AllHeld DEF Held, SameId
  <1>2. \A p \in Peers : last_posted_trigger[p] <= last_posted_trigger[p]
    BY Types DEF Base
  <1> QED
    BY <1>1, <1>2 DEF Quiet

LEMMA QuietFailed ==
    ASSUME ListsGrow, UNCHANGED <<stream, last_trigger>>, ~(InSequence /\ Reliable)
    PROVE  Quiet
  BY DEF Quiet, ListsGrow

StreamStep ==
    \/ \E s \in Streams : \E w, k : Call(s, w, k) /\ ListsGrow /\ UNCHANGED last_trigger
    \/ \E s \in Streams, op \in Op : Runs(op, s)
    \/ Quiet

LEMMA StreamSteps == ASSUME OneStream, Base, Next PROVE StreamStep
  <1>0. Base'
    BY BaseNext
  <1>1. CASE SubmitCase
    <2>1. ASSUME NEW r \in Reqs, NEW p \in Peers, NEW flow \in {"TX", "RX"},
                 NEW retry \in BOOLEAN, NEW handle \in BOOLEAN, Immediate(r, p, flow, retry, handle)
          PROVE  StreamStep
      <3>1. /\ NewRequest(r, p, flow, "PENDING_NOWAIT", FALSE)
            /\ UNCHANGED <<stream, last_trigger, last_posted_trigger, posted_list, last_posted_tracked>>
        BY <2>1 DEF Immediate
      <3>2. "PENDING_NOWAIT" \in States \ {"UNDEF"} /\ "PENDING_NOWAIT" # "PREPARED"
        BY DEF States
      <3>3. Fresh(r, p, flow, "PENDING_NOWAIT")
        BY <3>1, <3>2, NewRequestStep
      <3> QED
        BY <3>1, <3>3, QuietSame DEF Fresh, StreamStep
    <2>2. ASSUME NEW r \in Reqs, NEW p \in Peers, mp_send_prepare(r, p) PROVE StreamStep
      <3>1. Fresh(r, p, "TX", "PREPARED")
        BY <2>2, PrepareBase
      <3>2. UNCHANGED <<stream, last_trigger, last_posted_trigger, posted_list, last_posted_tracked>>
        BY <2>2 DEF mp_send_prepare
      <3> QED
        BY <3>1, <3>2, QuietSame DEF Fresh, StreamStep
    <2>3. ASSUME NEW r \in Reqs, NEW p \in Peers, NEW s \in Streams,
                 mp_send_on_stream(r, p, s) \/ mp_isend_on_stream(r, p, s)
          PROVE  StreamStep
      <3>1. /\ ListsGrow /\ UNCHANGED last_trigger
            /\ (\E w, k : Call(s, w, k)) \/ ("stream_post" \in Faults /\ UNCHANGED stream)
        BY <1>0, <2>3, SendCall, IsendCall
      <3> QED
        BY <3>1, QuietFailed DEF Reliable, StreamStep
    <2> QED
      BY <1>1, <2>1, <2>2, <2>3 DEF SubmitCase
  <1>2. CASE StreamCase
    <2>1. ASSUME NEW s \in Streams, NEW a \in Reqs, NEW b \in Reqs, NEW block \in BOOLEAN, NEW rs,
                 NEW call, OneOrTwo(rs, a, b), PostBatch(call, rs, s, block)
          PROVE  StreamStep
      <3>1. /\ ListsGrow /\ UNCHANGED last_trigger
            /\ \/ \E w, k : Call(s, w, k)
               \/ UNCHANGED stream /\ (InSequence => "stream_post" \in Faults)
        BY <1>0, <2>1, BatchCall
      <3> QED
        BY <3>1, QuietFailed DEF Reliable, StreamStep
    <2>2. ASSUME NEW s \in Streams, NEW R, NEW W, StreamWait(R, W, s) PROVE StreamStep
      <3>1. /\ ListsGrow /\ UNCHANGED last_trigger
            /\ (\E w, k : Call(s, w, k)) \/ ("stream_post" \in Faults /\ UNCHANGED stream)
        BY <1>0, <2>2, WaitCall
      <3> QED
        BY <3>1, QuietFailed DEF Reliable, StreamStep
    <2>3. CASE Abort
      <3>1. UNCHANGED <<status, req, stream, last_trigger, last_posted_trigger, posted_list,
                        last_posted_tracked>>
        BY <2>3 DEF Abort, client
      <3>2. \A x \in Reqs : Held(x)
        BY <3>1 DEF Held, SameId
      <3> QED
        BY <3>1, <3>2, QuietSame DEF StreamStep
    <2> QED
      BY <1>2, <2>1, <2>2, <2>3 DEF StreamCase
  <1>3. CASE CpuCase
    <2>1. CASE PostGiveUp \/ WaitGpuError \/ PostRetry
      <3>1. UNCHANGED <<status, req, stream, last_trigger, last_posted_trigger, posted_list,
                        last_posted_tracked>>
        BY <2>1 DEF PostGiveUp, WaitGpuError, PostRetry, client
      <3>2. \A x \in Reqs : Held(x)
        BY <3>1 DEF Held, SameId
      <3> QED
        BY <3>1, <3>2, QuietSame DEF StreamStep
    <2>2. CASE WaitReturn
      <3>1. /\ UNCHANGED <<stream, last_trigger, last_posted_trigger, posted_list, last_posted_tracked>>
            /\ \A x \in waited : status[x] = "COMPLETE"
            /\ \A x \in Reqs : x \notin waited => status'[x] = status[x] /\ req'[x] = req[x]
        BY <2>2 DEF WaitReturn, client
      <3>2. \A x \in Reqs : status[x] \in Owned => Held(x)
        BY <3>1 DEF Held, SameId, Owned, Busy
      <3> QED
        BY <3>1, <3>2, QuietSame DEF StreamStep
    <2>3. ASSUME NEW rs, WaitAll(rs) PROVE StreamStep
      <3>1. /\ UNCHANGED <<req, stream, last_trigger, last_posted_trigger, posted_list, last_posted_tracked>>
            /\ \A x \in Reqs : \/ status'[x] = status[x]
                               \/ status[x] = "PENDING_NOWAIT" /\ status'[x] = "PENDING"
        BY <2>3 DEF WaitAll, client
      <3>2. \A x \in Reqs : Held(x)
        BY <3>1 DEF Held, SameId, Busy
      <3> QED
        BY <3>1, <3>2, QuietSame DEF StreamStep
    <2> QED
      BY <1>3, <2>1, <2>2, <2>3 DEF CpuCase
  <1>4. CASE ProgressCase
    <2>1. ASSUME NEW r \in Reqs, NEW p \in Peers, ListPosted(r, p) PROVE StreamStep
      <3>1. /\ UNCHANGED <<req, stream, last_trigger, last_posted_trigger, last_posted_tracked>>
            /\ req[r].id <= last_trigger[p]
            /\ \A q \in Peers : q # p => posted_list'[q] = posted_list[q]
            /\ Elems(posted_list[p]) = Elems(posted_list'[p]) \union {r}
        BY <2>1 DEF ListPosted
      <3>2. \A q \in Peers : last_posted_trigger[q] <= last_posted_trigger[q]
        BY Types DEF Base
      <3> QED
        BY <3>1, <3>2 DEF Quiet, StreamStep
    <2>2. ASSUME NEW r \in Reqs, NEW c \in Channels, Polled(r, c) PROVE StreamStep
      <3>1. UNCHANGED <<req, stream, last_trigger, last_posted_trigger, posted_list, last_posted_tracked>>
        BY <2>2 DEF Polled
      <3>2. \A q \in Peers : last_posted_trigger[q] <= last_posted_trigger[q]
        BY Types DEF Base
      <3> QED
        BY <3>1, <3>2 DEF Quiet, StreamStep
    <2>3. ASSUME NEW r \in Reqs, NEW c \in Channels, Executes(r, c) PROVE StreamStep
      <3>1. UNCHANGED <<status, req, stream, last_trigger, last_posted_trigger, posted_list,
                        last_posted_tracked>>
        BY <2>3 DEF Executes, client
      <3>2. \A x \in Reqs : Held(x)
        BY <3>1 DEF Held, SameId
      <3> QED
        BY <3>1, <3>2, QuietSame DEF StreamStep
    <2> QED
      BY <1>4, <2>1, <2>2, <2>3 DEF ProgressCase, StreamStep
  <1> QED
    BY <1>1, <1>2, <1>3, <1>4, StepCases

LEMMA TriggersInit == ASSUME Init PROVE Triggers
  <1>1. /\ stream = [s \in Streams |-> <<>>] /\ last_trigger = [p \in Peers |-> 0]
        /\ last_posted_trigger = [p \in Peers |-> 0]
    BY DEF Init
  <1>2. Elems(<<>>) = {} /\ TriggersAscend(<<>>)
    BY SeqNone DEF TriggersAscend
  <1> QED
    BY <1>1, <1>2 DEF Triggers, Apart

LEMMA TriggersUnchanged == ASSUME Triggers, UNCHANGED vars PROVE Triggers'
  BY DEF vars, client, Triggers, TriggerWaits, Apart

LEMMA TriggersNext == ASSUME OneStream, Base, Triggers, Next PROVE Triggers'
  BY BaseNext, StreamSteps, TriggersCall, TriggersRun, TriggersQuiet DEF StreamStep, Quiet

\* Sends held back for a stream are not posted before the stream reached them,
\* whatever else is mixed in, misordered or fails, when the application keeps a
\* channel on one stream at a time (progress_posted_list, mp.c:319-374).
THEOREM NotEarly == ASSUME OneStream PROVE Spec => []SendNotEarly
  <1>1. Init => Base /\ Triggers
    BY BaseInit, TriggersInit
  <1>2. Base /\ Triggers /\ [Next]_vars => (Base /\ Triggers)'
    BY BaseNext, BaseUnchanged, TriggersNext, TriggersUnchanged
  <1>3. Base /\ Triggers => SendNotEarly
    <2> SUFFICES ASSUME Base, Triggers, NEW s \in Streams, NEW i \in DOMAIN stream[s],
                        stream[s][i].op = "trigger"
                 PROVE  LET p == stream[s][i].chan[1]
                        IN  \E j \in DOMAIN posted_list[p] :
                               req[posted_list[p][j]].id = stream[s][i].id
      BY DEF SendNotEarly
    <2>1. PICK o \in Elems(stream[s]) : o = stream[s][i]
      BY DEF Elems
    <2>2. PICK x \in Elems(posted_list[o.chan[1]]) : req[x].id = o.id
      BY <2>1 DEF Triggers, TriggerWaits
    <2> QED
      BY <2>1, <2>2 DEF Elems
  <1> QED
    BY <1>1, <1>2, <1>3, PTL DEF Spec

\* A trigger with id n or a later one was written, or is on a stream.
Coming(p, n) ==
    \/ n <= last_trigger[p]
    \/ \E s \in Streams : \E o \in Elems(stream[s]) :
          o.op = "trigger" /\ o.chan[1] = p /\ n <= o.id

AllComing == \A p \in Peers : \A x \in Elems(posted_list[p]) : Coming(p, req[x].id)

LEMMA ComingCall ==
    ASSUME Base, Base', AllComing, NEW s \in Streams, NEW w, NEW k, Call(s, w, k),
           ListsGrow, UNCHANGED last_trigger
    PROVE  AllComing'
  <1>1. Queued(s, w, k) /\ TriggersQueued(w)
    BY DEF Call
  <1>2. /\ w \in Seq(Op) /\ k \in Seq(Op) /\ stream[s] \in Seq(Op)
        /\ stream'[s] = stream[s] \o (w \o k)
        /\ \A t \in Streams : t # s => stream'[t] = stream[t]
    BY <1>1, Types DEF Queued, Base
  <1>3. PICK v \in Seq(Op) : /\ v = w \o k /\ Elems(v) = Elems(w) \union Elems(k)
                            /\ Elems(stream'[s]) = Elems(stream[s]) \union Elems(v)
    <2>1. TypeOK
      BY DEF Base
    <2> QED
      BY <1>1, <2>1, QueuedElems
  <1>4. Elems(stream'[s]) = Elems(stream[s]) \union Elems(v)
    BY <1>3
  <1>5. \A p \in Peers, n \in Nat : Coming(p, n) => Coming(p, n)'
    BY <1>2, <1>4 DEF Coming
  <1> SUFFICES ASSUME NEW p \in Peers, NEW x \in Elems(posted_list'[p])
               PROVE  Coming(p, req[x].id)'
    BY DEF AllComing
  <1>6. PICK n \in Nat : n = req'[x].id
    BY SeqElem DEF Base, TypeOK
  <1>7. CASE x \in Elems(posted_list[p])
    <2>1. n = req[x].id
      BY <1>6, <1>7 DEF ListsGrow
    <2>2. Coming(p, n)
      BY <1>7, <2>1 DEF AllComing
    <2>3. Coming(p, n)'
      BY <1>5, <2>2
    <2> QED
      BY <1>6, <2>3 DEF Coming
  <1>8. CASE x \notin Elems(posted_list[p])
    <2>1. PICK o \in Elems(w) : o.op = "trigger" /\ o.chan[1] = p /\ o.id = n
      BY <1>1, <1>6, <1>8 DEF TriggersQueued
    <2> QED
      BY <1>3, <1>4, <1>6, <2>1 DEF Coming
  <1> QED
    BY <1>7, <1>8

LEMMA ComingRun ==
    ASSUME Base, Triggers, AllComing, NEW s \in Streams, NEW op \in Op, Runs(op, s)
    PROVE  AllComing'
  <1>1. /\ \A t \in Streams : t # s => stream'[t] = stream[t]
        /\ Elems(stream[s]) = Elems(stream'[s]) \union {op}
        /\ UNCHANGED <<req, posted_list>>
        /\ \/ /\ op.op = "trigger"
              /\ last_trigger' = [last_trigger EXCEPT ![op.chan[1]] = op.id]
           \/ op.op # "trigger" /\ UNCHANGED last_trigger
    BY DEF Runs
  <1>2. last_trigger \in [Peers -> Nat] /\ \A x \in Reqs : req[x].id \in Nat
    BY Types DEF Base, TypeOK
  <1>3. op.op = "trigger" => op.id \in Nat /\ op.chan[1] \in Peers /\ last_trigger[op.chan[1]] < op.id
    <2>1. op \in Elems(stream[s])
      BY <1>1
    <2> QED
      BY <2>1 DEF Triggers, TriggerWaits, Op
  <1>4. ASSUME NEW p \in Peers, NEW n \in Nat, Coming(p, n) PROVE Coming(p, n)'
    <2>1. last_trigger[p] <= last_trigger'[p] /\ last_trigger[p] \in Nat /\ last_trigger'[p] \in Nat
      <3>1. CASE op.op = "trigger"
        BY <1>1, <1>2, <1>3, <3>1
      <3>2. CASE op.op # "trigger"
        BY <1>1, <1>2, <3>2
      <3> QED
        BY <3>1, <3>2
    <2>2. CASE n <= last_trigger[p]
      BY <2>1, <2>2 DEF Coming
    <2>3. ASSUME NEW t \in Streams, NEW o \in Elems(stream[t]),
                 o.op = "trigger", o.chan[1] = p, n <= o.id
          PROVE  Coming(p, n)'
      <3>1. CASE t = s /\ o = op
        <4>1. last_trigger'[p] = op.id
          BY <1>1, <1>2, <2>3, <3>1
        <4> QED
          BY <2>3, <3>1, <4>1 DEF Coming
      <3>2. CASE ~(t = s /\ o = op)
        <4>1. o \in Elems(stream'[t])
          BY <1>1, <3>2
        <4> QED
          BY <2>3, <4>1 DEF Coming
      <3> QED
        BY <3>1, <3>2
    <2> QED
      BY <1>4, <2>2, <2>3 DEF Coming
  <1> SUFFICES ASSUME NEW p \in Peers, NEW x \in Elems(posted_list'[p])
               PROVE  Coming(p, req[x].id)'
    BY DEF AllComing
  <1>5. PICK n \in Nat : n = req[x].id
    <2>1. x \in Reqs
      BY <1>1, Types DEF Base
    <2> QED
      BY <1>2, <2>1
  <1>6. Coming(p, n)
    BY <1>1, <1>5 DEF AllComing
  <1>7. Coming(p, n)'
    BY <1>4, <1>6
  <1> QED
    BY <1>1, <1>5, <1>7 DEF Coming

LEMMA ComingQuiet ==
    ASSUME AllComing, UNCHANGED <<stream, last_trigger>>,
           \A p \in Peers : \A x \in Elems(posted_list'[p]) :
              x \in Elems(posted_list[p]) /\ req'[x].id = req[x].id
    PROVE  AllComing'
  BY DEF AllComing, Coming

LEMMA ComingNext ==
    ASSUME OneStream, InSequence, Reliable, Base, Triggers, AllComing, Next
    PROVE  AllComing'
  BY BaseNext, StreamSteps, ComingCall, ComingRun, ComingQuiet DEF StreamStep, Quiet

\* Polling alone posts every send of the list: none is left without its trigger, when
\* no call fails to queue one, sends are posted in the order they were prepared, and
\* a channel stays on one stream at a time.
THEOREM AllTriggered ==
    ASSUME OneStream, InSequence, Reliable
    PROVE  Spec => []TrackedIsTriggered
  <1>1. Init => Base /\ Triggers /\ AllComing
    <2>1. Init => AllComing
      <3> SUFFICES ASSUME Init PROVE AllComing
        OBVIOUS
      <3>1. posted_list = [p \in Peers |-> <<>>]
        BY DEF Init
      <3> QED
        BY <3>1, SeqNone DEF AllComing
    <2> QED
      BY <2>1, BaseInit, TriggersInit
  <1>2. Base /\ Triggers /\ AllComing /\ [Next]_vars => (Base /\ Triggers /\ AllComing)'
    <2>1. ASSUME AllComing, UNCHANGED vars PROVE AllComing'
      BY <2>1 DEF vars, client, AllComing, Coming
    <2> QED
      BY <2>1, BaseNext, BaseUnchanged, TriggersNext, TriggersUnchanged, ComingNext
  <1>3. Base /\ AllComing => TrackedIsTriggered
    <2> SUFFICES ASSUME Base, AllComing, NEW p \in Peers, NEW i \in DOMAIN posted_list[p]
                 PROVE  LET id == req[posted_list[p][i]].id
                        IN  \/ last_trigger[p] >= id
                            \/ \E s \in Streams : \E j \in DOMAIN stream[s] :
                                  /\ stream[s][j].op = "trigger" /\ stream[s][j].chan[1] = p
                                  /\ stream[s][j].id >= id
      BY DEF TrackedIsTriggered
    <2>1. PICK x \in Elems(posted_list[p]) : x = posted_list[p][i]
      BY DEF Elems
    <2>2. PICK n \in Nat : n = req[x].id
      <3>1. x \in Reqs
        BY Types DEF Base
      <3> QED
        BY <3>1, Types DEF Base
    <2>3. CASE n <= last_trigger[p]
      BY <2>1, <2>2, <2>3
    <2>4. ASSUME NEW s \in Streams, NEW o \in Elems(stream[s]),
                 o.op = "trigger", o.chan[1] = p, n <= o.id
          PROVE  \E j \in DOMAIN stream[s] :
                    /\ stream[s][j].op = "trigger" /\ stream[s][j].chan[1] = p
                    /\ stream[s][j].id >= n
      <3>1. PICK j \in DOMAIN stream[s] : o = stream[s][j]
        BY DEF Elems
      <3> QED
        BY <2>4, <3>1
    <2>5. Coming(p, n)
      BY <2>2 DEF AllComing
    <2> QED
      BY <2>1, <2>2, <2>3, <2>4, <2>5 DEF Coming
  <1> QED
    BY <1>1, <1>2, <1>3, PTL DEF Spec

-----------------------------------------------------------------------------
(* What a step may do to a request *)

\* A request in use keeps its channel and id until it is released.
Keeps(r) ==
    /\ status[r] # "UNDEF" /\ status'[r] # "UNDEF" => SameId(r)
    /\ status[r] = "UNDEF" /\ status'[r] # "UNDEF" => req'[r].id > last_req_id[req'[r].peer]
    /\ status[r] = "COMPLETE" => status'[r] \in {"COMPLETE", "UNDEF"}
    /\ status[r] \notin {"PREPARED", "UNDEF"} => status'[r] # "PREPARED"

\* An executed one stays that, and one that is posted is not lost.
Advances(r) ==
    \A c \in Channels :
        /\ r \in Elems(cq[c]) => r \in Elems(cq'[c]) \/ status'[r] \in {"COMPLETE", "UNDEF"}
        /\ r \in Elems(wq[c]) => r \in Elems(wq'[c]) \/ r \in Elems(cq'[c])

\* A send in the list stays there until it is posted.
StaysListed(r) ==
    \A p \in Peers : r \in Elems(posted_list[p]) /\ status'[r] = "PREPARED" =>
        r \in Elems(posted_list'[p])

\* The application holds no handle of a request that was not posted.
HandlePosted(r) ==
    r \in user' /\ status'[r] \in Busy =>
        \/ r \in user /\ status[r] \in Busy
        \/ r \in Elems(wq'[Chan(r)'])

Moves(r) ==
    /\ Keeps(r) /\ Advances(r) /\ StaysListed(r) /\ HandlePosted(r)
    /\ r \in user => r \in user' \/ status'[r] = "UNDEF"

Later ==
    /\ \A c \in Channels : last_tracked[c] <= last_tracked'[c]
    /\ \A p \in Peers : last_req_id[p] <= last_req_id'[p]

\* Steps that change no queue and no status, but perhaps from one pending state to
\* the other.
LEMMA MovesQuiet ==
    ASSUME Base, UNCHANGED <<wq, cq, user, last_tracked, last_req_id>>,
           \A x \in Reqs : SameId(x),
           \A x \in Reqs : \/ status'[x] = status[x]
                           \/ status[x] \in Busy /\ status'[x] \in Busy,
           \A p \in Peers : Elems(posted_list[p]) \subseteq Elems(posted_list'[p])
    PROVE  (\A r \in Reqs : Moves(r)) /\ Later
  <1>1. Later
    BY Types DEF Later, Base
  <1>2. ASSUME NEW r \in Reqs PROVE Moves(r)
    <2>1. Keeps(r)
      BY DEF Keeps, Busy
    <2>2. Advances(r) /\ StaysListed(r)
      BY DEF Advances, StaysListed
    <2>3. HandlePosted(r)
      BY DEF HandlePosted
    <2> QED
      BY <2>1, <2>2, <2>3 DEF Moves
  <1> QED
    BY <1>1, <1>2

\* A request is created.
LEMMA MovesFresh ==
    ASSUME Base, NEW r \in Reqs, NEW p \in Peers, NEW flow \in {"TX", "RX"},
           NEW state \in {"PREPARED", "PENDING_NOWAIT"}, Fresh(r, p, flow, state),
           UNCHANGED <<cq, last_tracked>>,
           \A q \in Peers : Elems(posted_list[q]) \subseteq Elems(posted_list'[q]),
           \/ UNCHANGED wq /\ (user' = user \/ (state = "PREPARED" /\ user' = user \union {r}))
           \/ /\ wq' = [wq EXCEPT ![<<p, flow>>] = Append(@, r)]
              /\ user' \in {user, user \union {r}}
    PROVE  (\A x \in Reqs : Moves(x)) /\ Later
  <1>1. /\ status[r] = "UNDEF" /\ status'[r] = state /\ Chan(r)' = <<p, flow>>
        /\ req'[r].id = last_req_id[p] + 1 /\ req'[r].peer = p
        /\ \A x \in Reqs : x # r => status'[x] = status[x] /\ req'[x] = req[x]
        /\ \A q \in Peers : r \notin Elems(posted_list[q])
        /\ \A c \in Channels : r \notin Elems(wq[c]) /\ r \notin Elems(cq[c])
        /\ r \notin user
        /\ \A q \in Peers : last_req_id[q] <= last_req_id'[q]
    BY DEF Fresh
  <1>2. PICK c \in Channels : c = <<p, flow>>
    BY Types DEF Base
  <1>3. Later
    BY <1>1, Types DEF Later, Base
  <1>4. Elems(Append(wq[c], r)) = Elems(wq[c]) \union {r} /\ wq \in [Channels -> Seq(Reqs)]
    BY Types, ElemsAppend DEF Base, TypeOK
  <1>5. \A d \in Channels : Elems(wq[d]) \subseteq Elems(wq'[d])
    <2>1. CASE wq' = wq
      BY <2>1
    <2>2. CASE wq' = [wq EXCEPT ![c] = Append(@, r)]
      BY <1>4, <2>2
    <2> QED
      BY <1>2, <2>1, <2>2
  <1>6. r \in user' /\ state \in Busy => r \in Elems(wq'[c])
    <2>1. CASE wq' = [wq EXCEPT ![c] = Append(@, r)]
      BY <1>4, <2>1
    <2>2. CASE wq' = wq /\ (user' = user \/ (state = "PREPARED" /\ user' = user \union {r}))
      BY <1>1, <2>2 DEF Busy
    <2> QED
      BY <1>2, <2>1, <2>2
  <1>7. Moves(r)
    <2>1. Keeps(r)
      <3>1. req'[r].id > last_req_id[req'[r].peer]
        BY <1>1, Types DEF Base
      <3> QED
        BY <1>1, <3>1 DEF Keeps
    <2>2. Advances(r) /\ StaysListed(r)
      BY <1>1 DEF Advances, StaysListed
    <2>3. HandlePosted(r)
      BY <1>1, <1>2, <1>6 DEF HandlePosted
    <2> QED
      BY <1>1, <2>1, <2>2, <2>3 DEF Moves
  <1>8. ASSUME NEW x \in Reqs, x # r PROVE Moves(x)
    <2>1. status'[x] = status[x] /\ SameId(x) /\ (x \in user' <=> x \in user)
      BY <1>1, <1>8 DEF SameId
    <2>2. Keeps(x)
      BY <2>1 DEF Keeps
    <2>3. Advances(x) /\ StaysListed(x)
      BY <1>5 DEF Advances, StaysListed
    <2>4. HandlePosted(x)
      BY <2>1 DEF HandlePosted
    <2> QED
      BY <2>1, <2>2, <2>3, <2>4 DEF Moves
  <1> QED
    BY <1>3, <1>7, <1>8

\* A work request is posted.
LEMMA MovesPost ==
    ASSUME Base, NEW r \in Reqs, NEW c \in Channels, Chan(r) = c, status[r] \in Owned,
           status'[r] \in Busy,
           \A x \in Reqs : x # r => status'[x] = status[x],
           wq'[c] = Append(wq[c], r), \A d \in Channels : d # c => wq'[d] = wq[d],
           user' \in {user, user \union {r}}, UNCHANGED <<req, cq, last_tracked, last_req_id>>,
           \A p \in Peers : \A x \in Elems(posted_list[p]) : x # r => x \in Elems(posted_list'[p])
    PROVE  (\A x \in Reqs : Moves(x)) /\ Later
  <1>1. Later
    BY Types DEF Later, Base
  <1>2. Elems(wq'[c]) = Elems(wq[c]) \union {r}
    BY Types, ElemsAppend DEF Base
  <1>3. Chan(r)' = c
    BY DEF Chan
  <1>4. \A x \in Reqs : SameId(x) /\ Advances(x)
    BY <1>2 DEF Advances, SameId
  <1>5. Moves(r)
    <2>1. Keeps(r) /\ StaysListed(r)
      BY <1>4 DEF Keeps, StaysListed, Owned, Busy
    <2>2. HandlePosted(r)
      BY <1>2, <1>3 DEF HandlePosted
    <2> QED
      BY <1>4, <2>1, <2>2 DEF Moves
  <1>6. ASSUME NEW x \in Reqs, x # r PROVE Moves(x)
    <2>1. status'[x] = status[x] /\ (x \in user' <=> x \in user)
      BY <1>6
    <2>2. Keeps(x) /\ StaysListed(x)
      BY <1>4, <1>6, <2>1 DEF Keeps, StaysListed
    <2>3. HandlePosted(x)
      BY <2>1 DEF HandlePosted
    <2> QED
      BY <1>4, <2>1, <2>2, <2>3 DEF Moves
  <1> QED
    BY <1>1, <1>5, <1>6

LEMMA MovesExecutes ==
    ASSUME Base, NEW r \in Reqs, NEW c \in Channels, Executes(r, c)
    PROVE  (\A x \in Reqs : Moves(x)) /\ Later
  <1>1. /\ \A d \in Channels : d # c => wq'[d] = wq[d] /\ cq'[d] = cq[d]
        /\ Elems(wq[c]) = Elems(wq'[c]) \union {r} /\ Elems(cq'[c]) = Elems(cq[c]) \union {r}
        /\ UNCHANGED <<status, req, user, last_tracked, last_req_id, posted_list>>
    BY DEF Executes, client
  <1>2. Later
    BY <1>1, Types DEF Later, Base
  <1>3. ASSUME NEW x \in Reqs PROVE Moves(x)
    <2>1. Keeps(x) /\ StaysListed(x) /\ HandlePosted(x)
      BY <1>1 DEF Keeps, StaysListed, HandlePosted, SameId
    <2>2. Advances(x)
      BY <1>1 DEF Advances
    <2> QED
      BY <1>1, <2>1, <2>2 DEF Moves
  <1> QED
    BY <1>2, <1>3

LEMMA MovesPolled ==
    ASSUME Base, Base', Order, NEW r \in Reqs, NEW c \in Channels, Polled(r, c)
    PROVE  (\A x \in Reqs : Moves(x)) /\ Later
  <1>1. /\ r \in Elems(cq[c]) /\ status[r] \in Busy /\ Chan(r) = c
        /\ \A d \in Channels : d # c => cq'[d] = cq[d]
        /\ Elems(cq[c]) = Elems(cq'[c]) \union {r}
        /\ UNCHANGED <<req, user, last_req_id, posted_list, wq>>
    BY DEF Polled
  <1>2. /\ status' = [status EXCEPT ![r] = "COMPLETE"] /\ status \in [Reqs -> States]
        /\ last_tracked' = IF req[r].trigger THEN [last_tracked EXCEPT ![c] = req[r].id]
                           ELSE last_tracked
    BY PolledOrder DEF Base, TypeOK
  <1>3. status'[r] = "COMPLETE" /\ \A x \in Reqs : x # r => status'[x] = status[x]
    BY <1>2
  <1>4. Later
    <2>1. last_tracked[c] < req[r].id /\ req[r].id \in Nat /\ last_tracked \in [Channels -> Nat]
      BY <1>1, Types DEF Base, TypeOK, Order, OrderOK
    <2>2. \A d \in Channels : last_tracked[d] <= last_tracked'[d]
      <3>1. CASE req[r].trigger
        BY <1>2, <2>1, <3>1
      <3>2. CASE ~req[r].trigger
        BY <1>2, <2>1, <3>2
      <3> QED
        BY <3>1, <3>2
    <2> QED
      BY <1>1, <2>2, Types DEF Later, Base
  <1>5. ASSUME NEW x \in Reqs PROVE Moves(x)
    <2>1. Keeps(x) /\ StaysListed(x)
      BY <1>1, <1>3 DEF Keeps, StaysListed, SameId, Busy
    <2>2. HandlePosted(x)
      BY <1>1, <1>3 DEF HandlePosted, Busy
    <2>3. Advances(x)
      BY <1>1, <1>3 DEF Advances
    <2> QED
      BY <1>1, <2>1, <2>2, <2>3 DEF Moves
  <1> QED
    BY <1>4, <1>5

LEMMA MovesReturn == ASSUME Base, WaitReturn PROVE (\A r \in Reqs : Moves(r)) /\ Later
  <1>1. /\ UNCHANGED <<wq, cq, last_tracked, last_req_id, posted_list>>
        /\ user' = user \ waited /\ \A x \in waited : status[x] = "COMPLETE"
        /\ \A x \in Reqs : x \in waited => status'[x] = "UNDEF"
        /\ \A x \in Reqs : x \notin waited => status'[x] = status[x] /\ req'[x] = req[x]
    BY DEF WaitReturn, client
  <1>2. Later
    BY <1>1, Types DEF Later, Base
  <1>3. ASSUME NEW r \in Reqs PROVE Moves(r)
    <2>1. CASE r \in waited
      BY <1>1, <2>1 DEF Moves, Keeps, Advances, StaysListed, HandlePosted, Busy
    <2>2. CASE r \notin waited
      BY <1>1, <2>2 DEF Moves, Keeps, Advances, StaysListed, HandlePosted, SameId
    <2> QED
      BY <2>1, <2>2
  <1> QED
    BY <1>2, <1>3

LEMMA AppendGrows ==
    ASSUME TypeOK, NEW r \in Reqs, NEW p \in Peers,
           posted_list' = [posted_list EXCEPT ![p] = Append(@, r)]
    PROVE  \A q \in Peers : Elems(posted_list[q]) \subseteq Elems(posted_list'[q])
  <1>1. posted_list \in [Peers -> Seq(Reqs)]
    BY DEF TypeOK
  <1>2. Elems(Append(posted_list[p], r)) = Elems(posted_list[p]) \union {r}
    BY <1>1, ElemsAppend
  <1> QED
    BY <1>1, <1>2

LEMMA MovesSubmit ==
    ASSUME Base, SubmitCase
    PROVE  (\A r \in Reqs : Moves(r)) /\ Later
  <1>1. ASSUME NEW r \in Reqs, NEW p \in Peers, NEW flow \in {"TX", "RX"},
               NEW retry \in BOOLEAN, NEW handle \in BOOLEAN, Immediate(r, p, flow, retry, handle)
        PROVE  (\A x \in Reqs : Moves(x)) /\ Later
    <2>1. /\ NewRequest(r, p, flow, "PENDING_NOWAIT", FALSE)
          /\ UNCHANGED <<cq, last_tracked, posted_list>>
          /\ \/ UNCHANGED wq /\ user' = user
             \/ /\ wq' = [wq EXCEPT ![<<p, flow>>] = Append(@, r)]
                /\ user' \in {user, user \union {r}}
      BY <1>1 DEF Immediate
    <2>2. "PENDING_NOWAIT" \in States \ {"UNDEF"} /\ "PENDING_NOWAIT" # "PREPARED"
      BY DEF States
    <2>3. Fresh(r, p, flow, "PENDING_NOWAIT")
      BY <2>1, <2>2, NewRequestStep
    <2>4. PICK state \in {"PREPARED", "PENDING_NOWAIT"} : Fresh(r, p, flow, state)
      BY <2>3
    <2>5. \A q \in Peers : Elems(posted_list[q]) \subseteq Elems(posted_list'[q])
      BY <2>1
    <2>6. CASE UNCHANGED wq /\ user' = user
      BY <2>1, <2>4, <2>5, <2>6, MovesFresh
    <2>7. CASE /\ wq' = [wq EXCEPT ![<<p, flow>>] = Append(@, r)]
               /\ user' \in {user, user \union {r}}
      BY <2>1, <2>4, <2>5, <2>7, MovesFresh
    <2> QED
      BY <2>1, <2>6, <2>7
  <1>2. ASSUME NEW r \in Reqs, NEW p \in Peers, Fresh(r, p, "TX", "PREPARED"),
               UNCHANGED <<wq, cq, last_tracked>>, user' \in {user, user \union {r}},
               \/ UNCHANGED posted_list
               \/ posted_list' = [posted_list EXCEPT ![p] = Append(@, r)]
        PROVE  (\A x \in Reqs : Moves(x)) /\ Later
    <2>1. \A q \in Peers : Elems(posted_list[q]) \subseteq Elems(posted_list'[q])
      BY <1>2, AppendGrows DEF Base
    <2>2. "PREPARED" \in {"PREPARED", "PENDING_NOWAIT"} /\ "TX" \in {"TX", "RX"}
      OBVIOUS
    <2> QED
      BY <1>2, <2>1, <2>2, MovesFresh
  <1>3. ASSUME NEW r \in Reqs, NEW p \in Peers, mp_send_prepare(r, p)
        PROVE  (\A x \in Reqs : Moves(x)) /\ Later
    <2>1. Fresh(r, p, "TX", "PREPARED")
      BY <1>3, PrepareBase
    <2>2. UNCHANGED <<wq, cq, last_tracked, posted_list>> /\ user' \in {user, user \union {r}}
      BY <1>3 DEF mp_send_prepare
    <2> QED
      BY <1>2, <2>1, <2>2
  <1>4. ASSUME NEW r \in Reqs, NEW p \in Peers, NEW s \in Streams, mp_send_on_stream(r, p, s)
        PROVE  (\A x \in Reqs : Moves(x)) /\ Later
    <2>1. Fresh(r, p, "TX", "PREPARED")
      BY <1>4, SendOnStreamBase
    <2>2. /\ UNCHANGED <<wq, cq, last_tracked>> /\ user' \in {user, user \union {r}}
          /\ posted_list' = [posted_list EXCEPT ![p] = Append(@, r)]
      BY <1>4 DEF mp_send_on_stream
    <2> QED
      BY <1>2, <2>1, <2>2
  <1>5. ASSUME NEW r \in Reqs, NEW p \in Peers, NEW s \in Streams, mp_isend_on_stream(r, p, s)
        PROVE  (\A x \in Reqs : Moves(x)) /\ Later
    <2>1. Fresh(r, p, "TX", "PREPARED")
      BY <1>5, IsendOnStreamBase
    <2>2. /\ UNCHANGED <<wq, cq, last_tracked>> /\ user' \in {user, user \union {r}}
          /\ \/ UNCHANGED posted_list
             \/ posted_list' = [posted_list EXCEPT ![p] = Append(@, r)]
      BY <1>5 DEF mp_isend_on_stream
    <2> QED
      BY <1>2, <2>1, <2>2
  <1> QED
    BY <1>1, <1>3, <1>4, <1>5 DEF SubmitCase

LEMMA MovesStream ==
    ASSUME Base, StreamCase
    PROVE  (\A r \in Reqs : Moves(r)) /\ Later
  <1>1. ASSUME NEW s \in Streams, NEW a \in Reqs, NEW b \in Reqs, NEW block \in BOOLEAN, NEW rs,
               NEW call, OneOrTwo(rs, a, b), PostBatch(call, rs, s, block)
        PROVE  (\A r \in Reqs : Moves(r)) /\ Later
    <2>1. PICK acc : Batched(acc, block)
      BY <1>1, PostBatchStep
    <2>2. /\ UNCHANGED <<status, wq, cq, user, last_tracked, last_req_id>>
          /\ \A x \in Reqs : SameId(x)
          /\ \A p \in Peers : Elems(posted_list[p]) \subseteq Elems(posted_list'[p])
      BY <2>1 DEF Batched
    <2> QED
      BY <2>2, MovesQuiet
  <1>2. ASSUME NEW s \in Streams, NEW R, NEW W, StreamWait(R, W, s)
        PROVE  (\A r \in Reqs : Moves(r)) /\ Later
    <2>1. /\ UNCHANGED <<status, wq, cq, user, last_tracked, last_req_id, posted_list>>
          /\ \A x \in Reqs : SameId(x)
      BY <1>2 DEF StreamWait, Tracked
    <2> QED
      BY <2>1, MovesQuiet
  <1>3. CASE Abort
    <2>1. /\ UNCHANGED <<status, wq, cq, user, last_tracked, last_req_id, posted_list>>
          /\ \A x \in Reqs : SameId(x)
      BY <1>3 DEF Abort, client, SameId
    <2> QED
      BY <2>1, MovesQuiet
  <1> QED
    BY <1>1, <1>2, <1>3 DEF StreamCase

LEMMA MovesCpu ==
    ASSUME Base, CpuCase
    PROVE  (\A r \in Reqs : Moves(r)) /\ Later
  <1>1. CASE PostGiveUp \/ WaitGpuError
    <2>1. /\ UNCHANGED <<status, wq, cq, user, last_tracked, last_req_id, posted_list>>
          /\ \A x \in Reqs : SameId(x)
      BY <1>1 DEF PostGiveUp, WaitGpuError, client, SameId
    <2> QED
      BY <2>1, MovesQuiet
  <1>2. ASSUME NEW rs, WaitAll(rs) PROVE (\A r \in Reqs : Moves(r)) /\ Later
    <2>1. /\ UNCHANGED <<wq, cq, user, last_tracked, last_req_id, posted_list>>
          /\ \A x \in Reqs : SameId(x)
          /\ \A x \in Reqs : \/ status'[x] = status[x]
                             \/ status[x] \in Busy /\ status'[x] \in Busy
      BY <1>2 DEF WaitAll, client, SameId, Busy
    <2> QED
      BY <2>1, MovesQuiet
  <1>3. CASE PostRetry
    <2>1. PICK r \in Reqs : r = post
      BY <1>3 DEF PostRetry, Base, TypeOK
    <2>2. status[r] = "PENDING_NOWAIT"
      BY <1>3, <2>1 DEF PostRetry, Base, Inv, Posting
    <2>3. PICK c \in Channels : c = Chan(r)
      BY <2>2, InUse DEF Base
    <2>4. /\ wq' = [wq EXCEPT ![c] = Append(@, r)] /\ user' \in {user, user \union {r}}
          /\ UNCHANGED <<status, req, cq, last_tracked, last_req_id, posted_list>>
      BY <1>3, <2>1, <2>3 DEF PostRetry, client
    <2>5. wq'[c] = Append(wq[c], r) /\ \A d \in Channels : d # c => wq'[d] = wq[d]
      BY <2>4 DEF Base, TypeOK
    <2>6. status[r] \in Owned /\ status'[r] \in Busy
      BY <2>2, <2>4 DEF Owned, Busy
    <2> QED
      BY <2>3, <2>4, <2>5, <2>6, MovesPost
  <1> QED
    BY <1>1, <1>2, <1>3, MovesReturn DEF CpuCase

LEMMA MovesProgress ==
    ASSUME Base, Base', Order, ProgressCase
    PROVE  (\A r \in Reqs : Moves(r)) /\ Later
  <1>1. ASSUME NEW r \in Reqs, NEW p \in Peers, ListPosted(r, p)
        PROVE  (\A x \in Reqs : Moves(x)) /\ Later
    <2>1. PICK c \in Channels : c = <<p, "TX">>
      BY Types DEF Base
    <2>2. /\ Chan(r) = c /\ status[r] \in Owned /\ status'[r] \in Busy
          /\ \A x \in Reqs : x # r => status'[x] = status[x]
          /\ wq'[c] = Append(wq[c], r) /\ \A d \in Channels : d # c => wq'[d] = wq[d]
          /\ user' \in {user, user \union {r}} /\ UNCHANGED <<req, cq, last_tracked, last_req_id>>
      BY <1>1, <2>1 DEF ListPosted, Owned, Busy
    <2>3. \A q \in Peers : \A x \in Elems(posted_list[q]) : x # r => x \in Elems(posted_list'[q])
      BY <1>1 DEF ListPosted
    <2> QED
      BY <2>2, <2>3, MovesPost
  <1>2. ASSUME NEW s \in Streams, NEW op \in Op, Runs(op, s)
        PROVE  (\A r \in Reqs : Moves(r)) /\ Later
    <2>1. /\ UNCHANGED <<status, wq, cq, user, last_tracked, last_req_id, posted_list>>
          /\ \A x \in Reqs : SameId(x)
      BY <1>2 DEF Runs, SameId
    <2> QED
      BY <2>1, MovesQuiet
  <1> QED
    BY <1>1, <1>2, MovesPolled, MovesExecutes DEF ProgressCase

LEMMA MovesNext ==
    ASSUME NoMix, Base, Order, Next
    PROVE  (\A r \in Reqs : Moves(r)) /\ Later
  BY BaseNext, StepCases, MovesSubmit, MovesStream, MovesCpu, MovesProgress

-----------------------------------------------------------------------------
(* The application's work on a stream *)

\* The structure of kernel o still stands for the request that o follows.
Match(o) == /\ status[o.req] # "UNDEF" /\ Chan(o.req) = o.chan /\ req[o.req].id = o.id

Done(o) == Match(o) => status[o.req] = "COMPLETE" \/ o.req \in Elems(cq[o.chan])

\* What the streams compare says that o may start.
Settled(o) == Done(o) \/ o.id <= last_tracked[o.chan]

\* A kernel follows a request of the application that is posted or in the list.
KernelOK(o) ==
    /\ o.req \in Reqs /\ o.id <= last_req_id[o.chan[1]]
    /\ Match(o) => /\ o.req \in user
                   /\ status[o.req] = "PREPARED" => o.req \in Elems(posted_list[o.chan[1]])

\* Every kernel of seq is in G or behind a wait for its id or a later one.
Guarded(seq, G) ==
    \A i \in DOMAIN seq : seq[i].op = "kernel" =>
        \/ seq[i] \in G
        \/ \E j \in DOMAIN seq : /\ j < i /\ seq[j].op = "wait"
                                 /\ seq[j].chan = seq[i].chan /\ seq[i].id <= seq[j].id

\* A pending request of the application is in one of its channel's queues.
Known ==
    \A r \in user : status[r] \in Busy =>
        r \in Elems(wq[Chan(r)]) \/ r \in Elems(cq[Chan(r)])

\* last_posted_tracked_id was reached or is waited for.
WaitPosted ==
    \A c \in Channels :
        \/ last_posted_tracked[c] <= last_tracked[c]
        \/ \E s \in Streams : \E o \in Elems(stream[s]) :
              o.op = "wait" /\ o.chan = c /\ last_posted_tracked[c] <= o.id

SettledOps == {o \in Op : Settled(o)}

Kernelled ==
    /\ \A s \in Streams : \A o \in Elems(stream[s]) : o.op = "kernel" => KernelOK(o)
    /\ \A s \in Streams : Guarded(stream[s], SettledOps)
    /\ Known /\ WaitPosted

LEMMA GuardedMono ==
    ASSUME NEW seq, NEW G, NEW H, G \subseteq H, Guarded(seq, G)
    PROVE  Guarded(seq, H)
  BY DEF Guarded

LEMMA GuardedTail ==
    ASSUME NEW q \in Seq(Op), q # <<>>, NEW G, Guarded(q, G),
           Head(q).op = "wait" =>
              \A o \in Elems(q) : o.op = "kernel" /\ o.chan = Head(q).chan /\ o.id <= Head(q).id => o \in G
    PROVE  Guarded(Tail(q), G)
  <1>1. PICK t \in Seq(Op) : t = Tail(q)
    BY SeqTail
  <1>2. /\ Head(q) = q[1] /\ Len(t) = Len(q) - 1 /\ Len(q) \in Nat \ {0}
        /\ \A i \in 1..Len(t) : i + 1 \in 1..Len(q) /\ t[i] = q[i + 1]
    BY <1>1, SeqTail
  <1>3. DOMAIN q = 1..Len(q) /\ DOMAIN t = 1..Len(t)
    BY SeqElem
  <1> SUFFICES ASSUME NEW i \in DOMAIN t, t[i].op = "kernel", t[i] \notin G
               PROVE  \E j \in DOMAIN t : /\ j < i /\ t[j].op = "wait"
                                          /\ t[j].chan = t[i].chan /\ t[i].id <= t[j].id
    BY <1>1 DEF Guarded
  <1>4. i + 1 \in DOMAIN q /\ q[i + 1] = t[i] /\ i \in Nat
    BY <1>2, <1>3
  <1>5. PICK j \in DOMAIN q : /\ j < i + 1 /\ q[j].op = "wait"
                              /\ q[j].chan = t[i].chan /\ t[i].id <= q[j].id
    BY <1>4 DEF Guarded
  <1>6. j # 1
    <2>1. t[i] \in Elems(q)
      BY <1>4 DEF Elems
    <2> QED
      BY <1>2, <1>5, <2>1
  <1>7. j - 1 \in DOMAIN t /\ t[j - 1] = q[j] /\ j - 1 < i
    <2>1. j \in 1..Len(q) /\ j # 1
      BY <1>3, <1>6
    <2>2. j - 1 \in 1..Len(t) /\ (j - 1) + 1 = j
      BY <1>2, <2>1
    <2> QED
      BY <1>2, <1>3, <1>4, <1>5, <2>2
  <1> QED
    BY <1>5, <1>7

LEMMA GuardedConcat ==
    ASSUME NEW q \in Seq(Op), NEW v \in Seq(Op), NEW G, Guarded(q, G),
           NEW H, Guarded(v, H), \A o \in H : o \in G \/ WaitIn(Elems(q), o)
    PROVE  Guarded(q \o v, G)
  <1>1. PICK u \in Seq(Op) : u = q \o v
    BY SeqConcat
  <1>2. /\ Len(u) = Len(q) + Len(v) /\ \A i \in 1..Len(q) : u[i] = q[i]
        /\ \A i \in 1..Len(v) : u[i + Len(q)] = v[i]
        /\ \A i \in (Len(q) + 1)..(Len(q) + Len(v)) :
              i - Len(q) \in 1..Len(v) /\ u[i] = v[i - Len(q)]
    BY <1>1, SeqConcat
  <1>3. /\ DOMAIN q = 1..Len(q) /\ DOMAIN v = 1..Len(v) /\ DOMAIN u = 1..Len(u)
        /\ Len(q) \in Nat /\ Len(v) \in Nat
    BY SeqElem
  <1> SUFFICES ASSUME NEW i \in DOMAIN u, u[i].op = "kernel", u[i] \notin G
               PROVE  \E j \in DOMAIN u : /\ j < i /\ u[j].op = "wait"
                                          /\ u[j].chan = u[i].chan /\ u[i].id <= u[j].id
    BY <1>1 DEF Guarded
  <1>4. CASE i \in 1..Len(q)
    <2>1. i \in DOMAIN q /\ u[i] = q[i]
      BY <1>2, <1>3, <1>4
    <2>2. PICK j \in DOMAIN q : /\ j < i /\ q[j].op = "wait"
                                /\ q[j].chan = q[i].chan /\ q[i].id <= q[j].id
      BY <2>1 DEF Guarded
    <2>3. j \in DOMAIN u /\ u[j] = q[j]
      BY <1>2, <1>3
    <2> QED
      BY <2>1, <2>2, <2>3
  <1>5. CASE i \in (Len(q) + 1)..(Len(q) + Len(v))
    <2>1. PICK n \in DOMAIN v : n = i - Len(q) /\ u[i] = v[n]
      BY <1>2, <1>3, <1>5
    <2>2. CASE v[n] \in H
      <3>1. PICK w \in Elems(q) : w.op = "wait" /\ w.chan = u[i].chan /\ u[i].id <= w.id
        BY <2>1, <2>2 DEF WaitIn
      <3>2. PICK j \in DOMAIN q : q[j] = w
        BY DEF Elems
      <3>3. j \in DOMAIN u /\ u[j] = w /\ j < i
        BY <1>2, <1>3, <1>5, <3>2
      <3> QED
        BY <3>1, <3>3
    <2>3. CASE v[n] \notin H
      <3>1. PICK j \in DOMAIN v : /\ j < n /\ v[j].op = "wait"
                                  /\ v[j].chan = v[n].chan /\ v[n].id <= v[j].id
        BY <2>1, <2>3 DEF Guarded
      <3>2. j + Len(q) \in DOMAIN u /\ u[j + Len(q)] = v[j] /\ j + Len(q) < i
        BY <1>2, <1>3, <2>1, <3>1
      <3> QED
        BY <2>1, <3>1, <3>2
    <2> QED
      BY <2>2, <2>3
  <1> QED
    BY <1>2, <1>3, <1>4, <1>5

\* A step keeps what it found to be settled, and every kernel on the streams.
LEMMA MatchKeeps ==
    ASSUME Base, NEW o \in Op, KernelOK(o), Moves(o.req), Match(o)'
    PROVE  Match(o) /\ SameId(o.req)
  <1>1. PICK r \in Reqs : r = o.req
    BY DEF KernelOK
  <1>2. /\ status'[r] # "UNDEF" /\ <<req'[r].peer, req'[r].flow>> = o.chan /\ req'[r].id = o.id
    BY <1>1 DEF Match, Chan
  <1>3. PICK p \in Peers : p = o.chan[1]
    BY DEF Op
  <1>4. req'[r].peer = p
    BY <1>2, <1>3
  <1>5. o.id <= last_req_id[p] /\ o.id \in Nat /\ last_req_id[p] \in Nat
    BY <1>3, Types DEF KernelOK, Op, Base
  <1>6. status[r] # "UNDEF"
    <2> SUFFICES ASSUME status[r] = "UNDEF" PROVE FALSE
      OBVIOUS
    <2>1. req'[r].id > last_req_id[req'[r].peer]
      BY <1>1, <1>2 DEF Moves, Keeps
    <2> QED
      BY <1>2, <1>4, <1>5, <2>1
  <1>7. SameId(r)
    BY <1>1, <1>2, <1>6 DEF Moves, Keeps
  <1> QED
    BY <1>1, <1>2, <1>6, <1>7 DEF Match, SameId, Chan

LEMMA KernelKeeps ==
    ASSUME Base, Base', NEW o \in Op, KernelOK(o), Moves(o.req), Later
    PROVE  KernelOK(o)' /\ (Settled(o) => Settled(o)')
  <1>1. PICK r \in Reqs : r = o.req
    BY DEF KernelOK
  <1>2. PICK p \in Peers : p = o.chan[1] /\ o.chan \in Channels
    BY DEF Op
  <1>3. Match(o)' => Match(o) /\ SameId(r)
    BY <1>1, MatchKeeps
  <1>4. o.id <= last_req_id'[p]
    <2>1. o.id \in Nat /\ o.id <= last_req_id[p] /\ last_req_id[p] \in Nat
      BY <1>2, Types DEF KernelOK, Op, Base
    <2>2. last_req_id'[p] \in Nat /\ last_req_id[p] <= last_req_id'[p]
      BY DEF Later, Base, TypeOK
    <2> QED
      BY <2>1, <2>2
  <1>5. ASSUME Match(o)'
        PROVE  /\ r \in user'
               /\ status'[r] = "PREPARED" => r \in Elems(posted_list'[p])
    <2>1. Match(o) /\ status'[r] # "UNDEF" /\ status[r] # "UNDEF"
      BY <1>1, <1>3, <1>5 DEF Match
    <2>2. r \in user /\ (status[r] = "PREPARED" => r \in Elems(posted_list[p]))
      BY <1>1, <1>2, <2>1 DEF KernelOK
    <2>3. r \in user'
      BY <1>1, <2>1, <2>2 DEF Moves
    <2>4. status'[r] = "PREPARED" => status[r] = "PREPARED"
      BY <1>1, <2>1 DEF Moves, Keeps
    <2> QED
      BY <1>1, <2>2, <2>3, <2>4 DEF Moves, StaysListed
  <1>6. KernelOK(o)'
    BY <1>1, <1>2, <1>4, <1>5 DEF KernelOK
  <1>7. ASSUME Settled(o) PROVE Settled(o)'
    <2>1. CASE o.id <= last_tracked[o.chan]
      <3>1. /\ last_tracked[o.chan] \in Nat /\ last_tracked'[o.chan] \in Nat /\ o.id \in Nat
            /\ last_tracked[o.chan] <= last_tracked'[o.chan]
        BY <1>2, Types DEF Base, TypeOK, Later, Op
      <3> QED
        BY <2>1, <3>1 DEF Settled
    <2>2. CASE Done(o)
      <3> SUFFICES ASSUME Match(o)' PROVE status'[r] = "COMPLETE" \/ r \in Elems(cq'[o.chan])
        BY <1>1 DEF Settled, Done
      <3>1. Match(o) /\ status'[r] # "UNDEF"
        BY <1>1, <1>3 DEF Match
      <3>2. CASE status[r] = "COMPLETE"
        BY <1>1, <3>1, <3>2 DEF Moves, Keeps
      <3>3. CASE r \in Elems(cq[o.chan])
        BY <1>1, <1>2, <3>1, <3>3 DEF Moves, Advances
      <3> QED
        BY <1>1, <2>2, <3>1, <3>2, <3>3 DEF Done
    <2> QED
      BY <1>7, <2>1, <2>2 DEF Settled
  <1> QED
    BY <1>6, <1>7

\* The kernels that a step leaves on the streams.
LEMMA KernelsKeep ==
    ASSUME Base, Base', Kernelled, \A r \in Reqs : Moves(r), Later
    PROVE  \A s \in Streams :
              /\ \A o \in Elems(stream[s]) : o.op = "kernel" => KernelOK(o)'
              /\ Guarded(stream[s], SettledOps')
  <1> SUFFICES ASSUME NEW s \in Streams
               PROVE  /\ \A o \in Elems(stream[s]) : o.op = "kernel" => KernelOK(o)'
                      /\ Guarded(stream[s], SettledOps')
    OBVIOUS
  <1>1. stream[s] \in Seq(Op) /\ Elems(stream[s]) \subseteq Op
    BY Types, SeqElem DEF Base
  <1>2. ASSUME NEW o \in Elems(stream[s]), o.op = "kernel"
        PROVE  KernelOK(o)' /\ (o \in SettledOps => o \in SettledOps')
    <2>1. o \in Op /\ KernelOK(o)
      BY <1>1, <1>2 DEF Kernelled
    <2>2. o.req \in Reqs
      BY <2>1 DEF KernelOK
    <2> QED
      BY <2>1, <2>2, KernelKeeps DEF SettledOps
  <1>3. Guarded(stream[s], SettledOps)
    BY DEF Kernelled
  <1>4. \A i \in DOMAIN stream[s] : stream[s][i] \in Elems(stream[s])
    BY DEF Elems
  <1>5. Guarded(stream[s], SettledOps')
    BY <1>2, <1>3, <1>4 DEF Guarded
  <1> QED
    BY <1>2, <1>5

LEMMA KnownKeeps ==
    ASSUME Base, Base', Known, \A r \in Reqs : Moves(r)
    PROVE  Known'
  <1> SUFFICES ASSUME NEW r \in user', status'[r] \in Busy
               PROVE  r \in Elems(wq'[Chan(r)']) \/ r \in Elems(cq'[Chan(r)'])
    BY DEF Known
  <1>1. r \in Reqs /\ Moves(r)
    BY DEF Base, TypeOK
  <1>2. CASE r \in user /\ status[r] \in Busy
    <2>1. SameId(r)
      BY <1>1, <1>2 DEF Moves, Keeps, Busy
    <2>2. PICK c \in Channels : c = Chan(r) /\ c = Chan(r)'
      <3>1. status[r] # "UNDEF"
        BY <1>2 DEF Busy
      <3>2. Chan(r) \in Channels
        BY <1>1, <3>1, InUse DEF Base
      <3> QED
        BY <2>1, <3>2 DEF Chan, SameId
    <2>3. r \in Elems(wq[c]) \/ r \in Elems(cq[c])
      BY <1>2, <2>2 DEF Known
    <2>4. status'[r] \notin {"COMPLETE", "UNDEF"}
      BY DEF Busy
    <2> QED
      BY <1>1, <2>2, <2>3, <2>4 DEF Moves, Advances
  <1>3. CASE r \in Elems(wq'[Chan(r)'])
    BY <1>3
  <1> QED
    BY <1>1, <1>2, <1>3 DEF Moves, HandlePosted

LEMMA KernelledQuiet ==
    ASSUME Base, Base', Kernelled, \A r \in Reqs : Moves(r), Later,
           UNCHANGED <<stream, last_posted_tracked>>
    PROVE  Kernelled'
  <1>1. WaitPosted'
    <2> SUFFICES ASSUME NEW c \in Channels,
                        ~\E s \in Streams : \E o \in Elems(stream[s]) :
                            o.op = "wait" /\ o.chan = c /\ last_posted_tracked[c] <= o.id
                 PROVE  last_posted_tracked[c] <= last_tracked'[c]
      BY DEF WaitPosted
    <2>1. last_posted_tracked[c] <= last_tracked[c] /\ last_tracked[c] <= last_tracked'[c]
      BY DEF Kernelled, WaitPosted, Later
    <2>2. last_posted_tracked[c] \in Nat /\ last_tracked[c] \in Nat /\ last_tracked'[c] \in Nat
      BY DEF Base, TypeOK
    <2> QED
      BY <2>1, <2>2
  <1>2. Known'
    BY KnownKeeps DEF Kernelled
  <1> QED
    BY <1>1, <1>2, KernelsKeep DEF Kernelled

LEMMA KernelledRun ==
    ASSUME Base, Base', Kernelled, \A r \in Reqs : Moves(r), Later,
           NEW s \in Streams, NEW op \in Op, Runs(op, s)
    PROVE  Kernelled'
  <1>1. /\ stream[s] # <<>> /\ op = Head(stream[s]) /\ stream'[s] = Tail(stream[s])
        /\ \A t \in Streams : t # s => stream'[t] = stream[t]
        /\ Elems(stream[s]) = Elems(stream'[s]) \union {op}
        /\ UNCHANGED <<last_tracked, last_posted_tracked>>
        /\ op.op = "wait" => last_tracked[op.chan] >= op.id
    BY DEF Runs
  <1>2. /\ \A t \in Streams : \A o \in Elems(stream[t]) : o.op = "kernel" => KernelOK(o)'
        /\ \A t \in Streams : Guarded(stream[t], SettledOps')
    BY KernelsKeep
  <1>3. Guarded(stream'[s], SettledOps')
    <2>1. PICK q \in Seq(Op) : q = stream[s] /\ q # <<>> /\ op = Head(q)
      BY <1>1, Types DEF Base
    <2>2. PICK G : G = SettledOps'
      OBVIOUS
    <2>3. ASSUME op.op = "wait", NEW o \in Elems(q), o.op = "kernel", o.chan = op.chan, o.id <= op.id
          PROVE  o \in G
      <3>1. o \in Op
        BY SeqElem
      <3>2. o.id \in Nat /\ op.id \in Nat /\ op.chan \in Channels
        BY <3>1 DEF Op
      <3>3. last_tracked'[op.chan] \in Nat /\ last_tracked'[op.chan] >= op.id
        BY <1>1, <2>3, <3>2 DEF Base, TypeOK
      <3>4. o.id <= last_tracked'[o.chan]
        BY <2>3, <3>2, <3>3
      <3> QED
        BY <2>2, <3>1, <3>4 DEF SettledOps, Settled
    <2>4. Guarded(q, G)
      BY <1>2, <2>1, <2>2
    <2>5. Guarded(Tail(q), G)
      BY <2>1, <2>3, <2>4, GuardedTail
    <2> QED
      BY <1>1, <2>1, <2>2, <2>5
  <1>4. \A t \in Streams : Guarded(stream'[t], SettledOps')
    BY <1>1, <1>2, <1>3
  <1>5. \A t \in Streams : \A o \in Elems(stream'[t]) : o.op = "kernel" => KernelOK(o)'
    BY <1>1, <1>2
  <1>6. WaitPosted'
    <2> SUFFICES ASSUME NEW c \in Channels, ~(last_posted_tracked[c] <= last_tracked[c])
                 PROVE  \E t \in Streams : \E o \in Elems(stream'[t]) :
                           o.op = "wait" /\ o.chan = c /\ last_posted_tracked[c] <= o.id
      BY <1>1 DEF WaitPosted
    <2>1. PICK t \in Streams : \E o \in Elems(stream[t]) :
             o.op = "wait" /\ o.chan = c /\ last_posted_tracked[c] <= o.id
      BY DEF Kernelled, WaitPosted
    <2>2. PICK o \in Elems(stream[t]) : o.op = "wait" /\ o.chan = c /\ last_posted_tracked[c] <= o.id
      BY <2>1
    <2>3. last_posted_tracked[c] \in Nat /\ last_tracked[c] \in Nat /\ op.id \in Nat
      BY DEF Base, TypeOK, Op
    <2>4. o # op
      BY <1>1, <2>2, <2>3
    <2>5. o \in Elems(stream'[t])
      BY <1>1, <2>4
    <2> QED
      BY <2>2, <2>5
  <1>7. Known'
    BY KnownKeeps DEF Kernelled
  <1> QED
    BY <1>4, <1>5, <1>6, <1>7 DEF Kernelled

LEMMA KernelledCall ==
    ASSUME InSequence, Base, Base', Kernelled, \A r \in Reqs : Moves(r), Later,
           NEW s \in Streams, NEW w, NEW k, Call(s, w, k)
    PROVE  Kernelled'
  <1>1. Queued(s, w, k) /\ TrackingQueued(w) /\ KernelsQueued(w, k)
    BY DEF Call
  <1>2. /\ w \in Seq(Op) /\ k \in Seq(Op) /\ stream[s] \in Seq(Op)
        /\ stream'[s] = stream[s] \o (w \o k)
        /\ \A t \in Streams : t # s => stream'[t] = stream[t]
        /\ \A o \in Elems(w) : o.op \in {"trigger", "wait"}
        /\ \A o \in Elems(k) : o.op = "kernel" /\ Alone(o.chan, s)
    BY <1>1, Types DEF Queued, Base
  <1>3. PICK v \in Seq(Op) : /\ v = w \o k /\ Elems(v) = Elems(w) \union Elems(k)
                            /\ Elems(stream'[s]) = Elems(stream[s]) \union Elems(v)
    <2>1. TypeOK
      BY DEF Base
    <2> QED
      BY SMTT(30), <1>1, <2>1, QueuedElems
  <1>4. Elems(stream'[s]) = Elems(stream[s]) \union Elems(v)
    BY <1>3
  <1>5. /\ \A t \in Streams : \A o \in Elems(stream[t]) : o.op = "kernel" => KernelOK(o)'
        /\ \A t \in Streams : Guarded(stream[t], SettledOps')
    BY KernelsKeep
  <1>6. ASSUME NEW o \in Elems(k)
        PROVE  /\ KernelOK(o)'
               /\ \/ o \in SettledOps' \/ WaitIn(Elems(w), o) \/ WaitIn(Elems(stream[s]), o)
    <2>1. o \in Op /\ o.op = "kernel" /\ Alone(o.chan, s)
      BY <1>2, SeqElem
    <2>2. PICK c \in Channels : c = o.chan
      BY <2>1 DEF Op
    <2>3. PICK r \in Reqs : r = o.req
      BY <1>1 DEF KernelsQueued
    <2>4. /\ r \in user' /\ status'[r] # "UNDEF" /\ Chan(r)' = c /\ req'[r].id = o.id
          /\ status'[r] = "PREPARED" => r \in Elems(posted_list'[req'[r].peer])
          /\ status'[r] = "COMPLETE" \/ WaitIn(Elems(w), o) \/ o.id <= last_posted_tracked[c]
      BY <1>1, <2>2, <2>3 DEF KernelsQueued
    <2>5. c[1] = req'[r].peer
      BY <2>4 DEF Chan
    <2>6. o.id <= last_req_id'[c[1]]
      <3>1. req'[r].id \in 1..last_req_id'[req'[r].peer]
        BY <2>4 DEF Base, Inv, IdRange
      <3> QED
        BY <2>4, <2>5, <3>1
    <2>7. KernelOK(o)'
      BY <2>2, <2>3, <2>4, <2>5, <2>6 DEF KernelOK
    <2>8. CASE status'[r] = "COMPLETE"
      <3>1. Done(o)'
        BY <2>3, <2>8 DEF Done
      <3> QED
        BY <2>1, <2>7, <3>1 DEF SettledOps, Settled
    <2>9. CASE o.id <= last_posted_tracked[c]
      <3>1. /\ last_posted_tracked[c] \in Nat /\ last_tracked[c] \in Nat /\ last_tracked'[c] \in Nat
            /\ o.id \in Nat /\ last_tracked[c] <= last_tracked'[c]
        BY <2>1 DEF Base, TypeOK, Later, Op
      <3>2. CASE last_posted_tracked[c] <= last_tracked[c]
        <4>1. o.id <= last_tracked'[c]
          BY <2>9, <3>1, <3>2
        <4>2. Settled(o)'
          BY <2>2, <4>1 DEF Settled
        <4> QED
          BY <2>1, <2>7, <4>2 DEF SettledOps
      <3>3. ASSUME NEW t \in Streams, NEW u \in Elems(stream[t]),
                   u.op = "wait", u.chan = c, last_posted_tracked[c] <= u.id
            PROVE  WaitIn(Elems(stream[s]), o)
        <4>1. t = s
          BY <2>1, <2>2, <3>3 DEF Alone
        <4>2. u \in Op
          BY <3>3, Types, SeqElem DEF Base
        <4>2a. u.id \in Nat
          BY <4>2 DEF Op
        <4>3. o.id <= u.id
          BY <2>9, <3>1, <3>3, <4>2a
        <4> QED
          BY <2>2, <3>3, <4>1, <4>3 DEF WaitIn
      <3>4. \/ last_posted_tracked[c] <= last_tracked[c]
            \/ \E t \in Streams : \E u \in Elems(stream[t]) :
                  u.op = "wait" /\ u.chan = c /\ last_posted_tracked[c] <= u.id
        BY DEF Kernelled, WaitPosted
      <3> QED
        BY <2>7, <3>2, <3>3, <3>4
    <2> QED
      BY <2>4, <2>7, <2>8, <2>9
  <1>7. Guarded(stream'[s], SettledOps')
    <2>1. PICK G : G = SettledOps'
      OBVIOUS
    <2>2. PICK q \in Seq(Op) : q = stream[s]
      BY <1>2
    <2>3. PICK H : H = {o \in Op : o \in G \/ WaitIn(Elems(q), o)}
      OBVIOUS
    <2>4. PICK K : K = {o \in Op : o \in H \/ WaitIn(Elems(w), o)}
      OBVIOUS
    <2>5. Guarded(w, H)
      <3>1. \A i \in DOMAIN w : w[i] \in Elems(w)
        BY DEF Elems
      <3> QED
        BY <1>2, <3>1 DEF Guarded
    <2>6. Guarded(k, K)
      <3>1. \A i \in DOMAIN k : k[i] \in Elems(k)
        BY DEF Elems
      <3>2. \A o \in Elems(k) : o \in Op
        BY <1>2, SeqElem
      <3>3. \A o \in Elems(k) : o \in K
        BY <1>6, <2>1, <2>2, <2>3, <2>4, <3>2
      <3> QED
        BY <3>1, <3>3 DEF Guarded
    <2>7. Guarded(w \o k, H)
      BY <1>2, <2>4, <2>5, <2>6, GuardedConcat
    <2>8. Guarded(q, G)
      BY <1>5, <2>1, <2>2
    <2>9. Guarded(q \o v, G)
      <3>1. Guarded(v, H)
        BY <1>3, <2>7
      <3>2. \A o \in H : o \in G \/ WaitIn(Elems(q), o)
        BY <2>3
      <3> QED
        BY <2>8, <3>1, <3>2, GuardedConcat
    <2> QED
      BY <1>2, <1>3, <2>1, <2>2, <2>9
  <1>8. \A t \in Streams : Guarded(stream'[t], SettledOps')
    BY <1>2, <1>5, <1>7
  <1>9. \A t \in Streams : \A o \in Elems(stream'[t]) : o.op = "kernel" => KernelOK(o)'
    <2>1. \A o \in Elems(v) : o.op = "kernel" => o \in Elems(k)
      BY <1>2, <1>3
    <2> QED
      BY <1>2, <1>4, <1>5, <1>6, <2>1
  <1>10. WaitPosted'
    <2> SUFFICES ASSUME NEW c \in Channels
                 PROVE  \/ last_posted_tracked'[c] <= last_tracked'[c]
                        \/ \E t \in Streams : \E o \in Elems(stream'[t]) :
                              o.op = "wait" /\ o.chan = c /\ last_posted_tracked'[c] <= o.id
      BY DEF WaitPosted
    <2>1. /\ last_posted_tracked[c] \in Nat /\ last_tracked[c] \in Nat /\ last_tracked'[c] \in Nat
          /\ last_posted_tracked'[c] \in Nat /\ last_tracked[c] <= last_tracked'[c]
      BY DEF Base, TypeOK, Later
    <2>2. \A t \in Streams : Elems(stream[t]) \subseteq Elems(stream'[t])
      BY <1>2, <1>4
    <2>3. CASE last_posted_tracked'[c] = last_posted_tracked[c]
      <3>1. CASE last_posted_tracked[c] <= last_tracked[c]
        BY <2>1, <2>3, <3>1
      <3>2. CASE \E t \in Streams : \E o \in Elems(stream[t]) :
                    o.op = "wait" /\ o.chan = c /\ last_posted_tracked[c] <= o.id
        BY <2>2, <2>3, <3>2
      <3> QED
        BY <3>1, <3>2 DEF Kernelled, WaitPosted
    <2>4. ASSUME NEW o \in Elems(w), o.op = "wait", o.chan = c, o.id = last_posted_tracked'[c]
          PROVE  \E t \in Streams : \E u \in Elems(stream'[t]) :
                    u.op = "wait" /\ u.chan = c /\ last_posted_tracked'[c] <= u.id
      BY <1>3, <1>4, <2>1, <2>4
    <2> QED
      BY <1>1, <2>3, <2>4 DEF TrackingQueued
  <1>11. Known'
    BY KnownKeeps DEF Kernelled
  <1> QED
    BY <1>8, <1>9, <1>10, <1>11 DEF Kernelled

LEMMA KernelledNext ==
    ASSUME NoMix, OneStream, InSequence, Reliable, Base, Order, Kernelled, Next
    PROVE  Kernelled'
  BY BaseNext, MovesNext, StreamSteps, KernelledCall, KernelledRun, KernelledQuiet
     DEF StreamStep, Quiet

LEMMA KernelledInit == ASSUME Init PROVE Kernelled
  <1>1. /\ stream = [s \in Streams |-> <<>>] /\ user = {}
        /\ last_posted_tracked = [c \in Channels |-> 0] /\ last_tracked = [c \in Channels |-> 0]
    BY DEF Init
  <1>2. Elems(<<>>) = {} /\ \A G : Guarded(<<>>, G)
    BY SeqNone DEF Guarded
  <1> QED
    BY <1>1, <1>2 DEF Kernelled, Known, WaitPosted

LEMMA KernelledUnchanged == ASSUME Kernelled, UNCHANGED vars PROVE Kernelled'
  BY DEF vars, client, Kernelled, KernelOK, Match, SettledOps, Settled, Done, Known, WaitPosted, Chan

\* A settled kernel at the head of a stream follows an executed request.
LEMMA SettledExecuted ==
    ASSUME Base, Order, Known, NEW o \in Op, KernelOK(o), Settled(o)
    PROVE  Executed(o)
  <1>1. PICK r \in Reqs : r = o.req
    BY DEF KernelOK
  <1>2. CASE ~Match(o)
    BY <1>1, <1>2 DEF Match, Executed
  <1>3. CASE Match(o)
    <2>1. PICK c \in Channels : c = o.chan /\ c = Chan(r)
      BY <1>1, <1>3 DEF Match, Op
    <2>2. status[r] # "UNDEF" /\ req[r].id = o.id /\ r \in user
      BY <1>1, <1>3 DEF Match, KernelOK
    <2>3. r \in Elems(cq[c]) => Executed(o)
      BY <1>1, <2>1 DEF Executed, InSeq, Elems
    <2>4. status[r] = "COMPLETE" => Executed(o)
      BY <1>1 DEF Executed
    <2>5. CASE Done(o)
      BY <1>1, <1>3, <2>1, <2>3, <2>4, <2>5 DEF Done
    <2>6. CASE o.id <= last_tracked[c] /\ status[r] # "COMPLETE"
      <3>1. last_tracked[c] \in Nat /\ req[r].id \in Nat
        BY Types DEF Base
      <3>2. CASE status[r] = "PREPARED"
        <4>1. c[1] = req[r].peer
          BY <2>1 DEF Chan
        <4>2. r \in Elems(posted_list[req[r].peer])
          BY <1>1, <1>3, <2>1, <3>2, <4>1 DEF KernelOK
        <4>3. Ahead(c, req[r].id)
          BY <2>1, <3>2, <4>2 DEF Order, ReadyAhead, Ready
        <4> QED
          BY <2>2, <2>6, <3>1, <4>3 DEF Ahead
      <3>3. CASE status[r] \in Busy
        <4>1. r \in Elems(wq[c]) \/ r \in Elems(cq[c])
          BY <2>1, <2>2, <3>3 DEF Known
        <4>2. r \notin Elems(wq[c])
          BY <2>2, <2>6, <3>1 DEF Order, OrderOK
        <4> QED
          BY <2>3, <4>1, <4>2
      <3> QED
        BY <2>2, <2>6, <3>2, <3>3, Types DEF States, Busy, Base
    <2> QED
      BY <2>1, <2>4, <2>5, <2>6 DEF Settled
  <1> QED
    BY <1>2, <1>3

\* The work queued behind a call that waits for a request starts only when the HCA
\* has executed it, although waits for ids below the last one are left out
\* (mp_peersync.c:1099-1226) and the stream compares one word per channel.  The
\* application mixes and misorders no sends, keeps a channel on one stream at a
\* time, and no call fails to queue its operations.
THEOREM WorkNotEarly ==
    ASSUME NoMix, OneStream, InSequence, Reliable
    PROVE  Spec => []StreamNotEarly
  <1>1. Init => Base /\ Order /\ Kernelled
    BY BaseInit, OrderInit, KernelledInit
  <1>2. Base /\ Order /\ Kernelled /\ [Next]_vars => (Base /\ Order /\ Kernelled)'
    BY BaseNext, BaseUnchanged, OrderNext, OrderUnchanged, KernelledNext, KernelledUnchanged
  <1>3. Base /\ Order /\ Kernelled => StreamNotEarly
    <2> SUFFICES ASSUME Base, Order, Kernelled, NEW s \in Streams, stream[s] # <<>>,
                        Head(stream[s]).op = "kernel"
                 PROVE  Executed(Head(stream[s]))
      BY DEF StreamNotEarly
    <2>1. PICK q \in Seq(Op) : q = stream[s] /\ q # <<>>
      BY Types DEF Base
    <2>2. PICK o \in Op : o = Head(q) /\ o = q[1] /\ 1 \in DOMAIN q /\ o \in Elems(q)
      BY <2>1, SeqTail, SeqElem
    <2>3. o \in SettledOps
      <3>1. ~\E j \in DOMAIN q : j < 1
        BY <2>1, SeqElem
      <3> QED
        BY <2>1, <2>2, <3>1 DEF Kernelled, Guarded
    <2>4. KernelOK(o) /\ Settled(o) /\ Known
      BY <2>1, <2>2, <2>3 DEF Kernelled, SettledOps
    <2> QED
      BY <2>1, <2>2, <2>4, SettledExecuted
  <1> QED
    BY <1>1, <1>2, <1>3, PTL DEF Spec
=============================================================================
