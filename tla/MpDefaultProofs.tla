--------------------------- MODULE MpDefaultProofs ---------------------------
(***************************************************************************)
(* Proofs about MpDefault, for any number of requests, peers and streams   *)
(* and any queue depth.  Each theorem names the uses of the library and    *)
(* the faults it excludes (SafeUse, WholeCalls, OrderedUse, "rewait").     *)
(***************************************************************************)
EXTENDS MpDefault, TLAPS

\* The two uses that break the library are excluded: mp_send_post_all_on_stream,
\* which leaves its requests MP_PREPARED, and a failing gds_prepare_wait_cq in a
\* call that releases the request on error or that leaves it MP_PREPARED.
SafeUse ==
    /\ "mp_send_post_all_on_stream" \notin Calls
    /\ "prepare_wait" \in Faults =>
          Calls \cap {"mp_iput_on_stream", "mp_put_prepare", "mp_send_prepare",
                      "mp_sendv_prepare"} = {}

\* One guard per completion, and no completion is polled that will not come.
Aligned ==
    \A c \in Channels : Len(peek[c]) = Len(cq[c]) /\ polled[c] <= Len(cq[c])

\* The request of a completion still to be polled waits for it, on that channel;
\* if it is only prepared, its guard keeps the completion from the poll.
Pending == {"PREPARED", "PENDING_NOWAIT", "PENDING"}
OwnerOK(c, k) ==
    LET r == cq[c][k].req
    IN  /\ status[r] \in Pending
        /\ Chan(r) = c /\ ~req[r].nowait
        /\ req[r].wait \in {0, k}
        /\ status[r] = "PREPARED" => peek[c][k] = "busy"
Owners == \A c \in Channels : \A k \in ToPoll(c) : OwnerOK(c, k)

\* No request has two completions to come.
OneEach ==
    \A c \in Channels : \A j, k \in ToPoll(c) : cq[c][j].req = cq[c][k].req => j = k

\* What the application holds is not free; the guard it may still abort or post
\* is that of its own completion to come; that of a complete request is behind.
HandleOK(r) ==
    /\ status[r] # "UNDEF"
    /\ req[r].type = "SEND" => ~req[r].nowait
    /\ req_can_be_waited(r) /\ status[r] \in {"PREPARED", "PENDING_NOWAIT"} =>
          /\ req[r].wait \in ToPoll(Chan(r))
          /\ cq[Chan(r)][req[r].wait].req = r
    /\ req_can_be_waited(r) /\ status[r] = "COMPLETE" => req[r].wait <= polled[Chan(r)]
Handles == \A r \in user : HandleOK(r)

\* No stream and no descriptor queue will free the guard of a prepared request.
WaitOK(op) ==
    op.op = "wait" =>
        /\ op.index <= Len(cq[op.chan])
        /\ op.index \in ToPoll(op.chan) => status[cq[op.chan][op.index].req] # "PREPARED"
Elems(seq) == {seq[i] : i \in DOMAIN seq}
WaitOps ==
    /\ \A s \in Streams : \A op \in Elems(stream[s]) : WaitOK(op)
    /\ \A q \in DescQueues : \A op \in Elems(descs[q]) : WaitOK(op)

\* What the calls ask of Submit, and what is left of it under SafeUse.
Regular(how) ==
    /\ how \in How
    /\ how.after = "COMPLETE" => how.nowait
    /\ how.nowait => how.type = "RDMA"
    /\ how.full # "fail" => how.state = "PENDING_NOWAIT" /\ ~how.block
    /\ how.state = "PREPARED" <=> how.ring = "later"
    /\ how.after = "PREPARED" <=> how.ring = "later"
    /\ how.block <=> how.after = "PENDING"
    /\ how.block => ~how.nowait
    /\ how.undo \/ how.state = "PREPARED" =>
          how.call \in {"mp_iput_on_stream", "mp_put_prepare", "mp_send_prepare",
                       "mp_sendv_prepare"}
GoodHow(how) ==
    /\ Regular(how)
    /\ "prepare_wait" \in Faults /\ ~how.nowait => ~how.undo /\ how.state # "PREPARED"

\* A submission that found its queue full owns its request alone.
Posting ==
    pc = "posting" =>
        /\ GoodHow(post.how) /\ post.how.full # "fail"
        /\ status[post.req] = "PENDING_NOWAIT" /\ post.req \notin user
        /\ \A c \in Channels : \A k \in ToPoll(c) : cq[c][k].req # post.req

Inv == /\ Aligned /\ Owners /\ OneEach /\ Handles /\ WaitOps /\ Posting
       /\ waited \subseteq user /\ pc # "exited"

IInv == TypeOK /\ Inv

USE ConstantsAssumption DEF Channels, DescQueues

-----------------------------------------------------------------------------
(* Type correctness *)

LEMMA SeqAppend ==
    ASSUME NEW S, NEW s \in Seq(S), NEW e \in S
    PROVE  /\ Append(s, e) \in Seq(S)
           /\ Len(Append(s, e)) = Len(s) + 1
           /\ \A i \in 1..Len(s) : Append(s, e)[i] = s[i]
           /\ Append(s, e)[Len(s) + 1] = e
  OBVIOUS

LEMMA SeqElem ==
    ASSUME NEW S, NEW s \in Seq(S), NEW i \in DOMAIN s
    PROVE  s[i] \in S
  OBVIOUS

LEMMA SeqConcat ==
    ASSUME NEW S, NEW s \in Seq(S), NEW t \in Seq(S)
    PROVE  /\ s \o t \in Seq(S)
           /\ Len(s \o t) = Len(s) + Len(t)
           /\ \A i \in DOMAIN (s \o t) :
                 \/ i \in DOMAIN s /\ (s \o t)[i] = s[i]
                 \/ i - Len(s) \in DOMAIN t /\ (s \o t)[i] = t[i - Len(s)]
  OBVIOUS

LEMMA SeqTail ==
    ASSUME NEW S, NEW s \in Seq(S), s # <<>>
    PROVE  /\ Head(s) \in S /\ Tail(s) \in Seq(S)
           /\ Head(s) = s[1] /\ 1 \in DOMAIN s
           /\ \A i \in DOMAIN Tail(s) : i + 1 \in DOMAIN s /\ Tail(s)[i] = s[i + 1]
  OBVIOUS

LEMMA InitType == Init => TypeOK
  BY DEF Init, TypeOK, NullReq, ReqFields, Types, States, NoPost

LEMMA OpsAreOps ==
    ASSUME NEW r \in Reqs, NEW c \in Channels, NEW n \in Nat
    PROVE  SendOp(r, c, n) \in Op /\ WaitOp(r, c, n) \in Op
  BY DEF SendOp, WaitOp, Op

LEMMA ChanType ==
    ASSUME TypeOK, NEW r \in Reqs, status[r] # "UNDEF"
    PROVE  /\ Chan(r) \in Channels
           /\ SendOf(r) \in Op /\ WaitOf(r) \in Op
  BY OpsAreOps DEF TypeOK, Chan, mp_type_to_flow, SendOf, WaitOf, ReqFields

LEMMA CreateType ==
    ASSUME TypeOK, NEW r \in Reqs, NEW p \in Peers, NEW how \in How,
           NEW state \in States, NEW n \in Nat, NEW w \in Nat,
           Create(r, p, how, state, n, w)
    PROVE  /\ status' \in [Reqs -> States] /\ req' \in [Reqs -> ReqFields]
           /\ \A x \in Reqs : status'[x] # "UNDEF" => req'[x].peer \in Peers /\ req'[x].type # "NULL"
  BY DEF TypeOK, Create, ReqFields, How, Types

LEMMA ReleaseType ==
    ASSUME TypeOK, NEW rs \in SUBSET Reqs, Release(rs)
    PROVE  /\ status' \in [Reqs -> States] /\ req' \in [Reqs -> ReqFields]
           /\ \A x \in Reqs : status'[x] # "UNDEF" => req'[x].peer \in Peers /\ req'[x].type # "NULL"
           /\ user' \subseteq Reqs
  BY DEF TypeOK, Release, ReqFields, NullReq, Types, States

LEMMA AbandonType ==
    ASSUME TypeOK, NEW r \in Reqs, NEW p \in Peers, NEW how \in How, NEW n \in Nat,
           Abandon(r, p, how, n)
    PROVE  /\ status' \in [Reqs -> States] /\ req' \in [Reqs -> ReqFields]
           /\ \A x \in Reqs : status'[x] # "UNDEF" => req'[x].peer \in Peers /\ req'[x].type # "NULL"
           /\ user' \subseteq Reqs
  <1>1. CASE how.undo
    BY <1>1, ReleaseType DEF Abandon
  <1>2. CASE ~how.undo
    <2>1. how.state \in States
      BY DEF How, States
    <2>2. Create(r, p, how, how.state, n, 0) /\ user' = user
      BY <1>2 DEF Abandon
    <2>3. QED
      BY <2>1, <2>2, CreateType DEF TypeOK
  <1>3. QED
    BY <1>1, <1>2

LEMMA EnqueueType ==
    ASSUME TypeOK, NEW r \in Reqs, NEW p \in Peers,
           NEW s \in Streams \union {NoStream}, NEW how \in How, Enqueue(r, p, s, how)
    PROVE  TypeOK'
  <1> DEFINE c == <<p, mp_type_to_flow(how.type)>>
             n == posted[c] + 1
             w == Len(peek[c]) + 1
             send == IF how.ring = "stream" THEN <<SendOp(r, c, n)>> ELSE <<>>
             ops == IF how.block THEN Append(send, WaitOp(r, c, w)) ELSE send
             To(os) == [t \in Streams |-> IF t = s THEN stream[t] \o os ELSE stream[t]]
  <1>0. /\ PostWqe(r, c, how)
        /\ pc' = "idle" /\ post' = NoPost
        /\ \/ /\ how.nowait
              /\ Create(r, p, how, how.after, n, 0)
              /\ user' = user \union {r} /\ stream' = To(ops) /\ peek' = peek
           \/ /\ ~how.nowait
              /\ Create(r, p, how, how.after, n, IF how.block THEN 0 ELSE w)
              /\ user' = IF how.handle THEN user \union {r} ELSE user
              /\ stream' = To(ops) /\ peek' = Append1(peek, c, "busy")
           \/ /\ ~how.nowait
              /\ Abandon(r, p, how, n)
              /\ stream' = To(send) /\ peek' = Append1(peek, c, "none")
        /\ UNCHANGED <<done, polled, descs, waited>>
    BY DEF Enqueue
  <1>1. c \in Channels
    BY DEF mp_type_to_flow
  <1>2. n \in Nat /\ w \in Nat /\ how.after \in States /\ n = posted[c] + 1
    BY <1>1 DEF TypeOK, How, States
  <1>3. send \in Seq(Op) /\ ops \in Seq(Op)
    <2>1. SendOp(r, c, n) \in Op /\ WaitOp(r, c, w) \in Op
      BY <1>1, <1>2, OpsAreOps
    <2>2. QED
      BY <2>1
  <1>4. To(send) \in [Streams -> Seq(Op)] /\ To(ops) \in [Streams -> Seq(Op)]
    <2> HIDE DEF send, ops
    <2>1. QED
      BY <1>3, SeqConcat DEF TypeOK
  <1> HIDE DEF c, n, w, send, ops, To
  <1>5. ASSUME NEW g \in {"busy", "none"}
        PROVE  Append1(peek, c, g) \in [Channels -> Seq({"busy", "free", "none"})]
    BY <1>1 DEF TypeOK, Append1
  <1>6. /\ posted' \in [Channels -> Nat] /\ rung' \in [Channels -> Nat]
        /\ cq' \in [Channels -> Seq([wqe : Nat, req : Reqs])]
    <2>1. posted' \in [Channels -> Nat] /\ rung' \in [Channels -> Nat]
      BY <1>0, <1>1, <1>2 DEF TypeOK, PostWqe
    <2>2. [wqe |-> posted[c] + 1, req |-> r] \in [wqe : Nat, req : Reqs]
      BY <1>2
    <2>3. QED
      <3>1. Append(cq[c], [wqe |-> posted[c] + 1, req |-> r]) \in Seq([wqe : Nat, req : Reqs])
        BY <2>2, <1>1, SeqAppend DEF TypeOK
      <3>2. cq' = cq \/ cq' = [cq EXCEPT ![c] = Append(@, [wqe |-> posted[c] + 1, req |-> r])]
        BY <1>0 DEF PostWqe, Append1
      <3>3. cq' \in [Channels -> Seq([wqe : Nat, req : Reqs])]
        BY <3>1, <3>2 DEF TypeOK
      <3>4. QED
        BY <2>1, <3>3
  <1>7. /\ done' \in [Channels -> Nat] /\ polled' \in [Channels -> Nat]
        /\ descs' \in [DescQueues -> Seq(Op)] /\ waited' \subseteq Reqs
        /\ pc' = "idle" /\ post' = NoPost
    BY <1>0 DEF TypeOK
  <1>8. /\ status' \in [Reqs -> States] /\ req' \in [Reqs -> ReqFields]
        /\ \A x \in Reqs : status'[x] # "UNDEF" => req'[x].peer \in Peers /\ req'[x].type # "NULL"
        /\ user' \subseteq Reqs
    <2>1. CASE Create(r, p, how, how.after, n, 0) /\ user' = user \union {r}
      BY <2>1, <1>2, CreateType DEF TypeOK
    <2>2. CASE /\ Create(r, p, how, how.after, n, IF how.block THEN 0 ELSE w)
               /\ user' = IF how.handle THEN user \union {r} ELSE user
      <3>1. PICK g \in Nat : Create(r, p, how, how.after, n, g)
        BY <2>2, <1>2
      <3>2. QED
        BY <2>2, <3>1, <1>2, CreateType DEF TypeOK
    <2>3. CASE Abandon(r, p, how, n)
      BY <2>3, <1>2, AbandonType
    <2>4. QED
      BY <1>0, <2>1, <2>2, <2>3
  <1>9. /\ stream' \in [Streams -> Seq(Op)]
        /\ peek' \in [Channels -> Seq({"busy", "free", "none"})]
    BY <1>0, <1>4, <1>5 DEF TypeOK
  <1>10. QED
    BY <1>6, <1>7, <1>8, <1>9 DEF TypeOK

\* Each submitting call is a Submit whose record is one GoodHow admits, with a
\* stream where the call takes one.
Fits(how, s) == (how.ring = "cpu" => s = NoStream) /\ (how.block => s \in Streams)
Submits(r, p, s) ==
    \E how \in How :
        Submit(r, p, s, how) /\ Regular(how) /\ Fits(how, s) /\ (SafeUse => GoodHow(how))

LEMMA GoodSubmit ==
    ASSUME NEW r, NEW p, NEW s, NEW how, Submit(r, p, s, how), Regular(how), Fits(how, s)
    PROVE  Submits(r, p, s)
  <1>1. how.call \in Calls
    BY DEF Submit
  <1>2. SafeUse => GoodHow(how)
    BY <1>1 DEF SafeUse, GoodHow, Regular
  <1>3. QED
    BY <1>2 DEF Submits, Regular

LEMMA CpuCalls ==
    ASSUME NEW r, NEW p, NEW nw \in BOOLEAN
    PROVE  /\ mp_irecv(r, p) => Submits(r, p, NoStream)
           /\ mp_irecvv(r, p) => Submits(r, p, NoStream)
           /\ mp_isend(r, p) => Submits(r, p, NoStream)
           /\ mp_isendv(r, p) => Submits(r, p, NoStream)
           /\ mp_iput(r, p, nw) => Submits(r, p, NoStream)
           /\ mp_iget(r, p) => Submits(r, p, NoStream)
           /\ mp_send_prepare(r, p) => Submits(r, p, NoStream)
           /\ mp_sendv_prepare(r, p) => Submits(r, p, NoStream)
           /\ mp_put_prepare(r, p, nw) => Submits(r, p, NoStream)
  <1>1. ASSUME mp_irecv(r, p) PROVE Submits(r, p, NoStream)
    <2> DEFINE how == [Plain("mp_irecv", "RECV", "cpu") EXCEPT !.full = "bounded"]
    <2>1. Regular(how) /\ Fits(how, NoStream)
      BY DEF Regular, Fits, Plain, How, AllCalls
    <2>2. Submit(r, p, NoStream, how)
      BY <1>1 DEF mp_irecv
    <2> HIDE DEF how
    <2>3. QED
      BY <2>1, <2>2, GoodSubmit
  <1>2. ASSUME mp_irecvv(r, p) PROVE Submits(r, p, NoStream)
    <2> DEFINE how == Plain("mp_irecvv", "RECV", "cpu")
    <2>1. Regular(how) /\ Fits(how, NoStream)
      BY DEF Regular, Fits, Plain, How, AllCalls
    <2>2. Submit(r, p, NoStream, how)
      BY <1>2 DEF mp_irecvv
    <2> HIDE DEF how
    <2>3. QED
      BY <2>1, <2>2, GoodSubmit
  <1>3. ASSUME mp_isend(r, p) PROVE Submits(r, p, NoStream)
    <2> DEFINE how == [Plain("mp_isend", "SEND", "cpu") EXCEPT !.full = "bounded"]
    <2>1. Regular(how) /\ Fits(how, NoStream)
      BY DEF Regular, Fits, Plain, How, AllCalls
    <2>2. Submit(r, p, NoStream, how)
      BY <1>3 DEF mp_isend
    <2> HIDE DEF how
    <2>3. QED
      BY <2>1, <2>2, GoodSubmit
  <1>4. ASSUME mp_isendv(r, p) PROVE Submits(r, p, NoStream)
    <2> DEFINE how == [Plain("mp_isendv", "SEND", "cpu") EXCEPT !.handle = FALSE]
    <2>1. Regular(how) /\ Fits(how, NoStream)
      BY DEF Regular, Fits, Plain, How, AllCalls
    <2>2. Submit(r, p, NoStream, how)
      BY <1>4 DEF mp_isendv
    <2> HIDE DEF how
    <2>3. QED
      BY <2>1, <2>2, GoodSubmit
  <1>5. ASSUME mp_iput(r, p, nw) PROVE Submits(r, p, NoStream)
    <2> DEFINE how == [Plain("mp_iput", "RDMA", "cpu") EXCEPT !.full = "bounded", !.nowait = nw]
    <2>1. Regular(how) /\ Fits(how, NoStream)
      BY DEF Regular, Fits, Plain, How, AllCalls
    <2>2. Submit(r, p, NoStream, how)
      BY <1>5 DEF mp_iput
    <2> HIDE DEF how
    <2>3. QED
      BY <2>1, <2>2, GoodSubmit
  <1>6. ASSUME mp_iget(r, p) PROVE Submits(r, p, NoStream)
    <2> DEFINE how == Plain("mp_iget", "RDMA", "cpu")
    <2>1. Regular(how) /\ Fits(how, NoStream)
      BY DEF Regular, Fits, Plain, How, AllCalls
    <2>2. Submit(r, p, NoStream, how)
      BY <1>6 DEF mp_iget
    <2> HIDE DEF how
    <2>3. QED
      BY <2>1, <2>2, GoodSubmit
  <1>7. ASSUME mp_send_prepare(r, p) PROVE Submits(r, p, NoStream)
    <2> DEFINE how == [Plain("mp_send_prepare", "SEND", "later") EXCEPT
                     !.state = "PREPARED", !.after = "PREPARED"]
    <2>1. Regular(how) /\ Fits(how, NoStream)
      BY DEF Regular, Fits, Plain, How, AllCalls
    <2>2. Submit(r, p, NoStream, how)
      BY <1>7 DEF mp_send_prepare
    <2> HIDE DEF how
    <2>3. QED
      BY <2>1, <2>2, GoodSubmit
  <1>8. ASSUME mp_sendv_prepare(r, p) PROVE Submits(r, p, NoStream)
    <2> DEFINE how == [Plain("mp_sendv_prepare", "SEND", "later") EXCEPT
                     !.state = "PREPARED", !.after = "PREPARED"]
    <2>1. Regular(how) /\ Fits(how, NoStream)
      BY DEF Regular, Fits, Plain, How, AllCalls
    <2>2. Submit(r, p, NoStream, how)
      BY <1>8 DEF mp_sendv_prepare
    <2> HIDE DEF how
    <2>3. QED
      BY <2>1, <2>2, GoodSubmit
  <1>9. ASSUME mp_put_prepare(r, p, nw) PROVE Submits(r, p, NoStream)
    <2> DEFINE how == [Plain("mp_put_prepare", "RDMA", "later") EXCEPT
                     !.state = "PREPARED", !.after = "PREPARED", !.nowait = nw, !.undo = TRUE]
    <2>1. Regular(how) /\ Fits(how, NoStream)
      BY DEF Regular, Fits, Plain, How, AllCalls
    <2>2. Submit(r, p, NoStream, how)
      BY <1>9 DEF mp_put_prepare
    <2> HIDE DEF how
    <2>3. QED
      BY <2>1, <2>2, GoodSubmit
  <1>10. QED
    BY <1>1, <1>2, <1>3, <1>4, <1>5, <1>6, <1>7, <1>8, <1>9

LEMMA StreamCalls ==
    ASSUME NEW r, NEW p, NEW s \in Streams, NEW nw \in BOOLEAN
    PROVE  /\ mp_send_on_stream(r, p, s) => Submits(r, p, s)
           /\ mp_isend_on_stream(r, p, s) => Submits(r, p, s)
           /\ mp_isendv_on_stream(r, p, s) => Submits(r, p, s)
           /\ mp_iget_on_stream(r, p, s) => Submits(r, p, s)
           /\ mp_iput_on_stream(r, p, s, nw) => Submits(r, p, s)
  <1>1. ASSUME mp_send_on_stream(r, p, s) PROVE Submits(r, p, s)
    <2> DEFINE how == [Plain("mp_send_on_stream", "SEND", "stream") EXCEPT
                     !.state = "PENDING", !.after = "PENDING", !.block = TRUE]
    <2>1. Regular(how) /\ Fits(how, s)
      BY DEF Regular, Fits, Plain, How, AllCalls
    <2>2. Submit(r, p, s, how)
      BY <1>1 DEF mp_send_on_stream
    <2> HIDE DEF how
    <2>3. QED
      BY <2>1, <2>2, GoodSubmit
  <1>2. ASSUME mp_isend_on_stream(r, p, s) PROVE Submits(r, p, s)
    <2> DEFINE how == [Plain("mp_isend_on_stream", "SEND", "stream") EXCEPT !.full = "forever"]
    <2>1. Regular(how) /\ Fits(how, s)
      BY DEF Regular, Fits, Plain, How, AllCalls
    <2>2. Submit(r, p, s, how)
      BY <1>2 DEF mp_isend_on_stream
    <2> HIDE DEF how
    <2>3. QED
      BY <2>1, <2>2, GoodSubmit
  <1>3. ASSUME mp_isendv_on_stream(r, p, s) PROVE Submits(r, p, s)
    <2> DEFINE how == Plain("mp_isendv_on_stream", "SEND", "stream")
    <2>1. Regular(how) /\ Fits(how, s)
      BY DEF Regular, Fits, Plain, How, AllCalls
    <2>2. Submit(r, p, s, how)
      BY <1>3 DEF mp_isendv_on_stream
    <2> HIDE DEF how
    <2>3. QED
      BY <2>1, <2>2, GoodSubmit
  <1>4. ASSUME mp_iget_on_stream(r, p, s) PROVE Submits(r, p, s)
    <2> DEFINE how == Plain("mp_iget_on_stream", "RDMA", "stream")
    <2>1. Regular(how) /\ Fits(how, s)
      BY DEF Regular, Fits, Plain, How, AllCalls
    <2>2. Submit(r, p, s, how)
      BY <1>4 DEF mp_iget_on_stream
    <2> HIDE DEF how
    <2>3. QED
      BY <2>1, <2>2, GoodSubmit
  <1>5. ASSUME mp_iput_on_stream(r, p, s, nw) PROVE Submits(r, p, s)
    <2> DEFINE how == [Plain("mp_iput_on_stream", "RDMA", "stream") EXCEPT
                     !.full = "forever", !.nowait = nw, !.undo = TRUE,
                     !.after = IF nw THEN "COMPLETE" ELSE "PENDING_NOWAIT"]
    <2>1. Regular(how) /\ Fits(how, s)
      BY DEF Regular, Fits, Plain, How, AllCalls
    <2>2. Submit(r, p, s, how)
      BY <1>5 DEF mp_iput_on_stream
    <2> HIDE DEF how
    <2>3. QED
      BY <2>1, <2>2, GoodSubmit
  <1>6. QED
    BY <1>1, <1>2, <1>3, <1>4, <1>5

LEMMA SubmitCalls ==
    ASSUME CpuSubmit \/ StreamSubmit
    PROVE  \E r \in Reqs, p \in Peers, s \in Streams \union {NoStream} : Submits(r, p, s)
  <1>1. CASE CpuSubmit
    BY <1>1, CpuCalls DEF CpuSubmit
  <1>2. CASE StreamSubmit
    BY <1>2, StreamCalls DEF StreamSubmit
  <1>3. QED
    BY <1>1, <1>2

LEMMA SubmitType ==
    ASSUME TypeOK, NEW r \in Reqs, NEW p \in Peers,
           NEW s \in Streams \union {NoStream}, NEW how \in How, Submit(r, p, s, how)
    PROVE  TypeOK'
  <1>1. CASE Enqueue(r, p, s, how)
    BY <1>1, EnqueueType
  <1>2. CASE /\ Create(r, p, how, how.state, 0, 0)
             /\ pc' = "posting"
             /\ post' = [req |-> r, peer |-> p, stream |-> s, how |-> how]
             /\ UNCHANGED <<user, posted, rung, done, cq, polled, peek, stream, descs, waited>>
    <2>1. how.state \in States
      BY DEF How, States
    <2>2. post' \in Submission
      BY <1>2 DEF Submission
    <2>3. QED
      BY <1>2, <2>1, <2>2, CreateType DEF TypeOK
  <1>3. CASE /\ Abandon(r, p, how, 0)
             /\ UNCHANGED <<posted, rung, done, cq, polled, peek, stream, descs, pc, waited, post>>
    BY <1>3, AbandonType DEF TypeOK
  <1>4. QED
    BY <1>1, <1>2, <1>3 DEF Submit

LEMMA SetStatusType ==
    ASSUME TypeOK, NEW rs, NEW state \in States, SetStatus(rs, state), req' = req,
           \A r \in Reqs : r \in rs => status[r] # "UNDEF"
    PROVE  /\ status' \in [Reqs -> States] /\ req' \in [Reqs -> ReqFields]
           /\ \A x \in Reqs : status'[x] # "UNDEF" => req'[x].peer \in Peers /\ req'[x].type # "NULL"
  BY DEF TypeOK, SetStatus

LEMMA OnStreamType ==
    ASSUME TypeOK, NEW call, NEW s \in Streams, NEW ops \in Seq(Op), OnStream(call, s, ops)
    PROVE  /\ stream' \in [Streams -> Seq(Op)]
           /\ UNCHANGED <<req, user, posted, rung, done, cq, polled, peek, descs, pc, waited, post>>
  <1>1. stream[s] \o ops \in Seq(Op)
    BY SeqConcat DEF TypeOK
  <1>2. QED
    BY <1>1 DEF TypeOK, OnStream

LEMMA DeliveredType ==
    ASSUME NEW a \in Seq(Op), NEW b \in Seq(Op)
    PROVE  \A ops \in Delivered(a, b) : ops \in Seq(Op)
  <1>1. a \o b \in Seq(Op) /\ <<>> \in Seq(Op)
    BY SeqConcat
  <1>2. Delivered(a, b) \subseteq {a \o b, <<>>, a}
    BY DEF Delivered
  <1>3. QED
    BY <1>1, <1>2

\* What a call that posts or waits for requests it holds does to the types.
LEMMA HeldCallType ==
    ASSUME TypeOK, NEW call, NEW s \in Streams, NEW first \in Seq(Op), NEW second \in Seq(Op),
           \E ops \in Delivered(first, second) : OnStream(call, s, ops),
           NEW rs, NEW state \in States, SetStatus(rs, state) \/ UNCHANGED status,
           \A r \in Reqs : r \in rs => status[r] # "UNDEF"
    PROVE  TypeOK'
  <1>1. PICK ops \in Delivered(first, second) : OnStream(call, s, ops)
    OBVIOUS
  <1>2. ops \in Seq(Op)
    BY DeliveredType
  <1>3. req' = req
    BY <1>1 DEF OnStream
  <1>4. /\ status' \in [Reqs -> States] /\ req' \in [Reqs -> ReqFields]
        /\ \A x \in Reqs : status'[x] # "UNDEF" => req'[x].peer \in Peers /\ req'[x].type # "NULL"
    BY <1>3, SetStatusType DEF TypeOK
  <1>5. /\ stream' \in [Streams -> Seq(Op)]
        /\ UNCHANGED <<req, user, posted, rung, done, cq, polled, peek, descs, pc, waited, post>>
    BY <1>1, <1>2, OnStreamType
  <1>6. QED
    BY <1>4, <1>5 DEF TypeOK

LEMMA PostPreparedType ==
    ASSUME TypeOK, PostPrepared
    PROVE  TypeOK'
  <1>0. "PENDING" \in States /\ "PENDING_NOWAIT" \in States /\ "COMPLETE" \in States
        /\ "PREPARED" \in States
    BY DEF States
  <1>1. ASSUME NEW r \in Reqs, NEW s \in Streams, mp_send_post_on_stream(r, s) PROVE TypeOK'
    <2>1. status[r] # "UNDEF"
      BY <1>1 DEF mp_send_post_on_stream, PreparedAs, Prepared
    <2>2. <<SendOf(r)>> \in Seq(Op) /\ <<WaitOf(r)>> \in Seq(Op)
      BY <2>1, ChanType
    <2>3. /\ \E ops \in Delivered(<<SendOf(r)>>, <<WaitOf(r)>>) : OnStream("mp_send_post_on_stream", s, ops)
          /\ SetStatus({r}, "PENDING") /\ \A x \in Reqs : x \in {r} => status[x] # "UNDEF"
      BY <1>1, <2>1 DEF mp_send_post_on_stream
    <2>4. QED
      BY <1>0, <2>2, <2>3, HeldCallType
  <1>2. ASSUME NEW r \in Reqs, NEW s \in Streams, mp_isend_post_on_stream(r, s) PROVE TypeOK'
    <2>1. status[r] # "UNDEF"
      BY <1>2 DEF mp_isend_post_on_stream, PreparedAs, Prepared
    <2>2. <<SendOf(r)>> \in Seq(Op) /\ <<>> \in Seq(Op)
      BY <2>1, ChanType
    <2>3. /\ \E ops \in Delivered(<<SendOf(r)>>, <<>>) : OnStream("mp_isend_post_on_stream", s, ops)
          /\ SetStatus({r}, "PENDING_NOWAIT") /\ \A x \in Reqs : x \in {r} => status[x] # "UNDEF"
      BY <1>2, <2>1 DEF mp_isend_post_on_stream
    <2>4. QED
      BY <1>0, <2>2, <2>3, HeldCallType
  <1>3. ASSUME NEW r \in Reqs, NEW s \in Streams, mp_iput_post_on_stream(r, s) PROVE TypeOK'
    <2>1. status[r] # "UNDEF"
      BY <1>3 DEF mp_iput_post_on_stream, PreparedAs, Prepared
    <2>2. <<SendOf(r)>> \in Seq(Op) /\ <<>> \in Seq(Op)
      BY <2>1, ChanType
    <2>3. \E ops \in Delivered(<<SendOf(r)>>, <<>>) : OnStream("mp_iput_post_on_stream", s, ops)
      BY <1>3 DEF mp_iput_post_on_stream
    <2>4. PICK state \in States : SetStatus({r}, state)
      BY <1>0, <1>3 DEF mp_iput_post_on_stream
    <2>5. \A x \in Reqs : x \in {r} => status[x] # "UNDEF"
      BY <2>1
    <2>6. QED
      BY <2>2, <2>3, <2>4, <2>5, HeldCallType
  <1>4. ASSUME NEW a \in Reqs, NEW b \in Reqs, NEW s \in Streams,
               \/ mp_send_post_all_on_stream(a, b, s)
               \/ mp_isend_post_all_on_stream(a, b, s)
               \/ mp_iput_post_all_on_stream(a, b, s)
        PROVE  TypeOK'
    <2>1. status[a] # "UNDEF" /\ status[b] # "UNDEF"
      BY <1>4 DEF mp_send_post_all_on_stream, mp_isend_post_all_on_stream,
                  mp_iput_post_all_on_stream, PreparedAs, Prepared
    <2>2. /\ <<SendOf(a), SendOf(b)>> \in Seq(Op) /\ <<>> \in Seq(Op)
          /\ <<WaitOf(a), WaitOf(b)>> \in Seq(Op)
      BY <2>1, ChanType
    <2>3. \A x \in Reqs : x \in {a, b} => status[x] # "UNDEF"
      BY <2>1
    <2>4. CASE mp_send_post_all_on_stream(a, b, s)
      <3>1. /\ \E ops \in Delivered(<<SendOf(a), SendOf(b)>>, <<WaitOf(a), WaitOf(b)>>) :
                 OnStream("mp_send_post_all_on_stream", s, ops)
            /\ UNCHANGED status
        BY <2>4 DEF mp_send_post_all_on_stream
      <3>2. QED
        BY <1>0, <2>2, <2>3, <3>1, HeldCallType
    <2>5. CASE mp_isend_post_all_on_stream(a, b, s)
      <3>1. /\ \E ops \in Delivered(<<SendOf(a), SendOf(b)>>, <<>>) :
                 OnStream("mp_isend_post_all_on_stream", s, ops)
            /\ SetStatus({a, b}, "PENDING_NOWAIT")
        BY <2>5 DEF mp_isend_post_all_on_stream
      <3>2. QED
        BY <1>0, <2>2, <2>3, <3>1, HeldCallType
    <2>6. CASE mp_iput_post_all_on_stream(a, b, s)
      <3>1. /\ \E ops \in Delivered(<<SendOf(a), SendOf(b)>>, <<>>) :
                 OnStream("mp_iput_post_all_on_stream", s, ops)
            /\ SetStatus({a, b}, "PENDING_NOWAIT")
        BY <2>6 DEF mp_iput_post_all_on_stream
      <3>2. QED
        BY <1>0, <2>2, <2>3, <3>1, HeldCallType
    <2>7. QED
      BY <1>4, <2>4, <2>5, <2>6
  <1>5. ASSUME NEW q \in DescQueues, NEW s \in Streams, post_descs(q, s) PROVE TypeOK'
    <2>1. descs[q] \in Seq(Op) /\ <<>> \in Seq(Op)
      BY DEF TypeOK
    <2>2. PICK ops \in Delivered(descs[q], <<>>) : stream' = [stream EXCEPT ![s] = @ \o ops]
      BY <1>5 DEF post_descs
    <2>3. ops \in Seq(Op)
      BY <2>1, DeliveredType
    <2>4. stream[s] \o ops \in Seq(Op)
      BY <2>3, SeqConcat DEF TypeOK
    <2>5. stream' \in [Streams -> Seq(Op)] /\ descs' \in [DescQueues -> Seq(Op)]
      BY <1>5, <2>1, <2>2, <2>4 DEF post_descs, TypeOK
    <2>6. QED
      BY <1>5, <2>5 DEF post_descs, TypeOK
  <1>6. Batch \subseteq Reqs \X Reqs
    BY DEF Batch, TypeOK
  <1>7. QED
    BY <1>1, <1>2, <1>3, <1>4, <1>5, <1>6 DEF PostPrepared

LEMMA CollectType ==
    ASSUME TypeOK, NEW q \in DescQueues, NEW op \in Op, Collect(q, op),
           NEW r \in Reqs, NEW state \in States, SetStatus({r}, state), status[r] # "UNDEF"
    PROVE  TypeOK'
  <1>1. req' = req /\ \A x \in Reqs : x \in {r} => status[x] # "UNDEF"
    BY DEF Collect
  <1>2. /\ status' \in [Reqs -> States] /\ req' \in [Reqs -> ReqFields]
        /\ \A x \in Reqs : status'[x] # "UNDEF" => req'[x].peer \in Peers /\ req'[x].type # "NULL"
    BY <1>1, SetStatusType
  <1>3. Append(descs[q], op) \in Seq(Op)
    BY SeqAppend DEF TypeOK
  <1>4. descs' \in [DescQueues -> Seq(Op)]
    BY <1>3 DEF TypeOK, Collect, Append1
  <1>5. QED
    BY <1>2, <1>4 DEF TypeOK, Collect

LEMMA AbortType ==
    ASSUME TypeOK, NEW rs \in SUBSET Reqs, AbortPeeks(rs), req' = req
    PROVE  /\ status' \in [Reqs -> States] /\ req' \in [Reqs -> ReqFields]
           /\ \A x \in Reqs : status'[x] # "UNDEF" => req'[x].peer \in Peers /\ req'[x].type # "NULL"
           /\ peek' \in [Channels -> Seq({"busy", "free", "none"})]
  <1> DEFINE nw == {r \in rs : status[r] = "PENDING_NOWAIT"}
  <1>1. SetStatus(nw, "PENDING") /\ \A r \in Reqs : r \in nw => status[r] # "UNDEF"
    BY DEF AbortPeeks
  <1>2. peek' = [c \in Channels |-> [k \in DOMAIN peek[c] |->
                    IF \E r \in nw : Chan(r) = c /\ req[r].wait = k THEN "free" ELSE peek[c][k]]]
    BY DEF AbortPeeks
  <1> HIDE DEF nw
  <1>3. ASSUME NEW c \in Channels
        PROVE  peek'[c] \in Seq({"busy", "free", "none"})
    <2>1. peek[c] \in Seq({"busy", "free", "none"}) /\ DOMAIN peek[c] = 1..Len(peek[c])
          /\ Len(peek[c]) \in Nat
      BY DEF TypeOK
    <2>2. peek'[c] \in [1..Len(peek[c]) -> {"busy", "free", "none"}]
      BY <1>2, <2>1
    <2>3. QED
      BY <2>1, <2>2
  <1>4. peek' \in [Channels -> Seq({"busy", "free", "none"})]
    BY <1>2, <1>3
  <1>5. "PENDING" \in States
    BY DEF States
  <1>6. QED
    BY <1>1, <1>4, <1>5, SetStatusType

LEMMA CpuWaitType ==
    ASSUME TypeOK, CpuWait
    PROVE  TypeOK'
  <1>0. "PENDING" \in States /\ "PENDING_NOWAIT" \in States
    BY DEF States
  <1>1. ASSUME NEW r \in Reqs, NEW s \in Streams, mp_wait_on_stream(r, s) PROVE TypeOK'
    <2>1. status[r] # "UNDEF"
      BY <1>1 DEF mp_wait_on_stream, Waitable
    <2>2. <<WaitOf(r)>> \in Seq(Op) /\ <<>> \in Seq(Op)
      BY <2>1, ChanType
    <2>3. /\ \E ops \in Delivered(<<WaitOf(r)>>, <<>>) : OnStream("mp_wait_on_stream", s, ops)
          /\ SetStatus({r}, "PENDING") /\ \A x \in Reqs : x \in {r} => status[x] # "UNDEF"
      BY <1>1, <2>1 DEF mp_wait_on_stream
    <2>4. QED
      BY <1>0, <2>2, <2>3, HeldCallType
  <1>2. ASSUME NEW a \in Reqs, NEW b \in Reqs, NEW s \in Streams,
               mp_wait_all_on_stream(a, b, s)
        PROVE  TypeOK'
    <2>1. status[a] # "UNDEF"
      BY <1>2 DEF mp_wait_all_on_stream, Waitable
    <2>2. CASE /\ Waitable(b) /\ SetStatus({a, b}, "PENDING")
               /\ \E ops \in Delivered(<<WaitOf(a), WaitOf(b)>>, <<>>) :
                     OnStream("mp_wait_all_on_stream", s, ops)
      <3>1. status[b] # "UNDEF"
        BY <2>2 DEF Waitable
      <3>2. <<WaitOf(a), WaitOf(b)>> \in Seq(Op) /\ <<>> \in Seq(Op)
        BY <2>1, <3>1, ChanType
      <3>3. \A x \in Reqs : x \in {a, b} => status[x] # "UNDEF"
        BY <2>1, <3>1
      <3>4. QED
        BY <1>0, <2>2, <3>2, <3>3, HeldCallType
    <2>3. CASE SetStatus({a}, "PENDING") /\ OnStream("mp_wait_all_on_stream", s, <<>>)
      <3>1. <<>> \in Seq(Op)
        OBVIOUS
      <3>2. stream' \in [Streams -> Seq(Op)] /\ req' = req
        BY <2>3, <3>1, OnStreamType
      <3>3. \A x \in Reqs : x \in {a} => status[x] # "UNDEF"
        BY <2>1
      <3>4. /\ status' \in [Reqs -> States] /\ req' \in [Reqs -> ReqFields]
            /\ \A x \in Reqs : status'[x] # "UNDEF" => req'[x].peer \in Peers /\ req'[x].type # "NULL"
        BY <1>0, <2>3, <3>2, <3>3, SetStatusType
      <3>5. QED
        BY <2>3, <3>2, <3>4 DEF TypeOK, OnStream
    <2>4. QED
      BY <1>2, <2>2, <2>3 DEF mp_wait_all_on_stream
  <1>3. ASSUME NEW q \in DescQueues, NEW r \in Reqs, add_send(q, r) PROVE TypeOK'
    <2>1. status[r] # "UNDEF"
      BY <1>3 DEF add_send, Prepared
    <2>2. QED
      BY <1>0, <1>3, <2>1, ChanType, CollectType DEF add_send
  <1>4. ASSUME NEW q \in DescQueues, NEW r \in Reqs, add_wait(q, r) PROVE TypeOK'
    <2>1. status[r] # "UNDEF"
      BY <1>4 DEF add_wait, Waitable
    <2>2. QED
      BY <1>0, <1>4, <2>1, ChanType, CollectType DEF add_wait
  <1>5. ASSUME NEW rs \in SUBSET user, mp_wait_all(rs) PROVE TypeOK'
    <2>1. rs \in SUBSET Reqs /\ req' = req
      BY <1>5 DEF TypeOK, mp_wait_all
    <2>2. PICK before \in SUBSET Reqs : AbortPeeks(before)
      BY <1>5, <2>1 DEF mp_wait_all
    <2>3. QED
      BY <1>5, <2>1, <2>2, AbortType DEF TypeOK, mp_wait_all
  <1>6. CASE WaitReturn
    <2>1. waited \in SUBSET Reqs /\ Release(waited)
      BY <1>6 DEF TypeOK, WaitReturn
    <2>2. QED
      BY <1>6, <2>1, ReleaseType DEF TypeOK, WaitReturn
  <1>7. CASE WaitGpuError
    BY <1>7 DEF TypeOK, WaitGpuError
  <1>8. Batch \subseteq Reqs \X Reqs
    BY DEF Batch, TypeOK
  <1>9. QED
    BY <1>1, <1>2, <1>3, <1>4, <1>5, <1>6, <1>7, <1>8 DEF CpuWait

LEMMA ProgressType ==
    ASSUME TypeOK, Progress
    PROVE  TypeOK'
  <1>1. ASSUME NEW c \in Channels, mp_progress_single_flow(c) PROVE TypeOK'
    <2> DEFINE r == cq[c][polled[c] + 1].req
    <2>1. polled[c] + 1 \in DOMAIN cq[c] /\ polled' \in [Channels -> Nat]
      <3>1. cq[c] \in Seq([wqe : Nat, req : Reqs]) /\ polled[c] \in Nat /\ polled[c] < Len(cq[c])
        BY <1>1 DEF TypeOK, mp_progress_single_flow, Pollable
      <3>2. polled' = [polled EXCEPT ![c] = @ + 1]
        BY <1>1 DEF mp_progress_single_flow
      <3>3. QED
        BY <3>1, <3>2 DEF TypeOK
    <2>2. r \in Reqs
      <3>1. cq[c] \in Seq([wqe : Nat, req : Reqs])
        BY DEF TypeOK
      <3>2. cq[c][polled[c] + 1] \in [wqe : Nat, req : Reqs]
        BY <2>1, <3>1, SeqElem
      <3>3. QED
        BY <3>2
    <2>3. CASE status[r] \in {"PENDING_NOWAIT", "PENDING"} /\ SetStatus({r}, "COMPLETE") /\ UNCHANGED pc
      <3>1. "COMPLETE" \in States /\ req' = req /\ \A x \in Reqs : x \in {r} => status[x] # "UNDEF"
        BY <1>1, <2>3 DEF States, mp_progress_single_flow
      <3>2. /\ status' \in [Reqs -> States] /\ req' \in [Reqs -> ReqFields]
            /\ \A x \in Reqs : status'[x] # "UNDEF" => req'[x].peer \in Peers /\ req'[x].type # "NULL"
        BY <2>3, <3>1, SetStatusType
      <3>3. QED
        BY <1>1, <2>1, <2>3, <3>2 DEF TypeOK, mp_progress_single_flow
    <2>4. CASE pc' = "exited" /\ UNCHANGED status
      BY <1>1, <2>1, <2>4 DEF TypeOK, mp_progress_single_flow
    <2>5. QED
      BY <1>1, <2>3, <2>4 DEF mp_progress_single_flow
  <1>2. ASSUME NEW c \in Channels, HcaExecute(c) PROVE TypeOK'
    <2>1. done' \in [Channels -> Nat]
      BY <1>2 DEF TypeOK, HcaExecute
    <2>2. UNCHANGED <<status, req, user, posted, rung, cq, polled, peek, stream, descs, pc, waited, post>>
      BY <1>2 DEF HcaExecute
    <2>3. QED
      BY <2>1, <2>2 DEF TypeOK
  <1>3. ASSUME NEW s \in Streams, StreamSend(s) PROVE TypeOK'
    <2>1. Head(stream[s]) \in Op /\ Tail(stream[s]) \in Seq(Op)
      BY <1>3, SeqTail DEF TypeOK, StreamSend
    <2>2. stream' \in [Streams -> Seq(Op)]
      BY <1>3, <2>1 DEF TypeOK, StreamSend
    <2>3. Head(stream[s]).chan \in Channels /\ Head(stream[s]).index \in Nat
      BY <2>1 DEF Op
    <2>4. rung' \in [Channels -> Nat]
      BY <1>3, <2>3 DEF TypeOK, StreamSend
    <2>5. QED
      BY <1>3, <2>2, <2>4 DEF TypeOK, StreamSend
  <1>4. ASSUME NEW s \in Streams, StreamWait(s) PROVE TypeOK'
    <2> DEFINE op == Head(stream[s])
    <2>1. op \in Op /\ Tail(stream[s]) \in Seq(Op)
      BY <1>4, SeqTail DEF TypeOK, StreamWait
    <2>2. op.chan \in Channels /\ op.index \in Nat
      BY <2>1 DEF Op
    <2>3. peek' = [peek EXCEPT ![op.chan][op.index] = "free"] /\ stream' = [stream EXCEPT ![s] = Tail(@)]
      BY <1>4 DEF StreamWait
    <2> HIDE DEF op
    <2>4. [peek[op.chan] EXCEPT ![op.index] = "free"] \in Seq({"busy", "free", "none"})
      <3>1. /\ peek[op.chan] \in [1..Len(peek[op.chan]) -> {"busy", "free", "none"}]
            /\ Len(peek[op.chan]) \in Nat
        BY <2>2 DEF TypeOK
      <3>2. [peek[op.chan] EXCEPT ![op.index] = "free"] \in
               [1..Len(peek[op.chan]) -> {"busy", "free", "none"}]
        BY <3>1
      <3>3. QED
        BY <3>1, <3>2
    <2>5. peek' \in [Channels -> Seq({"busy", "free", "none"})]
      BY <2>2, <2>3, <2>4 DEF TypeOK
    <2>6. stream' \in [Streams -> Seq(Op)]
      BY <2>1, <2>3 DEF TypeOK
    <2>7. QED
      BY <1>4, <2>5, <2>6 DEF TypeOK, StreamWait
  <1>5. CASE PostRetry
    <2>1. post \in Submission
      BY <1>5 DEF TypeOK, PostRetry
    <2>2. QED
      BY <1>5, <2>1, EnqueueType DEF PostRetry, Submission
  <1>6. CASE PostGiveUp
    <2>1. post \in Submission
      BY <1>6 DEF TypeOK, PostGiveUp
    <2>2. QED
      BY <1>6, <2>1, AbandonType DEF PostGiveUp, Submission, TypeOK
  <1>7. QED
    BY <1>1, <1>2, <1>3, <1>4, <1>5, <1>6 DEF Progress

LEMMA NextType == TypeOK /\ [Next]_vars => TypeOK'
  <1> SUFFICES ASSUME TypeOK, [Next]_vars PROVE TypeOK'
    OBVIOUS
  <1>1. CASE CpuSubmit \/ StreamSubmit
    <2>1. PICK r \in Reqs, p \in Peers, s \in Streams \union {NoStream} : Submits(r, p, s)
      BY <1>1, SubmitCalls
    <2>2. PICK how \in How : Submit(r, p, s, how)
      BY <2>1 DEF Submits
    <2>3. QED
      BY <2>2, SubmitType
  <1>2. CASE PostPrepared
    BY <1>2, PostPreparedType
  <1>3. CASE CpuWait
    BY <1>3, CpuWaitType
  <1>4. CASE Progress
    BY <1>4, ProgressType
  <1>5. CASE UNCHANGED vars
    BY <1>5 DEF vars, TypeOK
  <1>6. QED
    BY <1>1, <1>2, <1>3, <1>4, <1>5 DEF Next

\* Type correctness of the request engine, for any pool, any number of peers and
\* streams, any queue depth and any calls, faults and liberties.
THEOREM TypeCorrect == Spec => []TypeOK
  BY InitType, NextType, PTL DEF Spec

-----------------------------------------------------------------------------
(* The inductive invariant *)

LEMMA ElemsConcat ==
    ASSUME NEW S, NEW s \in Seq(S), NEW t \in Seq(S)
    PROVE  Elems(s \o t) \subseteq Elems(s) \union Elems(t)
  BY SeqConcat DEF Elems

LEMMA ElemsAppend ==
    ASSUME NEW S, NEW s \in Seq(S), NEW e \in S
    PROVE  Elems(Append(s, e)) \subseteq Elems(s) \union {e}
  <1>1. DOMAIN Append(s, e) = 1..(Len(s) + 1) /\ DOMAIN s = 1..Len(s)
    OBVIOUS
  <1>2. QED
    BY <1>1, SeqAppend DEF Elems

LEMMA ElemsTail ==
    ASSUME NEW S, NEW s \in Seq(S), s # <<>>
    PROVE  Elems(Tail(s)) \subseteq Elems(s) /\ Head(s) \in Elems(s)
  BY SeqTail DEF Elems

LEMMA ElemsType ==
    ASSUME TypeOK
    PROVE  /\ \A s \in Streams : Elems(stream[s]) \subseteq Op
           /\ \A q \in DescQueues : Elems(descs[q]) \subseteq Op
  BY SeqElem DEF TypeOK, Elems

\* The waits stay harmless when those queued before do and those added are.
LEMMA WaitOpsStep ==
    ASSUME TypeOK, WaitOps, NEW new,
           \A op \in Op : WaitOK(op) => WaitOK(op)',
           \A op \in new : WaitOK(op)',
           \A s \in Streams : Elems(stream'[s]) \subseteq Elems(stream[s]) \union new
                              \/ \E q \in DescQueues :
                                    Elems(stream'[s]) \subseteq Elems(stream[s]) \union Elems(descs[q]),
           \A q \in DescQueues : Elems(descs'[q]) \subseteq Elems(descs[q]) \union new
    PROVE  WaitOps'
  <1>1. /\ \A s \in Streams : \A op \in Elems(stream[s]) : WaitOK(op)'
        /\ \A q \in DescQueues : \A op \in Elems(descs[q]) : WaitOK(op)'
    BY ElemsType DEF WaitOps
  <1>2. ASSUME NEW s \in Streams, NEW op \in Elems(stream'[s]) PROVE WaitOK(op)'
    BY <1>1
  <1>3. ASSUME NEW q \in DescQueues, NEW op \in Elems(descs'[q]) PROVE WaitOK(op)'
    BY <1>1
  <1>4. QED
    BY <1>2, <1>3 DEF WaitOps

LEMMA InitInv == Init => Inv
  <1> SUFFICES ASSUME Init PROVE Inv
    OBVIOUS
  <1>1. \A c \in Channels : ToPoll(c) = {}
    BY DEF Init, ToPoll
  <1>2. Aligned /\ Owners /\ OneEach
    BY <1>1 DEF Init, Aligned, Owners, OneEach
  <1>3. Handles /\ WaitOps /\ Posting /\ waited \subseteq user /\ pc # "exited"
    BY DEF Init, Handles, WaitOps, Posting, Elems
  <1>4. QED
    BY <1>2, <1>3 DEF Inv

\* The requests of the completions to come.
LEMMA OwnerIsReq ==
    ASSUME TypeOK, NEW c \in Channels, NEW k \in ToPoll(c)
    PROVE  cq[c][k].req \in Reqs /\ k \in 1..Len(cq[c]) /\ k > polled[c]
  <1>1. cq[c] \in Seq([wqe : Nat, req : Reqs]) /\ polled[c] \in Nat
    BY DEF TypeOK
  <1>2. Len(cq[c]) \in Nat /\ DOMAIN cq[c] = 1..Len(cq[c])
    BY <1>1
  <1>3. k \in 1..Len(cq[c]) /\ k > polled[c]
    BY <1>1, <1>2 DEF ToPoll
  <1>4. cq[c][k] \in [wqe : Nat, req : Reqs]
    BY <1>1, <1>2, <1>3, SeqElem
  <1>5. QED
    BY <1>3, <1>4

\* The statuses a call may give the requests it is passed.
StatusMoves ==
    \A r \in Reqs :
        \/ status'[r] = status[r]
        \/ r \in user /\ status'[r] = "PENDING"
        \/ r \in user /\ status'[r] = "PENDING_NOWAIT" /\ status[r] = "PREPARED"
        \/ r \in user /\ status'[r] = "COMPLETE" /\ req[r].type = "RDMA" /\ req[r].nowait

\* A step that leaves the completions alone: the status of a held request moves
\* forward, guards are freed that hide no prepared request, waits are queued.
HeldStep(new) ==
    /\ UNCHANGED <<req, user, cq, polled>>
    /\ pc' # "exited"
    /\ pc' = "posting" => UNCHANGED <<pc, post, status>>
    /\ waited' \subseteq user
    /\ \A c \in Channels : Len(peek'[c]) = Len(peek[c])
    /\ StatusMoves
    /\ \A c \in Channels : \A k \in ToPoll(c) :
           peek'[c][k] = peek[c][k] \/ status'[cq[c][k].req] # "PREPARED"
    /\ \A op \in new : WaitOK(op)'
    /\ \A s \in Streams : Elems(stream'[s]) \subseteq Elems(stream[s]) \union new
                          \/ \E q \in DescQueues :
                                Elems(stream'[s]) \subseteq Elems(stream[s]) \union Elems(descs[q])
    /\ \A q \in DescQueues : Elems(descs'[q]) \subseteq Elems(descs[q]) \union new

LEMMA HeldStepInv ==
    ASSUME TypeOK, Inv, TypeOK', NEW new, HeldStep(new)
    PROVE  Inv'
  <1> USE DEF HeldStep, StatusMoves
  <1>0. /\ \A c \in Channels : ToPoll(c)' = ToPoll(c)
        /\ \A r \in Reqs : Chan(r)' = Chan(r) /\ req_can_be_waited(r)' = req_can_be_waited(r)
    BY DEF ToPoll, Chan, req_can_be_waited
  <1>1. ASSUME NEW c \in Channels, NEW k \in ToPoll(c) PROVE cq[c][k].req \in Reqs
    BY OwnerIsReq
  <1>2. Aligned'
    BY DEF Inv, Aligned
  <1>3. Owners'
    <2> SUFFICES ASSUME NEW c \in Channels, NEW k \in ToPoll(c) PROVE OwnerOK(c, k)'
      BY <1>0 DEF Owners
    <2>1. OwnerOK(c, k) /\ cq[c][k].req \in Reqs
      BY <1>1 DEF Inv, Owners
    <2>2. QED
      BY <1>0, <2>1 DEF OwnerOK, Pending
  <1>4. OneEach'
    BY <1>0 DEF Inv, OneEach
  <1>5. Handles'
    <2> SUFFICES ASSUME NEW r \in user PROVE HandleOK(r)'
      BY DEF Handles
    <2>1. HandleOK(r) /\ r \in Reqs
      BY DEF Inv, Handles, TypeOK
    <2>2. Chan(r) \in Channels
      BY <2>1, ChanType DEF HandleOK
    <2>3. QED
      BY <1>0, <2>1, <2>2 DEF HandleOK, req_can_be_waited
  <1>6. WaitOps'
    <2>1. ASSUME NEW op \in Op, WaitOK(op) PROVE WaitOK(op)'
      <3>1. op.chan \in Channels
        BY DEF Op
      <3>2. QED
        BY <1>0, <1>1, <2>1, <3>1 DEF WaitOK
    <2>2. WaitOps
      BY DEF Inv
    <2>3. QED
      BY <2>1, <2>2, WaitOpsStep
  <1>7. Posting'
    BY <1>0 DEF Inv, Posting
  <1>8. QED
    BY <1>2, <1>3, <1>4, <1>5, <1>6, <1>7 DEF Inv

\* The GPU's and the HCA's steps, and the return on a GPU error.
LEMMA EngineStep ==
    ASSUME TypeOK, Inv, TypeOK', NEW s \in Streams, StreamSend(s) \/ StreamWait(s)
    PROVE  Inv'
  <1> DEFINE op == Head(stream[s])
  <1>1. /\ UNCHANGED <<req, user, cq, polled, status, descs, post>>
        /\ pc' = pc \/ pc' = "idle"
        /\ waited' \subseteq waited
        /\ \/ UNCHANGED <<peek, stream>>
           \/ stream[s] # <<>> /\ UNCHANGED peek /\ stream' = [stream EXCEPT ![s] = Tail(@)]
           \/ StreamWait(s)
    BY DEF StreamSend, StreamWait
  <1>2. \A t \in Streams : Elems(stream'[t]) \subseteq Elems(stream[t]) \union {}
    <2>1. CASE stream' = stream
      BY <2>1
    <2>2. CASE stream[s] # <<>> /\ stream' = [stream EXCEPT ![s] = Tail(@)]
      <3>1. stream[s] \in Seq(Op)
        BY DEF TypeOK
      <3>2. Elems(Tail(stream[s])) \subseteq Elems(stream[s])
        BY <2>2, <3>1, ElemsTail
      <3>3. QED
        BY <2>2, <3>2 DEF TypeOK
    <2>3. QED
      BY <1>1, <2>1, <2>2 DEF StreamWait
  <1>3. /\ \A d \in Channels : Len(peek'[d]) = Len(peek[d])
        /\ \A d \in Channels : \A k \in ToPoll(d) :
              peek'[d][k] = peek[d][k] \/ status'[cq[d][k].req] # "PREPARED"
    <2>1. CASE UNCHANGED peek
      BY <2>1
    <2>2. CASE StreamWait(s)
      <3>1. op \in Elems(stream[s]) /\ op \in Op /\ op.op = "wait"
        BY <2>2, ElemsTail, ElemsType DEF StreamWait, TypeOK
      <3>2. op.chan \in Channels /\ op.index \in Nat
        BY <3>1 DEF Op
      <3>3. WaitOK(op)
        BY <3>1 DEF Inv, WaitOps
      <3>4. peek' = [peek EXCEPT ![op.chan][op.index] = "free"] /\ UNCHANGED status
        BY <2>2 DEF StreamWait
      <3> HIDE DEF op
      <3>5. \A d \in Channels : peek[d] \in Seq({"busy", "free", "none"})
                                /\ peek'[d] \in Seq({"busy", "free", "none"})
        BY DEF TypeOK
      <3>6. \A d \in Channels : DOMAIN peek'[d] = DOMAIN peek[d]
        BY <3>2, <3>4 DEF TypeOK
      <3>7. \A d \in Channels : Len(peek'[d]) = Len(peek[d])
        BY <3>5, <3>6
      <3>8. ASSUME NEW d \in Channels, NEW k \in ToPoll(d)
            PROVE  peek'[d][k] = peek[d][k] \/ status'[cq[d][k].req] # "PREPARED"
        <4>1. CASE d = op.chan /\ k = op.index
          BY <3>1, <3>3, <3>4, <4>1 DEF WaitOK
        <4>2. CASE d # op.chan
          BY <3>4, <4>2 DEF TypeOK
        <4>3. CASE d = op.chan /\ k # op.index
          <5>1. peek'[d] = [peek[d] EXCEPT ![op.index] = "free"]
            BY <3>2, <3>4, <4>3 DEF TypeOK
          <5>2. QED
            BY <4>3, <5>1
        <4>4. QED
          BY <4>1, <4>2, <4>3
      <3>9. QED
        BY <3>7, <3>8
    <2>3. QED
      BY <1>1, <2>1, <2>2
  <1>4. /\ pc' # "exited" /\ waited' \subseteq user
        /\ pc' = "posting" => UNCHANGED <<pc, post, status>>
    BY <1>1 DEF Inv
  <1>5. \A q \in DescQueues : Elems(descs'[q]) \subseteq Elems(descs[q]) \union {}
    BY <1>1
  <1>6. UNCHANGED <<req, user, cq, polled>> /\ \A r \in Reqs : status'[r] = status[r]
    BY <1>1
  <1>7. HeldStep({})
    BY <1>2, <1>3, <1>4, <1>5, <1>6 DEF HeldStep, StatusMoves
  <1>8. QED
    BY <1>7, HeldStepInv

LEMMA ElemsFew ==
    /\ Elems(<<>>) = {}
    /\ \A a : Elems(<<a>>) = {a}
    /\ \A a, b : Elems(<<a, b>>) = {a, b}
  BY DEF Elems

LEMMA ElemsDelivered ==
    ASSUME NEW a \in Seq(Op), NEW b \in Seq(Op), NEW ops \in Delivered(a, b)
    PROVE  Elems(ops) \subseteq Elems(a) \union Elems(b)
  <1>1. Elems(a \o b) \subseteq Elems(a) \union Elems(b)
    BY ElemsConcat
  <1>2. ops \in {a \o b, <<>>, a}
    BY DEF Delivered
  <1>3. QED
    BY <1>1, <1>2, ElemsFew

\* The wait for a held request that turns MP_PENDING.
LEMMA WaitOfOK ==
    ASSUME TypeOK, Inv, NEW r \in user, req_can_be_waited(r), status[r] # "PENDING",
           status'[r] = "PENDING", UNCHANGED <<cq, polled>>
    PROVE  \A op : op = WaitOf(r) => WaitOK(op)'
  <1> SUFFICES ASSUME NEW op, op = WaitOf(r) PROVE WaitOK(op)'
    OBVIOUS
  <1>1. HandleOK(r) /\ r \in Reqs /\ Aligned
    BY DEF Inv, Handles, TypeOK
  <1>2. Chan(r) \in Channels /\ status[r] \in {"PREPARED", "PENDING_NOWAIT", "COMPLETE"}
    BY <1>1, ChanType DEF HandleOK, TypeOK, States
  <1>3. op.chan = Chan(r) /\ op.index = req[r].wait
    BY DEF WaitOf, WaitOp
  <1>4. cq[Chan(r)] \in Seq([wqe : Nat, req : Reqs]) /\ polled[Chan(r)] \in Nat /\ req[r].wait \in Nat
    BY <1>1, <1>2 DEF TypeOK, ReqFields
  <1>5. ToPoll(Chan(r)) = (polled[Chan(r)] + 1)..Len(cq[Chan(r)]) /\ Len(cq[Chan(r)]) \in Nat
    BY <1>4 DEF ToPoll
  <1>6. CASE status[r] \in {"PREPARED", "PENDING_NOWAIT"}
    <2>1. req[r].wait \in ToPoll(Chan(r)) /\ cq[Chan(r)][req[r].wait].req = r
      BY <1>1, <1>6 DEF HandleOK
    <2>2. req[r].wait <= Len(cq[Chan(r)])
      BY <2>1, <1>4, <1>5
    <2>3. QED
      BY <1>3, <2>1, <2>2 DEF WaitOK
  <1>7. CASE status[r] = "COMPLETE"
    <2>1. req[r].wait <= polled[Chan(r)] /\ polled[Chan(r)] <= Len(cq[Chan(r)])
      BY <1>1, <1>2, <1>7 DEF HandleOK, Aligned
    <2>2. req[r].wait <= Len(cq[Chan(r)]) /\ req[r].wait \notin ToPoll(Chan(r))
      BY <2>1, <1>4, <1>5
    <2>3. op.index \notin ToPoll(op.chan)'
      BY <1>3, <2>2 DEF ToPoll
    <2>4. QED
      BY <1>3, <2>2, <2>3 DEF WaitOK
  <1>8. QED
    BY <1>2, <1>6, <1>7

LEMMA HeldCallInv ==
    ASSUME TypeOK, Inv, TypeOK', NEW call, NEW s \in Streams,
           NEW first \in Seq(Op), NEW second \in Seq(Op),
           NEW ops \in Delivered(first, second), OnStream(call, s, ops), StatusMoves,
           \A op \in Elems(first) \union Elems(second) : WaitOK(op)'
    PROVE  Inv'
  <1> DEFINE new == Elems(first) \union Elems(second)
  <1>1. Elems(ops) \subseteq new /\ ops \in Seq(Op)
    BY ElemsDelivered, DeliveredType
  <1>2. Elems(stream[s] \o ops) \subseteq Elems(stream[s]) \union Elems(ops)
    BY <1>1, ElemsConcat DEF TypeOK
  <1>3. \A t \in Streams : Elems(stream'[t]) \subseteq Elems(stream[t]) \union new
    BY <1>1, <1>2 DEF OnStream, TypeOK
  <1> HIDE DEF new
  <1>4. HeldStep(new)
    <2>1. UNCHANGED <<req, user, cq, polled, descs, peek, pc, waited>> /\ pc = "idle"
      BY DEF OnStream
    <2>2. \A op \in new : WaitOK(op)'
      BY DEF new
    <2>3. QED
      BY <1>3, <2>1, <2>2 DEF HeldStep, Inv
  <1>5. QED
    BY <1>4, HeldStepInv

LEMMA SendOK == \A r, op : op = SendOf(r) => WaitOK(op)'
  BY DEF SendOf, SendOp, WaitOK

LEMMA PostPreparedInv ==
    ASSUME SafeUse, TypeOK, Inv, TypeOK', PostPrepared
    PROVE  Inv'
  <1>0. <<>> \in Seq(Op) /\ user \subseteq Reqs
    BY DEF TypeOK
  <1>1. ASSUME NEW r \in Reqs, NEW s \in Streams, mp_send_post_on_stream(r, s) PROVE Inv'
    <2>1. r \in user /\ status[r] = "PREPARED" /\ req[r].type = "SEND" /\ HandleOK(r)
      BY <1>1 DEF mp_send_post_on_stream, PreparedAs, Prepared, Inv, Handles
    <2>2. <<SendOf(r)>> \in Seq(Op) /\ <<WaitOf(r)>> \in Seq(Op)
      BY <2>1, ChanType
    <2>3. PICK ops \in Delivered(<<SendOf(r)>>, <<WaitOf(r)>>) : OnStream("mp_send_post_on_stream", s, ops)
      BY <1>1 DEF mp_send_post_on_stream
    <2>4. StatusMoves /\ status'[r] = "PENDING"
      BY <1>1, <2>1 DEF mp_send_post_on_stream, SetStatus, StatusMoves
    <2>5. req_can_be_waited(r) /\ UNCHANGED <<cq, polled>>
      BY <2>1, <2>3 DEF HandleOK, req_can_be_waited, OnStream
    <2>6. \A op : op = WaitOf(r) => WaitOK(op)'
      BY <2>1, <2>4, <2>5, WaitOfOK
    <2>7. \A op \in Elems(<<SendOf(r)>>) \union Elems(<<WaitOf(r)>>) : WaitOK(op)'
      BY <2>6, SendOK, ElemsFew
    <2>8. QED
      BY <2>2, <2>3, <2>4, <2>7, HeldCallInv
  <1>2. ASSUME NEW r \in Reqs, NEW s \in Streams, mp_isend_post_on_stream(r, s) PROVE Inv'
    <2>1. r \in user /\ status[r] = "PREPARED"
      BY <1>2 DEF mp_isend_post_on_stream, PreparedAs, Prepared
    <2>2. <<SendOf(r)>> \in Seq(Op)
      BY <2>1, ChanType
    <2>3. PICK ops \in Delivered(<<SendOf(r)>>, <<>>) : OnStream("mp_isend_post_on_stream", s, ops)
      BY <1>2 DEF mp_isend_post_on_stream
    <2>4. StatusMoves
      BY <1>2, <2>1 DEF mp_isend_post_on_stream, SetStatus, StatusMoves
    <2>5. \A op \in Elems(<<SendOf(r)>>) \union Elems(<<>>) : WaitOK(op)'
      BY SendOK, ElemsFew
    <2>6. QED
      BY <1>0, <2>2, <2>3, <2>4, <2>5, HeldCallInv
  <1>3. ASSUME NEW r \in Reqs, NEW s \in Streams, mp_iput_post_on_stream(r, s) PROVE Inv'
    <2>1. r \in user /\ status[r] = "PREPARED" /\ req[r].type = "RDMA"
      BY <1>3 DEF mp_iput_post_on_stream, PreparedAs, Prepared
    <2>2. <<SendOf(r)>> \in Seq(Op)
      BY <2>1, ChanType
    <2>3. PICK ops \in Delivered(<<SendOf(r)>>, <<>>) :
             /\ OnStream("mp_iput_post_on_stream", s, ops)
             /\ SetStatus({r}, IF ops = <<>> THEN "PREPARED"
                               ELSE IF req[r].nowait THEN "COMPLETE" ELSE "PENDING_NOWAIT")
      BY <1>3 DEF mp_iput_post_on_stream
    <2>4. StatusMoves
      BY <2>1, <2>3 DEF SetStatus, StatusMoves
    <2>5. \A op \in Elems(<<SendOf(r)>>) \union Elems(<<>>) : WaitOK(op)'
      BY SendOK, ElemsFew
    <2>6. QED
      BY <1>0, <2>2, <2>3, <2>4, <2>5, HeldCallInv
  <1>4. ASSUME NEW a \in Reqs, NEW b \in Reqs, NEW s \in Streams,
               \/ mp_isend_post_all_on_stream(a, b, s)
               \/ mp_iput_post_all_on_stream(a, b, s)
        PROVE  Inv'
    <2>1. a \in user /\ status[a] = "PREPARED" /\ b \in user /\ status[b] = "PREPARED"
      BY <1>4 DEF mp_isend_post_all_on_stream, mp_iput_post_all_on_stream, PreparedAs, Prepared
    <2>2. <<SendOf(a), SendOf(b)>> \in Seq(Op)
      BY <2>1, ChanType
    <2>3. PICK ops \in Delivered(<<SendOf(a), SendOf(b)>>, <<>>) : \E call : OnStream(call, s, ops)
      BY <1>4 DEF mp_isend_post_all_on_stream, mp_iput_post_all_on_stream
    <2>4. StatusMoves
      BY <1>4, <2>1 DEF mp_isend_post_all_on_stream, mp_iput_post_all_on_stream, SetStatus, StatusMoves
    <2>5. \A op \in Elems(<<SendOf(a), SendOf(b)>>) \union Elems(<<>>) : WaitOK(op)'
      BY SendOK, ElemsFew
    <2>6. QED
      BY <1>0, <2>2, <2>3, <2>4, <2>5, HeldCallInv
  <1>5. ASSUME NEW q \in DescQueues, NEW s \in Streams, post_descs(q, s) PROVE Inv'
    <2>1. descs[q] \in Seq(Op)
      BY DEF TypeOK
    <2>2. PICK ops \in Delivered(descs[q], <<>>) : stream' = [stream EXCEPT ![s] = @ \o ops]
      BY <1>5 DEF post_descs
    <2>3. ops \in Seq(Op) /\ Elems(ops) \subseteq Elems(descs[q])
      BY <1>0, <2>1, DeliveredType, ElemsDelivered, ElemsFew
    <2>4. Elems(stream[s] \o ops) \subseteq Elems(stream[s]) \union Elems(descs[q])
      BY <2>3, ElemsConcat DEF TypeOK
    <2>5. \A t \in Streams : Elems(stream'[t]) \subseteq Elems(stream[t]) \union Elems(descs[q])
      BY <2>2, <2>4 DEF TypeOK
    <2>6. \A t \in DescQueues : Elems(descs'[t]) \subseteq Elems(descs[t]) \union {}
      BY <1>5, ElemsFew DEF post_descs, TypeOK
    <2>7. /\ UNCHANGED <<req, user, cq, polled, status, peek, pc, waited>> /\ pc = "idle"
          /\ waited \subseteq user /\ StatusMoves
      BY <1>5 DEF post_descs, Inv, StatusMoves
    <2>8. HeldStep({})
      BY <2>5, <2>6, <2>7 DEF HeldStep
    <2>9. QED
      BY <2>8, HeldStepInv
  <1>6. ASSUME NEW a, NEW b, NEW s PROVE ~mp_send_post_all_on_stream(a, b, s)
    BY DEF SafeUse, mp_send_post_all_on_stream, OnStream
  <1>7. Batch \subseteq Reqs \X Reqs
    BY DEF Batch, TypeOK
  <1>8. QED
    BY <1>1, <1>2, <1>3, <1>4, <1>5, <1>6, <1>7 DEF PostPrepared

\* Freeing the guards of held requests that turn from MP_PENDING_NOWAIT to
\* MP_PENDING frees no guard of another request.
LEMMA AbortInv ==
    ASSUME TypeOK, Inv, TypeOK', NEW rs \in SUBSET user, AbortPeeks(rs),
           \A r \in rs : req_can_be_waited(r),
           UNCHANGED <<req, user, cq, polled, stream, descs>>,
           pc' \in {"idle", "waiting"}, waited' \subseteq user
    PROVE  Inv'
  <1> DEFINE nw == {r \in rs : status[r] = "PENDING_NOWAIT"}
  <1>1. /\ peek' = [c \in Channels |-> [k \in DOMAIN peek[c] |->
                       IF \E r \in nw : Chan(r) = c /\ req[r].wait = k THEN "free" ELSE peek[c][k]]]
        /\ SetStatus(nw, "PENDING")
    BY DEF AbortPeeks
  <1>2. ASSUME NEW c \in Channels PROVE Len(peek'[c]) = Len(peek[c])
    <2>1. /\ peek[c] \in Seq({"busy", "free", "none"})
          /\ peek'[c] \in Seq({"busy", "free", "none"})
      BY DEF TypeOK
    <2>2. DOMAIN peek'[c] = DOMAIN peek[c]
      BY <1>1
    <2>3. QED
      BY <2>1, <2>2
  <1>3. ASSUME NEW c \in Channels, NEW k \in ToPoll(c)
        PROVE  peek'[c][k] = peek[c][k] \/ status'[cq[c][k].req] # "PREPARED"
    <2>1. k \in DOMAIN peek[c]
      <3>1. k \in 1..Len(cq[c]) /\ Len(peek[c]) = Len(cq[c])
        BY OwnerIsReq DEF Inv, Aligned
      <3>2. peek[c] \in Seq({"busy", "free", "none"})
        BY DEF TypeOK
      <3>3. QED
        BY <3>1, <3>2
    <2>2. CASE \E r \in nw : Chan(r) = c /\ req[r].wait = k
      <3>1. PICK r \in nw : Chan(r) = c /\ req[r].wait = k
        BY <2>2
      <3>2. r \in user /\ r \in Reqs /\ req_can_be_waited(r) /\ status[r] = "PENDING_NOWAIT"
        BY DEF TypeOK
      <3>3. cq[c][k].req = r
        BY <3>1, <3>2 DEF Inv, Handles, HandleOK
      <3>4. status'[r] = "PENDING"
        BY <1>1, <3>2 DEF SetStatus
      <3>5. QED
        BY <3>3, <3>4
    <2>3. CASE ~\E r \in nw : Chan(r) = c /\ req[r].wait = k
      BY <1>1, <2>1, <2>3
    <2>4. QED
      BY <2>2, <2>3
  <1>4. StatusMoves
    BY <1>1 DEF SetStatus, StatusMoves
  <1> HIDE DEF nw
  <1>5. HeldStep({})
    BY <1>2, <1>3, <1>4 DEF HeldStep
  <1>6. QED
    BY <1>5, HeldStepInv

LEMMA CollectInv ==
    ASSUME TypeOK, Inv, TypeOK', NEW q \in DescQueues, NEW op \in Op, Collect(q, op),
           StatusMoves, WaitOK(op)'
    PROVE  Inv'
  <1>1. Elems(Append(descs[q], op)) \subseteq Elems(descs[q]) \union {op}
    BY ElemsAppend DEF TypeOK
  <1>2. \A t \in DescQueues : Elems(descs'[t]) \subseteq Elems(descs[t]) \union {op}
    BY <1>1 DEF Collect, Append1, TypeOK
  <1>3. /\ UNCHANGED <<req, user, cq, polled, stream, peek, pc, waited>> /\ pc = "idle"
        /\ waited \subseteq user
    BY DEF Collect, Inv
  <1>4. HeldStep({op})
    BY <1>2, <1>3 DEF HeldStep
  <1>5. QED
    BY <1>4, HeldStepInv

LEMMA CpuWaitInv ==
    ASSUME TypeOK, Inv, TypeOK', CpuWait
    PROVE  Inv'
  <1>0. <<>> \in Seq(Op) /\ user \subseteq Reqs
    BY DEF TypeOK
  <1>1. ASSUME NEW r \in Reqs, NEW s \in Streams, mp_wait_on_stream(r, s) PROVE Inv'
    <2>1. r \in user /\ status[r] \in {"PENDING_NOWAIT", "COMPLETE"} /\ req_can_be_waited(r)
      BY <1>1 DEF mp_wait_on_stream, Waitable
    <2>2. <<WaitOf(r)>> \in Seq(Op)
      BY <2>1, ChanType
    <2>3. PICK ops \in Delivered(<<WaitOf(r)>>, <<>>) : OnStream("mp_wait_on_stream", s, ops)
      BY <1>1 DEF mp_wait_on_stream
    <2>4. StatusMoves /\ status'[r] = "PENDING" /\ UNCHANGED <<cq, polled>>
      BY <1>1, <2>1, <2>3 DEF mp_wait_on_stream, SetStatus, StatusMoves, OnStream
    <2>5. \A op : op = WaitOf(r) => WaitOK(op)'
      BY <2>1, <2>4, WaitOfOK
    <2>6. \A op \in Elems(<<WaitOf(r)>>) \union Elems(<<>>) : WaitOK(op)'
      BY <2>5, ElemsFew
    <2>7. QED
      BY <1>0, <2>2, <2>3, <2>4, <2>6, HeldCallInv
  <1>2. ASSUME NEW a \in Reqs, NEW b \in Reqs, NEW s \in Streams, mp_wait_all_on_stream(a, b, s)
        PROVE  Inv'
    <2>1. a \in user /\ status[a] \in {"PENDING_NOWAIT", "COMPLETE"} /\ req_can_be_waited(a)
      BY <1>2 DEF mp_wait_all_on_stream, Waitable
    <2>2. CASE Waitable(b) /\ SetStatus({a, b}, "PENDING")
               /\ \E ops \in Delivered(<<WaitOf(a), WaitOf(b)>>, <<>>) :
                     OnStream("mp_wait_all_on_stream", s, ops)
      <3>1. b \in user /\ status[b] \in {"PENDING_NOWAIT", "COMPLETE"} /\ req_can_be_waited(b)
        BY <2>2 DEF Waitable
      <3>2. <<WaitOf(a), WaitOf(b)>> \in Seq(Op)
        BY <2>1, <3>1, ChanType
      <3>3. PICK ops \in Delivered(<<WaitOf(a), WaitOf(b)>>, <<>>) :
               OnStream("mp_wait_all_on_stream", s, ops)
        BY <2>2
      <3>4. /\ StatusMoves /\ status'[a] = "PENDING" /\ status'[b] = "PENDING"
            /\ UNCHANGED <<cq, polled>>
        BY <2>1, <2>2, <3>1, <3>3 DEF SetStatus, StatusMoves, OnStream
      <3>5. \A op : op = WaitOf(a) \/ op = WaitOf(b) => WaitOK(op)'
        BY <2>1, <3>1, <3>4, WaitOfOK
      <3>6. \A op \in Elems(<<WaitOf(a), WaitOf(b)>>) \union Elems(<<>>) : WaitOK(op)'
        BY <3>5, ElemsFew
      <3>7. QED
        BY <1>0, <3>2, <3>3, <3>4, <3>6, HeldCallInv
    <2>3. CASE SetStatus({a}, "PENDING") /\ OnStream("mp_wait_all_on_stream", s, <<>>)
      <3>1. <<>> \in Delivered(<<>>, <<>>)
        BY DEF Delivered
      <3>2. StatusMoves
        BY <2>1, <2>3 DEF SetStatus, StatusMoves
      <3>3. \A op \in Elems(<<>>) \union Elems(<<>>) : WaitOK(op)'
        BY ElemsFew
      <3>4. QED
        BY <1>0, <2>3, <3>1, <3>2, <3>3, HeldCallInv
    <2>4. QED
      BY <1>2, <2>2, <2>3 DEF mp_wait_all_on_stream
  <1>3. ASSUME NEW q \in DescQueues, NEW r \in Reqs, add_send(q, r) PROVE Inv'
    <2>1. r \in user /\ status[r] = "PREPARED" /\ Collect(q, SendOf(r))
      BY <1>3 DEF add_send, Prepared
    <2>2. PICK op \in Op : op = SendOf(r)
      BY <2>1, ChanType
    <2>3. StatusMoves
      BY <1>3, <2>1 DEF add_send, SetStatus, StatusMoves
    <2>4. Collect(q, op) /\ WaitOK(op)'
      BY <2>1, <2>2, SendOK
    <2>5. QED
      BY <2>3, <2>4, CollectInv
  <1>4. ASSUME NEW q \in DescQueues, NEW r \in Reqs, add_wait(q, r) PROVE Inv'
    <2>1. /\ r \in user /\ status[r] \in {"PENDING_NOWAIT", "COMPLETE"} /\ req_can_be_waited(r)
          /\ Collect(q, WaitOf(r))
      BY <1>4 DEF add_wait, Waitable
    <2>2. PICK op \in Op : op = WaitOf(r)
      BY <2>1, ChanType
    <2>3. StatusMoves /\ status'[r] = "PENDING" /\ UNCHANGED <<cq, polled>>
      BY <1>4, <2>1 DEF add_wait, SetStatus, StatusMoves, Collect
    <2>4. WaitOK(op)'
      BY <2>1, <2>2, <2>3, WaitOfOK
    <2>5. Collect(q, op)
      BY <2>1, <2>2
    <2>6. QED
      BY <2>3, <2>4, <2>5, CollectInv
  <1>5. ASSUME NEW rs \in SUBSET user, mp_wait_all(rs) PROVE Inv'
    <2>1. PICK before \in SUBSET user : AbortPeeks(before) /\ \A r \in before : req_can_be_waited(r)
      BY <1>5 DEF mp_wait_all
    <2>2. /\ UNCHANGED <<req, user, cq, polled, stream, descs>>
          /\ pc' \in {"idle", "waiting"} /\ waited' \subseteq user
      BY <1>5 DEF mp_wait_all, Inv
    <2>3. QED
      BY <2>1, <2>2, AbortInv
  <1>6. CASE WaitReturn
    <2>1. /\ \A r \in Reqs : r \in waited => status[r] = "COMPLETE"
          /\ status' = [r \in Reqs |-> IF r \in waited THEN "UNDEF" ELSE status[r]]
          /\ req' = [r \in Reqs |-> IF r \in waited THEN NullReq ELSE req[r]]
          /\ user' = user \ waited /\ pc' = "idle" /\ waited' = {}
          /\ UNCHANGED <<cq, polled, peek, stream, descs>>
      BY <1>6 DEF WaitReturn, Release
    <2>2. ASSUME NEW r \in Reqs, r \notin waited
          PROVE  /\ status'[r] = status[r] /\ req'[r] = req[r] /\ Chan(r)' = Chan(r)
                 /\ req_can_be_waited(r)' = req_can_be_waited(r)
      BY <2>1, <2>2 DEF Chan, req_can_be_waited
    <2>3. ASSUME NEW c \in Channels, NEW k \in ToPoll(c)
          PROVE  cq[c][k].req \in Reqs \ waited /\ OwnerOK(c, k) /\ cq'[c][k] = cq[c][k]
      BY <2>1, OwnerIsReq DEF Inv, Owners, OwnerOK, Pending
    <2>4. \A c : ToPoll(c)' = ToPoll(c)
      BY <2>1 DEF ToPoll
    <2>5. Aligned' /\ OneEach'
      BY <2>1, <2>4 DEF Inv, Aligned, OneEach
    <2>6. Owners'
      <3> SUFFICES ASSUME NEW c \in Channels, NEW k \in ToPoll(c) PROVE OwnerOK(c, k)'
        BY <2>4 DEF Owners
      <3>1. QED
        BY <2>1, <2>2, <2>3 DEF OwnerOK
    <2>7. Handles'
      <3> SUFFICES ASSUME NEW r \in user, r \notin waited PROVE HandleOK(r)'
        BY <2>1 DEF Handles
      <3>1. HandleOK(r) /\ r \in Reqs
        BY DEF Inv, Handles, TypeOK
      <3>2. QED
        BY <2>1, <2>2, <2>4, <3>1 DEF HandleOK
    <2>8. WaitOps'
      <3>1. ASSUME NEW op \in Op, WaitOK(op) PROVE WaitOK(op)'
        <4>1. op.chan \in Channels
          BY DEF Op
        <4>2. QED
          BY <2>1, <2>2, <2>3, <2>4, <3>1, <4>1 DEF WaitOK
      <3>2. /\ \A s \in Streams : \A op \in Elems(stream[s]) : WaitOK(op)'
            /\ \A q \in DescQueues : \A op \in Elems(descs[q]) : WaitOK(op)'
        BY <3>1, ElemsType DEF Inv, WaitOps
      <3>3. QED
        BY <2>1, <3>2 DEF WaitOps
    <2>9. QED
      BY <2>1, <2>5, <2>6, <2>7, <2>8 DEF Inv, Posting
  <1>7. CASE WaitGpuError
    <2>1. HeldStep({})
      BY <1>7 DEF WaitGpuError, HeldStep, StatusMoves
    <2>2. QED
      BY <2>1, HeldStepInv
  <1>8. Batch \subseteq Reqs \X Reqs
    BY DEF Batch, TypeOK
  <1>9. QED
    BY <1>1, <1>2, <1>3, <1>4, <1>5, <1>6, <1>7, <1>8 DEF CpuWait

\* A request that is in nobody's hands: no handle, no completion to come.
Fresh(r) == r \notin user /\ \A c \in Channels : \A k \in ToPoll(c) : cq[c][k].req # r

\* Only the request r changes and no completion is added: a call failed, waits
\* for room, or posted an unsignaled work request.
FreshStep(r, new) ==
    /\ \A x \in Reqs \ {r} : status'[x] = status[x] /\ req'[x] = req[x]
    /\ user' \in {user, user \union {r}} /\ (r \in user' => HandleOK(r)')
    /\ UNCHANGED <<cq, polled, peek, descs, waited>>
    /\ \A op \in new : op.op # "wait"
    /\ \A s \in Streams : Elems(stream'[s]) \subseteq Elems(stream[s]) \union new
    /\ Posting' /\ pc' # "exited"

LEMMA FreshInv ==
    ASSUME TypeOK, Inv, NEW r \in Reqs, Fresh(r), NEW new, FreshStep(r, new)
    PROVE  Inv'
  <1> USE DEF FreshStep
  <1>1. ASSUME NEW x \in Reqs \ {r}
        PROVE  /\ status'[x] = status[x] /\ req'[x] = req[x] /\ Chan(x)' = Chan(x)
               /\ req_can_be_waited(x)' = req_can_be_waited(x)
    BY DEF Chan, req_can_be_waited
  <1>2. ASSUME NEW c \in Channels, NEW k \in ToPoll(c)
        PROVE  cq[c][k].req \in Reqs \ {r} /\ OwnerOK(c, k) /\ cq'[c][k] = cq[c][k]
    BY OwnerIsReq DEF Inv, Owners, Fresh
  <1>3. \A c : ToPoll(c)' = ToPoll(c)
    BY DEF ToPoll
  <1>4. Aligned' /\ OneEach'
    BY <1>3 DEF Inv, Aligned, OneEach
  <1>5. Owners'
    <2> SUFFICES ASSUME NEW c \in Channels, NEW k \in ToPoll(c) PROVE OwnerOK(c, k)'
      BY <1>3 DEF Owners
    <2>1. QED
      BY <1>1, <1>2 DEF OwnerOK
  <1>6. Handles'
    <2>1. ASSUME NEW x \in user PROVE HandleOK(x)'
      <3>1. HandleOK(x) /\ x \in Reqs \ {r}
        BY DEF Inv, Handles, TypeOK, Fresh
      <3>2. QED
        BY <1>1, <1>3, <3>1 DEF HandleOK
    <2>2. QED
      BY <2>1 DEF Handles
  <1>7. WaitOps'
    <2>1. ASSUME NEW op \in Op, WaitOK(op) PROVE WaitOK(op)'
      <3>1. op.chan \in Channels
        BY DEF Op
      <3>2. QED
        BY <1>1, <1>2, <1>3, <2>1, <3>1 DEF WaitOK
    <2>2. ASSUME NEW op \in new PROVE WaitOK(op)'
      BY DEF WaitOK
    <2>3. QED
      BY <2>1, <2>2, ElemsType DEF Inv, WaitOps
  <1>8. QED
    BY <1>4, <1>5, <1>6, <1>7 DEF Inv

LEMMA AbandonInv ==
    ASSUME TypeOK, Inv, NEW r \in Reqs, NEW p, NEW how, NEW n, Fresh(r), Abandon(r, p, how, n),
           UNCHANGED <<cq, polled, peek, stream, descs, waited>>, pc' = "idle"
    PROVE  Inv'
  <1>1. \A x \in Reqs \ {r} : status'[x] = status[x] /\ req'[x] = req[x]
    BY DEF Abandon, Release, Create, TypeOK
  <1>2. user' = user
    BY DEF Abandon, Release, Fresh
  <1>3. Posting'
    BY DEF Posting
  <1>4. FreshStep(r, {})
    BY <1>1, <1>2, <1>3 DEF FreshStep, Fresh
  <1>5. QED
    BY <1>4, FreshInv

\* A completion is polled: its request was pending, and is complete.
LEMMA PollInv ==
    ASSUME TypeOK, Inv, TypeOK', NEW c \in Channels, mp_progress_single_flow(c)
    PROVE  Inv'
  <1> DEFINE k == polled[c] + 1
             r == cq[c][k].req
  <1>1. /\ polled' = [polled EXCEPT ![c] = @ + 1] /\ Pollable(c)
        /\ \/ SetStatus({r}, "COMPLETE") /\ UNCHANGED pc
           \/ status[r] \notin {"PENDING_NOWAIT", "PENDING"}
        /\ UNCHANGED <<req, user, cq, peek, stream, descs, waited, post>>
    BY DEF mp_progress_single_flow
  <1>2. cq[c] \in Seq([wqe : Nat, req : Reqs]) /\ polled[c] \in Nat /\ Len(cq[c]) \in Nat
    <2>1. cq[c] \in Seq([wqe : Nat, req : Reqs]) /\ polled[c] \in Nat
      BY DEF TypeOK
    <2>2. QED
      BY <2>1
  <1>3. k \in ToPoll(c) /\ k \in Nat
    BY <1>1, <1>2 DEF ToPoll, Pollable
  <1>4. OwnerOK(c, k) /\ r \in Reqs /\ k \in DOMAIN peek[c]
    <2>1. Len(peek[c]) = Len(cq[c]) /\ k \in 1..Len(cq[c]) /\ r \in Reqs /\ OwnerOK(c, k)
      BY <1>3, OwnerIsReq DEF Inv, Aligned, Owners
    <2>2. peek[c] \in Seq({"busy", "free", "none"})
      BY DEF TypeOK
    <2>3. QED
      BY <2>1, <2>2
  <1>5. status[r] \in {"PENDING_NOWAIT", "PENDING"} /\ Chan(r) = c /\ req[r].wait \in {0, k}
    BY <1>1, <1>4 DEF OwnerOK, Pollable, Pending
  <1> HIDE DEF k, r
  <1>6. /\ status' = [x \in Reqs |-> IF x = r THEN "COMPLETE" ELSE status[x]] /\ UNCHANGED pc
        /\ polled'[c] = k /\ \A d \in Channels \ {c} : polled'[d] = polled[d]
    BY <1>1, <1>5 DEF SetStatus, TypeOK, k
  <1>7. ToPoll(c)' = ToPoll(c) \ {k} /\ \A d \in Channels \ {c} : ToPoll(d)' = ToPoll(d)
    <2>1. \A d \in Channels \ {c} : ToPoll(d)' = ToPoll(d)
      BY <1>1, <1>6 DEF ToPoll
    <2>2. ToPoll(c)' = (k + 1)..Len(cq[c]) /\ ToPoll(c) = k..Len(cq[c])
      BY <1>1, <1>6 DEF ToPoll, k
    <2>3. QED
      BY <1>2, <1>3, <2>1, <2>2
  <1>8. \A x \in Reqs : Chan(x)' = Chan(x) /\ req_can_be_waited(x)' = req_can_be_waited(x)
    BY <1>1 DEF Chan, req_can_be_waited
  \* r has no other completion to come, on any channel.
  <1>9. ASSUME NEW d \in Channels, NEW j \in ToPoll(d)'
        PROVE  cq[d][j].req \in Reqs \ {r} /\ j \in ToPoll(d) /\ OwnerOK(d, j)
    <2>1. j \in ToPoll(d)
      BY <1>7
    <2>2. OwnerOK(d, j) /\ cq[d][j].req \in Reqs
      BY <2>1, OwnerIsReq DEF Inv, Owners
    <2>3. CASE cq[d][j].req = r
      <3>1. d = c
        BY <1>5, <2>2, <2>3 DEF OwnerOK
      <3>2. j = k
        BY <1>3, <2>1, <2>3, <3>1 DEF Inv, OneEach, r
      <3>3. QED
        BY <1>7, <3>1, <3>2
    <2>4. QED
      BY <2>1, <2>2, <2>3
  <1>10. Aligned'
    <2>1. k <= Len(cq[c])
      BY <1>2, <1>3, OwnerIsReq
    <2>2. QED
      BY <1>1, <1>6, <2>1 DEF Inv, Aligned
  <1>11. Owners'
    <2> SUFFICES ASSUME NEW d \in Channels, NEW j \in ToPoll(d)' PROVE OwnerOK(d, j)'
      BY DEF Owners
    <2>1. QED
      BY <1>1, <1>6, <1>8, <1>9 DEF OwnerOK
  <1>12. OneEach'
    BY <1>1, <1>9 DEF Inv, OneEach
  <1>13. Handles'
    <2> SUFFICES ASSUME NEW x \in user PROVE HandleOK(x)'
      BY <1>1 DEF Handles
    <2>1. HandleOK(x) /\ x \in Reqs
      BY DEF Inv, Handles, TypeOK
    <2>2. CASE x = r
      <3>1. req[r].wait <= k
        BY <1>3, <1>5
      <3>2. QED
        BY <1>1, <1>5, <1>6, <1>8, <2>1, <2>2, <3>1 DEF HandleOK
    <2>3. CASE x # r
      <3>1. Chan(x) \in Channels /\ req[x].wait \in Nat /\ status'[x] = status[x]
        BY <1>6, <2>1, <2>3, ChanType DEF HandleOK, TypeOK, ReqFields
      <3>2. ASSUME req_can_be_waited(x), status[x] \in {"PREPARED", "PENDING_NOWAIT"}
            PROVE  req[x].wait \in ToPoll(Chan(x))' /\ cq[Chan(x)][req[x].wait].req = x
        <4>1. req[x].wait \in ToPoll(Chan(x)) /\ cq[Chan(x)][req[x].wait].req = x
          BY <2>1, <3>2 DEF HandleOK
        <4>2. ~(Chan(x) = c /\ req[x].wait = k)
          BY <2>3, <4>1 DEF r
        <4>3. \A d \in Channels : d = Chan(x) => req[x].wait \in ToPoll(d)'
          BY <1>7, <3>1, <4>1, <4>2
        <4>4. QED
          BY <1>8, <2>1, <3>1, <4>1, <4>3
      <3>3. ASSUME req_can_be_waited(x), status[x] = "COMPLETE"
            PROVE  req[x].wait <= polled'[Chan(x)]
        <4>1. req[x].wait <= polled[Chan(x)] /\ polled[Chan(x)] \in Nat
          BY <2>1, <3>1, <3>3 DEF HandleOK, TypeOK
        <4>2. polled'[Chan(x)] = polled[Chan(x)] \/ polled'[Chan(x)] = polled[Chan(x)] + 1
          BY <1>6, <3>1 DEF k
        <4>3. QED
          BY <3>1, <4>1, <4>2
      <3>4. QED
        BY <1>1, <1>8, <2>1, <3>1, <3>2, <3>3 DEF HandleOK
    <2>4. QED
      BY <2>2, <2>3
  <1>14. WaitOps'
    <2>1. ASSUME NEW op \in Op, WaitOK(op) PROVE WaitOK(op)'
      <3>1. op.chan \in Channels
        BY DEF Op
      <3>2. QED
        BY <1>1, <1>6, <1>9, <2>1, <3>1 DEF WaitOK
    <2>2. QED
      BY <1>1, <2>1, ElemsType DEF Inv, WaitOps
  <1>15. Posting'
    <2>1. CASE pc = "posting"
      <3>1. Posting /\ post.req # r
        BY <1>3, <2>1 DEF Inv, Posting, r
      <3>2. post.req \in Reqs
        BY <2>1 DEF TypeOK, Submission
      <3>3. QED
        BY <1>1, <1>6, <1>9, <2>1, <3>1, <3>2 DEF Posting
    <2>2. CASE pc # "posting"
      BY <1>6, <2>2 DEF Posting
    <2>3. QED
      BY <2>1, <2>2
  <1>16. QED
    BY <1>1, <1>6, <1>10, <1>11, <1>12, <1>13, <1>14, <1>15 DEF Inv

\* A signaled work request and its guard are added together, so that the guard of
\* the new completion has the completion's own index.
Signaled(r, c, g, new) ==
    LET w == Len(peek[c]) + 1
    IN  /\ \A x \in Reqs \ {r} : status'[x] = status[x] /\ req'[x] = req[x]
        /\ \E n \in Nat : cq' = Append1(cq, c, [wqe |-> n, req |-> r])
        /\ peek' = Append1(peek, c, g) /\ polled' = polled
        /\ status'[r] \in Pending /\ (status'[r] = "PREPARED" => g = "busy")
        /\ Chan(r)' = c /\ ~req'[r].nowait /\ req'[r].wait \in {0, w}
        /\ user' \in {user, user \union {r}}
        /\ r \in user' /\ status'[r] # "PENDING" => req'[r].wait = w
        /\ \A op \in new : op.op = "wait" => op.chan = c /\ op.index = w /\ status'[r] = "PENDING"
        /\ \A s \in Streams : Elems(stream'[s]) \subseteq Elems(stream[s]) \union new
        /\ descs' = descs /\ waited' = waited /\ pc' = "idle"

LEMMA SignaledInv ==
    ASSUME TypeOK, Inv, TypeOK', NEW r \in Reqs, NEW c \in Channels, Fresh(r),
           NEW g \in {"busy", "none"}, NEW new, Signaled(r, c, g, new)
    PROVE  Inv'
  <1>0. PICK w \in Nat : w = Len(peek[c]) + 1
    BY DEF TypeOK
  <1>1. PICK n \in Nat : cq' = Append1(cq, c, [wqe |-> n, req |-> r])
    BY DEF Signaled
  <1>2. /\ \A x \in Reqs \ {r} : status'[x] = status[x] /\ req'[x] = req[x]
        /\ peek' = Append1(peek, c, g) /\ polled' = polled
        /\ status'[r] \in Pending /\ (status'[r] = "PREPARED" => g = "busy")
        /\ Chan(r)' = c /\ ~req'[r].nowait /\ req'[r].wait \in {0, w}
        /\ user' \in {user, user \union {r}}
        /\ r \in user' /\ status'[r] # "PENDING" => req'[r].wait = w
        /\ \A op \in new : op.op = "wait" => op.chan = c /\ op.index = w /\ status'[r] = "PENDING"
        /\ \A s \in Streams : Elems(stream'[s]) \subseteq Elems(stream[s]) \union new
        /\ descs' = descs /\ waited' = waited /\ pc' = "idle"
    BY <1>0 DEF Signaled
  <1>3. /\ cq[c] \in Seq([wqe : Nat, req : Reqs]) /\ peek[c] \in Seq({"busy", "free", "none"})
        /\ Len(cq[c]) = Len(peek[c]) /\ polled[c] <= Len(cq[c]) /\ polled[c] \in Nat
    BY DEF TypeOK, Inv, Aligned
  <1>4. w \in Nat /\ w = Len(cq[c]) + 1 /\ Len(cq[c]) \in Nat
    BY <1>0, <1>3
  <1>5. /\ cq'[c] = Append(cq[c], [wqe |-> n, req |-> r]) /\ peek'[c] = Append(peek[c], g)
        /\ \A d \in Channels \ {c} : cq'[d] = cq[d] /\ peek'[d] = peek[d]
    BY <1>1, <1>2 DEF Append1, TypeOK
  <1>6. /\ Len(cq'[c]) = w /\ cq'[c][w].req = r
        /\ \A k \in 1..Len(cq[c]) : cq'[c][k] = cq[c][k]
    <2>1. [wqe |-> n, req |-> r] \in [wqe : Nat, req : Reqs]
      OBVIOUS
    <2>2. QED
      BY <1>3, <1>4, <1>5, <2>1, SeqAppend
  <1>7. /\ Len(peek'[c]) = w /\ peek'[c][w] = g
        /\ \A k \in 1..Len(cq[c]) : peek'[c][k] = peek[c][k]
    BY <1>0, <1>3, <1>4, <1>5, SeqAppend
  <1>8. ToPoll(c)' = ToPoll(c) \union {w} /\ w \notin ToPoll(c)
        /\ \A d \in Channels \ {c} : ToPoll(d)' = ToPoll(d)
    <2>1. \A d \in Channels \ {c} : ToPoll(d)' = ToPoll(d)
      BY <1>2, <1>5 DEF ToPoll
    <2>2. ToPoll(c)' = (polled[c] + 1)..w /\ ToPoll(c) = (polled[c] + 1)..Len(cq[c])
      BY <1>2, <1>6 DEF ToPoll
    <2>3. QED
      BY <1>3, <1>4, <2>1, <2>2
  <1>9. ASSUME NEW d \in Channels, NEW k \in ToPoll(d)
        PROVE  /\ cq[d][k].req \in Reqs \ {r} /\ OwnerOK(d, k)
               /\ cq'[d][k] = cq[d][k] /\ peek'[d][k] = peek[d][k]
               /\ k \in ToPoll(d)'
    BY <1>5, <1>6, <1>7, <1>8, OwnerIsReq DEF Inv, Owners, Fresh
  <1>10. ASSUME NEW x \in Reqs \ {r}
         PROVE  Chan(x)' = Chan(x) /\ req_can_be_waited(x)' = req_can_be_waited(x)
    BY <1>2 DEF Chan, req_can_be_waited
  <1>11. Aligned'
    <2> SUFFICES ASSUME NEW d \in Channels
                 PROVE  Len(peek'[d]) = Len(cq'[d]) /\ polled'[d] <= Len(cq'[d])
      BY DEF Aligned
    <2>1. CASE d = c
      BY <1>2, <1>3, <1>4, <1>6, <1>7, <2>1
    <2>2. CASE d # c
      BY <1>2, <1>5, <2>2 DEF Inv, Aligned
    <2>3. QED
      BY <2>1, <2>2
  <1>12. Owners'
    <2>1. ASSUME NEW d \in Channels, NEW k \in ToPoll(d) PROVE OwnerOK(d, k)'
      BY <1>2, <1>9, <1>10 DEF OwnerOK
    <2>2. OwnerOK(c, w)'
      BY <1>2, <1>6, <1>7 DEF OwnerOK
    <2>3. QED
      BY <1>8, <2>1, <2>2 DEF Owners
  <1>13. OneEach'
    <2> SUFFICES ASSUME NEW d \in Channels, NEW j \in ToPoll(d)', NEW k \in ToPoll(d)',
                        cq'[d][j].req = cq'[d][k].req
                 PROVE  j = k
      BY DEF OneEach
    <2>1. CASE j \in ToPoll(d) /\ k \in ToPoll(d)
      BY <1>9, <2>1 DEF Inv, OneEach
    <2>2. CASE j \notin ToPoll(d) \/ k \notin ToPoll(d)
      BY <1>6, <1>8, <1>9, <2>2
    <2>3. QED
      BY <2>1, <2>2
  <1>14. Handles'
    <2>1. ASSUME NEW x \in user PROVE HandleOK(x)'
      <3>1. HandleOK(x) /\ x \in Reqs \ {r}
        BY DEF Inv, Handles, TypeOK, Fresh
      <3>2. Chan(x) \in Channels /\ Chan(x)' = Chan(x)
        BY <1>10, <3>1, ChanType DEF HandleOK
      <3>3. \A d \in Channels : d = Chan(x) /\ req[x].wait \in ToPoll(d) =>
               req[x].wait \in ToPoll(d)' /\ cq'[d][req[x].wait] = cq[d][req[x].wait]
        BY <1>9
      <3>4. ASSUME req_can_be_waited(x), status[x] \in {"PREPARED", "PENDING_NOWAIT"}
            PROVE  req[x].wait \in ToPoll(Chan(x))' /\ cq'[Chan(x)][req[x].wait].req = x
        BY <3>1, <3>2, <3>3, <3>4 DEF HandleOK
      <3>5. QED
        BY <1>2, <1>10, <3>1, <3>2, <3>4 DEF HandleOK
    <2>2. ASSUME r \in user' PROVE HandleOK(r)'
      <3>1. \A d \in Channels : d = c => w \in ToPoll(d)' /\ cq'[d][w].req = r
        BY <1>6, <1>8
      <3>2. status'[r] \in {"PREPARED", "PENDING_NOWAIT"} =>
               req'[r].wait \in ToPoll(Chan(r))' /\ cq'[Chan(r)'][req'[r].wait].req = r
        BY <1>2, <2>2, <3>1
      <3>3. QED
        BY <1>2, <3>2 DEF HandleOK, Pending
    <2>3. QED
      BY <1>2, <2>1, <2>2 DEF Handles
  <1>15. WaitOps'
    <2>1. ASSUME NEW op \in Op, WaitOK(op) PROVE WaitOK(op)'
      <3>1. op.chan \in Channels /\ op.index \in Nat
        BY DEF Op
      <3>2. CASE op.op = "wait" /\ op.chan = c
        <4>1. op.index <= Len(cq[c])
          BY <2>1, <3>2 DEF WaitOK
        <4>2. op.index # w /\ op.index <= Len(cq'[c])
          BY <1>4, <1>6, <3>1, <4>1
        <4>3. op.index \in ToPoll(op.chan)' => op.index \in ToPoll(op.chan)
          BY <1>8, <3>2, <4>2
        <4>4. op.index \in ToPoll(op.chan) => status'[cq'[c][op.index].req] # "PREPARED"
          BY <1>2, <1>9, <2>1, <3>2 DEF WaitOK
        <4>5. QED
          BY <3>2, <4>2, <4>3, <4>4 DEF WaitOK
      <3>3. CASE op.op = "wait" /\ op.chan # c
        BY SMTT(30), <1>2, <1>5, <1>8, <1>9, <2>1, <3>1, <3>3 DEF WaitOK
      <3>4. QED
        BY <3>2, <3>3 DEF WaitOK
    <2>2. ASSUME NEW op \in new PROVE WaitOK(op)'
      BY <1>2, <1>4, <1>6 DEF WaitOK
    <2>3. QED
      BY <1>2, <2>1, <2>2, ElemsType DEF Inv, WaitOps
  <1>16. QED
    BY <1>2, <1>11, <1>12, <1>13, <1>14, <1>15 DEF Inv, Posting

LEMMA CreateFacts ==
    ASSUME TypeOK, NEW r \in Reqs, NEW p, NEW how, NEW state, NEW n, NEW w,
           Create(r, p, how, state, n, w)
    PROVE  /\ \A x \in Reqs \ {r} : status'[x] = status[x] /\ req'[x] = req[x]
           /\ status'[r] = state
           /\ req'[r].type = how.type /\ (req'[r].nowait <=> how.nowait) /\ req'[r].wait = w
           /\ Chan(r)' = <<p, mp_type_to_flow(how.type)>>
  <1>1. /\ \A x \in Reqs \ {r} : status'[x] = status[x] /\ req'[x] = req[x]
        /\ status'[r] = state
        /\ req'[r] = [peer |-> p, type |-> how.type, nowait |-> how.nowait, wqe |-> n, wait |-> w]
    BY DEF Create, TypeOK
  <1>2. Chan(r)' = <<p, mp_type_to_flow(how.type)>>
    BY <1>1 DEF Chan
  <1>3. QED
    BY <1>1, <1>2

LEMMA EnqueueInv ==
    ASSUME TypeOK, Inv, TypeOK', NEW r \in Reqs, NEW p \in Peers,
           NEW s \in Streams \union {NoStream}, NEW how, GoodHow(how), Fresh(r),
           Enqueue(r, p, s, how)
    PROVE  Inv'
  <1>0. PICK c \in Channels, w \in Nat, n \in Nat :
           c = <<p, mp_type_to_flow(how.type)>> /\ w = Len(peek[c]) + 1 /\ n = posted[c] + 1
    <2> DEFINE cc == <<p, mp_type_to_flow(how.type)>>
    <2>1. cc \in Channels
      BY DEF mp_type_to_flow
    <2>2. Len(peek[cc]) + 1 \in Nat /\ posted[cc] + 1 \in Nat
      <3>1. peek[cc] \in Seq({"busy", "free", "none"}) /\ posted[cc] \in Nat
        BY <2>1 DEF TypeOK
      <3> HIDE DEF cc
      <3>2. QED
        BY <3>1
    <2>3. QED
      BY <2>1, <2>2
  <1> DEFINE send == IF how.ring = "stream" THEN <<SendOp(r, c, n)>> ELSE <<>>
             ops == IF how.block THEN Append(send, WaitOp(r, c, w)) ELSE send
             To(os) == [t \in Streams |-> IF t = s THEN stream[t] \o os ELSE stream[t]]
             new == {SendOp(r, c, n)} \union IF how.block THEN {WaitOp(r, c, w)} ELSE {}
  <1>1. /\ PostWqe(r, c, how)
        /\ pc' = "idle"
        /\ \/ /\ how.nowait
              /\ Create(r, p, how, how.after, n, 0)
              /\ user' = user \union {r} /\ stream' = To(ops) /\ peek' = peek
           \/ /\ ~how.nowait
              /\ Create(r, p, how, how.after, n, IF how.block THEN 0 ELSE w)
              /\ user' = IF how.handle THEN user \union {r} ELSE user
              /\ stream' = To(ops) /\ peek' = Append1(peek, c, "busy")
           \/ /\ ~how.nowait /\ "prepare_wait" \in Faults
              /\ Abandon(r, p, how, n)
              /\ stream' = To(send) /\ peek' = Append1(peek, c, "none")
        /\ UNCHANGED <<done, polled, descs, waited>>
    BY <1>0 DEF Enqueue
  <1>2. /\ how \in How /\ (how.after = "COMPLETE" => how.nowait) /\ (how.nowait => how.type = "RDMA")
        /\ (how.block => how.after = "PENDING" /\ ~how.nowait)
        /\ ("prepare_wait" \in Faults /\ ~how.nowait => ~how.undo /\ how.state # "PREPARED")
    BY DEF GoodHow, Regular
  <1>3. \A t \in Streams : Elems(stream'[t]) \subseteq Elems(stream[t]) \union new
    <2>1. SendOp(r, c, n) \in Op /\ WaitOp(r, c, w) \in Op
      BY OpsAreOps
    <2>2. send \in Seq(Op) /\ ops \in Seq(Op)
      BY <2>1
    <2>3. Elems(send) \subseteq new /\ Elems(ops) \subseteq new
      <3>1. Elems(send) \subseteq {SendOp(r, c, n)}
        BY ElemsFew
      <3>2. Elems(Append(send, WaitOp(r, c, w))) \subseteq Elems(send) \union {WaitOp(r, c, w)}
        BY ZenonT(60), <2>1, <2>2, ElemsAppend
      <3>3. QED
        BY <3>1, <3>2
    <2> HIDE DEF send, ops, new
    <2>4. PICK os \in Seq(Op) : stream' = To(os) /\ Elems(os) \subseteq new
      BY <1>1, <2>2, <2>3
    <2>5. \A t \in Streams : Elems(stream[t] \o os) \subseteq Elems(stream[t]) \union Elems(os)
      BY ElemsConcat DEF TypeOK
    <2>6. QED
      BY <2>4, <2>5
  <1>4. \A op \in new : op.op = "wait" => how.block /\ op.chan = c /\ op.index = w
    BY DEF SendOp, WaitOp
  <1> HIDE DEF send, ops, To, new
  <1>5. CASE how.nowait
    <2>1. /\ Create(r, p, how, how.after, n, 0) /\ user' = user \union {r} /\ peek' = peek /\ cq' = cq
          /\ UNCHANGED <<polled, descs, waited>> /\ pc' = "idle"
      BY <1>1, <1>5 DEF PostWqe
    <2>2. /\ \A x \in Reqs \ {r} : status'[x] = status[x] /\ req'[x] = req[x]
          /\ status'[r] = how.after /\ req'[r].type = "RDMA" /\ req'[r].nowait
      BY <1>2, <1>5, <2>1, CreateFacts
    <2>3. HandleOK(r)'
      BY <1>2, <2>2 DEF HandleOK, req_can_be_waited, How
    <2>4. \A op \in new : op.op # "wait"
      BY <1>2, <1>4, <1>5
    <2>5. FreshStep(r, new)
      BY <1>3, <2>1, <2>2, <2>3, <2>4 DEF FreshStep, Posting
    <2>6. QED
      BY <2>5, FreshInv
  <1>6. CASE ~how.nowait
    <2>0. \E m \in Nat : cq' = Append1(cq, c, [wqe |-> m, req |-> r])
      BY <1>0, <1>1, <1>6 DEF PostWqe
    <2>1. CASE /\ Create(r, p, how, how.after, n, IF how.block THEN 0 ELSE w)
               /\ user' = IF how.handle THEN user \union {r} ELSE user
               /\ peek' = Append1(peek, c, "busy")
      <3>1. /\ \A x \in Reqs \ {r} : status'[x] = status[x] /\ req'[x] = req[x]
            /\ status'[r] = how.after /\ ~req'[r].nowait /\ Chan(r)' = c
            /\ req'[r].wait = IF how.block THEN 0 ELSE w
        BY <1>0, <1>6, <2>1, CreateFacts
      <3>2. /\ status'[r] \in Pending
            /\ how.block => status'[r] = "PENDING"
        BY <1>2, <1>6, <3>1 DEF Pending, How
      <3>3. Signaled(r, c, "busy", new)
        BY <1>0, <1>1, <1>3, <1>4, <2>0, <2>1, <3>1, <3>2 DEF Signaled
      <3>4. QED
        BY <3>3, SignaledInv
    <2>2. CASE /\ "prepare_wait" \in Faults /\ Abandon(r, p, how, n)
               /\ stream' = To(send) /\ peek' = Append1(peek, c, "none")
      <3>1. Create(r, p, how, how.state, n, 0) /\ user' = user /\ how.state # "PREPARED"
        BY <1>2, <1>6, <2>2 DEF Abandon
      <3>2. /\ \A x \in Reqs \ {r} : status'[x] = status[x] /\ req'[x] = req[x]
            /\ status'[r] = how.state /\ ~req'[r].nowait /\ Chan(r)' = c
            /\ req'[r].wait = 0
        BY <1>0, <1>6, <3>1, CreateFacts
      <3>3. status'[r] \in Pending /\ status'[r] # "PREPARED" /\ r \notin user'
        BY <1>2, <3>1, <3>2 DEF Pending, How, Fresh
      <3>4. \A t \in Streams : Elems(stream'[t]) \subseteq Elems(stream[t]) \union {SendOp(r, c, n)}
        <4>1. SendOp(r, c, n) \in Op
          BY OpsAreOps
        <4>2. send \in Seq(Op) /\ Elems(send) \subseteq {SendOp(r, c, n)}
          BY <4>1, ElemsFew DEF send
        <4>3. \A t \in Streams : Elems(stream[t] \o send) \subseteq Elems(stream[t]) \union Elems(send)
          BY <4>2, ElemsConcat DEF TypeOK
        <4>4. QED
          BY <2>2, <4>2, <4>3 DEF To
      <3>5. \A op \in {SendOp(r, c, n)} : op.op # "wait"
        BY DEF SendOp
      <3>6. Signaled(r, c, "none", {SendOp(r, c, n)})
        BY <1>0, <1>1, <2>0, <2>2, <3>1, <3>2, <3>3, <3>4, <3>5 DEF Signaled
      <3>7. QED
        BY <3>6, SignaledInv
    <2>3. QED
      BY <1>1, <1>6, <2>1, <2>2
  <1>7. QED
    BY <1>5, <1>6

LEMMA UnusedIsFresh ==
    ASSUME TypeOK, Inv, NEW r \in Reqs, status[r] = "UNDEF"
    PROVE  Fresh(r)
  BY DEF Inv, Handles, HandleOK, Owners, OwnerOK, Pending, Fresh

LEMMA SubmitInv ==
    ASSUME TypeOK, Inv, TypeOK', NEW r \in Reqs, NEW p \in Peers,
           NEW s \in Streams \union {NoStream}, NEW how, GoodHow(how), Submit(r, p, s, how)
    PROVE  Inv'
  <1>0. Fresh(r) /\ pc = "idle"
    BY UnusedIsFresh DEF Submit
  <1>1. CASE Enqueue(r, p, s, how)
    BY <1>0, <1>1, EnqueueInv
  <1>2. CASE /\ Create(r, p, how, how.state, 0, 0) /\ how.full # "fail"
             /\ pc' = "posting"
             /\ post' = [req |-> r, peer |-> p, stream |-> s, how |-> how]
             /\ UNCHANGED <<user, posted, rung, done, cq, polled, peek, stream, descs, waited>>
    <2>1. /\ \A x \in Reqs \ {r} : status'[x] = status[x] /\ req'[x] = req[x]
          /\ status'[r] = how.state
      BY <1>2, CreateFacts
    <2>2. how.state = "PENDING_NOWAIT" /\ post'.req = r /\ post'.how = how
      BY <1>2 DEF GoodHow, Regular
    <2>3. Posting'
      BY <1>0, <1>2, <2>1, <2>2 DEF Posting, Fresh, ToPoll
    <2>4. FreshStep(r, {})
      BY <1>0, <1>2, <2>1, <2>3 DEF FreshStep, Fresh
    <2>5. QED
      BY <1>0, <2>4, FreshInv
  <1>3. CASE /\ Abandon(r, p, how, 0)
             /\ UNCHANGED <<posted, rung, done, cq, polled, peek, stream, descs, pc, waited, post>>
    BY <1>0, <1>3, AbandonInv
  <1>4. QED
    BY <1>1, <1>2, <1>3 DEF Submit

LEMMA ProgressInv ==
    ASSUME TypeOK, Inv, TypeOK', Progress
    PROVE  Inv'
  <1>1. ASSUME NEW c \in Channels, HcaExecute(c) PROVE Inv'
    <2>1. HeldStep({})
      BY <1>1 DEF HcaExecute, HeldStep, StatusMoves, Inv
    <2>2. QED
      BY <2>1, HeldStepInv
  <1>2. ASSUME NEW s \in Streams, StreamSend(s) \/ StreamWait(s) PROVE Inv'
    BY <1>2, EngineStep
  <1>3. ASSUME pc = "posting"
        PROVE  /\ post.req \in Reqs /\ post.peer \in Peers
               /\ post.stream \in Streams \union {NoStream}
               /\ GoodHow(post.how) /\ Fresh(post.req)
    <2>1. post \in Submission
      BY <1>3 DEF TypeOK
    <2>2. QED
      BY <1>3, <2>1 DEF Submission, Inv, Posting, Fresh
  <1>4. CASE PostRetry
    BY <1>3, <1>4, EnqueueInv DEF PostRetry
  <1>5. CASE PostGiveUp
    BY <1>3, <1>5, AbandonInv DEF PostGiveUp
  <1>6. QED
    BY <1>1, <1>2, <1>4, <1>5, PollInv DEF Progress

LEMMA NextInv ==
    ASSUME SafeUse, IInv, [Next]_vars
    PROVE  IInv'
  <1>0. TypeOK /\ Inv /\ TypeOK'
    BY NextType DEF IInv
  <1>1. CASE CpuSubmit \/ StreamSubmit
    <2>1. PICK r \in Reqs, p \in Peers, s \in Streams \union {NoStream} : Submits(r, p, s)
      BY <1>1, SubmitCalls
    <2>2. PICK how \in How : Submit(r, p, s, how) /\ GoodHow(how)
      BY <2>1 DEF Submits
    <2>3. QED
      BY <1>0, <2>2, SubmitInv DEF IInv
  <1>2. CASE PostPrepared
    BY <1>0, <1>2, PostPreparedInv DEF IInv
  <1>3. CASE CpuWait
    BY <1>0, <1>3, CpuWaitInv DEF IInv
  <1>4. CASE Progress
    BY <1>0, <1>4, ProgressInv DEF IInv
  <1>5. CASE UNCHANGED vars
    <2>1. HeldStep({})
      BY <1>0, <1>5 DEF vars, HeldStep, StatusMoves, Inv
    <2>2. QED
      BY <1>0, <2>1, HeldStepInv DEF IInv
  <1>6. QED
    BY <1>1, <1>2, <1>3, <1>4, <1>5 DEF Next

\* The inductive invariant holds, whatever the pool, the peers, the streams and the
\* queue depth.
THEOREM Invariant ==
    ASSUME SafeUse PROVE Spec => []IInv
  <1>1. Init => IInv
    BY InitType, InitInv DEF IInv
  <1>2. IInv /\ [Next]_vars => IInv'
    BY NextInv
  <1>3. QED
    BY <1>1, <1>2, PTL DEF Spec

\* In safe use mp_progress_single_flow never takes the exit(-1) of mp.c:501-507:
\* whatever was prepared, posted, collected, polled, waited for, refused or failed,
\* the completion polled next belongs to a pending request.
THEOREM NeverExits ==
    ASSUME SafeUse PROVE Spec => []NoFatalExit
  <1>1. IInv => NoFatalExit
    BY DEF IInv, Inv, NoFatalExit
  <1>2. QED
    BY <1>1, Invariant, PTL

\* In safe use no completion to come belongs to a request that is complete or back
\* in the pool, so a recycled structure is never completed by the completion of its
\* former life.
THEOREM NoDangling ==
    ASSUME SafeUse PROVE Spec => []NoDanglingCompletion
  <1>1. IInv => NoDanglingCompletion
    BY DEF IInv, Inv, Owners, OwnerOK, Pending, NoDanglingCompletion
  <1>2. QED
    BY <1>1, Invariant, PTL

-----------------------------------------------------------------------------
(* The steps of Next, as far as waits are concerned *)

\* No call fails half way.
WholeCalls == "stream_post" \notin Faults /\ "wait_nowait" \notin Liberties

\* The requests whose guard a call may hand to a stream, and the operations that
\* the calls queue for requests the application holds.
WaitFor(r) ==
    /\ req_can_be_waited(r) \/ req[r].type = "SEND"
    /\ status[r] \in {"PREPARED", "PENDING_NOWAIT"} \/ "rewait" \in Liberties
HeldOps == {SendOf(r) : r \in user} \union {WaitOf(r) : r \in {x \in user : WaitFor(x)}}

\* Some stream, or some descriptor queue, holds op.
Queued(op) ==
    \/ \E s \in Streams : op \in Elems(stream[s])
    \/ \E q \in DescQueues : op \in Elems(descs[q])

\* A request that turns MP_PENDING has its wait queued, or its guard freed.
Arms(r) ==
    /\ r \in user /\ WaitFor(r)
    /\ Queued(WaitOf(r))' \/ peek'[Chan(r)][req[r].wait] = "free"

\* What a call on held requests does: their status moves, guards are freed and none
\* is added, and the operations queued are operations of these requests.
CallStep ==
    /\ UNCHANGED <<req, user, posted, rung, done, cq, polled, post>>
    /\ pc = "idle" /\ pc' \in {"idle", "waiting"}
    /\ \A c \in Channels : DOMAIN peek'[c] = DOMAIN peek[c]
    /\ \A c \in Channels : \A k \in DOMAIN peek[c] : peek'[c][k] \in {peek[c][k], "free"}
    /\ StatusMoves
    /\ \A op : Queued(op)' => Queued(op) \/ op \in HeldOps
    /\ WholeCalls => /\ \A op : Queued(op) => Queued(op)'
                     /\ \A r \in Reqs : status'[r] = "PENDING" /\ status[r] # "PENDING" => Arms(r)

LEMMA ElemsJoin ==
    ASSUME NEW S, NEW s \in Seq(S), NEW t \in Seq(S)
    PROVE  Elems(s \o t) = Elems(s) \union Elems(t)
  <1>1. Elems(s \o t) \subseteq Elems(s) \union Elems(t)
    BY ElemsConcat
  <1>2. /\ \A i \in DOMAIN s : i \in DOMAIN (s \o t) /\ (s \o t)[i] = s[i]
        /\ \A i \in DOMAIN t : i + Len(s) \in DOMAIN (s \o t) /\ (s \o t)[i + Len(s)] = t[i]
    OBVIOUS
  <1>3. Elems(s) \subseteq Elems(s \o t) /\ Elems(t) \subseteq Elems(s \o t)
    BY <1>2 DEF Elems
  <1>4. QED
    BY <1>1, <1>3

LEMMA ElemsSnoc ==
    ASSUME NEW S, NEW s \in Seq(S), NEW e \in S
    PROVE  Elems(Append(s, e)) = Elems(s) \union {e}
  <1>1. DOMAIN Append(s, e) = 1..(Len(s) + 1) /\ DOMAIN s = 1..Len(s) /\ Len(s) \in Nat
    OBVIOUS
  <1>2. Elems(s) \subseteq Elems(Append(s, e)) /\ e \in Elems(Append(s, e))
    BY <1>1, SeqAppend DEF Elems
  <1>3. QED
    BY <1>2, ElemsAppend

\* A call that hands operations to a stream.
LEMMA OnStreamCall ==
    ASSUME TypeOK, NEW call, NEW s \in Streams, NEW first \in Seq(Op), NEW second \in Seq(Op),
           NEW ops \in Delivered(first, second), OnStream(call, s, ops), StatusMoves,
           Elems(first) \subseteq HeldOps, Elems(second) \subseteq HeldOps,
           \A r \in Reqs : WholeCalls /\ status'[r] = "PENDING" /\ status[r] # "PENDING" =>
              r \in user /\ WaitFor(r) /\ WaitOf(r) \in Elems(first) \union Elems(second)
    PROVE  CallStep
  <1>1. Elems(ops) \subseteq HeldOps /\ ops \in Seq(Op)
    BY ElemsDelivered, DeliveredType
  <1>2. Elems(stream[s] \o ops) = Elems(stream[s]) \union Elems(ops)
    BY <1>1, ElemsJoin DEF TypeOK
  <1>3. /\ Elems(stream'[s]) = Elems(stream[s]) \union Elems(ops)
        /\ \A t \in Streams \ {s} : stream'[t] = stream[t]
    BY <1>1, <1>2 DEF OnStream, TypeOK
  <1>4. /\ UNCHANGED <<req, user, posted, rung, done, cq, polled, descs, peek, pc, post>>
        /\ pc = "idle"
    BY DEF OnStream
  <1>5. \A op : Queued(op)' <=> Queued(op) \/ op \in Elems(ops)
    BY <1>3, <1>4 DEF Queued
  <1>6. ASSUME WholeCalls, NEW r \in Reqs, status'[r] = "PENDING", status[r] # "PENDING"
        PROVE  Arms(r)
    <2>0. ops = first \o second
      BY <1>6 DEF Delivered, WholeCalls
    <2>1. Elems(ops) = Elems(first) \union Elems(second)
      BY <2>0, ElemsJoin
    <2>2. WaitOf(r)' = WaitOf(r)
      BY <1>4 DEF WaitOf, WaitOp, Chan
    <2>3. r \in user /\ WaitFor(r) /\ WaitOf(r) \in Elems(ops)
      BY <1>6, <2>1
    <2>4. Queued(WaitOf(r))'
      BY <1>3, <2>2, <2>3 DEF Queued
    <2>5. QED
      BY <2>3, <2>4 DEF Arms
  <1>7. QED
    BY <1>1, <1>4, <1>5, <1>6 DEF CallStep

LEMMA HeldOp ==
    ASSUME NEW r \in user
    PROVE  SendOf(r) \in HeldOps /\ (WaitFor(r) => WaitOf(r) \in HeldOps)
  BY DEF HeldOps

LEMMA PostPreparedCall ==
    ASSUME TypeOK, PostPrepared
    PROVE  CallStep
  <1>0. <<>> \in Seq(Op) /\ Elems(<<>>) = {} /\ user \subseteq Reqs
    BY ElemsFew DEF TypeOK
  <1>1. ASSUME NEW r \in Reqs, NEW s \in Streams, mp_send_post_on_stream(r, s) PROVE CallStep
    <2>1. r \in user /\ status[r] = "PREPARED" /\ WaitFor(r)
      BY <1>1 DEF mp_send_post_on_stream, PreparedAs, Prepared, WaitFor
    <2>2. <<SendOf(r)>> \in Seq(Op) /\ <<WaitOf(r)>> \in Seq(Op)
      BY <2>1, ChanType
    <2>3. PICK ops \in Delivered(<<SendOf(r)>>, <<WaitOf(r)>>) : OnStream("mp_send_post_on_stream", s, ops)
      BY <1>1 DEF mp_send_post_on_stream
    <2>4. /\ StatusMoves
          /\ \A x \in Reqs : status'[x] = "PENDING" /\ status[x] # "PENDING" => x = r
      BY <1>1, <2>1 DEF mp_send_post_on_stream, SetStatus, StatusMoves
    <2>5. Elems(<<SendOf(r)>>) = {SendOf(r)} /\ Elems(<<WaitOf(r)>>) = {WaitOf(r)}
      BY ElemsFew
    <2>6. Elems(<<SendOf(r)>>) \subseteq HeldOps /\ Elems(<<WaitOf(r)>>) \subseteq HeldOps
      BY <2>1, <2>5, HeldOp
    <2>7. QED
      BY <2>1, <2>2, <2>3, <2>4, <2>5, <2>6, OnStreamCall
  <1>2. ASSUME NEW r \in Reqs, NEW s \in Streams,
               mp_isend_post_on_stream(r, s) \/ mp_iput_post_on_stream(r, s)
        PROVE  CallStep
    <2>1. r \in user /\ status[r] = "PREPARED" /\ (mp_iput_post_on_stream(r, s) => req[r].type = "RDMA")
      BY <1>2 DEF mp_isend_post_on_stream, mp_iput_post_on_stream, PreparedAs, Prepared
    <2>2. <<SendOf(r)>> \in Seq(Op)
      BY <2>1, ChanType
    <2>3. PICK ops \in Delivered(<<SendOf(r)>>, <<>>) :
             /\ \E call : OnStream(call, s, ops)
             /\ \/ SetStatus({r}, "PENDING_NOWAIT") \/ SetStatus({r}, "PREPARED")
                \/ SetStatus({r}, "COMPLETE") /\ req[r].nowait /\ req[r].type = "RDMA"
      BY <1>2, <2>1 DEF mp_isend_post_on_stream, mp_iput_post_on_stream
    <2>4. /\ StatusMoves
          /\ \A x \in Reqs : status'[x] = "PENDING" => status[x] = "PENDING"
      BY <2>1, <2>3 DEF SetStatus, StatusMoves
    <2>5. Elems(<<SendOf(r)>>) \subseteq HeldOps /\ Elems(<<>>) \subseteq HeldOps
      BY <1>0, <2>1, HeldOp, ElemsFew
    <2>6. QED
      BY <1>0, <2>2, <2>3, <2>4, <2>5, OnStreamCall
  <1>3. ASSUME NEW a \in Reqs, NEW b \in Reqs, NEW s \in Streams,
               \/ mp_send_post_all_on_stream(a, b, s)
               \/ mp_isend_post_all_on_stream(a, b, s)
               \/ mp_iput_post_all_on_stream(a, b, s)
        PROVE  CallStep
    <2> USE DEF mp_send_post_all_on_stream, mp_isend_post_all_on_stream, mp_iput_post_all_on_stream
    <2>1. a \in user /\ status[a] = "PREPARED" /\ b \in user /\ status[b] = "PREPARED"
      BY <1>3 DEF PreparedAs, Prepared
    <2>2. <<SendOf(a), SendOf(b)>> \in Seq(Op) /\ <<WaitOf(a), WaitOf(b)>> \in Seq(Op)
      BY <2>1, ChanType
    <2>3. /\ StatusMoves
          /\ \A x \in Reqs : status'[x] = "PENDING" => status[x] = "PENDING"
      BY <1>3, <2>1 DEF SetStatus, StatusMoves
    <2>4. Elems(<<SendOf(a), SendOf(b)>>) \subseteq HeldOps /\ Elems(<<>>) \subseteq HeldOps
      BY <1>0, <2>1, HeldOp, ElemsFew
    <2>5. CASE mp_send_post_all_on_stream(a, b, s)
      <3>1. PICK ops \in Delivered(<<SendOf(a), SendOf(b)>>, <<WaitOf(a), WaitOf(b)>>) :
               OnStream("mp_send_post_all_on_stream", s, ops)
        BY <2>5
      <3>2. WaitFor(a) /\ WaitFor(b)
        BY <2>1, <2>5 DEF PreparedAs, WaitFor
      <3>3. Elems(<<WaitOf(a), WaitOf(b)>>) \subseteq HeldOps
        BY <2>1, <3>2, HeldOp, ElemsFew
      <3>4. QED
        BY <2>2, <2>3, <2>4, <3>1, <3>3, OnStreamCall
    <2>6. CASE mp_isend_post_all_on_stream(a, b, s) \/ mp_iput_post_all_on_stream(a, b, s)
      <3>1. PICK ops \in Delivered(<<SendOf(a), SendOf(b)>>, <<>>) : \E call : OnStream(call, s, ops)
        BY <2>6
      <3>2. QED
        BY <1>0, <2>2, <2>3, <2>4, <3>1, OnStreamCall
    <2>7. QED
      BY <1>3, <2>5, <2>6
  <1>4. ASSUME NEW q \in DescQueues, NEW s \in Streams, post_descs(q, s) PROVE CallStep
    <2>1. descs[q] \in Seq(Op) /\ stream[s] \in Seq(Op)
      BY DEF TypeOK
    <2>2. PICK ops \in Delivered(descs[q], <<>>) : stream' = [stream EXCEPT ![s] = @ \o ops]
      BY <1>4 DEF post_descs
    <2>3. ops \in Seq(Op) /\ Elems(ops) \subseteq Elems(descs[q])
      BY <1>0, <2>1, DeliveredType, ElemsDelivered
    <2>4. "stream_post" \notin Faults => Elems(ops) = Elems(descs[q])
      <3>1. "stream_post" \notin Faults => ops = descs[q] \o <<>>
        BY DEF Delivered
      <3>2. descs[q] \o <<>> = descs[q]
        BY <2>1
      <3>3. QED
        BY <3>1, <3>2
    <2>5. /\ Elems(stream'[s]) = Elems(stream[s]) \union Elems(ops)
          /\ \A t \in Streams \ {s} : stream'[t] = stream[t]
      <3>1. Elems(stream[s] \o ops) = Elems(stream[s]) \union Elems(ops)
        BY <2>1, <2>3, ElemsJoin
      <3>2. QED
        BY <2>2, <3>1 DEF TypeOK
    <2>6. /\ Elems(descs'[q]) = {} /\ \A t \in DescQueues \ {q} : descs'[t] = descs[t]
          /\ UNCHANGED <<status, req, user, posted, rung, done, cq, polled, peek, pc, post>> /\ pc = "idle"
      BY <1>0, <1>4 DEF post_descs, TypeOK
    <2>7. \A op : Queued(op)' => Queued(op)
      BY <2>3, <2>5, <2>6 DEF Queued
    <2>8. WholeCalls => \A op : Queued(op) => Queued(op)'
      BY <2>4, <2>5, <2>6 DEF Queued, WholeCalls
    <2>9. QED
      BY <2>6, <2>7, <2>8 DEF CallStep, StatusMoves
  <1>5. Batch \subseteq Reqs \X Reqs
    BY DEF Batch, TypeOK
  <1>6. QED
    BY <1>1, <1>2, <1>3, <1>4, <1>5 DEF PostPrepared

\* A call that collects a descriptor.
LEMMA CollectCall ==
    ASSUME TypeOK, NEW q \in DescQueues, NEW op \in Op, Collect(q, op), StatusMoves, op \in HeldOps,
           \A r \in Reqs : status'[r] = "PENDING" /\ status[r] # "PENDING" =>
              r \in user /\ WaitFor(r) /\ op = WaitOf(r)
    PROVE  CallStep
  <1>1. descs[q] \in Seq(Op)
    BY DEF TypeOK
  <1>2. Elems(Append(descs[q], op)) = Elems(descs[q]) \union {op}
    BY <1>1, ElemsSnoc
  <1>3. /\ UNCHANGED <<req, user, posted, rung, done, cq, polled, stream, peek, pc, post>>
        /\ pc = "idle"
    BY DEF Collect
  <1>4. /\ \A t \in DescQueues \ {q} : descs'[t] = descs[t]
        /\ \/ Elems(descs'[q]) = Elems(descs[q]) \union {op}
           \/ "stream_post" \in Faults /\ descs' = descs
    BY <1>2 DEF Collect, Append1, TypeOK
  <1>5. /\ \A x : Queued(x)' => Queued(x) \/ x = op
        /\ \A x : Queued(x) => Queued(x)'
        /\ WholeCalls => Queued(op)'
    BY <1>3, <1>4 DEF Queued, WholeCalls
  <1>6. ASSUME WholeCalls, NEW r \in Reqs, status'[r] = "PENDING", status[r] # "PENDING"
        PROVE  Arms(r)
    <2>1. WaitOf(r)' = WaitOf(r) /\ op = WaitOf(r)
      BY <1>3, <1>6 DEF WaitOf, WaitOp, Chan
    <2>2. Queued(WaitOf(r))'
      BY <1>4, <1>6, <2>1 DEF Queued, WholeCalls
    <2>3. QED
      BY <1>6, <2>2 DEF Arms
  <1>7. QED
    BY <1>3, <1>5, <1>6 DEF CallStep

\* The first loop of mp_wait_all frees the guards of the requests it has visited.
LEMMA AbortCall ==
    ASSUME TypeOK, NEW rs \in SUBSET user, AbortPeeks(rs), \A r \in rs : req_can_be_waited(r),
           UNCHANGED <<req, user, posted, rung, done, cq, polled, stream, descs, post>>,
           pc = "idle", pc' \in {"idle", "waiting"},
           \A r \in rs : status[r] = "PENDING_NOWAIT" =>
              Chan(r) \in Channels /\ req[r].wait \in DOMAIN peek[Chan(r)]
    PROVE  CallStep
  <1> DEFINE nw == {r \in rs : status[r] = "PENDING_NOWAIT"}
  <1>1. /\ peek' = [c \in Channels |-> [k \in DOMAIN peek[c] |->
                       IF \E r \in nw : Chan(r) = c /\ req[r].wait = k THEN "free" ELSE peek[c][k]]]
        /\ SetStatus(nw, "PENDING")
    BY DEF AbortPeeks
  <1>2. StatusMoves
    BY <1>1 DEF SetStatus, StatusMoves
  <1>3. /\ \A c \in Channels : DOMAIN peek'[c] = DOMAIN peek[c]
        /\ \A c \in Channels : \A k \in DOMAIN peek[c] : peek'[c][k] \in {peek[c][k], "free"}
    BY <1>1
  <1>4. ASSUME NEW r \in Reqs, status'[r] = "PENDING", status[r] # "PENDING" PROVE Arms(r)
    <2>1. r \in nw
      BY <1>1, <1>4 DEF SetStatus
    <2>2. r \in user /\ WaitFor(r)
      BY <2>1 DEF WaitFor
    <2>3. peek'[Chan(r)][req[r].wait] = "free"
      BY <1>1, <2>1
    <2>4. QED
      BY <2>2, <2>3 DEF Arms
  <1>5. \A op : Queued(op)' = Queued(op)
    BY DEF Queued
  <1>6. QED
    BY <1>2, <1>3, <1>4, <1>5 DEF CallStep

\* The guards the application may abort exist.
GuardsExist ==
    \A r \in user : req_can_be_waited(r) /\ status[r] = "PENDING_NOWAIT" =>
        Chan(r) \in Channels /\ req[r].wait \in DOMAIN peek[Chan(r)]

LEMMA CpuWaitCall ==
    ASSUME TypeOK, CpuWait, GuardsExist
    PROVE  CallStep \/ WaitReturn \/ WaitGpuError
  <1>0. <<>> \in Seq(Op) /\ Elems(<<>>) = {} /\ user \subseteq Reqs
    BY ElemsFew DEF TypeOK
  <1>1. ASSUME NEW r \in Reqs, Waitable(r)
        PROVE  /\ r \in user /\ WaitFor(r) /\ status[r] \in {"PENDING_NOWAIT", "COMPLETE"}
               /\ WaitOf(r) \in Op /\ WaitOf(r) \in HeldOps
    <2>1. r \in user /\ WaitFor(r) /\ status[r] \in {"PENDING_NOWAIT", "COMPLETE"}
      BY <1>1 DEF Waitable, WaitFor
    <2>2. QED
      BY <2>1, HeldOp, ChanType
  <1>2. ASSUME NEW r \in Reqs, NEW s \in Streams, mp_wait_on_stream(r, s) PROVE CallStep
    <2>1. Waitable(r) /\ SetStatus({r}, "PENDING")
      BY <1>2 DEF mp_wait_on_stream
    <2>2. <<WaitOf(r)>> \in Seq(Op) /\ Elems(<<WaitOf(r)>>) = {WaitOf(r)}
      BY <1>1, <2>1, ElemsFew
    <2>3. PICK ops \in Delivered(<<WaitOf(r)>>, <<>>) : OnStream("mp_wait_on_stream", s, ops)
      BY <1>2 DEF mp_wait_on_stream
    <2>4. /\ StatusMoves
          /\ \A x \in Reqs : status'[x] = "PENDING" /\ status[x] # "PENDING" => x = r
      BY <1>1, <2>1 DEF SetStatus, StatusMoves
    <2>5. Elems(<<WaitOf(r)>>) \subseteq HeldOps /\ r \in user /\ WaitFor(r)
      BY <1>1, <2>1, <2>2
    <2>6. QED
      BY <1>0, <2>2, <2>3, <2>4, <2>5, OnStreamCall
  <1>3. ASSUME NEW a \in Reqs, NEW b \in Reqs, NEW s \in Streams, mp_wait_all_on_stream(a, b, s)
        PROVE  CallStep
    <2>1. Waitable(a)
      BY <1>3 DEF mp_wait_all_on_stream
    <2>2. CASE Waitable(b) /\ SetStatus({a, b}, "PENDING")
               /\ \E ops \in Delivered(<<WaitOf(a), WaitOf(b)>>, <<>>) :
                     OnStream("mp_wait_all_on_stream", s, ops)
      <3>1. /\ <<WaitOf(a), WaitOf(b)>> \in Seq(Op)
            /\ Elems(<<WaitOf(a), WaitOf(b)>>) = {WaitOf(a), WaitOf(b)}
        BY <1>1, <2>1, <2>2, ElemsFew
      <3>2. PICK ops \in Delivered(<<WaitOf(a), WaitOf(b)>>, <<>>) :
               OnStream("mp_wait_all_on_stream", s, ops)
        BY <2>2
      <3>3. /\ StatusMoves
            /\ \A x \in Reqs : status'[x] = "PENDING" /\ status[x] # "PENDING" => x \in {a, b}
        BY <1>1, <2>1, <2>2 DEF SetStatus, StatusMoves
      <3>4. Elems(<<WaitOf(a), WaitOf(b)>>) \subseteq HeldOps
        BY <1>1, <2>1, <2>2, <3>1
      <3>5. a \in user /\ WaitFor(a) /\ b \in user /\ WaitFor(b)
        BY <1>1, <2>1, <2>2
      <3>6. PICK first \in Seq(Op) : first = <<WaitOf(a), WaitOf(b)>>
        BY <3>1, Zenon
      <3>7. /\ Elems(first) \subseteq HeldOps /\ OnStream("mp_wait_all_on_stream", s, ops)
            /\ ops \in Delivered(first, <<>>)
        BY <3>2, <3>4, <3>6
      <3>8. \A x \in Reqs : status'[x] = "PENDING" /\ status[x] # "PENDING" =>
              x \in user /\ WaitFor(x) /\ WaitOf(x) \in Elems(first) \union Elems(<<>>)
        BY <3>1, <3>3, <3>5, <3>6
      <3>9. QED
        BY <1>0, <3>3, <3>7, <3>8, OnStreamCall
    <2>3. CASE /\ "wait_nowait" \in Liberties
               /\ SetStatus({a}, "PENDING") /\ OnStream("mp_wait_all_on_stream", s, <<>>)
      <3>1. <<>> \in Delivered(<<>>, <<>>)
        BY DEF Delivered
      <3>2. StatusMoves
        BY <1>1, <2>1, <2>3 DEF SetStatus, StatusMoves
      <3>3. ~WholeCalls /\ Elems(<<>>) \subseteq HeldOps
        BY <1>0, <2>3 DEF WholeCalls
      <3>4. QED
        BY <1>0, <2>3, <3>1, <3>2, <3>3, OnStreamCall
    <2>4. QED
      BY <1>3, <2>2, <2>3 DEF mp_wait_all_on_stream
  <1>4. ASSUME NEW q \in DescQueues, NEW r \in Reqs, add_send(q, r) PROVE CallStep
    <2>1. r \in user /\ status[r] = "PREPARED" /\ Collect(q, SendOf(r)) /\ SetStatus({r}, "PENDING_NOWAIT")
      BY <1>4 DEF add_send, Prepared
    <2>2. PICK op \in Op : op = SendOf(r)
      BY <2>1, ChanType
    <2>3. StatusMoves /\ \A x \in Reqs : status'[x] = "PENDING" => status[x] = "PENDING"
      BY <2>1 DEF SetStatus, StatusMoves
    <2>4. Collect(q, op) /\ op \in HeldOps
      BY <2>1, <2>2, HeldOp
    <2>5. QED
      BY <2>3, <2>4, CollectCall
  <1>5. ASSUME NEW q \in DescQueues, NEW r \in Reqs, add_wait(q, r) PROVE CallStep
    <2>1. Waitable(r) /\ SetStatus({r}, "PENDING") /\ Collect(q, WaitOf(r))
      BY <1>5 DEF add_wait
    <2>2. PICK op \in Op : op = WaitOf(r)
      BY <1>1, <2>1
    <2>3. /\ StatusMoves
          /\ \A x \in Reqs : status'[x] = "PENDING" /\ status[x] # "PENDING" => x = r
      BY <1>1, <2>1 DEF SetStatus, StatusMoves
    <2>4. Collect(q, op) /\ op \in HeldOps /\ r \in user /\ WaitFor(r)
      BY <1>1, <2>1, <2>2
    <2>5. QED
      BY <2>2, <2>3, <2>4, CollectCall
  <1>6. ASSUME NEW rs \in SUBSET user, mp_wait_all(rs) PROVE CallStep
    <2>1. PICK before \in SUBSET user : AbortPeeks(before) /\ \A r \in before : req_can_be_waited(r)
      BY <1>6 DEF mp_wait_all
    <2>2. /\ UNCHANGED <<req, user, posted, rung, done, cq, polled, stream, descs, post>>
          /\ pc = "idle" /\ pc' \in {"idle", "waiting"}
      BY <1>6 DEF mp_wait_all
    <2>3. \A r \in before : status[r] = "PENDING_NOWAIT" =>
             Chan(r) \in Channels /\ req[r].wait \in DOMAIN peek[Chan(r)]
      BY <2>1 DEF GuardsExist
    <2>4. QED
      BY <2>1, <2>2, <2>3, AbortCall
  <1>7. Batch \subseteq Reqs \X Reqs
    BY DEF Batch, TypeOK
  <1>8. QED
    BY <1>2, <1>3, <1>4, <1>5, <1>6, <1>7 DEF CpuWait

\* What Submit and PostRetry do when the work request is posted: other requests are
\* left alone, a signaled work request brings its completion and its guard, and
\* the operations queued on s are its send and, when the call blocks, its wait.
NewReq(p, how, n, w) ==
    [peer |-> p, type |-> how.type, nowait |-> how.nowait, wqe |-> n, wait |-> w]
Target(p, how) == <<p, mp_type_to_flow(how.type)>>
PostOps(r, how, c, n, w, ops) ==
    /\ ops \in Seq(Op)
    /\ \A i \in DOMAIN ops :
          \/ i = 1 /\ ops[i] = SendOp(r, c, n) /\ how.ring = "stream"
          \/ ops[i] = WaitOp(r, c, w) /\ how.block
Posted(r, p, how, c, n, w) ==
    \/ /\ how.nowait /\ UNCHANGED <<cq, peek>>
       /\ status'[r] = how.after /\ req'[r] = NewReq(p, how, n, 0)
       /\ user' = user \union {r}
    \/ /\ ~how.nowait
       /\ cq' = Append1(cq, c, [wqe |-> n, req |-> r]) /\ peek' = Append1(peek, c, "busy")
       /\ status'[r] = how.after /\ req'[r] = NewReq(p, how, n, IF how.block THEN 0 ELSE w)
       /\ user' \in {user, user \union {r}}
       /\ how.block => Queued(WaitOp(r, c, w))'
    \/ /\ ~how.nowait /\ "prepare_wait" \in Faults
       /\ cq' = Append1(cq, c, [wqe |-> n, req |-> r]) /\ peek' = Append1(peek, c, "none")
       /\ \/ how.undo /\ status'[r] = "UNDEF" /\ req'[r] = NullReq /\ user' = user \ {r}
          \/ ~how.undo /\ status'[r] = how.state /\ req'[r] = NewReq(p, how, n, 0) /\ user' = user
PostStep(r, p, s, how, c, n, w) ==
    /\ \A x \in Reqs \ {r} : status'[x] = status[x] /\ req'[x] = req[x]
    /\ pc' = "idle" /\ UNCHANGED <<done, polled, descs, waited>>
    /\ posted' = [posted EXCEPT ![c] = n]
    /\ rung' = IF how.ring = "cpu" THEN [rung EXCEPT ![c] = n] ELSE rung
    /\ \E ops : /\ PostOps(r, how, c, n, w, ops)
                /\ stream' = [t \in Streams |-> IF t = s THEN stream[t] \o ops ELSE stream[t]]
    /\ Posted(r, p, how, c, n, w)

LEMMA EnqueueStep ==
    ASSUME TypeOK, NEW r \in Reqs, NEW p \in Peers, NEW s \in Streams \union {NoStream},
           NEW how \in How, Fits(how, s), Enqueue(r, p, s, how)
    PROVE  \E c \in Channels, n \in Nat, w \in Nat :
              /\ c = Target(p, how)
              /\ n = posted[c] + 1 /\ w = Len(peek[c]) + 1
              /\ PostStep(r, p, s, how, c, n, w)
  <1>0. PICK c \in Channels, w \in Nat, n \in Nat :
           c = <<p, mp_type_to_flow(how.type)>> /\ w = Len(peek[c]) + 1 /\ n = posted[c] + 1
    <2> DEFINE cc == <<p, mp_type_to_flow(how.type)>>
    <2>1. cc \in Channels
      BY DEF mp_type_to_flow
    <2>2. Len(peek[cc]) + 1 \in Nat /\ posted[cc] + 1 \in Nat
      <3>1. peek[cc] \in Seq({"busy", "free", "none"}) /\ posted[cc] \in Nat
        BY <2>1 DEF TypeOK
      <3> HIDE DEF cc
      <3>2. QED
        BY <3>1
    <2>3. QED
      BY <2>1, <2>2
  <1>1. PICK sop \in Op, wop \in Op : sop = SendOp(r, c, n) /\ wop = WaitOp(r, c, w)
    BY OpsAreOps
  <1> DEFINE To(os) == [t \in Streams |-> IF t = s THEN stream[t] \o os ELSE stream[t]]
  <1>2. PICK send \in Seq(Op) : send = IF how.ring = "stream" THEN <<sop>> ELSE <<>>
    <2>1. <<sop>> \in Seq(Op) /\ <<>> \in Seq(Op)
      OBVIOUS
    <2>2. (IF how.ring = "stream" THEN <<sop>> ELSE <<>>) \in Seq(Op)
      BY <2>1
    <2>3. QED
      BY <2>2, Zenon
  <1>3. PICK ops \in Seq(Op) : ops = IF how.block THEN Append(send, wop) ELSE send
    BY SeqAppend
  <1>4. /\ PostWqe(r, c, how)
        /\ pc' = "idle"
        /\ \/ /\ how.nowait
              /\ Create(r, p, how, how.after, n, 0)
              /\ user' = user \union {r} /\ stream' = To(ops) /\ peek' = peek
           \/ /\ ~how.nowait
              /\ Create(r, p, how, how.after, n, IF how.block THEN 0 ELSE w)
              /\ user' = IF how.handle THEN user \union {r} ELSE user
              /\ stream' = To(ops) /\ peek' = Append1(peek, c, "busy")
           \/ /\ ~how.nowait /\ "prepare_wait" \in Faults
              /\ Abandon(r, p, how, n)
              /\ stream' = To(send) /\ peek' = Append1(peek, c, "none")
        /\ UNCHANGED <<done, polled, descs, waited>>
    BY <1>0, <1>1, <1>2, <1>3 DEF Enqueue
  <1>5. PostOps(r, how, c, n, w, send) /\ PostOps(r, how, c, n, w, ops)
    <2>1. \A i \in DOMAIN send : i = 1 /\ send[i] = sop /\ how.ring = "stream"
      BY <1>2
    <2>2. PostOps(r, how, c, n, w, send)
      BY <1>1, <2>1 DEF PostOps
    <2>3. CASE how.block
      <3>1. ops = Append(send, wop)
        BY <1>3, <2>3
      <3>2. \A i \in DOMAIN ops : (i \in DOMAIN send /\ ops[i] = send[i]) \/ ops[i] = wop
        BY <3>1, SeqAppend
      <3>3. QED
        BY <1>1, <2>1, <2>2, <2>3, <3>2 DEF PostOps
    <2>4. CASE ~how.block
      BY <1>3, <2>2, <2>4
    <2>5. QED
      BY <2>2, <2>3, <2>4
  <1>6. how.block => wop \in Elems(ops)
    <2> SUFFICES ASSUME how.block PROVE wop \in Elems(ops)
      OBVIOUS
    <2>1. ops = Append(send, wop)
      BY <1>3
    <2>2. QED
      BY <2>1, ElemsSnoc
  <1>7. stream' = To(ops) /\ how.block => Queued(WaitOp(r, c, w))'
    <2> SUFFICES ASSUME stream' = To(ops), how.block PROVE Queued(wop)'
      BY <1>1
    <2>1. s \in Streams /\ stream'[s] = stream[s] \o ops /\ stream[s] \in Seq(Op)
      BY DEF Fits, TypeOK
    <2>2. wop \in Elems(stream'[s])
      BY <1>6, <2>1, ElemsJoin
    <2>3. QED
      BY <2>1, <2>2 DEF Queued
  <1>8. /\ posted' = [posted EXCEPT ![c] = n]
        /\ rung' = IF how.ring = "cpu" THEN [rung EXCEPT ![c] = n] ELSE rung
        /\ cq' = IF how.nowait THEN cq ELSE Append1(cq, c, [wqe |-> n, req |-> r])
    BY <1>0, <1>4 DEF PostWqe
  <1>9. ASSUME NEW st, NEW v, Create(r, p, how, st, n, v)
        PROVE  /\ \A x \in Reqs \ {r} : status'[x] = status[x] /\ req'[x] = req[x]
               /\ status'[r] = st /\ req'[r] = NewReq(p, how, n, v)
    BY <1>9 DEF Create, TypeOK, NewReq
  <1>10. \A x \in Reqs \ {r} : status'[x] = status[x] /\ req'[x] = req[x]
    BY <1>4, <1>9 DEF Abandon, Release
  <1>11. \E os : PostOps(r, how, c, n, w, os) /\ stream' = To(os)
    BY <1>4, <1>5
  <1>12. Posted(r, p, how, c, n, w)
    <2>1. CASE /\ how.nowait
               /\ Create(r, p, how, how.after, n, 0)
               /\ user' = user \union {r} /\ peek' = peek
      BY <1>8, <1>9, <2>1 DEF Posted
    <2>2. CASE /\ ~how.nowait
               /\ Create(r, p, how, how.after, n, IF how.block THEN 0 ELSE w)
               /\ user' = IF how.handle THEN user \union {r} ELSE user
               /\ stream' = To(ops) /\ peek' = Append1(peek, c, "busy")
      BY <1>7, <1>8, <1>9, <2>2 DEF Posted
    <2>3. CASE /\ ~how.nowait /\ "prepare_wait" \in Faults
               /\ Abandon(r, p, how, n) /\ peek' = Append1(peek, c, "none")
      <3>1. \/ how.undo /\ status'[r] = "UNDEF" /\ req'[r] = NullReq /\ user' = user \ {r}
            \/ ~how.undo /\ status'[r] = how.state /\ req'[r] = NewReq(p, how, n, 0) /\ user' = user
        BY <1>9, <2>3 DEF Abandon, Release
      <3>2. QED
        BY <1>8, <2>3, <3>1 DEF Posted
    <2>4. QED
      BY <1>4, <2>1, <2>2, <2>3
  <1>13. PostStep(r, p, s, how, c, n, w)
    BY <1>4, <1>8, <1>10, <1>11, <1>12 DEF PostStep
  <1>14. QED
    BY <1>0, <1>13 DEF Target

-----------------------------------------------------------------------------
(* A wait is for the request's own completion *)

\* A handle that can still be waited for remembers its own completion; there is one
\* guard per completion; and a submission that found its queue full has a request
\* nobody else holds.
HandleW(r) ==
    /\ status[r] # "UNDEF"
    /\ req[r].type = "SEND" => ~req[r].nowait
    /\ req_can_be_waited(r) /\ status[r] \in {"PREPARED", "PENDING_NOWAIT"} =>
          /\ req[r].wait \in DOMAIN cq[Chan(r)]
          /\ cq[Chan(r)][req[r].wait] = [wqe |-> req[r].wqe, req |-> r]
PostingW ==
    pc = "posting" =>
        post.req \notin user /\ Regular(post.how) /\ Fits(post.how, post.stream)
OwnWaits ==
    /\ \A c \in Channels : Len(peek[c]) = Len(cq[c])
    /\ \A r \in user : HandleW(r)
    /\ \A op : Queued(op) => IsWaitFor(op)
    /\ PostingW

LEMMA QueuedIsOp ==
    ASSUME TypeOK, NEW op, Queued(op)
    PROVE  op \in Op
  BY ElemsType DEF Queued, TypeOK

LEMMA GuardsOK ==
    ASSUME TypeOK, OwnWaits
    PROVE  GuardsExist
  <1> SUFFICES ASSUME NEW r \in user, req_can_be_waited(r), status[r] = "PENDING_NOWAIT"
               PROVE  Chan(r) \in Channels /\ req[r].wait \in DOMAIN peek[Chan(r)]
    BY DEF GuardsExist
  <1>1. PICK c \in Channels : c = Chan(r)
    BY ChanType DEF TypeOK
  <1>2. req[r].wait \in DOMAIN cq[c] /\ Len(peek[c]) = Len(cq[c])
    BY <1>1 DEF OwnWaits, HandleW
  <1>3. cq[c] \in Seq([wqe : Nat, req : Reqs]) /\ peek[c] \in Seq({"busy", "free", "none"})
    BY DEF TypeOK
  <1>4. DOMAIN peek[c] = DOMAIN cq[c]
    BY <1>2, <1>3
  <1>5. QED
    BY <1>1, <1>2, <1>4

\* A step that adds no completion.
LEMMA SameCompletions ==
    ASSUME TypeOK, OwnWaits, cq' = cq,
           \A c \in Channels : Len(peek'[c]) = Len(peek[c]),
           \A r \in user' : \/ HandleW(r)'
                            \/ /\ r \in user /\ req'[r] = req[r]
                               /\ \/ status'[r] \in {status[r], "PENDING", "COMPLETE"}
                                  \/ status[r] = "PREPARED" /\ status'[r] = "PENDING_NOWAIT",
           \A op : Queued(op)' => Queued(op) \/ IsWaitFor(op),
           PostingW'
    PROVE  OwnWaits'
  <1>1. \A c \in Channels : Len(peek'[c]) = Len(cq'[c])
    BY DEF OwnWaits
  <1>2. ASSUME NEW r \in user' PROVE HandleW(r)'
    <2>1. CASE /\ r \in user /\ req'[r] = req[r]
               /\ \/ status'[r] \in {status[r], "PENDING", "COMPLETE"}
                  \/ status[r] = "PREPARED" /\ status'[r] = "PENDING_NOWAIT"
      <3>1. Chan(r)' = Chan(r) /\ req_can_be_waited(r)' = req_can_be_waited(r) /\ HandleW(r)
        BY <2>1 DEF Chan, req_can_be_waited, OwnWaits
      <3>2. QED
        BY <2>1, <3>1 DEF HandleW
    <2>2. QED
      BY <2>1
  <1>3. \A op : Queued(op)' => IsWaitFor(op)'
    BY DEF OwnWaits, IsWaitFor
  <1>4. QED
    BY <1>1, <1>2, <1>3 DEF OwnWaits

LEMMA CallWaits ==
    ASSUME "rewait" \notin Liberties, TypeOK, TypeOK', OwnWaits, CallStep
    PROVE  OwnWaits'
  <1>1. /\ UNCHANGED <<req, user, cq>> /\ pc' # "posting" /\ StatusMoves
        /\ \A c \in Channels : DOMAIN peek'[c] = DOMAIN peek[c]
        /\ \A op : Queued(op)' => Queued(op) \/ op \in HeldOps
    BY DEF CallStep
  <1>2. ASSUME NEW c \in Channels PROVE Len(peek'[c]) = Len(peek[c])
    <2>1. /\ peek[c] \in Seq({"busy", "free", "none"}) /\ peek'[c] \in Seq({"busy", "free", "none"})
          /\ DOMAIN peek'[c] = DOMAIN peek[c]
      BY <1>1 DEF TypeOK
    <2>2. QED
      BY <2>1
  <1>3. \A op \in HeldOps : IsWaitFor(op)
    <2> SUFFICES ASSUME NEW op \in HeldOps, op.op = "wait"
                 PROVE  op.index \in DOMAIN cq[op.chan] /\ cq[op.chan][op.index].req = op.req
      BY DEF IsWaitFor
    <2>1. PICK r \in user : op = WaitOf(r) /\ WaitFor(r)
      BY DEF HeldOps, SendOf, SendOp
    <2>2. HandleW(r) /\ req_can_be_waited(r) /\ status[r] \in {"PREPARED", "PENDING_NOWAIT"}
      BY <2>1 DEF OwnWaits, HandleW, WaitFor, req_can_be_waited
    <2>3. op.chan = Chan(r) /\ op.index = req[r].wait /\ op.req = r
      BY <2>1 DEF WaitOf, WaitOp
    <2>4. QED
      BY <2>2, <2>3 DEF HandleW
  <1>4. \A r \in user : \/ status'[r] \in {status[r], "PENDING", "COMPLETE"}
                        \/ status[r] = "PREPARED" /\ status'[r] = "PENDING_NOWAIT"
    BY <1>1 DEF StatusMoves, TypeOK
  <1>5. PostingW'
    BY <1>1 DEF PostingW
  <1>6. QED
    BY <1>1, <1>2, <1>3, <1>4, <1>5, SameCompletions

\* The error path of a submission leaves everything but its own request alone.
LEMMA AbandonWaits ==
    ASSUME TypeOK, OwnWaits, NEW r \in Reqs, r \notin user, NEW p, NEW how, NEW n,
           Abandon(r, p, how, n), UNCHANGED <<cq, peek, stream, descs>>, pc' = "idle"
    PROVE  OwnWaits'
  <1>1. \A x \in Reqs \ {r} : status'[x] = status[x] /\ req'[x] = req[x]
    BY DEF Abandon, Release, Create, TypeOK
  <1>2. user' = user
    BY DEF Abandon, Release
  <1>3. PostingW' /\ \A op : Queued(op)' = Queued(op)
    BY DEF PostingW, Queued
  <1>4. \A x \in user' : x \in user /\ req'[x] = req[x] /\ status'[x] = status[x]
    BY <1>1, <1>2 DEF TypeOK
  <1>5. QED
    BY <1>3, <1>4, SameCompletions

\* What a posting step leaves in the queues of operations.
LEMMA PostQueued ==
    ASSUME TypeOK, NEW r, NEW p, NEW s, NEW how, NEW c, NEW n, NEW w,
           PostStep(r, p, s, how, c, n, w)
    PROVE  /\ \A op : Queued(op)' =>
                 Queued(op) \/ op = SendOp(r, c, n) \/ (how.block /\ op = WaitOp(r, c, w))
           /\ \A op : Queued(op) => Queued(op)'
  <1>1. PICK ops : /\ PostOps(r, how, c, n, w, ops)
                   /\ stream' = [t \in Streams |-> IF t = s THEN stream[t] \o ops ELSE stream[t]]
    BY DEF PostStep
  <1>2. /\ ops \in Seq(Op) /\ descs' = descs
        /\ \A op \in Elems(ops) : op = SendOp(r, c, n) \/ (how.block /\ op = WaitOp(r, c, w))
    BY <1>1 DEF PostOps, Elems, PostStep
  <1>3. \A t \in Streams : stream[t] \in Seq(Op)
    BY DEF TypeOK
  <1>4. \A t \in Streams : /\ Elems(stream'[t]) \subseteq Elems(stream[t]) \union Elems(ops)
                           /\ Elems(stream[t]) \subseteq Elems(stream'[t])
    BY <1>1, <1>2, <1>3, ElemsJoin
  <1>5. QED
    BY <1>2, <1>4 DEF Queued

\* A completion and its guard are added to channel c.
LEMMA Grow ==
    ASSUME TypeOK, NEW c \in Channels, NEW e \in [wqe : Nat, req : Reqs], NEW g \in {"busy", "none"},
           cq' = Append1(cq, c, e), peek' = Append1(peek, c, g), Len(peek[c]) = Len(cq[c]),
           NEW w \in Nat, w = Len(peek[c]) + 1
    PROVE  /\ \A d \in Channels \ {c} : cq'[d] = cq[d] /\ peek'[d] = peek[d]
           /\ Len(cq[c]) \in Nat /\ w = Len(cq[c]) + 1
           /\ Len(cq'[c]) = w /\ w \in DOMAIN cq'[c] /\ cq'[c][w] = e
           /\ Len(peek'[c]) = w /\ w \in DOMAIN peek'[c] /\ peek'[c][w] = g
           /\ \A d \in Channels : \A k \in DOMAIN cq[d] : k \in DOMAIN cq'[d] /\ cq'[d][k] = cq[d][k]
           /\ \A d \in Channels : \A k \in DOMAIN peek[d] : k \in DOMAIN peek'[d] /\ peek'[d][k] = peek[d][k]
  <1>1. PICK C \in Seq([wqe : Nat, req : Reqs]) : C = cq[c]
    BY DEF TypeOK
  <1>2. PICK P \in Seq({"busy", "free", "none"}) : P = peek[c]
    BY DEF TypeOK
  <1>3. /\ cq'[c] = Append(C, e) /\ peek'[c] = Append(P, g)
        /\ \A d \in Channels \ {c} : cq'[d] = cq[d] /\ peek'[d] = peek[d]
    BY <1>1, <1>2 DEF Append1, TypeOK
  <1>4. /\ Len(C) \in Nat /\ w = Len(C) + 1 /\ Len(Append(C, e)) = w
        /\ w \in DOMAIN Append(C, e) /\ Append(C, e)[w] = e
        /\ \A k \in DOMAIN C : k \in DOMAIN Append(C, e) /\ Append(C, e)[k] = C[k]
    BY <1>1, <1>2
  <1>5. /\ Len(Append(P, g)) = w
        /\ w \in DOMAIN Append(P, g) /\ Append(P, g)[w] = g
        /\ \A k \in DOMAIN P : k \in DOMAIN Append(P, g) /\ Append(P, g)[k] = P[k]
    <2>1. g \in {"busy", "free", "none"} /\ w = Len(P) + 1 /\ Len(P) \in Nat /\ DOMAIN P = 1..Len(P)
      BY <1>2
    <2>2. /\ Append(P, g) \in Seq({"busy", "free", "none"}) /\ Len(Append(P, g)) = w
          /\ \A i \in 1..Len(P) : Append(P, g)[i] = P[i]
          /\ Append(P, g)[w] = g
      BY <2>1, SeqAppend
    <2>3. DOMAIN Append(P, g) = 1..w
      BY <2>2
    <2>4. QED
      BY <2>1, <2>2, <2>3
  <1>6. /\ Len(cq[c]) \in Nat /\ w = Len(cq[c]) + 1
        /\ Len(cq'[c]) = w /\ w \in DOMAIN cq'[c] /\ cq'[c][w] = e
        /\ Len(peek'[c]) = w /\ w \in DOMAIN peek'[c] /\ peek'[c][w] = g
    BY <1>1, <1>3, <1>4, <1>5
  <1>7. ASSUME NEW d \in Channels
        PROVE  /\ \A k \in DOMAIN cq[d] : k \in DOMAIN cq'[d] /\ cq'[d][k] = cq[d][k]
               /\ \A k \in DOMAIN peek[d] : k \in DOMAIN peek'[d] /\ peek'[d][k] = peek[d][k]
    <2>1. CASE d = c
      BY <1>1, <1>2, <1>3, <1>4, <1>5, <2>1
    <2>2. CASE d # c
      BY <1>3, <2>2
    <2>3. QED
      BY <2>1, <2>2
  <1>8. QED
    BY <1>3, <1>6, <1>7

LEMMA PostWaits ==
    ASSUME TypeOK, TypeOK', OwnWaits, NEW r \in Reqs, NEW p, NEW s, NEW how, NEW c \in Channels,
           NEW n \in Nat, NEW w \in Nat, r \notin user, Regular(how),
           c = Target(p, how), w = Len(peek[c]) + 1,
           PostStep(r, p, s, how, c, n, w)
    PROVE  OwnWaits'
  <1>1. /\ \A x \in Reqs \ {r} : status'[x] = status[x] /\ req'[x] = req[x]
        /\ pc' = "idle" /\ Posted(r, p, how, c, n, w)
    BY DEF PostStep
  <1>2. /\ how \in How /\ (how.after = "COMPLETE" => how.nowait) /\ (how.nowait => how.type = "RDMA")
        /\ (how.block => how.after = "PENDING" /\ ~how.nowait)
    BY DEF Regular
  <1>3. PostingW'
    BY <1>1 DEF PostingW
  <1>4. ASSUME NEW x \in user
        PROVE  /\ x \in Reqs \ {r} /\ HandleW(x) /\ status'[x] = status[x] /\ req'[x] = req[x]
               /\ Chan(x)' = Chan(x) /\ req_can_be_waited(x)' = req_can_be_waited(x)
    <2>1. x \in Reqs \ {r}
      BY DEF TypeOK
    <2>2. QED
      BY <1>1, <2>1 DEF OwnWaits, Chan, req_can_be_waited
  <1>5. CASE how.nowait
    <2>1. /\ UNCHANGED <<cq, peek>> /\ user' = user \union {r}
          /\ status'[r] = how.after /\ req'[r] = NewReq(p, how, n, 0)
      BY <1>1, <1>5 DEF Posted
    <2>2. HandleW(r)'
      <3>1. status'[r] # "UNDEF" /\ req'[r].type = "RDMA" /\ req'[r].nowait
        BY <1>2, <1>5, <2>1 DEF NewReq, How
      <3>2. QED
        BY <3>1 DEF HandleW, req_can_be_waited
    <2>3. \A op : Queued(op)' => Queued(op) \/ IsWaitFor(op)
      BY <1>2, <1>5, PostQueued DEF IsWaitFor, SendOp
    <2>4. QED
      BY <1>3, <1>4, <2>1, <2>2, <2>3, SameCompletions
  <1>6. CASE ~how.nowait
    <2>1. PICK g \in {"busy", "none"} :
             cq' = Append1(cq, c, [wqe |-> n, req |-> r]) /\ peek' = Append1(peek, c, g)
      BY <1>1, <1>6 DEF Posted
    <2>2. PICK e \in [wqe : Nat, req : Reqs] : e = [wqe |-> n, req |-> r]
      OBVIOUS
    <2>4. cq' = Append1(cq, c, e) /\ peek' = Append1(peek, c, g) /\ Len(peek[c]) = Len(cq[c])
      BY <2>1, <2>2 DEF OwnWaits
    <2>5. /\ \A d \in Channels \ {c} : cq'[d] = cq[d] /\ peek'[d] = peek[d]
          /\ Len(cq'[c]) = w /\ w \in DOMAIN cq'[c] /\ cq'[c][w] = e /\ Len(peek'[c]) = w
      BY SMTT(30), <2>4, Grow
    <2>6. \A d \in Channels : \A k \in DOMAIN cq[d] : k \in DOMAIN cq'[d] /\ cq'[d][k] = cq[d][k]
      BY <2>4, Grow
    <2>7. \A d \in Channels : Len(peek'[d]) = Len(cq'[d])
      BY <2>5 DEF OwnWaits
    <2>8. ASSUME NEW x \in user' PROVE HandleW(x)'
      <3>1. CASE x \in user
        <4>1. PICK d \in Channels : d = Chan(x)
          BY <1>4, <3>1, ChanType DEF HandleW
        <4>2. /\ d = Chan(x)' /\ req'[x] = req[x] /\ status'[x] = status[x] /\ HandleW(x)
              /\ req_can_be_waited(x)' = req_can_be_waited(x)
          BY <1>4, <3>1, <4>1
        <4>3. QED
          BY <2>6, <4>1, <4>2 DEF HandleW
      <3>2. CASE x \notin user
        <4>1. /\ x = r /\ status'[r] = how.after
              /\ req'[r] = NewReq(p, how, n, IF how.block THEN 0 ELSE w)
          BY <1>1, <1>6, <3>2 DEF Posted
        <4>2. /\ req'[r].wqe = n /\ ~req'[r].nowait /\ Chan(r)' = c /\ how.after # "UNDEF"
              /\ req'[r].wait = IF how.block THEN 0 ELSE w
          BY <1>2, <1>6, <4>1 DEF NewReq, Chan, How, Target
        <4>3. how.after # "PENDING" => req'[r].wait = w
          BY <1>2, <4>2
        <4>4. QED
          BY <2>2, <2>5, <4>1, <4>2, <4>3 DEF HandleW
      <3>3. QED
        BY <3>1, <3>2
    <2>9. ASSUME NEW op, Queued(op)' PROVE IsWaitFor(op)'
      <3>1. CASE Queued(op)
        <4>1. op.chan \in Channels /\ IsWaitFor(op)
          BY <3>1, QueuedIsOp DEF Op, OwnWaits
        <4>2. QED
          BY <2>6, <4>1 DEF IsWaitFor
      <3>2. CASE op = SendOp(r, c, n)
        BY <3>2 DEF SendOp, IsWaitFor
      <3>3. CASE op = WaitOp(r, c, w)
        BY <2>2, <2>5, <3>3 DEF WaitOp, IsWaitFor
      <3>4. QED
        BY <2>9, <3>1, <3>2, <3>3, PostQueued
    <2>10. QED
      BY <1>3, <2>7, <2>8, <2>9 DEF OwnWaits
  <1>7. QED
    BY <1>5, <1>6

\* A submission either posts, waits for room, or fails.
LEMMA SubmitCases ==
    ASSUME TypeOK, NEW r \in Reqs, NEW p \in Peers, NEW s \in Streams \union {NoStream},
           NEW how \in How, Fits(how, s), Submit(r, p, s, how)
    PROVE  \/ \E c \in Channels, n \in Nat, w \in Nat :
                 /\ c = Target(p, how) /\ n = posted[c] + 1 /\ w = Len(peek[c]) + 1
                 /\ PostStep(r, p, s, how, c, n, w)
           \/ /\ Create(r, p, how, how.state, 0, 0) /\ how.full # "fail"
              /\ pc' = "posting"
              /\ post' = [req |-> r, peer |-> p, stream |-> s, how |-> how]
              /\ UNCHANGED <<user, posted, rung, done, cq, polled, peek, stream, descs, waited>>
           \/ /\ Abandon(r, p, how, 0)
              /\ UNCHANGED <<posted, rung, done, cq, polled, peek, stream, descs, pc, waited, post>>
  BY EnqueueStep DEF Submit

LEMMA SubmitWaits ==
    ASSUME TypeOK, TypeOK', OwnWaits, NEW r \in Reqs, NEW p \in Peers,
           NEW s \in Streams \union {NoStream}, NEW how \in How, Regular(how), Fits(how, s),
           Submit(r, p, s, how)
    PROVE  OwnWaits'
  <1>0. r \notin user /\ pc = "idle"
    BY DEF Submit, OwnWaits, HandleW
  <1>1. CASE \E c \in Channels, n \in Nat, w \in Nat :
                /\ c = Target(p, how) /\ n = posted[c] + 1 /\ w = Len(peek[c]) + 1
                /\ PostStep(r, p, s, how, c, n, w)
    BY <1>0, <1>1, PostWaits
  <1>2. CASE /\ Create(r, p, how, how.state, 0, 0)
             /\ pc' = "posting"
             /\ post' = [req |-> r, peer |-> p, stream |-> s, how |-> how]
             /\ UNCHANGED <<user, posted, rung, done, cq, polled, peek, stream, descs, waited>>
    <2>1. \A x \in Reqs \ {r} : status'[x] = status[x] /\ req'[x] = req[x]
      BY <1>2, CreateFacts
    <2>2. PostingW'
      BY <1>0, <1>2 DEF PostingW
    <2>3. \A x \in user' : x \in user /\ req'[x] = req[x] /\ status'[x] = status[x]
      BY <1>0, <1>2, <2>1 DEF TypeOK
    <2>4. \A op : Queued(op)' = Queued(op)
      BY <1>2 DEF Queued
    <2>5. UNCHANGED <<cq, peek>>
      BY <1>2
    <2>6. QED
      BY <2>2, <2>3, <2>4, <2>5, SameCompletions
  <1>3. CASE /\ Abandon(r, p, how, 0)
             /\ UNCHANGED <<posted, rung, done, cq, polled, peek, stream, descs, pc, waited, post>>
    BY <1>0, <1>3, AbandonWaits
  <1>4. QED
    BY <1>1, <1>2, <1>3, SubmitCases

\* The GPU executes an operation: it leaves its stream, and only guards are freed.
GpuStep(s) ==
    LET op == Head(stream[s])
    IN  /\ UNCHANGED <<status, req, user, posted, done, cq, polled, descs, pc, waited, post>>
        /\ stream[s] # <<>> /\ stream' = [stream EXCEPT ![s] = Tail(@)]
        /\ op \in Op /\ Queued(op)
        /\ \A x : Queued(x) => Queued(x)' \/ x = op
        /\ \A x : Queued(x)' => Queued(x)
        /\ \A c \in Channels : DOMAIN peek'[c] = DOMAIN peek[c] /\ Len(peek'[c]) = Len(peek[c])
        /\ \/ op.op = "send" /\ peek' = peek
              /\ rung' = [rung EXCEPT ![op.chan] = IF @ < op.index THEN op.index ELSE @]
           \/ /\ op.op = "wait" /\ rung' = rung
              /\ \A c \in Channels : \A k \in DOMAIN peek[c] :
                    IF c = op.chan /\ k = op.index THEN peek'[c][k] = "free"
                                                   ELSE peek'[c][k] = peek[c][k]

LEMMA EngineCases ==
    ASSUME TypeOK, TypeOK', NEW s \in Streams, StreamSend(s) \/ StreamWait(s)
    PROVE  GpuStep(s)
  <1>1. PICK q \in Seq(Op) : q = stream[s] /\ q # <<>> /\ stream' = [stream EXCEPT ![s] = Tail(q)]
    BY DEF StreamSend, StreamWait, TypeOK
  <1>2. PICK op \in Op : op = Head(q) /\ op \in Elems(q)
    BY <1>1, ElemsTail, SeqTail
  <1>3. op.chan \in Channels /\ op.index \in Nat
    BY DEF Op
  <1>4. /\ UNCHANGED <<status, req, user, posted, done, cq, polled, descs, pc, waited, post>>
        /\ \/ op.op = "send" /\ peek' = peek
              /\ rung' = [rung EXCEPT ![op.chan] = IF @ < op.index THEN op.index ELSE @]
           \/ op.op = "wait" /\ rung' = rung /\ peek' = [peek EXCEPT ![op.chan][op.index] = "free"]
    BY <1>1, <1>2 DEF StreamSend, StreamWait
  <1>5. Elems(Tail(q)) \subseteq Elems(q) /\ Elems(q) \subseteq Elems(Tail(q)) \union {op}
    <2>1. Tail(q) \in Seq(Op) /\ Len(q) \in Nat /\ Len(Tail(q)) = Len(q) - 1 /\ DOMAIN q = 1..Len(q)
          /\ DOMAIN Tail(q) = 1..(Len(q) - 1) /\ op = q[1]
      BY <1>1, <1>2
    <2>2. \A i \in 1..(Len(q) - 1) : Tail(q)[i] = q[i + 1]
      BY <1>1
    <2>3. ASSUME NEW i \in DOMAIN q PROVE q[i] \in Elems(Tail(q)) \union {op}
      <3>1. CASE i = 1
        BY <2>1, <3>1
      <3>2. CASE i # 1
        <4>1. i - 1 \in DOMAIN Tail(q) /\ Tail(q)[i - 1] = q[i]
          BY <2>1, <2>2, <3>2
        <4>2. QED
          BY <4>1 DEF Elems
      <3>3. QED
        BY <3>1, <3>2
    <2>4. Elems(Tail(q)) \subseteq Elems(q)
      BY <1>1, ElemsTail
    <2>5. QED
      BY <2>3, <2>4 DEF Elems
  <1>6. stream'[s] = Tail(q) /\ \A t \in Streams \ {s} : stream'[t] = stream[t]
    BY <1>1 DEF TypeOK
  <1>7. /\ \A x : Queued(x) => Queued(x)' \/ x = op
        /\ \A x : Queued(x)' => Queued(x)
        /\ Queued(op)
    BY <1>1, <1>2, <1>4, <1>5, <1>6 DEF Queued
  <1>8. ASSUME op.op = "wait", NEW c \in Channels
        PROVE  /\ DOMAIN peek'[c] = DOMAIN peek[c]
               /\ \A k \in DOMAIN peek[c] :
                    IF c = op.chan /\ k = op.index THEN peek'[c][k] = "free"
                                                   ELSE peek'[c][k] = peek[c][k]
    <2>1. peek' = [peek EXCEPT ![op.chan] = [peek[op.chan] EXCEPT ![op.index] = "free"]]
      BY <1>4, <1>8
    <2>2. CASE c = op.chan
      <3>1. peek'[c] = [peek[c] EXCEPT ![op.index] = "free"]
        BY <1>3, <2>1, <2>2 DEF TypeOK
      <3>2. QED
        BY <2>2, <3>1
    <2>3. CASE c # op.chan
      <3>1. peek'[c] = peek[c]
        BY <2>1, <2>3 DEF TypeOK
      <3>2. QED
        BY <2>3, <3>1
    <2>4. QED
      BY <2>2, <2>3
  <1>9. ASSUME NEW c \in Channels
        PROVE  DOMAIN peek'[c] = DOMAIN peek[c] /\ Len(peek'[c]) = Len(peek[c])
    <2>1. DOMAIN peek'[c] = DOMAIN peek[c]
      BY <1>4, <1>8
    <2>2. peek[c] \in Seq({"busy", "free", "none"}) /\ peek'[c] \in Seq({"busy", "free", "none"})
      BY DEF TypeOK
    <2>3. QED
      BY <2>1, <2>2
  <1>10. stream[s] # <<>> /\ stream' = [stream EXCEPT ![s] = Tail(@)] /\ op = Head(stream[s])
    BY <1>1, <1>2 DEF TypeOK
  <1>11. QED
    BY <1>4, <1>7, <1>8, <1>9, <1>10 DEF GpuStep

LEMMA PostingFacts ==
    ASSUME TypeOK, OwnWaits, pc = "posting"
    PROVE  /\ post.req \in Reqs /\ post.peer \in Peers /\ post.how \in How
           /\ post.stream \in Streams \union {NoStream}
           /\ Regular(post.how) /\ Fits(post.how, post.stream) /\ post.req \notin user
  <1>1. post \in Submission
    BY DEF TypeOK
  <1>2. QED
    BY <1>1 DEF Submission, OwnWaits, PostingW

LEMMA ProgressWaits ==
    ASSUME TypeOK, TypeOK', OwnWaits, Progress
    PROVE  OwnWaits'
  <1>1. ASSUME NEW c \in Channels, mp_progress_single_flow(c) PROVE OwnWaits'
    <2>1. PICK r : status' = [x \in Reqs |-> IF x \in {r} THEN "COMPLETE" ELSE status[x]]
                   \/ status' = status
      BY <1>1 DEF mp_progress_single_flow, SetStatus
    <2>2. /\ UNCHANGED <<req, user, cq, peek, stream, descs, post>>
          /\ pc' = "posting" => pc = "posting"
      BY <1>1 DEF mp_progress_single_flow
    <2>3. \A x \in user' : x \in user /\ req'[x] = req[x] /\ status'[x] \in {status[x], "COMPLETE"}
      BY <2>1, <2>2 DEF TypeOK
    <2>4. PostingW' /\ \A op : Queued(op)' = Queued(op)
      BY <2>2 DEF PostingW, Queued, OwnWaits
    <2>5. QED
      BY <2>2, <2>3, <2>4, SameCompletions
  <1>2. ASSUME NEW c \in Channels, HcaExecute(c) PROVE OwnWaits'
    <2>1. UNCHANGED <<status, req, user, cq, peek, stream, descs, pc, post>>
      BY <1>2 DEF HcaExecute
    <2>2. PostingW' /\ \A op : Queued(op)' = Queued(op)
      BY <2>1 DEF PostingW, Queued, OwnWaits
    <2>3. QED
      BY <2>1, <2>2, SameCompletions
  <1>3. ASSUME NEW s \in Streams, StreamSend(s) \/ StreamWait(s) PROVE OwnWaits'
    <2>1. GpuStep(s)
      BY <1>3, EngineCases
    <2>2. /\ UNCHANGED <<status, req, user, cq, pc, post>>
          /\ \A op : Queued(op)' => Queued(op)
          /\ \A c \in Channels : Len(peek'[c]) = Len(peek[c])
      BY <2>1 DEF GpuStep
    <2>3. PostingW'
      BY <2>2 DEF PostingW, OwnWaits
    <2>4. QED
      BY <2>2, <2>3, SameCompletions
  <1>4. ASSUME pc = "posting"
        PROVE  /\ post.req \in Reqs /\ post.peer \in Peers /\ post.how \in How
               /\ post.stream \in Streams \union {NoStream}
               /\ Regular(post.how) /\ Fits(post.how, post.stream) /\ post.req \notin user
    BY <1>4, PostingFacts
  <1>5. CASE PostRetry
    <2>1. pc = "posting" /\ Enqueue(post.req, post.peer, post.stream, post.how)
      BY <1>5 DEF PostRetry
    <2>2. QED
      BY <1>4, <2>1, EnqueueStep, PostWaits
  <1>6. CASE PostGiveUp
    BY <1>4, <1>6, AbandonWaits DEF PostGiveUp
  <1>7. QED
    BY <1>1, <1>2, <1>3, <1>5, <1>6 DEF Progress

LEMMA ReturnWaits ==
    ASSUME TypeOK, TypeOK', OwnWaits, WaitReturn \/ WaitGpuError
    PROVE  OwnWaits'
  <1>1. /\ user' \subseteq user /\ UNCHANGED <<cq, peek, stream, descs>> /\ pc' = "idle"
        /\ \A x \in user' : x \in user /\ req'[x] = req[x] /\ status'[x] = status[x]
    BY DEF WaitReturn, WaitGpuError, Release, TypeOK
  <1>2. PostingW' /\ \A op : Queued(op)' = Queued(op)
    BY <1>1 DEF PostingW, Queued
  <1>3. QED
    BY <1>1, <1>2, SameCompletions

LEMMA NextWaits ==
    ASSUME "rewait" \notin Liberties, TypeOK, OwnWaits, [Next]_vars
    PROVE  OwnWaits'
  <1>0. TypeOK'
    BY NextType
  <1>1. CASE CpuSubmit \/ StreamSubmit
    <2>1. PICK r \in Reqs, p \in Peers, s \in Streams \union {NoStream} : Submits(r, p, s)
      BY <1>1, SubmitCalls
    <2>2. PICK how \in How : Submit(r, p, s, how) /\ Regular(how) /\ Fits(how, s)
      BY <2>1 DEF Submits
    <2>3. QED
      BY <1>0, <2>2, SubmitWaits
  <1>2. CASE PostPrepared
    BY <1>0, <1>2, PostPreparedCall, CallWaits
  <1>3. CASE CpuWait
    BY <1>0, <1>3, GuardsOK, CpuWaitCall, CallWaits, ReturnWaits
  <1>4. CASE Progress
    BY <1>0, <1>4, ProgressWaits
  <1>5. CASE UNCHANGED vars
    <2>1. UNCHANGED <<status, req, user, cq, peek, stream, descs, pc, post>>
      BY <1>5 DEF vars
    <2>2. PostingW' /\ \A op : Queued(op)' = Queued(op)
      BY <2>1 DEF PostingW, Queued, OwnWaits
    <2>3. QED
      BY <2>1, <2>2, SameCompletions
  <1>6. QED
    BY <1>1, <1>2, <1>3, <1>4, <1>5 DEF Next

LEMMA InitWaits == Init => OwnWaits
  <1> SUFFICES ASSUME Init PROVE OwnWaits
    OBVIOUS
  <1>1. \A op : ~Queued(op)
    BY ElemsFew DEF Init, Queued
  <1>2. QED
    BY <1>1 DEF Init, OwnWaits, PostingW

\* The guard a request remembers, and the guard any stream or descriptor queue will
\* wait on, is the one of the request's own completion, whatever calls are used and
\* whatever fails, as long as no request is waited for twice: gds_prepare_wait_cq
\* and the posting of signaled work requests never fall out of step.
THEOREM WaitsAreOwn ==
    ASSUME "rewait" \notin Liberties PROVE Spec => []WaitsForItself
  <1>1. Init => TypeOK /\ OwnWaits
    BY InitType, InitWaits
  <1>2. TypeOK /\ OwnWaits /\ [Next]_vars => (TypeOK /\ OwnWaits)'
    BY NextType, NextWaits
  <1>3. TypeOK /\ OwnWaits => WaitsForItself
    <2> SUFFICES ASSUME TypeOK, OwnWaits PROVE WaitsForItself
      OBVIOUS
    <2>1. /\ \A s \in Streams : \A i \in DOMAIN stream[s] : Queued(stream[s][i])
          /\ \A q \in DescQueues : \A i \in DOMAIN descs[q] : Queued(descs[q][i])
      BY DEF Queued, Elems
    <2>2. QED
      BY <2>1 DEF OwnWaits, HandleW, WaitsForItself
  <1>4. QED
    BY <1>1, <1>2, <1>3, PTL DEF Spec

-----------------------------------------------------------------------------
(* A pending request needs nothing more from the application *)

\* The completion of r is to come, and its guard is free or will be freed.
Armed(r) ==
    \E k \in ToPoll(Chan(r)) :
        /\ cq[Chan(r)][k].req = r
        /\ peek[Chan(r)][k] # "busy" \/ Queued(WaitOp(r, Chan(r), k))
ArmedInv == \A r \in user : status[r] = "PENDING" => Armed(r)

\* A request stays armed when its completion stays and its guard is only freed.
LEMMA StaysArmed ==
    ASSUME NEW r, NEW c, c = Chan(r), Armed(r), req'[r] = req[r],
           \A k \in ToPoll(c) : cq[c][k].req = r =>
              /\ k \in ToPoll(c)' /\ cq'[c][k] = cq[c][k]
              /\ peek'[c][k] \in {peek[c][k], "free"}
              /\ Queued(WaitOp(r, c, k)) => Queued(WaitOp(r, c, k))' \/ peek'[c][k] = "free"
    PROVE  Armed(r)'
  <1>1. c = Chan(r)'
    BY DEF Chan
  <1>2. PICK k \in ToPoll(c) :
           cq[c][k].req = r /\ (peek[c][k] # "busy" \/ Queued(WaitOp(r, c, k)))
    BY <1>1 DEF Armed
  <1>3. /\ k \in ToPoll(c)' /\ cq'[c][k] = cq[c][k] /\ peek'[c][k] \in {peek[c][k], "free"}
        /\ Queued(WaitOp(r, c, k)) => Queued(WaitOp(r, c, k))' \/ peek'[c][k] = "free"
    BY <1>1, <1>2
  <1>4. peek'[c][k] # "busy" \/ Queued(WaitOp(r, c, k))'
    BY <1>2, <1>3
  <1>5. cq'[c][k].req = r
    BY <1>2, <1>3
  <1>6. QED
    BY <1>1, <1>3, <1>4, <1>5 DEF Armed

\* The indices of completions to come are indices of guards.
LEMMA ToPollGuard ==
    ASSUME TypeOK, Inv, NEW c \in Channels, NEW k \in ToPoll(c)
    PROVE  k \in DOMAIN peek[c] /\ k \in DOMAIN cq[c]
  <1>1. k \in 1..Len(cq[c]) /\ Len(peek[c]) = Len(cq[c])
    BY OwnerIsReq DEF Inv, Aligned
  <1>2. peek[c] \in Seq({"busy", "free", "none"}) /\ cq[c] \in Seq([wqe : Nat, req : Reqs])
    BY DEF TypeOK
  <1>3. QED
    BY <1>1, <1>2

\* The premises the steps share, kept folded.
Base == TypeOK /\ TypeOK' /\ Inv /\ Inv' /\ OwnWaits /\ ArmedInv

LEMMA UserChan ==
    ASSUME TypeOK, Inv, NEW r \in user
    PROVE  r \in Reqs /\ Chan(r) \in Channels
  BY ChanType DEF TypeOK, Inv, Handles, HandleOK

LEMMA CallArmed ==
    ASSUME WholeCalls, "rewait" \notin Liberties, Base, CallStep
    PROVE  ArmedInv'
  <1>0. TypeOK /\ Inv
    BY DEF Base
  <1>1. /\ UNCHANGED <<req, user, cq, polled>>
        /\ \A c \in Channels : \A k \in DOMAIN peek[c] : peek'[c][k] \in {peek[c][k], "free"}
        /\ \A op : Queued(op) => Queued(op)'
        /\ \A r \in Reqs : status'[r] = "PENDING" /\ status[r] # "PENDING" => Arms(r)
    BY DEF CallStep
  <1>2. \A c : ToPoll(c)' = ToPoll(c)
    BY <1>1 DEF ToPoll
  <1> SUFFICES ASSUME NEW r \in user, status'[r] = "PENDING" PROVE Armed(r)'
    BY <1>1 DEF ArmedInv
  <1>3. PICK c \in Channels : c = Chan(r) /\ r \in Reqs
    BY <1>0, UserChan
  <1>4. CASE status[r] = "PENDING"
    <2>1. Armed(r)
      BY <1>4 DEF Base, ArmedInv
    <2>2. \A k \in ToPoll(c) : /\ k \in ToPoll(c)' /\ cq'[c][k] = cq[c][k]
                               /\ peek'[c][k] \in {peek[c][k], "free"}
      BY <1>0, <1>1, <1>2, ToPollGuard
    <2>3. QED
      BY <1>1, <1>3, <2>1, <2>2, StaysArmed
  <1>5. CASE status[r] # "PENDING"
    <2>1. Arms(r)
      BY <1>1, <1>3, <1>5
    <2>2. HandleOK(r) /\ req_can_be_waited(r) /\ status[r] \in {"PREPARED", "PENDING_NOWAIT"}
      BY <1>0, <2>1 DEF Arms, WaitFor, HandleOK, req_can_be_waited, Inv, Handles
    <2>3. PICK k : k = req[r].wait
      OBVIOUS
    <2>4. k \in ToPoll(c)' /\ cq'[c][k].req = r
      BY <1>1, <1>2, <1>3, <2>2, <2>3 DEF HandleOK
    <2>5. WaitOf(r)' = WaitOp(r, c, k) /\ Chan(r)' = c
      BY <1>1, <1>3, <2>3 DEF WaitOf, Chan
    <2>6. Queued(WaitOp(r, c, k))' \/ peek'[c][k] = "free"
      BY <1>3, <2>1, <2>3, <2>5 DEF Arms, Queued
    <2>7. QED
      BY <2>4, <2>5, <2>6 DEF Armed
  <1>6. QED
    BY <1>4, <1>5

LEMMA GpuArmed ==
    ASSUME Base, NEW s \in Streams, GpuStep(s)
    PROVE  ArmedInv'
  <1>0. TypeOK /\ Inv
    BY DEF Base
  <1>1. PICK op \in Op :
          /\ \A x : Queued(x) => Queued(x)' \/ x = op
          /\ \/ op.op = "send" /\ peek' = peek
             \/ /\ op.op = "wait"
                /\ \A c \in Channels : \A k \in DOMAIN peek[c] :
                     IF c = op.chan /\ k = op.index THEN peek'[c][k] = "free"
                                                    ELSE peek'[c][k] = peek[c][k]
    BY DEF GpuStep
  <1>2. UNCHANGED <<status, req, user, cq, polled>>
    BY DEF GpuStep
  <1>3. \A c : ToPoll(c)' = ToPoll(c)
    BY <1>2 DEF ToPoll
  <1> SUFFICES ASSUME NEW r \in user, status[r] = "PENDING" PROVE Armed(r)'
    BY <1>2 DEF ArmedInv
  <1>4. PICK c \in Channels : c = Chan(r) /\ Armed(r)
    BY <1>0, UserChan DEF Base, ArmedInv
  <1>5. ASSUME NEW k \in ToPoll(c)
        PROVE  /\ k \in ToPoll(c)' /\ cq'[c][k] = cq[c][k]
               /\ peek'[c][k] \in {peek[c][k], "free"}
               /\ Queued(WaitOp(r, c, k)) => Queued(WaitOp(r, c, k))' \/ peek'[c][k] = "free"
    <2>1. k \in DOMAIN peek[c]
      BY <1>0, ToPollGuard
    <2>2. peek'[c][k] \in {peek[c][k], "free"}
      BY <1>1, <2>1
    <2>3. op = WaitOp(r, c, k) => peek'[c][k] = "free"
      BY <1>1, <2>1 DEF WaitOp
    <2>4. QED
      BY <1>1, <1>2, <1>3, <2>2, <2>3
  <1>6. QED
    BY <1>2, <1>4, <1>5, StaysArmed

\* A polled completion is that of a request that becomes complete.
LEMMA PollArmed ==
    ASSUME Base, NEW c \in Channels, mp_progress_single_flow(c)
    PROVE  ArmedInv'
  <1>0. TypeOK /\ Inv /\ polled[c] \in Nat /\ pc' # "exited"
    BY DEF Base, TypeOK, Inv
  <1>1. PICK o : o = cq[c][polled[c] + 1].req
    OBVIOUS
  <1>2. /\ polled' = [polled EXCEPT ![c] = polled[c] + 1] /\ SetStatus({o}, "COMPLETE")
        /\ UNCHANGED <<req, user, cq, peek, stream, descs>>
    BY <1>0, <1>1 DEF mp_progress_single_flow
  <1>3. \A op : Queued(op)' = Queued(op)
    BY <1>2 DEF Queued
  <1> SUFFICES ASSUME NEW r \in user, status'[r] = "PENDING" PROVE Armed(r)'
    BY <1>2 DEF ArmedInv
  <1>4. PICK d \in Channels : d = Chan(r) /\ r \in Reqs
    BY <1>0, UserChan
  <1>5. r # o /\ status[r] = "PENDING"
    BY <1>2, <1>4 DEF SetStatus
  <1>6. Armed(r)
    BY <1>5 DEF Base, ArmedInv
  <1>7. ASSUME NEW k \in ToPoll(d), cq[d][k].req = r PROVE k \in ToPoll(d)'
    <2>1. k \in (polled[d] + 1)..Len(cq[d]) /\ polled[d] \in Nat
      BY <1>0 DEF ToPoll, TypeOK
    <2>2. CASE d = c
      <3>1. k # polled[c] + 1 /\ polled'[d] = polled[c] + 1 /\ cq' = cq
        BY <1>0, <1>1, <1>2, <1>5, <1>7, <2>2 DEF TypeOK
      <3>2. k \in (polled[c] + 1 + 1)..Len(cq[d])
        <4>1. k \in Nat /\ k >= polled[c] + 1 /\ k <= Len(cq[d])
          BY <2>1, <2>2
        <4>2. QED
          BY <1>0, <3>1, <4>1
      <3>3. QED
        BY <3>1, <3>2 DEF ToPoll
    <2>3. CASE d # c
      BY <1>2, <2>3 DEF ToPoll, TypeOK
    <2>4. QED
      BY <2>2, <2>3
  <1>8. QED
    BY <1>2, <1>3, <1>4, <1>6, <1>7, StaysArmed

\* A posting step arms its own request if it leaves it pending, and disarms nobody.
LEMMA PostArmed ==
    ASSUME Base, NEW r \in Reqs, NEW p, NEW s, NEW how, NEW c \in Channels,
           NEW n \in Nat, NEW w \in Nat, r \notin user, Regular(how),
           c = Target(p, how), w = Len(peek[c]) + 1,
           PostStep(r, p, s, how, c, n, w)
    PROVE  ArmedInv'
  <1>0. TypeOK /\ Inv /\ Aligned /\ polled' = polled
    BY DEF Base, Inv, PostStep
  <1>1. /\ \A x \in Reqs \ {r} : status'[x] = status[x] /\ req'[x] = req[x]
        /\ Posted(r, p, how, c, n, w)
    BY DEF PostStep
  <1>2. /\ how.block <=> how.after = "PENDING"
        /\ how.block => ~how.nowait
    BY DEF Regular
  <1>3. \A op : Queued(op) => Queued(op)'
    BY <1>0, PostQueued
  <1>4. /\ \A d \in Channels : \A k \in DOMAIN cq[d] : k \in DOMAIN cq'[d] /\ cq'[d][k] = cq[d][k]
        /\ \A d \in Channels : \A k \in DOMAIN peek[d] : peek'[d][k] = peek[d][k]
        /\ ~how.nowait => /\ Len(cq[c]) \in Nat /\ w = Len(cq[c]) + 1
                          /\ Len(cq'[c]) = w /\ w \in DOMAIN cq'[c] /\ cq'[c][w].req = r
    <2>1. CASE how.nowait
      BY <1>1, <2>1 DEF Posted
    <2>2. CASE ~how.nowait
      <3>1. PICK g \in {"busy", "none"} :
               cq' = Append1(cq, c, [wqe |-> n, req |-> r]) /\ peek' = Append1(peek, c, g)
        BY <1>1, <2>2 DEF Posted
      <3>2. PICK e \in [wqe : Nat, req : Reqs] : e = [wqe |-> n, req |-> r]
        OBVIOUS
      <3>3. /\ cq' = Append1(cq, c, e) /\ peek' = Append1(peek, c, g)
            /\ Len(peek[c]) = Len(cq[c]) /\ e.req = r
        BY <1>0, <3>1, <3>2 DEF Aligned
      <3>4. /\ Len(cq[c]) \in Nat /\ w = Len(cq[c]) + 1
            /\ Len(cq'[c]) = w /\ w \in DOMAIN cq'[c] /\ cq'[c][w] = e
            /\ \A d \in Channels : \A k \in DOMAIN cq[d] : k \in DOMAIN cq'[d] /\ cq'[d][k] = cq[d][k]
            /\ \A d \in Channels : \A k \in DOMAIN peek[d] : peek'[d][k] = peek[d][k]
        BY <1>0, <3>3, Grow
      <3>5. QED
        BY <3>3, <3>4
    <2>3. QED
      BY <2>1, <2>2
  <1>5. ASSUME NEW d \in Channels, NEW k \in ToPoll(d) PROVE k \in ToPoll(d)'
    <2>1. k \in DOMAIN cq[d] /\ k > polled[d]
      BY <1>0, ToPollGuard, OwnerIsReq
    <2>2. k \in DOMAIN cq'[d] /\ cq'[d] \in Seq([wqe : Nat, req : Reqs]) /\ polled[d] \in Nat
      BY <1>0, <1>4, <2>1 DEF Base, TypeOK
    <2>3. k \in (polled[d] + 1)..Len(cq'[d])
      <3>1. PICK C \in Seq([wqe : Nat, req : Reqs]) : C = cq'[d]
        BY <2>2
      <3>2. k \in 1..Len(C) /\ Len(C) \in Nat
        BY <2>2, <3>1
      <3>3. k \in (polled[d] + 1)..Len(C)
        BY <2>1, <2>2, <3>2
      <3>4. QED
        BY <3>1, <3>3
    <2>4. QED
      BY <1>0, <2>3 DEF ToPoll
  <1> SUFFICES ASSUME NEW x \in user', status'[x] = "PENDING" PROVE Armed(x)'
    BY DEF ArmedInv
  <1>6. CASE x \in user
    <2>1. PICK d \in Channels : d = Chan(x) /\ x \in Reqs
      BY <1>0, <1>6, UserChan
    <2>2. status[x] = "PENDING" /\ req'[x] = req[x]
      BY <1>1, <1>6, <2>1
    <2>3. Armed(x)
      BY <1>6, <2>2 DEF Base, ArmedInv
    <2>4. ASSUME NEW k \in ToPoll(d)
          PROVE  /\ k \in ToPoll(d)' /\ cq'[d][k] = cq[d][k]
                 /\ peek'[d][k] \in {peek[d][k], "free"}
      BY <1>0, <1>4, <1>5, ToPollGuard
    <2>5. QED
      BY <1>3, <2>1, <2>2, <2>3, <2>4, StaysArmed
  <1>7. CASE x \notin user
    <2>1. x = r /\ status'[r] = how.after
      BY <1>1, <1>7 DEF Posted
    <2>2. how.block /\ ~how.nowait
      BY <1>2, <2>1
    <2>3. Queued(WaitOp(r, c, w))' /\ req'[r] = NewReq(p, how, n, 0)
      BY <1>1, <1>7, <2>1, <2>2 DEF Posted
    <2>4. Chan(r)' = c
      BY <2>3 DEF Chan, NewReq, Target
    <2>5. w \in ToPoll(c)' /\ cq'[c][w].req = r
      <3>1. polled[c] <= Len(cq[c]) /\ polled[c] \in Nat
        BY <1>0 DEF Aligned, TypeOK
      <3>2. w \in (polled[c] + 1)..Len(cq'[c])
        BY <1>4, <2>2, <3>1
      <3>3. QED
        BY <1>0, <1>4, <2>2, <3>2 DEF ToPoll
    <2>6. QED
      BY <2>1, <2>3, <2>4, <2>5 DEF Armed
  <1>8. QED
    BY <1>6, <1>7

\* A step that leaves the completions, the guards and the operations alone.
LEMMA StillArmed ==
    ASSUME Base, UNCHANGED <<cq, polled, peek, stream, descs>>,
           \A r \in user' : r \in user /\ req'[r] = req[r] /\ status'[r] = status[r]
    PROVE  ArmedInv'
  <1>0. TypeOK /\ Inv
    BY DEF Base
  <1>1. (\A c : ToPoll(c)' = ToPoll(c)) /\ \A op : Queued(op)' = Queued(op)
    BY DEF ToPoll, Queued
  <1> SUFFICES ASSUME NEW r \in user', status'[r] = "PENDING" PROVE Armed(r)'
    BY DEF ArmedInv
  <1>2. PICK c \in Channels : c = Chan(r)
    BY <1>0, UserChan
  <1>3. Armed(r) /\ req'[r] = req[r]
    BY DEF Base, ArmedInv
  <1>4. QED
    BY <1>1, <1>2, <1>3, StaysArmed

LEMMA AbandonArmed ==
    ASSUME Base, NEW r \in Reqs, r \notin user, NEW p, NEW how, NEW n, Abandon(r, p, how, n),
           UNCHANGED <<cq, polled, peek, stream, descs>>
    PROVE  ArmedInv'
  <1>0. TypeOK
    BY DEF Base
  <1>1. \A x \in Reqs \ {r} : status'[x] = status[x] /\ req'[x] = req[x]
    BY <1>0 DEF Abandon, Release, Create, TypeOK
  <1>2. user' = user
    BY DEF Abandon, Release
  <1>3. \A x \in user' : x \in user /\ req'[x] = req[x] /\ status'[x] = status[x]
    BY <1>0, <1>1, <1>2 DEF TypeOK
  <1>4. QED
    BY <1>3, StillArmed

LEMMA SubmitArmed ==
    ASSUME Base, NEW r \in Reqs, NEW p \in Peers, NEW s \in Streams \union {NoStream},
           NEW how \in How, Regular(how), Fits(how, s), Submit(r, p, s, how)
    PROVE  ArmedInv'
  <1>0. r \notin user /\ TypeOK
    BY DEF Base, Submit, OwnWaits, HandleW
  <1>1. CASE \E c \in Channels, n \in Nat, w \in Nat :
                /\ c = Target(p, how) /\ n = posted[c] + 1 /\ w = Len(peek[c]) + 1
                /\ PostStep(r, p, s, how, c, n, w)
    BY <1>0, <1>1, PostArmed
  <1>2. CASE /\ Create(r, p, how, how.state, 0, 0) /\ user' = user
             /\ UNCHANGED <<cq, polled, peek, stream, descs>>
    <2>1. \A x \in Reqs \ {r} : status'[x] = status[x] /\ req'[x] = req[x]
      BY <1>0, <1>2, CreateFacts
    <2>2. \A x \in user' : x \in user /\ req'[x] = req[x] /\ status'[x] = status[x]
      BY <1>0, <1>2, <2>1 DEF TypeOK
    <2>3. UNCHANGED <<cq, polled, peek, stream, descs>>
      BY <1>2
    <2>4. QED
      BY <2>2, <2>3, StillArmed
  <1>3. CASE Abandon(r, p, how, 0) /\ UNCHANGED <<cq, polled, peek, stream, descs>>
    BY <1>0, <1>3, AbandonArmed
  <1>4. QED
    BY <1>0, <1>1, <1>2, <1>3, SubmitCases

LEMMA NextArmed ==
    ASSUME WholeCalls, "rewait" \notin Liberties, Base, [Next]_vars
    PROVE  ArmedInv'
  <1>0. TypeOK /\ TypeOK' /\ OwnWaits /\ Inv /\ GuardsExist
    BY GuardsOK DEF Base
  <1>1. CASE CpuSubmit \/ StreamSubmit
    <2>1. PICK r \in Reqs, p \in Peers, s \in Streams \union {NoStream} : Submits(r, p, s)
      BY <1>1, SubmitCalls
    <2>2. PICK how \in How : Submit(r, p, s, how) /\ Regular(how) /\ Fits(how, s)
      BY <2>1 DEF Submits
    <2>3. QED
      BY <2>2, SubmitArmed
  <1>2. CASE PostPrepared
    BY <1>0, <1>2, PostPreparedCall, CallArmed
  <1>3. CASE CpuWait
    <2>1. CASE WaitReturn \/ WaitGpuError
      <3>1. /\ UNCHANGED <<cq, polled, peek, stream, descs>>
            /\ \A x \in user' : x \in user /\ req'[x] = req[x] /\ status'[x] = status[x]
        BY <1>0, <2>1 DEF WaitReturn, WaitGpuError, Release, TypeOK
      <3>2. QED
        BY <3>1, StillArmed
    <2>2. QED
      BY <1>0, <1>3, <2>1, CpuWaitCall, CallArmed
  <1>4. ASSUME NEW c \in Channels, HcaExecute(c) PROVE ArmedInv'
    <2>1. UNCHANGED <<status, req, user, cq, polled, peek, stream, descs>>
      BY <1>4 DEF HcaExecute
    <2>2. QED
      BY <2>1, StillArmed
  <1>5. ASSUME NEW s \in Streams, StreamSend(s) \/ StreamWait(s) PROVE ArmedInv'
    BY <1>0, <1>5, EngineCases, GpuArmed
  <1>6. ASSUME pc = "posting"
        PROVE  /\ post.req \in Reqs /\ post.peer \in Peers /\ post.how \in How
               /\ post.stream \in Streams \union {NoStream}
               /\ Regular(post.how) /\ Fits(post.how, post.stream) /\ post.req \notin user
    BY <1>0, <1>6, PostingFacts
  <1>7. CASE PostRetry
    <2>1. pc = "posting" /\ Enqueue(post.req, post.peer, post.stream, post.how)
      BY <1>7 DEF PostRetry
    <2>2. QED
      BY <1>0, <1>6, <2>1, EnqueueStep, PostArmed
  <1>8. CASE PostGiveUp
    BY <1>6, <1>8, AbandonArmed DEF PostGiveUp
  <1>9. CASE UNCHANGED vars
    <2>1. UNCHANGED <<status, req, user, cq, polled, peek, stream, descs>>
      BY <1>9 DEF vars
    <2>2. QED
      BY <2>1, StillArmed
  <1>10. CASE Progress
    BY <1>4, <1>5, <1>7, <1>8, <1>10, PollArmed DEF Progress
  <1>11. QED
    BY <1>1, <1>2, <1>3, <1>9, <1>10 DEF Next

\* In safe use, when no stream call fails half way and no request is waited for
\* twice, a MP_PENDING request the application holds needs nothing more from it than
\* posting its descriptors: its completion is to come, and its guard is free or some
\* stream or descriptor queue holds the wait that frees it.
THEOREM PendingArmed ==
    ASSUME SafeUse, WholeCalls, "rewait" \notin Liberties
    PROVE  Spec => []PendingIsArmed
  <1> DEFINE J == IInv /\ OwnWaits /\ ArmedInv
  <1>1. Init => J
    <2>1. Init => ArmedInv
      BY DEF Init, ArmedInv
    <2>2. QED
      BY <2>1, InitType, InitInv, InitWaits DEF IInv
  <1>2. J /\ [Next]_vars => J'
    <2> SUFFICES ASSUME J, [Next]_vars PROVE J'
      OBVIOUS
    <2>1. IInv' /\ OwnWaits'
      BY NextInv, NextWaits DEF IInv
    <2>2. Base
      BY <2>1 DEF Base, IInv
    <2>3. QED
      BY <2>1, <2>2, NextArmed
  <1>3. J => PendingIsArmed
    <2> SUFFICES ASSUME ArmedInv, NEW r \in user, status[r] = "PENDING"
                 PROVE  \E k \in ToPoll(Chan(r)) :
                           /\ cq[Chan(r)][k].req = r
                           /\ \/ peek[Chan(r)][k] # "busy"
                              \/ InStreams(WaitOp(r, Chan(r), k)) \/ InDescs(WaitOp(r, Chan(r), k))
      BY DEF PendingIsArmed
    <2>1. \A op : Queued(op) => InStreams(op) \/ InDescs(op)
      BY DEF Queued, Elems, InStreams, InDescs, InSeq
    <2>2. QED
      BY <2>1 DEF ArmedInv, Armed
  <1>4. QED
    BY <1>1, <1>2, <1>3, PTL DEF Spec

-----------------------------------------------------------------------------
(* No doorbell overtakes a send *)

\* The application's contract on doorbells, and the call that posts requests and
\* leaves them MP_PREPARED is not used.
OrderedUse ==
    "unordered" \notin Liberties /\ "mp_send_post_all_on_stream" \notin Calls

\* The work requests that the sends for channel c in a queue of operations stand for.
Sends(q, c) == {q[i].index : i \in {k \in DOMAIN q : q[k].op = "send" /\ q[k].chan = c}}
Ascends(q) ==
    \A i, j \in DOMAIN q :
        i < j /\ q[i].op = "send" /\ q[j].op = "send" /\ q[i].chan = q[j].chan
        => q[i].index < q[j].index

\* The sends of a channel wait in one stream, then in one descriptor queue, then as
\* prepared requests, all behind the doorbell.
Lane(c) ==
    /\ rung[c] <= posted[c]
    /\ \A s \in Streams : \A j \in Sends(stream[s], c) : rung[c] < j /\ j <= posted[c]
    /\ \A q \in DescQueues : \A j \in Sends(descs[q], c) : rung[c] < j /\ j <= posted[c]
    /\ \A s, t \in Streams : s # t => Sends(stream[s], c) = {} \/ Sends(stream[t], c) = {}
    /\ \A q, o \in DescQueues : q # o => Sends(descs[q], c) = {} \/ Sends(descs[o], c) = {}
    /\ \A s \in Streams, q \in DescQueues :
          \A i \in Sends(stream[s], c), j \in Sends(descs[q], c) : i < j
HeldBack(c) ==
    \A r \in Reqs : Held(c, r) =>
        /\ rung[c] < req[r].wqe /\ req[r].wqe <= posted[c]
        /\ \A s \in Streams : \A j \in Sends(stream[s], c) : j < req[r].wqe
        /\ \A q \in DescQueues : \A j \in Sends(descs[q], c) : j < req[r].wqe
        /\ \A x \in Reqs : Held(c, x) /\ req[x].wqe = req[r].wqe => x = r
Lanes ==
    /\ \A c \in Channels : Lane(c) /\ HeldBack(c)
    /\ \A s \in Streams : Ascends(stream[s])
    /\ \A q \in DescQueues : Ascends(descs[q])

LEMMA SendsType ==
    ASSUME NEW q \in Seq(Op), NEW c
    PROVE  Sends(q, c) \subseteq Nat
  <1>1. \A i \in DOMAIN q : q[i] \in Op
    BY SeqElem
  <1>2. \A i \in DOMAIN q : q[i].index \in Nat
    BY <1>1 DEF Op
  <1>3. QED
    BY <1>2 DEF Sends

LEMMA JoinParts ==
    ASSUME NEW a \in Seq(Op), NEW b \in Seq(Op)
    PROVE  /\ Len(a) \in Nat /\ DOMAIN a = 1..Len(a) /\ DOMAIN b = 1..Len(b)
           /\ DOMAIN (a \o b) \subseteq Nat
           /\ \A i \in DOMAIN a : i \in DOMAIN (a \o b) /\ (a \o b)[i] = a[i]
           /\ \A i \in DOMAIN b : i + Len(a) \in DOMAIN (a \o b) /\ (a \o b)[i + Len(a)] = b[i]
           /\ \A i \in DOMAIN (a \o b) :
                 \/ i \in DOMAIN a /\ (a \o b)[i] = a[i]
                 \/ i \notin DOMAIN a /\ i - Len(a) \in DOMAIN b /\ (a \o b)[i] = b[i - Len(a)]
  <1>1. /\ Len(a) \in Nat /\ DOMAIN a = 1..Len(a) /\ DOMAIN b = 1..Len(b) /\ Len(b) \in Nat
        /\ DOMAIN (a \o b) = 1..(Len(a) + Len(b))
    OBVIOUS
  <1>2. ASSUME NEW i \in DOMAIN (a \o b), i \notin DOMAIN a
        PROVE  i - Len(a) \in DOMAIN b /\ (a \o b)[i] = b[i - Len(a)]
    BY <1>1, <1>2
  <1>3. \A i \in DOMAIN a : i \in DOMAIN (a \o b) /\ (a \o b)[i] = a[i]
    OBVIOUS
  <1>4. \A i \in DOMAIN b : i + Len(a) \in DOMAIN (a \o b) /\ (a \o b)[i + Len(a)] = b[i]
    OBVIOUS
  <1>5. QED
    BY <1>1, <1>2, <1>3, <1>4

LEMMA SendsJoin ==
    ASSUME NEW a \in Seq(Op), NEW b \in Seq(Op), NEW c
    PROVE  Sends(a \o b, c) = Sends(a, c) \union Sends(b, c)
  <1>1. PICK q : q = a \o b
    OBVIOUS
  <1>2. PICK n : n = Len(a)
    OBVIOUS
  <1>3. /\ \A i \in DOMAIN a : i \in DOMAIN q /\ q[i] = a[i]
        /\ \A i \in DOMAIN b : i + n \in DOMAIN q /\ q[i + n] = b[i]
        /\ \A i \in DOMAIN q :
              (i \in DOMAIN a /\ q[i] = a[i]) \/ (i - n \in DOMAIN b /\ q[i] = b[i - n])
    BY <1>1, <1>2, JoinParts
  <1>4. Sends(q, c) \subseteq Sends(a, c) \union Sends(b, c)
    BY <1>3 DEF Sends
  <1>5. Sends(a, c) \subseteq Sends(q, c)
    BY <1>3 DEF Sends
  <1>6. Sends(b, c) \subseteq Sends(q, c)
    BY <1>3 DEF Sends
  <1>7. QED
    BY <1>1, <1>4, <1>5, <1>6

LEMMA AscendsJoin ==
    ASSUME NEW a \in Seq(Op), NEW b \in Seq(Op), Ascends(a), Ascends(b),
           \A c : \A i \in Sends(a, c), j \in Sends(b, c) : i < j
    PROVE  Ascends(a \o b)
  <1> DEFINE q == a \o b
  <1> SUFFICES ASSUME NEW i \in DOMAIN q, NEW j \in DOMAIN q, i < j,
                      q[i].op = "send", q[j].op = "send", q[i].chan = q[j].chan
               PROVE  q[i].index < q[j].index
    BY DEF Ascends
  <1>1. /\ i \in Nat /\ j \in Nat /\ Len(a) \in Nat /\ Len(b) \in Nat
        /\ DOMAIN a = 1..Len(a) /\ DOMAIN b = 1..Len(b)
    BY JoinParts
  <1>2. /\ \/ i \in DOMAIN a /\ q[i] = a[i]
           \/ i \notin DOMAIN a /\ i - Len(a) \in DOMAIN b /\ q[i] = b[i - Len(a)]
        /\ \/ j \in DOMAIN a /\ q[j] = a[j]
           \/ j \notin DOMAIN a /\ j - Len(a) \in DOMAIN b /\ q[j] = b[j - Len(a)]
    BY JoinParts
  <1> HIDE DEF q
  <1>3. CASE i \in DOMAIN a /\ j \in DOMAIN a
    BY <1>2, <1>3 DEF Ascends
  <1>4. CASE i \in DOMAIN a /\ j \notin DOMAIN a
    <2>1. q[i].index \in Sends(a, q[i].chan)
      BY <1>2, <1>4 DEF Sends
    <2>2. q[j].index \in Sends(b, q[i].chan)
      BY <1>2, <1>4 DEF Sends
    <2>3. QED
      BY <2>1, <2>2
  <1>5. CASE i \notin DOMAIN a /\ j \notin DOMAIN a
    <2>1. i - Len(a) < j - Len(a)
      BY <1>1
    <2>2. QED
      BY <1>2, <1>5, <2>1 DEF Ascends
  <1>6. CASE i \notin DOMAIN a /\ j \in DOMAIN a
    BY <1>1, <1>2, <1>6
  <1>7. QED
    BY <1>3, <1>4, <1>5, <1>6

LEMMA SendsTail ==
    ASSUME NEW q \in Seq(Op), q # <<>>, Ascends(q)
    PROVE  /\ Ascends(Tail(q)) /\ \A c : Sends(Tail(q), c) \subseteq Sends(q, c)
           /\ Head(q).op = "send" => Head(q).index \in Sends(q, Head(q).chan)
           /\ Head(q).op = "send" => \A j \in Sends(Tail(q), Head(q).chan) : Head(q).index < j
  <1>1. /\ Tail(q) \in Seq(Op) /\ Head(q) = q[1] /\ 1 \in DOMAIN q
        /\ \A i \in DOMAIN Tail(q) : i \in Nat /\ i >= 1 /\ i + 1 \in DOMAIN q /\ Tail(q)[i] = q[i + 1]
    <2>1. /\ Tail(q) \in Seq(Op) /\ Head(q) = q[1] /\ 1 \in DOMAIN q
          /\ \A i \in DOMAIN Tail(q) : i + 1 \in DOMAIN q /\ Tail(q)[i] = q[i + 1]
      BY SeqTail
    <2>2. \A i \in DOMAIN Tail(q) : i \in Nat /\ i >= 1
      BY <2>1
    <2>3. QED
      BY <2>1, <2>2
  <1>2. \A c : Sends(Tail(q), c) \subseteq Sends(q, c)
    BY <1>1 DEF Sends
  <1>3. Ascends(Tail(q))
    <2> SUFFICES ASSUME NEW i \in DOMAIN Tail(q), NEW j \in DOMAIN Tail(q), i < j,
                        Tail(q)[i].op = "send", Tail(q)[j].op = "send",
                        Tail(q)[i].chan = Tail(q)[j].chan
                 PROVE  Tail(q)[i].index < Tail(q)[j].index
      BY DEF Ascends
    <2>1. i + 1 < j + 1
      BY <1>1
    <2>2. QED
      BY <1>1, <2>1 DEF Ascends
  <1>4. ASSUME Head(q).op = "send", NEW j \in Sends(Tail(q), Head(q).chan)
        PROVE  Head(q).index < j
    <2>1. PICK i \in DOMAIN Tail(q) :
             Tail(q)[i].op = "send" /\ Tail(q)[i].chan = Head(q).chan /\ Tail(q)[i].index = j
      BY DEF Sends
    <2>2. 1 < i + 1
      BY <1>1
    <2>3. QED
      BY <1>1, <1>4, <2>1, <2>2 DEF Ascends
  <1>5. Head(q).op = "send" => Head(q).index \in Sends(q, Head(q).chan)
    BY <1>1 DEF Sends
  <1>6. QED
    BY <1>2, <1>3, <1>4, <1>5

LEMMA SendsElsewhere ==
    ASSUME NEW q \in Seq(Op), NEW c, c \notin Channels
    PROVE  Sends(q, c) = {}
  <1>1. \A i \in DOMAIN q : q[i] \in Op
    BY SeqElem
  <1>2. \A i \in DOMAIN q : q[i].chan \in Channels
    BY <1>1 DEF Op
  <1>3. QED
    BY <1>2 DEF Sends

LEMMA SendsEmpty ==
    \A c : Sends(<<>>, c) = {} /\ Ascends(<<>>)
  BY DEF Sends, Ascends

\* Nothing is added, and what stays is behind the doorbell.
Fewer ==
    /\ \A c \in Channels : rung'[c] <= posted'[c] /\ posted[c] <= posted'[c]
    /\ \A s \in Streams : Ascends(stream'[s])
    /\ \A q \in DescQueues : Ascends(descs'[q])
    /\ \A c \in Channels, s \in Streams : \A j \in Sends(stream'[s], c) :
          j \in Sends(stream[s], c) /\ rung'[c] < j
    /\ \A c \in Channels, q \in DescQueues : \A j \in Sends(descs'[q], c) :
          j \in Sends(descs[q], c) /\ rung'[c] < j
    /\ \A c \in Channels, r \in Reqs : Held(c, r)' =>
          Held(c, r) /\ req'[r].wqe = req[r].wqe /\ rung'[c] < req'[r].wqe

LEMMA FewerLanes ==
    ASSUME TypeOK, TypeOK', Lanes, Fewer
    PROVE  Lanes'
  <1>1. ASSUME NEW c \in Channels PROVE Lane(c)'
    <2>1. /\ Lane(c) /\ posted[c] \in Nat /\ posted'[c] \in Nat
          /\ \A s \in Streams : Sends(stream[s], c) \subseteq Nat
          /\ \A q \in DescQueues : Sends(descs[q], c) \subseteq Nat
      BY SendsType DEF TypeOK, Lanes
    <2>2. /\ rung'[c] <= posted'[c] /\ posted[c] <= posted'[c]
          /\ \A s \in Streams : \A j \in Sends(stream'[s], c) :
                j \in Sends(stream[s], c) /\ rung'[c] < j
          /\ \A q \in DescQueues : \A j \in Sends(descs'[q], c) :
                j \in Sends(descs[q], c) /\ rung'[c] < j
      BY DEF Fewer
    <2>3. /\ \A s \in Streams : \A j \in Sends(stream'[s], c) : j <= posted'[c]
          /\ \A q \in DescQueues : \A j \in Sends(descs'[q], c) : j <= posted'[c]
      BY <2>1, <2>2 DEF Lane
    <2>4. /\ \A s, t \in Streams : s # t => Sends(stream'[s], c) = {} \/ Sends(stream'[t], c) = {}
          /\ \A q, o \in DescQueues : q # o => Sends(descs'[q], c) = {} \/ Sends(descs'[o], c) = {}
          /\ \A s \in Streams, q \in DescQueues :
                \A i \in Sends(stream'[s], c), j \in Sends(descs'[q], c) : i < j
      BY <2>1, <2>2 DEF Lane
    <2>5. QED
      BY <2>2, <2>3, <2>4 DEF Lane
  <1>2. ASSUME NEW c \in Channels PROVE HeldBack(c)'
    <2> SUFFICES ASSUME NEW r \in Reqs, Held(c, r)'
                 PROVE  /\ rung'[c] < req'[r].wqe /\ req'[r].wqe <= posted'[c]
                        /\ \A s \in Streams : \A j \in Sends(stream'[s], c) : j < req'[r].wqe
                        /\ \A q \in DescQueues : \A j \in Sends(descs'[q], c) : j < req'[r].wqe
                        /\ \A x \in Reqs : Held(c, x)' /\ req'[x].wqe = req'[r].wqe => x = r
      BY DEF HeldBack
    <2>1. Held(c, r) /\ req'[r].wqe = req[r].wqe /\ rung'[c] < req'[r].wqe
      BY DEF Fewer
    <2>2. HeldBack(c) /\ posted[c] \in Nat /\ posted'[c] \in Nat /\ req[r].wqe \in Nat
          /\ posted[c] <= posted'[c]
      BY DEF TypeOK, ReqFields, Lanes, Fewer
    <2>3. /\ \A s \in Streams : \A j \in Sends(stream'[s], c) : j \in Sends(stream[s], c)
          /\ \A q \in DescQueues : \A j \in Sends(descs'[q], c) : j \in Sends(descs[q], c)
          /\ \A x \in Reqs : Held(c, x)' => Held(c, x) /\ req'[x].wqe = req[x].wqe
      BY DEF Fewer
    <2>4. req'[r].wqe <= posted'[c]
      BY <2>1, <2>2 DEF HeldBack
    <2>5. QED
      BY <2>1, <2>2, <2>3, <2>4 DEF HeldBack
  <1>3. QED
    BY <1>1, <1>2 DEF Lanes, Fewer

\* Stream s gets ops, whose sends come after those queued there and before those
\* that stay behind.
HandOver(s, ops) ==
    /\ rung' = rung /\ \A c \in Channels : posted[c] <= posted'[c]
    /\ stream'[s] = stream[s] \o ops /\ \A t \in Streams \ {s} : stream'[t] = stream[t]
    /\ Ascends(ops)
    /\ \A q \in DescQueues : Ascends(descs'[q])
    /\ \A c \in Channels, q \in DescQueues : Sends(descs'[q], c) \subseteq Sends(descs[q], c)
    /\ \A c \in Channels, r \in Reqs : Held(c, r)' => Held(c, r) /\ req'[r].wqe = req[r].wqe
    /\ \A c \in Channels, t \in Streams \ {s} : Sends(ops, c) = {} \/ Sends(stream[t], c) = {}
    /\ \A c \in Channels : \A j \in Sends(ops, c) :
          /\ rung[c] < j /\ j <= posted'[c]
          /\ \A i \in Sends(stream[s], c) : i < j
          /\ \A q \in DescQueues : \A i \in Sends(descs'[q], c) : j < i
          /\ \A r \in Reqs : Held(c, r)' => j < req[r].wqe

LEMMA HandOverLanes ==
    ASSUME TypeOK, TypeOK', Lanes, NEW s \in Streams, NEW ops \in Seq(Op), HandOver(s, ops)
    PROVE  Lanes'
  <1>0. /\ stream[s] \in Seq(Op)
        /\ \A c \in Channels, t \in Streams : Sends(stream[t], c) \subseteq Nat
        /\ \A c \in Channels, q \in DescQueues : Sends(descs[q], c) \subseteq Nat
    BY SendsType DEF TypeOK
  <1>1. \A c \in Channels : /\ Sends(stream'[s], c) = Sends(stream[s], c) \union Sends(ops, c)
                            /\ \A t \in Streams \ {s} : Sends(stream'[t], c) = Sends(stream[t], c)
    BY <1>0, SendsJoin DEF HandOver
  <1>2. ASSUME NEW t \in Streams PROVE Ascends(stream'[t])
    <2>1. CASE t = s
      <3>1. \A c \in Channels : \A i \in Sends(stream[s], c), j \in Sends(ops, c) : i < j
        BY DEF HandOver
      <3>2. \A c : c \notin Channels => Sends(ops, c) = {}
        BY SendsElsewhere
      <3>3. \A c : \A i \in Sends(stream[s], c), j \in Sends(ops, c) : i < j
        BY <3>1, <3>2
      <3>4. Ascends(stream[s]) /\ Ascends(ops)
        BY DEF Lanes, HandOver
      <3>5. Ascends(stream[s] \o ops)
        BY <1>0, <3>3, <3>4, AscendsJoin
      <3>6. QED
        BY <2>1, <3>5 DEF HandOver
    <2>2. CASE t # s
      BY <2>2 DEF HandOver, Lanes
    <2>3. QED
      BY <2>1, <2>2
  <1>3. ASSUME NEW c \in Channels PROVE Lane(c)'
    <2>1. /\ Lane(c) /\ posted[c] \in Nat /\ posted'[c] \in Nat /\ rung'[c] = rung[c] /\ rung[c] \in Nat
          /\ posted[c] <= posted'[c]
      BY DEF TypeOK, Lanes, HandOver
    <2>2. /\ \A q \in DescQueues : Sends(descs'[q], c) \subseteq Sends(descs[q], c)
          /\ \A t \in Streams \ {s} : Sends(ops, c) = {} \/ Sends(stream[t], c) = {}
          /\ \A j \in Sends(ops, c) :
                /\ rung[c] < j /\ j <= posted'[c]
                /\ \A q \in DescQueues : \A i \in Sends(descs'[q], c) : j < i
      BY DEF HandOver
    <2>3. rung'[c] <= posted'[c]
      BY <2>1 DEF Lane
    <2>4. \A t \in Streams : \A j \in Sends(stream'[t], c) : rung'[c] < j /\ j <= posted'[c]
      BY <1>0, <1>1, <2>1, <2>2 DEF Lane
    <2>5. \A q \in DescQueues : \A j \in Sends(descs'[q], c) : rung'[c] < j /\ j <= posted'[c]
      BY <1>0, <2>1, <2>2 DEF Lane
    <2>6. \A t, u \in Streams : t # u => Sends(stream'[t], c) = {} \/ Sends(stream'[u], c) = {}
      <3>1. ASSUME NEW t \in Streams, NEW u \in Streams, t # u
            PROVE  Sends(stream[t], c) = {} \/ Sends(stream[u], c) = {}
        BY <2>1, <3>1 DEF Lane
      <3>2. \A u \in Streams \ {s} : Sends(stream'[s], c) = {} \/ Sends(stream'[u], c) = {}
        BY <1>1, <2>2, <3>1
      <3>3. QED
        BY SMTT(30), <1>1, <3>1, <3>2
    <2>7. \A q, o \in DescQueues : q # o => Sends(descs'[q], c) = {} \/ Sends(descs'[o], c) = {}
      BY <2>1, <2>2 DEF Lane
    <2>8. \A t \in Streams, q \in DescQueues :
             \A i \in Sends(stream'[t], c), j \in Sends(descs'[q], c) : i < j
      BY <1>1, <2>1, <2>2 DEF Lane
    <2>9. QED
      BY <2>3, <2>4, <2>5, <2>6, <2>7, <2>8 DEF Lane
  <1>4. ASSUME NEW c \in Channels PROVE HeldBack(c)'
    <2> SUFFICES ASSUME NEW r \in Reqs, Held(c, r)'
                 PROVE  /\ rung'[c] < req'[r].wqe /\ req'[r].wqe <= posted'[c]
                        /\ \A t \in Streams : \A j \in Sends(stream'[t], c) : j < req'[r].wqe
                        /\ \A q \in DescQueues : \A j \in Sends(descs'[q], c) : j < req'[r].wqe
                        /\ \A x \in Reqs : Held(c, x)' /\ req'[x].wqe = req'[r].wqe => x = r
      BY DEF HeldBack
    <2>1. /\ Held(c, r) /\ req'[r].wqe = req[r].wqe
          /\ \A x \in Reqs : Held(c, x)' => Held(c, x) /\ req'[x].wqe = req[x].wqe
          /\ \A j \in Sends(ops, c) : j < req[r].wqe
          /\ \A q \in DescQueues : Sends(descs'[q], c) \subseteq Sends(descs[q], c)
      BY DEF HandOver
    <2>2. HeldBack(c) /\ posted[c] \in Nat /\ posted'[c] \in Nat /\ req[r].wqe \in Nat
          /\ posted[c] <= posted'[c] /\ rung'[c] = rung[c]
      BY DEF TypeOK, ReqFields, Lanes, HandOver
    <2>3. rung'[c] < req'[r].wqe /\ req'[r].wqe <= posted'[c]
      BY <2>1, <2>2 DEF HeldBack
    <2>4. \A t \in Streams : \A j \in Sends(stream'[t], c) : j < req'[r].wqe
      BY <1>1, <2>1, <2>2 DEF HeldBack
    <2>5. QED
      BY <2>1, <2>2, <2>3, <2>4 DEF HeldBack
  <1>5. QED
    BY <1>2, <1>3, <1>4 DEF Lanes, HandOver

LEMMA SendsElems ==
    ASSUME NEW q, NEW c, NEW j
    PROVE  j \in Sends(q, c) <=> \E op \in Elems(q) : op.op = "send" /\ op.chan = c /\ op.index = j
  BY DEF Sends, Elems

\* What a call with two gds calls, of which only the first one sends, delivers.
LEMMA DeliveredSends ==
    ASSUME NEW first \in Seq(Op), NEW second \in Seq(Op), Ascends(first),
           \A c : Sends(second, c) = {}, NEW ops \in Delivered(first, second)
    PROVE  /\ ops \in Seq(Op) /\ Ascends(ops)
           /\ \A c : Sends(ops, c) \subseteq Sends(first, c)
  <1>1. ops \in Seq(Op)
    BY DeliveredType
  <1>2. Ascends(second)
    <2> SUFFICES ASSUME NEW i \in DOMAIN second, second[i].op = "send" PROVE FALSE
      BY DEF Ascends
    <2>1. second[i].index \in Sends(second, second[i].chan)
      BY DEF Sends
    <2>2. QED
      BY <2>1
  <1>3. \A c : Sends(first \o second, c) \subseteq Sends(first, c)
    BY SendsJoin
  <1>4. Ascends(first \o second)
    BY <1>2, AscendsJoin
  <1>5. ops = first \o second \/ ops = <<>> \/ ops = first
    BY DEF Delivered
  <1>6. QED
    BY <1>1, <1>3, <1>4, <1>5, SendsEmpty

\* r may be posted on s: only the requests before it, a part of the same call, are
\* held back with an earlier work request.
Leads(r, before, s) ==
    /\ r \in Reqs /\ Chan(r) \in Channels /\ Held(Chan(r), r)
    /\ \A x \in Reqs : Held(Chan(r), x) /\ req[x].wqe < req[r].wqe => x \in before
    /\ \A t \in Streams \ {s} : Sends(stream[t], Chan(r)) = {}
    /\ \A q \in DescQueues : Sends(descs[q], Chan(r)) = {}

\* The requests of rs are posted on s, or nothing is.
LEMMA PreparedLanes ==
    ASSUME TypeOK, TypeOK', Lanes, NEW s \in Streams, NEW call, NEW ops \in Seq(Op), Ascends(ops),
           OnStream(call, s, ops), NEW rs, \A r \in rs : Leads(r, rs, s),
           \A c : \A j \in Sends(ops, c) :
              \E r \in rs : c = Chan(r) /\ j = req[r].wqe,
           \A x \in Reqs : status'[x] = "PREPARED" => status[x] = "PREPARED",
           ops = <<>> \/ \A r \in rs : status'[r] # "PREPARED"
    PROVE  Lanes'
  <1>1. /\ rung' = rung /\ posted' = posted /\ req' = req /\ descs' = descs
        /\ stream'[s] = stream[s] \o ops /\ \A t \in Streams \ {s} : stream'[t] = stream[t]
    BY DEF OnStream, TypeOK
  <1>2. /\ \A c \in Channels : posted[c] \in Nat /\ rung[c] \in Nat
        /\ \A x \in Reqs : req[x].wqe \in Nat
    BY DEF TypeOK, ReqFields
  <1>3. \A c, x : x \in Reqs /\ Held(c, x)' => Held(c, x) /\ status'[x] = "PREPARED"
    BY <1>1 DEF Held, Chan
  <1>4. ASSUME NEW c \in Channels, NEW j \in Sends(ops, c)
        PROVE  /\ rung[c] < j /\ j <= posted'[c]
               /\ \A t \in Streams \ {s} : Sends(stream[t], c) = {}
               /\ \A i \in Sends(stream[s], c) : i < j
               /\ \A q \in DescQueues : \A i \in Sends(descs'[q], c) : j < i
               /\ \A x \in Reqs : Held(c, x)' => j < req[x].wqe
    <2>1. PICK r \in rs : c = Chan(r) /\ j = req[r].wqe
      OBVIOUS
    <2>2. /\ r \in Reqs /\ Held(c, r)
          /\ \A x \in Reqs : Held(c, x) /\ req[x].wqe < j => x \in rs
          /\ \A t \in Streams \ {s} : Sends(stream[t], c) = {}
          /\ \A q \in DescQueues : Sends(descs[q], c) = {}
      BY <2>1 DEF Leads
    <2>3. HeldBack(c)
      BY DEF Lanes
    <2>4. rung[c] < j /\ j <= posted[c] /\ \A i \in Sends(stream[s], c) : i < j
      BY <2>1, <2>2, <2>3 DEF HeldBack
    <2>5. ops # <<>>
      BY SendsEmpty
    <2>6. ASSUME NEW x \in Reqs, Held(c, x)' PROVE j < req[x].wqe
      <3>1. Held(c, x) /\ x \notin rs
        BY <1>3, <2>5, <2>6
      <3>2. x # r /\ ~(req[x].wqe < j)
        BY <2>2, <3>1
      <3>3. req[x].wqe # j
        BY <2>1, <2>2, <2>3, <3>1, <3>2 DEF HeldBack
      <3>4. j \in Nat /\ req[x].wqe \in Nat
        BY <1>2, <2>1, <2>2
      <3>5. QED
        BY <3>2, <3>3, <3>4
    <2>7. QED
      BY <1>1, <2>2, <2>4, <2>6
  <1>5. HandOver(s, ops)
    <2>1. \A c \in Channels : posted[c] <= posted'[c]
      BY <1>1, <1>2
    <2>2. \A c \in Channels, t \in Streams \ {s} : Sends(ops, c) = {} \/ Sends(stream[t], c) = {}
      BY <1>4
    <2>3. \A c \in Channels, r \in Reqs : Held(c, r)' => Held(c, r) /\ req'[r].wqe = req[r].wqe
      BY <1>1, <1>3
    <2>4. \A q \in DescQueues : Ascends(descs'[q])
      BY <1>1 DEF Lanes
    <2>5. \A c \in Channels, q \in DescQueues : Sends(descs'[q], c) \subseteq Sends(descs[q], c)
      BY <1>1
    <2>6. QED
      BY <1>1, <1>4, <2>1, <2>2, <2>3, <2>4, <2>5 DEF HandOver
  <1>6. QED
    BY <1>5, HandOverLanes

\* A prepared request that the application holds has its work request.
HandlesL == \A r \in user : status[r] # "UNDEF" /\ (status[r] = "PREPARED" => req[r].wqe # 0)

LEMMA SendOps ==
    ASSUME NEW a, NEW b
    PROVE  /\ \A c : Sends(<<WaitOf(a)>>, c) = {}
           /\ \A c : Sends(<<WaitOf(a), WaitOf(b)>>, c) = {}
           /\ \A c : \A j \in Sends(<<SendOf(a)>>, c) : c = Chan(a) /\ j = req[a].wqe
           /\ \A c : \A j \in Sends(<<SendOf(a), SendOf(b)>>, c) :
                 (c = Chan(a) /\ j = req[a].wqe) \/ (c = Chan(b) /\ j = req[b].wqe)
           /\ Ascends(<<SendOf(a)>>)
           /\ (Chan(a) = Chan(b) => req[a].wqe < req[b].wqe) => Ascends(<<SendOf(a), SendOf(b)>>)
  <1>1. PICK sa : sa = SendOf(a)
    OBVIOUS
  <1>2. PICK sb : sb = SendOf(b)
    OBVIOUS
  <1>3. PICK wa : wa = WaitOf(a)
    OBVIOUS
  <1>4. PICK wb : wb = WaitOf(b)
    OBVIOUS
  <1>5. /\ sa.op = "send" /\ sa.chan = Chan(a) /\ sa.index = req[a].wqe
        /\ sb.op = "send" /\ sb.chan = Chan(b) /\ sb.index = req[b].wqe
        /\ wa.op = "wait" /\ wb.op = "wait"
    BY <1>1, <1>2, <1>3, <1>4 DEF SendOf, SendOp, WaitOf, WaitOp
  <1>6. \A c : Sends(<<wa>>, c) = {}
    BY <1>5 DEF Sends
  <1>7. \A c : Sends(<<wa, wb>>, c) = {}
    BY <1>5 DEF Sends
  <1>8. \A c : \A j \in Sends(<<sa>>, c) : c = sa.chan /\ j = sa.index
    BY DEF Sends
  <1>9. \A c : \A j \in Sends(<<sa, sb>>, c) :
           (c = sa.chan /\ j = sa.index) \/ (c = sb.chan /\ j = sb.index)
    BY DEF Sends
  <1>10. Ascends(<<sa>>)
    BY DEF Ascends
  <1>11. (sa.chan = sb.chan => sa.index < sb.index) => Ascends(<<sa, sb>>)
    BY DEF Ascends
  <1>12. QED
    BY <1>1, <1>2, <1>3, <1>4, <1>5, <1>6, <1>7, <1>8, <1>9, <1>10, <1>11

LEMMA PostOrders ==
    ASSUME TypeOK, HandlesL, "unordered" \notin Liberties, NEW s \in Streams,
           NEW a \in user, NEW b \in user, status[a] = "PREPARED", status[b] = "PREPARED"
    PROVE  /\ PostOrder(<<a>>, s) => Leads(a, {}, s)
           /\ PostOrder(<<a, b>>, s) => Leads(a, {}, s) /\ Leads(b, {a}, s)
  <1>1. ASSUME NEW r \in {a, b} PROVE r \in Reqs /\ Chan(r) \in Channels /\ Held(Chan(r), r)
    BY ChanType DEF TypeOK, HandlesL, Held
  <1>2. ASSUME NEW rs, PostOrder(rs, s), NEW i \in DOMAIN rs, NEW r \in {a, b}, r = rs[i]
        PROVE  /\ \A x \in Reqs : Held(Chan(r), x) /\ req[x].wqe < req[r].wqe =>
                     \E j \in 1..(i - 1) : rs[j] = x
               /\ \A t \in Streams \ {s} : Sends(stream[t], Chan(r)) = {}
               /\ \A q \in DescQueues : Sends(descs[q], Chan(r)) = {}
    <2>1. PICK c : c = Chan(r)
      OBVIOUS
    <2>2. /\ \A x \in Reqs : Held(c, x) /\ req[x].wqe < req[r].wqe => \E j \in 1..(i - 1) : rs[j] = x
          /\ \A t \in Streams \ {s} : \A k \in DOMAIN stream[t] :
                ~(stream[t][k].op = "send" /\ stream[t][k].chan = c)
          /\ \A q \in DescQueues : \A k \in DOMAIN descs[q] :
                ~(descs[q][k].op = "send" /\ descs[q][k].chan = c)
      BY <1>2, <2>1 DEF PostOrder
    <2>3. QED
      BY <2>1, <2>2 DEF Sends
  <1>3. ASSUME PostOrder(<<a>>, s) PROVE Leads(a, {}, s)
    <2>1. PICK rs : rs = <<a>>
      OBVIOUS
    <2>2. 1 \in DOMAIN rs /\ rs[1] = a /\ 1..(1 - 1) = {}
      BY <2>1
    <2>3. QED
      BY <1>1, <1>2, <1>3, <2>1, <2>2 DEF Leads
  <1>4. ASSUME PostOrder(<<a, b>>, s) PROVE Leads(a, {}, s) /\ Leads(b, {a}, s)
    <2>1. PICK rs : rs = <<a, b>>
      OBVIOUS
    <2>2. /\ 1 \in DOMAIN rs /\ rs[1] = a /\ 1..(1 - 1) = {}
          /\ 2 \in DOMAIN rs /\ rs[2] = b /\ 1..(2 - 1) = {1}
      BY <2>1
    <2>3. Leads(a, {}, s)
      BY <1>1, <1>2, <1>4, <2>1, <2>2 DEF Leads
    <2>4. Leads(b, {a}, s)
      BY <1>1, <1>2, <1>4, <2>1, <2>2 DEF Leads
    <2>5. QED
      BY <2>3, <2>4
  <1>5. QED
    BY <1>3, <1>4

LEMMA LeadsWeaker ==
    ASSUME NEW r, NEW s, NEW before, NEW rs, before \subseteq rs, Leads(r, before, s)
    PROVE  Leads(r, rs, s)
  BY DEF Leads

\* The application's sequence of prepared requests goes to one stream.
LEMMA PostPreparedLanes ==
    ASSUME OrderedUse, TypeOK, TypeOK', HandlesL, Lanes, PostPrepared
    PROVE  Lanes'
  <1>0. <<>> \in Seq(Op) /\ (\A c : Sends(<<>>, c) = {}) /\ user \subseteq Reqs
        /\ "unordered" \notin Liberties /\ "mp_send_post_all_on_stream" \notin Calls
    BY SendsEmpty DEF TypeOK, OrderedUse
  <1>1. ASSUME NEW r \in user, status[r] = "PREPARED", NEW s \in Streams, PostOrder(<<r>>, s),
               NEW second \in Seq(Op), \A c : Sends(second, c) = {},
               NEW ops \in Delivered(<<SendOf(r)>>, second), NEW call, OnStream(call, s, ops),
               NEW st, SetStatus({r}, st), ops = <<>> \/ st # "PREPARED"
        PROVE  Lanes'
    <2>1. PICK first \in Seq(Op) : first = <<SendOf(r)>>
      BY SMTT(30), <1>0, <1>1, ChanType
    <2>2. Ascends(first) /\ \A c : \A j \in Sends(first, c) : c = Chan(r) /\ j = req[r].wqe
      BY <2>1, SendOps
    <2>3. /\ ops \in Seq(Op) /\ Ascends(ops)
          /\ \A c : \A j \in Sends(ops, c) : c = Chan(r) /\ j = req[r].wqe
      BY <1>1, <2>1, <2>2, DeliveredSends
    <2>4. PICK rs : rs = {r}
      OBVIOUS
    <2>5. \A x \in rs : Leads(x, rs, s)
      BY <1>0, <1>1, <2>4, PostOrders, LeadsWeaker
    <2>6. /\ \A x \in Reqs : status'[x] = "PREPARED" => status[x] = "PREPARED"
          /\ ops = <<>> \/ \A x \in rs : status'[x] # "PREPARED"
      BY <1>0, <1>1, <2>4 DEF SetStatus
    <2>7. \A c : \A j \in Sends(ops, c) : \E x \in rs : c = Chan(x) /\ j = req[x].wqe
      BY <2>3, <2>4
    <2>8. OnStream(call, s, ops)
      BY <1>1
    <2>9. QED
      BY <2>3, <2>5, <2>6, <2>7, <2>8, PreparedLanes
  <1>2. ASSUME NEW a \in user, NEW b \in user, status[a] = "PREPARED", status[b] = "PREPARED",
               a # b, NEW s \in Streams, PostOrder(<<a, b>>, s),
               NEW ops \in Delivered(<<SendOf(a), SendOf(b)>>, <<>>), NEW call, OnStream(call, s, ops),
               SetStatus({a, b}, "PENDING_NOWAIT")
        PROVE  Lanes'
    <2>1. PICK first \in Seq(Op) : first = <<SendOf(a), SendOf(b)>>
      <3>1. SendOf(a) \in Op /\ SendOf(b) \in Op
        BY <1>0, <1>2, ChanType
      <3>2. <<SendOf(a), SendOf(b)>> \in Seq(Op)
        BY <3>1
      <3>3. QED
        BY <3>2, Zenon
    <2>2. Leads(a, {}, s) /\ Leads(b, {a}, s)
      BY <1>0, <1>2, PostOrders
    <2>3. Chan(a) = Chan(b) => req[a].wqe < req[b].wqe
      <3>1. PICK c \in Channels : c = Chan(a)
        BY <2>2 DEF Leads
      <3>2. a \in Reqs /\ b \in Reqs /\ req[a].wqe \in Nat /\ req[b].wqe \in Nat /\ HeldBack(c)
        BY <1>0 DEF TypeOK, ReqFields, Lanes
      <3>3. Chan(b) = c => ~(req[b].wqe < req[a].wqe) /\ req[a].wqe # req[b].wqe
        BY <1>2, <2>2, <3>1, <3>2 DEF Leads, HeldBack
      <3>4. QED
        BY <3>1, <3>2, <3>3
    <2>4. Ascends(first) /\ \A c : \A j \in Sends(first, c) : \E r \in {a, b} : c = Chan(r) /\ j = req[r].wqe
      <3>1. Ascends(first)
        BY <2>1, <2>3, SendOps, Zenon
      <3>2. \A c : \A j \in Sends(first, c) :
               (c = Chan(a) /\ j = req[a].wqe) \/ (c = Chan(b) /\ j = req[b].wqe)
        BY <2>1, SendOps, Zenon
      <3>3. QED
        BY <3>1, <3>2
    <2>5. /\ ops \in Seq(Op) /\ Ascends(ops)
          /\ \A c : \A j \in Sends(ops, c) : \E r \in {a, b} : c = Chan(r) /\ j = req[r].wqe
      BY <1>0, <1>2, <2>1, <2>4, DeliveredSends
    <2>6. \A x \in {a, b} : Leads(x, {a, b}, s)
      BY <2>2, LeadsWeaker
    <2>7. /\ \A x \in Reqs : status'[x] = "PREPARED" => status[x] = "PREPARED"
          /\ \A x \in {a, b} : status'[x] # "PREPARED"
      BY <1>0, <1>2 DEF SetStatus
    <2>8. QED
      BY SMTT(30), <1>2, <2>5, <2>6, <2>7, PreparedLanes
  <1>3. ASSUME NEW r \in Reqs, NEW s \in Streams,
               \/ mp_send_post_on_stream(r, s) \/ mp_isend_post_on_stream(r, s)
               \/ mp_iput_post_on_stream(r, s)
        PROVE  Lanes'
    <2>1. r \in user /\ status[r] = "PREPARED" /\ PostOrder(<<r>>, s)
      BY <1>3 DEF mp_send_post_on_stream, mp_isend_post_on_stream, mp_iput_post_on_stream,
                  PreparedAs, Prepared
    <2>2. CASE mp_send_post_on_stream(r, s)
      <3>1. PICK second \in Seq(Op) : second = <<WaitOf(r)>>
        <4>1. WaitOf(r) \in Op
          BY <2>1, ChanType
        <4>2. <<WaitOf(r)>> \in Seq(Op)
          BY <4>1
        <4>3. QED
          BY <4>2, Zenon
      <3>2. \A c : Sends(second, c) = {}
        BY <3>1, SendOps
      <3>3. PICK ops \in Delivered(<<SendOf(r)>>, second) : OnStream("mp_send_post_on_stream", s, ops)
        BY <2>2, <3>1 DEF mp_send_post_on_stream
      <3>4. SetStatus({r}, "PENDING") /\ "PENDING" # "PREPARED"
        BY <2>2 DEF mp_send_post_on_stream
      <3>5. QED
        BY <1>1, <2>1, <3>2, <3>3, <3>4
    <2>3. CASE mp_isend_post_on_stream(r, s)
      <3>1. PICK ops \in Delivered(<<SendOf(r)>>, <<>>) : OnStream("mp_isend_post_on_stream", s, ops)
        BY <2>3 DEF mp_isend_post_on_stream
      <3>2. SetStatus({r}, "PENDING_NOWAIT") /\ "PENDING_NOWAIT" # "PREPARED"
        BY <2>3 DEF mp_isend_post_on_stream
      <3>3. QED
        BY <1>0, <1>1, <2>1, <3>1, <3>2
    <2>4. CASE mp_iput_post_on_stream(r, s)
      <3>1. PICK ops \in Delivered(<<SendOf(r)>>, <<>>) :
               /\ OnStream("mp_iput_post_on_stream", s, ops)
               /\ SetStatus({r}, IF ops = <<>> THEN "PREPARED"
                                 ELSE IF req[r].nowait THEN "COMPLETE" ELSE "PENDING_NOWAIT")
        BY <2>4 DEF mp_iput_post_on_stream
      <3>2. PICK st : SetStatus({r}, st) /\ (ops = <<>> \/ st # "PREPARED")
        BY <3>1
      <3>3. QED
        BY <1>0, <1>1, <2>1, <3>1, <3>2
    <2>5. QED
      BY <1>3, <2>2, <2>3, <2>4
  <1>4. ASSUME NEW ab \in Batch, NEW s \in Streams,
               \/ mp_send_post_all_on_stream(ab[1], ab[2], s)
               \/ mp_isend_post_all_on_stream(ab[1], ab[2], s)
               \/ mp_iput_post_all_on_stream(ab[1], ab[2], s)
        PROVE  Lanes'
    <2>1. PICK a \in user, b \in user : a = ab[1] /\ b = ab[2] /\ a # b
      BY DEF Batch
    <2>2. ~mp_send_post_all_on_stream(a, b, s)
      BY <1>0 DEF mp_send_post_all_on_stream, OnStream
    <2>3. /\ status[a] = "PREPARED" /\ status[b] = "PREPARED" /\ PostOrder(<<a, b>>, s)
          /\ SetStatus({a, b}, "PENDING_NOWAIT")
          /\ \E ops \in Delivered(<<SendOf(a), SendOf(b)>>, <<>>) : \E call : OnStream(call, s, ops)
      BY <1>4, <2>1, <2>2 DEF mp_isend_post_all_on_stream, mp_iput_post_all_on_stream,
                              PreparedAs, Prepared
    <2>4. QED
      BY <1>2, <2>1, <2>3
  <1>5. ASSUME NEW q \in DescQueues, NEW s \in Streams, post_descs(q, s) PROVE Lanes'
    <2>1. descs[q] \in Seq(Op) /\ stream[s] \in Seq(Op) /\ Ascends(descs[q])
      BY DEF TypeOK, Lanes
    <2>2. PICK ops \in Delivered(descs[q], <<>>) : stream' = [stream EXCEPT ![s] = @ \o ops]
      BY <1>5 DEF post_descs
    <2>3. ops \in Seq(Op) /\ Ascends(ops) /\ \A c : Sends(ops, c) \subseteq Sends(descs[q], c)
      BY <1>0, <2>1, DeliveredSends
    <2>4. /\ stream'[s] = stream[s] \o ops /\ \A t \in Streams \ {s} : stream'[t] = stream[t]
          /\ descs'[q] = <<>> /\ \A o \in DescQueues \ {q} : descs'[o] = descs[o]
          /\ UNCHANGED <<status, req, rung, posted>>
      BY <1>5, <2>2 DEF post_descs, TypeOK
    <2>5. \A c, t : t \in Streams \ {s} => Sends(ops, c) = {} \/ Sends(stream[t], c) = {}
      <3>1. \A t \in Streams \ {s} : \A i \in DOMAIN stream[t], j \in DOMAIN descs[q] :
               stream[t][i].op = "send" => stream[t][i].chan # descs[q][j].chan
        BY <1>0, <1>5 DEF post_descs
      <3>2. SUFFICES ASSUME NEW c, NEW t \in Streams \ {s}, NEW i \in Sends(stream[t], c),
                            NEW j \in Sends(descs[q], c)
                     PROVE  FALSE
        BY <2>3
      <3>3. PICK k \in DOMAIN stream[t] : stream[t][k].op = "send" /\ stream[t][k].chan = c
        BY DEF Sends
      <3>4. PICK l \in DOMAIN descs[q] : descs[q][l].chan = c
        BY DEF Sends
      <3>5. QED
        BY <3>1, <3>3, <3>4
    <2>6. ASSUME NEW c \in Channels, NEW j \in Sends(ops, c)
          PROVE  /\ rung[c] < j /\ j <= posted[c]
                 /\ \A i \in Sends(stream[s], c) : i < j
                 /\ \A o \in DescQueues : Sends(descs'[o], c) = {}
                 /\ \A r \in Reqs : Held(c, r) => j < req[r].wqe
      <3>1. j \in Sends(descs[q], c) /\ Lane(c) /\ HeldBack(c)
        BY <2>3 DEF Lanes
      <3>2. \A o \in DescQueues \ {q} : Sends(descs[o], c) = {}
        BY <3>1 DEF Lane
      <3>3. \A o \in DescQueues : Sends(descs'[o], c) = {}
        BY <1>0, <2>4, <3>2
      <3>4. QED
        BY <3>1, <3>3 DEF Lane, HeldBack
    <2>7. \A o \in DescQueues : Ascends(descs'[o]) /\ \A c : Sends(descs'[o], c) \subseteq Sends(descs[o], c)
      BY <2>4, SendsEmpty DEF Lanes
    <2>8. \A c, r : Held(c, r)' => Held(c, r) /\ req'[r].wqe = req[r].wqe
      BY <2>4 DEF Held, Chan
    <2>9. \A c \in Channels : posted[c] <= posted'[c]
      BY <2>4 DEF TypeOK
    <2>10. HandOver(s, ops)
      BY <2>3, <2>4, <2>5, <2>6, <2>7, <2>8, <2>9 DEF HandOver
    <2>11. QED
      BY <2>3, <2>10, HandOverLanes
  <1>6. QED
    BY <1>3, <1>4, <1>5 DEF PostPrepared

LEMMA SendsSnoc ==
    ASSUME NEW q \in Seq(Op), NEW e \in Op, Ascends(q)
    PROVE  /\ \A c : Sends(q, c) \subseteq Sends(Append(q, e), c)
           /\ \A c : \A j \in Sends(Append(q, e), c) :
                 j \in Sends(q, c) \/ (e.op = "send" /\ c = e.chan /\ j = e.index)
           /\ (e.op = "send" => \A i \in Sends(q, e.chan) : i < e.index) => Ascends(Append(q, e))
  <1>1. PICK b \in Seq(Op) : b = <<e>>
    <2>1. <<e>> \in Seq(Op)
      OBVIOUS
    <2>2. QED
      BY <2>1, Zenon
  <1>2. Append(q, e) = q \o b
    BY <1>1
  <1>3. \A c : \A j \in Sends(b, c) : e.op = "send" /\ c = e.chan /\ j = e.index
    BY <1>1 DEF Sends
  <1>4. Ascends(b)
    BY <1>1 DEF Ascends
  <1>5. (e.op = "send" => \A i \in Sends(q, e.chan) : i < e.index) => Ascends(q \o b)
    BY <1>3, <1>4, AscendsJoin
  <1>6. QED
    BY <1>2, <1>3, <1>5, SendsJoin

\* Only statuses move, and no request turns MP_PREPARED.
LEMMA StatusLanes ==
    ASSUME TypeOK, TypeOK', Lanes, UNCHANGED <<req, posted, rung, stream, descs>>,
           \A x \in Reqs : status'[x] = "PREPARED" => status[x] = "PREPARED"
    PROVE  Lanes'
  <1>1. \A c, x : x \in Reqs /\ Held(c, x)' => Held(c, x)
    BY DEF Held, Chan
  <1>2. \A c \in Channels : Lane(c) /\ HeldBack(c) /\ posted[c] \in Nat
    BY DEF Lanes, TypeOK
  <1>3. Fewer
    BY <1>1, <1>2 DEF Fewer, Lane, HeldBack, Lanes
  <1>4. QED
    BY <1>3, FewerLanes

\* The send of the earliest request that is held back joins a descriptor queue.
LEMMA CollectLanes ==
    ASSUME TypeOK, TypeOK', Lanes, NEW q \in DescQueues, NEW r \in Reqs, NEW c \in Channels,
           c = Chan(r), Held(c, r), NEW op \in Op, op = SendOf(r),
           \A x \in Reqs : Held(c, x) => req[r].wqe <= req[x].wqe,
           \A o \in DescQueues \ {q} : Sends(descs[o], c) = {},
           descs' = Append1(descs, q, op), UNCHANGED <<req, posted, rung, stream>>,
           SetStatus({r}, "PENDING_NOWAIT")
    PROVE  Lanes'
  <1>0. /\ descs[q] \in Seq(Op) /\ Ascends(descs[q]) /\ req[r].wqe \in Nat
        /\ op.op = "send" /\ op.chan = c /\ op.index = req[r].wqe
        /\ \A x \in Reqs : req[x].wqe \in Nat
    BY DEF TypeOK, Lanes, ReqFields, SendOf, SendOp
  <1>1. PICK n \in Nat : n = req[r].wqe
    BY <1>0
  <1>2. /\ descs'[q] = Append(descs[q], op) /\ \A o \in DescQueues \ {q} : descs'[o] = descs[o]
    BY DEF Append1, TypeOK
  <1>3. /\ Lane(c) /\ HeldBack(c) /\ rung[c] < n /\ n <= posted[c]
        /\ \A s \in Streams : \A j \in Sends(stream[s], c) : j < n
        /\ \A o \in DescQueues : \A j \in Sends(descs[o], c) : j < n
    BY <1>1 DEF Lanes, HeldBack
  <1>4. /\ \A d : \A j \in Sends(descs'[q], d) : j \in Sends(descs[q], d) \/ (d = c /\ j = n)
        /\ Ascends(descs'[q])
    BY <1>0, <1>1, <1>2, <1>3, SendsSnoc
  <1>5. ASSUME NEW d, NEW x \in Reqs, Held(d, x)' PROVE Held(d, x) /\ x # r
    BY <1>5 DEF SetStatus, Held, Chan
  <1>6. ASSUME NEW x \in Reqs, Held(c, x)' PROVE n < req[x].wqe
    <2>1. Held(c, x) /\ x # r
      BY <1>5, <1>6
    <2>2. n <= req[x].wqe /\ n # req[x].wqe
      BY <1>1, <1>3, <2>1 DEF HeldBack
    <2>3. QED
      BY <1>0, <2>2
  <1>7. ASSUME NEW d \in Channels PROVE Lane(d)' /\ HeldBack(d)'
    <2>1. Lane(d) /\ HeldBack(d) /\ rung'[d] = rung[d] /\ posted'[d] = posted[d]
      BY DEF Lanes
    <2>2. CASE d # c
      <3>1. \A o \in DescQueues : \A j \in Sends(descs'[o], d) : j \in Sends(descs[o], d)
        BY <1>2, <1>4, <2>2
      <3>2. Lane(d)'
        BY <2>1, <3>1 DEF Lane
      <3>3. \A x \in Reqs : Held(d, x)' => Held(d, x) /\ req'[x] = req[x]
        BY <1>5
      <3>4. HeldBack(d)'
        BY <2>1, <3>1, <3>3 DEF HeldBack
      <3>5. QED
        BY <3>2, <3>4
    <2>3. CASE d = c
      <3>1. /\ \A j \in Sends(descs'[q], c) : j \in Sends(descs[q], c) \/ j = n
            /\ \A o \in DescQueues \ {q} : Sends(descs'[o], c) = {}
        BY <1>2, <1>4
      <3>2. /\ \A o \in DescQueues : \A j \in Sends(descs'[o], c) : rung[c] < j /\ j <= posted[c]
            /\ \A o, p \in DescQueues : o # p => Sends(descs'[o], c) = {} \/ Sends(descs'[p], c) = {}
            /\ \A s \in Streams, o \in DescQueues :
                  \A i \in Sends(stream[s], c), j \in Sends(descs'[o], c) : i < j
        BY SMTT(30), <1>3, <3>1 DEF Lane
      <3>3. Lane(c)'
        BY <2>1, <2>3, <3>2 DEF Lane
      <3>4. ASSUME NEW x \in Reqs, Held(c, x)'
            PROVE  \A o \in DescQueues : \A j \in Sends(descs'[o], c) : j < req[x].wqe
        <4>1. n < req[x].wqe /\ Held(c, x)
          BY <1>5, <1>6, <3>4
        <4>2. QED
          BY <1>3, <3>1, <4>1 DEF HeldBack
      <3>5. HeldBack(c)'
        BY <1>3, <1>5, <3>4 DEF HeldBack
      <3>6. QED
        BY <2>3, <3>3, <3>5
    <2>4. QED
      BY <2>2, <2>3
  <1>8. QED
    BY <1>2, <1>4, <1>7 DEF Lanes

LEMMA CpuWaitLanes ==
    ASSUME OrderedUse, TypeOK, TypeOK', HandlesL, Lanes, CpuWait
    PROVE  Lanes'
  <1>0. <<>> \in Seq(Op) /\ (\A c : Sends(<<>>, c) = {}) /\ Ascends(<<>>) /\ user \subseteq Reqs
        /\ "unordered" \notin Liberties
    BY SendsEmpty DEF TypeOK, OrderedUse
  <1>1. ASSUME NEW s \in Streams, NEW first \in Seq(Op), \A c : Sends(first, c) = {},
               NEW ops \in Delivered(first, <<>>), NEW call, OnStream(call, s, ops),
               NEW rs, SetStatus(rs, "PENDING")
        PROVE  Lanes'
    <2>1. Ascends(first)
      <3> SUFFICES ASSUME NEW i \in DOMAIN first, first[i].op = "send" PROVE FALSE
        BY DEF Ascends
      <3>1. first[i].index \in Sends(first, first[i].chan)
        BY DEF Sends
      <3>2. QED
        BY <1>1, <3>1
    <2>2. ops \in Seq(Op) /\ Ascends(ops) /\ \A c : Sends(ops, c) = {}
      BY <1>0, <1>1, <2>1, DeliveredSends
    <2>3. \A x \in Reqs : status'[x] = "PREPARED" => status[x] = "PREPARED"
      BY <1>1 DEF SetStatus
    <2>4. PICK none : none = {}
      OBVIOUS
    <2>5. /\ \A r \in none : Leads(r, none, s) /\ status'[r] # "PREPARED"
          /\ \A c : \A j \in Sends(ops, c) : \E r \in none : c = Chan(r) /\ j = req[r].wqe
      BY <2>2, <2>4
    <2>6. OnStream(call, s, ops)
      BY <1>1
    <2>7. QED
      BY <2>2, <2>3, <2>5, <2>6, PreparedLanes
  <1>2. ASSUME NEW r \in Reqs, Waitable(r) PROVE WaitOf(r) \in Op
    BY <1>2, ChanType DEF Waitable
  <1>3. ASSUME NEW r \in Reqs, NEW s \in Streams, mp_wait_on_stream(r, s) PROVE Lanes'
    <2>1. SetStatus({r}, "PENDING")
      BY <1>3 DEF mp_wait_on_stream
    <2>2. PICK first \in Seq(Op) : first = <<WaitOf(r)>>
      <3>1. WaitOf(r) \in Op
        BY <1>2, <1>3 DEF mp_wait_on_stream
      <3>2. <<WaitOf(r)>> \in Seq(Op)
        BY <3>1
      <3>3. QED
        BY <3>2, Zenon
    <2>3. \A c : Sends(first, c) = {}
      BY <2>2, SendOps
    <2>4. PICK ops \in Delivered(first, <<>>) : OnStream("mp_wait_on_stream", s, ops)
      BY <1>3, <2>2 DEF mp_wait_on_stream
    <2>5. QED
      BY <1>1, <2>1, <2>3, <2>4
  <1>4. ASSUME NEW a \in Reqs, NEW b \in Reqs, NEW s \in Streams, mp_wait_all_on_stream(a, b, s)
        PROVE  Lanes'
    <2>1. CASE Waitable(b) /\ SetStatus({a, b}, "PENDING")
               /\ \E ops \in Delivered(<<WaitOf(a), WaitOf(b)>>, <<>>) :
                     OnStream("mp_wait_all_on_stream", s, ops)
      <3>1. PICK first \in Seq(Op) : first = <<WaitOf(a), WaitOf(b)>>
        <4>1. WaitOf(a) \in Op /\ WaitOf(b) \in Op
          BY <1>2, <1>4, <2>1 DEF mp_wait_all_on_stream
        <4>2. <<WaitOf(a), WaitOf(b)>> \in Seq(Op)
          BY <4>1
        <4>3. QED
          BY <4>2, Zenon
      <3>2. \A c : Sends(first, c) = {}
        BY <3>1, SendOps
      <3>3. PICK ops \in Delivered(first, <<>>) : OnStream("mp_wait_all_on_stream", s, ops)
        BY <2>1, <3>1
      <3>4. QED
        BY <1>1, <2>1, <3>2, <3>3
    <2>2. CASE SetStatus({a}, "PENDING") /\ OnStream("mp_wait_all_on_stream", s, <<>>)
      <3>1. <<>> \in Delivered(<<>>, <<>>)
        BY DEF Delivered
      <3>2. QED
        BY <1>0, <1>1, <2>2, <3>1
    <2>3. QED
      BY <1>4, <2>1, <2>2 DEF mp_wait_all_on_stream
  <1>5. ASSUME NEW q \in DescQueues, NEW r \in Reqs, add_send(q, r) PROVE Lanes'
    <2>1. /\ r \in user /\ status[r] = "PREPARED" /\ SetStatus({r}, "PENDING_NOWAIT")
          /\ Collect(q, SendOf(r))
      BY <1>5 DEF add_send, Prepared
    <2>2. PICK c \in Channels : c = Chan(r)
      BY <2>1, ChanType
    <2>3. PICK op \in Op : op = SendOf(r)
      BY <2>1, ChanType
    <2>4. Held(c, r) /\ \A x \in Reqs : Held(c, x) => req[r].wqe <= req[x].wqe
      BY <1>0, <1>5, <2>1, <2>2 DEF Held, HandlesL, add_send
    <2>5. \A o \in DescQueues \ {q} : Sends(descs[o], c) = {}
      <3>1. PICK d : d = CHOOSE o \in DescQueues : o # q
        OBVIOUS
      <3>2. d \in DescQueues /\ d # q
        <4>1. \E o \in DescQueues : o # q
          OBVIOUS
        <4>2. QED
          BY <3>1, <4>1
      <3>3. \A i \in DOMAIN descs[d] : descs[d][i].chan # c
        BY <1>0, <1>5, <2>2, <3>1 DEF add_send
      <3>4. Sends(descs[d], c) = {}
        BY <3>3 DEF Sends
      <3>5. \A o \in DescQueues \ {q} : o = d
        BY <3>2
      <3>6. QED
        BY <3>4, <3>5
    <2>6. UNCHANGED <<req, posted, rung, stream>> /\ (descs' = Append1(descs, q, op) \/ descs' = descs)
      BY <2>1, <2>3 DEF Collect
    <2>7. CASE descs' = Append1(descs, q, op)
      BY <2>1, <2>2, <2>3, <2>4, <2>5, <2>6, <2>7, CollectLanes
    <2>8. CASE descs' = descs
      <3>1. \A x \in Reqs : status'[x] = "PREPARED" => status[x] = "PREPARED"
        BY <2>1 DEF SetStatus
      <3>2. QED
        BY <2>6, <2>8, <3>1, StatusLanes
    <2>9. QED
      BY <2>6, <2>7, <2>8
  <1>6. ASSUME NEW q \in DescQueues, NEW r \in Reqs, add_wait(q, r) PROVE Lanes'
    <2>1. Waitable(r) /\ SetStatus({r}, "PENDING") /\ Collect(q, WaitOf(r))
      BY <1>6 DEF add_wait
    <2>2. PICK op \in Op : op = WaitOf(r)
      BY <1>2, <2>1
    <2>3. op.op = "wait" /\ \A x \in Reqs : status'[x] = "PREPARED" => status[x] = "PREPARED"
      BY <2>1, <2>2 DEF SetStatus, WaitOf, WaitOp
    <2>4. UNCHANGED <<req, posted, rung, stream>> /\ (descs' = Append1(descs, q, op) \/ descs' = descs)
      BY <2>1, <2>2 DEF Collect
    <2>5. CASE descs' = Append1(descs, q, op)
      <3>1. descs[q] \in Seq(Op) /\ Ascends(descs[q])
        BY DEF TypeOK, Lanes
      <3>2. /\ descs'[q] = Append(descs[q], op)
            /\ \A o \in DescQueues \ {q} : descs'[o] = descs[o]
        BY <2>5 DEF Append1, TypeOK
      <3>3. \A o \in DescQueues : Ascends(descs'[o]) /\ \A c : Sends(descs'[o], c) \subseteq Sends(descs[o], c)
        BY <2>3, <3>1, <3>2, SendsSnoc DEF Lanes
      <3>4. \A c, x : x \in Reqs /\ Held(c, x)' => Held(c, x)
        BY <2>3, <2>4 DEF Held, Chan
      <3>5. \A c \in Channels : Lane(c) /\ HeldBack(c) /\ posted[c] \in Nat
        BY DEF Lanes, TypeOK
      <3>6. Fewer
        BY <2>4, <3>3, <3>4, <3>5 DEF Fewer, Lane, HeldBack, Lanes
      <3>7. QED
        BY <3>6, FewerLanes
    <2>6. CASE descs' = descs
      BY <2>3, <2>4, <2>6, StatusLanes
    <2>7. QED
      BY <2>4, <2>5, <2>6
  <1>7. ASSUME NEW rs \in SUBSET user, mp_wait_all(rs) PROVE Lanes'
    <2>1. PICK before : AbortPeeks(before)
      BY <1>7 DEF mp_wait_all
    <2>2. \A x \in Reqs : status'[x] = "PREPARED" => status[x] = "PREPARED"
      BY <2>1 DEF AbortPeeks, SetStatus
    <2>3. UNCHANGED <<req, posted, rung, stream, descs>>
      BY <1>7 DEF mp_wait_all
    <2>4. QED
      BY <2>2, <2>3, StatusLanes
  <1>8. ASSUME WaitReturn \/ WaitGpuError PROVE Lanes'
    <2>1. /\ UNCHANGED <<posted, rung, stream, descs>>
          /\ \A x \in Reqs : status'[x] = "PREPARED" => status[x] = "PREPARED" /\ req'[x] = req[x]
      BY <1>8 DEF WaitReturn, WaitGpuError, Release
    <2>2. \A c, x : x \in Reqs /\ Held(c, x)' => Held(c, x) /\ req'[x] = req[x]
      BY <2>1 DEF Held, Chan
    <2>3. \A c \in Channels : Lane(c) /\ HeldBack(c) /\ posted[c] \in Nat
      BY DEF Lanes, TypeOK
    <2>4. Fewer
      BY <2>1, <2>2, <2>3 DEF Fewer, Lane, HeldBack, Lanes
    <2>5. QED
      BY <2>4, FewerLanes
  <1>9. Batch \subseteq Reqs \X Reqs
    BY DEF Batch, TypeOK
  <1>10. QED
    BY <1>3, <1>4, <1>5, <1>6, <1>7, <1>8, <1>9 DEF CpuWait

\* A posting step holds back only its own request, and only when its doorbell is
\* left for later.
LEMMA PostHeld ==
    ASSUME NEW r \in Reqs, NEW p, NEW s, NEW how \in How, Regular(how),
           NEW c, c = Target(p, how), NEW n, NEW w, PostStep(r, p, s, how, c, n, w)
    PROVE  \A d, x : x \in Reqs /\ Held(d, x)' =>
              \/ x # r /\ Held(d, x) /\ req'[x] = req[x]
              \/ x = r /\ how.ring = "later" /\ d = c /\ req'[r].wqe = n
  <1>1. \A x \in Reqs \ {r} : status'[x] = status[x] /\ req'[x] = req[x]
    BY DEF PostStep
  <1>2. \A d, x : x \in Reqs \ {r} /\ Held(d, x)' => Held(d, x) /\ req'[x] = req[x]
    BY <1>1 DEF Held, Chan
  <1>3. ASSUME NEW d, Held(d, r)' PROVE how.ring = "later" /\ d = c /\ req'[r].wqe = n
    <2>1. \/ status'[r] \in {how.after, how.state} /\ \E v : req'[r] = NewReq(p, how, n, v)
          \/ status'[r] = "UNDEF"
      BY DEF PostStep, Posted
    <2>2. status'[r] = "PREPARED" /\ Chan(r)' = d
      BY <1>3 DEF Held
    <2>3. PICK v : req'[r] = NewReq(p, how, n, v)
      BY <2>1, <2>2
    <2>4. req'[r].wqe = n /\ req'[r].peer = p /\ req'[r].type = how.type
      BY <2>3 DEF NewReq
    <2>5. d = c
      BY <2>2, <2>4 DEF Chan, Target
    <2>6. how.ring = "later"
      BY <2>1, <2>2 DEF Regular
    <2>7. QED
      BY <2>4, <2>5, <2>6
  <1>4. QED
    BY <1>2, <1>3

LEMMA NoneOrdered ==
    ASSUME "unordered" \notin Liberties, NEW c, NEW s, Ordered(c, s)
    PROVE  /\ \A x \in Reqs : ~Held(c, x)
           /\ \A q \in DescQueues : Sends(descs[q], c) = {}
           /\ \A t \in Streams \ {s} : Sends(stream[t], c) = {}
  BY DEF Ordered, Sends

LEMMA PostLanes ==
    ASSUME "unordered" \notin Liberties, TypeOK, TypeOK', Lanes, NEW r \in Reqs, NEW p,
           NEW s \in Streams \union {NoStream}, NEW how \in How, Regular(how), Fits(how, s),
           NEW c \in Channels, NEW n \in Nat, NEW w \in Nat, c = Target(p, how), n = posted[c] + 1,
           how.ring # "later" => Ordered(c, s), PostStep(r, p, s, how, c, n, w)
    PROVE  Lanes'
  <1>1. /\ descs' = descs
        /\ posted'[c] = n /\ \A d \in Channels \ {c} : posted'[d] = posted[d]
        /\ IF how.ring = "cpu" THEN rung'[c] = n ELSE rung'[c] = rung[c]
        /\ \A d \in Channels \ {c} : rung'[d] = rung[d]
        /\ how.ring # "cpu" => rung' = rung
    BY DEF PostStep, TypeOK
  <1>2. PICK ops : /\ PostOps(r, how, c, n, w, ops)
                   /\ stream' = [t \in Streams |-> IF t = s THEN stream[t] \o ops ELSE stream[t]]
    BY DEF PostStep
  <1>3. ops \in Seq(Op) /\ \A t \in Streams \ {s} : stream'[t] = stream[t]
    BY <1>2 DEF PostOps
  <1>4. \A d, x : x \in Reqs /\ Held(d, x)' =>
              \/ x # r /\ Held(d, x) /\ req'[x] = req[x]
              \/ x = r /\ how.ring = "later" /\ d = c /\ req'[r].wqe = n
    BY PostHeld
  <1>5. \A d \in Channels : /\ Lane(d) /\ HeldBack(d) /\ posted[d] \in Nat /\ rung[d] \in Nat
                            /\ posted[d] <= posted'[d] /\ rung[d] <= posted[d]
    <2>1. \A d \in Channels : Lane(d) /\ HeldBack(d) /\ posted[d] \in Nat /\ rung[d] \in Nat
      BY DEF Lanes, TypeOK
    <2>2. \A d \in Channels : posted[d] <= posted'[d]
      BY <1>1, <2>1
    <2>3. \A d \in Channels : rung[d] <= posted[d]
      BY <2>1 DEF Lane
    <2>4. QED
      BY <2>1, <2>2, <2>3
  <1>6. \A q \in DescQueues : Ascends(descs'[q])
    BY <1>1 DEF Lanes
  <1>7. \A d \in Channels : /\ \A t \in Streams : Sends(stream[t], d) \subseteq Nat
                            /\ \A q \in DescQueues : Sends(descs[q], d) \subseteq Nat
    BY SendsType DEF TypeOK
  <1>8. CASE how.ring = "cpu" \/ (how.ring = "stream" /\ s \notin Streams)
    <2>1. s = NoStream /\ Ordered(c, s)
      BY <1>8 DEF Fits
    <2>2. \A t \in Streams : stream'[t] = stream[t]
      BY <1>3, <2>1
    <2>3. /\ \A x \in Reqs : ~Held(c, x)
          /\ \A q \in DescQueues : Sends(descs[q], c) = {}
          /\ \A t \in Streams : Sends(stream[t], c) = {}
      BY <2>1, NoneOrdered
    <2>4. \A d, x : x \in Reqs /\ Held(d, x)' => Held(d, x) /\ req'[x] = req[x] /\ d # c
      BY <1>4, <1>8, <2>3
    <2>5. \A d \in Channels : rung'[d] <= posted'[d]
      BY <1>1, <1>5
    <2>6. /\ \A t \in Streams : Ascends(stream'[t])
          /\ \A d \in Channels, t \in Streams : \A j \in Sends(stream'[t], d) :
                j \in Sends(stream[t], d) /\ rung'[d] < j
      <3>1. ASSUME NEW d \in Channels, NEW t \in Streams, NEW j \in Sends(stream'[t], d)
            PROVE  j \in Sends(stream[t], d) /\ rung'[d] < j
        <4>1. j \in Sends(stream[t], d) /\ d # c
          BY <2>2, <2>3, <3>1
        <4>2. QED
          BY <1>1, <1>5, <4>1 DEF Lane
      <3>2. QED
        BY <2>2, <3>1 DEF Lanes
    <2>7. \A d \in Channels, q \in DescQueues : \A j \in Sends(descs'[q], d) :
             j \in Sends(descs[q], d) /\ rung'[d] < j
      <3>1. ASSUME NEW d \in Channels, NEW q \in DescQueues, NEW j \in Sends(descs'[q], d)
            PROVE  j \in Sends(descs[q], d) /\ rung'[d] < j
        <4>1. j \in Sends(descs[q], d) /\ d # c
          BY <1>1, <2>3, <3>1
        <4>2. QED
          BY <1>1, <1>5, <4>1 DEF Lane
      <3>2. QED
        BY <3>1
    <2>8. ASSUME NEW d \in Channels, NEW x \in Reqs, Held(d, x)'
          PROVE  Held(d, x) /\ req'[x].wqe = req[x].wqe /\ rung'[d] < req'[x].wqe
      <3>1. Held(d, x) /\ req'[x] = req[x] /\ d # c
        BY <2>4, <2>8
      <3>2. QED
        BY <1>1, <1>5, <3>1 DEF HeldBack
    <2>9. Fewer
      BY <1>5, <1>6, <2>5, <2>6, <2>7, <2>8 DEF Fewer
    <2>10. QED
      BY <2>9, FewerLanes
  <1>9. CASE how.ring = "stream" /\ s \in Streams
    <2>1. Ordered(c, s) /\ stream'[s] = stream[s] \o ops
      BY <1>2, <1>9
    <2>2. /\ \A x \in Reqs : ~Held(c, x)
          /\ \A q \in DescQueues : Sends(descs[q], c) = {}
          /\ \A t \in Streams \ {s} : Sends(stream[t], c) = {}
      BY <2>1, NoneOrdered
    <2>3. ASSUME NEW i \in DOMAIN ops, ops[i].op = "send"
          PROVE  i = 1 /\ ops[i].chan = c /\ ops[i].index = n
      <3>1. ops[i] # WaitOp(r, c, w)
        BY <2>3 DEF WaitOp
      <3>2. i = 1 /\ ops[i] = SendOp(r, c, n)
        BY <1>2, <3>1 DEF PostOps
      <3>3. QED
        BY <3>2 DEF SendOp
    <2>4. Ascends(ops) /\ \A d : \A j \in Sends(ops, d) : d = c /\ j = n
      <3>1. Ascends(ops)
        <4> SUFFICES ASSUME NEW i \in DOMAIN ops, NEW j \in DOMAIN ops, i < j,
                            ops[i].op = "send", ops[j].op = "send"
                     PROVE  FALSE
          BY DEF Ascends
        <4>1. i = 1 /\ j = 1
          BY <2>3
        <4>2. QED
          BY <4>1
      <3>2. QED
        BY <2>3, <3>1 DEF Sends
    <2>5. rung[c] < n /\ \A i \in Sends(stream[s], c) : i < n
      BY <1>5, <1>7, <1>9 DEF Lane
    <2>6. \A d \in Channels, x \in Reqs : Held(d, x)' => Held(d, x) /\ req'[x].wqe = req[x].wqe /\ d # c
      BY <1>4, <1>9, <2>2
    <2>7. ASSUME NEW d \in Channels, NEW j \in Sends(ops, d)
          PROVE  /\ rung[d] < j /\ j <= posted'[d]
                 /\ \A i \in Sends(stream[s], d) : i < j
                 /\ \A q \in DescQueues : \A i \in Sends(descs'[q], d) : j < i
                 /\ \A x \in Reqs : Held(d, x)' => j < req[x].wqe
                 /\ \A t \in Streams \ {s} : Sends(stream[t], d) = {}
      <3>1. d = c /\ j = n
        BY <2>4
      <3>2. QED
        BY <1>1, <2>2, <2>5, <2>6, <3>1
    <2>8. HandOver(s, ops)
      <3>1. rung' = rung /\ descs' = descs
        BY <1>1, <1>9
      <3>2. \A d \in Channels, q \in DescQueues : Sends(descs'[q], d) \subseteq Sends(descs[q], d)
        BY <3>1
      <3>3. QED
        BY <1>3, <1>5, <1>6, <2>1, <2>4, <2>6, <2>7, <3>1, <3>2 DEF HandOver
    <2>9. QED
      BY <1>3, <1>9, <2>8, HandOverLanes
  <1>10. CASE how.ring = "later"
    <2>1. \A t \in Streams : stream'[t] = stream[t]
      <3>1. ~how.block
        BY <1>10 DEF Regular
      <3>2. ops = <<>>
        BY <1>2, <1>3, <1>10, <3>1 DEF PostOps
      <3>3. \A t \in Streams : stream[t] \o ops = stream[t]
        BY <3>2 DEF TypeOK
      <3>4. QED
        BY <1>2, <3>3
    <2>2. rung' = rung
      BY <1>1, <1>10
    <2>3. ASSUME NEW d \in Channels PROVE Lane(d)'
      <3>1. /\ \A t \in Streams : \A j \in Sends(stream[t], d) : j <= posted'[d]
            /\ \A q \in DescQueues : \A j \in Sends(descs[q], d) : j <= posted'[d]
            /\ rung[d] <= posted'[d]
        <4>1. posted'[d] \in Nat
          BY DEF TypeOK
        <4>2. QED
          BY <1>5, <1>7, <4>1 DEF Lane
      <3>2. QED
        BY <1>1, <1>5, <2>1, <2>2, <3>1 DEF Lane
    <2>4. ASSUME NEW d \in Channels PROVE HeldBack(d)'
      <3> SUFFICES ASSUME NEW x \in Reqs, Held(d, x)'
                   PROVE  /\ rung'[d] < req'[x].wqe /\ req'[x].wqe <= posted'[d]
                          /\ \A t \in Streams : \A j \in Sends(stream'[t], d) : j < req'[x].wqe
                          /\ \A q \in DescQueues : \A j \in Sends(descs'[q], d) : j < req'[x].wqe
                          /\ \A y \in Reqs : Held(d, y)' /\ req'[y].wqe = req'[x].wqe => y = x
        BY DEF HeldBack
      <3>0. posted'[d] \in Nat /\ \A y \in Reqs : req[y].wqe \in Nat /\ req'[y].wqe \in Nat
        BY DEF TypeOK, ReqFields
      <3>1. ASSUME NEW y \in Reqs, Held(d, y)'
            PROVE  \/ y # r /\ Held(d, y) /\ req'[y] = req[y] /\ req'[y].wqe <= posted[d]
                   \/ y = r /\ d = c /\ req'[y].wqe = n
        BY <1>4, <1>5, <3>1 DEF HeldBack
      <3>2. CASE x # r
        <4>1. Held(d, x) /\ req'[x] = req[x] /\ req'[x].wqe <= posted[d]
          BY <3>1, <3>2
        <4>2. rung'[d] < req'[x].wqe /\ req'[x].wqe <= posted'[d]
          BY <1>5, <2>2, <3>0, <4>1 DEF HeldBack
        <4>3. /\ \A t \in Streams : \A j \in Sends(stream'[t], d) : j < req'[x].wqe
              /\ \A q \in DescQueues : \A j \in Sends(descs'[q], d) : j < req'[x].wqe
          BY <1>1, <1>5, <2>1, <4>1 DEF HeldBack
        <4>4. ASSUME NEW y \in Reqs, Held(d, y)', req'[y].wqe = req'[x].wqe PROVE y = x
          <5>1. CASE y = r
            <6>1. d = c /\ req'[y].wqe = posted[c] + 1 /\ posted[c] \in Nat
              BY <1>5, <3>1, <4>4, <5>1
            <6>2. QED
              BY <3>0, <4>1, <4>4, <6>1
          <5>2. CASE y # r
            BY <1>5, <3>1, <4>1, <4>4, <5>2 DEF HeldBack
          <5>3. QED
            BY <5>1, <5>2
        <4>5. QED
          BY <4>2, <4>3, <4>4
      <3>3. CASE x = r
        <4>1. d = c /\ req'[x].wqe = n /\ n = posted[d] + 1 /\ posted[d] \in Nat /\ rung[d] \in Nat
          BY <1>5, <3>1, <3>3
        <4>2. rung'[d] < req'[x].wqe /\ req'[x].wqe <= posted'[d]
          BY <1>1, <1>5, <2>2, <4>1
        <4>3. /\ \A t \in Streams : \A j \in Sends(stream'[t], d) : j < n
              /\ \A q \in DescQueues : \A j \in Sends(descs'[q], d) : j < n
          BY <1>1, <1>5, <1>7, <2>1, <4>1 DEF Lane
        <4>4. ASSUME NEW y \in Reqs, Held(d, y)', req'[y].wqe = req'[x].wqe PROVE y = x
          <5>1. CASE y # r
            <6>1. req'[y].wqe <= posted[d]
              BY <3>1, <4>4, <5>1
            <6>2. QED
              BY <3>0, <4>1, <4>4, <6>1
          <5>2. QED
            BY <3>3, <5>1
        <4>5. QED
          BY <4>1, <4>2, <4>3, <4>4
      <3>4. QED
        BY <3>2, <3>3
    <2>5. QED
      BY <1>6, <2>1, <2>3, <2>4 DEF Lanes
  <1>11. QED
    BY <1>8, <1>9, <1>10 DEF How

\* A submission that found its queue full keeps its turn: while it polls for room
\* nothing is added in front of it.
PostingL ==
    pc = "posting" =>
        /\ post.req \notin user /\ Regular(post.how) /\ Fits(post.how, post.stream)
        /\ post.how.ring # "later" /\ Ordered(Target(post.peer, post.how), post.stream)

\* Nothing that Ordered looks at is added.
Shrinks ==
    /\ \A c, r : r \in Reqs /\ Held(c, r)' => Held(c, r)
    /\ \A s \in Streams : Elems(stream'[s]) \subseteq Elems(stream[s])
    /\ \A q \in DescQueues : Elems(descs'[q]) \subseteq Elems(descs[q])

LEMMA OrderedStays ==
    ASSUME NEW c, NEW s, Ordered(c, s), Shrinks
    PROVE  Ordered(c, s)'
  <1>1. CASE "unordered" \in Liberties
    BY <1>1 DEF Ordered
  <1>2. CASE "unordered" \notin Liberties
    <2>1. \A r \in Reqs : ~Held(c, r)'
      BY <1>2 DEF Ordered, Shrinks
    <2>2. ASSUME NEW q \in DescQueues, NEW i \in DOMAIN descs'[q]
          PROVE  ~(descs'[q][i].op = "send" /\ descs'[q][i].chan = c)
      <3>1. PICK k \in DOMAIN descs[q] : descs[q][k] = descs'[q][i]
        BY <2>2 DEF Shrinks, Elems
      <3>2. QED
        BY <1>2, <3>1 DEF Ordered
    <2>3. ASSUME NEW t \in Streams \ {s}, NEW i \in DOMAIN stream'[t]
          PROVE  ~(stream'[t][i].op = "send" /\ stream'[t][i].chan = c)
      <3>1. PICK k \in DOMAIN stream[t] : stream[t][k] = stream'[t][i]
        BY <2>3 DEF Shrinks, Elems
      <3>2. QED
        BY <1>2, <3>1 DEF Ordered
    <2>4. QED
      BY <2>1, <2>2, <2>3 DEF Ordered
  <1>3. QED
    BY <1>1, <1>2

LEMMA PostingStays ==
    ASSUME PostingL, UNCHANGED <<user, post>>, pc' = "posting" => pc = "posting", Shrinks
    PROVE  PostingL'
  <1> SUFFICES ASSUME pc' = "posting" PROVE PostingL'
    BY DEF PostingL
  <1>1. PICK c : c = Target(post.peer, post.how)
    OBVIOUS
  <1>2. PICK s : s = post.stream
    OBVIOUS
  <1>3. Ordered(c, s) /\ pc = "posting"
    BY <1>1, <1>2 DEF PostingL
  <1>4. Ordered(c, s)'
    BY <1>3, OrderedStays
  <1>5. c = Target(post'.peer, post'.how) /\ s = post'.stream
    BY <1>1, <1>2
  <1>6. post'.req \notin user' /\ Regular(post'.how) /\ Fits(post'.how, post'.stream)
        /\ post'.how.ring # "later"
    BY <1>3 DEF PostingL
  <1>7. QED
    BY <1>4, <1>5, <1>6 DEF PostingL

\* The error path of a submission: its request was not posted.
LEMMA AbandonLanes ==
    ASSUME TypeOK, TypeOK', Lanes, HandlesL, NEW r \in Reqs, r \notin user, NEW p, NEW how,
           Abandon(r, p, how, 0), UNCHANGED <<posted, rung, stream, descs>>, pc' = "idle"
    PROVE  Lanes' /\ HandlesL' /\ PostingL'
  <1>1. /\ \A x \in Reqs \ {r} : status'[x] = status[x] /\ req'[x] = req[x]
        /\ req'[r].wqe = 0
    BY DEF Abandon, Release, Create, TypeOK, NullReq
  <1>2. user' = user
    BY DEF Abandon, Release
  <1>3. \A c, x : x \in Reqs /\ Held(c, x)' => Held(c, x) /\ req'[x] = req[x]
    BY <1>1 DEF Held, Chan
  <1>4. \A c \in Channels : Lane(c) /\ HeldBack(c) /\ posted[c] \in Nat
    BY DEF Lanes, TypeOK
  <1>5. Fewer
    BY <1>3, <1>4 DEF Fewer, Lane, HeldBack, Lanes
  <1>6. HandlesL'
    BY <1>1, <1>2 DEF HandlesL, TypeOK
  <1>7. QED
    BY <1>5, <1>6, FewerLanes DEF PostingL

\* The calls on requests the application holds prepare none.
LEMMA CallHandles ==
    ASSUME TypeOK, TypeOK', HandlesL, PostPrepared \/ CpuWait
    PROVE  HandlesL' /\ PostingL'
  <1>1. CASE PostPrepared
    <2>1. /\ UNCHANGED <<req, user>> /\ pc' # "posting"
          /\ \A x \in Reqs : /\ status'[x] = "PREPARED" => status[x] = "PREPARED"
                             /\ status[x] # "UNDEF" => status'[x] # "UNDEF"
      BY <1>1, PostPreparedCall DEF CallStep, StatusMoves
    <2>2. QED
      BY <2>1 DEF HandlesL, PostingL, TypeOK
  <1>2. ASSUME CpuWait, ~WaitReturn PROVE HandlesL' /\ PostingL'
    <2>1. \/ \E rs : SetStatus(rs, "PENDING") \/ SetStatus(rs, "PENDING_NOWAIT")
          \/ status' = status
      BY <1>2 DEF CpuWait, mp_wait_on_stream, mp_wait_all_on_stream, add_send, add_wait,
                  mp_wait_all, AbortPeeks, WaitGpuError
    <2>2. UNCHANGED <<req, user>> /\ pc' # "posting"
      BY <1>2 DEF CpuWait, mp_wait_on_stream, mp_wait_all_on_stream, add_send, add_wait,
                  mp_wait_all, WaitGpuError, OnStream, Collect
    <2>3. \A x \in Reqs : /\ status'[x] = "PREPARED" => status[x] = "PREPARED"
                          /\ status[x] # "UNDEF" => status'[x] # "UNDEF"
      BY <2>1 DEF SetStatus
    <2>4. QED
      BY <2>2, <2>3 DEF HandlesL, PostingL, TypeOK
  <1>3. CASE WaitReturn
    BY <1>3 DEF WaitReturn, Release, HandlesL, PostingL, TypeOK
  <1>4. QED
    BY <1>1, <1>2, <1>3

LEMMA PostHandles ==
    ASSUME TypeOK, TypeOK', HandlesL, NEW r \in Reqs, NEW p, NEW s, NEW how \in How, Regular(how),
           NEW c \in Channels, NEW n \in Nat, NEW w, n = posted[c] + 1, PostStep(r, p, s, how, c, n, w),
           r \notin user
    PROVE  HandlesL' /\ PostingL'
  <1>1. pc' = "idle" /\ \A x \in Reqs \ {r} : status'[x] = status[x] /\ req'[x] = req[x]
    BY DEF PostStep
  <1>2. user' \subseteq user \union {r} /\ (r \in user' => status'[r] = how.after /\ req'[r].wqe = n)
    BY DEF PostStep, Posted, NewReq
  <1>3. n # 0 /\ how.after # "UNDEF"
    <2>1. posted[c] \in Nat
      BY DEF TypeOK
    <2>2. n # 0
      BY <2>1
    <2>3. how.after # "UNDEF"
      BY DEF How
    <2>4. QED
      BY <2>2, <2>3
  <1>4. HandlesL'
    BY <1>1, <1>2, <1>3 DEF HandlesL, TypeOK
  <1>5. QED
    BY <1>1, <1>4 DEF PostingL

LEMMA SubmitLanes ==
    ASSUME "unordered" \notin Liberties, TypeOK, TypeOK', HandlesL, Lanes,
           NEW r \in Reqs, NEW p \in Peers, NEW s \in Streams \union {NoStream},
           NEW how \in How, Regular(how), Fits(how, s), Submit(r, p, s, how)
    PROVE  Lanes' /\ HandlesL' /\ PostingL'
  <1>0. /\ r \notin user /\ pc = "idle"
        /\ how.ring # "later" => Ordered(Target(p, how), s)
    BY DEF Submit, HandlesL, Target
  <1>1. CASE \E c \in Channels, n \in Nat, w \in Nat :
                /\ c = Target(p, how) /\ n = posted[c] + 1 /\ w = Len(peek[c]) + 1
                /\ PostStep(r, p, s, how, c, n, w)
    BY <1>0, <1>1, PostLanes, PostHandles
  <1>2. CASE /\ Create(r, p, how, how.state, 0, 0) /\ how.full # "fail"
             /\ pc' = "posting"
             /\ post' = [req |-> r, peer |-> p, stream |-> s, how |-> how]
             /\ UNCHANGED <<user, posted, rung, done, cq, polled, peek, stream, descs, waited>>
    <2>1. \A x \in Reqs \ {r} : status'[x] = status[x] /\ req'[x] = req[x]
      BY <1>2, CreateFacts
    <2>2. status'[r] # "PREPARED" /\ how.ring # "later"
      BY <1>2 DEF Create, TypeOK, Regular
    <2>3. \A c, x : x \in Reqs /\ Held(c, x)' => Held(c, x) /\ req'[x] = req[x]
      BY <2>1, <2>2 DEF Held, Chan
    <2>4. \A c \in Channels : Lane(c) /\ HeldBack(c) /\ posted[c] \in Nat
      BY DEF Lanes, TypeOK
    <2>5. UNCHANGED <<user, posted, rung, stream, descs>>
      BY <1>2
    <2>6. Fewer
      BY <2>3, <2>4, <2>5 DEF Fewer, Lane, HeldBack, Lanes
    <2>7. HandlesL'
      BY <1>0, <2>1, <2>5 DEF HandlesL, TypeOK
    <2>8. Shrinks
      BY <2>3, <2>5 DEF Shrinks
    <2>9. PICK c : c = Target(p, how)
      OBVIOUS
    <2>10. Ordered(c, s)'
      BY <1>0, <2>2, <2>8, <2>9, OrderedStays
    <2>11. post'.req = r /\ post'.peer = p /\ post'.stream = s /\ post'.how = how
      BY <1>2
    <2>12. PostingL'
      BY <1>0, <2>2, <2>5, <2>9, <2>10, <2>11 DEF PostingL
    <2>13. QED
      BY <2>6, <2>7, <2>12, FewerLanes
  <1>3. CASE /\ Abandon(r, p, how, 0)
             /\ UNCHANGED <<posted, rung, done, cq, polled, peek, stream, descs, pc, waited, post>>
    BY <1>0, <1>3, AbandonLanes
  <1>4. QED
    BY <1>1, <1>2, <1>3, SubmitCases

\* The doorbell of a stream rings for the earliest send of its channel.
LEMMA GpuLanes ==
    ASSUME TypeOK, TypeOK', HandlesL, PostingL, Lanes, NEW s \in Streams, StreamSend(s) \/ StreamWait(s)
    PROVE  Lanes' /\ HandlesL' /\ PostingL'
  <1>1. PICK q \in Seq(Op) : q = stream[s] /\ q # <<>>
    BY DEF StreamSend, StreamWait, TypeOK
  <1>2. PICK op \in Op : op = Head(q)
    BY <1>1, SeqTail
  <1>3. /\ UNCHANGED <<status, req, user, posted, descs, pc, post>>
        /\ stream'[s] = Tail(q) /\ \A t \in Streams \ {s} : stream'[t] = stream[t]
        /\ \/ op.op = "send" /\ rung' = [rung EXCEPT ![op.chan] = IF @ < op.index THEN op.index ELSE @]
           \/ op.op = "wait" /\ rung' = rung
    BY <1>1, <1>2 DEF StreamSend, StreamWait, TypeOK
  <1>4. /\ Ascends(Tail(q)) /\ \A c : Sends(Tail(q), c) \subseteq Sends(q, c)
        /\ op.op = "send" => op.index \in Sends(q, op.chan)
        /\ op.op = "send" => \A j \in Sends(Tail(q), op.chan) : op.index < j
    BY <1>1, <1>2, SendsTail DEF Lanes
  <1>5. \A c, x : x \in Reqs /\ Held(c, x)' => Held(c, x) /\ req'[x] = req[x]
    BY <1>3 DEF Held, Chan
  <1>6. \A c \in Channels : Lane(c) /\ HeldBack(c) /\ posted[c] \in Nat /\ rung[c] \in Nat
    BY DEF Lanes, TypeOK
  <1>7. op.chan \in Channels /\ op.index \in Nat
    BY DEF Op
  <1>8. \A t \in Streams : Ascends(stream'[t]) /\ \A c : Sends(stream'[t], c) \subseteq Sends(stream[t], c)
    BY <1>1, <1>3, <1>4 DEF Lanes
  <1>9. ASSUME NEW c \in Channels
        PROVE  /\ rung'[c] <= posted[c]
               /\ \A t \in Streams : \A j \in Sends(stream'[t], c) : rung'[c] < j
               /\ \A o \in DescQueues : \A j \in Sends(descs[o], c) : rung'[c] < j
               /\ \A x \in Reqs : Held(c, x) => rung'[c] < req[x].wqe
    <2>1. CASE op.op = "send" /\ c = op.chan
      <3>1. op.index \in Sends(stream[s], c) /\ rung[c] < op.index /\ op.index <= posted[c]
        BY <1>1, <1>4, <1>6, <2>1 DEF Lane
      <3>2. rung'[c] = op.index
        BY <1>3, <1>6, <2>1, <3>1 DEF TypeOK
      <3>3. \A t \in Streams \ {s} : Sends(stream[t], c) = {}
        BY <1>6, <3>1 DEF Lane
      <3>4. \A t \in Streams : \A j \in Sends(stream'[t], c) : op.index < j
        BY <1>3, <1>4, <2>1, <3>3
      <3>5. /\ \A o \in DescQueues : \A j \in Sends(descs[o], c) : op.index < j
            /\ \A x \in Reqs : Held(c, x) => op.index < req[x].wqe
        BY <1>6, <3>1 DEF Lane, HeldBack
      <3>6. QED
        BY <3>1, <3>2, <3>4, <3>5
    <2>2. CASE ~(op.op = "send" /\ c = op.chan)
      <3>1. rung'[c] = rung[c]
        BY <1>3, <1>7, <2>2 DEF TypeOK
      <3>2. QED
        BY <1>6, <1>8, <3>1 DEF Lane, HeldBack
    <2>3. QED
      BY <2>1, <2>2
  <1>10. Fewer
    BY <1>3, <1>5, <1>6, <1>8, <1>9 DEF Fewer, Lanes
  <1>11. Elems(Tail(q)) \subseteq Elems(q)
    BY <1>1, ElemsTail
  <1>12. Shrinks
    BY <1>1, <1>3, <1>5, <1>11 DEF Shrinks
  <1>13. PostingL'
    BY <1>3, <1>12, PostingStays
  <1>14. HandlesL'
    BY <1>3 DEF HandlesL
  <1>15. QED
    BY <1>10, <1>13, <1>14, FewerLanes

LEMMA ProgressLanes ==
    ASSUME "unordered" \notin Liberties, TypeOK, TypeOK', HandlesL, PostingL, Lanes, Progress
    PROVE  Lanes' /\ HandlesL' /\ PostingL'
  <1>1. ASSUME NEW c \in Channels, mp_progress_single_flow(c) \/ HcaExecute(c)
        PROVE  Lanes' /\ HandlesL' /\ PostingL'
    <2>1. \/ \E r : status' = [x \in Reqs |-> IF x \in {r} THEN "COMPLETE" ELSE status[x]]
          \/ status' = status
      BY <1>1 DEF mp_progress_single_flow, SetStatus, HcaExecute
    <2>2. UNCHANGED <<req, user, posted, rung, stream, descs, post>> /\ (pc' = "posting" => pc = "posting")
      BY <1>1 DEF mp_progress_single_flow, HcaExecute
    <2>3. \A x \in Reqs : status'[x] \in {status[x], "COMPLETE"}
      BY <2>1
    <2>4. \A d, x : x \in Reqs /\ Held(d, x)' => Held(d, x)
      BY <2>2, <2>3 DEF Held, Chan
    <2>5. Shrinks
      BY <2>2, <2>4 DEF Shrinks
    <2>6. PostingL'
      BY <2>2, <2>5, PostingStays
    <2>7. HandlesL'
      BY <2>2, <2>3 DEF HandlesL, TypeOK
    <2>8. Lanes'
      BY <2>2, <2>3, StatusLanes
    <2>9. QED
      BY <2>6, <2>7, <2>8
  <1>2. ASSUME pc = "posting"
        PROVE  /\ post.req \in Reqs /\ post.peer \in Peers /\ post.how \in How
               /\ post.stream \in Streams \union {NoStream}
               /\ Regular(post.how) /\ Fits(post.how, post.stream) /\ post.req \notin user
               /\ post.how.ring # "later" /\ Ordered(Target(post.peer, post.how), post.stream)
    <2>1. post \in Submission
      BY <1>2 DEF TypeOK
    <2>2. QED
      BY <1>2, <2>1 DEF Submission, PostingL
  <1>3. CASE PostRetry
    <2>1. pc = "posting" /\ Enqueue(post.req, post.peer, post.stream, post.how)
      BY <1>3 DEF PostRetry
    <2>2. PICK r \in Reqs, p \in Peers, s \in Streams \union {NoStream}, how \in How :
             /\ Enqueue(r, p, s, how) /\ Regular(how) /\ Fits(how, s) /\ r \notin user
             /\ Ordered(Target(p, how), s)
      BY <1>2, <2>1
    <2>3. PICK c \in Channels, n \in Nat, w \in Nat :
             c = Target(p, how) /\ n = posted[c] + 1 /\ PostStep(r, p, s, how, c, n, w)
      BY <2>2, EnqueueStep
    <2>4. QED
      BY <2>2, <2>3, PostLanes, PostHandles
  <1>4. CASE PostGiveUp
    BY <1>2, <1>4, AbandonLanes DEF PostGiveUp
  <1>5. QED
    BY <1>1, <1>3, <1>4, GpuLanes DEF Progress

LEMMA NextLanes ==
    ASSUME OrderedUse, TypeOK, HandlesL, PostingL, Lanes, [Next]_vars
    PROVE  Lanes' /\ HandlesL' /\ PostingL'
  <1>0. TypeOK' /\ "unordered" \notin Liberties
    BY NextType DEF OrderedUse
  <1>1. CASE CpuSubmit \/ StreamSubmit
    <2>1. PICK r \in Reqs, p \in Peers, s \in Streams \union {NoStream} : Submits(r, p, s)
      BY <1>1, SubmitCalls
    <2>2. PICK how \in How : Submit(r, p, s, how) /\ Regular(how) /\ Fits(how, s)
      BY <2>1 DEF Submits
    <2>3. QED
      BY <1>0, <2>2, SubmitLanes
  <1>2. CASE PostPrepared
    BY <1>0, <1>2, PostPreparedLanes, CallHandles
  <1>3. CASE CpuWait
    BY <1>0, <1>3, CpuWaitLanes, CallHandles
  <1>4. CASE Progress
    BY <1>0, <1>4, ProgressLanes
  <1>5. CASE UNCHANGED vars
    <2>1. UNCHANGED <<status, req, user, posted, rung, stream, descs, pc, post>>
      BY <1>5 DEF vars
    <2>2. Lanes' /\ HandlesL'
      BY <1>0, <2>1, StatusLanes DEF HandlesL
    <2>3. Shrinks
      BY <2>1 DEF Shrinks, Held, Chan
    <2>4. QED
      BY <2>1, <2>2, <2>3, PostingStays
  <1>6. QED
    BY <1>1, <1>2, <1>3, <1>4, <1>5 DEF Next

LEMMA InitLanes == Init => Lanes /\ HandlesL /\ PostingL
  <1> SUFFICES ASSUME Init PROVE Lanes /\ HandlesL /\ PostingL
    OBVIOUS
  <1>1. /\ \A s \in Streams : stream[s] = <<>>
        /\ \A q \in DescQueues : descs[q] = <<>>
        /\ \A c \in Channels : rung[c] = 0 /\ posted[c] = 0
        /\ \A r \in Reqs : status[r] = "UNDEF"
        /\ user = {} /\ pc = "idle"
    BY DEF Init
  <1>2. \A c, r : r \in Reqs => ~Held(c, r)
    BY <1>1 DEF Held
  <1>3. \A c \in Channels : Lane(c) /\ HeldBack(c)
    BY <1>1, <1>2, SendsEmpty DEF Lane, HeldBack
  <1>4. QED
    BY <1>1, <1>3, SendsEmpty DEF Lanes, HandlesL, PostingL

\* The HCA sees a send only after the stream it was posted on has reached it, when
\* the application keeps its contract on doorbells: whatever else it calls, in any
\* number of streams and descriptor queues and whatever fails, no doorbell shows the
\* HCA a work request that is still prepared, collected or queued.
THEOREM SendsInOrder ==
    ASSUME OrderedUse PROVE Spec => []SendNotEarly
  <1>1. Init => TypeOK /\ HandlesL /\ PostingL /\ Lanes
    BY InitType, InitLanes
  <1>2. TypeOK /\ HandlesL /\ PostingL /\ Lanes /\ [Next]_vars
        => (TypeOK /\ HandlesL /\ PostingL /\ Lanes)'
    BY NextType, NextLanes
  <1>3. TypeOK /\ Lanes => SendNotEarly
    <2> SUFFICES ASSUME TypeOK, Lanes PROVE SendNotEarly
      OBVIOUS
    <2>1. ASSUME NEW r \in Reqs, status[r] = "PREPARED"
          PROVE  req[r].wqe = 0 \/ req[r].wqe > rung[Chan(r)]
      <3>1. PICK c \in Channels : c = Chan(r)
        BY <2>1, ChanType
      <3>2. CASE req[r].wqe # 0
        <4>1. Held(c, r) /\ HeldBack(c) /\ req[r].wqe \in Nat /\ rung[c] \in Nat
          BY <2>1, <3>1, <3>2 DEF Held, Lanes, TypeOK, ReqFields
        <4>2. rung[c] < req[r].wqe
          BY <4>1 DEF HeldBack
        <4>3. QED
          BY <3>1, <4>1, <4>2
      <3>3. QED
        BY <3>2
    <2>2. ASSUME NEW seq \in Seq(Op), \A c \in Channels : \A j \in Sends(seq, c) : rung[c] < j,
                 NEW i \in DOMAIN seq, seq[i].op = "send"
          PROVE  seq[i].index > rung[seq[i].chan]
      <3>1. PICK op \in Op : op = seq[i]
        BY SeqElem
      <3>2. op.chan \in Channels /\ op.index \in Nat /\ rung[op.chan] \in Nat
        BY DEF Op, TypeOK
      <3>3. op.index \in Sends(seq, op.chan)
        BY <2>2, <3>1 DEF Sends
      <3>4. rung[op.chan] < op.index
        BY <2>2, <3>2, <3>3
      <3>5. QED
        BY <3>1, <3>2, <3>4
    <2>3. /\ \A s \in Streams : stream[s] \in Seq(Op)
          /\ \A q \in DescQueues : descs[q] \in Seq(Op)
      BY DEF TypeOK
    <2>4. /\ \A s \in Streams : \A c \in Channels : \A j \in Sends(stream[s], c) : rung[c] < j
          /\ \A q \in DescQueues : \A c \in Channels : \A j \in Sends(descs[q], c) : rung[c] < j
      BY DEF Lanes, Lane
    <2>5. QED
      BY <2>1, <2>2, <2>3, <2>4 DEF SendNotEarly
  <1>4. QED
    BY <1>1, <1>2, <1>3, PTL DEF Spec

-----------------------------------------------------------------------------
(* Refinement of RequestLife *)

\* The completions of r on channel c that are still to be polled.
Own(c, r) == {k \in ToPoll(c) : cq[c][k].req = r}

\* The HCA executes only what was posted; completions come in the order of their
\* work requests, and one still to be polled is that of its request's work request.
Marks ==
    /\ \A c \in Channels : done[c] <= rung[c] /\ rung[c] <= posted[c]
    /\ \A op : Queued(op) /\ op.op = "send" => op.index <= posted[op.chan]
Entries(c) ==
    /\ \A k \in DOMAIN cq[c] : 0 < cq[c][k].wqe /\ cq[c][k].wqe <= posted[c]
    /\ \A j, k \in DOMAIN cq[c] : j < k => cq[c][j].wqe < cq[c][k].wqe
    /\ \A k \in ToPoll(c) : req[cq[c][k].req].wqe = cq[c][k].wqe

\* A signaled work request that is not complete has its completion to come.
Tracked(r, c) ==
    c = Chan(r) /\ status[r] \notin {"UNDEF", "COMPLETE"} /\ req[r].wqe # 0 /\ ~req[r].nowait
    => Own(c, r) # {}
HandleL(r, c) ==
    /\ req[r].wqe # 0 /\ (req[r].type = "RECV" => ~req[r].nowait)
    /\ c = Chan(r) => req[r].wqe <= posted[c]
LifeInv ==
    /\ Marks
    /\ \A c \in Channels : Entries(c)
    /\ \A r \in Reqs, c \in Channels : Tracked(r, c)
    /\ \A r \in user, c \in Channels : HandleL(r, c)
    /\ \A r \in waited : ~req[r].nowait
    /\ pc = "posting" => req[post.req].wqe = 0

LifeBase == TypeOK /\ TypeOK' /\ Inv /\ Inv' /\ OwnWaits /\ LifeInv

LifeSame(x) == LifeOf(x)' = LifeOf(x)
LifeStep == Life!Next \/ UNCHANGED [r \in Reqs |-> LifeOf(r)]

LEMMA LifeIs ==
    ASSUME NEW r, NEW c, c = Chan(r)
    PROVE  /\ status[r] = "UNDEF" => LifeOf(r) = "free"
           /\ status[r] # "UNDEF" /\ req[r].wqe = 0 => LifeOf(r) = "created"
           /\ status[r] # "UNDEF" /\ req[r].wqe # 0 =>
                 /\ req[r].nowait => LifeOf(r) = "unsignaled"
                 /\ ~req[r].nowait /\ Own(c, r) # {} =>
                       LifeOf(r) = IF req[r].wqe <= done[c] THEN "executed" ELSE "active"
                 /\ ~req[r].nowait /\ Own(c, r) = {} =>
                       LifeOf(r) = IF status[r] = "COMPLETE" THEN "complete" ELSE "lost"
  <1>1. OwnCompletions(r) = Own(c, r)
    BY DEF OwnCompletions, Own
  <1>2. QED
    BY <1>1 DEF LifeOf

LEMMA LifeIsNext ==
    ASSUME NEW r, NEW c, c = Chan(r)'
    PROVE  /\ status'[r] = "UNDEF" => LifeOf(r)' = "free"
           /\ status'[r] # "UNDEF" /\ req'[r].wqe = 0 => LifeOf(r)' = "created"
           /\ status'[r] # "UNDEF" /\ req'[r].wqe # 0 =>
                 /\ req'[r].nowait => LifeOf(r)' = "unsignaled"
                 /\ ~req'[r].nowait /\ Own(c, r)' # {} =>
                       LifeOf(r)' = IF req'[r].wqe <= done'[c] THEN "executed" ELSE "active"
                 /\ ~req'[r].nowait /\ Own(c, r)' = {} =>
                       LifeOf(r)' = IF status'[r] = "COMPLETE" THEN "complete" ELSE "lost"
  <1>1. OwnCompletions(r)' = Own(c, r)'
    BY DEF OwnCompletions, Own, ToPoll
  <1>2. QED
    BY <1>1 DEF LifeOf

\* A step that keeps where a request stands.
LEMMA SameLife ==
    ASSUME NEW x \in Reqs, TypeOK,
           \/ status[x] = "UNDEF" /\ status'[x] = "UNDEF"
           \/ status[x] # "UNDEF" /\ status'[x] # "UNDEF" /\ req'[x] = req[x],
           \A c \in Channels : c = Chan(x) /\ status[x] # "UNDEF" /\ req[x].wqe # 0 /\ ~req[x].nowait =>
              /\ Own(c, x)' = Own(c, x)
              /\ status'[x] = "COMPLETE" <=> status[x] = "COMPLETE"
              /\ Own(c, x) # {} => (req[x].wqe <= done'[c] <=> req[x].wqe <= done[c])
    PROVE  LifeSame(x)
  <1>1. CASE status[x] = "UNDEF" /\ status'[x] = "UNDEF"
    BY <1>1, LifeIs, LifeIsNext DEF LifeSame
  <1>2. CASE status[x] # "UNDEF" /\ status'[x] # "UNDEF" /\ req'[x] = req[x]
    <2>1. PICK c \in Channels : c = Chan(x) /\ c = Chan(x)'
      BY <1>2, ChanType DEF Chan
    <2>2. CASE req[x].wqe = 0
      BY <1>2, <2>1, <2>2, LifeIs, LifeIsNext DEF LifeSame
    <2>3. CASE req[x].wqe # 0 /\ req[x].nowait
      BY <1>2, <2>1, <2>3, LifeIs, LifeIsNext DEF LifeSame
    <2>4. CASE req[x].wqe # 0 /\ ~req[x].nowait
      <3>1. /\ Own(c, x)' = Own(c, x)
            /\ status'[x] = "COMPLETE" <=> status[x] = "COMPLETE"
            /\ Own(c, x) # {} => (req[x].wqe <= done'[c] <=> req[x].wqe <= done[c])
        BY <1>2, <2>1, <2>4
      <3>2. CASE Own(c, x) = {}
        BY <1>2, <2>1, <2>4, <3>1, <3>2, LifeIs, LifeIsNext DEF LifeSame
      <3>3. CASE Own(c, x) # {}
        BY <1>2, <2>1, <2>4, <3>1, <3>3, LifeIs, LifeIsNext DEF LifeSame
      <3>4. QED
        BY <3>2, <3>3
    <2>5. QED
      BY <2>2, <2>3, <2>4
  <1>3. QED
    BY <1>1, <1>2

LEMMA LifeStutter ==
    ASSUME \A x \in Reqs : LifeSame(x)
    PROVE  LifeStep
  BY DEF LifeSame, LifeStep

\* The steps of RequestLife that change one request.
LEMMA LifeMove ==
    ASSUME NEW r \in Reqs, \A x \in Reqs : x # r => LifeSame(x),
           \/ LifeOf(r) = "free" /\ LifeOf(r)' \in {"created", "active", "unsignaled"}
           \/ LifeOf(r) = "created" /\ LifeOf(r)' \in {"active", "unsignaled"}
           \/ LifeOf(r) = "active" /\ LifeOf(r)' = "executed"
           \/ LifeOf(r) = "executed" /\ LifeOf(r)' = "complete"
           \/ LifeOf(r) = "created" /\ LifeOf(r)' = "free"
    PROVE  LifeStep
  <1>1. [x \in Reqs |-> LifeOf(x)]' = [[x \in Reqs |-> LifeOf(x)] EXCEPT ![r] = LifeOf(r)']
    BY DEF LifeSame
  <1>2. CASE LifeOf(r) = "free" /\ LifeOf(r)' \in {"created", "active", "unsignaled"}
    <2>1. Life!Create(r)
      BY <1>1, <1>2 DEF Life!Create
    <2>2. QED
      BY <2>1 DEF Life!Next, LifeStep
  <1>3. CASE LifeOf(r) = "created" /\ LifeOf(r)' \in {"active", "unsignaled"}
    <2>1. Life!Post(r)
      BY <1>1, <1>3 DEF Life!Post
    <2>2. QED
      BY <2>1 DEF Life!Next, LifeStep
  <1>4. CASE LifeOf(r) = "active" /\ LifeOf(r)' = "executed"
    <2>1. Life!Execute(r)
      BY <1>1, <1>4 DEF Life!Execute
    <2>2. QED
      BY <2>1 DEF Life!Next, LifeStep
  <1>5. CASE LifeOf(r) = "executed" /\ LifeOf(r)' = "complete"
    <2>1. Life!Complete(r)
      BY <1>1, <1>5 DEF Life!Complete
    <2>2. QED
      BY <2>1 DEF Life!Next, LifeStep
  <1>6. CASE LifeOf(r) = "created" /\ LifeOf(r)' = "free"
    <2>1. Life!Undo(r)
      BY <1>1, <1>6 DEF Life!Undo
    <2>2. QED
      BY <2>1 DEF Life!Next, LifeStep
  <1>7. QED
    BY <1>2, <1>3, <1>4, <1>5, <1>6

\* A step that leaves work requests and completions alone and completes no signaled
\* request is none of RequestLife.
QuietStep ==
    /\ UNCHANGED <<req, cq, polled, posted, done>> /\ user' \subseteq user
    /\ \A x \in Reqs : /\ status'[x] = "UNDEF" <=> status[x] = "UNDEF"
                       /\ req[x].nowait \/ (status'[x] = "COMPLETE" <=> status[x] = "COMPLETE")
    /\ Marks' /\ (\A r \in waited' : ~req[r].nowait)
    /\ pc' = "posting" => pc = "posting" /\ post' = post

LEMMA QuietLife ==
    ASSUME LifeBase, QuietStep
    PROVE  LifeInv' /\ LifeStep
  <1>0. TypeOK /\ LifeInv
    BY DEF LifeBase
  <1>1. /\ UNCHANGED <<req, cq, polled, posted, done>> /\ user' \subseteq user
        /\ \A x \in Reqs : /\ status'[x] = "UNDEF" <=> status[x] = "UNDEF"
                           /\ req[x].nowait \/ (status'[x] = "COMPLETE" <=> status[x] = "COMPLETE")
        /\ pc' = "posting" => pc = "posting" /\ post' = post
    BY DEF QuietStep
  <1>2. \A c : ToPoll(c)' = ToPoll(c)
    BY <1>1 DEF ToPoll
  <1>3. \A c, x : Own(c, x)' = Own(c, x)
    BY <1>1, <1>2 DEF Own
  <1>4. \A x : Chan(x)' = Chan(x)
    BY <1>1 DEF Chan
  <1>5. ASSUME NEW x \in Reqs PROVE LifeSame(x)
    BY <1>0, <1>1, <1>3, SameLife
  <1>6. \A c \in Channels : Entries(c)'
    BY <1>0, <1>1, <1>2 DEF LifeInv, Entries
  <1>7. \A x \in Reqs, c \in Channels : Tracked(x, c)'
    BY <1>0, <1>1, <1>3, <1>4 DEF LifeInv, Tracked
  <1>8. \A x \in user', c \in Channels : HandleL(x, c)'
    BY <1>0, <1>1, <1>4 DEF LifeInv, HandleL
  <1>9. LifeInv'
    BY <1>0, <1>1, <1>6, <1>7, <1>8 DEF LifeInv, QuietStep
  <1>10. QED
    BY <1>5, <1>9, LifeStutter

\* What the application holds and may wait for is signaled.
LEMMA WaitableSignaled ==
    ASSUME LifeBase, NEW r \in user, req_can_be_waited(r)
    PROVE  ~req[r].nowait
  <1>1. PICK c \in Channels : c = Chan(r)
    BY UserChan DEF LifeBase
  <1>2. HandleL(r, c)
    BY <1>1 DEF LifeBase, LifeInv
  <1>3. QED
    BY <1>2 DEF HandleL, req_can_be_waited

\* The calls leave complete requests complete.
Keeps ==
    /\ \A x \in Reqs : status[x] = "COMPLETE" => status'[x] = "COMPLETE"
    /\ waited' \subseteq waited \union {r \in user : req_can_be_waited(r)}

LEMMA SetKeeps ==
    ASSUME NEW rs, NEW st, SetStatus(rs, st), \A r \in rs : status[r] # "COMPLETE",
           waited' \subseteq waited \union {r \in user : req_can_be_waited(r)}
    PROVE  Keeps
  BY DEF SetStatus, Keeps

LEMMA PreparedKeeps ==
    ASSUME PostPrepared
    PROVE  Keeps
  <1>1. ASSUME NEW r, NEW s,
               \/ mp_send_post_on_stream(r, s) \/ mp_isend_post_on_stream(r, s)
               \/ mp_iput_post_on_stream(r, s)
        PROVE  Keeps
    <2>1. waited' = waited /\ status[r] = "PREPARED"
      BY <1>1 DEF mp_send_post_on_stream, mp_isend_post_on_stream, mp_iput_post_on_stream,
                  PreparedAs, Prepared, OnStream
    <2>2. \E st : SetStatus({r}, st)
      BY <1>1 DEF mp_send_post_on_stream, mp_isend_post_on_stream, mp_iput_post_on_stream
    <2>3. QED
      BY <2>1, <2>2, SetKeeps
  <1>2. ASSUME NEW a, NEW b, NEW s,
               \/ mp_isend_post_all_on_stream(a, b, s) \/ mp_iput_post_all_on_stream(a, b, s)
        PROVE  Keeps
    <2>1. waited' = waited /\ status[a] = "PREPARED" /\ status[b] = "PREPARED"
      BY <1>2 DEF mp_isend_post_all_on_stream, mp_iput_post_all_on_stream, PreparedAs, Prepared, OnStream
    <2>2. SetStatus({a, b}, "PENDING_NOWAIT")
      BY <1>2 DEF mp_isend_post_all_on_stream, mp_iput_post_all_on_stream
    <2>3. QED
      BY <2>1, <2>2, SetKeeps
  <1>3. ASSUME NEW a, NEW b, NEW s, mp_send_post_all_on_stream(a, b, s) PROVE Keeps
    BY <1>3 DEF mp_send_post_all_on_stream, OnStream, Keeps
  <1>4. ASSUME NEW q, NEW s, post_descs(q, s) PROVE Keeps
    BY <1>4 DEF post_descs, Keeps
  <1>5. QED
    BY <1>1, <1>2, <1>3, <1>4 DEF PostPrepared

LEMMA WaitKeeps ==
    ASSUME "rewait" \notin Liberties, CpuWait, ~WaitReturn
    PROVE  Keeps
  <1>0. \A r : Waitable(r) => status[r] # "COMPLETE"
    BY DEF Waitable
  <1>1. ASSUME NEW r, NEW s, mp_wait_on_stream(r, s) PROVE Keeps
    <2>1. waited' = waited /\ status[r] # "COMPLETE" /\ SetStatus({r}, "PENDING")
      BY <1>0, <1>1 DEF mp_wait_on_stream, OnStream
    <2>2. QED
      BY <2>1, SetKeeps
  <1>2. ASSUME NEW a, NEW b, NEW s, mp_wait_all_on_stream(a, b, s) PROVE Keeps
    <2>1. /\ waited' = waited /\ Waitable(a)
          /\ (Waitable(b) /\ SetStatus({a, b}, "PENDING")) \/ SetStatus({a}, "PENDING")
      BY <1>2 DEF mp_wait_all_on_stream, OnStream
    <2>2. CASE Waitable(b) /\ SetStatus({a, b}, "PENDING")
      BY <1>0, <2>1, <2>2, SetKeeps
    <2>3. CASE SetStatus({a}, "PENDING")
      BY <1>0, <2>1, <2>3, SetKeeps
    <2>4. QED
      BY <2>1, <2>2, <2>3
  <1>3. ASSUME NEW q, NEW r, add_send(q, r) \/ add_wait(q, r) PROVE Keeps
    <2>1. /\ waited' = waited /\ status[r] # "COMPLETE"
          /\ SetStatus({r}, "PENDING") \/ SetStatus({r}, "PENDING_NOWAIT")
      BY <1>0, <1>3 DEF add_send, add_wait, Collect, Prepared
    <2>2. QED
      BY <2>1, SetKeeps
  <1>4. ASSUME NEW rs \in SUBSET user, mp_wait_all(rs) PROVE Keeps
    <2>1. waited' \subseteq waited \union {r \in user : req_can_be_waited(r)}
      BY <1>4 DEF mp_wait_all
    <2>2. PICK before : AbortPeeks(before)
      BY <1>4 DEF mp_wait_all
    <2>3. PICK nw : nw = {r \in before : status[r] = "PENDING_NOWAIT"}
      OBVIOUS
    <2>4. SetStatus(nw, "PENDING") /\ \A r \in nw : status[r] # "COMPLETE"
      BY <2>2, <2>3 DEF AbortPeeks
    <2>5. QED
      BY <2>1, <2>4, SetKeeps
  <1>5. CASE WaitGpuError
    BY <1>5 DEF WaitGpuError, Keeps
  <1>6. QED
    BY <1>1, <1>2, <1>3, <1>4, <1>5 DEF CpuWait

LEMMA CallLife ==
    ASSUME LifeBase, CallStep, Keeps
    PROVE  LifeInv' /\ LifeStep
  <1>1. /\ UNCHANGED <<req, user, posted, rung, done, cq, polled>> /\ pc' # "posting"
        /\ StatusMoves /\ \A op : Queued(op)' => Queued(op) \/ op \in HeldOps
    BY DEF CallStep
  <1>2. ASSUME NEW x \in Reqs
        PROVE  /\ status'[x] = "UNDEF" <=> status[x] = "UNDEF"
               /\ req[x].nowait \/ (status'[x] = "COMPLETE" <=> status[x] = "COMPLETE")
    <2>1. x \in user => status[x] # "UNDEF"
      BY DEF LifeBase, Inv, Handles, HandleOK
    <2>2. QED
      BY <1>1, <2>1 DEF StatusMoves, Keeps
  <1>3. ASSUME NEW op, Queued(op)', op.op = "send" PROVE op.index <= posted'[op.chan]
    <2>1. CASE Queued(op)
      BY <1>1, <1>3, <2>1 DEF LifeBase, LifeInv, Marks
    <2>2. CASE op \in HeldOps
      <3>1. PICK r \in user : op = SendOf(r)
        BY <1>3, <2>2 DEF HeldOps, WaitOf, WaitOp
      <3>2. PICK c \in Channels : c = Chan(r)
        BY UserChan DEF LifeBase
      <3>3. HandleL(r, c)
        BY DEF LifeBase, LifeInv
      <3>4. op.index = req[r].wqe /\ op.chan = c
        BY <3>1, <3>2 DEF SendOf, SendOp
      <3>5. QED
        BY <1>1, <3>2, <3>3, <3>4 DEF HandleL
    <2>3. QED
      BY <1>1, <1>3, <2>1, <2>2
  <1>4. Marks'
    BY <1>1, <1>3 DEF Marks, LifeBase, LifeInv
  <1>5. \A r \in waited' : ~req[r].nowait
    BY WaitableSignaled DEF Keeps, LifeBase, LifeInv
  <1>6. QuietStep
    BY <1>1, <1>2, <1>4, <1>5 DEF QuietStep
  <1>7. QED
    BY <1>6, QuietLife

LEMMA GpuLife ==
    ASSUME LifeBase, NEW s \in Streams, GpuStep(s)
    PROVE  LifeInv' /\ LifeStep
  <1>1. PICK op \in Op : op = Head(stream[s]) /\ Queued(op)
    BY DEF GpuStep
  <1>2. /\ UNCHANGED <<status, req, user, posted, done, cq, polled, pc, waited, post>>
        /\ \A x : Queued(x)' => Queued(x)
        /\ \/ /\ op.op = "send"
              /\ rung' = [rung EXCEPT ![op.chan] = IF @ < op.index THEN op.index ELSE @]
           \/ rung' = rung
    BY <1>1 DEF GpuStep
  <1>3. op.chan \in Channels /\ op.index \in Nat
    BY DEF Op
  <1>4. Marks /\ TypeOK /\ \A r \in waited : ~req[r].nowait
    BY DEF LifeBase, LifeInv
  <1>5. op.op = "send" => op.index <= posted[op.chan]
    BY <1>1, <1>4 DEF Marks
  <1>6. ASSUME NEW c \in Channels PROVE done'[c] <= rung'[c] /\ rung'[c] <= posted'[c]
    <2>1. /\ done[c] \in Nat /\ rung[c] \in Nat /\ posted[c] \in Nat
          /\ done[c] <= rung[c] /\ rung[c] <= posted[c]
      BY <1>4 DEF Marks, TypeOK
    <2>2. /\ rung'[c] = rung[c]
             \/ (op.op = "send" /\ c = op.chan /\ rung'[c] = op.index /\ rung[c] < op.index)
      BY <1>2, <1>4 DEF TypeOK
    <2>3. QED
      BY <1>2, <1>3, <1>5, <2>1, <2>2
  <1>7. Marks'
    BY <1>2, <1>4, <1>6 DEF Marks
  <1>8. QuietStep
    BY <1>2, <1>4, <1>7 DEF QuietStep
  <1>9. QED
    BY <1>8, QuietLife

\* The HCA executes the next work request; at most one request is signaled by it.
LEMMA ExecuteLife ==
    ASSUME LifeBase, NEW c \in Channels, HcaExecute(c)
    PROVE  LifeInv' /\ LifeStep
  <1>0. TypeOK /\ LifeInv /\ Marks /\ Entries(c)
    BY DEF LifeBase, LifeInv
  <1>1. /\ UNCHANGED <<status, req, user, posted, rung, cq, polled, peek, stream, descs, pc, waited, post>>
        /\ done' = [done EXCEPT ![c] = @ + 1] /\ done[c] < rung[c]
    BY DEF HcaExecute
  <1>2. PICK n \in Nat : n = done[c] + 1
    BY <1>0 DEF TypeOK
  <1>3. /\ done[c] \in Nat /\ rung[c] \in Nat /\ done'[c] = n
        /\ \A d \in Channels \ {c} : done'[d] = done[d]
    BY <1>0, <1>1, <1>2 DEF TypeOK
  <1>4. \A d : ToPoll(d)' = ToPoll(d)
    BY <1>1 DEF ToPoll
  <1>5. /\ \A d, x : Own(d, x)' = Own(d, x)
        /\ \A x : Chan(x)' = Chan(x)
        /\ \A op : Queued(op)' = Queued(op)
    BY <1>1, <1>4 DEF Own, Chan, Queued
  <1>6. Marks'
    <2>1. n <= rung[c]
      BY <1>1, <1>2, <1>3
    <2>2. \A d \in Channels : done'[d] <= rung'[d] /\ rung'[d] <= posted'[d]
      BY <1>0, <1>1, <1>3, <2>1 DEF Marks
    <2>3. QED
      BY <1>0, <1>1, <1>5, <2>2 DEF Marks
  <1>7. LifeInv'
    <2>1. /\ \A d \in Channels : Entries(d)'
          /\ \A x \in Reqs, d \in Channels : Tracked(x, d)'
          /\ \A x \in user', d \in Channels : HandleL(x, d)'
      BY <1>0, <1>1, <1>4, <1>5 DEF LifeInv, Entries, Tracked, HandleL
    <2>2. QED
      BY <1>0, <1>1, <1>6, <2>1 DEF LifeInv
  <1> DEFINE Due(x) == /\ status[x] # "UNDEF" /\ req[x].wqe = n /\ ~req[x].nowait
                       /\ c = Chan(x) /\ Own(c, x) # {}
  <1>8. ASSUME NEW x \in Reqs, ~Due(x) PROVE LifeSame(x)
    <2>1. ASSUME NEW d \in Channels, d = Chan(x), status[x] # "UNDEF", req[x].wqe # 0, ~req[x].nowait,
                 Own(d, x) # {}
          PROVE  req[x].wqe <= done'[d] <=> req[x].wqe <= done[d]
      <3>1. CASE d = c
        <4>1. req[x].wqe # n /\ req[x].wqe \in Nat
          BY <1>0, <1>8, <2>1, <3>1 DEF TypeOK, ReqFields
        <4>2. QED
          BY <1>2, <1>3, <3>1, <4>1
      <3>2. QED
        BY <1>3, <3>1
    <2>2. QED
      BY <1>0, <1>1, <1>5, <2>1, SameLife
  <1>9. CASE \A x \in Reqs : ~Due(x)
    BY <1>7, <1>8, <1>9, LifeStutter
  <1>10. ASSUME NEW r \in Reqs, Due(r) PROVE LifeStep
    <2>1. ASSUME NEW x \in Reqs, x # r PROVE ~Due(x)
      <3> SUFFICES ASSUME Due(x) PROVE FALSE
        OBVIOUS
      <3>1. PICK j \in Own(c, r), k \in Own(c, x) : TRUE
        BY <1>10
      <3>2. j \in ToPoll(c) /\ k \in ToPoll(c) /\ cq[c][j].req = r /\ cq[c][k].req = x
        BY DEF Own
      <3>3. cq[c][j].wqe = n /\ cq[c][k].wqe = n
        BY <1>0, <1>10, <3>2 DEF Entries
      <3>4. j \in DOMAIN cq[c] /\ k \in DOMAIN cq[c] /\ j \in Nat /\ k \in Nat
        <4>1. TypeOK /\ Inv /\ cq[c] \in Seq([wqe : Nat, req : Reqs])
          BY DEF LifeBase, TypeOK
        <4>2. j \in DOMAIN cq[c] /\ k \in DOMAIN cq[c]
          BY <3>2, <4>1, ToPollGuard
        <4>3. QED
          BY <4>1, <4>2
      <3>5. j = k
        <4>1. ~(j < k) /\ ~(k < j)
          BY <1>0, <3>3, <3>4 DEF Entries
        <4>2. QED
          BY <3>4, <4>1
      <3>6. QED
        BY <2>1, <3>2, <3>5
    <2>2. n # 0 /\ ~(n <= done[c]) /\ n <= done'[c]
      BY <1>2, <1>3
    <2>3. LifeOf(r) = "active"
      BY <1>10, <2>2, LifeIs
    <2>4. LifeOf(r)' = "executed"
      BY <1>1, <1>5, <1>10, <2>2, LifeIsNext
    <2>5. QED
      BY <1>8, <2>1, <2>3, <2>4, LifeMove
  <1>11. QED
    BY <1>7, <1>9, <1>10

\* The poll completes the request whose completion comes next.
LEMMA PollLife ==
    ASSUME LifeBase, NEW c \in Channels, mp_progress_single_flow(c)
    PROVE  LifeInv' /\ LifeStep
  <1>0. TypeOK /\ Inv /\ LifeInv /\ Marks /\ Entries(c) /\ pc' # "exited"
    BY DEF LifeBase, LifeInv, Inv
  <1>1. PICK k : k = polled[c] + 1
    OBVIOUS
  <1>2. PICK r : r = cq[c][k].req
    OBVIOUS
  <1>3. /\ UNCHANGED <<req, user, posted, rung, done, cq, peek, stream, descs, waited, post, pc>>
        /\ polled' = [polled EXCEPT ![c] = k] /\ Pollable(c) /\ SetStatus({r}, "COMPLETE")
    BY <1>0, <1>1, <1>2 DEF mp_progress_single_flow
  <1>4. /\ polled[c] \in Nat /\ Len(cq[c]) \in Nat /\ DOMAIN cq[c] = 1..Len(cq[c])
        /\ \A j \in DOMAIN cq[c] : cq[c][j].req \in Reqs
    <2>1. PICK C \in Seq([wqe : Nat, req : Reqs]) : C = cq[c]
      BY <1>0 DEF TypeOK
    <2>2. Len(C) \in Nat /\ DOMAIN C = 1..Len(C) /\ \A j \in DOMAIN C : C[j].req \in Reqs
      <3>1. \A j \in DOMAIN C : C[j] \in [wqe : Nat, req : Reqs]
        BY SeqElem
      <3>2. QED
        BY <3>1
    <2>3. polled[c] \in Nat
      BY <1>0 DEF TypeOK
    <2>4. QED
      BY <2>1, <2>2, <2>3
  <1>5. k \in ToPoll(c) /\ k \in DOMAIN cq[c] /\ cq[c][k].wqe <= done[c]
    <2>1. polled[c] < Len(cq[c]) /\ cq[c][k].wqe <= done[c]
      BY <1>1, <1>3 DEF Pollable
    <2>2. k \in (polled[c] + 1)..Len(cq[c]) /\ k \in 1..Len(cq[c])
      BY <1>1, <1>4, <2>1
    <2>3. QED
      BY <1>4, <2>1, <2>2 DEF ToPoll
  <1>6. r \in Reqs
    BY <1>2, <1>4, <1>5
  <1>7. /\ polled'[c] = k /\ \A d \in Channels \ {c} : polled'[d] = polled[d]
    BY <1>0, <1>3 DEF TypeOK
  <1>8. ToPoll(c)' = ToPoll(c) \ {k} /\ \A d \in Channels \ {c} : ToPoll(d)' = ToPoll(d)
    BY <1>1, <1>3, <1>4, <1>7 DEF ToPoll
  <1>9. /\ status'[r] = "COMPLETE" /\ \A x \in Reqs \ {r} : status'[x] = status[x]
        /\ \A x : Chan(x)' = Chan(x)
        /\ \A op : Queued(op)' = Queued(op)
    BY <1>3, <1>6 DEF SetStatus, Chan, Queued
  <1>10. \A d \in Channels, x \in Reqs : x # r => Own(d, x)' = Own(d, x)
    BY <1>2, <1>3, <1>8 DEF Own
  <1>11. LifeInv'
    <2>1. /\ \A d \in Channels : Entries(d)'
      BY <1>0, <1>3, <1>8 DEF LifeInv, Entries
    <2>2. \A x \in Reqs, d \in Channels : Tracked(x, d)'
      BY <1>0, <1>3, <1>9, <1>10 DEF LifeInv, Tracked
    <2>3. \A x \in user', d \in Channels : HandleL(x, d)'
      BY <1>0, <1>3, <1>9 DEF LifeInv, HandleL
    <2>4. Marks'
      BY <1>0, <1>3, <1>9 DEF Marks
    <2>5. QED
      BY <1>0, <1>3, <2>1, <2>2, <2>3, <2>4 DEF LifeInv
  <1>12. ASSUME NEW x \in Reqs, x # r PROVE LifeSame(x)
    BY <1>0, <1>3, <1>9, <1>10, <1>12, SameLife
  <1>13. status[r] # "UNDEF" /\ Chan(r) = c /\ ~req[r].nowait
    BY <1>0, <1>2, <1>5 DEF Inv, Owners, OwnerOK, Pending
  <1>14. req[r].wqe = cq[c][k].wqe /\ req[r].wqe # 0 /\ req[r].wqe <= done[c]
    BY <1>0, <1>2, <1>4, <1>5 DEF Entries
  <1>15. k \in Own(c, r) /\ Own(c, r)' = {}
    <2>1. \A j \in Own(c, r) : j = k
      BY <1>0, <1>2, <1>5 DEF Inv, OneEach, Own
    <2>2. QED
      BY <1>2, <1>3, <1>5, <1>8, <2>1 DEF Own
  <1>16. LifeOf(r) = "executed"
    BY <1>13, <1>14, <1>15, LifeIs
  <1>17. LifeOf(r)' = "complete"
    BY <1>3, <1>9, <1>13, <1>14, <1>15, LifeIsNext
  <1>18. QED
    BY <1>6, <1>11, <1>12, <1>16, <1>17, LifeMove

\* mp_wait_all returns: what it waited for is complete and signaled.
LEMMA ReturnLife ==
    ASSUME LifeBase, WaitReturn
    PROVE  LifeInv' /\ LifeStep
  <1>0. TypeOK /\ Inv /\ LifeInv /\ Marks /\ waited \subseteq user /\ user \subseteq Reqs
    BY DEF LifeBase, LifeInv, Inv, TypeOK
  <1>1. /\ UNCHANGED <<posted, rung, done, cq, polled, peek, stream, descs, post>>
        /\ pc' = "idle" /\ waited' = {} /\ user' = user \ waited
        /\ \A x \in waited : status[x] = "COMPLETE" /\ status'[x] = "UNDEF"
        /\ \A x \in Reqs \ waited : status'[x] = status[x] /\ req'[x] = req[x]
    BY <1>0 DEF WaitReturn, Release
  <1>2. /\ \A d : ToPoll(d)' = ToPoll(d)
        /\ \A op : Queued(op)' = Queued(op)
    BY <1>1 DEF ToPoll, Queued
  <1>3. \A d, x : Own(d, x)' = Own(d, x)
    BY <1>1, <1>2 DEF Own
  <1>4. ASSUME NEW d \in Channels, NEW k \in ToPoll(d)
        PROVE  cq[d][k].req \in Reqs \ waited
    <2>1. cq[d][k].req \in Reqs
      BY <1>0, OwnerIsReq
    <2>2. status[cq[d][k].req] # "COMPLETE"
      BY <1>0 DEF Inv, Owners, OwnerOK, Pending
    <2>3. QED
      BY <1>1, <2>1, <2>2
  <1>5. \A x \in Reqs \ waited : Chan(x)' = Chan(x)
    BY <1>1 DEF Chan
  <1>6. LifeInv'
    <2>1. \A d \in Channels : Entries(d)'
      BY <1>0, <1>1, <1>2, <1>4 DEF LifeInv, Entries
    <2>2. \A x \in Reqs, d \in Channels : Tracked(x, d)'
      BY <1>0, <1>1, <1>3, <1>5 DEF LifeInv, Tracked
    <2>3. \A x \in user', d \in Channels : HandleL(x, d)'
      BY <1>0, <1>1, <1>5 DEF LifeInv, HandleL
    <2>4. Marks'
      BY <1>0, <1>1, <1>2 DEF Marks
    <2>5. QED
      BY <1>1, <2>1, <2>2, <2>3, <2>4 DEF LifeInv
  <1>7. ASSUME NEW x \in Reqs \ waited PROVE LifeSame(x)
    BY <1>0, <1>1, <1>3, SameLife
  <1>8. ASSUME NEW x \in waited PROVE LifeOf(x) = "complete" /\ LifeOf(x)' = "free"
    <2>1. PICK d \in Channels : d = Chan(x)
      BY <1>0, UserChan
    <2>2. status[x] = "COMPLETE" /\ HandleL(x, d) /\ ~req[x].nowait
      BY <1>0, <1>1 DEF LifeInv
    <2>3. Own(d, x) = {}
      BY <1>4 DEF Own
    <2>4. LifeOf(x)' = "free"
      BY <1>1 DEF LifeOf
    <2>5. QED
      BY <2>1, <2>2, <2>3, <2>4, LifeIs DEF HandleL
  <1>9. [x \in Reqs |-> LifeOf(x)]' =
           [x \in Reqs |-> IF x \in waited THEN "free" ELSE [y \in Reqs |-> LifeOf(y)][x]]
    BY <1>7, <1>8 DEF LifeSame
  <1>10. Life!Retire(waited)
    BY <1>0, <1>8, <1>9 DEF Life!Retire
  <1>11. QED
    BY <1>0, <1>6, <1>10 DEF LifeStep, Life!Next

\* A signaled work request appends its completion to its channel.
Appended(r, c, n, w) ==
    /\ \A d \in Channels \ {c} : cq'[d] = cq[d] /\ ToPoll(d)' = ToPoll(d)
    /\ ToPoll(c)' = ToPoll(c) \union {w} /\ w \notin ToPoll(c)
    /\ DOMAIN cq'[c] = DOMAIN cq[c] \union {w} /\ w \notin DOMAIN cq[c]
    /\ \A k \in DOMAIN cq[c] : k \in Nat /\ k < w /\ cq'[c][k] = cq[c][k]
    /\ cq'[c][w] = [wqe |-> n, req |-> r]

LEMMA PostAppends ==
    ASSUME TypeOK, Inv, NEW r \in Reqs, NEW p, NEW s, NEW how, NEW c \in Channels,
           NEW n \in Nat, NEW w \in Nat, ~how.nowait, w = Len(peek[c]) + 1,
           PostStep(r, p, s, how, c, n, w)
    PROVE  Appended(r, c, n, w)
  <1>1. PICK e \in [wqe : Nat, req : Reqs] : e = [wqe |-> n, req |-> r]
    OBVIOUS
  <1>2. PICK g \in {"busy", "none"} : cq' = Append1(cq, c, e) /\ peek' = Append1(peek, c, g)
    BY <1>1 DEF PostStep, Posted
  <1>3. Len(peek[c]) = Len(cq[c]) /\ polled[c] <= Len(cq[c]) /\ polled[c] \in Nat
    BY DEF Inv, Aligned, TypeOK
  <1>4. /\ \A d \in Channels \ {c} : cq'[d] = cq[d]
        /\ Len(cq[c]) \in Nat /\ w = Len(cq[c]) + 1
        /\ Len(cq'[c]) = w /\ cq'[c][w] = e
        /\ \A k \in DOMAIN cq[c] : cq'[c][k] = cq[c][k]
    BY <1>2, <1>3, Grow
  <1>5. /\ DOMAIN cq[c] = 1..Len(cq[c]) /\ DOMAIN cq'[c] = 1..Len(cq'[c])
    <2>1. PICK C \in Seq([wqe : Nat, req : Reqs]) : C = cq[c]
      BY DEF TypeOK
    <2>2. cq'[c] = Append(C, e)
      BY <1>2, <2>1 DEF Append1, TypeOK
    <2>3. QED
      BY <2>1, <2>2
  <1>6. /\ DOMAIN cq'[c] = DOMAIN cq[c] \union {w} /\ w \notin DOMAIN cq[c]
        /\ \A k \in DOMAIN cq[c] : k \in Nat /\ k < w
    BY <1>4, <1>5
  <1>7. polled' = polled
    BY DEF PostStep
  <1>8. ToPoll(c)' = ToPoll(c) \union {w} /\ w \notin ToPoll(c)
    BY <1>3, <1>4, <1>7 DEF ToPoll
  <1>9. \A d \in Channels \ {c} : ToPoll(d)' = ToPoll(d)
    BY <1>4, <1>7 DEF ToPoll
  <1>10. QED
    BY <1>1, <1>4, <1>6, <1>8, <1>9 DEF Appended

\* What a posting step leaves in its request, in safe use.
NowPosted(r, how, c, n) ==
    /\ status'[r] # "UNDEF" /\ c = Chan(r)'
    /\ req'[r].wqe = n /\ (req'[r].nowait <=> how.nowait) /\ req'[r].type = how.type
    /\ user' \subseteq user \union {r}

LEMMA PostLeaves ==
    ASSUME NEW r \in Reqs, NEW p, NEW s, NEW how, GoodHow(how), NEW c, NEW n, NEW w,
           c = Target(p, how), PostStep(r, p, s, how, c, n, w)
    PROVE  NowPosted(r, how, c, n)
  <1>1. how \in How /\ ("prepare_wait" \in Faults /\ ~how.nowait => ~how.undo)
    BY DEF GoodHow, Regular
  <1>2. how.state # "UNDEF" /\ how.after # "UNDEF"
    BY <1>1 DEF How
  <1>3. /\ status'[r] \in {how.state, how.after} /\ \E v : req'[r] = NewReq(p, how, n, v)
        /\ user' \subseteq user \union {r}
    BY <1>1 DEF PostStep, Posted
  <1>4. PICK v : req'[r] = NewReq(p, how, n, v)
    BY <1>3
  <1>5. /\ req'[r].wqe = n /\ (req'[r].nowait <=> how.nowait) /\ req'[r].type = how.type
        /\ req'[r].peer = p
    BY <1>4 DEF NewReq
  <1>6. c = Chan(r)'
    BY <1>5 DEF Chan, Target
  <1>7. QED
    BY <1>2, <1>3, <1>5, <1>6 DEF NowPosted

\* How the completions still to come change when r's work request is posted.
LEMMA PostOwn ==
    ASSUME TypeOK, Inv, NEW r \in Reqs, NEW p, NEW s, NEW how, NEW c \in Channels,
           NEW n \in Nat, NEW w \in Nat, w = Len(peek[c]) + 1, PostStep(r, p, s, how, c, n, w)
    PROVE  /\ \A d \in Channels, x \in Reqs : x # r => Own(d, x)' = Own(d, x)
           /\ ~how.nowait => Own(c, r)' # {}
  <1>1. CASE how.nowait
    <2>1. UNCHANGED <<cq, polled>>
      BY <1>1 DEF PostStep, Posted
    <2>2. \A d : ToPoll(d)' = ToPoll(d)
      BY <2>1 DEF ToPoll
    <2>3. QED
      BY <1>1, <2>1, <2>2 DEF Own
  <1>2. CASE ~how.nowait
    <2>1. Appended(r, c, n, w)
      BY <1>2, PostAppends
    <2>2. w \in Own(c, r)'
      BY <2>1 DEF Appended, Own
    <2>3. ASSUME NEW x \in Reqs, x # r PROVE Own(c, x)' = Own(c, x)
      <3>1. \A k \in ToPoll(c) : k \in DOMAIN cq[c] /\ cq'[c][k] = cq[c][k]
        BY <2>1, ToPollGuard DEF Appended
      <3>2. cq'[c][w].req = r /\ ToPoll(c)' = ToPoll(c) \union {w}
        BY <2>1 DEF Appended
      <3>3. QED
        BY <2>3, <3>1, <3>2 DEF Own
    <2>4. \A d \in Channels \ {c}, x \in Reqs : Own(d, x)' = Own(d, x)
      BY <2>1 DEF Appended, Own
    <2>5. QED
      BY <2>2, <2>3, <2>4
  <1>3. QED
    BY <1>1, <1>2

LEMMA PostEntries ==
    ASSUME TypeOK, Inv, LifeInv, NEW r \in Reqs, NEW p, NEW s, NEW how, NEW c \in Channels,
           NEW n \in Nat, NEW w \in Nat, n = posted[c] + 1, w = Len(peek[c]) + 1,
           PostStep(r, p, s, how, c, n, w), Fresh(r), NowPosted(r, how, c, n)
    PROVE  \A d \in Channels : Entries(d)'
  <1>0. /\ \A x \in Reqs \ {r} : req'[x] = req[x]
        /\ posted' = [posted EXCEPT ![c] = n] /\ polled' = polled
    BY DEF PostStep
  <1>1. /\ posted[c] \in Nat /\ posted'[c] = n
        /\ \A d \in Channels \ {c} : posted'[d] = posted[d]
    BY <1>0 DEF TypeOK
  <1>2. \A d \in Channels : \A k \in ToPoll(d) :
           k \in DOMAIN cq[d] /\ req'[cq[d][k].req].wqe = cq[d][k].wqe
    <2> SUFFICES ASSUME NEW d \in Channels, NEW k \in ToPoll(d)
                 PROVE  k \in DOMAIN cq[d] /\ req'[cq[d][k].req].wqe = cq[d][k].wqe
      OBVIOUS
    <2>1. k \in DOMAIN cq[d] /\ cq[d][k].req \in Reqs \ {r}
      BY ToPollGuard, OwnerIsReq DEF Fresh
    <2>2. req[cq[d][k].req].wqe = cq[d][k].wqe
      BY DEF LifeInv, Entries
    <2>3. QED
      BY <1>0, <2>1, <2>2
  <1>3. \A k \in DOMAIN cq[c] : cq[c][k].wqe \in Nat
    <2>1. PICK C \in Seq([wqe : Nat, req : Reqs]) : C = cq[c]
      BY DEF TypeOK
    <2>2. \A k \in DOMAIN C : C[k] \in [wqe : Nat, req : Reqs]
      BY SeqElem
    <2>3. QED
      BY <2>1, <2>2
  <1>4. /\ \A k \in DOMAIN cq[c] : 0 < cq[c][k].wqe /\ cq[c][k].wqe <= posted[c]
        /\ \A j, k \in DOMAIN cq[c] : j < k => cq[c][j].wqe < cq[c][k].wqe
    BY DEF LifeInv, Entries
  <1>5. \A k \in DOMAIN cq[c] : 0 < cq[c][k].wqe /\ cq[c][k].wqe < n /\ cq[c][k].wqe <= n
    BY <1>1, <1>3, <1>4
  <1>6. CASE how.nowait
    <2>1. cq' = cq
      BY <1>6 DEF PostStep, Posted
    <2>2. \A d : ToPoll(d)' = ToPoll(d)
      BY <1>0, <2>1 DEF ToPoll
    <2>3. Entries(c)'
      BY <1>1, <1>2, <1>4, <1>5, <2>1, <2>2 DEF Entries
    <2>4. \A d \in Channels \ {c} : Entries(d)'
      BY <1>1, <1>2, <2>1, <2>2 DEF LifeInv, Entries
    <2>5. QED
      BY <2>3, <2>4
  <1>7. CASE ~how.nowait
    <2>1. Appended(r, c, n, w)
      BY <1>7, PostAppends
    <2>2. \A d \in Channels \ {c} : Entries(d)'
      BY <1>1, <1>2, <2>1 DEF Appended, LifeInv, Entries
    <2>3. \A k \in DOMAIN cq'[c] : 0 < cq'[c][k].wqe /\ cq'[c][k].wqe <= n
      BY <1>1, <1>5, <2>1 DEF Appended
    <2>4. \A j, k \in DOMAIN cq'[c] : j < k => cq'[c][j].wqe < cq'[c][k].wqe
      <3> SUFFICES ASSUME NEW j \in DOMAIN cq'[c], NEW k \in DOMAIN cq'[c], j < k
                   PROVE  cq'[c][j].wqe < cq'[c][k].wqe
        OBVIOUS
      <3>1. \A i \in DOMAIN cq[c] : i \in Nat /\ i < w /\ cq'[c][i] = cq[c][i]
        BY <2>1 DEF Appended
      <3>2. cq'[c][w].wqe = n /\ j \in DOMAIN cq[c] \union {w} /\ k \in DOMAIN cq[c] \union {w}
        BY <2>1 DEF Appended
      <3>3. j \in DOMAIN cq[c]
        BY <3>1, <3>2
      <3>4. CASE k = w
        BY <1>5, <3>1, <3>2, <3>3, <3>4
      <3>5. CASE k \in DOMAIN cq[c]
        BY <1>4, <3>1, <3>3, <3>5
      <3>6. QED
        BY <3>2, <3>4, <3>5
    <2>5. \A k \in ToPoll(c)' : req'[cq'[c][k].req].wqe = cq'[c][k].wqe
      <3>1. /\ ToPoll(c)' = ToPoll(c) \union {w} /\ cq'[c][w] = [wqe |-> n, req |-> r]
            /\ \A k \in DOMAIN cq[c] : cq'[c][k] = cq[c][k]
        BY <2>1 DEF Appended
      <3>2. req'[r].wqe = n
        BY DEF NowPosted
      <3>3. QED
        BY <1>2, <3>1, <3>2
    <2>6. Entries(c)'
      BY <1>1, <2>3, <2>4, <2>5 DEF Entries
    <2>7. QED
      BY <2>2, <2>6
  <1>8. QED
    BY <1>6, <1>7

\* Posting a work request takes its request from free or created to active.
LEMMA PostLife ==
    ASSUME LifeBase, NEW r \in Reqs, NEW p, NEW s, NEW how, GoodHow(how), NEW c \in Channels,
           NEW n \in Nat, NEW w \in Nat, c = Target(p, how), n = posted[c] + 1, w = Len(peek[c]) + 1,
           PostStep(r, p, s, how, c, n, w), Fresh(r), status[r] = "UNDEF" \/ req[r].wqe = 0
    PROVE  LifeInv' /\ LifeStep
  <1>0. TypeOK /\ Inv /\ LifeInv /\ Marks
    BY DEF LifeBase, LifeInv
  <1>1. /\ \A x \in Reqs \ {r} : status'[x] = status[x] /\ req'[x] = req[x]
        /\ pc' = "idle" /\ UNCHANGED <<done, polled, descs, waited>>
        /\ posted' = [posted EXCEPT ![c] = n]
        /\ rung' = IF how.ring = "cpu" THEN [rung EXCEPT ![c] = n] ELSE rung
    BY DEF PostStep
  <1>2. NowPosted(r, how, c, n)
    BY PostLeaves
  <1>3. /\ \A d \in Channels : done[d] \in Nat /\ rung[d] \in Nat /\ posted[d] \in Nat
        /\ \A d \in Channels : done[d] <= rung[d] /\ rung[d] <= posted[d]
    BY <1>0 DEF TypeOK, Marks
  <1>4. posted'[c] = n /\ \A d \in Channels \ {c} : posted'[d] = posted[d] /\ rung'[d] = rung[d]
    BY <1>0, <1>1 DEF TypeOK
  <1>5. rung'[c] \in {rung[c], n}
    BY <1>0, <1>1 DEF TypeOK
  <1>6. \A d \in Channels : posted[d] <= posted'[d]
    BY <1>3, <1>4
  <1>7. /\ \A d \in Channels, x \in Reqs : x # r => Own(d, x)' = Own(d, x)
        /\ ~how.nowait => Own(c, r)' # {}
    BY <1>0, PostOwn
  <1>8. \A x \in Reqs \ {r} : Chan(x)' = Chan(x)
    BY <1>1 DEF Chan
  <1>9. Marks'
    <2>1. \A d \in Channels : done'[d] <= rung'[d] /\ rung'[d] <= posted'[d]
      BY <1>1, <1>3, <1>4, <1>5
    <2>2. ASSUME NEW op, Queued(op)', op.op = "send" PROVE op.index <= posted'[op.chan]
      <3>1. CASE Queued(op)
        <4>1. op \in Op
          BY <1>0, <3>1, QueuedIsOp
        <4>2. op.chan \in Channels /\ op.index \in Nat /\ op.index <= posted[op.chan]
          BY <1>0, <2>2, <3>1, <4>1 DEF Op, Marks
        <4>3. posted[op.chan] \in Nat /\ posted'[op.chan] \in Nat /\ posted[op.chan] <= posted'[op.chan]
          BY <1>3, <1>4, <1>6, <4>2
        <4>4. QED
          BY <4>2, <4>3
      <3>2. CASE op = SendOp(r, c, n)
        <4>1. op.chan = c /\ op.index = n
          BY <3>2 DEF SendOp
        <4>2. QED
          BY <1>4, <4>1
      <3>3. op # WaitOp(r, c, w)
        BY <2>2 DEF WaitOp
      <3>4. QED
        BY <1>0, <2>2, <3>1, <3>2, <3>3, PostQueued
    <2>3. QED
      BY <2>1, <2>2 DEF Marks
  <1>10. \A d \in Channels : Entries(d)'
    BY <1>0, <1>2, PostEntries
  <1>11. ASSUME NEW x \in Reqs, NEW d \in Channels PROVE Tracked(x, d)'
    <2>1. CASE x = r
      BY <1>2, <1>7, <2>1 DEF Tracked, NowPosted
    <2>2. CASE x # r
      <3>1. Tracked(x, d)
        BY <1>0 DEF LifeInv
      <3>2. QED
        BY <1>1, <1>7, <1>8, <2>2, <3>1 DEF Tracked
    <2>3. QED
      BY <2>1, <2>2
  <1>12. ASSUME NEW x \in user', NEW d \in Channels PROVE HandleL(x, d)'
    <2>1. CASE x = r
      <3>1. how \in How /\ (how.nowait => how.type = "RDMA")
        BY DEF GoodHow, Regular
      <3>2. how.type = "RECV" => ~how.nowait
        BY <3>1
      <3>3. n # 0
        BY <1>3
      <3>4. QED
        BY <1>2, <1>3, <1>4, <2>1, <3>2, <3>3 DEF NowPosted, HandleL
    <2>2. CASE x # r
      <3>1. x \in user /\ x \in Reqs \ {r}
        BY <1>0, <1>2, <2>2 DEF NowPosted, TypeOK
      <3>2. HandleL(x, d)
        BY <1>0, <3>1 DEF LifeInv
      <3>3. req[x].wqe \in Nat /\ req'[x] = req[x] /\ Chan(x)' = Chan(x)
        BY <1>0, <1>1, <1>8, <3>1 DEF TypeOK, ReqFields
      <3>4. posted[d] \in Nat /\ posted'[d] \in Nat /\ posted[d] <= posted'[d]
        BY <1>3, <1>4, <1>6
      <3>5. QED
        BY <3>2, <3>3, <3>4 DEF HandleL
    <2>3. QED
      BY <2>1, <2>2
  <1>13. \A x \in waited' : ~req'[x].nowait
    <2>1. waited \subseteq user /\ r \notin user /\ user \subseteq Reqs
      BY <1>0 DEF Inv, Fresh, TypeOK
    <2>2. QED
      BY <1>0, <1>1, <2>1 DEF LifeInv
  <1>14. LifeInv'
    BY <1>1, <1>9, <1>10, <1>11, <1>12, <1>13 DEF LifeInv
  <1>15. ASSUME NEW x \in Reqs, x # r PROVE LifeSame(x)
    <2>1. status'[x] = status[x] /\ req'[x] = req[x] /\ done' = done
      BY <1>1, <1>15
    <2>2. \A d \in Channels : Own(d, x)' = Own(d, x)
      BY <1>7, <1>15
    <2>3. QED
      BY <1>0, <2>1, <2>2, SameLife
  <1>16. LifeOf(r) \in {"free", "created"}
    BY DEF LifeOf
  <1>17. LifeOf(r)' \in {"active", "unsignaled"}
    <2>1. n # 0 /\ ~(n <= done'[c])
      BY <1>1, <1>3
    <2>2. /\ status'[r] # "UNDEF" /\ req'[r].wqe = n /\ (req'[r].nowait <=> how.nowait) /\ c = Chan(r)'
      BY <1>2 DEF NowPosted
    <2>3. CASE how.nowait
      BY <2>1, <2>2, <2>3, LifeIsNext
    <2>4. CASE ~how.nowait
      BY <1>7, <2>1, <2>2, <2>4, LifeIsNext
    <2>5. QED
      BY <2>3, <2>4
  <1>18. QED
    BY <1>14, <1>15, <1>16, <1>17, LifeMove

\* A step in which a request that has no work request is created, kept or given back.
EmptyStep(r) ==
    /\ UNCHANGED <<user, posted, rung, done, cq, polled, stream, descs, waited>>
    /\ \A x \in Reqs \ {r} : status'[x] = status[x] /\ req'[x] = req[x]
    /\ req'[r].wqe = 0
    /\ pc' = "posting" => post'.req = r

LEMMA EmptyLife ==
    ASSUME LifeBase, NEW r \in Reqs, EmptyStep(r), Fresh(r), status[r] = "UNDEF" \/ req[r].wqe = 0
    PROVE  LifeInv' /\ LifeStep
  <1>0. TypeOK /\ Inv /\ LifeInv /\ Marks
    BY DEF LifeBase, LifeInv
  <1>1. /\ UNCHANGED <<user, posted, rung, done, cq, polled, stream, descs, waited>>
        /\ \A x \in Reqs \ {r} : status'[x] = status[x] /\ req'[x] = req[x]
        /\ req'[r].wqe = 0
        /\ pc' = "posting" => post'.req = r
    BY DEF EmptyStep
  <1>2. /\ \A d : ToPoll(d)' = ToPoll(d)
        /\ \A op : Queued(op)' = Queued(op)
        /\ \A x \in Reqs \ {r} : Chan(x)' = Chan(x)
    BY <1>1 DEF ToPoll, Queued, Chan
  <1>3. \A d, x : Own(d, x)' = Own(d, x)
    BY <1>1, <1>2 DEF Own
  <1>4. \A d \in Channels : \A k \in ToPoll(d) : cq[d][k].req \in Reqs \ {r}
    BY <1>0, OwnerIsReq DEF Fresh
  <1>5. waited \subseteq user /\ r \notin user /\ user \subseteq Reqs
    BY <1>0 DEF Inv, Fresh, TypeOK
  <1>6. LifeInv'
    <2>1. \A d \in Channels : Entries(d)'
      BY <1>0, <1>1, <1>2, <1>4 DEF LifeInv, Entries
    <2>2. \A x \in Reqs, d \in Channels : Tracked(x, d)'
      BY <1>0, <1>1, <1>2, <1>3 DEF LifeInv, Tracked
    <2>3. \A x \in user', d \in Channels : HandleL(x, d)'
      BY <1>0, <1>1, <1>2, <1>5 DEF LifeInv, HandleL
    <2>4. Marks'
      BY <1>0, <1>1, <1>2 DEF Marks
    <2>5. \A x \in waited' : ~req'[x].nowait
      BY <1>0, <1>1, <1>5 DEF LifeInv
    <2>6. QED
      BY <1>1, <2>1, <2>2, <2>3, <2>4, <2>5 DEF LifeInv
  <1>7. ASSUME NEW x \in Reqs, x # r PROVE LifeSame(x)
    BY <1>0, <1>1, <1>3, <1>7, SameLife
  <1>8. LifeOf(r) \in {"free", "created"} /\ LifeOf(r)' \in {"free", "created"}
    BY <1>1 DEF LifeOf
  <1>9. CASE LifeOf(r)' = LifeOf(r)
    <2>1. \A x \in Reqs : LifeSame(x)
      BY <1>7, <1>9 DEF LifeSame
    <2>2. QED
      BY <1>6, <2>1, LifeStutter
  <1>10. CASE LifeOf(r)' # LifeOf(r)
    BY <1>6, <1>7, <1>8, <1>10, LifeMove
  <1>11. QED
    BY <1>9, <1>10

LEMMA AbandonEmpty ==
    ASSUME TypeOK, NEW r \in Reqs, r \notin user, NEW p, NEW how, Abandon(r, p, how, 0),
           UNCHANGED <<posted, rung, done, cq, polled, stream, descs, waited>>, pc' = "idle"
    PROVE  EmptyStep(r)
  <1>1. /\ \A x \in Reqs \ {r} : status'[x] = status[x] /\ req'[x] = req[x]
        /\ req'[r].wqe = 0
    BY DEF Abandon, Release, Create, TypeOK, NullReq
  <1>2. user' = user
    BY DEF Abandon, Release
  <1>3. QED
    BY <1>1, <1>2 DEF EmptyStep

LEMMA SubmitLife ==
    ASSUME LifeBase, NEW r \in Reqs, NEW p \in Peers, NEW s \in Streams \union {NoStream},
           NEW how \in How, GoodHow(how), Fits(how, s), Submit(r, p, s, how)
    PROVE  LifeInv' /\ LifeStep
  <1>0. TypeOK /\ Inv /\ status[r] = "UNDEF" /\ pc = "idle"
    BY DEF LifeBase, Submit
  <1>1. Fresh(r) /\ r \notin user
    BY <1>0, UnusedIsFresh DEF Fresh
  <1>2. CASE \E c \in Channels, n \in Nat, w \in Nat :
                /\ c = Target(p, how) /\ n = posted[c] + 1 /\ w = Len(peek[c]) + 1
                /\ PostStep(r, p, s, how, c, n, w)
    BY <1>0, <1>1, <1>2, PostLife
  <1>3. CASE /\ Create(r, p, how, how.state, 0, 0) /\ how.full # "fail"
             /\ pc' = "posting"
             /\ post' = [req |-> r, peer |-> p, stream |-> s, how |-> how]
             /\ UNCHANGED <<user, posted, rung, done, cq, polled, peek, stream, descs, waited>>
    <2>1. /\ \A x \in Reqs \ {r} : status'[x] = status[x] /\ req'[x] = req[x]
          /\ req'[r].wqe = 0
      BY <1>0, <1>3 DEF Create, TypeOK
    <2>2. EmptyStep(r)
      BY <1>3, <2>1 DEF EmptyStep
    <2>3. QED
      BY <1>0, <1>1, <2>2, EmptyLife
  <1>4. CASE /\ Abandon(r, p, how, 0)
             /\ UNCHANGED <<posted, rung, done, cq, polled, peek, stream, descs, pc, waited, post>>
    <2>1. EmptyStep(r)
      BY <1>0, <1>1, <1>4, AbandonEmpty
    <2>2. QED
      BY <1>0, <1>1, <2>1, EmptyLife
  <1>5. QED
    BY <1>0, <1>2, <1>3, <1>4, SubmitCases

LEMMA ProgressLife ==
    ASSUME LifeBase, Progress
    PROVE  LifeInv' /\ LifeStep
  <1>0. TypeOK /\ TypeOK' /\ Inv /\ OwnWaits /\ LifeInv
    BY DEF LifeBase
  <1>1. ASSUME pc = "posting"
        PROVE  /\ post.req \in Reqs /\ post.peer \in Peers /\ post.how \in How
               /\ post.stream \in Streams \union {NoStream} /\ Fits(post.how, post.stream)
               /\ GoodHow(post.how) /\ Fresh(post.req) /\ req[post.req].wqe = 0
    <2>1. /\ post.req \in Reqs /\ post.peer \in Peers /\ post.how \in How
          /\ post.stream \in Streams \union {NoStream} /\ Fits(post.how, post.stream)
      BY <1>0, <1>1, PostingFacts
    <2>2. GoodHow(post.how) /\ Fresh(post.req) /\ req[post.req].wqe = 0
      BY <1>0, <1>1 DEF Inv, Posting, Fresh, LifeInv
    <2>3. QED
      BY <2>1, <2>2
  <1>2. CASE PostRetry
    <2>1. pc = "posting" /\ Enqueue(post.req, post.peer, post.stream, post.how)
      BY <1>2 DEF PostRetry
    <2>2. PICK r \in Reqs, p \in Peers, s \in Streams \union {NoStream}, how \in How :
             /\ Enqueue(r, p, s, how) /\ GoodHow(how) /\ Fits(how, s)
             /\ Fresh(r) /\ req[r].wqe = 0
      BY <1>1, <2>1
    <2>3. PICK c \in Channels, n \in Nat, w \in Nat :
             /\ c = Target(p, how) /\ n = posted[c] + 1 /\ w = Len(peek[c]) + 1
             /\ PostStep(r, p, s, how, c, n, w)
      BY <1>0, <2>2, EnqueueStep
    <2>4. QED
      BY <2>2, <2>3, PostLife
  <1>3. CASE PostGiveUp
    <2>1. /\ pc = "posting" /\ Abandon(post.req, post.peer, post.how, 0) /\ pc' = "idle"
          /\ UNCHANGED <<posted, rung, done, cq, polled, stream, descs, waited>>
      BY <1>3 DEF PostGiveUp
    <2>2. PICK r \in Reqs : r = post.req /\ Fresh(r) /\ req[r].wqe = 0
      BY <1>1, <2>1
    <2>3. EmptyStep(r)
      BY <1>0, <2>1, <2>2, AbandonEmpty DEF Fresh
    <2>4. QED
      BY <2>2, <2>3, EmptyLife
  <1>4. ASSUME NEW s \in Streams, StreamSend(s) \/ StreamWait(s) PROVE LifeInv' /\ LifeStep
    BY <1>0, <1>4, EngineCases, GpuLife
  <1>5. QED
    BY <1>2, <1>3, <1>4, PollLife, ExecuteLife DEF Progress

LEMMA NextLife ==
    ASSUME SafeUse, "rewait" \notin Liberties, LifeBase, [Next]_vars
    PROVE  LifeInv' /\ LifeStep
  <1>0. TypeOK /\ OwnWaits /\ LifeInv
    BY DEF LifeBase
  <1>1. CASE CpuSubmit \/ StreamSubmit
    <2>1. PICK r \in Reqs, p \in Peers, s \in Streams \union {NoStream} : Submits(r, p, s)
      BY <1>1, SubmitCalls
    <2>2. PICK how \in How : Submit(r, p, s, how) /\ GoodHow(how) /\ Fits(how, s)
      BY <2>1 DEF Submits
    <2>3. QED
      BY <2>2, SubmitLife
  <1>2. CASE PostPrepared
    BY <1>0, <1>2, PostPreparedCall, PreparedKeeps, CallLife
  <1>3. CASE WaitGpuError
    <2>1. UNCHANGED <<status, req, user, posted, rung, done, cq, polled, stream, descs>>
          /\ pc' = "idle" /\ waited' = {}
      BY <1>3 DEF WaitGpuError
    <2>2. \A op : Queued(op)' = Queued(op)
      BY <2>1 DEF Queued
    <2>3. QuietStep
      BY <1>0, <2>1, <2>2 DEF QuietStep, LifeInv, Marks
    <2>4. QED
      BY <2>3, QuietLife
  <1>4. CASE CpuWait /\ ~WaitReturn /\ ~WaitGpuError
    <2>1. CallStep
      BY <1>0, <1>4, GuardsOK, CpuWaitCall
    <2>2. Keeps
      BY <1>4, WaitKeeps
    <2>3. QED
      BY <2>1, <2>2, CallLife
  <1>5. CASE WaitReturn
    BY <1>5, ReturnLife
  <1>6. CASE Progress
    BY <1>6, ProgressLife
  <1>7. CASE UNCHANGED vars
    <2>1. UNCHANGED <<status, req, user, posted, rung, done, cq, polled, stream, descs, pc, waited, post>>
      BY <1>7 DEF vars
    <2>2. \A op : Queued(op)' = Queued(op)
      BY <2>1 DEF Queued
    <2>3. QuietStep
      BY <1>0, <2>1, <2>2 DEF QuietStep, LifeInv, Marks
    <2>4. QED
      BY <2>3, QuietLife
  <1>8. QED
    BY <1>1, <1>2, <1>3, <1>4, <1>5, <1>6, <1>7 DEF Next

LEMMA InitLife == Init => LifeInv /\ Life!Init
  <1> SUFFICES ASSUME Init PROVE LifeInv /\ Life!Init
    OBVIOUS
  <1>1. \A op : ~Queued(op)
    BY ElemsFew DEF Init, Queued
  <1>2. \A c \in Channels : /\ done[c] = 0 /\ rung[c] = 0 /\ posted[c] = 0
                            /\ cq[c] = <<>> /\ DOMAIN cq[c] = {} /\ ToPoll(c) = {}
    BY DEF Init, ToPoll
  <1>3. Marks /\ \A c \in Channels : Entries(c)
    BY <1>1, <1>2 DEF Marks, Entries
  <1>4. ASSUME NEW r \in Reqs PROVE status[r] = "UNDEF"
    <2>1. status = [x \in Reqs |-> "UNDEF"]
      BY DEF Init
    <2>2. QED
      BY <2>1
  <1>5. \A r \in Reqs, c \in Channels : Tracked(r, c)
    BY <1>4 DEF Tracked
  <1>6. LifeInv
    BY <1>3, <1>5 DEF LifeInv, Init
  <1>7. Life!Init
    BY <1>4 DEF Life!Init, LifeOf
  <1>8. QED
    BY <1>6, <1>7

\* The default-mode engine implements RequestLife, whatever the pool, the queues and
\* the streams, in safe use and when no complete request is waited for on a stream:
\* every step is one of a request's life or none, so a request completes after the
\* HCA executed it, and mp_wait_all releases what completed and nothing else.
THEOREM RefinesLife ==
    ASSUME SafeUse, "rewait" \notin Liberties PROVE Spec => LifeSpec
  <1> DEFINE J == IInv /\ OwnWaits /\ LifeInv
  <1>1. Init => J /\ Life!Init
    BY InitType, InitInv, InitWaits, InitLife DEF IInv
  <1>2. J /\ [Next]_vars => J' /\ [Life!Next]_([r \in Reqs |-> LifeOf(r)])
    <2> SUFFICES ASSUME J, [Next]_vars PROVE J' /\ LifeStep
      BY DEF LifeStep
    <2>1. IInv' /\ OwnWaits'
      BY NextInv, NextWaits DEF IInv
    <2>2. LifeBase
      BY <2>1 DEF LifeBase, IInv
    <2>3. QED
      BY <2>1, <2>2, NextLife
  <1>3. QED
    BY <1>1, <1>2, PTL DEF Spec, LifeSpec, Life!Spec
=============================================================================
