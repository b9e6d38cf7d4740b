------------------------- MODULE CommPingpongProofs -------------------------
(***************************************************************************)
(* Proofs about the exchange of CommPingpong for any number of ranks and   *)
(* of iterations and any mix of the two modes: its calls meet their        *)
(* contract, so the handshake holds for it; no work request is left when a *)
(* rank frees its buffers; and the table of requests does not fill up.     *)
(***************************************************************************)
EXTENDS CommPingpong, CommReadyProofs, FiniteSetTheorems

N == Cardinality(Ranks)

\* The table holds what one rank may track before it flushes: two requests per
\* peer in sync_exchange, three per peer and iteration in async_exchange.
RoomFor == \A m \in Modes : \A i \in Ranks :
    (IF m[i] THEN 3 * (N - 1) * Iters ELSE 2 * (N - 1)) < MaxReqs

(***************************************************************************)
(* The inductive invariant: the position of a rank in its program tells    *)
(* what it has called.                                                     *)
(***************************************************************************)
Lines == {"irecv", "send_ready", "wait_ready", "spin", "isend", "wait_all",
          "synchronize", "flush", "freed"}

\* Rank i at line l with loop variable c, in mode f, has dealt with peer j in this
\* iteration.
AllReadied(l, f) ==
    l \in {"wait_ready", "spin", "isend", "wait_all"} \/ (l = "flush" /\ ~f)
Received(l, f, c, j) ==
    (l = "irecv" /\ j < c) \/ (l = "send_ready" /\ j <= c) \/ AllReadied(l, f)
Readied(l, f, c, j) == (l \in {"irecv", "send_ready"} /\ j < c) \/ AllReadied(l, f)
AllSent(l, f) == l = "wait_all" \/ (l = "flush" /\ ~f)
Waited(l, f, c, j) ==
    (l \in {"wait_ready", "spin"} /\ j < c) \/ (l = "isend" /\ j <= c) \/ AllSent(l, f)
Sent(l, f, c, j) == (l \in {"wait_ready", "spin", "isend"} /\ j < c) \/ AllSent(l, f)

One(b) == IF b THEN 1 ELSE 0

\* The calls made for peer j: n iterations are over.
CountsOf(l, f, c, j, n, r, y, w, s) ==
    /\ r = n + One(Received(l, f, c, j)) /\ y = n + One(Readied(l, f, c, j))
    /\ w = n + One(Waited(l, f, c, j)) /\ s = n + One(Sent(l, f, c, j))
Counted == \A p \in Pairs :
    CountsOf(line[p[1]], sa[p[1]], peer[p[1]], p[2], iter[p[1]],
             recvs[p], readies[p], waits[p], sends[p])

\* The iterations that are over, and the lines each mode and each loop reach.
PlaceOf(l, f, c, first, n) ==
    /\ IF AllReadied(l, f) \/ l \in {"irecv", "send_ready"} THEN n < Iters ELSE n = Iters
    /\ l \in {"wait_all", "synchronize", "flush"} => c = first
    /\ l = "spin" => ~f
    /\ l \in {"wait_all", "synchronize"} => f
Placed == \A i \in Ranks : PlaceOf(line[i], sa[i], peer[i], First(i), iter[i])

PType ==
    /\ sa \in Modes /\ line \in [Ranks -> Lines]
    /\ peer \in [Ranks -> Ranks] /\ (\A i \in Ranks : peer[i] # i)
    /\ iter \in [Ranks -> Nat] /\ n_reqs \in [Ranks -> Nat]

\* Readies and messages alternate in a queue.
AlternateOf(q) == \A k \in 1..Len(q) : q[k].kind = (IF k % 2 = 0 THEN "data" ELSE "ready")
Alternate == \A p \in Pairs :
    AlternateOf(wqe[p]) /\ Len(wqe[p]) = readies[p] + sends[p] /\ done[p] <= rung[p]

\* sync_exchange leaves nothing to the GPU, nobody prepares descriptors, and a rank
\* spins only in comm_wait_ready.
Direct ==
    /\ \A i \in Ranks :
          /\ ~sa[i] => stream[i] = <<>>
          /\ dreqs[i] = NoDreqs
          /\ spinning[i] = IF line[i] = "spin" THEN peer[i] ELSE NoRank
    /\ \A p \in Pairs : ~sa[p[1]] => NoneHeld(p)

\* A rank that is done saw all messages from it and to it executed.
Quiet == \A p \in Pairs :
    line[p[1]] = "freed" => done[p] >= 2 * Iters /\ done[Rev(p)] >= 2 * Iters

\* The peers in front of peer c of rank i.
Passed(i, c) == IF c < i THEN c ELSE c - 1

\* The requests tracked since the last flush.
TrackedOf(i, l, f, c, n) ==
    (IF f THEN 3 * (N - 1) * n ELSE 0) +
    CASE l = "irecv"      -> IF f THEN 2 * Passed(i, c) ELSE Passed(i, c)
      [] l = "send_ready" -> IF f THEN 2 * Passed(i, c) + 1 ELSE Passed(i, c) + 1
      [] l \in {"wait_ready", "spin", "isend"} ->
            (IF f THEN 2 * (N - 1) ELSE N - 1) + Passed(i, c)
      [] l = "wait_all"   -> 3 * (N - 1)
      [] l = "flush"      -> IF f THEN 0 ELSE 2 * (N - 1)
      [] l \in {"synchronize", "freed"} -> 0
Tracked == \A i \in Ranks :
    n_reqs[i] = IF line[i] = "freed" THEN 0 ELSE TrackedOf(i, line[i], sa[i], peer[i], iter[i])

Control == PType /\ Placed /\ Counted /\ Alternate /\ Direct
PInv == TInv /\ Control /\ Quiet /\ Tracked

-----------------------------------------------------------------------------
(* The order of the peers *)

LEMMA RankFacts ==
    /\ N \in Nat /\ N > 1 /\ Ranks = 0..(N - 1) /\ Iters \in Nat \ {0} /\ MaxReqs \in Nat
    /\ Iters <= MaxMsgs /\ Iters + 1 < Modulus /\ MaxMsgs \in Nat
    /\ Modes \subseteq [Ranks -> BOOLEAN]
  BY PingpongAssumption, ConstantsAssumption, FS_CardinalityType DEF N

LEMMA LeastIs ==
    ASSUME NEW S, NEW x \in S, \A y \in S : x <= y
    PROVE  Least(S) \in S /\ \A y \in S : Least(S) <= y
  BY DEF Least

LEMMA FirstPeer ==
    ASSUME NEW i \in Ranks
    PROVE  /\ First(i) \in Ranks /\ First(i) # i /\ Passed(i, First(i)) = 0
           /\ \A j \in Ranks : j # i => ~(j < First(i))
  <1> DEFINE x == IF i = 0 THEN 1 ELSE 0
             S == Ranks \ {i}
  <1>1. i \in Nat /\ Ranks \subseteq Nat
    BY RankFacts
  <1>2. x \in S /\ \A y \in S : x <= y
    BY <1>1, RankFacts
  <1> HIDE DEF x, S
  <1>3. Least(S) \in S /\ \A y \in S : Least(S) <= y
    BY <1>2, LeastIs
  <1> PICK c : c = Least(S)
    OBVIOUS
  <1>4. First(i) = c
    BY DEF First, S
  <1>5. c \in Ranks /\ c # i /\ c \in Nat /\ \A j \in Ranks : j # i => c <= j /\ j \in Nat
    BY <1>1, <1>3 DEF S
  <1>6. c = x
    <2>1. c <= x /\ x <= c
      BY <1>2, <1>3
    <2>2. x \in Nat
      BY DEF x
    <2> QED BY <1>5, <2>1, <2>2
  <1> QED BY <1>1, <1>4, <1>5, <1>6 DEF Passed, x

LEMMA NextPeer ==
    ASSUME NEW i \in Ranks, NEW c \in Ranks, c # i,
           NEW S, S = {q \in Ranks \ {i} : q > c}, S # {}
    PROVE  /\ Least(S) \in Ranks /\ Least(S) # i
           /\ Passed(i, Least(S)) = Passed(i, c) + 1
           /\ \A j \in Ranks : j # i => (j < Least(S) <=> j <= c)
  <1> DEFINE x == IF c + 1 = i THEN c + 2 ELSE c + 1
  <1>1. i \in Nat /\ c \in Nat /\ Ranks \subseteq Nat
    BY RankFacts
  <1>2. x \in S /\ \A y \in S : x <= y
    BY <1>1, RankFacts
  <1>0. x \in Nat /\ S \subseteq Nat /\ S \subseteq Ranks \ {i}
    <2>1. S \subseteq Ranks \ {i}
      OBVIOUS
    <2>2. x \in Nat
      BY <1>1
    <2> HIDE DEF x
    <2> QED BY <1>1, <2>1, <2>2
  <1> HIDE DEF x
  <1>3. Least(S) \in S /\ \A y \in S : Least(S) <= y
    BY <1>2, LeastIs
  <1> PICK d : d = Least(S)
    OBVIOUS
  <1>4. d = x /\ d \in Ranks /\ d # i
    <2>1. d \in S /\ d <= x /\ x <= d
      BY <1>2, <1>3
    <2> QED BY <1>0, <2>1
  <1>5. Passed(i, d) = Passed(i, c) + 1
    BY <1>1, <1>4 DEF Passed, x
  <1>6. \A j \in Ranks : j # i => (j < d <=> j <= c)
    BY <1>1, <1>4 DEF x
  <1> QED BY <1>4, <1>5, <1>6

LEMMA LastPeer ==
    ASSUME NEW i \in Ranks, NEW c \in Ranks, c # i,
           {q \in Ranks \ {i} : q > c} = {}
    PROVE  /\ \A j \in Ranks : j # i => j <= c
           /\ Passed(i, c) = N - 2
  <1>1. i \in Nat /\ c \in Nat /\ Ranks \subseteq Nat /\ i <= N - 1 /\ c <= N - 1
    BY RankFacts
  <1>2. \A j \in Ranks : j # i => j <= c
    BY <1>1
  <1>3. c = IF i = N - 1 THEN N - 2 ELSE N - 1
    <2>1. N - 1 \in Ranks /\ N - 2 \in Ranks /\ N \in Nat
      BY RankFacts
    <2>2. CASE i = N - 1
      BY <1>1, <1>2, <2>1, <2>2
    <2>3. CASE i # N - 1
      BY <1>1, <1>2, <2>1, <2>3
    <2> QED BY <2>2, <2>3
  <1> QED BY <1>1, <1>2, <1>3, RankFacts DEF Passed

LEMMA PassedRange ==
    ASSUME NEW i \in Ranks, NEW c \in Ranks, c # i
    PROVE  Passed(i, c) \in Nat /\ Passed(i, c) <= N - 2
  BY RankFacts DEF Passed

\* How the loop over the peers goes on from peer c: to the next peer c2, or round to
\* the first one.
Onward(i, c, c2) ==
    Passed(i, c2) = Passed(i, c) + 1 /\ \A j \in Ranks : j # i => (j < c2 <=> j <= c)
Around(i, c, c2) ==
    /\ c2 = First(i) /\ Passed(i, c2) = 0 /\ Passed(i, c) = N - 2
    /\ \A j \in Ranks : j # i => ~(j < c2) /\ j <= c

LEMMA LoopStep ==
    ASSUME PType, NEW i \in Ranks, NEW again, NEW after, Loop(i, again, after)
    PROVE  \E c2 \in Ranks : \E l2 :
              /\ c2 # i /\ peer' = [peer EXCEPT ![i] = c2] /\ line' = [line EXCEPT ![i] = l2]
              /\ \/ l2 = again /\ Onward(i, peer[i], c2)
                 \/ l2 = after /\ Around(i, peer[i], c2)
  <1>0. peer[i] \in Ranks /\ peer[i] # i
    BY DEF PType
  <1> PICK S : S = {q \in Ranks \ {i} : q > peer[i]}
    OBVIOUS
  <1>1. Rest(i) = S
    BY DEF Rest
  <1>2. CASE S # {}
    <2>1. peer' = [peer EXCEPT ![i] = Least(S)] /\ line' = [line EXCEPT ![i] = again]
      BY <1>1, <1>2 DEF Loop
    <2>2. Least(S) \in Ranks /\ Least(S) # i /\ Onward(i, peer[i], Least(S))
      BY <1>0, <1>2, NextPeer DEF Onward
    <2> QED BY <2>1, <2>2
  <1>3. CASE S = {}
    <2>1. peer' = [peer EXCEPT ![i] = First(i)] /\ line' = [line EXCEPT ![i] = after]
      BY <1>1, <1>3 DEF Loop
    <2>2. First(i) \in Ranks /\ First(i) # i /\ Around(i, peer[i], First(i))
      BY <1>0, <1>3, FirstPeer, LastPeer DEF Around
    <2> QED BY <2>1, <2>2
  <1> QED BY <1>2, <1>3

-----------------------------------------------------------------------------
(* What a call counts *)

LEMMA CountIrecv ==
    ASSUME NEW f, NEW c \in Nat, NEW j \in Nat, NEW n \in Nat, NEW r, NEW y, NEW w, NEW s,
           CountsOf("irecv", f, c, j, n, r, y, w, s)
    PROVE  CountsOf("send_ready", f, c, j, n, IF j = c THEN r + 1 ELSE r, y, w, s)
  BY DEF CountsOf, Received, Readied, Waited, Sent, AllReadied, AllSent, One

LEMMA CountSendReady ==
    ASSUME NEW f, NEW i \in Ranks, NEW c \in Ranks, NEW c2 \in Ranks, NEW j \in Ranks, j # i,
           NEW n \in Nat, NEW r, NEW y, NEW w, NEW s, NEW l2,
           CountsOf("send_ready", f, c, j, n, r, y, w, s),
           \/ l2 = "irecv" /\ Onward(i, c, c2)
           \/ l2 = "wait_ready" /\ Around(i, c, c2)
    PROVE  CountsOf(l2, f, c2, j, n, r, IF j = c THEN y + 1 ELSE y, w, s)
  <1>1. c \in Nat /\ c2 \in Nat /\ j \in Nat
    BY RankFacts
  <1>2. CASE l2 = "irecv" /\ (j < c2 <=> j <= c)
    BY <1>1, <1>2 DEF CountsOf, Received, Readied, Waited, Sent, AllReadied, AllSent, One
  <1>3. CASE l2 = "wait_ready" /\ ~(j < c2) /\ j <= c
    BY <1>1, <1>3 DEF CountsOf, Received, Readied, Waited, Sent, AllReadied, AllSent, One
  <1> QED BY <1>2, <1>3 DEF Onward, Around

LEMMA CountWait ==
    ASSUME NEW f, NEW c \in Nat, NEW j \in Nat, NEW n \in Nat, NEW r, NEW y, NEW w, NEW s
    PROVE  /\ CountsOf("wait_ready", f, c, j, n, r, y, w, s)
              => CountsOf("spin", f, c, j, n, r, y, w, s)
           /\ \A l \in {"wait_ready", "spin"} : CountsOf(l, f, c, j, n, r, y, w, s)
              => CountsOf("isend", f, c, j, n, r, y, IF j = c THEN w + 1 ELSE w, s)
  BY DEF CountsOf, Received, Readied, Waited, Sent, AllReadied, AllSent, One

LEMMA CountIsend ==
    ASSUME NEW f, NEW i \in Ranks, NEW c \in Ranks, NEW c2 \in Ranks, NEW j \in Ranks, j # i,
           NEW n \in Nat, NEW r, NEW y, NEW w, NEW s, NEW l2,
           CountsOf("isend", f, c, j, n, r, y, w, s),
           \/ l2 = "wait_ready" /\ Onward(i, c, c2)
           \/ l2 = (IF f THEN "wait_all" ELSE "flush") /\ Around(i, c, c2)
    PROVE  CountsOf(l2, f, c2, j, n, r, y, w, IF j = c THEN s + 1 ELSE s)
  <1>1. c \in Nat /\ c2 \in Nat /\ j \in Nat
    BY RankFacts
  <1>2. CASE l2 = "wait_ready" /\ (j < c2 <=> j <= c)
    BY <1>1, <1>2 DEF CountsOf, Received, Readied, Waited, Sent, AllReadied, AllSent, One
  <1>3. CASE l2 = (IF f THEN "wait_all" ELSE "flush") /\ ~(j < c2) /\ j <= c
    <2>1. CASE f
      BY <1>1, <1>3, <2>1 DEF CountsOf, Received, Readied, Waited, Sent, AllReadied, AllSent, One
    <2>2. CASE ~f
      BY <1>1, <1>3, <2>2 DEF CountsOf, Received, Readied, Waited, Sent, AllReadied, AllSent, One
    <2> QED BY <2>1, <2>2
  <1> QED BY <1>2, <1>3 DEF Onward, Around

\* The end of an iteration: at the first peer, nothing of the next one is done.
LEMMA CountEnd ==
    ASSUME NEW f, NEW c \in Nat, NEW j \in Nat, NEW n \in Nat, NEW r, NEW y, NEW w, NEW s, NEW l,
           CountsOf(l, f, c, j, n, r, y, w, s), ~(j < c),
           l = "wait_all" \/ (l = "flush" /\ ~f)
    PROVE  \A l2 \in {"irecv", "synchronize", "freed"} : CountsOf(l2, f, c, j, n + 1, r, y, w, s)
  BY DEF CountsOf, Received, Readied, Waited, Sent, AllReadied, AllSent, One

LEMMA CountOver ==
    ASSUME NEW f, NEW c, NEW j, NEW n \in Nat, NEW r, NEW y, NEW w, NEW s, f
    PROVE  /\ CountsOf("synchronize", f, c, j, n, r, y, w, s)
              => CountsOf("flush", f, c, j, n, r, y, w, s)
           /\ CountsOf("flush", f, c, j, n, r, y, w, s)
              => CountsOf("freed", f, c, j, n, r, y, w, s)
  BY DEF CountsOf, Received, Readied, Waited, Sent, AllReadied, AllSent, One

-----------------------------------------------------------------------------
(* A step of one rank, part of the invariant by part *)

Moves(i, l2, c2, n2) ==
    /\ line' = [line EXCEPT ![i] = l2] /\ peer' = [peer EXCEPT ![i] = c2]
    /\ iter' = [iter EXCEPT ![i] = n2] /\ sa' = sa

LEMMA MovesAt ==
    ASSUME PType, NEW i \in Ranks, NEW l2, NEW c2, NEW n2, Moves(i, l2, c2, n2)
    PROVE  /\ line'[i] = l2 /\ peer'[i] = c2 /\ iter'[i] = n2 /\ sa'[i] = sa[i]
           /\ \A j \in Ranks : j # i =>
                 line'[j] = line[j] /\ peer'[j] = peer[j] /\ iter'[j] = iter[j] /\ sa'[j] = sa[j]
  BY DEF PType, Moves

LEMMA TypesAt ==
    ASSUME PType, NEW i \in Ranks
    PROVE  /\ sa[i] \in BOOLEAN /\ line[i] \in Lines /\ peer[i] \in Ranks /\ peer[i] # i
           /\ iter[i] \in Nat /\ n_reqs[i] \in Nat /\ i \in Nat /\ peer[i] \in Nat
  BY SMTT(30), RankFacts DEF PType

LEMMA PairIs ==
    ASSUME NEW i \in Ranks, NEW c \in Ranks, c # i
    PROVE  /\ <<i, c>> \in Pairs /\ <<i, c>>[1] = i /\ <<i, c>>[2] = c
           /\ \A q \in Pairs : q[1] = i => (q = <<i, c>> <=> q[2] = c)
           /\ \A q \in Pairs : q[1] # i => q # <<i, c>>
  BY DEF Pairs

LEMMA PairParts ==
    ASSUME NEW q \in Pairs
    PROVE  q[1] \in Ranks /\ q[2] \in Ranks /\ q[1] # q[2] /\ q[1] \in Nat /\ q[2] \in Nat
  BY RankFacts DEF Pairs

LEMMA PlaceStep ==
    ASSUME PType, Placed, NEW i \in Ranks, NEW l2 \in Lines, NEW c2 \in Ranks, c2 # i,
           NEW n2 \in Nat, Moves(i, l2, c2, n2), n_reqs' \in [Ranks -> Nat],
           PlaceOf(l2, sa[i], c2, First(i), n2)
    PROVE  PType' /\ Placed'
  <1>1. PType'
    BY DEF PType, Moves
  <1>2. ASSUME NEW j \in Ranks PROVE PlaceOf(line'[j], sa'[j], peer'[j], First(j), iter'[j])
    BY MovesAt DEF Placed
  <1> QED BY <1>1, <1>2 DEF Placed

\* x2 counts one more than x for pair p.
Bumped(x, x2, p) == \A q \in Pairs : x2[q] = IF q = p THEN x[q] + 1 ELSE x[q]

LEMMA Bump ==
    ASSUME NEW x \in [Pairs -> Nat], NEW x2, NEW p \in Pairs, x2 = [x EXCEPT ![p] = @ + 1]
    PROVE  Bumped(x, x2, p)
  BY DEF Bumped

LEMMA CountedStep ==
    ASSUME PType, Counted, NEW i \in Ranks, NEW l2, NEW c2, NEW n2, Moves(i, l2, c2, n2),
           \A q \in Pairs : q[1] # i =>
              recvs'[q] = recvs[q] /\ readies'[q] = readies[q] /\ waits'[q] = waits[q]
              /\ sends'[q] = sends[q],
           \A q \in Pairs : q[1] = i =>
              CountsOf(l2, sa[i], c2, q[2], n2, recvs'[q], readies'[q], waits'[q], sends'[q])
    PROVE  Counted'
  <1> SUFFICES ASSUME NEW q \in Pairs
               PROVE  CountsOf(line'[q[1]], sa'[q[1]], peer'[q[1]], q[2], iter'[q[1]],
                               recvs'[q], readies'[q], waits'[q], sends'[q])
    BY DEF Counted
  <1>1. q[1] \in Ranks
    BY PairParts
  <1>2. CASE q[1] = i
    BY <1>2, MovesAt
  <1>3. CASE q[1] # i
    BY <1>1, <1>3, MovesAt DEF Counted
  <1> QED BY <1>2, <1>3

LEMMA CountsAt ==
    ASSUME Counted, NEW i \in Ranks, NEW q \in Pairs, q[1] = i
    PROVE  CountsOf(line[i], sa[i], peer[i], q[2], iter[i], recvs[q], readies[q], waits[q], sends[q])
  BY DEF Counted

LEMMA QueueNums ==
    ASSUME TInv, NEW p \in Pairs
    PROVE  /\ wqe[p] \in Seq(WorkRequest) /\ Len(wqe[p]) \in Nat
           /\ rung[p] \in Nat /\ done[p] \in Nat /\ rung[p] <= Len(wqe[p])
           /\ recvs[p] \in Nat /\ readies[p] \in Nat /\ waits[p] \in Nat /\ sends[p] \in Nat
  <1>1. /\ wqe[p] \in Seq(WorkRequest) /\ rung[p] \in Nat /\ done[p] \in Nat
        /\ rung[p] <= Len(wqe[p])
        /\ recvs[p] \in Nat /\ readies[p] \in Nat /\ waits[p] \in Nat /\ sends[p] \in Nat
    BY DEF TInv, TypeOK, Own
  <1>2. Len(wqe[p]) \in Nat
    BY <1>1, SeqElem
  <1> QED BY <1>1, <1>2

LEMMA AlternatePost ==
    ASSUME TInv, TInv', Alternate, NEW p \in Pairs, NEW w \in WorkRequest,
           wqe' = [wqe EXCEPT ![p] = Append(@, w)], done' = done,
           \A q \in Pairs : rung[q] <= rung'[q],
           \A q \in Pairs : readies'[q] + sends'[q] =
                               IF q = p THEN readies[q] + sends[q] + 1 ELSE readies[q] + sends[q],
           w.kind = (IF (Len(wqe[p]) + 1) % 2 = 0 THEN "data" ELSE "ready")
    PROVE  Alternate'
  <1>1. /\ \A q \in Pairs : Len(wqe'[q]) = IF q = p THEN Len(wqe[q]) + 1 ELSE Len(wqe[q])
        /\ \A q \in Pairs : \A k \in 1..Len(wqe[q]) : wqe'[q][k] = wqe[q][k]
        /\ wqe'[p][Len(wqe[p]) + 1] = w
    <2>1. wqe[p] \in Seq(WorkRequest) /\ wqe \in [Pairs -> Seq(WorkRequest)]
      BY DEF TInv, TypeOK
    <2>2. wqe'[p] = Append(wqe[p], w) /\ \A q \in Pairs : q # p => wqe'[q] = wqe[q]
      BY <2>1
    <2> QED BY <2>1, <2>2, SeqAppend
  <1> SUFFICES ASSUME NEW q \in Pairs
               PROVE  /\ AlternateOf(wqe'[q]) /\ Len(wqe'[q]) = readies'[q] + sends'[q]
                      /\ done'[q] <= rung'[q]
    BY DEF Alternate
  <1>2. AlternateOf(wqe[q]) /\ Len(wqe[q]) = readies[q] + sends[q] /\ done[q] <= rung[q]
    BY DEF Alternate
  <1>3. done'[q] <= rung'[q]
    <2>1. rung'[q] \in Nat /\ rung[q] \in Nat /\ done[q] \in Nat /\ rung[q] <= rung'[q]
      BY QueueNums DEF TInv, TypeOK
    <2> QED BY <1>2, <2>1
  <1>4. Len(wqe'[q]) = readies'[q] + sends'[q]
    BY <1>1, <1>2
  <1>5. ASSUME NEW k \in 1..Len(wqe'[q])
        PROVE  wqe'[q][k].kind = (IF k % 2 = 0 THEN "data" ELSE "ready")
    <2>1. Len(wqe[q]) \in Nat
      BY QueueNums
    <2>2. k \in 1..Len(wqe[q]) \/ (q = p /\ k = Len(wqe[p]) + 1)
      BY <1>1, <2>1
    <2>3. CASE k \in 1..Len(wqe[q])
      <3>1. wqe'[q][k] = wqe[q][k]
        BY <1>1, <2>3
      <3> QED BY <1>2, <2>3, <3>1 DEF AlternateOf
    <2>4. CASE q = p /\ k = Len(wqe[p]) + 1
      BY <1>1, <2>4
    <2> QED BY <2>2, <2>3, <2>4
  <1> QED BY <1>3, <1>4, <1>5 DEF AlternateOf

LEMMA DirectStep ==
    ASSUME PType, Direct, NEW i \in Ranks, NEW l2, NEW c2, NEW n2, Moves(i, l2, c2, n2),
           dreqs' = dreqs,
           \A j \in Ranks : spinning'[j] = (IF j # i THEN spinning[j]
                                            ELSE IF l2 = "spin" THEN c2 ELSE NoRank),
           \A j \in Ranks : j # i \/ ~sa[i] => stream'[j] = stream[j],
           \A q \in Pairs : q[1] # i => rung'[q] = rung[q] /\ wqe'[q] = wqe[q],
           \A q \in Pairs : q[1] = i /\ ~sa[i] => rung'[q] = Len(wqe'[q])
    PROVE  Direct'
  <1>1. ASSUME NEW j \in Ranks
        PROVE  /\ ~sa'[j] => stream'[j] = <<>>
               /\ dreqs'[j] = NoDreqs
               /\ spinning'[j] = IF line'[j] = "spin" THEN peer'[j] ELSE NoRank
    <2>1. CASE j = i
      BY <2>1, MovesAt DEF Direct
    <2>2. CASE j # i
      BY <2>2, MovesAt DEF Direct
    <2> QED BY <2>1, <2>2
  <1>2. ASSUME NEW q \in Pairs, ~sa'[q[1]]
        PROVE  rung'[q] = Len(wqe'[q])
    <2>1. q[1] \in Ranks
      BY PairParts
    <2>2. CASE q[1] = i
      BY <1>2, <2>2, MovesAt
    <2>3. CASE q[1] # i
      BY <1>2, <2>1, <2>3, MovesAt DEF Direct, NoneHeld
    <2> QED BY <2>2, <2>3
  <1> QED BY <1>1, <1>2 DEF Direct, NoneHeld

LEMMA QuietStep ==
    ASSUME PType, Quiet, NEW i \in Ranks, NEW l2, NEW c2, NEW n2, Moves(i, l2, c2, n2),
           l2 # "freed", done' = done
    PROVE  Quiet'
  <1> SUFFICES ASSUME NEW q \in Pairs, line'[q[1]] = "freed"
               PROVE  done[q] >= 2 * Iters /\ done[Rev(q)] >= 2 * Iters
    BY DEF Quiet, Rev
  <1>1. q[1] \in Ranks
    BY PairParts
  <1>2. line[q[1]] = "freed"
    BY <1>1, MovesAt
  <1> QED BY <1>2 DEF Quiet

LEMMA TrackedStep ==
    ASSUME PType, Tracked, NEW i \in Ranks, NEW l2, NEW c2, NEW n2, Moves(i, l2, c2, n2),
           \A j \in Ranks : j # i => n_reqs'[j] = n_reqs[j],
           n_reqs'[i] = IF l2 = "freed" THEN 0 ELSE TrackedOf(i, l2, sa[i], c2, n2)
    PROVE  Tracked'
  <1> SUFFICES ASSUME NEW j \in Ranks
               PROVE  n_reqs'[j] = IF line'[j] = "freed" THEN 0
                                   ELSE TrackedOf(j, line'[j], sa'[j], peer'[j], iter'[j])
    BY DEF Tracked, TrackedOf
  <1>1. CASE j = i
    BY <1>1, MovesAt
  <1>2. CASE j # i
    BY <1>2, MovesAt DEF Tracked
  <1> QED BY <1>1, <1>2

-----------------------------------------------------------------------------
(* What a call tracks *)

LEMMA TrackIrecv ==
    ASSUME NEW i \in Ranks, NEW f \in BOOLEAN, NEW c \in Ranks, c # i, NEW n \in Nat
    PROVE  TrackedOf(i, "send_ready", f, c, n) = TrackedOf(i, "irecv", f, c, n) + 1
  BY SMTT(30), PassedRange, RankFacts DEF TrackedOf

LEMMA TrackSendReady ==
    ASSUME NEW i \in Ranks, NEW f \in BOOLEAN, NEW c \in Ranks, c # i, NEW n \in Nat,
           NEW c2 \in Ranks, NEW l2,
           \/ l2 = "irecv" /\ Onward(i, c, c2)
           \/ l2 = "wait_ready" /\ Around(i, c, c2)
    PROVE  TrackedOf(i, l2, f, c2, n) =
              TrackedOf(i, "send_ready", f, c, n) + (IF f THEN 1 ELSE 0)
  <1>0. Passed(i, c) \in Nat /\ N \in Nat /\ N > 1 /\ 3 * (N - 1) * n \in Nat
    BY PassedRange, RankFacts
  <1>1. CASE f /\ l2 = "irecv" /\ Passed(i, c2) = Passed(i, c) + 1
    BY <1>0, <1>1 DEF TrackedOf
  <1>2. CASE ~f /\ l2 = "irecv" /\ Passed(i, c2) = Passed(i, c) + 1
    BY <1>0, <1>2 DEF TrackedOf
  <1>3. CASE f /\ l2 = "wait_ready" /\ Passed(i, c2) = 0 /\ Passed(i, c) = N - 2
    BY <1>0, <1>3 DEF TrackedOf
  <1>4. CASE ~f /\ l2 = "wait_ready" /\ Passed(i, c2) = 0 /\ Passed(i, c) = N - 2
    BY <1>0, <1>4 DEF TrackedOf
  <1> QED BY <1>1, <1>2, <1>3, <1>4 DEF Onward, Around

LEMMA TrackIsend ==
    ASSUME NEW i \in Ranks, NEW f \in BOOLEAN, NEW c \in Ranks, c # i, NEW n \in Nat,
           NEW c2 \in Ranks, NEW l2,
           \/ l2 = "wait_ready" /\ Onward(i, c, c2)
           \/ l2 = (IF f THEN "wait_all" ELSE "flush") /\ Around(i, c, c2)
    PROVE  TrackedOf(i, l2, f, c2, n) = TrackedOf(i, "isend", f, c, n) + 1
  <1>0. Passed(i, c) \in Nat /\ N \in Nat /\ N > 1 /\ 3 * (N - 1) * n \in Nat
    BY PassedRange, RankFacts
  <1>1. CASE f /\ l2 = "wait_ready" /\ Passed(i, c2) = Passed(i, c) + 1
    BY <1>0, <1>1 DEF TrackedOf
  <1>2. CASE ~f /\ l2 = "wait_ready" /\ Passed(i, c2) = Passed(i, c) + 1
    BY <1>0, <1>2 DEF TrackedOf
  <1>3. CASE f /\ l2 = "wait_all" /\ Passed(i, c2) = 0 /\ Passed(i, c) = N - 2
    BY <1>0, <1>3 DEF TrackedOf
  <1>4. CASE ~f /\ l2 = "flush" /\ Passed(i, c2) = 0 /\ Passed(i, c) = N - 2
    BY <1>0, <1>4 DEF TrackedOf
  <1> QED BY <1>1, <1>2, <1>3, <1>4 DEF Onward, Around

LEMMA TrackEnd ==
    ASSUME NEW i \in Ranks, NEW c, NEW n \in Nat, Passed(i, c) = 0
    PROVE  /\ TrackedOf(i, "irecv", FALSE, c, n + 1) = 0
           /\ \A l2 \in {"irecv", "synchronize"} :
                 TrackedOf(i, l2, TRUE, c, n + 1) = TrackedOf(i, "wait_all", TRUE, c, n)
           /\ TrackedOf(i, "flush", TRUE, c, n) = TrackedOf(i, "synchronize", TRUE, c, n)
  <1>1. 3 * (N - 1) * (n + 1) = 3 * (N - 1) * n + 3 * (N - 1) /\ 3 * (N - 1) \in Nat
        /\ 3 * (N - 1) * n \in Nat
    BY RankFacts
  <1> QED BY <1>1 DEF TrackedOf

LEMMA TrackWait ==
    ASSUME NEW i \in Ranks, NEW f \in BOOLEAN, NEW c, NEW n
    PROVE  /\ TrackedOf(i, "spin", f, c, n) = TrackedOf(i, "wait_ready", f, c, n)
           /\ TrackedOf(i, "isend", f, c, n) = TrackedOf(i, "wait_ready", f, c, n)
  BY DEF TrackedOf

-----------------------------------------------------------------------------
(* comm_wait_all_on_stream *)

\* The k-th peer of rank i.
PeerAt(i, k) == IF k - 1 < i THEN k - 1 ELSE k

LEMMA PeersUpTo ==
    ASSUME NEW i \in Ranks, NEW k \in 1..(N - 1)
    PROVE  /\ <<i, PeerAt(i, k)>> \in Peers(i) /\ <<i, PeerAt(i, k)>>[2] = PeerAt(i, k)
           /\ IsFiniteSet({q \in Peers(i) : q[2] <= PeerAt(i, k)})
           /\ Cardinality({q \in Peers(i) : q[2] <= PeerAt(i, k)}) = k
  <1> DEFINE S == {q \in Peers(i) : q[2] <= PeerAt(i, k)}
             g == [m \in 1..k |-> <<i, PeerAt(i, m)>>]
  <1>0. N \in Nat /\ i \in Nat /\ k \in Nat /\ i <= N - 1 /\ k <= N - 1
    BY RankFacts
  <1>1. ASSUME NEW m \in 1..k
        PROVE  /\ PeerAt(i, m) \in Ranks /\ PeerAt(i, m) # i /\ PeerAt(i, m) <= PeerAt(i, k)
               /\ PeerAt(i, m) \in Nat
    BY <1>0, RankFacts DEF PeerAt
  <1>2. ASSUME NEW m \in 1..k
        PROVE  <<i, PeerAt(i, m)>> \in Peers(i) /\ <<i, PeerAt(i, m)>>[2] = PeerAt(i, m)
    BY <1>1, PairIs DEF Peers
  <1>3. g \in [1..k -> S]
    BY <1>1, <1>2
  <1>4. ASSUME NEW a \in 1..k, NEW b \in 1..k, g[a] = g[b]
        PROVE  a = b
    <2>1. PeerAt(i, a) = PeerAt(i, b)
      BY <1>4
    <2> QED BY <1>0, <2>1 DEF PeerAt
  <1>5. ASSUME NEW q \in S
        PROVE  \E m \in 1..k : g[m] = q
    <2>1. q \in Pairs /\ q[1] = i /\ q[2] <= PeerAt(i, k)
      BY DEF Peers
    <2>2. q[2] \in Nat /\ q[2] # i /\ q = <<i, q[2]>> /\ q[2] \in Ranks
      <3>1. q[2] \in Nat /\ q[2] # i /\ q[2] \in Ranks
        BY <2>1, PairParts
      <3>2. q = <<q[1], q[2]>>
        BY <2>1 DEF Pairs
      <3> QED BY <2>1, <3>1, <3>2
    <2> PICK m : m = IF q[2] < i THEN q[2] + 1 ELSE q[2]
      OBVIOUS
    <2> PICK d : d = q[2]
      OBVIOUS
    <2>3. m \in 1..k /\ PeerAt(i, m) = d
      BY <1>0, <2>1, <2>2 DEF PeerAt
    <2> QED BY <2>2, <2>3
  <1> HIDE DEF S, g
  <1>6. g \in Bijection(1..k, S)
    BY <1>3, <1>4, <1>5 DEF Bijection, Injection, Surjection, IsInjective
  <1>7. IsFiniteSet(1..k) /\ Cardinality(1..k) = k
    BY <1>0, FS_Interval
  <1>8. IsFiniteSet(S) /\ Cardinality(S) = k
    BY <1>6, <1>7, FS_Bijection DEF ExistsBijection
  <1>9. k \in 1..k
    BY <1>0
  <1> QED BY <1>2, <1>8, <1>9 DEF S

LEMMA PeersCount ==
    ASSUME NEW i \in Ranks
    PROVE  Cardinality(Peers(i)) = N - 1 /\ Peers(i) \subseteq Pairs
  <1>0. N \in Nat /\ N > 1 /\ i \in Nat /\ i <= N - 1 /\ N - 1 \in 1..(N - 1)
    BY RankFacts
  <1>1. ASSUME NEW q \in Peers(i) PROVE q[2] <= PeerAt(i, N - 1)
    <2>1. q[2] \in Ranks /\ q[2] # i
      BY PairParts DEF Peers
    <2>2. q[2] \in Nat /\ q[2] <= N - 1
      BY <2>1, RankFacts
    <2> QED BY <1>0, <2>1, <2>2 DEF PeerAt
  <1>2. Peers(i) = {q \in Peers(i) : q[2] <= PeerAt(i, N - 1)}
    BY <1>1
  <1>3. Cardinality({q \in Peers(i) : q[2] <= PeerAt(i, N - 1)}) = N - 1
    BY <1>0, PeersUpTo
  <1> QED BY <1>2, <1>3 DEF Peers

\* Ordered lists peers of the rank.
LEMMA OrderedPeers ==
    ASSUME NEW i \in Ranks
    PROVE  /\ DOMAIN Ordered(i) = 1..(N - 1) /\ N - 1 \in Nat
           /\ \A k \in 1..(N - 1) : Ordered(i)[k] \in Pairs /\ Ordered(i)[k][1] = i
  <1>1. Ordered(i) = [k \in 1..(N - 1) |->
            CHOOSE p \in Peers(i) : Cardinality({q \in Peers(i) : q[2] <= p[2]}) = k]
    BY PeersCount DEF Ordered
  <1>2. ASSUME NEW k \in 1..(N - 1)
        PROVE  (CHOOSE p \in Peers(i) : Cardinality({q \in Peers(i) : q[2] <= p[2]}) = k) \in Peers(i)
    <2>1. PICK p \in Peers(i) : p = <<i, PeerAt(i, k)>> /\ p[2] = PeerAt(i, k)
      BY PeersUpTo
    <2>2. Cardinality({q \in Peers(i) : q[2] <= p[2]}) = k
      BY <2>1, PeersUpTo
    <2> QED BY <2>2
  <1>3. N - 1 \in Nat
    BY RankFacts
  <1> QED BY <1>1, <1>2, <1>3 DEF Peers

\* The operations that comm_wait_all_on_stream queues, and those that wait for
\* nothing but a request, are neither doorbells nor waits for a ready.
Plain(i, op) == op \in Op /\ op.pair[1] = i /\ op.op \notin {"ring", "wait"}

LEMMA PlainConcat ==
    ASSUME NEW i, NEW a \in Seq(Op), NEW b \in Seq(Op),
           \A x \in 1..Len(a) : Plain(i, a[x]), \A x \in 1..Len(b) : Plain(i, b[x])
    PROVE  a \o b \in Seq(Op) /\ \A x \in 1..Len(a \o b) : Plain(i, (a \o b)[x])
  <1>1. a \o b \in Seq(Op) /\ Len(a \o b) = Len(a) + Len(b) /\ Len(a) \in Nat /\ Len(b) \in Nat
    BY SeqConcat, SeqElem
  <1>2. ASSUME NEW x \in 1..Len(a \o b) PROVE Plain(i, (a \o b)[x])
    <2>1. x \in 1..Len(a) \/ x \in (Len(a) + 1)..(Len(a) + Len(b))
      BY <1>1
    <2> QED BY <2>1, SeqConcat
  <1> QED BY <1>1, <1>2

LEMMA WaitAllOps ==
    ASSUME TInv, NEW i \in Ranks, WaitAll(i)
    PROVE  \E ops \in Seq(Op) :
              /\ stream' = [stream EXCEPT ![i] = @ \o ops]
              /\ \A x \in 1..Len(ops) : Plain(i, ops[x])
  <1> DEFINE recv(p) == [op |-> "received", pair |-> p, value |-> recvs[p]]
             sent(p) == [op |-> "sent", pair |-> p, value |-> sends[p]]
             a == [k \in DOMAIN Ordered(i) |-> recv(Ordered(i)[k])]
             b == [k \in DOMAIN Ordered(i) |-> sent(Ordered(i)[k])]
  <1>1. ASSUME NEW p \in Pairs, p[1] = i
        PROVE  Plain(i, recv(p)) /\ Plain(i, sent(p)) /\ recv(p) \in Op /\ sent(p) \in Op
    <2>1. recvs[p] \in Nat /\ sends[p] \in Nat
      BY QueueNums
    <2> QED BY <1>1, <2>1 DEF Plain, Op
  <1>2. stream' = [stream EXCEPT ![i] = @ \o (a \o b)]
    BY DEF WaitAll
  <1> HIDE DEF recv, sent
  <1> USE OrderedPeers
  <1>3. a \in Seq(Op) /\ Len(a) = N - 1 /\ \A x \in 1..(N - 1) : Plain(i, a[x])
    <2>1. a = [k \in 1..(N - 1) |-> recv(Ordered(i)[k])]
      OBVIOUS
    <2>2. \A k \in 1..(N - 1) : recv(Ordered(i)[k]) \in Op /\ Plain(i, recv(Ordered(i)[k]))
      BY <1>1
    <2> QED BY <2>1, <2>2
  <1>4. b \in Seq(Op) /\ Len(b) = N - 1 /\ \A x \in 1..(N - 1) : Plain(i, b[x])
    <2>1. b = [k \in 1..(N - 1) |-> sent(Ordered(i)[k])]
      OBVIOUS
    <2>2. \A k \in 1..(N - 1) : sent(Ordered(i)[k]) \in Op /\ Plain(i, sent(Ordered(i)[k]))
      BY <1>1
    <2> QED BY <2>1, <2>2
  <1> HIDE DEF a, b
  <1>5. a \o b \in Seq(Op) /\ \A x \in 1..Len(a \o b) : Plain(i, (a \o b)[x])
    BY <1>3, <1>4, PlainConcat
  <1> QED BY <1>2, <1>5

\* A plain operation concerns no doorbell.
LEMMA PlainOwn ==
    ASSUME NEW i \in Ranks, NEW op, Plain(i, op), NEW q
    PROVE  op \in Op /\ OwnOp(i, op, q) /\ op.op # "ring" /\ op.op # "wait"
  BY DEF Plain, OwnOp

\* The stream of one rank changes, and nothing else.
LEMMA StreamType ==
    ASSUME TInv, NEW i \in Ranks, NEW s \in Seq(Op), OwnSeq(i, s, wqe),
           stream' = [stream EXCEPT ![i] = s],
           UNCHANGED <<tables, queue, dreqs, spinning, app>>
    PROVE  TInv'
  <1>1. stream' \in [Ranks -> Seq(Op)]
    BY DEF TInv, TypeOK
  <1>2. \A j \in Ranks : OwnSeq(j, stream'[j], wqe)
    BY DEF TInv, TypeOK, Own
  <1>3. QueuesOK'
    BY <1>1, <1>2 DEF TInv, TypeOK, QueuesOK, Own, Narrow, queue
  <1>4. TablesOK'
    BY DEF TInv, TypeOK, TablesOK, tables, app
  <1> QED BY <1>3, <1>4, TInvParts DEF TInv, TypeOK, QueuesOK, TablesOK

LEMMA WaitAllType ==
    ASSUME TInv, NEW i \in Ranks, WaitAll(i)
    PROVE  TInv'
  <1>1. PICK ops \in Seq(Op) : /\ stream' = [stream EXCEPT ![i] = @ \o ops]
                               /\ \A x \in 1..Len(ops) : Plain(i, ops[x])
    BY WaitAllOps
  <1>2. stream[i] \in Seq(Op) /\ OwnSeq(i, stream[i], wqe)
    BY Dreqs DEF TInv, Own
  <1>3. OwnSeq(i, ops, wqe)
    BY <1>1, PlainOwn DEF OwnSeq
  <1>4. stream[i] \o ops \in Seq(Op) /\ OwnSeq(i, stream[i] \o ops, wqe)
    BY <1>2, <1>3, SeqConcat, OwnConcat
  <1>5. stream' = [stream EXCEPT ![i] = stream[i] \o ops]
    BY <1>1
  <1>6. UNCHANGED <<tables, queue, dreqs, spinning, app>>
    BY DEF WaitAll
  <1> QED BY <1>4, <1>5, <1>6, StreamType

LEMMA StreamWaitType ==
    ASSUME TInv, NEW i \in Ranks, StreamWait(i)
    PROVE  TInv'
  <1>1. /\ stream[i] # <<>> /\ stream' = [stream EXCEPT ![i] = Tail(stream[i])]
        /\ UNCHANGED <<tables, queue, dreqs, spinning, app>>
    BY DEF StreamWait
  <1> QED BY <1>1, HeadOp, StreamType

-----------------------------------------------------------------------------
(* The calls are steps of the library *)

LEMMA CallIsNext ==
    ASSUME PType, NEW i \in Ranks,
           Irecv(i) \/ SendReady(i) \/ WaitReady(i) \/ SpinReturn(i) \/ Isend(i)
    PROVE  Next
  <1>1. <<i, peer[i]>> \in Pairs
    BY TypesAt, PairIs
  <1> PICK p \in Pairs : p = <<i, peer[i]>>
    BY <1>1
  <1>2. \/ comm_irecv(p) \/ comm_send_ready(p) \/ comm_send_ready_on_stream(p)
        \/ comm_wait_ready(p) \/ WaitReadyReturn(p) \/ comm_wait_ready_on_stream(p)
        \/ comm_isend(p) \/ comm_isend_on_stream(p)
    BY DEF Irecv, SendReady, WaitReady, SpinReturn, Isend
  <1> QED BY <1>2 DEF Next

LEMMA StepKinds ==
    ASSUME PType, [PingpongNext]_allvars
    PROVE  [Next]_vars \/ \E i \in Ranks : WaitAll(i) \/ StreamWait(i)
  <1>1. CASE UNCHANGED allvars
    BY <1>1 DEF allvars
  <1>2. ASSUME NEW i \in Ranks, Program(i)
        PROVE  [Next]_vars \/ WaitAll(i)
    <2>1. CASE Irecv(i) \/ SendReady(i) \/ WaitReady(i) \/ SpinReturn(i) \/ Isend(i)
      BY <2>1, CallIsNext
    <2>2. CASE Synchronize(i) \/ Flush(i)
      BY <2>2 DEF Synchronize, Flush
    <2> QED BY <1>2, <2>1, <2>2 DEF Program
  <1>3. ASSUME NEW i \in Ranks, Gpu(i)
        PROVE  Next \/ StreamWait(i)
    BY <1>3 DEF Gpu, Next
  <1>4. ASSUME NEW p \in Pairs, Hca(p)
        PROVE  Next
    BY <1>4 DEF Hca, Next
  <1> QED BY <1>1, <1>2, <1>3, <1>4 DEF PingpongNext

LEMMA StepType ==
    ASSUME TInv, PType, [PingpongNext]_allvars
    PROVE  TInv'
  BY StepKinds, NextType, WaitAllType, StreamWaitType

-----------------------------------------------------------------------------
(* The invariant, call by call *)

\* Where rank i stands.
LEMMA At ==
    ASSUME PInv, NEW i \in Ranks
    PROVE  /\ TInv /\ PType /\ Placed /\ Counted /\ Alternate /\ Direct /\ Quiet /\ Tracked
           /\ sa[i] \in BOOLEAN /\ line[i] \in Lines /\ peer[i] \in Ranks /\ peer[i] # i
           /\ iter[i] \in Nat /\ n_reqs[i] \in Nat /\ peer[i] \in Nat
           /\ <<i, peer[i]>> \in Pairs
           /\ PlaceOf(line[i], sa[i], peer[i], First(i), iter[i])
           /\ n_reqs[i] = IF line[i] = "freed" THEN 0
                          ELSE TrackedOf(i, line[i], sa[i], peer[i], iter[i])
  <1>1. TInv /\ PType /\ Placed /\ Counted /\ Alternate /\ Direct /\ Quiet /\ Tracked
    BY DEF PInv, Control
  <1>2. /\ sa[i] \in BOOLEAN /\ line[i] \in Lines /\ peer[i] \in Ranks /\ peer[i] # i
        /\ iter[i] \in Nat /\ n_reqs[i] \in Nat /\ peer[i] \in Nat
    BY <1>1, TypesAt
  <1>3. <<i, peer[i]>> \in Pairs
    BY <1>2, PairIs
  <1> QED BY <1>1, <1>2, <1>3 DEF Placed, Tracked

LEMMA StayIs ==
    ASSUME PType, NEW i \in Ranks
    PROVE  /\ peer = [peer EXCEPT ![i] = peer[i]] /\ iter = [iter EXCEPT ![i] = iter[i]]
           /\ \A l2 : Goto(i, l2) /\ UNCHANGED <<sa, iter>> => Moves(i, l2, peer[i], iter[i])
  <1>1. peer = [peer EXCEPT ![i] = peer[i]] /\ iter = [iter EXCEPT ![i] = iter[i]]
    BY DEF PType
  <1> QED BY <1>1 DEF Goto, Moves

LEMMA Tracks ==
    ASSUME PType, NEW i \in Ranks, comm_track_request(i)
    PROVE  /\ n_reqs' \in [Ranks -> Nat] /\ n_reqs'[i] = n_reqs[i] + 1
           /\ \A j \in Ranks : j # i => n_reqs'[j] = n_reqs[j]
  BY DEF PType, comm_track_request

\* Nothing was posted.
LEMMA AlternateSame ==
    ASSUME Alternate, UNCHANGED <<wqe, rung, done, readies, sends>>
    PROVE  Alternate'
  BY DEF Alternate

LEMMA IrecvKeeps ==
    ASSUME PInv, NEW i \in Ranks, Irecv(i)
    PROVE  Control' /\ Quiet' /\ Tracked'
  <1> DEFINE c == peer[i]
             p == <<i, peer[i]>>
             n == iter[i]
  <1>0. /\ TInv /\ PType /\ Placed /\ Counted /\ Alternate /\ Direct /\ Quiet /\ Tracked
        /\ sa[i] \in BOOLEAN /\ c \in Ranks /\ c # i /\ n \in Nat /\ c \in Nat /\ p \in Pairs
    BY At
  <1>1. /\ line[i] = "irecv" /\ recvs' = [recvs EXCEPT ![p] = @ + 1]
        /\ UNCHANGED <<wqe, rung, done, stream, dreqs, spinning, readies, waits, sends>>
        /\ comm_track_request(i)
    BY DEF Irecv, comm_irecv, queue, gpu
  <1>2. Moves(i, "send_ready", c, n)
    BY <1>0, StayIs DEF Irecv
  <1>3. PType' /\ Placed'
    <2>1. PlaceOf("irecv", sa[i], c, First(i), n)
      BY <1>1, At
    <2>2. PlaceOf("send_ready", sa[i], c, First(i), n)
      BY <2>1 DEF PlaceOf, AllReadied
    <2>3. "send_ready" \in Lines
      BY DEF Lines
    <2> QED BY <1>0, <1>1, <1>2, <2>2, <2>3, Tracks, PlaceStep
  <1>4. Counted'
    <2>0. Bumped(recvs, recvs', p)
      BY <1>0, <1>1, Bump DEF TInv, TypeOK
    <2>1. ASSUME NEW q \in Pairs, q[1] # i
          PROVE  recvs'[q] = recvs[q] /\ readies'[q] = readies[q] /\ waits'[q] = waits[q]
                 /\ sends'[q] = sends[q]
      <3>1. q # p
        BY <1>0, <2>1, PairIs
      <3> QED BY <1>1, <2>0, <3>1 DEF Bumped
    <2>2. ASSUME NEW q \in Pairs, q[1] = i
          PROVE  CountsOf("send_ready", sa[i], c, q[2], n, recvs'[q], readies'[q], waits'[q], sends'[q])
      <3>1. CountsOf("irecv", sa[i], c, q[2], n, recvs[q], readies[q], waits[q], sends[q])
        BY <1>0, <1>1, <2>2, CountsAt
      <3>2. recvs'[q] = (IF q[2] = c THEN recvs[q] + 1 ELSE recvs[q])
        BY <1>0, <2>0, <2>2, PairIs DEF Bumped
      <3>3. q[2] \in Nat
        BY PairParts
      <3>4. CountsOf("send_ready", sa[i], c, q[2], n, IF q[2] = c THEN recvs[q] + 1 ELSE recvs[q],
                     readies[q], waits[q], sends[q])
        BY <1>0, <3>1, <3>3, CountIrecv
      <3> QED BY <1>1, <3>2, <3>4
    <2> QED BY <1>0, <1>2, <2>1, <2>2, CountedStep
  <1>5. Alternate'
    BY <1>0, <1>1, AlternateSame
  <1>6. Direct'
    <2>1. \A j \in Ranks : spinning'[j] = IF j # i THEN spinning[j] ELSE NoRank
      BY <1>0, <1>1 DEF Direct
    <2>2. \A q \in Pairs : q[1] = i /\ ~sa[i] => rung'[q] = Len(wqe'[q])
      BY <1>0, <1>1 DEF Direct, NoneHeld
    <2> QED BY <1>0, <1>1, <1>2, <2>1, <2>2, DirectStep
  <1>7. Quiet'
    BY <1>0, <1>1, <1>2, QuietStep
  <1>8. Tracked'
    <2>1. n_reqs[i] = TrackedOf(i, "irecv", sa[i], c, n)
      BY <1>1, At
    <2>2. n_reqs'[i] = TrackedOf(i, "send_ready", sa[i], c, n)
      BY <1>0, <1>1, <2>1, Tracks, TrackIrecv
    <2> QED BY <1>0, <1>1, <1>2, <2>2, Tracks, TrackedStep
  <1> QED BY <1>3, <1>4, <1>5, <1>6, <1>7, <1>8 DEF Control

\* A post in either mode.
Posts(i, p, w) == (sa[i] /\ PostOnStream(p, w)) \/ (~sa[i] /\ PostRung(p, w))

Posted(i, p, w) ==
    /\ wqe' = [wqe EXCEPT ![p] = Append(@, w)] /\ done' = done /\ dreqs' = dreqs
    /\ \A q \in Pairs : rung[q] <= rung'[q]
    /\ \A j \in Ranks : j # i \/ ~sa[i] => stream'[j] = stream[j]
    /\ \A q \in Pairs : q[1] # i => rung'[q] = rung[q] /\ wqe'[q] = wqe[q]
    /\ \A q \in Pairs : q[1] = i /\ ~sa[i] => rung'[q] = Len(wqe'[q])

LEMMA PostsDo ==
    ASSUME TInv, PType, Direct, NEW i \in Ranks, NEW p \in Pairs, p[1] = i,
           NEW w \in WorkRequest, Posts(i, p, w)
    PROVE  Posted(i, p, w)
  <1>1. wqe' = [wqe EXCEPT ![p] = Append(@, w)] /\ done' = done /\ dreqs' = dreqs
    BY DEF Posts, PostOnStream, PostRung
  <1>2. /\ wqe \in [Pairs -> Seq(WorkRequest)] /\ rung \in [Pairs -> Nat]
        /\ stream \in [Ranks -> Seq(Op)]
    BY DEF TInv, TypeOK
  <1>3. /\ wqe'[p] = Append(wqe[p], w) /\ Len(wqe'[p]) = Len(wqe[p]) + 1
        /\ \A q \in Pairs : q # p => wqe'[q] = wqe[q]
    BY <1>1, <1>2, SeqAppend
  <1>4. Len(wqe[p]) \in Nat /\ rung[p] <= Len(wqe[p]) /\ rung[p] \in Nat
    BY QueueNums
  <1>5. CASE sa[i] /\ PostOnStream(p, w)
    <2> PICK op : op = RingOp(p, Len(wqe[p]) + 1)
      OBVIOUS
    <2>1. rung' = rung /\ stream' = [stream EXCEPT ![i] = Append(@, op)]
      BY <1>5 DEF PostOnStream
    <2> QED BY <1>1, <1>2, <1>3, <1>5, <2>1 DEF Posted
  <1>6. CASE ~sa[i] /\ PostRung(p, w)
    <2>1. rung' = [rung EXCEPT ![p] = Len(wqe[p]) + 1] /\ stream' = stream
      BY <1>6 DEF PostRung
    <2>2. \A q \in Pairs : rung[q] <= rung'[q]
      BY <1>2, <1>4, <2>1
    <2>3. \A q \in Pairs : q # p => rung'[q] = rung[q]
      BY <1>2, <2>1
    <2>4. rung'[p] = Len(wqe'[p])
      BY <1>2, <1>3, <2>1
    <2>5. \A q \in Pairs : q[1] = i => rung[q] = Len(wqe[q])
      BY <1>6 DEF Direct, NoneHeld
    <2> QED BY <1>1, <1>3, <2>1, <2>2, <2>3, <2>4, <2>5 DEF Posted
  <1> QED BY <1>5, <1>6 DEF Posts

LEMMA DirectPost ==
    ASSUME PType, Direct, NEW i \in Ranks, NEW l2, NEW c2, NEW n2, Moves(i, l2, c2, n2),
           NEW p, NEW w, Posted(i, p, w), l2 # "spin", spinning' = spinning, spinning[i] = NoRank
    PROVE  Direct'
  <1>1. \A j \in Ranks : spinning'[j] = (IF j # i THEN spinning[j]
                                         ELSE IF l2 = "spin" THEN c2 ELSE NoRank)
    OBVIOUS
  <1>2. dreqs' = dreqs
    BY DEF Posted
  <1>3. \A j \in Ranks : j # i \/ ~sa[i] => stream'[j] = stream[j]
    BY DEF Posted
  <1>4. \A q \in Pairs : q[1] # i => rung'[q] = rung[q] /\ wqe'[q] = wqe[q]
    BY DEF Posted
  <1>5. \A q \in Pairs : q[1] = i /\ ~sa[i] => rung'[q] = Len(wqe'[q])
    BY DEF Posted
  <1> QED BY <1>1, <1>2, <1>3, <1>4, <1>5, DirectStep

LEMMA CountsHere ==
    ASSUME PInv, NEW i \in Ranks
    PROVE  CountsOf(line[i], sa[i], peer[i], peer[i], iter[i], recvs[<<i, peer[i]>>],
                    readies[<<i, peer[i]>>], waits[<<i, peer[i]>>], sends[<<i, peer[i]>>])
  <1>1. /\ Counted /\ <<i, peer[i]>> \in Pairs /\ <<i, peer[i]>>[1] = i
        /\ <<i, peer[i]>>[2] = peer[i]
    BY At, PairIs
  <1> PICK p \in Pairs : p = <<i, peer[i]>>
    BY <1>1
  <1> QED BY <1>1, CountsAt

LEMMA SendReadyDoes ==
    ASSUME TInv, PType, NEW i \in Ranks, SendReady(i), NEW p \in Pairs, p = <<i, peer[i]>>
    PROVE  /\ line[i] = "send_ready" /\ Loop(i, "irecv", "wait_ready") /\ UNCHANGED <<sa, iter>>
           /\ Posts(i, p, Ready(remote_ready_values[p], TRUE))
           /\ readies' = [readies EXCEPT ![p] = @ + 1]
           /\ UNCHANGED <<spinning, recvs, waits, sends>>
           /\ IF sa[i] THEN comm_track_request(i) ELSE UNCHANGED n_reqs
           /\ Idle(i)
  <1>1. p[1] = i
    BY TypesAt, PairIs
  <1>2. /\ line[i] = "send_ready" /\ Loop(i, "irecv", "wait_ready") /\ UNCHANGED <<sa, iter>>
        /\ \/ sa[i] /\ comm_send_ready_on_stream(p) /\ comm_track_request(i)
           \/ ~sa[i] /\ comm_send_ready(p) /\ UNCHANGED n_reqs
    BY DEF SendReady
  <1>3. Posts(i, p, Ready(remote_ready_values[p], TRUE)) /\ Announce(p) /\ Idle(p[1])
    BY <1>2 DEF comm_send_ready_on_stream, comm_send_ready, Posts
  <1> QED BY <1>1, <1>2, <1>3 DEF Announce

LEMMA SendReadyKeeps ==
    ASSUME PInv, TInv', NEW i \in Ranks, SendReady(i)
    PROVE  Control' /\ Quiet' /\ Tracked'
  <1> DEFINE c == peer[i]
             n == iter[i]
  <1>0. /\ TInv /\ PType /\ Placed /\ Counted /\ Alternate /\ Direct /\ Quiet /\ Tracked
        /\ sa[i] \in BOOLEAN /\ c \in Ranks /\ c # i /\ n \in Nat /\ c \in Nat
        /\ <<i, c>> \in Pairs
    BY At
  <1> PICK p \in Pairs : p = <<i, c>>
    BY <1>0
  <1> PICK w : w = Ready(remote_ready_values[p], TRUE)
    OBVIOUS
  <1>p. p[1] = i /\ p[2] = c /\ \A q \in Pairs : q[1] = i => (q = p <=> q[2] = c)
    BY <1>0, PairIs
  <1>w. w \in WorkRequest /\ w.kind = "ready"
    BY <1>0, ReadyType DEF TInv
  <1>1. /\ line[i] = "send_ready" /\ Loop(i, "irecv", "wait_ready") /\ UNCHANGED <<sa, iter>>
        /\ Posts(i, p, w) /\ readies' = [readies EXCEPT ![p] = @ + 1]
        /\ UNCHANGED <<spinning, recvs, waits, sends>>
        /\ IF sa[i] THEN comm_track_request(i) ELSE UNCHANGED n_reqs
    BY <1>0, SendReadyDoes
  <1>2. PICK c2 \in Ranks, l2 \in {"irecv", "wait_ready"} :
              /\ c2 # i /\ peer' = [peer EXCEPT ![i] = c2] /\ line' = [line EXCEPT ![i] = l2]
              /\ \/ l2 = "irecv" /\ Onward(i, c, c2)
                 \/ l2 = "wait_ready" /\ Around(i, c, c2)
    BY <1>0, <1>1, LoopStep
  <1>3. Moves(i, l2, c2, n)
    BY <1>0, <1>1, <1>2, StayIs DEF Moves
  <1>4. Posted(i, p, w)
    BY <1>0, <1>1, <1>p, <1>w, PostsDo
  <1>5. Bumped(readies, readies', p)
    BY <1>0, <1>1, Bump DEF TInv, TypeOK
  <1>6. CountsOf("send_ready", sa[i], c, c, n, recvs[p], readies[p], waits[p], sends[p])
    BY <1>1, CountsHere
  <1>7. PType' /\ Placed'
    <2>1. PlaceOf("send_ready", sa[i], c, First(i), n)
      BY <1>1, At
    <2>2. PlaceOf(l2, sa[i], c2, First(i), n) /\ l2 \in Lines /\ l2 # "freed"
      BY <1>2, <2>1 DEF PlaceOf, AllReadied, Lines
    <2>3. n_reqs' \in [Ranks -> Nat]
      BY <1>0, <1>1, Tracks DEF PType
    <2> QED BY <1>0, <1>2, <1>3, <2>2, <2>3, PlaceStep
  <1>8. Counted'
    <2>1. ASSUME NEW q \in Pairs, q[1] # i
          PROVE  recvs'[q] = recvs[q] /\ readies'[q] = readies[q] /\ waits'[q] = waits[q]
                 /\ sends'[q] = sends[q]
      BY <1>1, <1>5, <1>p, <2>1 DEF Bumped
    <2>2. ASSUME NEW q \in Pairs, q[1] = i
          PROVE  CountsOf(l2, sa[i], c2, q[2], n, recvs'[q], readies'[q], waits'[q], sends'[q])
      <3>1. CountsOf("send_ready", sa[i], c, q[2], n, recvs[q], readies[q], waits[q], sends[q])
        BY <1>0, <1>1, <2>2, CountsAt
      <3>2. readies'[q] = (IF q[2] = c THEN readies[q] + 1 ELSE readies[q])
        BY <1>5, <1>p, <2>2 DEF Bumped
      <3>3. q[2] \in Ranks /\ q[2] # i
        BY <2>2, PairParts
      <3>4. CountsOf(l2, sa[i], c2, q[2], n, recvs[q],
                     IF q[2] = c THEN readies[q] + 1 ELSE readies[q], waits[q], sends[q])
        BY <1>0, <1>2, <3>1, <3>3, CountSendReady
      <3> QED BY <1>1, <3>2, <3>4
    <2> QED BY <1>0, <1>3, <2>1, <2>2, CountedStep
  <1>9. Alternate'
    <2>1. readies[p] = n /\ sends[p] = n
      BY <1>0, <1>6 DEF CountsOf, Readied, Sent, AllReadied, AllSent, One
    <2>2. Len(wqe[p]) = n + n
      BY <1>0, <2>1 DEF Alternate
    <2>3. (Len(wqe[p]) + 1) % 2 # 0
      BY <1>0, <2>2
    <2>4. ASSUME NEW q \in Pairs
          PROVE  readies'[q] + sends'[q] =
                    IF q = p THEN readies[q] + sends[q] + 1 ELSE readies[q] + sends[q]
      <3>1. readies[q] \in Nat /\ sends[q] \in Nat
        BY <1>0, QueueNums
      <3> QED BY <1>1, <1>5, <3>1 DEF Bumped
    <2>5. /\ wqe' = [wqe EXCEPT ![p] = Append(@, w)] /\ done' = done
          /\ \A q \in Pairs : rung[q] <= rung'[q]
      BY <1>4 DEF Posted
    <2> QED BY <1>0, <1>w, <2>3, <2>4, <2>5, AlternatePost
  <1>10. Direct'
    <2>1. spinning[i] = NoRank /\ l2 # "spin"
      BY <1>0, <1>1, <1>2 DEF Direct
    <2> QED BY <1>0, <1>1, <1>3, <1>4, <2>1, DirectPost
  <1>11. Quiet'
    <2>1. done' = done
      BY <1>4 DEF Posted
    <2> QED BY <1>0, <1>2, <1>3, <2>1, QuietStep
  <1>12. Tracked'
    <2>1. n_reqs[i] = TrackedOf(i, "send_ready", sa[i], c, n) /\ n_reqs[i] \in Nat
      BY <1>1, At
    <2>2. TrackedOf(i, l2, sa[i], c2, n) = n_reqs[i] + (IF sa[i] THEN 1 ELSE 0)
      BY <1>0, <1>2, <2>1, TrackSendReady
    <2>3. /\ n_reqs'[i] = TrackedOf(i, l2, sa[i], c2, n)
          /\ \A j \in Ranks : j # i => n_reqs'[j] = n_reqs[j]
      BY <1>0, <1>1, <2>1, <2>2, Tracks
    <2> QED BY <1>0, <1>2, <1>3, <2>3, TrackedStep
  <1> QED BY <1>7, <1>8, <1>9, <1>10, <1>11, <1>12 DEF Control

LEMMA IsendDoes ==
    ASSUME TInv, PType, NEW i \in Ranks, Isend(i), NEW p \in Pairs, p = <<i, peer[i]>>
    PROVE  /\ line[i] = "isend" /\ Loop(i, "wait_ready", IF sa[i] THEN "wait_all" ELSE "flush")
           /\ UNCHANGED <<sa, iter>>
           /\ Posts(i, p, Data(sends[p] + 1))
           /\ sends' = [sends EXCEPT ![p] = @ + 1]
           /\ UNCHANGED <<spinning, recvs, waits, readies>>
           /\ comm_track_request(i)
  <1>2. /\ line[i] = "isend" /\ Loop(i, "wait_ready", IF sa[i] THEN "wait_all" ELSE "flush")
        /\ UNCHANGED <<sa, iter>> /\ comm_track_request(i)
        /\ \/ sa[i] /\ comm_isend_on_stream(p)
           \/ ~sa[i] /\ comm_isend(p)
    BY DEF Isend
  <1>3. Posts(i, p, Data(sends[p] + 1)) /\ MaySend(p)
    BY <1>2 DEF comm_isend_on_stream, comm_isend, Posts
  <1> QED BY <1>2, <1>3 DEF MaySend

LEMMA IsendKeeps ==
    ASSUME PInv, TInv', NEW i \in Ranks, Isend(i)
    PROVE  Control' /\ Quiet' /\ Tracked'
  <1> DEFINE c == peer[i]
             n == iter[i]
  <1>0. /\ TInv /\ PType /\ Placed /\ Counted /\ Alternate /\ Direct /\ Quiet /\ Tracked
        /\ sa[i] \in BOOLEAN /\ c \in Ranks /\ c # i /\ n \in Nat /\ c \in Nat
        /\ <<i, c>> \in Pairs
    BY At
  <1> PICK p \in Pairs : p = <<i, c>>
    BY <1>0
  <1> PICK w : w = Data(sends[p] + 1)
    OBVIOUS
  <1>p. p[1] = i /\ p[2] = c /\ \A q \in Pairs : q[1] = i => (q = p <=> q[2] = c)
    BY <1>0, PairIs
  <1>w. w \in WorkRequest /\ w.kind = "data"
    BY <1>0, ReadyType DEF TInv
  <1>1. /\ line[i] = "isend" /\ Loop(i, "wait_ready", IF sa[i] THEN "wait_all" ELSE "flush") /\ UNCHANGED <<sa, iter>>
        /\ Posts(i, p, w) /\ sends' = [sends EXCEPT ![p] = @ + 1]
        /\ UNCHANGED <<spinning, recvs, waits, readies>>
        /\ comm_track_request(i)
    BY <1>0, IsendDoes
  <1>2. PICK c2 \in Ranks, l2 \in {"wait_ready", "wait_all", "flush"} :
              /\ c2 # i /\ peer' = [peer EXCEPT ![i] = c2] /\ line' = [line EXCEPT ![i] = l2]
              /\ \/ l2 = "wait_ready" /\ Onward(i, c, c2)
                 \/ l2 = (IF sa[i] THEN "wait_all" ELSE "flush") /\ Around(i, c, c2)
    BY <1>0, <1>1, LoopStep
  <1>3. Moves(i, l2, c2, n)
    BY <1>0, <1>1, <1>2, StayIs DEF Moves
  <1>4. Posted(i, p, w)
    BY <1>0, <1>1, <1>p, <1>w, PostsDo
  <1>5. Bumped(sends, sends', p)
    BY <1>0, <1>1, Bump DEF TInv, TypeOK
  <1>6. CountsOf("isend", sa[i], c, c, n, recvs[p], readies[p], waits[p], sends[p])
    BY <1>1, CountsHere
  <1>7. PType' /\ Placed'
    <2>1. PlaceOf("isend", sa[i], c, First(i), n)
      BY <1>1, At
    <2>2. PlaceOf(l2, sa[i], c2, First(i), n) /\ l2 \in Lines /\ l2 # "freed"
      <3>1. CASE l2 = "wait_ready"
        BY <2>1, <3>1 DEF PlaceOf, AllReadied, Lines
      <3>2. CASE l2 = (IF sa[i] THEN "wait_all" ELSE "flush") /\ c2 = First(i)
        BY <2>1, <3>2 DEF PlaceOf, AllReadied, Lines
      <3> QED BY <1>2, <3>1, <3>2 DEF Around
    <2>3. n_reqs' \in [Ranks -> Nat]
      BY <1>0, <1>1, Tracks DEF PType
    <2> QED BY <1>0, <1>2, <1>3, <2>2, <2>3, PlaceStep
  <1>8. Counted'
    <2>1. ASSUME NEW q \in Pairs, q[1] # i
          PROVE  recvs'[q] = recvs[q] /\ readies'[q] = readies[q] /\ waits'[q] = waits[q]
                 /\ sends'[q] = sends[q]
      BY <1>1, <1>5, <1>p, <2>1 DEF Bumped
    <2>2. ASSUME NEW q \in Pairs, q[1] = i
          PROVE  CountsOf(l2, sa[i], c2, q[2], n, recvs'[q], readies'[q], waits'[q], sends'[q])
      <3>1. CountsOf("isend", sa[i], c, q[2], n, recvs[q], readies[q], waits[q], sends[q])
        BY <1>0, <1>1, <2>2, CountsAt
      <3>2. sends'[q] = (IF q[2] = c THEN sends[q] + 1 ELSE sends[q])
        BY <1>5, <1>p, <2>2 DEF Bumped
      <3>3. q[2] \in Ranks /\ q[2] # i
        BY <2>2, PairParts
      <3>4. CountsOf(l2, sa[i], c2, q[2], n, recvs[q], readies[q], waits[q],
                     IF q[2] = c THEN sends[q] + 1 ELSE sends[q])
        BY <1>0, <1>2, <3>1, <3>3, CountIsend
      <3> QED BY <1>1, <3>2, <3>4
    <2> QED BY <1>0, <1>3, <2>1, <2>2, CountedStep
  <1>9. Alternate'
    <2>1. readies[p] = n + 1 /\ sends[p] = n
      BY <1>0, <1>6 DEF CountsOf, Readied, Sent, AllReadied, AllSent, One
    <2>2. Len(wqe[p]) = n + 1 + n
      BY <1>0, <2>1 DEF Alternate
    <2>3. (Len(wqe[p]) + 1) % 2 = 0
      BY <1>0, <2>2
    <2>4. ASSUME NEW q \in Pairs
          PROVE  readies'[q] + sends'[q] =
                    IF q = p THEN readies[q] + sends[q] + 1 ELSE readies[q] + sends[q]
      <3>1. readies[q] \in Nat /\ sends[q] \in Nat
        BY <1>0, QueueNums
      <3> QED BY <1>1, <1>5, <3>1 DEF Bumped
    <2>5. /\ wqe' = [wqe EXCEPT ![p] = Append(@, w)] /\ done' = done
          /\ \A q \in Pairs : rung[q] <= rung'[q]
      BY <1>4 DEF Posted
    <2> QED BY <1>0, <1>w, <2>3, <2>4, <2>5, AlternatePost
  <1>10. Direct'
    <2>1. spinning[i] = NoRank /\ l2 # "spin"
      BY <1>0, <1>1, <1>2 DEF Direct
    <2> QED BY <1>0, <1>1, <1>3, <1>4, <2>1, DirectPost
  <1>11. Quiet'
    <2>1. done' = done
      BY <1>4 DEF Posted
    <2> QED BY <1>0, <1>2, <1>3, <2>1, QuietStep
  <1>12. Tracked'
    <2>1. n_reqs[i] = TrackedOf(i, "isend", sa[i], c, n) /\ n_reqs[i] \in Nat
      BY <1>1, At
    <2>2. TrackedOf(i, l2, sa[i], c2, n) = n_reqs[i] + 1
      BY <1>0, <1>2, <2>1, TrackIsend
    <2>3. /\ n_reqs'[i] = TrackedOf(i, l2, sa[i], c2, n)
          /\ \A j \in Ranks : j # i => n_reqs'[j] = n_reqs[j]
      BY <1>0, <1>1, <2>1, <2>2, Tracks
    <2> QED BY <1>0, <1>2, <1>3, <2>3, TrackedStep
  <1> QED BY <1>7, <1>8, <1>9, <1>10, <1>11, <1>12 DEF Control


\* The wait of a ready is called, or returns; the two modes differ in where.
LEMMA WaitDoes ==
    ASSUME TInv, PType, Direct, NEW i \in Ranks, NEW p \in Pairs, p = <<i, peer[i]>>,
           WaitReady(i) \/ SpinReturn(i)
    PROVE  \E l2 \in {"spin", "isend"} :
              /\ line[i] \in {"wait_ready", "spin"} /\ Moves(i, l2, peer[i], iter[i])
              /\ l2 = "spin" => line[i] = "wait_ready" /\ ~sa[i] /\ waits' = waits
              /\ l2 = "isend" => waits' = [waits EXCEPT ![p] = @ + 1]
              /\ UNCHANGED <<wqe, rung, done, dreqs, recvs, readies, sends, n_reqs>>
              /\ \A j \in Ranks : j # i \/ ~sa[i] => stream'[j] = stream[j]
              /\ \A j \in Ranks : spinning'[j] = (IF j # i THEN spinning[j]
                                                  ELSE IF l2 = "spin" THEN peer[i] ELSE NoRank)
  <1>0. /\ p[1] = i /\ p[2] = peer[i] /\ spinning \in [Ranks -> Ranks \union {NoRank}]
        /\ stream \in [Ranks -> Seq(Op)]
    BY TypesAt, PairIs DEF TInv, TypeOK
  <1>1. CASE WaitReady(i) /\ sa[i]
    <2>1. /\ line[i] = "wait_ready" /\ comm_wait_ready_on_stream(p) /\ Goto(i, "isend")
          /\ UNCHANGED <<sa, iter, n_reqs>>
      BY <1>1 DEF WaitReady
    <2> PICK op : op = WaitOp(p, ready_values[p])
      OBVIOUS
    <2>2. /\ stream' = [stream EXCEPT ![i] = Append(@, op)]
          /\ waits' = [waits EXCEPT ![p] = @ + 1] /\ spinning[i] = NoRank
          /\ UNCHANGED <<wqe, rung, done, dreqs, spinning, recvs, readies, sends>>
      BY <1>0, <2>1 DEF comm_wait_ready_on_stream, Expect, queue, Idle
    <2>3. Moves(i, "isend", peer[i], iter[i])
      BY <2>1, StayIs
    <2>4. \A j \in Ranks : j # i \/ ~sa[i] => stream'[j] = stream[j]
      BY <1>0, <1>1, <2>2
    <2> QED BY <2>1, <2>2, <2>3, <2>4
  <1>2. CASE WaitReady(i) /\ ~sa[i]
    <2>1. /\ line[i] = "wait_ready" /\ comm_wait_ready(p) /\ Goto(i, "spin")
          /\ UNCHANGED <<sa, iter, n_reqs>>
      BY <1>2 DEF WaitReady
    <2>2. /\ spinning' = [spinning EXCEPT ![i] = peer[i]]
          /\ UNCHANGED <<wqe, rung, done, stream, dreqs, recvs, readies, sends, waits>>
      BY <1>0, <2>1 DEF comm_wait_ready, queue, gpu, app
    <2>3. Moves(i, "spin", peer[i], iter[i])
      BY <2>1, StayIs
    <2>4. \A j \in Ranks : spinning'[j] = IF j # i THEN spinning[j] ELSE peer[i]
      BY <1>0, <2>2
    <2> QED BY <1>2, <2>1, <2>2, <2>3, <2>4
  <1>3. CASE SpinReturn(i)
    <2>1. /\ line[i] = "spin" /\ WaitReadyReturn(p) /\ Goto(i, "isend")
          /\ UNCHANGED <<sa, iter, n_reqs>>
      BY <1>3 DEF SpinReturn
    <2>2. /\ spinning' = [spinning EXCEPT ![i] = NoRank] /\ waits' = [waits EXCEPT ![p] = @ + 1]
          /\ UNCHANGED <<wqe, rung, done, stream, dreqs, recvs, readies, sends>>
      BY <1>0, <2>1 DEF WaitReadyReturn, Expect, queue, gpu
    <2>3. Moves(i, "isend", peer[i], iter[i])
      BY <2>1, StayIs
    <2>4. \A j \in Ranks : spinning'[j] = IF j # i THEN spinning[j] ELSE NoRank
      BY <1>0, <2>2
    <2> QED BY <2>1, <2>2, <2>3, <2>4
  <1> QED BY <1>1, <1>2, <1>3

LEMMA WaitKeeps ==
    ASSUME PInv, NEW i \in Ranks, WaitReady(i) \/ SpinReturn(i)
    PROVE  Control' /\ Quiet' /\ Tracked'
  <1> DEFINE c == peer[i]
             n == iter[i]
  <1>0. /\ TInv /\ PType /\ Placed /\ Counted /\ Alternate /\ Direct /\ Quiet /\ Tracked
        /\ sa[i] \in BOOLEAN /\ c \in Ranks /\ c # i /\ n \in Nat /\ c \in Nat
        /\ <<i, c>> \in Pairs
    BY At
  <1> PICK p \in Pairs : p = <<i, c>>
    BY <1>0
  <1>p. p[1] = i /\ p[2] = c /\ \A q \in Pairs : q[1] = i => (q = p <=> q[2] = c)
    BY <1>0, PairIs
  <1>1. PICK l2 \in {"spin", "isend"} :
              /\ line[i] \in {"wait_ready", "spin"} /\ Moves(i, l2, c, n)
              /\ l2 = "spin" => line[i] = "wait_ready" /\ ~sa[i] /\ waits' = waits
              /\ l2 = "isend" => waits' = [waits EXCEPT ![p] = @ + 1]
              /\ UNCHANGED <<wqe, rung, done, dreqs, recvs, readies, sends, n_reqs>>
              /\ \A j \in Ranks : j # i \/ ~sa[i] => stream'[j] = stream[j]
              /\ \A j \in Ranks : spinning'[j] = (IF j # i THEN spinning[j]
                                                  ELSE IF l2 = "spin" THEN c ELSE NoRank)
    BY <1>0, WaitDoes
  <1>2. PType' /\ Placed'
    <2>1. PlaceOf(line[i], sa[i], c, First(i), n)
      BY At
    <2>2. PlaceOf(l2, sa[i], c, First(i), n) /\ l2 \in Lines
      BY <1>1, <2>1 DEF PlaceOf, AllReadied, Lines
    <2>3. n_reqs' \in [Ranks -> Nat]
      BY <1>0, <1>1 DEF PType
    <2> QED BY <1>0, <1>1, <2>2, <2>3, PlaceStep
  <1>3. Counted'
    <2>0. l2 = "isend" => Bumped(waits, waits', p)
      BY <1>0, <1>1, Bump DEF TInv, TypeOK
    <2>1. ASSUME NEW q \in Pairs, q[1] # i
          PROVE  recvs'[q] = recvs[q] /\ readies'[q] = readies[q] /\ waits'[q] = waits[q]
                 /\ sends'[q] = sends[q]
      BY <1>1, <1>p, <2>0, <2>1 DEF Bumped
    <2>2. ASSUME NEW q \in Pairs, q[1] = i
          PROVE  CountsOf(l2, sa[i], c, q[2], n, recvs'[q], readies'[q], waits'[q], sends'[q])
      <3>1. CountsOf(line[i], sa[i], c, q[2], n, recvs[q], readies[q], waits[q], sends[q])
        BY <1>0, <1>1, <2>2, CountsAt
      <3>2. q[2] \in Nat
        BY PairParts
      <3>3. CASE l2 = "spin"
        BY <1>0, <1>1, <3>1, <3>2, <3>3, CountWait
      <3>4. CASE l2 = "isend"
        <4>1. waits'[q] = (IF q[2] = c THEN waits[q] + 1 ELSE waits[q])
          BY <1>p, <2>0, <2>2, <3>4 DEF Bumped
        <4>2. CountsOf("isend", sa[i], c, q[2], n, recvs[q], readies[q],
                       IF q[2] = c THEN waits[q] + 1 ELSE waits[q], sends[q])
          BY <1>0, <1>1, <3>1, <3>2, CountWait
        <4> QED BY <1>1, <3>4, <4>1, <4>2
      <3> QED BY <3>3, <3>4
    <2> QED BY <1>0, <1>1, <2>1, <2>2, CountedStep
  <1>4. Alternate'
    BY <1>0, <1>1, AlternateSame
  <1>5. Direct'
    <2>1. \A q \in Pairs : q[1] = i /\ ~sa[i] => rung'[q] = Len(wqe'[q])
      BY <1>0, <1>1 DEF Direct, NoneHeld
    <2>2. /\ dreqs' = dreqs /\ Moves(i, l2, c, n)
          /\ \A q \in Pairs : q[1] # i => rung'[q] = rung[q] /\ wqe'[q] = wqe[q]
      BY <1>1
    <2> QED BY <1>0, <1>1, <2>1, <2>2, DirectStep
  <1>6. Quiet'
    BY <1>0, <1>1, QuietStep
  <1>7. Tracked'
    <2>1. n_reqs[i] = TrackedOf(i, line[i], sa[i], c, n)
      BY <1>1, At
    <2>2. n_reqs'[i] = TrackedOf(i, l2, sa[i], c, n)
      BY <1>0, <1>1, <2>1, TrackWait
    <2> QED BY <1>0, <1>1, <2>2, TrackedStep
  <1> QED BY <1>2, <1>3, <1>4, <1>5, <1>6, <1>7 DEF Control

-----------------------------------------------------------------------------
(* The end of an iteration, and of the program *)

\* As the messages are every second work request, the HCA has executed twice as many
\* as the messages it has executed.
LEMMA ExecutedTwice ==
    ASSUME TInv, Alternate, NEW p \in Pairs, Executed(p, "data") >= Iters
    PROVE  done[p] >= 2 * Iters
  <1> DEFINE S == {k \in 1..done[p] : wqe[p][k].kind = "data"}
             T == 1..(Iters - 1)
             g == [k \in S |-> k \div 2]
  <1>0. /\ done[p] \in Nat /\ rung[p] \in Nat /\ Len(wqe[p]) \in Nat
        /\ done[p] <= rung[p] /\ rung[p] <= Len(wqe[p]) /\ AlternateOf(wqe[p])
        /\ Iters \in Nat \ {0}
    BY QueueNums, RankFacts DEF Alternate
  <1>1. ASSUME NEW k \in S PROVE k \in Nat /\ k >= 1 /\ k <= done[p] /\ k % 2 = 0
    <2>1. k \in 1..Len(wqe[p]) /\ wqe[p][k].kind = "data"
      BY <1>0
    <2>2. wqe[p][k].kind = (IF k % 2 = 0 THEN "data" ELSE "ready")
      BY <1>0, <2>1 DEF AlternateOf
    <2> QED BY <1>0, <2>1, <2>2
  <1> SUFFICES ASSUME done[p] < 2 * Iters PROVE FALSE
    BY <1>0
  <1> HIDE DEF S
  <1>2. ASSUME NEW k \in S PROVE k \div 2 \in T /\ k = 2 * (k \div 2)
    BY <1>0, <1>1
  <1>3. g \in [S -> T]
    BY <1>2
  <1>4. ASSUME NEW a \in S, NEW b \in S, g[a] = g[b] PROVE a = b
    BY <1>2, <1>4
  <1> HIDE DEF T, g
  <1>5. g \in Injection(S, T)
    BY <1>3, <1>4 DEF Injection, IsInjective
  <1>6. IsFiniteSet(T) /\ Cardinality(T) = Iters - 1
    <2>1. 1 \in Int /\ Iters - 1 \in Int
      BY <1>0
    <2>2. /\ IsFiniteSet(1..(Iters - 1))
          /\ Cardinality(1..(Iters - 1)) = IF 1 > Iters - 1 THEN 0 ELSE (Iters - 1) - 1 + 1
      BY <2>1, FS_Interval
    <2> QED BY <1>0, <2>2 DEF T
  <1>7. IsFiniteSet(S) /\ Cardinality(S) <= Iters - 1
    BY <1>5, <1>6, FS_Injection
  <1>8. Cardinality(S) \in Nat
    BY <1>7, FS_CardinalityType
  <1>9. Executed(p, "data") = Cardinality(S)
    BY DEF Executed, S
  <1> QED BY <1>0, <1>7, <1>8, <1>9

\* The end of an iteration counts nothing.
LEMMA EndCounted ==
    ASSUME PInv, NEW i \in Ranks, NEW l2 \in {"irecv", "synchronize", "freed"},
           Moves(i, l2, peer[i], iter[i] + 1),
           line[i] = "wait_all" \/ (line[i] = "flush" /\ ~sa[i]),
           UNCHANGED <<recvs, readies, waits, sends>>
    PROVE  Counted'
  <1>0. /\ PType /\ Counted /\ iter[i] \in Nat /\ peer[i] \in Nat
        /\ PlaceOf(line[i], sa[i], peer[i], First(i), iter[i])
    BY At
  <1>1. peer[i] = First(i)
    BY <1>0 DEF PlaceOf
  <1>2. ASSUME NEW q \in Pairs, q[1] = i
        PROVE  CountsOf(l2, sa[i], peer[i], q[2], iter[i] + 1, recvs'[q], readies'[q], waits'[q], sends'[q])
    <2>1. CountsOf(line[i], sa[i], peer[i], q[2], iter[i], recvs[q], readies[q], waits[q], sends[q])
      BY <1>0, <1>2, CountsAt
    <2>2. q[2] \in Nat /\ q[2] \in Ranks /\ q[2] # i
      BY <1>2, PairParts
    <2>3. ~(q[2] < peer[i])
      BY <1>1, <2>2, FirstPeer
    <2>4. CountsOf(l2, sa[i], peer[i], q[2], iter[i] + 1, recvs[q], readies[q], waits[q], sends[q])
      BY <1>0, <2>1, <2>2, <2>3, CountEnd
    <2> QED BY <2>4
  <1> QED BY <1>0, <1>2, CountedStep

LEMMA OverCounted ==
    ASSUME PInv, NEW i \in Ranks, NEW l2, Moves(i, l2, peer[i], iter[i]), sa[i],
           (line[i] = "synchronize" /\ l2 = "flush") \/ (line[i] = "flush" /\ l2 = "freed"),
           UNCHANGED <<recvs, readies, waits, sends>>
    PROVE  Counted'
  <1>0. PType /\ Counted /\ iter[i] \in Nat
    BY At
  <1>2. ASSUME NEW q \in Pairs, q[1] = i
        PROVE  CountsOf(l2, sa[i], peer[i], q[2], iter[i], recvs'[q], readies'[q], waits'[q], sends'[q])
    <2>1. CountsOf(line[i], sa[i], peer[i], q[2], iter[i], recvs[q], readies[q], waits[q], sends[q])
      BY <1>0, <1>2, CountsAt
    <2>2. CountsOf(l2, sa[i], peer[i], q[2], iter[i], recvs[q], readies[q], waits[q], sends[q])
      BY <1>0, <2>1, CountOver
    <2> QED BY <2>2
  <1> QED BY <1>0, <1>2, CountedStep

\* A step that posts nothing and leaves the streams of sync_exchange alone.
LEMMA DirectSame ==
    ASSUME PInv, NEW i \in Ranks, NEW l2, NEW n2, Moves(i, l2, peer[i], n2),
           line[i] # "spin", l2 # "spin", UNCHANGED <<wqe, rung, dreqs, spinning>>,
           \A j \in Ranks : j # i \/ ~sa[i] => stream'[j] = stream[j]
    PROVE  Direct'
  <1>0. PType /\ Direct
    BY At
  <1>1. \A j \in Ranks : spinning'[j] = (IF j # i THEN spinning[j]
                                         ELSE IF l2 = "spin" THEN peer[i] ELSE NoRank)
    BY <1>0 DEF Direct
  <1>2. \A q \in Pairs : q[1] = i /\ ~sa[i] => rung'[q] = Len(wqe'[q])
    BY <1>0 DEF Direct, NoneHeld
  <1>3. \A q \in Pairs : q[1] # i => rung'[q] = rung[q] /\ wqe'[q] = wqe[q]
    OBVIOUS
  <1> QED BY <1>0, <1>1, <1>2, <1>3, DirectStep

LEMMA EndsIteration ==
    ASSUME PType, NEW i \in Ranks, EndIteration(i), UNCHANGED sa
    PROVE  Moves(i, IF iter[i] + 1 < Iters THEN "irecv" ELSE IF sa[i] THEN "synchronize" ELSE "freed",
                 peer[i], iter[i] + 1)
  BY StayIs DEF EndIteration, Goto, Moves, PType

LEMMA WaitAllKeeps ==
    ASSUME PInv, NEW i \in Ranks, WaitAll(i)
    PROVE  Control' /\ Quiet' /\ Tracked'
  <1> DEFINE l2 == IF iter[i] + 1 < Iters THEN "irecv" ELSE "synchronize"
             n == iter[i]
  <1>0. /\ TInv /\ PType /\ Placed /\ Counted /\ Alternate /\ Direct /\ Quiet /\ Tracked
        /\ peer[i] \in Ranks /\ peer[i] # i /\ n \in Nat
        /\ PlaceOf(line[i], sa[i], peer[i], First(i), n)
    BY At
  <1>1. /\ line[i] = "wait_all" /\ EndIteration(i)
        /\ UNCHANGED <<wqe, rung, done, dreqs, spinning, recvs, readies, waits, sends, sa, n_reqs>>
    BY DEF WaitAll, queue, app
  <1>2. sa[i] /\ peer[i] = First(i) /\ n < Iters
    BY <1>0, <1>1 DEF PlaceOf, AllReadied
  <1>3. Moves(i, l2, peer[i], n + 1) /\ l2 \in {"irecv", "synchronize"}
    BY <1>0, <1>1, <1>2, EndsIteration
  <1>4. PlaceOf(l2, sa[i], peer[i], First(i), n + 1)
    BY <1>0, <1>2, RankFacts DEF PlaceOf, AllReadied
  <1> HIDE DEF l2
  <1>5. PType' /\ Placed'
    <2>1. l2 \in Lines /\ n + 1 \in Nat
      BY <1>0, <1>3 DEF Lines
    <2>2. n_reqs' \in [Ranks -> Nat]
      BY <1>0, <1>1 DEF PType
    <2> QED BY <1>0, <1>3, <1>4, <2>1, <2>2, PlaceStep
  <1>6. Counted'
    BY <1>1, <1>3, EndCounted
  <1>7. Alternate'
    BY <1>0, <1>1, AlternateSame
  <1>8. Direct'
    <2>1. PICK ops \in Seq(Op) : stream' = [stream EXCEPT ![i] = @ \o ops]
      BY <1>0, WaitAllOps
    <2>2. \A j \in Ranks : j # i \/ ~sa[i] => stream'[j] = stream[j]
      BY <1>0, <1>2, <2>1 DEF TInv, TypeOK
    <2> QED BY <1>1, <1>3, <2>2, DirectSame
  <1>9. Quiet'
    BY <1>0, <1>1, <1>3, QuietStep
  <1>10. Tracked'
    <2>1. n_reqs[i] = TrackedOf(i, "wait_all", TRUE, peer[i], n)
      BY <1>1, <1>2, At
    <2>2. Passed(i, peer[i]) = 0
      BY <1>2, FirstPeer
    <2>3. TrackedOf(i, l2, TRUE, peer[i], n + 1) = TrackedOf(i, "wait_all", TRUE, peer[i], n)
      BY <1>0, <1>3, <2>2, TrackEnd
    <2>4. n_reqs'[i] = n_reqs[i] /\ sa[i] = TRUE
      BY <1>1, <1>2, At
    <2>5. n_reqs'[i] = TrackedOf(i, l2, sa[i], peer[i], n + 1)
      BY <2>1, <2>3, <2>4
    <2> QED BY <1>0, <1>1, <1>3, <2>5, TrackedStep
  <1> QED BY <1>5, <1>6, <1>7, <1>8, <1>9, <1>10 DEF Control

LEMMA SynchronizeKeeps ==
    ASSUME PInv, NEW i \in Ranks, Synchronize(i)
    PROVE  Control' /\ Quiet' /\ Tracked'
  <1> DEFINE n == iter[i]
  <1>0. /\ TInv /\ PType /\ Placed /\ Counted /\ Alternate /\ Direct /\ Quiet /\ Tracked
        /\ peer[i] \in Ranks /\ peer[i] # i /\ n \in Nat
        /\ PlaceOf(line[i], sa[i], peer[i], First(i), n)
    BY At
  <1>1. /\ line[i] = "synchronize" /\ UNCHANGED <<sa, iter, n_reqs>> /\ Goto(i, "flush")
        /\ UNCHANGED <<wqe, rung, done, stream, dreqs, spinning, recvs, readies, waits, sends>>
    BY DEF Synchronize, vars, queue, gpu, app
  <1>2. sa[i] /\ peer[i] = First(i) /\ n = Iters
    BY <1>0, <1>1 DEF PlaceOf, AllReadied
  <1>3. Moves(i, "flush", peer[i], n)
    BY <1>0, <1>1, StayIs
  <1>4. PType' /\ Placed'
    <2>1. PlaceOf("flush", sa[i], peer[i], First(i), n) /\ "flush" \in Lines
      BY <1>2 DEF PlaceOf, AllReadied, Lines
    <2>2. n_reqs' \in [Ranks -> Nat]
      BY <1>0, <1>1 DEF PType
    <2> QED BY <1>0, <1>3, <2>1, <2>2, PlaceStep
  <1>5. Counted'
    BY <1>1, <1>2, <1>3, OverCounted
  <1>6. Alternate'
    BY <1>0, <1>1, AlternateSame
  <1>7. Direct'
    BY <1>1, <1>3, DirectSame
  <1>8. Quiet'
    BY <1>0, <1>1, <1>3, QuietStep
  <1>9. Tracked'
    <2>1. n_reqs[i] = TrackedOf(i, "synchronize", TRUE, peer[i], n)
      BY <1>1, <1>2, At
    <2>2. Passed(i, peer[i]) = 0
      BY <1>2, FirstPeer
    <2>3. TrackedOf(i, "flush", TRUE, peer[i], n) = TrackedOf(i, "synchronize", TRUE, peer[i], n)
      BY <1>0, <2>2, TrackEnd
    <2>4. n_reqs'[i] = n_reqs[i] /\ sa[i] = TRUE
      BY <1>1, <1>2, At
    <2>5. n_reqs'[i] = TrackedOf(i, "flush", sa[i], peer[i], n)
      BY <2>1, <2>3, <2>4
    <2> QED BY <1>0, <1>1, <1>3, <2>5, TrackedStep
  <1> QED BY <1>4, <1>5, <1>6, <1>7, <1>8, <1>9 DEF Control

\* Who flushes for the last time has seen all its messages and receives complete.
LEMMA FlushQuiet ==
    ASSUME PInv, NEW i \in Ranks, line[i] = "flush", TableComplete(i),
           IF sa[i] THEN iter[i] = Iters ELSE iter[i] + 1 = Iters,
           NEW q \in Pairs, q[1] = i
    PROVE  done[q] >= 2 * Iters /\ done[Rev(q)] >= 2 * Iters
  <1>0. TInv /\ Counted /\ Alternate /\ iter[i] \in Nat /\ sa[i] \in BOOLEAN
    BY At
  <1>1. CountsOf("flush", sa[i], peer[i], q[2], iter[i], recvs[q], readies[q], waits[q], sends[q])
    BY <1>0, CountsAt
  <1>2. recvs[q] = Iters /\ sends[q] = Iters
    <2>1. CASE sa[i]
      BY <1>0, <1>1, <2>1 DEF CountsOf, Received, Sent, AllReadied, AllSent, One
    <2>2. CASE ~sa[i]
      BY <1>0, <1>1, <2>2 DEF CountsOf, Received, Sent, AllReadied, AllSent, One
    <2> QED BY <2>1, <2>2
  <1>3. q \in Peers(i)
    BY DEF Peers
  <1>4. Executed(Rev(q), "data") >= Iters /\ Executed(q, "data") >= Iters
    BY <1>2, <1>3 DEF TableComplete
  <1>5. Rev(q) \in Pairs
    BY RevPair
  <1> QED BY <1>0, <1>4, <1>5, ExecutedTwice

LEMMA FlushKeeps ==
    ASSUME PInv, NEW i \in Ranks, Flush(i)
    PROVE  Control' /\ Quiet' /\ Tracked'
  <1> DEFINE n == iter[i]
  <1>0. /\ TInv /\ PType /\ Placed /\ Counted /\ Alternate /\ Direct /\ Quiet /\ Tracked
        /\ peer[i] \in Ranks /\ peer[i] # i /\ n \in Nat /\ sa[i] \in BOOLEAN
        /\ PlaceOf(line[i], sa[i], peer[i], First(i), n)
    BY At
  <1>1. /\ line[i] = "flush" /\ UNCHANGED sa /\ TableComplete(i)
        /\ n_reqs' = [n_reqs EXCEPT ![i] = 0]
        /\ UNCHANGED <<wqe, rung, done, stream, dreqs, spinning, recvs, readies, waits, sends>>
    BY DEF Flush, vars, queue, gpu, app
  <1>2. peer[i] = First(i) /\ (IF sa[i] THEN n = Iters ELSE n < Iters)
    BY <1>0, <1>1 DEF PlaceOf, AllReadied
  <1>3. PICK l2 \in {"irecv", "freed"}, n2 \in {n, n + 1} :
           /\ Moves(i, l2, peer[i], n2)
           /\ \/ sa[i] /\ l2 = "freed" /\ n2 = n
              \/ ~sa[i] /\ n2 = n + 1 /\ l2 = (IF n + 1 < Iters THEN "irecv" ELSE "freed")
    <2>1. CASE sa[i]
      <3>1. Goto(i, "freed") /\ UNCHANGED <<sa, iter>>
        BY <1>1, <2>1 DEF Flush
      <3>2. Moves(i, "freed", peer[i], n)
        BY <1>0, <3>1, StayIs
      <3> QED BY <2>1, <3>2
    <2>2. CASE ~sa[i]
      <3>1. EndIteration(i) /\ UNCHANGED sa
        BY <1>1, <2>2 DEF Flush
      <3>2. Moves(i, IF n + 1 < Iters THEN "irecv" ELSE "freed", peer[i], n + 1)
        BY <1>0, <2>2, <3>1, EndsIteration
      <3> QED BY <2>2, <3>2
    <2> QED BY <2>1, <2>2
  <1>4. n2 \in Nat
    BY <1>0
  <1>5. PType' /\ Placed'
    <2>1. CASE sa[i]
      <3>1. PlaceOf(l2, sa[i], peer[i], First(i), n2) /\ l2 \in Lines
        BY <1>2, <1>3, <2>1 DEF PlaceOf, AllReadied, Lines
      <3>2. n_reqs' \in [Ranks -> Nat]
        BY <1>0, <1>1 DEF PType
      <3> QED BY <1>0, <1>3, <1>4, <3>1, <3>2, PlaceStep
    <2>2. CASE ~sa[i]
      <3>1. PlaceOf(l2, sa[i], peer[i], First(i), n2) /\ l2 \in Lines
        <4>1. CASE n + 1 < Iters
          BY <1>2, <1>3, <2>2, <4>1 DEF PlaceOf, AllReadied, Lines
        <4>2. CASE n + 1 = Iters
          BY <1>0, <1>2, <1>3, <2>2, <4>2 DEF PlaceOf, AllReadied, Lines
        <4> QED BY <1>0, <1>2, <2>2, <4>1, <4>2, RankFacts
      <3>2. n_reqs' \in [Ranks -> Nat]
        BY <1>0, <1>1 DEF PType
      <3> QED BY <1>0, <1>3, <1>4, <3>1, <3>2, PlaceStep
    <2> QED BY <2>1, <2>2
  <1>6. Counted'
    <2>1. CASE sa[i]
      BY <1>1, <1>3, <2>1, OverCounted
    <2>2. CASE ~sa[i]
      BY <1>1, <1>3, <2>2, EndCounted
    <2> QED BY <2>1, <2>2
  <1>7. Alternate'
    BY <1>0, <1>1, AlternateSame
  <1>8. Direct'
    BY <1>1, <1>3, DirectSame
  <1>9. Quiet'
    <2>1. CASE l2 # "freed"
      BY <1>0, <1>1, <1>3, <2>1, QuietStep
    <2>2. CASE l2 = "freed"
      <3>1. IF sa[i] THEN n = Iters ELSE n + 1 = Iters
        BY <1>0, <1>2, <1>3, <2>2, RankFacts
      <3> SUFFICES ASSUME NEW q \in Pairs, line'[q[1]] = "freed"
                   PROVE  done[q] >= 2 * Iters /\ done[Rev(q)] >= 2 * Iters
        BY <1>1 DEF Quiet, Rev
      <3>2. CASE q[1] = i
        BY <1>1, <3>1, <3>2, FlushQuiet
      <3>3. CASE q[1] # i
        <4>1. line[q[1]] = "freed"
          BY <1>0, <1>3, <3>3, MovesAt, PairParts
        <4> QED BY <1>0, <4>1 DEF Quiet
      <3> QED BY <3>2, <3>3
    <2> QED BY <2>1, <2>2
  <1>10. Tracked'
    <2>1. n_reqs'[i] = 0 /\ \A j \in Ranks : j # i => n_reqs'[j] = n_reqs[j]
      BY <1>0, <1>1 DEF PType
    <2>2. l2 = "irecv" => TrackedOf(i, l2, sa[i], peer[i], n2) = 0
      <3>1. l2 = "irecv" => sa[i] = FALSE /\ n2 = n + 1
        BY <1>0, <1>3
      <3>2. Passed(i, peer[i]) = 0
        BY <1>2, FirstPeer
      <3>3. TrackedOf(i, "irecv", FALSE, peer[i], n + 1) = 0
        BY <1>0, <3>2, TrackEnd
      <3> QED BY <3>1, <3>3
    <2> QED BY <1>0, <1>3, <2>1, <2>2, TrackedStep
  <1> QED BY <1>5, <1>6, <1>7, <1>8, <1>9, <1>10 DEF Control

-----------------------------------------------------------------------------
(* The GPU and the HCA *)

\* The program stands still.
LEMMA StillKeeps ==
    ASSUME PInv, UNCHANGED program, UNCHANGED <<recvs, readies, waits, sends>>
    PROVE  PType' /\ Placed' /\ Counted' /\ Tracked'
  <1>0. PType /\ Placed /\ Counted /\ Tracked
    BY DEF PInv, Control
  <1>1. UNCHANGED <<sa, line, peer, iter, n_reqs>>
    BY DEF program
  <1>2. PType'
    BY <1>0, <1>1 DEF PType
  <1>3. Placed'
    BY <1>0, <1>1 DEF Placed
  <1>4. Counted'
    BY <1>0, <1>1 DEF Counted
  <1>5. Tracked'
    BY <1>0, <1>1 DEF Tracked
  <1> QED BY <1>2, <1>3, <1>4, <1>5

LEMMA GpuKeeps ==
    ASSUME PInv, TInv', NEW i \in Ranks, Gpu(i)
    PROVE  Control' /\ Quiet' /\ Tracked'
  <1>0. TInv /\ PType /\ Alternate /\ Direct /\ Quiet
    BY DEF PInv, Control
  <1> DEFINE op == Head(stream[i])
  <1>1. /\ stream[i] # <<>> /\ stream' = [stream EXCEPT ![i] = Tail(@)]
        /\ UNCHANGED <<wqe, done, dreqs, spinning, recvs, readies, waits, sends>>
        /\ UNCHANGED program
    BY DEF Gpu, StreamStep, StreamWait, queue, app
  <1>2. \/ UNCHANGED rung
        \/ rung' = [rung EXCEPT ![op.pair] = IF @ < op.value THEN op.value ELSE @]
    BY DEF Gpu, StreamStep, StreamWait, queue
  <1>3. op.pair \in Pairs /\ op.pair[1] = i /\ op.value \in Nat
    BY <1>0, <1>1, HeadOp DEF OwnOp
  <1> HIDE DEF op
  <1>4. sa[i]
    BY <1>0, <1>1 DEF Direct
  <1>5. /\ \A q \in Pairs : rung[q] <= rung'[q]
        /\ \A q \in Pairs : q[1] # i => rung'[q] = rung[q]
    <2>1. rung \in [Pairs -> Nat]
      BY <1>0 DEF TInv, TypeOK
    <2> QED BY <1>2, <1>3, <2>1
  <1>6. PType' /\ Placed' /\ Counted' /\ Tracked'
    BY <1>1, StillKeeps
  <1>7. Alternate'
    <2>1. ASSUME NEW q \in Pairs PROVE done[q] <= rung'[q]
      <3>1. done[q] \in Nat /\ rung[q] \in Nat /\ done[q] <= rung[q] /\ rung[q] <= rung'[q]
        BY <1>0, <1>5, QueueNums DEF Alternate
      <3>2. rung'[q] \in Nat
        BY DEF TInv, TypeOK
      <3> QED BY <3>1, <3>2
    <2> QED BY <1>0, <1>1, <2>1 DEF Alternate
  <1>8. Direct'
    <2>1. UNCHANGED <<sa, line, peer>>
      BY <1>1 DEF program
    <2>2. \A j \in Ranks : j # i => stream'[j] = stream[j]
      BY <1>0, <1>1 DEF TInv, TypeOK
    <2>3. ASSUME NEW q \in Pairs, ~sa[q[1]] PROVE rung'[q] = Len(wqe[q])
      <3>1. q[1] # i
        BY <1>4, <2>3
      <3> QED BY <1>0, <1>5, <2>3, <3>1 DEF Direct, NoneHeld
    <2> QED BY <1>0, <1>1, <1>4, <2>1, <2>2, <2>3 DEF Direct, NoneHeld
  <1>9. Quiet'
    BY <1>0, <1>1 DEF Quiet, program, Rev
  <1> QED BY <1>6, <1>7, <1>8, <1>9 DEF Control

LEMMA HcaKeepsQuiet ==
    ASSUME PInv, NEW p \in Pairs, Hca(p)
    PROVE  Control' /\ Quiet' /\ Tracked'
  <1>0. TInv /\ PType /\ Alternate /\ Direct /\ Quiet
    BY DEF PInv, Control
  <1>1. /\ done[p] < rung[p] /\ done' = [done EXCEPT ![p] = @ + 1]
        /\ UNCHANGED <<wqe, rung, stream, dreqs, spinning, recvs, readies, waits, sends>>
        /\ UNCHANGED program
    BY DEF Hca, HcaExecute, gpu, app
  <1>2. ASSUME NEW q \in Pairs
        PROVE  done'[q] \in Nat /\ done[q] \in Nat /\ done[q] <= done'[q] /\ done'[q] <= rung[q]
    <2>1. done \in [Pairs -> Nat] /\ rung[q] \in Nat /\ rung[p] \in Nat /\ done[q] <= rung[q]
      BY <1>0 DEF TInv, TypeOK, Alternate
    <2> QED BY <1>1, <2>1
  <1>3. PType' /\ Placed' /\ Counted' /\ Tracked'
    BY <1>1, StillKeeps
  <1>4. Alternate'
    BY <1>0, <1>1, <1>2 DEF Alternate
  <1>5. Direct'
    BY <1>0, <1>1 DEF Direct, NoneHeld, program
  <1>6. Quiet'
    <2> SUFFICES ASSUME NEW q \in Pairs, line[q[1]] = "freed", NEW r \in Pairs, r = Rev(q)
                 PROVE  done'[q] >= 2 * Iters /\ done'[r] >= 2 * Iters
      BY <1>1, RevPair DEF Quiet, program, Rev
    <2>1. done[q] >= 2 * Iters /\ done[r] >= 2 * Iters
      BY <1>0 DEF Quiet
    <2> QED BY <1>2, <2>1, RankFacts
  <1> QED BY <1>3, <1>4, <1>5, <1>6 DEF Control

-----------------------------------------------------------------------------
(* The invariant *)

LEMMA InitPInv == PingpongInit => PInv
  <1> SUFFICES ASSUME PingpongInit PROVE PInv
    OBVIOUS
  <1>0. /\ Init /\ sa \in Modes /\ line = [i \in Ranks |-> "irecv"]
        /\ peer = [i \in Ranks |-> First(i)]
        /\ iter = [i \in Ranks |-> 0] /\ n_reqs = [i \in Ranks |-> 0]
    BY DEF PingpongInit
  <1>1. TInv
    BY <1>0, InitType
  <1>2. ASSUME NEW i \in Ranks
        PROVE  /\ line[i] = "irecv" /\ peer[i] = First(i) /\ iter[i] = 0 /\ n_reqs[i] = 0
               /\ sa[i] \in BOOLEAN /\ First(i) \in Ranks /\ First(i) # i
               /\ Passed(i, First(i)) = 0
    BY <1>0, FirstPeer, RankFacts
  <1>3. PType
    BY <1>0, <1>2 DEF PType, Lines
  <1>4. Placed
    <2> SUFFICES ASSUME NEW i \in Ranks
                 PROVE  PlaceOf("irecv", sa[i], First(i), First(i), 0)
      BY <1>2 DEF Placed
    <2> QED BY RankFacts DEF PlaceOf, AllReadied
  <1>5. Counted
    <2> SUFFICES ASSUME NEW q \in Pairs, NEW i \in Ranks, i = q[1]
                 PROVE  CountsOf(line[i], sa[i], peer[i], q[2], iter[i],
                                 recvs[q], readies[q], waits[q], sends[q])
      BY PairParts DEF Counted
    <2>1. recvs[q] = 0 /\ readies[q] = 0 /\ waits[q] = 0 /\ sends[q] = 0
      BY <1>0 DEF Init
    <2>2. ~(q[2] < First(i)) /\ q[2] \in Nat
      BY FirstPeer, PairParts
    <2>3. CountsOf("irecv", sa[i], First(i), q[2], 0, 0, 0, 0, 0)
      BY <2>2 DEF CountsOf, Received, Readied, Waited, Sent, AllReadied, AllSent, One
    <2> QED BY <1>2, <2>1, <2>3
  <1>6. Alternate
    BY <1>0 DEF Init, Alternate, AlternateOf
  <1>7. Direct
    <2>1. \A i \in Ranks : stream[i] = <<>> /\ dreqs[i] = NoDreqs /\ spinning[i] = NoRank
      BY <1>0 DEF Init
    <2>2. \A q \in Pairs : rung[q] = Len(wqe[q])
      BY <1>0 DEF Init
    <2> QED BY <1>2, <2>1, <2>2 DEF Direct, NoneHeld
  <1>8. Quiet
    BY <1>2, PairParts DEF Quiet
  <1>9. Tracked
    <2> SUFFICES ASSUME NEW i \in Ranks
                 PROVE  TrackedOf(i, "irecv", sa[i], First(i), 0) = 0
      BY <1>2 DEF Tracked
    <2>1. 3 * (N - 1) * 0 = 0
      BY RankFacts
    <2> QED BY <1>2, <2>1 DEF TrackedOf
  <1> QED BY <1>1, <1>3, <1>4, <1>5, <1>6, <1>7, <1>8, <1>9 DEF PInv, Control

LEMMA NextPInv ==
    ASSUME PInv, [PingpongNext]_allvars
    PROVE  PInv'
  <1>0. TInv /\ PType
    BY DEF PInv, Control
  <1>1. TInv'
    BY <1>0, StepType
  <1>2. CASE UNCHANGED allvars
    <2>1. /\ UNCHANGED program
          /\ UNCHANGED <<wqe, rung, done, stream, dreqs, spinning, recvs, readies, waits, sends>>
      BY <1>2 DEF allvars, vars, queue, gpu, app
    <2>2. PType' /\ Placed' /\ Counted' /\ Tracked'
      BY <2>1, StillKeeps
    <2>3. Alternate' /\ Direct' /\ Quiet'
      BY <2>1 DEF PInv, Control, Alternate, Direct, NoneHeld, Quiet, Rev, program
    <2> QED BY <1>1, <2>2, <2>3 DEF PInv, Control
  <1>3. ASSUME NEW i \in Ranks, Program(i)
        PROVE  Control' /\ Quiet' /\ Tracked'
    BY <1>1, <1>3, IrecvKeeps, SendReadyKeeps, WaitKeeps, IsendKeeps, WaitAllKeeps,
       SynchronizeKeeps, FlushKeeps DEF Program
  <1>4. ASSUME NEW i \in Ranks, Gpu(i)
        PROVE  Control' /\ Quiet' /\ Tracked'
    BY <1>1, <1>4, GpuKeeps
  <1>5. ASSUME NEW p \in Pairs, Hca(p)
        PROVE  Control' /\ Quiet' /\ Tracked'
    BY <1>5, HcaKeepsQuiet
  <1>6. CASE PingpongNext
    BY <1>1, <1>3, <1>4, <1>5, <1>6 DEF PingpongNext, PInv
  <1> QED BY <1>2, <1>6

LEMMA PInvariance == PingpongSpec => []PInv
  <1>1. PingpongInit => PInv
    BY InitPInv
  <1>2. PInv /\ [PingpongNext]_allvars => PInv'
    BY NextPInv
  <1> QED BY <1>1, <1>2, PTL DEF PingpongSpec

LEMMA QuietNow == ASSUME PInv PROVE QuietAtEnd
  <1> SUFFICES ASSUME NEW p \in Pairs, "freed" \in {line[p[1]], line[p[2]]}
               PROVE  done[p] = Len(wqe[p])
    BY DEF QuietAtEnd
  <1>0. TInv /\ PType /\ Placed /\ Counted /\ Alternate /\ Quiet
    BY DEF PInv, Control
  <1> PICK i \in Ranks : i = p[1]
    BY PairParts
  <1>1. done[p] >= 2 * Iters
    <2>1. Rev(p) \in Pairs /\ Rev(Rev(p)) = p /\ Rev(p)[1] = p[2]
      BY RevPair DEF Rev
    <2>2. CASE line[p[1]] = "freed"
      BY <1>0, <2>2 DEF Quiet
    <2>3. CASE line[p[2]] = "freed"
      <3> PICK r \in Pairs : r = Rev(p)
        BY <2>1
      <3>1. line[r[1]] = "freed"
        BY <2>1, <2>3
      <3>2. done[Rev(r)] >= 2 * Iters
        BY <1>0, <3>1 DEF Quiet
      <3> QED BY <2>1, <3>2
    <2> QED BY <2>2, <2>3
  <1>2. CountsOf(line[i], sa[i], peer[i], p[2], iter[i], recvs[p], readies[p], waits[p], sends[p])
    BY <1>0, CountsAt
  <1>3. PlaceOf(line[i], sa[i], peer[i], First(i), iter[i]) /\ iter[i] \in Nat
    BY At
  <1>4. readies[p] <= Iters /\ sends[p] <= Iters
    <2>1. readies[p] <= iter[i] + 1 /\ sends[p] <= iter[i] + 1
      BY <1>2, <1>3 DEF CountsOf, One
    <2>2. CASE iter[i] < Iters
      BY <1>3, <2>1, <2>2, <1>0, QueueNums, RankFacts
    <2>3. CASE ~(iter[i] < Iters)
      <3>1. /\ iter[i] = Iters /\ ~AllReadied(line[i], sa[i])
            /\ line[i] \notin {"irecv", "send_ready"}
        BY <1>3, <2>3 DEF PlaceOf
      <3>2. readies[p] = iter[i] /\ sends[p] = iter[i]
        BY <1>2, <1>3, <3>1 DEF CountsOf, One, Readied, Sent, AllReadied, AllSent
      <3> QED BY <1>3, <3>1, <3>2
    <2> QED BY <2>2, <2>3
  <1>5. /\ Len(wqe[p]) = readies[p] + sends[p] /\ done[p] <= rung[p] /\ rung[p] <= Len(wqe[p])
        /\ Len(wqe[p]) \in Nat /\ done[p] \in Nat /\ rung[p] \in Nat
        /\ readies[p] \in Nat /\ sends[p] \in Nat
    BY <1>0, QueueNums DEF Alternate
  <1> QED BY <1>1, <1>4, <1>5, RankFacts

\* However many ranks exchange, for however many iterations and in whatever mix of
\* sync_exchange and async_exchange: when a rank frees its buffers the HCA has executed
\* every work request of its queues and of its peers' queues towards it, the untracked
\* puts of comm_send_ready too.
THEOREM NothingLeft == PingpongSpec => []QuietAtEnd
  <1>1. PInv => QuietAtEnd
    BY QuietNow
  <1> QED BY <1>1, PInvariance, PTL

LEMMA TrackedBound ==
    ASSUME PInv, NEW i \in Ranks
    PROVE  n_reqs[i] <= IF sa[i] THEN 3 * (N - 1) * Iters ELSE 2 * (N - 1)
  <1> DEFINE c == peer[i]
             n == iter[i]
             l == line[i]
  <1>0. /\ sa[i] \in BOOLEAN /\ l \in Lines /\ c \in Ranks /\ c # i /\ n \in Nat
        /\ PlaceOf(l, sa[i], c, First(i), n)
        /\ n_reqs[i] = IF l = "freed" THEN 0 ELSE TrackedOf(i, l, sa[i], c, n)
    BY At
  <1>1. Passed(i, c) \in Nat /\ Passed(i, c) <= N - 2 /\ N \in Nat /\ N > 1 /\ Iters \in Nat \ {0}
    BY <1>0, PassedRange, RankFacts
  <1> PICK k \in Nat : k = N - 1
    BY <1>1
  <1> PICK u \in Nat : u = Passed(i, c)
    BY <1>1
  <1>2. u <= k - 1 /\ k >= 1
    BY <1>1
  <1> HIDE DEF c, n, l
  <1>3. CASE l = "freed"
    <2>1. 3 * k * Iters \in Nat /\ 2 * k \in Nat
      BY <1>1
    <2> QED BY <1>0, <1>3, <2>1
  <1>4. CASE l # "freed" /\ ~sa[i]
    <2>1. n_reqs[i] <= 2 * k
      <3>1. l \notin {"wait_all", "synchronize"}
        BY <1>0, <1>4 DEF PlaceOf
      <3>2. n_reqs[i] = TrackedOf(i, l, FALSE, c, n)
        BY <1>0, <1>4
      <3>3. TrackedOf(i, l, FALSE, c, n) <= 2 * k
        BY <1>0, <1>2, <1>4, <3>1 DEF TrackedOf, Lines
      <3> QED BY <3>2, <3>3
    <2> QED BY <1>4, <2>1
  <1>5. CASE l # "freed" /\ sa[i]
    <2> PICK m \in Nat : m = 3 * k * Iters
      BY <1>1
    <2> SUFFICES n_reqs[i] <= m
      BY <1>5
    <2>1. n_reqs[i] = TrackedOf(i, l, TRUE, c, n) /\ l # "spin"
      BY <1>0, <1>5 DEF PlaceOf
    <2>2. CASE n < Iters
      <3> PICK b \in Nat : b = 3 * k * n
        BY <1>0
      <3>1. b + 3 * k <= m
        <4>1. PICK d \in Nat : Iters = n + 1 + d
          <5>1. Iters - (n + 1) \in Nat /\ Iters = n + 1 + (Iters - (n + 1))
            BY <1>0, <1>1, <2>2
          <5> QED BY <5>1
        <4>2. 3 * k * (n + 1 + d) = 3 * k * n + 3 * k + 3 * k * d /\ 3 * k * d \in Nat
          BY <1>0
        <4> QED BY <4>1, <4>2
      <3>2. TrackedOf(i, l, TRUE, c, n) <= b + 3 * k
        BY <1>0, <1>2, <1>5, <2>1 DEF TrackedOf, Lines
      <3>3. n_reqs[i] \in Nat /\ n_reqs[i] <= b + 3 * k
        BY <2>1, <3>2, At
      <3> QED BY <3>1, <3>3
    <2>3. CASE ~(n < Iters)
      <3>1. n = Iters /\ l \in {"synchronize", "flush"}
        BY <1>0, <1>5, <2>3 DEF PlaceOf, AllReadied, Lines
      <3> PICK b \in Nat : b = 3 * k * n
        BY <1>0
      <3>2. TrackedOf(i, l, TRUE, c, n) = b
        BY <3>1 DEF TrackedOf
      <3>3. n_reqs[i] = m
        BY <2>1, <3>1, <3>2
      <3> QED BY <3>3
    <2> QED BY <2>2, <2>3
  <1> QED BY <1>0, <1>3, <1>4, <1>5

LEMMA FitsNow == ASSUME RoomFor, PInv PROVE TableFits
  <1> SUFFICES ASSUME NEW i \in Ranks PROVE n_reqs[i] < MaxReqs
    BY DEF TableFits
  <1> PICK b : b = IF sa[i] THEN 3 * (N - 1) * Iters ELSE 2 * (N - 1)
    OBVIOUS
  <1>1. n_reqs[i] <= b /\ n_reqs[i] \in Nat
    BY TrackedBound, At
  <1>2. b < MaxReqs
    <2>1. sa \in Modes
      BY DEF PInv, Control, PType
    <2> QED BY <2>1 DEF RoomFor
  <1>3. b \in Nat /\ MaxReqs \in Nat
    BY RankFacts
  <1> QED BY <1>1, <1>2, <1>3

\* The table of requests never fills up as long as it has room for two requests per peer
\* of a rank in sync_exchange, which flushes in every iteration, and for three per peer and
\* iteration in async_exchange, which flushes at the end: with at most MAX_PEERS = 10 ranks and
\* MAX_ITERS = 128 that is 3 * 9 * 128 = 3456, and MAX_REQS is 16384.
THEOREM TableNeverFull == ASSUME RoomFor PROVE PingpongSpec => []TableFits
  <1>1. PInv => TableFits
    BY FitsNow
  <1> QED BY <1>1, PInvariance, PTL

-----------------------------------------------------------------------------
(* The contract of the calls, and what the library promises for it *)

LEMMA ContractNow == ASSUME PInv PROVE ContractMet
  <1> SUFFICES ASSUME NEW i \in Ranks, NEW p, p = <<i, peer[i]>>
               PROVE  /\ line[i] # "spin" => Idle(i)
                      /\ line[i] = "irecv" => recvs[p] < MaxMsgs
                      /\ line[i] = "send_ready" =>
                            readies[p] < recvs[p] /\ (IF sa[i] THEN NonePrepared(p) ELSE NoneHeld(p))
                      /\ line[i] = "wait_ready" => waits[p] < MaxMsgs
                      /\ line[i] = "isend" =>
                            /\ sends[p] < waits[p]
                            /\ IF sa[i] THEN NonePrepared(p) /\ ~HeldBySeq(p, (sends[p] + 1) % Modulus, dreqs[i].ready)
                                        ELSE NoneHeld(p) /\ ~InWaits(p, (sends[p] + 1) % Modulus)
    BY DEF ContractMet
  <1>0. /\ TInv /\ Direct /\ p \in Pairs /\ iter[i] \in Nat /\ peer[i] \in Nat /\ sa[i] \in BOOLEAN
        /\ PlaceOf(line[i], sa[i], peer[i], First(i), iter[i])
        /\ CountsOf(line[i], sa[i], peer[i], peer[i], iter[i], recvs[p], readies[p], waits[p], sends[p])
    BY At, CountsHere
  <1>1. p[1] = i /\ p[2] = peer[i]
    OBVIOUS
  <1>2. line[i] # "spin" => Idle(i)
    BY <1>0 DEF Direct, Idle
  <1>3. line[i] \in {"irecv", "send_ready", "wait_ready", "isend"} =>
           iter[i] < Iters /\ iter[i] < MaxMsgs
    BY <1>0, RankFacts DEF PlaceOf, AllReadied
  <1>4. /\ line[i] = "irecv" => recvs[p] = iter[i]
        /\ line[i] = "send_ready" => readies[p] = iter[i] /\ recvs[p] = iter[i] + 1
        /\ line[i] = "wait_ready" => waits[p] = iter[i]
        /\ line[i] = "isend" => sends[p] = iter[i] /\ waits[p] = iter[i] + 1
    BY <1>0 DEF CountsOf, Received, Readied, Waited, Sent, AllReadied, AllSent, One
  <1>5. /\ NoDreqs.ready = <<>> /\ NoDreqs.tx = <<>>
        /\ \A n : ~HeldBySeq(p, n, <<>>)
    BY DEF NoDreqs, HeldBySeq
  <1>6. dreqs[i] = NoDreqs /\ (~sa[i] => stream[i] = <<>> /\ NoneHeld(p))
    BY <1>0, <1>1 DEF Direct
  <1>7. NonePrepared(p) /\ \A n : ~HeldBySeq(p, n, dreqs[i].ready)
    BY <1>1, <1>5, <1>6 DEF NonePrepared
  <1>8. ~sa[i] => \A n : ~InWaits(p, n)
    BY <1>1, <1>5, <1>6, <1>7 DEF InWaits
  <1>9. line[i] = "irecv" => recvs[p] < MaxMsgs
    BY <1>3, <1>4
  <1>10. line[i] = "wait_ready" => waits[p] < MaxMsgs
    BY <1>3, <1>4
  <1>11. line[i] = "send_ready" => readies[p] < recvs[p]
    BY <1>0, <1>4
  <1>12. line[i] = "isend" => sends[p] < waits[p]
    BY <1>0, <1>4
  <1> QED BY <1>0, <1>2, <1>6, <1>7, <1>8, <1>9, <1>10, <1>11, <1>12

\* Every call of the exchange meets its contract, whatever the numbers of ranks and of
\* iterations and the mix of the modes: a rank is held up by its peers only, never by
\* doorbells or descriptors of its own.
THEOREM MeetsContract == PingpongSpec => []ContractMet
  <1>1. PInv => ContractMet
    BY ContractNow
  <1> QED BY <1>1, PInvariance, PTL

\* A stream that loses its first operation, or gets more at its end, and neither is a
\* doorbell or a wait for a ready.
LEMMA WaitAllInv ==
    ASSUME IInv, NEW i \in Ranks, WaitAll(i)
    PROVE  Inv'
  <1>0. TInv /\ Inv /\ UNCHANGED <<tables, queue, dreqs, spinning, app>>
    BY DEF IInv, WaitAll
  <1>1. PICK ops \in Seq(Op) : /\ stream' = [stream EXCEPT ![i] = @ \o ops]
                               /\ \A x \in 1..Len(ops) : Plain(i, ops[x])
    BY <1>0, WaitAllOps
  <1>2. stream[i] \in Seq(Op) /\ stream \in [Ranks -> Seq(Op)]
    BY <1>0 DEF TInv, TypeOK
  <1>3. stream'[i] = stream[i] \o ops /\ \A j \in Ranks : j # i => stream'[j] = stream[j]
    BY <1>1, <1>2
  <1>4. Counters' /\ Readies' /\ Messages' /\ Together'
    BY <1>0 DEF Inv, Counters, Readies, Messages, Together, tables, queue, app
  <1>5. Issued'
    <2> SUFFICES ASSUME NEW q \in Pairs, NEW n \in 1..waits[q]
                 PROVE  \/ n <= ready_table[q] \/ HeldBySeq(q, n, stream'[q[1]])
                        \/ HeldBySeq(q, n, dreqs[q[1]].ready)
      BY <1>0 DEF Issued, IssuedOf, tables, app
    <2>1. HeldBySeq(q, n, stream[i]) => HeldBySeq(q, n, stream[i] \o ops)
      BY <1>2, HeldConcat
    <2>2. q[1] \in Ranks
      BY PairParts
    <2> QED BY <1>3, <2>1, <2>2, Announced
  <1>6. Guarded'
    <2> SUFFICES ASSUME NEW j \in Ranks PROVE GuardSeq(stream'[j], wqe, rung, ready_table)
      BY <1>0 DEF Guarded, tables, queue
    <2>1. GuardSeq(stream[j], wqe, rung, ready_table)
      BY <1>0 DEF Inv, Guarded
    <2>2. CASE j # i
      BY <1>3, <2>1, <2>2
    <2>3. CASE j = i
      <3>1. \A y \in 1..Len(ops) : ops[y].op # "ring"
        BY <1>1, PlainOwn
      <3>2. GuardSeq(stream[i] \o ops, wqe, rung, ready_table)
        BY <1>2, <2>1, <2>3, <3>1, GuardConcat
      <3> QED BY <1>3, <2>3, <3>2
    <2> QED BY <2>2, <2>3
  <1> QED BY <1>4, <1>5, <1>6 DEF Inv

LEMMA StreamWaitInv ==
    ASSUME IInv, NEW i \in Ranks, StreamWait(i)
    PROVE  Inv'
  <1>0. TInv /\ Inv /\ UNCHANGED <<tables, queue, dreqs, spinning, app>>
    BY DEF IInv, StreamWait
  <1>1. /\ stream[i] # <<>> /\ stream' = [stream EXCEPT ![i] = Tail(@)]
        /\ Head(stream[i]).op # "wait"
    BY DEF StreamWait
  <1>2. stream[i] \in Seq(Op) /\ stream \in [Ranks -> Seq(Op)]
    BY <1>0 DEF TInv, TypeOK
  <1>3. stream'[i] = Tail(stream[i]) /\ \A j \in Ranks : j # i => stream'[j] = stream[j]
    BY <1>1, <1>2
  <1>4. Counters' /\ Readies' /\ Messages' /\ Together'
    BY <1>0 DEF Inv, Counters, Readies, Messages, Together, tables, queue, app
  <1>5. Issued'
    <2> SUFFICES ASSUME NEW q \in Pairs, NEW n \in 1..waits[q]
                 PROVE  \/ n <= ready_table[q] \/ HeldBySeq(q, n, stream'[q[1]])
                        \/ HeldBySeq(q, n, dreqs[q[1]].ready)
      BY <1>0 DEF Issued, IssuedOf, tables, app
    <2>1. HeldBySeq(q, n, stream[i]) => HeldBySeq(q, n, Tail(stream[i]))
      BY <1>1, <1>2, HeldTail DEF IsWait
    <2>2. q[1] \in Ranks
      BY PairParts
    <2> QED BY <1>3, <2>1, <2>2, Announced
  <1>6. Guarded'
    <2> SUFFICES ASSUME NEW j \in Ranks PROVE GuardSeq(stream'[j], wqe, rung, ready_table)
      BY <1>0 DEF Guarded, tables, queue
    <2>1. GuardSeq(stream[j], wqe, rung, ready_table)
      BY <1>0 DEF Inv, Guarded
    <2>2. CASE j # i
      BY <1>3, <2>1, <2>2
    <2>3. CASE j = i
      <3>1. GuardSeq(Tail(stream[i]), wqe, rung, ready_table)
        BY <1>1, <1>2, <2>1, <2>3, GuardTail
      <3> QED BY <1>3, <2>3, <3>1
    <2> QED BY <2>2, <2>3
  <1> QED BY <1>4, <1>5, <1>6 DEF Inv

LEMMA NextIInv ==
    ASSUME NoWrap, IInv, PInv, [PingpongNext]_allvars
    PROVE  IInv'
  <1>0. TInv /\ PType /\ TInv'
    BY StepType DEF PInv, Control
  <1>1. CASE [Next]_vars
    BY <1>1, NextInv
  <1>2. ASSUME NEW i \in Ranks, WaitAll(i) \/ StreamWait(i)
        PROVE  IInv'
    BY <1>0, <1>2, WaitAllInv, StreamWaitInv DEF IInv
  <1> QED BY <1>0, <1>1, <1>2, StepKinds

\* In the exchange too, while no counter wraps, no message reaches the HCA before its
\* receive is posted, although the streams hold other waits between the doorbells.
THEOREM ExchangeHandshake == ASSUME NoWrap PROVE PingpongSpec => []DataHasReceive
  <1>1. PingpongInit => IInv
    BY InitInv DEF PingpongInit
  <1>2. IInv /\ PInv /\ [PingpongNext]_allvars => IInv'
    BY NextIInv
  <1>3. PingpongSpec => []IInv
    BY <1>1, <1>2, PInvariance, PTL DEF PingpongSpec
  <1>4. IInv => DataHasReceive
    BY InvDataHasReceive
  <1> QED BY <1>3, <1>4, PTL
=============================================================================
