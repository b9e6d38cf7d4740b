--------------------------- MODULE CommTrackProofs ---------------------------
(***************************************************************************)
(* Proofs about CommTrack, for any pool, any number of buffers, any length *)
(* of the table and of the ring, and whatever calls fail.                  *)
(***************************************************************************)
EXTENDS CommTrack, SequenceFacts, FiniteSetTheorems

(***************************************************************************)
(* The inductive invariant                                                 *)
(***************************************************************************)

\* The requests that were posted and not released.
InProgress == {r \in Reqs : status[r] \in Live}

\* While nothing has released a request behind the table's back, the table names
\* requests in progress, each once, and has room for the next.
TableOwn ==
    ~mixed => /\ pc # "aborted" /\ Len(reqs) < MaxReqs
              /\ Distinct(reqs) /\ Elems(reqs) \subseteq InProgress

\* comm_flush waits for the whole table.
Flushing == pc = "flushing" => waited = reqs

\* A cached registration is live, and belongs to one buffer.
CacheOwn ==
    /\ \A key \in mrs : key <= keys
    /\ \A b \in Bufs : creg[b] # None => creg[b] \in mrs
    /\ \A b, c \in Bufs : creg[b] # None /\ creg[b] = creg[c] => b = c

\* The k-th of the m blocks before d in a ring of n.  The blocks of the launched
\* kernels are the ones before dreq_idx, the last kernel's next to it.
Behind(d, k, m, n) == IF d + k > m THEN d + k - m - 1 ELSE d + k + n - m - 1
BlockOf(k) == Behind(dreq_idx, k, Len(kernels), NDreqs)
RingOwn ==
    /\ Len(kernels) < NDreqs
    /\ \A k \in 1..Len(kernels) :
          kernels[k].slot = BlockOf(k) /\ slots[kernels[k].slot] = kernels[k].block

\* A completion to come is that of a request in flight, which has no other.
QueueOwn ==
    /\ \A f \in Flows : Distinct(cq[f]) /\ \A r \in Elems(cq[f]) : status[r] \in InFlight
    /\ \A f, g \in Flows : f # g => \A r \in Elems(cq[f]) : r \notin Elems(cq[g])

\* The pool and the table, the registrations, the ring, and the completion queues.
Table ==
    /\ status \in [Reqs -> States] /\ free \in Seq(Reqs) /\ reg \in [Reqs -> Nat \union {None}]
    /\ reqs \in Seq(Reqs) /\ Len(reqs) <= MaxReqs /\ waited \in Seq(Reqs)
    /\ pc \in {"idle", "waiting", "flushing", "aborted", "exited"}
    /\ mixed \in BOOLEAN /\ lost \in BOOLEAN
    /\ FreeListSound /\ Covered /\ TableOwn /\ Flushing
Cache ==
    /\ creg \in [Bufs -> Nat \union {None}] /\ mrs \subseteq Nat /\ keys \in Nat
    /\ broken \subseteq Nat /\ CacheOwn
Ring ==
    /\ slots \in [Slots -> Seq(Desc)] /\ dreq_idx \in Slots
    /\ kernels \in Seq([slot : Slots, block : Seq(Desc)]) /\ RingOwn
Queue ==
    /\ cq \in [Flows -> Seq(Reqs)] /\ shown \subseteq Reqs /\ guard \in [Reqs -> Guards]
    /\ QueueOwn
Base == Table /\ Cache /\ Ring /\ Queue /\ StaysRegistered

-----------------------------------------------------------------------------
(* Sequences of structures *)

LEMMA ElementsElems == ASSUME NEW s PROVE Elements(s) = Elems(s)
  BY DEF Elements, ToSet, Elems

LEMMA BaseProperties ==
    ASSUME Base
    PROVE  /\ TypeOK /\ FreeListSound /\ NoAbort /\ Covered /\ StaysRegistered /\ BlockIntact
           /\ CompletionsInFlight
  <1>1. TypeOK /\ FreeListSound /\ Covered /\ StaysRegistered
    BY DEF Base, Table, Cache, Ring, Queue, TypeOK
  <1>2. NoAbort
    BY DEF Base, Table, TableOwn, NoAbort
  <1>3. BlockIntact
    BY SeqElem DEF Base, Ring, RingOwn, BlockIntact
  <1>4. CompletionsInFlight
    BY DEF Base, Queue, QueueOwn, CompletionsInFlight, Elems
  <1> QED
    BY <1>1, <1>2, <1>3, <1>4

\* The free list, told apart by its elements.
LEMMA FreeList ==
    FreeListSound <=> Distinct(free) /\ \A r \in Reqs : status[r] = "UNDEF" <=> r \in Elems(free)
  BY ElementsElems DEF FreeListSound, Distinct

\* get_request takes the structure that was released last, and no other.
LEMMA Taken ==
    ASSUME Table, NEW state \in States, state # "UNDEF",
           NEW key \in Nat \union {None}, Take(state, key)
    PROVE  /\ Head(free) \in Reqs /\ status[Head(free)] = "UNDEF"
           /\ status' = [status EXCEPT ![Head(free)] = state] /\ status' \in [Reqs -> States]
           /\ reg' = [reg EXCEPT ![Head(free)] = key] /\ reg' \in [Reqs -> Nat \union {None}]
           /\ free' \in Seq(Reqs) /\ FreeListSound'
  <1>1. free \in Seq(Reqs) /\ free # <<>> /\ free' = Tail(free)
    BY DEF Table, Take
  <1>2. PICK r \in Reqs : r = Head(free)
    BY <1>1, SeqTail
  <1>3. /\ status' = [status EXCEPT ![r] = state] /\ status' \in [Reqs -> States]
        /\ reg' = [reg EXCEPT ![r] = key] /\ reg' \in [Reqs -> Nat \union {None}]
        /\ status'[r] = state /\ \A q \in Reqs : q # r => status'[q] = status[q]
    BY <1>2 DEF Table, Take
  <1>4. /\ Distinct(free) /\ \A q \in Reqs : status[q] = "UNDEF" <=> q \in Elems(free)
    BY FreeList DEF Table
  <1>5. /\ Elems(free) = Elems(Tail(free)) \union {r}
        /\ r \notin Elems(Tail(free)) /\ Distinct(Tail(free))
    BY <1>1, <1>2, <1>4, ElemsTail
  <1>6. Distinct(free') /\ \A q \in Reqs : status'[q] = "UNDEF" <=> q \in Elems(free')
    BY <1>1, <1>3, <1>4, <1>5
  <1>7. FreeListSound'
    BY <1>6, ElementsElems DEF FreeListSound, Distinct
  <1>8. status[r] = "UNDEF" /\ free' \in Seq(Reqs)
    BY <1>1, <1>4, <1>5, SeqTail
  <1> QED
    BY <1>2, <1>3, <1>7, <1>8

\* A bijection from 1..n is a sequence without repetitions.
LEMMA OrderSeq ==
    ASSUME NEW S, NEW T, T \subseteq S, IsFiniteSet(T), NEW f \in Bijection(1..Cardinality(T), T)
    PROVE  f \in Seq(S) /\ Distinct(f) /\ Elems(f) = T
  <1>1. Cardinality(T) \in Nat
    BY FS_CardinalityType
  <1>2. /\ f \in [1..Cardinality(T) -> T] /\ IsInjective(f)
        /\ \A x \in T : \E k \in 1..Cardinality(T) : f[k] = x
    BY DEF Bijection, Injection, Surjection
  <1>3. f \in Seq(S)
    BY <1>1, <1>2
  <1>4. Elems(f) = T
    BY <1>2 DEF Elems
  <1> QED
    BY <1>2, <1>3, <1>4 DEF Distinct, IsInjective

\* The last loop of mp_wait_all returns every structure it was given to the free
\* list, once.
LEMMA Released ==
    ASSUME Table, NEW seq \in Seq(Reqs), ReleaseAll(seq),
           \A r \in Elements(seq) : status[r] \in Done
    PROVE  /\ \A r \in Reqs : /\ r \in Elements(seq) => status'[r] = "UNDEF"
                              /\ r \notin Elements(seq) => status'[r] = status[r] /\ reg'[r] = reg[r]
           /\ status' \in [Reqs -> States] /\ reg' \in [Reqs -> Nat \union {None}]
           /\ free' \in Seq(Reqs) /\ FreeListSound'
  <1>1. PICK T : T = Elements(seq) /\ T \subseteq Reqs
    BY SeqElem, ElementsElems
  <1>2. /\ status' = [r \in Reqs |-> IF r \in T THEN "UNDEF" ELSE status[r]]
        /\ reg' = [r \in Reqs |-> IF r \in T THEN None ELSE reg[r]]
    BY <1>1 DEF ReleaseAll
  <1>3. status' \in [Reqs -> States] /\ reg' \in [Reqs -> Nat \union {None}]
    BY <1>2 DEF Table, States
  <1>4. PICK order \in Bijection(1..Cardinality(T), T) : free' = order \o free
    BY <1>1 DEF ReleaseAll
  <1>5. order \in Seq(Reqs) /\ Distinct(order) /\ Elems(order) = T
    <2>1. IsFiniteSet(T)
      BY <1>1, ConstantsAssumption, FS_Subset
    <2> QED
      BY <1>1, <2>1, OrderSeq
  <1>6. free \in Seq(Reqs) /\ Distinct(free) /\ \A r \in Reqs : status[r] = "UNDEF" <=> r \in Elems(free)
    BY FreeList DEF Table
  <1>7. \A r \in T : r \notin Elems(free)
    BY <1>1, <1>6 DEF Done
  <1>8. free' \in Seq(Reqs)
    BY <1>4, <1>5, <1>6, SeqConcat
  <1>9. Elems(free') = T \union Elems(free)
    BY <1>4, <1>5, <1>6, ElemsConcat
  <1>10. Distinct(free')
    BY <1>4, <1>5, <1>6, <1>7, DistinctConcat
  <1>11. \A r \in Reqs : status'[r] = "UNDEF" <=> r \in Elems(free')
    BY <1>2, <1>6, <1>9
  <1>12. FreeListSound'
    BY <1>10, <1>11, ElementsElems DEF FreeListSound, Distinct
  <1> QED
    BY <1>1, <1>2, <1>3, <1>8, <1>12

\* The table is no longer than the requests in progress.
LEMMA TableBound ==
    ASSUME Table, Distinct(reqs), Elems(reqs) \subseteq InProgress
    PROVE  Len(reqs) <= Cardinality(InProgress) /\ Cardinality(InProgress) \in Nat
  <1>1. IsFiniteSet(InProgress) /\ Cardinality(InProgress) \in Nat
    BY ConstantsAssumption, FS_Subset, FS_CardinalityType DEF InProgress
  <1>2. Len(reqs) \in Nat /\ DOMAIN reqs = 1..Len(reqs) /\ reqs \in [1..Len(reqs) -> Reqs]
    BY DEF Table
  <1>3. reqs \in Injection(1..Len(reqs), InProgress)
    BY <1>2 DEF Injection, IsInjective, Distinct, Elems
  <1>4. Cardinality(1..Len(reqs)) <= Cardinality(InProgress)
    BY <1>1, <1>3, FS_Injection
  <1>5. Cardinality(1..Len(reqs)) = Len(reqs)
    BY <1>2, FS_Interval
  <1> QED
    BY <1>1, <1>4, <1>5

-----------------------------------------------------------------------------
(* The table *)

\* A post that gives its caller no request, or fails.
LEMMA TableUntracked ==
    ASSUME Table, NEW state \in {"NOWAIT", "LEAKED", "STRAY"}, Take(state, None),
           UNCHANGED <<reqs, pc, waited, mixed, lost>>
    PROVE  /\ Table' /\ Head(free) \in Reqs
           /\ status' = [status EXCEPT ![Head(free)] = state]
           /\ reg' = [reg EXCEPT ![Head(free)] = None]
  <1>1. state \in States /\ state # "UNDEF" /\ state \notin Live /\ "UNDEF" \notin Live
    BY DEF States, Live
  <1>2. PICK key \in Nat \union {None} : key = None
    OBVIOUS
  <1>3. /\ Head(free) \in Reqs /\ status[Head(free)] = "UNDEF"
        /\ status' = [status EXCEPT ![Head(free)] = state] /\ status' \in [Reqs -> States]
        /\ reg' = [reg EXCEPT ![Head(free)] = key] /\ reg' \in [Reqs -> Nat \union {None}]
        /\ free' \in Seq(Reqs) /\ FreeListSound'
    BY <1>1, <1>2, Taken
  <1>4. \A r \in Reqs : status'[r] \in Live <=> status[r] \in Live
    BY <1>1, <1>3 DEF Table
  <1>5. Covered' /\ Flushing'
    BY <1>4 DEF Table, Covered, Flushing, Elements
  <1>6. TableOwn'
    BY <1>4 DEF Table, TableOwn, InProgress
  <1> QED
    BY <1>2, <1>3, <1>5, <1>6 DEF Table

\* A request is posted and comm_track_request puts it into the table.
LEMMA TableTracked ==
    ASSUME Table, NEW call, MayPost(call), NEW state \in {"ACTIVE"}, NEW key \in Nat \union {None},
           Take(state, key), comm_track_request(Head(free)), UNCHANGED <<waited, mixed, lost>>
    PROVE  /\ Table' /\ Head(free) \in Reqs
           /\ status' = [status EXCEPT ![Head(free)] = state]
           /\ reg' = [reg EXCEPT ![Head(free)] = key]
  <1>1. state \in States /\ state # "UNDEF" /\ state \in Live /\ "UNDEF" \notin Live
    BY DEF States, Live
  <1>2. /\ Head(free) \in Reqs /\ status[Head(free)] = "UNDEF"
        /\ status' = [status EXCEPT ![Head(free)] = state] /\ status' \in [Reqs -> States]
        /\ reg' = [reg EXCEPT ![Head(free)] = key] /\ reg' \in [Reqs -> Nat \union {None}]
        /\ free' \in Seq(Reqs) /\ FreeListSound'
    BY <1>1, Taken
  <1>3. PICK r \in Reqs : r = Head(free)
    BY <1>2
  <1>4. /\ status'[r] \in Live /\ status[r] \notin Live
        /\ \A q \in Reqs : q # r => status'[q] = status[q]
    BY <1>1, <1>2, <1>3 DEF Table
  <1>5. reqs \in Seq(Reqs) /\ Len(reqs) \in Nat /\ MaxReqs \in Nat /\ pc = "idle"
    BY ConstantsAssumption DEF Table, MayPost, Calling
  <1>6. ASSUME ~mixed
        PROVE  /\ Len(reqs) + 1 < MaxReqs /\ Distinct(reqs) /\ Elems(reqs) \subseteq InProgress
               /\ r \notin Elems(reqs)
    <2>1. Distinct(reqs) /\ Elems(reqs) \subseteq InProgress
      BY <1>6 DEF Table, TableOwn
    <2>2. Len(reqs) <= Cardinality(InProgress) /\ Cardinality(InProgress) \in Nat
      BY <2>1, TableBound
    <2>3. Cardinality(InProgress) + 1 < MaxReqs
      BY DEF MayPost, InProgress
    <2>4. r \notin Elems(reqs)
      BY <1>4, <2>1 DEF InProgress
    <2> QED
      BY <1>5, <2>1, <2>2, <2>3, <2>4
  <1>7. CASE Len(reqs) < MaxReqs /\ reqs' = Append(reqs, r) /\ UNCHANGED pc
    <2>1. reqs' \in Seq(Reqs) /\ Len(reqs') = Len(reqs) + 1
      BY <1>5, <1>7, SeqAppend
    <2>2. Elems(reqs') = Elems(reqs) \union {r}
      BY <1>5, <1>7, ElemsAppend
    <2>3. ~mixed => Distinct(reqs')
      BY <1>5, <1>6, <1>7, DistinctAppend
    <2>4. Covered'
      BY <1>4, <1>5, <1>7, <2>2, ElementsElems DEF Table, Covered
    <2>5. TableOwn'
      <3>1. ~mixed => Elems(reqs') \subseteq InProgress'
        BY <1>4, <1>6, <2>2 DEF InProgress
      <3> QED
        BY <1>5, <1>6, <1>7, <2>1, <2>3, <3>1 DEF TableOwn
    <2>6. Flushing'
      BY <1>5, <1>7 DEF Flushing
    <2> QED
      BY <1>2, <1>5, <1>7, <2>1, <2>4, <2>5, <2>6 DEF Table
  <1>8. CASE Len(reqs) >= MaxReqs /\ pc' = "aborted" /\ UNCHANGED reqs
    <2>1. mixed
      BY <1>5, <1>6, <1>8
    <2>2. Covered' /\ TableOwn' /\ Flushing'
      BY <1>8, <2>1 DEF Covered, TableOwn, Flushing
    <2> QED
      BY <1>2, <1>8, <2>2 DEF Table
  <1> QED
    BY <1>2, <1>3, <1>7, <1>8 DEF comm_track_request

\* The HCA or a kernel moves requests in progress on.
LEMMA TableMoves ==
    ASSUME Table, UNCHANGED <<free, reg, reqs, pc, waited, mixed, lost>>,
           status' \in [Reqs -> States],
           \A r \in Reqs : /\ status'[r] \in Live <=> status[r] \in Live
                           /\ status'[r] = "UNDEF" <=> status[r] = "UNDEF"
    PROVE  Table'
  <1>1. FreeListSound'
    BY DEF Table, FreeListSound, Elements
  <1>2. Covered' /\ Flushing'
    BY DEF Table, Covered, Flushing, Elements
  <1>3. TableOwn'
    BY DEF Table, TableOwn, InProgress
  <1> QED
    BY <1>1, <1>2, <1>3 DEF Table

\* comm_wait, comm_wait_all and comm_flush begin to wait, or end the process.
LEMMA TableWaits ==
    ASSUME Table, UNCHANGED <<pool, reqs, mixed, lost>>, waited' \in Seq(Reqs),
           pc' \in {"idle", "waiting", "flushing", "aborted", "exited"},
           pc' = "flushing" => waited' = reqs, pc' = "aborted" => mixed,
           pc # "aborted"
    PROVE  Table'
  <1>1. UNCHANGED <<status, free, reg>>
    BY DEF pool
  <1>2. FreeListSound'
    BY <1>1 DEF Table, FreeListSound, Elements
  <1>3. Covered' /\ Flushing'
    BY <1>1 DEF Table, Covered, Flushing, Elements
  <1>4. TableOwn'
    BY <1>1 DEF Table, TableOwn, InProgress
  <1> QED
    BY <1>1, <1>2, <1>3, <1>4 DEF Table

\* The table is forgotten with a failing comm_flush.
LEMMA TableLost ==
    ASSUME Table, UNCHANGED <<pool, mixed>>, waited' = <<>>, lost' = TRUE,
           \/ reqs' = <<>> /\ pc' = "idle"
           \/ reqs' = reqs /\ pc' = "exited"
    PROVE  Table'
  <1>1. UNCHANGED <<status, free, reg>>
    BY DEF pool
  <1>2. FreeListSound'
    BY <1>1 DEF Table, FreeListSound, Elements
  <1>3. Covered' /\ Flushing'
    BY DEF Covered, Flushing
  <1>4. reqs' \in Seq(Reqs) /\ Len(reqs') <= MaxReqs
    <2>1. /\ reqs \in Seq(Reqs) /\ Len(reqs) <= MaxReqs
          /\ <<>> \in Seq(Reqs) /\ Len(<<>>) = 0 /\ 0 <= MaxReqs
      BY ConstantsAssumption, SeqNone DEF Table
    <2> QED
      BY <2>1
  <1>5. TableOwn'
    <2>1. CASE reqs' = <<>> /\ pc' = "idle"
      <3>1. Len(reqs') < MaxReqs /\ Distinct(reqs') /\ Elems(reqs') = {}
        BY <2>1, ConstantsAssumption, SeqNone
      <3> QED
        BY <2>1, <3>1 DEF TableOwn
    <2>2. CASE reqs' = reqs /\ pc' = "exited"
      BY <1>1, <2>2 DEF Table, TableOwn, InProgress
    <2> QED
      BY <2>1, <2>2
  <1> QED
    BY <1>1, <1>2, <1>3, <1>4, <1>5 DEF Table

\* WaitReturn and FlushReturn.
LEMMA TableReleased ==
    ASSUME Table, ReleaseAll(waited), \A r \in Elements(waited) : status[r] \in Done,
           pc \in {"waiting", "flushing"}, pc' = "idle", waited' = <<>>, UNCHANGED lost,
           \/ mixed' = TRUE /\ reqs' = reqs
           \/ pc = "flushing" /\ mixed' = mixed /\ reqs' = <<>>
    PROVE  /\ Table'
           /\ \A r \in Reqs : status'[r] = "ACTIVE" =>
                 status[r] = "ACTIVE" /\ reg'[r] = reg[r]
  <1>1. waited \in Seq(Reqs) /\ status \in [Reqs -> States] /\ reqs \in Seq(Reqs)
    BY DEF Table
  <1>2. /\ \A r \in Reqs : /\ r \in Elements(waited) => status'[r] = "UNDEF"
                           /\ r \notin Elements(waited) => status'[r] = status[r] /\ reg'[r] = reg[r]
        /\ status' \in [Reqs -> States] /\ reg' \in [Reqs -> Nat \union {None}]
        /\ free' \in Seq(Reqs) /\ FreeListSound'
    BY <1>1, Released
  <1>3. \A r \in Reqs : status'[r] = "ACTIVE" =>
           status[r] = "ACTIVE" /\ reg'[r] = reg[r]
    BY <1>2
  <1>4. \A r \in Reqs : status'[r] \in Live => status[r] \in Live /\ r \notin Elements(waited)
    BY <1>2 DEF Live
  <1>5. CASE mixed' = TRUE /\ reqs' = reqs
    <2>1. Covered' /\ TableOwn' /\ Flushing'
      BY <1>4, <1>5 DEF Table, Covered, TableOwn, Flushing, Elements
    <2> QED
      BY <1>2, <1>5, <2>1 DEF Table
  <1>6. CASE pc = "flushing" /\ mixed' = mixed /\ reqs' = <<>>
    <2>1. waited = reqs
      BY <1>6 DEF Table, Flushing
    <2>2. Covered'
      BY <1>4, <1>6, <2>1 DEF Table, Covered
    <2>3. Len(reqs') < MaxReqs /\ Distinct(reqs') /\ Elems(reqs') = {}
      BY <1>6, ConstantsAssumption, SeqNone
    <2>4. TableOwn' /\ Flushing'
      BY <2>3 DEF TableOwn, Flushing
    <2> QED
      BY <1>2, <1>6, <2>2, <2>3, <2>4, ConstantsAssumption DEF Table
  <1> QED
    BY <1>3, <1>5, <1>6

-----------------------------------------------------------------------------
(* The registrations *)

LEMMA CacheRegister ==
    ASSUME Cache, NEW b \in Bufs, comm_register(b), UNCHANGED broken
    PROVE  Cache' /\ mrs \subseteq mrs' /\ KeyFor(b) \in mrs' /\ KeyFor(b) \in Nat
  <1>1. /\ creg \in [Bufs -> Nat \union {None}] /\ mrs \subseteq Nat /\ keys \in Nat
        /\ \A key \in mrs : key <= keys
        /\ \A c \in Bufs : creg[c] # None => creg[c] \in mrs
        /\ \A a, c \in Bufs : creg[a] # None /\ creg[a] = creg[c] => a = c
    BY DEF Cache, CacheOwn
  <1>2. CASE Fresh(b)
    <2>1. /\ creg' = [creg EXCEPT ![b] = keys + 1] /\ mrs' = mrs \union {keys + 1}
          /\ keys' = keys + 1 /\ KeyFor(b) = keys + 1
      BY <1>2 DEF comm_register, KeyFor
    <2>2. \A key \in mrs : key # keys + 1
      BY <1>1
    <2>3. /\ creg' \in [Bufs -> Nat \union {None}] /\ mrs' \subseteq Nat /\ keys' \in Nat
          /\ \A key \in mrs' : key <= keys'
      BY <1>1, <2>1
    <2>4. \A c \in Bufs : creg'[c] # None => creg'[c] \in mrs'
      BY <1>1, <2>1
    <2>5. \A a, c \in Bufs : creg'[a] # None /\ creg'[a] = creg'[c] => a = c
      BY <1>1, <2>1, <2>2
    <2> QED
      BY <1>1, <2>1, <2>3, <2>4, <2>5 DEF Cache, CacheOwn
  <1>3. CASE ~Fresh(b)
    <2>1. creg' = creg /\ mrs' = mrs /\ keys' = keys /\ KeyFor(b) = creg[b] /\ creg[b] # None
      BY <1>1, <1>3 DEF comm_register, KeyFor, Fresh
    <2> QED
      BY <1>1, <2>1 DEF Cache, CacheOwn
  <1> QED
    BY <1>2, <1>3

LEMMA CacheDrop ==
    ASSUME Cache, NEW b \in Bufs, RegisterAndDrop(b), broken' \subseteq Nat
    PROVE  /\ Cache' /\ \A key \in mrs : key \in mrs' \/ (~Fresh(b) /\ key = creg[b])
  <1>1. /\ creg \in [Bufs -> Nat \union {None}] /\ mrs \subseteq Nat /\ keys \in Nat
        /\ \A key \in mrs : key <= keys
        /\ \A c \in Bufs : creg[c] # None => creg[c] \in mrs
        /\ \A a, c \in Bufs : creg[a] # None /\ creg[a] = creg[c] => a = c
    BY DEF Cache, CacheOwn
  <1>2. /\ creg' = [creg EXCEPT ![b] = None] /\ creg' \in [Bufs -> Nat \union {None}]
        /\ creg'[b] = None /\ \A c \in Bufs : c # b => creg'[c] = creg[c]
    BY <1>1 DEF RegisterAndDrop
  <1>3. mrs' = mrs \ {KeyFor(b)}
    BY DEF RegisterAndDrop
  <1>4. \A key \in mrs : key # keys + 1
    BY <1>1
  <1>5. keys' \in Nat /\ keys <= keys'
    BY <1>1 DEF RegisterAndDrop
  <1>6. \A key \in mrs' : key <= keys'
    BY <1>1, <1>3, <1>5
  <1>7. \A key \in mrs : key \in mrs' \/ (~Fresh(b) /\ key = creg[b])
    BY <1>3, <1>4 DEF KeyFor
  <1>8. \A c \in Bufs : creg'[c] # None => creg'[c] \in mrs'
    <2> SUFFICES ASSUME NEW c \in Bufs, creg'[c] # None PROVE creg'[c] \in mrs'
      OBVIOUS
    <2>1. c # b /\ creg'[c] = creg[c] /\ creg[c] \in mrs
      BY <1>1, <1>2
    <2>2. Fresh(b) \/ creg[c] # creg[b]
      BY <1>1, <2>1 DEF Fresh
    <2> QED
      BY <1>7, <2>1, <2>2
  <1>9. \A a, c \in Bufs : creg'[a] # None /\ creg'[a] = creg'[c] => a = c
    BY <1>1, <1>2
  <1> QED
    BY <1>1, <1>2, <1>3, <1>5, <1>6, <1>7, <1>8, <1>9 DEF Cache, CacheOwn

-----------------------------------------------------------------------------
(* The ring *)

LEMMA RingNext ==
    ASSUME Ring
    PROVE  /\ NDreqs \in Nat \ {0} /\ dreq_idx \in Nat /\ dreq_idx < NDreqs
           /\ (dreq_idx + 1) % NDreqs = IF dreq_idx + 1 = NDreqs THEN 0 ELSE dreq_idx + 1
           /\ (dreq_idx + 1) % NDreqs \in Slots
  <1>1. PICK n \in Nat \ {0} : n = NDreqs
    BY ConstantsAssumption
  <1>2. PICK d \in 0..(n - 1) : d = dreq_idx
    BY <1>1 DEF Ring, Slots
  <1>3. (d + 1) % n = IF d + 1 = n THEN 0 ELSE d + 1
    OBVIOUS
  <1> QED
    BY <1>1, <1>2, <1>3 DEF Slots

\* What the invariant says of a launched kernel.
LEMMA KernelBlock ==
    ASSUME Ring, NEW k \in 1..Len(kernels)
    PROVE  /\ kernels[k].slot \in Slots /\ kernels[k].slot = BlockOf(k)
           /\ slots[kernels[k].slot] = kernels[k].block
  <1>1. kernels \in Seq([slot : Slots, block : Seq(Desc)])
    BY DEF Ring
  <1>2. kernels[k] \in [slot : Slots, block : Seq(Desc)]
    BY <1>1, SeqElem
  <1>3. kernels[k].slot \in Slots
    BY <1>2
  <1> QED
    BY <1>3 DEF Ring, RingOwn

\* dreq_idx moves on from d to e: the blocks before it stay where they are.
LEMMA BehindNext ==
    ASSUME NEW n \in Nat, NEW d \in Nat, NEW m \in Nat, d < n, m + 1 < n, NEW k \in 1..(m + 1),
           NEW e \in Nat, e = IF d + 1 = n THEN 0 ELSE d + 1
    PROVE  /\ d # e
           /\ k = m + 1 => Behind(e, k, m + 1, n) = d
           /\ k \in 1..m => Behind(e, k, m + 1, n) = Behind(d, k, m, n) /\ Behind(d, k, m, n) # e
  <1>1. CASE d + 1 = n
    BY <1>1 DEF Behind
  <1>2. CASE d + 1 # n
    BY <1>2 DEF Behind
  <1> QED
    BY <1>1, <1>2

\* The block being filled belongs to no launched kernel.
LEMMA RingFill ==
    ASSUME Ring, UNCHANGED <<dreq_idx, kernels>>, NEW d \in Desc,
           slots' = [slots EXCEPT ![dreq_idx] = Append(@, d)]
    PROVE  Ring'
  <1>1. /\ slots \in [Slots -> Seq(Desc)] /\ dreq_idx \in Slots
        /\ kernels \in Seq([slot : Slots, block : Seq(Desc)]) /\ Len(kernels) \in Nat
        /\ Len(kernels) < NDreqs
    BY DEF Ring, RingOwn
  <1>2. NDreqs \in Nat \ {0} /\ dreq_idx \in Nat /\ dreq_idx < NDreqs
    BY RingNext
  <1>3. ASSUME NEW k \in 1..Len(kernels)
        PROVE  kernels[k].slot = BlockOf(k) /\ kernels[k].slot # dreq_idx
               /\ slots'[kernels[k].slot] = kernels[k].block
    <2>1. /\ kernels[k].slot = BlockOf(k) /\ slots[kernels[k].slot] = kernels[k].block
          /\ kernels[k].slot \in Slots
      BY KernelBlock
    <2>2. BlockOf(k) # dreq_idx
      BY <1>1, <1>2 DEF BlockOf, Behind
    <2> QED
      BY <1>1, <2>1, <2>2
  <1>4. slots' \in [Slots -> Seq(Desc)]
    BY <1>1
  <1> QED
    BY <1>1, <1>3, <1>4 DEF Ring, RingOwn, BlockOf, Behind

LEMMA RingLaunch ==
    ASSUME Ring, comm_prepared_requests
    PROVE  Ring'
  <1>1. /\ slots \in [Slots -> Seq(Desc)] /\ dreq_idx \in Slots
        /\ kernels \in Seq([slot : Slots, block : Seq(Desc)]) /\ Len(kernels) \in Nat
        /\ Len(kernels) + 1 < NDreqs
    BY DEF Ring, RingOwn, comm_prepared_requests
  <1>2. PICK next \in Slots : /\ next = (dreq_idx + 1) % NDreqs
                              /\ next = IF dreq_idx + 1 = NDreqs THEN 0 ELSE dreq_idx + 1
    BY RingNext
  <1>3. NDreqs \in Nat \ {0} /\ dreq_idx \in Nat /\ dreq_idx < NDreqs /\ next \in Nat
    BY RingNext DEF Slots
  <1>4. PICK e \in [slot : Slots, block : Seq(Desc)] :
           e = [slot |-> dreq_idx, block |-> slots[dreq_idx]]
    BY <1>1
  <1>5. /\ kernels' = Append(kernels, e) /\ dreq_idx' = next
        /\ slots' = [slots EXCEPT ![next] = <<>>]
    BY <1>2, <1>4 DEF comm_prepared_requests
  <1>6. /\ kernels' \in Seq([slot : Slots, block : Seq(Desc)])
        /\ Len(kernels') = Len(kernels) + 1
        /\ \A k \in 1..Len(kernels) : kernels'[k] = kernels[k]
        /\ kernels'[Len(kernels) + 1] = e
    BY <1>1, <1>5, SeqAppend
  <1>7. \A k \in 1..Len(kernels') : k \in 1..Len(kernels) \/ k = Len(kernels) + 1
    BY <1>1, <1>6
  <1>8. slots' \in [Slots -> Seq(Desc)] /\ \A s \in Slots : s # next => slots'[s] = slots[s]
    BY <1>1, <1>2, <1>5
  <1>9. ASSUME NEW k \in 1..Len(kernels')
        PROVE  kernels'[k].slot = BlockOf(k)' /\ slots'[kernels'[k].slot] = kernels'[k].block
    <2>1. k \in 1..(Len(kernels) + 1) /\ BlockOf(k)' = Behind(next, k, Len(kernels) + 1, NDreqs)
      BY <1>5, <1>6 DEF BlockOf, Behind
    <2>2. /\ dreq_idx # next
          /\ k = Len(kernels) + 1 => Behind(next, k, Len(kernels) + 1, NDreqs) = dreq_idx
          /\ k \in 1..Len(kernels) =>
                /\ Behind(next, k, Len(kernels) + 1, NDreqs) = Behind(dreq_idx, k, Len(kernels), NDreqs)
                /\ Behind(dreq_idx, k, Len(kernels), NDreqs) # next
      BY SMTT(30), <1>1, <1>2, <1>3, <2>1, BehindNext
    <2>3. CASE k = Len(kernels) + 1
      <3>1. kernels'[k] = e /\ e.slot = dreq_idx /\ e.block = slots[dreq_idx]
        BY <1>4, <1>6, <2>3
      <3>2. slots'[dreq_idx] = slots[dreq_idx]
        BY <1>1, <1>8, <2>2
      <3> QED
        BY <2>1, <2>2, <2>3, <3>1, <3>2
    <2>4. CASE k \in 1..Len(kernels)
      <3>1. /\ kernels'[k] = kernels[k] /\ kernels[k].slot = BlockOf(k) /\ kernels[k].slot \in Slots
            /\ slots[kernels[k].slot] = kernels[k].block
        BY <1>6, <2>4, KernelBlock
      <3>2. BlockOf(k) = Behind(dreq_idx, k, Len(kernels), NDreqs)
        BY DEF BlockOf, Behind
      <3>3. BlockOf(k)' = BlockOf(k) /\ kernels[k].slot # next
        BY <2>1, <2>2, <2>4, <3>1, <3>2
      <3>4. slots'[kernels[k].slot] = slots[kernels[k].slot]
        BY <1>8, <3>1, <3>3
      <3> QED
        BY <3>1, <3>3, <3>4
    <2> QED
      BY <1>7, <2>3, <2>4
  <1> QED
    BY <1>1, <1>2, <1>5, <1>6, <1>8, <1>9 DEF Ring, RingOwn

LEMMA RingRun ==
    ASSUME Ring, kernels # <<>>, kernels' = Tail(kernels), UNCHANGED <<slots, dreq_idx>>
    PROVE  Ring'
  <1>1. /\ kernels \in Seq([slot : Slots, block : Seq(Desc)]) /\ Len(kernels) < NDreqs
        /\ dreq_idx \in Nat /\ NDreqs \in Nat \ {0}
    BY RingNext DEF Ring, RingOwn
  <1>2. /\ kernels' \in Seq([slot : Slots, block : Seq(Desc)])
        /\ Len(kernels') = Len(kernels) - 1 /\ Len(kernels) \in Nat \ {0}
        /\ \A k \in 1..Len(kernels') : k + 1 \in 1..Len(kernels) /\ kernels'[k] = kernels[k + 1]
    BY <1>1, SeqTail
  <1>3. ASSUME NEW k \in 1..Len(kernels')
        PROVE  kernels'[k].slot = BlockOf(k)' /\ slots'[kernels'[k].slot] = kernels'[k].block
    <2>1. PICK n \in 1..Len(kernels) : n = k + 1 /\ kernels'[k] = kernels[n]
      BY <1>2
    <2>2. kernels[n].slot = BlockOf(n) /\ slots[kernels[n].slot] = kernels[n].block
      BY DEF Ring, RingOwn
    <2>3. BlockOf(k)' = BlockOf(n)
      BY <1>1, <1>2, <2>1 DEF BlockOf, Behind
    <2> QED
      BY <2>1, <2>2, <2>3
  <1> QED
    BY <1>1, <1>2, <1>3 DEF Ring, RingOwn

-----------------------------------------------------------------------------
(* The completion queues *)

\* Requests in flight stay in flight, and no work request is posted.
LEMMA QueueStays ==
    ASSUME Queue, UNCHANGED cq, shown' \subseteq Reqs, guard' \in [Reqs -> Guards],
           \A r \in Reqs : status[r] \in InFlight => status'[r] = status[r]
    PROVE  Queue'
  <1>1. \A f \in Flows : Elems(cq[f]) \subseteq Reqs
    BY SeqElem DEF Queue
  <1> QED
    BY <1>1 DEF Queue, QueueOwn

\* The structure taken was not in flight, so that no completion to come names it.
LEMMA QueueEnters ==
    ASSUME Queue, NEW f \in Flows, NEW r \in Reqs, status[r] \notin InFlight,
           NEW state \in InFlight, status \in [Reqs -> States],
           status' = [status EXCEPT ![r] = state],
           cq' = [cq EXCEPT ![f] = Append(@, r)], guard' = [guard EXCEPT ![r] = "busy"],
           shown' = shown \/ shown' = shown \union Elements(cq'[f])
    PROVE  Queue'
  <1>1. /\ cq \in [Flows -> Seq(Reqs)] /\ shown \subseteq Reqs /\ guard \in [Reqs -> Guards]
        /\ \A g \in Flows : Distinct(cq[g]) /\ \A q \in Elems(cq[g]) : status[q] \in InFlight
        /\ \A g, h \in Flows : g # h => \A q \in Elems(cq[g]) : q \notin Elems(cq[h])
    BY DEF Queue, QueueOwn
  <1>2. \A g \in Flows : r \notin Elems(cq[g]) /\ Elems(cq[g]) \subseteq Reqs
    BY <1>1, SeqElem
  <1>3. /\ cq'[f] = Append(cq[f], r) /\ cq' \in [Flows -> Seq(Reqs)]
        /\ \A g \in Flows : g # f => cq'[g] = cq[g]
    BY <1>1
  <1>4. Elems(cq'[f]) = Elems(cq[f]) \union {r} /\ Distinct(cq'[f])
    BY <1>1, <1>2, <1>3, ElemsAppend, DistinctAppend
  <1>5. status'[r] = state /\ \A q \in Reqs : q # r => status'[q] = status[q]
    OBVIOUS
  <1>6. \A g \in Flows : Distinct(cq'[g]) /\ \A q \in Elems(cq'[g]) : status'[q] \in InFlight
    BY <1>1, <1>2, <1>3, <1>4, <1>5
  <1>7. \A g, h \in Flows : g # h => \A q \in Elems(cq'[g]) : q \notin Elems(cq'[h])
    BY <1>1, <1>2, <1>3, <1>4
  <1>8. shown' \subseteq Reqs
    BY <1>1, <1>2, <1>4, ElementsElems
  <1>9. guard' \in [Reqs -> Guards]
    BY <1>1 DEF Guards
  <1> QED
    BY <1>3, <1>6, <1>7, <1>8, <1>9 DEF Queue, QueueOwn

\* What mp_wait_all releases is complete, not in flight.
LEMMA QueueReleased ==
    ASSUME Table, Queue, ReleaseAll(waited), \A r \in Elements(waited) : status[r] \in Done,
           UNCHANGED <<cq, shown, guard>>
    PROVE  Queue'
  <1>1. status' = [r \in Reqs |-> IF r \in Elements(waited) THEN "UNDEF" ELSE status[r]]
    BY DEF ReleaseAll
  <1>2. \A r \in Reqs : status[r] \in InFlight => status'[r] = status[r]
    BY <1>1 DEF Done, InFlight
  <1> QED
    BY <1>2, QueueStays DEF Queue

\* ibv_poll_cq returns the completion of a request in flight, and its only one.
LEMMA QueuePolled ==
    ASSUME Base, NEW f \in Flows, mp_progress_single_flow(f)
    PROVE  \E r \in Reqs :
              /\ status[r] \in InFlight /\ pc' = pc /\ Queue'
              /\ status' = [status EXCEPT ![r] = IF status[r] = "ACTIVE" THEN "COMPLETE" ELSE "SPENT"]
  <1>1. /\ cq \in [Flows -> Seq(Reqs)] /\ shown \subseteq Reqs /\ guard \in [Reqs -> Guards]
        /\ \A g \in Flows : Distinct(cq[g]) /\ \A q \in Elems(cq[g]) : status[q] \in InFlight
        /\ \A g, h \in Flows : g # h => \A q \in Elems(cq[g]) : q \notin Elems(cq[h])
        /\ status \in [Reqs -> States] /\ cq[f] # <<>>
    BY DEF Base, Table, Queue, QueueOwn, mp_progress_single_flow
  <1>2. PICK r \in Reqs : r = Head(cq[f])
    BY <1>1, SeqTail
  <1>3. /\ Elems(cq[f]) = Elems(Tail(cq[f])) \union {r} /\ Tail(cq[f]) \in Seq(Reqs)
        /\ r \notin Elems(Tail(cq[f])) /\ Distinct(Tail(cq[f]))
    BY <1>1, <1>2, ElemsTail, SeqTail
  <1>4. status[r] \in InFlight
    BY <1>1, <1>3
  <1>5. /\ cq' = [cq EXCEPT ![f] = Tail(cq[f])] /\ shown' = shown \ {r} /\ guard' = guard
        /\ status' = [status EXCEPT ![r] = IF status[r] = "ACTIVE" THEN "COMPLETE"
                                           ELSE IF status[r] = "STRAY" THEN "SPENT" ELSE status[r]]
        /\ pc' = IF status[r] \in InFlight THEN pc ELSE "exited"
    BY <1>1, <1>2 DEF mp_progress_single_flow
  <1>6. status' = [status EXCEPT ![r] = IF status[r] = "ACTIVE" THEN "COMPLETE" ELSE "SPENT"]
    BY <1>4, <1>5 DEF InFlight
  <1>7. /\ cq'[f] = Tail(cq[f]) /\ cq' \in [Flows -> Seq(Reqs)]
        /\ \A g \in Flows : g # f => cq'[g] = cq[g]
    BY <1>1, <1>3, <1>5
  <1>8. \A g \in Flows : r \notin Elems(cq'[g]) /\ Elems(cq'[g]) \subseteq Reqs
                        /\ Elems(cq'[g]) \subseteq Elems(cq[g]) /\ Distinct(cq'[g])
    BY <1>1, <1>3, <1>7, SeqElem
  <1>9. \A q \in Reqs : q # r => status'[q] = status[q]
    BY <1>1, <1>6
  <1>10. QueueOwn'
    BY <1>1, <1>8, <1>9 DEF QueueOwn
  <1>11. Queue'
    BY <1>1, <1>5, <1>7, <1>10 DEF Queue
  <1> QED
    BY <1>4, <1>5, <1>6, <1>11

-----------------------------------------------------------------------------
(* One lemma for each action *)

LEMMA Keeps ==
    /\ Cache /\ UNCHANGED <<creg, mrs, keys, broken>> => Cache'
    /\ Ring /\ UNCHANGED <<slots, dreq_idx, kernels>> => Ring'
    /\ Queue /\ UNCHANGED <<status, cq, shown, guard>> => Queue'
  BY DEF Cache, CacheOwn, Ring, RingOwn, BlockOf, Behind, Queue, QueueOwn

\* get_request gives out a structure that is not in flight.
LEMMA FreshTaken ==
    ASSUME Base, NEW state, NEW key, Take(state, key)
    PROVE  /\ Head(free) \in Reqs /\ status[Head(free)] \notin InFlight
           /\ status' = [status EXCEPT ![Head(free)] = state] /\ status \in [Reqs -> States]
  <1>1. free \in Seq(Reqs) /\ free # <<>> /\ status \in [Reqs -> States]
    BY DEF Base, Table, Take
  <1>2. Head(free) \in Reqs /\ Head(free) \in Elems(free)
    BY <1>1, SeqTail, SeqElem
  <1>3. status[Head(free)] = "UNDEF"
    BY <1>2, FreeList DEF Base, Table
  <1> QED
    BY <1>1, <1>2, <1>3 DEF Take, InFlight

\* Its work request goes to flow f.
LEMMA QueuePost ==
    ASSUME Base, NEW f \in Flows, NEW state \in InFlight, NEW key, Take(state, key), Enqueue(f),
           Doorbell(f) \/ UNCHANGED shown
    PROVE  Queue'
  <1>1. /\ Head(free) \in Reqs /\ status[Head(free)] \notin InFlight
        /\ status' = [status EXCEPT ![Head(free)] = state] /\ status \in [Reqs -> States]
    BY FreshTaken
  <1>2. PICK r \in Reqs : r = Head(free)
    BY <1>1
  <1> QED
    BY <1>1, <1>2, QueueEnters DEF Base, Enqueue, Doorbell

\* No completion of it is to come.
LEMMA QueueTaken ==
    ASSUME Base, NEW state, NEW key, Take(state, key), UNCHANGED cq, shown' \subseteq Reqs,
           guard' = [guard EXCEPT ![Head(free)] = "none"]
    PROVE  Queue'
  <1>1. /\ Head(free) \in Reqs /\ status[Head(free)] \notin InFlight
        /\ status' = [status EXCEPT ![Head(free)] = state] /\ status \in [Reqs -> States]
    BY FreshTaken
  <1>2. \A r \in Reqs : status[r] \in InFlight => status'[r] = status[r]
    BY <1>1
  <1>3. guard' \in [Reqs -> Guards]
    BY <1>1 DEF Base, Queue, Guards
  <1> QED
    BY <1>2, <1>3, QueueStays DEF Base

\* A post that fails drops the registration, and says so when it was in use.
LEMMA BasePostFails ==
    ASSUME Base, NEW b \in Bufs, NEW state \in {"LEAKED", "STRAY"}, PostFails(b, state),
           UNCHANGED <<waited, mixed, lost>>, Ring', Queue'
    PROVE  Base'
  <1>1. /\ Take(state, None) /\ RegisterAndDrop(b) /\ UNCHANGED <<reqs, pc>>
        /\ broken' = IF InUse(b) THEN broken \union {creg[b]} ELSE broken
    BY DEF PostFails
  <1>2. state \in {"NOWAIT", "LEAKED", "STRAY"} /\ state # "ACTIVE"
    OBVIOUS
  <1>3. Table /\ Cache /\ StaysRegistered
    BY DEF Base
  <1>4. /\ Table' /\ Head(free) \in Reqs /\ status' = [status EXCEPT ![Head(free)] = state]
        /\ reg' = [reg EXCEPT ![Head(free)] = None]
    BY <1>1, <1>2, <1>3, TableUntracked
  <1>5. broken' \subseteq Nat
    BY <1>1, <1>3 DEF Cache, InUse, Fresh
  <1>6. Cache' /\ \A key \in mrs : key \in mrs' \/ (~Fresh(b) /\ key = creg[b])
    BY <1>1, <1>3, <1>5, CacheDrop
  <1>7. StaysRegistered'
    <2> SUFFICES ASSUME NEW r \in Reqs, status'[r] = "ACTIVE", reg'[r] # None
                 PROVE  reg'[r] \in mrs' \union broken'
      BY DEF StaysRegistered
    <2>1. status[r] = "ACTIVE" /\ reg'[r] = reg[r]
      BY <1>2, <1>3, <1>4 DEF Table
    <2>2. reg[r] \in mrs \union broken
      BY <1>3, <2>1 DEF StaysRegistered
    <2>3. CASE reg[r] \in broken
      BY <1>1, <2>1, <2>3
    <2>4. CASE reg[r] \in mrs /\ reg[r] \notin mrs'
      <3>1. InUse(b) /\ reg[r] = creg[b]
        BY <1>6, <2>1, <2>4 DEF InUse
      <3> QED
        BY <1>1, <2>1, <3>1
    <2> QED
      BY <2>1, <2>2, <2>3, <2>4
  <1> QED
    BY <1>4, <1>6, <1>7 DEF Base

\* A post that succeeds refers to a live registration.
LEMMA BasePost ==
    ASSUME Base, NEW call, MayPost(call), NEW b \in Bufs, NEW state \in {"ACTIVE"},
           comm_register(b), Take(state, KeyFor(b)), comm_track_request(Head(free)),
           UNCHANGED <<waited, mixed, lost, broken>>, Ring', Queue'
    PROVE  Base'
  <1>1. Table /\ Cache /\ StaysRegistered
    BY DEF Base
  <1>2. Cache' /\ mrs \subseteq mrs' /\ KeyFor(b) \in mrs' /\ KeyFor(b) \in Nat
    BY <1>1, CacheRegister
  <1>3. PICK key \in Nat \union {None} : key = KeyFor(b)
    BY <1>2
  <1>4. /\ Table' /\ Head(free) \in Reqs /\ status' = [status EXCEPT ![Head(free)] = state]
        /\ reg' = [reg EXCEPT ![Head(free)] = key]
    BY <1>1, <1>3, TableTracked
  <1>5. StaysRegistered'
    <2> SUFFICES ASSUME NEW r \in Reqs, status'[r] = "ACTIVE", reg'[r] # None
                 PROVE  reg'[r] \in mrs' \union broken'
      BY DEF StaysRegistered
    <2>1. CASE r = Head(free)
      BY <1>1, <1>2, <1>3, <1>4, <2>1 DEF Table
    <2>2. CASE r # Head(free)
      <3>1. status'[r] = status[r] /\ reg'[r] = reg[r]
        BY <1>1, <1>4, <2>2 DEF Table
      <3> QED
        BY <1>1, <1>2, <3>1 DEF StaysRegistered
    <2> QED
      BY <2>1, <2>2
  <1> QED
    BY <1>2, <1>4, <1>5 DEF Base

LEMMA BaseIsend == ASSUME Base, NEW b \in Bufs, NEW f \in Flows, comm_isend(b, f) PROVE Base'
  <1>1. MayPost("comm_isend") /\ Ring' /\ UNCHANGED <<waited, mixed, lost>>
    BY Keeps DEF comm_isend, Base, ring
  <1>2. CASE /\ comm_register(b) /\ Take("ACTIVE", KeyFor(b)) /\ Enqueue(f) /\ Doorbell(f)
             /\ comm_track_request(Head(free)) /\ UNCHANGED broken
    <2>1. Queue'
      BY <1>2, QueuePost DEF InFlight
    <2> QED
      BY <1>1, <1>2, <2>1, BasePost
  <1>3. CASE PostFails(b, "LEAKED") /\ NotEnqueued
    <2>1. Queue'
      BY <1>3, QueueTaken DEF PostFails, NotEnqueued, Base, Queue
    <2> QED
      BY <1>1, <1>3, <2>1, BasePostFails
  <1> QED
    BY <1>2, <1>3 DEF comm_isend

LEMMA BasePrepareIsend ==
    ASSUME Base, NEW b \in Bufs, NEW f \in Flows, comm_prepare_isend(b, f) PROVE Base'
  <1>1. /\ MayPost("comm_prepare_isend") /\ Ring
        /\ UNCHANGED <<dreq_idx, kernels, waited, mixed, lost>>
    BY DEF comm_prepare_isend, Base
  <1>2. Head(free) \in Reqs
    BY <1>1, SeqTail DEF Base, Table, MayPost
  <1>3. AddDesc("tx", Head(free)) => Ring'
    <2>1. [kind |-> "tx", req |-> Head(free)] \in Desc
      BY <1>2 DEF Desc
    <2> QED
      BY <1>1, <2>1, RingFill DEF AddDesc
  <1>4. UNCHANGED slots => Ring'
    BY <1>1, Keeps
  <1>5. CASE /\ comm_register(b) /\ Take("ACTIVE", KeyFor(b)) /\ Enqueue(f) /\ UNCHANGED shown
             /\ comm_track_request(Head(free)) /\ UNCHANGED broken
             /\ AddDesc("tx", Head(free))
    <2>1. Queue'
      BY <1>5, QueuePost DEF InFlight
    <2> QED
      BY <1>1, <1>3, <1>5, <2>1, BasePost
  <1>6. CASE PostFails(b, "LEAKED") /\ NotEnqueued /\ UNCHANGED slots
    <2>1. Queue'
      BY <1>6, QueueTaken DEF PostFails, NotEnqueued, Base, Queue
    <2> QED
      BY <1>1, <1>4, <1>6, <2>1, BasePostFails
  <1>7. CASE /\ PostFails(b, "STRAY") /\ Enqueue(f) /\ UNCHANGED shown
             /\ AddDesc("tx", Head(free))
    <2>1. Queue'
      BY <1>7, QueuePost DEF InFlight, PostFails
    <2> QED
      BY <1>1, <1>3, <1>7, <2>1, BasePostFails
  <1> QED
    BY <1>5, <1>6, <1>7 DEF comm_prepare_isend

LEMMA BaseDeregister == ASSUME Base, NEW b \in Bufs, comm_deregister(b) PROVE Base'
  <1>1. /\ ~Fresh(b) /\ ~InUse(b) /\ creg' = [creg EXCEPT ![b] = None] /\ mrs' = mrs \ {creg[b]}
        /\ UNCHANGED <<status, free, reg, reqs, keys, slots, dreq_idx, kernels, pc, waited, mixed, lost, broken>>
        /\ UNCHANGED <<cq, shown, guard>>
    BY DEF comm_deregister, pool, queue, ring, past
  <1>2. Table' /\ Ring' /\ Queue'
    <2>1. Table /\ Ring /\ Queue
      BY DEF Base
    <2> QED
      BY <1>1, <2>1, Keeps, TableMoves DEF Table
  <1>3. Cache'
    <2>1. RegisterAndDrop(b)
      BY <1>1 DEF RegisterAndDrop, KeyFor
    <2> QED
      BY <1>1, <2>1, CacheDrop DEF Base, Cache
  <1>4. StaysRegistered'
    <2>1. \A r \in Reqs : status[r] = "ACTIVE" => reg[r] # creg[b]
      BY <1>1 DEF InUse
    <2> QED
      BY <1>1, <2>1 DEF Base, StaysRegistered
  <1> QED
    BY <1>2, <1>3, <1>4 DEF Base

LEMMA BaseSendReady == ASSUME Base, NEW f \in Flows, comm_send_ready(f) PROVE Base'
  <1>1. /\ Take("NOWAIT", None)
        /\ UNCHANGED <<reqs, creg, mrs, keys, slots, dreq_idx, kernels, pc, waited, mixed, lost, broken>>
    BY DEF comm_send_ready, cache, ring, past
  <1>2. PICK state \in {"NOWAIT", "LEAKED", "STRAY"} : state = "NOWAIT"
    OBVIOUS
  <1>3. /\ Table' /\ Head(free) \in Reqs /\ status' = [status EXCEPT ![Head(free)] = state]
        /\ reg' = [reg EXCEPT ![Head(free)] = None]
    BY <1>1, <1>2, TableUntracked DEF Base
  <1>4. Cache' /\ Ring'
    BY <1>1, Keeps DEF Base
  <1>5. StaysRegistered'
    BY <1>1, <1>2, <1>3 DEF Base, Table, StaysRegistered
  <1>6. Queue'
    <2>1. /\ cq' = cq /\ guard' = [guard EXCEPT ![Head(free)] = "none"]
          /\ shown' = shown \union Elements(cq[f])
      BY DEF comm_send_ready, Doorbell
    <2>2. Elements(cq[f]) \subseteq Reqs /\ shown \subseteq Reqs
      BY SeqElem, ElementsElems DEF Base, Queue
    <2> QED
      BY <1>1, <2>1, <2>2, QueueTaken
  <1> QED
    BY <1>3, <1>4, <1>5, <1>6 DEF Base

LEMMA BaseSendReadyOnStream ==
    ASSUME Base, NEW f \in Flows, comm_send_ready_on_stream(f) PROVE Base'
  <1>1. /\ MayPost("comm_send_ready_on_stream") /\ Take("ACTIVE", None) /\ Enqueue(f) /\ Doorbell(f)
        /\ comm_track_request(Head(free))
        /\ UNCHANGED <<creg, mrs, keys, slots, dreq_idx, kernels, waited, mixed, lost, broken>>
    BY DEF comm_send_ready_on_stream, cache, ring, past
  <1>2. PICK key \in Nat \union {None} : key = None
    OBVIOUS
  <1>3. /\ Table' /\ Head(free) \in Reqs /\ status' = [status EXCEPT ![Head(free)] = "ACTIVE"]
        /\ reg' = [reg EXCEPT ![Head(free)] = None]
    <2>1. Table
      BY DEF Base
    <2> QED
      BY <1>1, <1>2, <2>1, TableTracked
  <1>4. Cache' /\ Ring'
    BY <1>1, Keeps DEF Base
  <1>5. StaysRegistered'
    BY <1>1, <1>3 DEF Base, Table, StaysRegistered
  <1>6. Queue'
    BY <1>1, QueuePost DEF InFlight
  <1> QED
    BY <1>3, <1>4, <1>5, <1>6 DEF Base

\* The steps that leave the registrations alone, and no request in flight that
\* was not in flight before.
LEMMA BaseQuiet ==
    ASSUME Base, Table', Ring', Queue', UNCHANGED <<creg, mrs, keys, broken>>,
           \A r \in Reqs : status'[r] = "ACTIVE" =>
               status[r] = "ACTIVE" /\ reg'[r] = reg[r]
    PROVE  Base'
  BY Keeps DEF Base, StaysRegistered

LEMMA BaseLaunch == ASSUME Base, comm_prepared_requests PROVE Base'
  <1>1. /\ UNCHANGED <<status, free, reg, reqs, creg, mrs, keys, pc, waited, mixed, lost, broken>>
        /\ UNCHANGED <<cq, shown, guard>>
    BY DEF comm_prepared_requests, pool, queue, cache, past
  <1>2. Table' /\ Ring' /\ Queue'
    <2>1. Table /\ Ring /\ Queue
      BY DEF Base
    <2> QED
      BY <1>1, <2>1, RingLaunch, TableMoves, Keeps DEF Table
  <1> QED
    BY <1>1, <1>2, BaseQuiet

\* The steps that change guards, or show work requests to the HCA, and nothing else
\* that the engine keeps.
LEMMA BaseGuards ==
    ASSUME Base, UNCHANGED <<pool, cq, reqs, cache, past>>, Ring', shown' \subseteq Reqs,
           guard' \in [Reqs -> Guards],
           \/ UNCHANGED <<pc, waited>>
           \/ /\ waited' \in Seq(Reqs) /\ pc # "aborted"
              /\ pc' \in {"idle", "waiting", "flushing", "aborted", "exited"}
              /\ pc' = "flushing" => waited' = reqs
              /\ pc' = "aborted" => mixed
    PROVE  Base'
  <1>1. UNCHANGED <<status, free, reg, creg, mrs, keys, mixed, lost, broken>>
    BY DEF pool, cache, past
  <1>2. Table /\ Queue
    BY DEF Base
  <1>3. Queue'
    BY <1>1, <1>2, QueueStays
  <1>4. CASE UNCHANGED <<pc, waited>>
    <2>1. Table'
      BY <1>1, <1>2, <1>4, TableMoves DEF Table
    <2> QED
      BY <1>1, <1>3, <2>1, BaseQuiet
  <1>5. CASE /\ waited' \in Seq(Reqs) /\ pc # "aborted"
             /\ pc' \in {"idle", "waiting", "flushing", "aborted", "exited"}
             /\ pc' = "flushing" => waited' = reqs
             /\ pc' = "aborted" => mixed
    <2>1. Table'
      BY <1>1, <1>2, <1>5, TableWaits DEF pool
    <2> QED
      BY <1>1, <1>3, <2>1, BaseQuiet
  <1> QED
    BY <1>4, <1>5

LEMMA BaseRunKernel == ASSUME Base, RunKernel PROVE Base'
  <1>1. /\ kernels # <<>> /\ kernels' = Tail(kernels)
        /\ UNCHANGED <<pool, cq, reqs, cache, slots, dreq_idx, pc, waited, past>>
    BY DEF RunKernel
  <1>2. PICK T : shown' = shown \union {r \in Reqs : r \in T}
    BY DEF RunKernel
  <1>3. PICK W : guard' = [r \in Reqs |-> IF r \in W /\ guard[r] = "desc" THEN "kernel" ELSE guard[r]]
    BY DEF RunKernel
  <1>4. shown' \subseteq Reqs /\ guard' \in [Reqs -> Guards]
    BY <1>2, <1>3 DEF Base, Queue, Guards
  <1>5. Ring'
    BY <1>1, RingRun DEF Base
  <1> QED
    BY <1>1, <1>4, <1>5, BaseGuards

LEMMA BasePassWait == ASSUME Base, NEW r \in Reqs, PassWait(r) PROVE Base'
  <1>1. /\ UNCHANGED <<pool, cq, shown, reqs, cache, slots, dreq_idx, kernels, pc, waited, past>>
        /\ guard' = [guard EXCEPT ![r] = IF guard[r] = "stream" THEN "passed" ELSE "none"]
    BY DEF PassWait, ring
  <1>2. shown' \subseteq Reqs /\ guard' \in [Reqs -> Guards]
    BY <1>1 DEF Base, Queue, Guards
  <1>3. Ring'
    BY <1>1, Keeps DEF Base
  <1> QED
    BY <1>1, <1>2, <1>3, BaseGuards

LEMMA BaseWaitOnStream == ASSUME Base, NEW r \in Reqs, comm_wait_all_on_stream(r) PROVE Base'
  <1>1. /\ UNCHANGED <<pool, cq, shown, reqs, cache, slots, dreq_idx, kernels, waited, past>>
        /\ pc = "idle" /\ pc' \in {"idle", "exited"}
        /\ guard' = guard \/ guard' = [guard EXCEPT ![r] = "stream"]
    BY DEF comm_wait_all_on_stream, Calling, ring
  <1>2. shown' \subseteq Reqs /\ guard' \in [Reqs -> Guards] /\ waited' \in Seq(Reqs)
    BY <1>1 DEF Base, Queue, Guards, Table
  <1>3. Ring'
    BY <1>1, Keeps DEF Base
  <1> QED
    BY <1>1, <1>2, <1>3, BaseGuards

LEMMA BasePrepareWait == ASSUME Base, NEW r \in Reqs, comm_prepare_wait_all(r) PROVE Base'
  <1>1. /\ UNCHANGED <<pool, cq, shown, reqs, cache, dreq_idx, kernels, pc, waited, past>>
        /\ AddDesc("wait", r)
        /\ \E g \in {"desc", "stuck"} : guard' = [guard EXCEPT ![r] = g]
    BY DEF comm_prepare_wait_all
  <1>2. shown' \subseteq Reqs /\ guard' \in [Reqs -> Guards]
    BY <1>1 DEF Base, Queue, Guards
  <1>3. [kind |-> "wait", req |-> r] \in Desc
    BY DEF Desc
  <1>4. Ring'
    BY <1>1, <1>3, RingFill DEF Base, AddDesc
  <1> QED
    BY <1>1, <1>2, <1>4, BaseGuards

\* gds_post_wait_cq.
LEMMA Freed ==
    ASSUME Base, NEW rs, FreeGuards(rs) PROVE guard' \in [Reqs -> Guards]
  BY DEF FreeGuards, Base, Queue, Guards

LEMMA BaseWait == ASSUME Base, NEW seq \in Seq(Reqs), comm_wait(seq) PROVE Base'
  <1>1. /\ UNCHANGED <<pool, cq, shown, reqs, cache, slots, dreq_idx, kernels, past>> /\ pc = "idle"
    BY DEF comm_wait, Calling, ring
  <1>2. shown' \subseteq Reqs /\ Ring'
    BY <1>1, Keeps DEF Base, Queue
  <1>3. CASE FreeGuards(Elements(seq)) /\ pc' = "waiting" /\ waited' = seq
    BY <1>1, <1>2, <1>3, Freed, BaseGuards
  <1>4. CASE pc' = "exited" /\ UNCHANGED <<guard, waited>>
    <2>1. guard' \in [Reqs -> Guards] /\ waited' \in Seq(Reqs)
      BY <1>4 DEF Base, Queue, Table
    <2> QED
      BY <1>1, <1>2, <1>4, <2>1, BaseGuards
  <1> QED
    BY <1>3, <1>4 DEF comm_wait

LEMMA BaseCompletes ==
    ASSUME Base, NEW f \in Flows, mp_progress_single_flow(f),
           UNCHANGED <<free, reg, reqs, cache, ring, waited, past>>
    PROVE  Base'
  <1>1. UNCHANGED <<free, reg, reqs, creg, mrs, keys, slots, dreq_idx, kernels, waited, mixed, lost, broken>>
    BY DEF cache, ring, past
  <1>2. PICK r \in Reqs :
           /\ status[r] \in InFlight /\ pc' = pc /\ Queue'
           /\ status' = [status EXCEPT ![r] = IF status[r] = "ACTIVE" THEN "COMPLETE" ELSE "SPENT"]
    BY QueuePolled
  <1>3. Table /\ Ring /\ Ring'
    BY <1>1, Keeps DEF Base
  <1>4. /\ status' \in [Reqs -> States]
        /\ \A q \in Reqs : /\ status'[q] \in Live <=> status[q] \in Live
                           /\ status'[q] = "UNDEF" <=> status[q] = "UNDEF"
                           /\ status'[q] = "ACTIVE" => status[q] = "ACTIVE"
    BY <1>2, <1>3 DEF Table, States, Live, InFlight
  <1>5. Table'
    BY <1>1, <1>2, <1>3, <1>4, TableMoves
  <1> QED
    BY <1>1, <1>2, <1>3, <1>4, <1>5, BaseQuiet

LEMMA BasePoll == ASSUME Base, NEW f \in Flows, Poll(f) PROVE Base'
  BY BaseCompletes DEF Poll

LEMMA BaseProgress == ASSUME Base, NEW f \in Flows, comm_progress(f) PROVE Base'
  <1>1. pc = "idle" /\ UNCHANGED <<free, reg, reqs, cache, ring, waited, past>>
    BY DEF comm_progress, Calling
  <1>2. CASE mp_progress_single_flow(f)
    BY <1>1, <1>2, BaseCompletes
  <1>3. CASE Len(reqs) >= MaxReqs /\ pc' = "aborted" /\ UNCHANGED <<status, queue>>
    <2>1. mixed
      <3>1. reqs \in Seq(Reqs) /\ MaxReqs \in Nat /\ (~mixed => Len(reqs) < MaxReqs)
        BY ConstantsAssumption DEF Base, Table, TableOwn
      <3> QED
        BY <1>3, <3>1
    <2>2. /\ waited' \in Seq(Reqs) /\ shown' \subseteq Reqs /\ guard' \in [Reqs -> Guards] /\ Ring'
          /\ UNCHANGED <<pool, cq>>
      BY <1>1, <1>3, Keeps DEF Base, Table, Queue, queue, pool, ring
    <2> QED
      BY <1>1, <1>3, <2>1, <2>2, BaseGuards
  <1> QED
    BY <1>2, <1>3 DEF comm_progress

\* A table that nothing was released from behind its back has no bad entry.
LEMMA NoneBad ==
    ASSUME Table, ~mixed PROVE \A k \in DOMAIN reqs : status[reqs[k]] \notin {"UNDEF", "NOWAIT"}
  <1>1. reqs \in Seq(Reqs) /\ Elems(reqs) \subseteq InProgress
    BY DEF Table, TableOwn
  <1>2. \A k \in DOMAIN reqs : status[reqs[k]] \in Live
    BY <1>1 DEF Elems, InProgress
  <1> QED
    BY <1>2 DEF Live

LEMMA BaseFlush == ASSUME Base, comm_flush PROVE Base'
  <1>1. /\ pc = "idle" /\ reqs \in Seq(Reqs) /\ Len(reqs) \in Nat /\ MaxReqs \in Nat
        /\ waited \in Seq(Reqs) /\ Table /\ Ring /\ Queue
    BY ConstantsAssumption DEF comm_flush, Calling, Base, Table
  <1>2. /\ UNCHANGED <<pool, cq, cache, mixed, broken>> /\ shown' \subseteq Reqs
        /\ UNCHANGED <<status, reg, creg, mrs, keys, slots, dreq_idx, kernels>>
    BY <1>1 DEF comm_flush, pool, cache, ring, Queue
  <1>3. Ring'
    BY <1>1, <1>2, Keeps
  <1>4. CASE /\ \/ Len(reqs) >= MaxReqs
                \/ \E k \in DOMAIN reqs : Reaches(k) /\ status[reqs[k]] = "UNDEF"
             /\ pc' = "aborted" /\ UNCHANGED <<guard, reqs, waited, lost>>
    <2>1. mixed
      BY <1>1, <1>4, NoneBad DEF Table, TableOwn
    <2>2. guard' \in [Reqs -> Guards]
      BY <1>1, <1>4 DEF Queue
    <2> QED
      BY <1>1, <1>2, <1>3, <1>4, <2>1, <2>2, BaseGuards DEF past
  <1>5. CASE /\ \E k \in DOMAIN reqs : FailsAt(k) /\ FreeGuards(Upto(k))
             /\ reqs' = <<>> /\ lost' = TRUE /\ UNCHANGED <<pc, waited>>
    <2>1. Table'
      <3>1. UNCHANGED <<status, free, reg>>
        BY <1>2 DEF pool
      <3>2. FreeListSound' /\ Covered' /\ Flushing'
        BY <1>1, <1>5, <3>1 DEF Table, FreeListSound, Covered, Flushing, Elements
      <3>3. Len(reqs') < MaxReqs /\ Distinct(reqs') /\ Elems(reqs') = {} /\ reqs' \in Seq(Reqs)
        BY <1>5, ConstantsAssumption, SeqNone
      <3>4. TableOwn'
        BY <1>1, <1>5, <3>3 DEF TableOwn
      <3> QED
        BY <1>1, <1>2, <1>5, <3>1, <3>2, <3>3, <3>4 DEF Table
    <2>2. Queue'
      <3>1. guard' \in [Reqs -> Guards]
        BY <1>5, Freed
      <3> QED
        BY <1>1, <1>2, <3>1, QueueStays
    <2> QED
      BY <1>1, <1>2, <1>3, <2>1, <2>2, BaseQuiet
  <1>6. CASE /\ FreeGuards(Elements(reqs))
             /\ pc' = "flushing" /\ waited' = reqs /\ UNCHANGED <<reqs, lost>>
    <2>1. guard' \in [Reqs -> Guards]
      BY <1>6, Freed
    <2> QED
      BY <1>1, <1>2, <1>3, <1>6, <2>1, BaseGuards DEF past
  <1> QED
    BY <1>4, <1>5, <1>6 DEF comm_flush

LEMMA BaseWaitReturn == ASSUME Base, WaitReturn PROVE Base'
  <1>1. /\ pc = "waiting" /\ \A r \in Elements(waited) : status[r] = "COMPLETE"
        /\ ReleaseAll(waited) /\ mixed' = TRUE /\ pc' = "idle" /\ waited' = <<>> /\ reqs' = reqs
        /\ UNCHANGED <<creg, mrs, keys, slots, dreq_idx, kernels, lost, broken>>
        /\ UNCHANGED <<cq, shown, guard>>
    BY DEF WaitReturn, cache, ring, queue
  <1>2. Table /\ Ring /\ Ring' /\ Queue
    BY <1>1, Keeps DEF Base
  <1>3. /\ Table'
        /\ \A r \in Reqs : status'[r] = "ACTIVE" =>
              status[r] = "ACTIVE" /\ reg'[r] = reg[r]
    BY <1>1, <1>2, TableReleased DEF Done
  <1>4. Queue'
    BY <1>1, <1>2, QueueReleased DEF Done
  <1> QED
    BY <1>1, <1>2, <1>3, <1>4, BaseQuiet

LEMMA BaseFlushReturn == ASSUME Base, FlushReturn PROVE Base'
  <1>1. /\ pc = "flushing" /\ \A r \in Elements(waited) : status[r] \in Done
        /\ ReleaseAll(waited) /\ mixed' = mixed /\ pc' = "idle" /\ waited' = <<>> /\ reqs' = <<>>
        /\ UNCHANGED <<creg, mrs, keys, slots, dreq_idx, kernels, lost, broken>>
        /\ UNCHANGED <<cq, shown, guard>>
    BY DEF FlushReturn, cache, ring, past, queue
  <1>2. Table /\ Ring /\ Ring' /\ Queue
    BY <1>1, Keeps DEF Base
  <1>3. /\ Table'
        /\ \A r \in Reqs : status'[r] = "ACTIVE" =>
              status[r] = "ACTIVE" /\ reg'[r] = reg[r]
    BY <1>1, <1>2, TableReleased
  <1>4. Queue'
    BY <1>1, <1>2, QueueReleased
  <1> QED
    BY <1>1, <1>2, <1>3, <1>4, BaseQuiet

LEMMA BaseGpuError == ASSUME Base, GpuError PROVE Base'
  <1>1. /\ UNCHANGED <<pool, mixed>> /\ waited' = <<>> /\ lost' = TRUE
        /\ UNCHANGED <<status, reg, creg, mrs, keys, slots, dreq_idx, kernels, broken>>
        /\ UNCHANGED <<cq, shown, guard>>
    BY DEF GpuError, pool, queue, cache, ring
  <1>2. Table /\ Ring /\ Ring' /\ Queue'
    BY <1>1, Keeps DEF Base
  <1>3. CASE pc = "waiting"
    <2>1. reqs' = reqs /\ pc' = "exited"
      BY <1>3 DEF GpuError
    <2>2. Table'
      BY <1>1, <1>2, <2>1, TableLost
    <2> QED
      BY <1>1, <1>2, <2>2, BaseQuiet
  <1>4. CASE pc = "flushing"
    <2>1. reqs' = <<>> /\ pc' = "idle"
      BY <1>4 DEF GpuError
    <2>2. Table'
      BY <1>1, <1>2, <2>1, TableLost
    <2> QED
      BY <1>1, <1>2, <2>2, BaseQuiet
  <1> QED
    BY <1>3, <1>4 DEF GpuError

-----------------------------------------------------------------------------
(* The theorems *)

\* The pool begins with every structure on the free list, once.
LEMMA PoolFull ==
    SetToSeq(Reqs) \in Seq(Reqs) /\ Distinct(SetToSeq(Reqs)) /\ Elems(SetToSeq(Reqs)) = Reqs
  <1>1. IsFiniteSet(Reqs)
    BY ConstantsAssumption
  <1>2. Cardinality(Reqs) \in Nat /\ ExistsBijection(1..Cardinality(Reqs), Reqs)
    BY <1>1, FS_CardinalityType
  <1>3. \E f \in [1..Cardinality(Reqs) -> Reqs] : IsInjective(f)
    BY <1>2 DEF ExistsBijection, Bijection, Injection
  <1>4. PICK f : f = SetToSeq(Reqs) /\ f \in [1..Cardinality(Reqs) -> Reqs] /\ IsInjective(f)
    BY <1>3 DEF SetToSeq
  <1>5. f \in Injection(1..Cardinality(Reqs), Reqs)
    BY <1>4 DEF Injection
  <1>6. Cardinality(1..Cardinality(Reqs)) = Cardinality(Reqs)
    BY <1>2, FS_Interval
  <1>7. f \in Surjection(1..Cardinality(Reqs), Reqs)
    BY <1>1, <1>5, <1>6, FS_Injection
  <1>8. f \in Bijection(1..Cardinality(Reqs), Reqs)
    BY <1>5, <1>7 DEF Bijection
  <1> QED
    BY <1>1, <1>4, <1>8, OrderSeq

LEMMA BaseInit == ASSUME Init PROVE Base
  <1>1. Table
    <2>1. /\ status = [r \in Reqs |-> "UNDEF"] /\ reg = [r \in Reqs |-> None] /\ free = SetToSeq(Reqs)
          /\ reqs = <<>> /\ waited = <<>> /\ pc = "idle" /\ mixed = FALSE /\ lost = FALSE
      BY DEF Init
    <2>2. free \in Seq(Reqs) /\ Distinct(free) /\ Elems(free) = Reqs
      BY <2>1, PoolFull
    <2>3. FreeListSound
      BY <2>1, <2>2, FreeList
    <2>4. /\ reqs \in Seq(Reqs) /\ Len(reqs) < MaxReqs /\ Len(reqs) <= MaxReqs /\ Distinct(reqs)
          /\ Elems(reqs) = {}
      BY <2>1, ConstantsAssumption, SeqNone
    <2>5. Covered /\ TableOwn /\ Flushing
      BY <2>1, <2>4 DEF Covered, TableOwn, Flushing, Live
    <2> QED
      BY <2>1, <2>2, <2>3, <2>4, <2>5 DEF Table, States
  <1>2. Cache
    BY DEF Init, Cache, CacheOwn
  <1>3. Ring
    <2>1. NDreqs \in Nat \ {0}
      BY ConstantsAssumption
    <2>2. /\ kernels = <<>> /\ Len(kernels) = 0 /\ dreq_idx \in Slots
          /\ slots \in [Slots -> Seq(Desc)]
      BY <2>1 DEF Init, Slots
    <2> QED
      BY <2>1, <2>2 DEF Ring, RingOwn
  <1>4. StaysRegistered
    BY DEF Init, StaysRegistered
  <1>5. Queue
    <2>1. cq = [f \in Flows |-> <<>>] /\ shown = {} /\ guard = [r \in Reqs |-> "none"]
      BY DEF Init
    <2>2. <<>> \in Seq(Reqs) /\ Elems(<<>>) = {} /\ Distinct(<<>>)
      BY SeqNone
    <2> QED
      BY <2>1, <2>2 DEF Queue, QueueOwn, Guards
  <1> QED
    BY <1>1, <1>2, <1>3, <1>4, <1>5 DEF Base

LEMMA BaseStep == ASSUME Base, [Next]_vars PROVE Base'
  <1>1. ASSUME NEW b \in Bufs, NEW f \in Flows, comm_isend(b, f) \/ comm_prepare_isend(b, f)
        PROVE  Base'
    BY <1>1, BaseIsend, BasePrepareIsend
  <1>2. ASSUME NEW b \in Bufs, comm_deregister(b) PROVE Base'
    BY <1>2, BaseDeregister
  <1>3. CASE comm_prepared_requests \/ RunKernel
    BY <1>3, BaseLaunch, BaseRunKernel
  <1>4. ASSUME NEW r \in Handles, comm_wait(<<r>>) PROVE Base'
    <2>1. r \in Reqs
      BY DEF Handles
    <2>2. <<r>> \in Seq(Reqs)
      BY <2>1, SeqOne
    <2> QED
      BY <1>4, <2>2, BaseWait
  <1>5. ASSUME NEW a \in Handles, NEW b \in Handles, comm_wait(<<a, b>>) PROVE Base'
    <2>1. a \in Reqs /\ b \in Reqs
      BY DEF Handles
    <2>2. <<a, b>> \in Seq(Reqs)
      BY <2>1
    <2> QED
      BY <1>5, <2>2, BaseWait
  <1>6. ASSUME NEW f \in Flows,
               \/ comm_send_ready(f) \/ comm_send_ready_on_stream(f) \/ comm_progress(f) \/ Poll(f)
        PROVE  Base'
    BY <1>6, BaseSendReady, BaseSendReadyOnStream, BaseProgress, BasePoll
  <1>7. ASSUME NEW r \in Reqs,
               comm_wait_all_on_stream(r) \/ comm_prepare_wait_all(r) \/ PassWait(r)
        PROVE  Base'
    BY <1>7, BaseWaitOnStream, BasePrepareWait, BasePassWait
  <1>8. CASE comm_flush \/ WaitReturn \/ FlushReturn \/ GpuError
    BY <1>8, BaseFlush, BaseWaitReturn, BaseFlushReturn, BaseGpuError
  <1>9. CASE UNCHANGED vars
    <2>1. /\ UNCHANGED <<pool, cq, reqs, cache, past, pc, waited>>
          /\ UNCHANGED <<shown, guard, slots, dreq_idx, kernels>>
      BY <1>9 DEF vars, queue, ring
    <2>2. Ring' /\ shown' \subseteq Reqs /\ guard' \in [Reqs -> Guards]
      BY <2>1, Keeps DEF Base, Queue
    <2> QED
      BY <2>1, <2>2, BaseGuards
  <1> QED
    BY <1>1, <1>2, <1>3, <1>4, <1>5, <1>6, <1>7, <1>8, <1>9 DEF Next

\* The variables of the COMM library keep their types; the table never grows past
\* MAX_REQS (comm.cpp, comm_track_request).
THEOREM TypeCorrect == Spec => []TypeOK
  BY BaseInit, BaseStep, BaseProperties, PTL DEF Spec

\* No structure is on mp_request_free_list twice or while it is in use, although
\* comm_flush may release a table that names one twice (mp.c, mp_wait_all).
THEOREM PoolSound == Spec => []FreeListSound
  BY BaseInit, BaseStep, BaseProperties, PTL DEF Spec

\* The assertions of comm_track_request, comm_progress, comm_flush and mp_wait_all
\* hold for an application that waits with comm_flush alone.
THEOREM FlushAloneIsSafe == Spec => []NoAbort
  BY BaseInit, BaseStep, BaseProperties, PTL DEF Spec

\* comm_flush waits for everything that was posted, until one comm_flush has
\* failed (comm.cpp, comm_track_request and comm_flush).
THEOREM FlushCovers == Spec => []Covered
  BY BaseInit, BaseStep, BaseProperties, PTL DEF Spec

\* The registration of a request in flight is dropped by a failing post on the
\* same buffer and by nothing else (comm.cpp, comm_register, comm_deregister).
THEOREM MemoryStays == Spec => []StaysRegistered
  BY BaseInit, BaseStep, BaseProperties, PTL DEF Spec

\* A kernel reads the descriptors that were in its block when it was launched, for
\* a ring of any length and fewer kernels than blocks (comm.cpp,
\* comm_prepared_requests).
THEOREM KernelsReadTheirBlock == Spec => []BlockIntact
  BY BaseInit, BaseStep, BaseProperties, PTL DEF Spec

\* A completion to come is that of a request in flight, so that the poll never
\* writes to a structure of the pool, also when comm_flush fails or the table names
\* structures of others (mp.c, mp_wait_all and mp_progress_single_flow).
THEOREM PollsInFlight == Spec => []CompletionsInFlight
  BY BaseInit, BaseStep, BaseProperties, PTL DEF Spec
=============================================================================
