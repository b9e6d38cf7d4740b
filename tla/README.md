# A TLA+ development of libmp

libmp (`src/src`, `src/include`) lets an MPI program send, receive, put and get
over InfiniBand from the CPU, from a CUDA stream and from inside a CUDA kernel;
the COMM library (`src/comm_library`) is a thin layer on it with a flow-control
handshake.  This directory holds TLA+ models of both, the TLC configurations that
check them on small instances, and proofs that TLAPS checks for every instance.

Source paths below are short: `mp.c`, `mp_peersync.c`, `desc_queue.cpp`,
`mp_device.cpp` and `mp_internal.h` are in `src/src/`, `comm.cpp` in
`src/comm_library/`.

## The system

| part | state | operations | modelled by |
|------|-------|------------|-------------|
| request engine, default mode (`MP_EVENT_ASYNC=0`) | pool of `mp_request`, per peer and direction a work queue, a completion queue and its guards, CUDA streams | 14 calls that create a request, 6 that post prepared ones, waits on the CPU and on a stream, `mp_progress_all` | `MpDefault` |
| request engine, event mode (`MP_EVENT_ASYNC=1`) | the same pool, `last_trigger_id`, `last_tracked_id` and their posted counterparts, `posted_stream_req` | the sends, receives, waits and polls that have an event branch | `MpEvent` |
| descriptor queues and kernel descriptors | descriptors collected and not yet given to the GPU | `mp_desc_queue_*`, `get_descriptors` | `MpDefault` |
| COMM ready handshake | `ready_table`, `ready_values`, `remote_ready_values` of each rank about each peer, `comm_dev_descs` | ready, wait, test and send on CPU, stream and kernel | `CommReady` |
| COMM request tracking | `reqs[]`, `n_reqs`, the free list of the engine's pool, its completion queues and their guards | `comm_track_request`, `comm_progress`, `comm_flush`, `comm_wait*`, `comm_prepare_wait_all` | `CommTrack` |
| COMM registration cache | the `comm_reg_t` of every buffer | `comm_register`, `comm_deregister`, the error paths of the posts | `CommTrack` |
| COMM descriptor blocks | the ring of `comm_dev_descs`, `dreq_idx` | `comm_prepare_isend`, `comm_prepared_requests` | `CommTrack` |
| COMM example exchange | the program of every rank | `sync_exchange`, `async_exchange`, `main` of `comm_pingpong.cpp` | `CommPingpong`, over `CommReady` |
| connection setup | queue pairs of all ranks, the numbers they exchange | `mp_init`, `mp_finalize` | `MpInit` |
| registration and windows | registered keys, the keys of the peers' windows | `mp_register`, `mp_deregister`, `mp_window_create`, `mp_window_destroy` | `MpInit` |
| 32-bit waits | a word of the application | `mp_wait32`, `mp_wait32_on_stream` | only the use COMM makes of them, in `CommReady` |

How they interact.  One application thread calls the library; nothing in it is
locked.  Three more actors run at their own pace: the GPU executes streams in
order, the HCA executes a work queue in order as far as its doorbell has been
rung, and the peers do the same on their side.  The thread learns of completions
only when it polls, and it polls from `mp_wait_all`, from `mp_progress_all` and
from the loops that retry a full queue.  Ranks meet in MPI collectives, but only
in `mp_init`, `mp_window_create` and `mp_finalize`.

What is hard:

* In the default mode the GPU and the CPU consume the same completion queue.  For
  each signaled work request `gds_prepare_wait_cq` sets up a guard (a "peek"); while
  the guard is busy `ibv_poll_cq` stops in front of that completion.  A stream
  that executes the wait frees the guard.  The request's status, the guard, and the
  position of the completion are three records of one fact, updated at
  different times by different actors, and `mp_progress_single_flow` calls
  `exit(-1)` when they disagree (`mp.c:501-507`).
* A doorbell covers every work request in front of it, so work requests that wait
  for a stream are shown to the HCA by any later doorbell of the same queue pair.
* In the event mode a stream and the CPU exchange ids through two words per peer
  and direction, which only work when ids are written in ascending order.
* The ready counters are compared without regard to wrap-around, and the put of a
  ready value reads the counter the next call increments.

* COMM keeps its table of requests beside the engine's pool.  `comm_wait` releases
  a structure that the table still names, and the pool gives out the structure
  released last, so the table may name a request of a later call, or one twice.
* A rank that fails in `mp_init`, or that takes a queue pair or a window down,
  meets peers that are in another phase; only the barriers keep them apart, and
  `mp_window_destroy` has none.

`PROJECT.json` lists the hazards by line with the properties aimed at them.

## Modules

| module | contents |
|--------|----------|
| `RequestLife` | the abstract promise about one request: created, posted, executed, complete, released, in this order; an abandoned one goes back only if it was never posted |
| `MpDefault`, `MCMpDefault` | the engine in default mode; symmetry for TLC |
| `MpDefaultProofs` | TLAPS proofs about `MpDefault` |
| `MpEvent`, `MCMpEvent` | the engine in event mode |
| `SequenceFacts` | lemmas about sequences and their elements that the proofs share |
| `MpEventProofs`, `MpEventStreamProofs` | TLAPS proofs about `MpEvent`: types and ownership, the order of ids and the refinement; what the streams see.  The second extends the first |
| `CommReady`, `MCCommReady` | the ready handshake of all ranks |
| `CommReadyProofs` | TLAPS proofs about `CommReady` |
| `CommPingpong`, `MCCommPingpong` | the exchange of `comm_pingpong.cpp`: EXTENDS `CommReady`, each step is the program's control and a call of it |
| `CommPingpongProofs` | TLAPS proofs about `CommPingpong`, over those of `CommReadyProofs` |
| `CommTrack`, `MCCommTrack` | the table of requests, the registrations and the descriptor blocks of one COMM rank |
| `CommTrackProofs` | TLAPS proofs about `CommTrack` |
| `MpInit`, `MCMpInit` | connections and windows of all ranks |
| `MpInitProofs` | TLAPS proofs about `MpInit` |

Both engines refine `RequestLife` (`LifeSpec`, a PROPERTY of the runs `faults` and
`event_live`); the mapping is `LifeOf` in each module.

### MpDefault

`status`, `req` and `user` are the request structures and the handles the
application was given.  A work queue is three counters (`posted`, `rung`, `done`), a
completion queue is the sequence of completions that will ever be produced
(`cq`, each with its work request and its `wr_id`), a cursor (`polled`) and the
guards (`peek`).  Indices are never reused, so "the k-th guard belongs to the k-th
completion" is a plain equation.  `stream` and `descs` hold what the GPU has
still to do.

The fourteen submitting calls differ in seven choices (the state they create the
request in and leave it in, who rings the doorbell, what a full queue does,
whether the stream also waits, whether a handle is returned, whether an error
releases the structure).  These are the fields of the record `how`; each call is one
line that gives its values, and `Submit`/`Enqueue` is the common path.  Posting
with a full queue becomes a `pc` of its own ("posting"), in which the thread
polls; `PostRetry` and `PostGiveUp` end it.  `mp_wait_all` is a call
(`AbortPeeks`: stream guards are aborted, statuses become MP_PENDING) and a loop that
polls until `WaitReturn` or `WaitGpuError`.

Every external call may fail when its name is in `Faults`.

### MpEvent

The same structures with ids.  `StreamTrigger` writes `last_trigger`,
`progress_posted_list` posts the head of the list when its id was reached,
`mp_progress_single_flow` writes `last_tracked` for requests with `trigger` set and
`StreamRun` compares.  A "kernel" operation on a stream marks where the
application's next work stands after a call that promised to make the stream wait;
it carries the request, so that `StreamNotEarly` can say what must have happened
when it starts.  A batch (`mp_send_post_all_on_stream`, `mp_isend_post_all_on_stream`)
has two requests: the second is the first one the loop can refuse after it has changed
something.

### CommReady

A work queue is a sequence with two cursors; readies (puts) and messages
share it.  A doorbell on a stream is an operation `ring` with the position it
covers.  A put marked `inline` carries the value of its own call; one that is not
reads `remote_ready_values` when the HCA executes it.  Tables hold numbers below
`Modulus` (2^32 in the code).  `CommReady` takes the request engine as reliable and
leaves the tracking of requests out.

The GPU compares the cell as an unsigned number in the model.  The comparison of
the CUDA driver is cyclic; the two agree as long as the counters do not wrap, and
the runs stay below that.

### CommPingpong

`line[i]` is the next call of rank i, `peer[i]` and `iter[i]` are its loop
variables.  A step conjoins the control with the action of `CommReady` for the
call, whose guard contains the contract: a program that did not meet it would
stop there; `ContractMet` says that it does not happen.  `comm_wait_all_on_stream` puts waits for the
completions of the iteration on the stream, `comm_flush` waits until all tracked
requests are complete and `cudaDeviceSynchronize` until the stream is empty.  `sa`
is chosen for each rank, because every process reads its own environment.

### CommTrack

`status`, `free` and `reg` are the pool, with the free list in the order of
`release_mp_request` (last released, first given out); `reqs` is the table.  Below it
is the default mode of the engine (`MP_EVENT_ASYNC=0`), reduced to what the table can
see.  A request is active, complete or released, or keeps its structure for ever because
it is a put with MP_PUT_NOWAIT, its post failed (`LEAKED`), or it was posted and its
descriptor failed (`STRAY`, and `SPENT` once it was polled).  `cq[f]` is the queue of completions
to come of one peer and direction, `shown` the requests a doorbell has covered, and
`guard` says who frees the guard of a completion: nobody yet (`busy`, the status
MP_PENDING_NOWAIT), a wait on a stream, the wait descriptor of a kernel, nobody any more
(`stuck`), or it is free.  `mp_progress_single_flow` returns the first completion of a queue,
if it was shown and its guard is free, and stops in front of it otherwise.
The order of the operations on a stream is left to `CommReady`: a doorbell of
`comm_isend_on_stream` is shown at once and a stream passes its waits in any order.  A failing
`gds_prepare_wait_cq` is in `MpDefault` only.

`comm_flush` looks at the table in its order, as the first loop of `mp_wait_all` does: a
released structure fails the assertion of `req_type_rx`, a NOWAIT one gives EINVAL, a
failing `gds_post_wait_cq` an error, the guards in front are free by then, and `n_reqs` is
reset whatever happened.  A launched kernel remembers the block it was given and what the
block held, which `BlockIntact` compares.  `mixed`, `lost` and `broken` are history variables.

### MpInit

Each rank runs through `mp_init` with one step per turn of a loop and per
collective.  MPI is the list of collectives called so far (`colls`): a rank leaves its
n-th one when every rank has entered its n-th, and a rank that calls another one than
the others is stuck.  A queue pair is named by the rank and client index it was
created for, so "connected to the right one" is an equation.  Messages in flight
carry the queue pair they are for and the key of the memory they write; `Deliverable`
says at every moment that they would be accepted if they arrived now.

## What the application is assumed to do

The library documents little of its contract; the models make it explicit and
let runs drop parts of it (`Liberties`).

* default mode: a request is not waited for on a stream after it completed
  (`rewait`); a doorbell does not overtake sends that are held back elsewhere
  (`unordered`); an MP_PUT_NOWAIT put is not waited for (`wait_nowait`).
* event mode: a channel moves to another stream when the first one is through with
  it (`streams`); an immediate send is not mixed with held-back ones (`mix`);
  prepared sends are posted in the order of preparation (`misorder`);
  `mp_wait_all_on_stream` gets no complete request (`rewait`).
* COMM: one ready per receive, one wait per send and before it; CPU doorbells are
  rung when nothing of that peer is held back.  Fewer than MAX_REQS requests are
  outstanding, fewer than `n_dreqs` kernels are launched, at most `max_n_descs` sends
  go into a block, and a prepared send is waited for after its kernel was launched.
* windows: all ranks make their collective calls in the same order, a rank waits for its
  own requests before it takes anything down, and a barrier precedes
  `mp_window_destroy`, as in `mp_putget.c`.  Peer lists are symmetric.

`Calls` selects the functions an application uses, so that a run can concentrate
on their interplay.

## Runs

| run | question | properties |
|-----|----------|------------|
| `prepared` | does the HCA see a prepared send early, does every wait refer to its own completion, is every request that is MP_PENDING armed? | `TypeOK`, `SendNotEarly`, `WaitsForItself`, `PendingIsArmed` |
| `faults` | with failing posts, streams and GPU: does the poll ever meet a request that is not pending, do requests live as promised, and does `mp_wait_all` return although completions wait behind one another? | `NoFatalExit`, `NoDanglingCompletion`, `LifeSpec` (refinement of `RequestLife`), `WaitReturns` under fairness |
| `event_streams` | do assertions hold, is every tracked id triggered, does a stream start work, or the CPU post a send, too early? | `TypeOK`, `NeverEnds`, `TrackedIsTriggered`, `StreamNotEarly`, `SendNotEarly` |
| `event_live` | the last two questions in event mode, with faults and batches posted in the wrong order | `LifeSpec`, `WaitReturns`, under fairness |
| `ready_handshake` | does a message ever precede its receive, does a cell of the table ever announce another number than that of the readies executed? | `TypeOK`, `DataHasReceive`, `CellCounts` |
| `exchange` | do threads and streams of three ranks ever wait in a circle, whichever of them run `async_exchange`, does the exchange of `comm_pingpong.cpp` meet the contract of every call, and does it end with nothing in flight? | `NeverStuck`, `ContractMet`, `QuietAtEnd` |
| `exchange_pair` | do two ranks end, without an overflow of the table, when several iterations are on their streams at once, in every mix? | `TableFits`, `Terminates` under fairness |
| `track` | what do `comm_wait`, `comm_flush`, failing posts and kernels do to the table, the pool, the registrations and the blocks, and does `comm_flush` return, with completions behind the guards of streams, kernels and failed calls? | `TypeOK`, `FreeListSound`, `NoAbort`, `Covered`, `StaysRegistered`, `BlockIntact`, `CompletionsInFlight`, `FlushReturns` under fairness |
| `connect` | do ranks come up and go down together, does every message find its queue pair and its memory? | `TypeOK`, `Deliverable`, `LeadsToPeer`, `AllOrNothing`, `InitReturns` under fairness |

Runs that are expected to find a violation; each is a finding in `PROJECT.json`
that quotes the line of the repository it contradicts:

| run | what the code does |
|-----|--------------------|
| `post_all_exit` | `mp_send_post_all_on_stream` leaves its requests MP_PREPARED and the next poll exits |
| `put_release_exit` | `mp_iput_on_stream` releases a request whose put is queued, its completion exits |
| `event_wait_retry` | a failed `mp_wait_on_stream` succeeds on retry without waiting |

What the contract is for.  Each part of it can be dropped by adding its name to
`Liberties`, and TLC then shows what it protects against: with `rewait` in the
default mode a stream wait for a polled request makes it pending for ever
(`PendingIsArmed`); in the event mode `mix` lets an immediate send overtake an
older one and the assertion of `mp.c:512` fails, and `rewait` fails the assertion
of `mp_peersync.c:1192` (`NeverEnds`); `streams` lets a smaller trigger overwrite
a larger one, and `misorder` lets a refused batch leave its first request in the
list without a trigger (`TrackedIsTriggered`).  Ready counters that wrap
(`MaxMsgs` not below `Modulus`) let a message precede its receive
(`DataHasReceive`).  Two limits hold with or without the contract: a queue full of
MP_PUT_NOWAIT puts is polled for ever, and `mp_isendv` returns no handle.

What the properties of COMM leave out says where to be careful.  `NoAbort` exempts an application that has
called `comm_wait` on a request (`mixed`): a later `comm_flush` finds the released
structure in the table and fails an assertion, and entries of waited-for requests fill
the table up.  `Covered` exempts the time after a failed `comm_flush`, which has emptied the
table.  `StaysRegistered` exempts registrations that a failing post dropped while
other requests used them (`comm.cpp:478`).  `FlushReturns` exempts two
cases in which `comm_flush` spins for ever.  One of its entries is a structure that `comm_wait`
released and a failing post took over: there is no completion, or no doorbell, for it.  Or one
of its completions stands behind a guard nobody frees any more (`Serviceable`): a prepared send
whose `get_descriptors` failed (`comm.cpp:634`) and a request that a failed `comm_flush` has
forgotten (`comm.cpp:570`) stay in the queue with a busy guard, and `ibv_poll_cq` stops there.
TLC finds `FlushReturns` violated by each when its condition is dropped.

The premises of `WaitReturns` say when `mp_wait_all` may spin for ever: in the
default mode when a guard nobody frees, or a send nobody posts, stands in front
of a completion (`Serviceable`, `AllPosted`), or when a stream waits for a send whose doorbell was
lost or stands behind that wait (`StreamsRun`); in the event mode when a send was not posted, when a
failed call left one without a trigger (`TrackedIsTriggered`), or when a stream
waits for a send that only a later operation triggers (`WaitsAreTriggered`).

Bounds.  `MaxPosts`, `MaxId` and `MaxOps` stop submissions; with two or three
structures every structure is reused at least once, which is what dangling
completions and id order need, and `QueueDepth` of 1 or 2 makes queues fill up in
every run that is about retries.  `faults` has a depth of 2, so that
completions stand behind busy guards: `WaitReturns` fails in it when `Serviceable` looks at the
completion waited for and not at those in front of it.  `mp_send_post_all_on_stream`, whose
requests end the process (`post_all_exit`), and the failing `gds_prepare_wait_cq` of the prepare
and put calls (`put_release_exit`) are not in it; `prepared` has such failures.  Nor is `rewait`,
under which a stream wait turns a complete request back into a pending one, against
`RequestLife`; that `NoFatalExit` and `NoDanglingCompletion` hold with it all the same is proved.  Two streams, or one stream and the CPU, are all
the consumers a guard or a word can have at one time; peers share no state in the
engine except the pool, so one peer is used.  `event_streams` lets a stream hold
the six operations of a blocking batch of two sends (a trigger, a wait and a kernel
each) on two streams with two ids of a channel; `event_live` has a third id, so that a
structure is reused beside a later request, on one stream.  `Modulus = 3` with two
messages each way takes the numbers of the handshake to the last value a cell can hold, and the
counters of the next one to zero.
`exchange` has three ranks, the least in which a cycle of waits is more than a
pair, one iteration and all eight mixes of the two modes; `exchange_pair` has two ranks, all four
mixes and three iterations, so that every cell and every buffer is used again.  Every step
uses up a call, an operation or a work request, so that in this system `NeverStuck`, which is
cheap to check, and `Terminates` say the same.  The `MaxReqs` of `exchange_pair` is the smallest
value the code's numbers allow
(3 requests, for each peer and iteration, and one more; in the code 3 * 9 * 128 =
3456 against 16384).  `track` has two structures, of which one is leaked, forgotten or held by a
NOWAIT put in some behaviours, a table of three and a ring of two blocks: the table
names a structure twice and fills up, the ring wraps, and a completion stands behind the busy guard
of another (`FlushReturns` fails when `Serviceable` does not look at those in front).  `connect` has four ranks in a
row, so that client indices differ from ranks, ranks have different numbers of peers,
and some pairs are not connected; the second of two windows meets the keys of the first.
CHECK_DEADLOCK is off because the bounds let every instance run out of submissions,
because the programs end, and because a rank that fails leaves the others in a barrier.

Fairness.  The GPU executes streams and the HCA executes queues whatever the
application does; a posted receive is matched by the peer sooner or later.
A thread inside a loop of the library polls on and leaves the loop when its
condition holds.  All of it is weak fairness, and nothing obliges the
application to call the library again: polls by an idle thread are not fair.
In the exchange the program itself is known; `PingpongFairness` only says that the system does
not stand still while some rank, GPU or HCA can take a step.  In
`connect` a rank inside `mp_init` goes on; a rank that has failed does nothing.

## Proofs

`MpDefaultProofs` proves, for any pool, any peers and streams, any queue depth, any
set of calls, faults and liberties but those a theorem excludes:

| theorem | excludes | states |
|---------|----------|--------|
| `TypeCorrect` | nothing | `TypeOK` |
| `Invariant`, `NeverExits`, `NoDangling` | the uses of `SafeUse` | the invariant `IInv` below, `NoFatalExit`, `NoDanglingCompletion` |
| `WaitsAreOwn` | `rewait` | `WaitsForItself` |
| `PendingArmed` | the uses of `SafeUse`, `rewait`, `wait_nowait`, failing stream posts (`WholeCalls`) | `PendingIsArmed` |
| `SendsInOrder` | `unordered`, `mp_send_post_all_on_stream` (`OrderedUse`) | `SendNotEarly` |
| `RefinesLife` | the uses of `SafeUse`, `rewait` | `LifeSpec`, the refinement of `RequestLife` |

`SafeUse` excludes the two uses the runs `post_all_exit` and `put_release_exit` refute
(and the like failure of the prepare calls).  `PendingArmed` excludes the half-finished
calls because they mark requests MP_PENDING and queue nothing for them.

`NoFatalExit` is not inductive: that a poll meets a pending request depends on who
owns the completion and on who may free its guard.  The inductive invariant says
that guards and completions are aligned (`Aligned`); that the request of every
completion still to come is pending on that channel, and guarded if only
prepared (`Owners`); that no request has two completions to come (`OneEach`);
what a handle held by the application implies (`Handles`); that no stream and no
descriptor queue will free the guard of a prepared request (`WaitOps`); and that a
submission in its retry loop owns its request alone (`Posting`).  The proof has
one lemma per group of calls; `HeldStepInv` covers all steps that only move
statuses, `EngineStep` those of the GPU and the HCA, `PollInv` the poll.

* `OwnWaits` (for `WaitsAreOwn`) says of every handle and of every queued wait that its
  index is the completion of its own request.  It holds because a wait takes its index from the
  end of the completion queue in the call that appends the completion, retry loop or not.
* `ArmedInv` (for `PendingArmed`) adds that the completion of a pending request is to
  come, with a guard that is free or that a queued wait will free.  `mp_wait_all`
  marks requests MP_PENDING and queues no wait for them; it frees their guards itself.
* `Lanes` (for `SendsInOrder`): the sends of a channel that nobody rang for stand in one
  stream, then in one descriptor queue, then as prepared requests, ascending and all beyond
  the doorbell.  `SendNotEarly` alone is not inductive: when a stream rings the doorbell for
  its oldest send, everything else held back must be younger, wherever it stands.
* `LifeInv` (for `RefinesLife`): the HCA has executed no more than was rung for, and rung
  for no more than was posted (`Marks`); completions come in the order of their work requests, and
  one to come carries the work request of its request (`Entries`); a signaled request that is not
  complete has its completion to come (`Tracked`), so that no request is lost.  An HCA step then
  executes at most one request, and a poll completes one that was executed.

`CommReadyProofs` proves, for any set of ranks and any calls:

* `TypeCorrect`: `Spec => []TypeOK`, also when counters wrap;
* under `NoWrap` (`MaxMsgs < Modulus`, so no number reaches the width of a cell):
  `HandshakeHolds` (`DataHasReceive`) and `CellsCountReadies` (`CellCounts`).

`DataHasReceive` speaks of the work requests the HCA was shown; a doorbell on a
stream shows several at once, so the invariant must say what stands in front of
it.  `Guarded`: every message a queued doorbell covers has been announced, or its
wait stands earlier on the same stream; `Issued`: a wait that was called is over, on
the stream or among the descriptors; `Together`: a message whose wait is still a
descriptor has its doorbell there too, so the kernel executes the wait first.
`Readies` (values grow along a queue, none behind the executed ones is below the
cell) gives with `Messages` and `Counters` the chain message <= cell <= readies <=
receives.  `Counting` sharpens it for `CellCounts`: the n-th ready of a queue carries n, and
`readies` is their number.  `Narrow` and `Own` are what the types need.

`CommPingpongProofs` proves, for any number of ranks (at least two), any number of iterations and
any mix of `sync_exchange` and `async_exchange` among the ranks:

| theorem | assumes | states |
|---------|---------|--------|
| `MeetsContract` | nothing more | `ContractMet` |
| `NothingLeft` | nothing more | `QuietAtEnd` |
| `TableNeverFull` | `RoomFor` | `TableFits` |
| `ExchangeHandshake` | `NoWrap` | `DataHasReceive` |

`RoomFor` says that what a rank tracks between two flushes is less than `MaxReqs`: 2 requests for
each peer from the CPU, 3 for each peer and iteration on a stream.  The assumptions on the
constants (`PingpongAssumption`) are that ranks are numbered from 0 and that `Iters + 1` fits the
ready counters; with them `NoWrap` holds for `MaxMsgs = Iters`, so it costs nothing here.

None of these properties is inductive: each depends on what the program has called before.  The
invariant `PInv` says what a rank at a given line, with given loop variables, has called.

* `Placed` and `Counted`: for every peer the numbers of receives, readies, waits and messages are
  the iterations that are over, and one more if the rank has dealt with that peer in this
  iteration.  This is the contract: the receive is one ahead of its ready, the wait one ahead of
  its message.
* `Alternate`: in a queue readies and messages alternate, so that work request `2k` is the k-th
  message, and what the HCA has executed can be read off one index.
* `Direct`: a rank in `sync_exchange` leaves nothing to its stream and holds no doorbell back;
  nobody prepares descriptors, and a rank spins only in `comm_wait_ready`.
* `Quiet`: a rank that is done saw its own queues executed, and those of its peers towards it.
  The puts of `comm_send_ready` are not tracked; they are executed because each stands in its
  queue in front of a message for which `comm_flush` waits.
* `Tracked`: `n_reqs` as a function of the position, with the number of peers passed in the loop.

The streams of the exchange hold waits for completions that `CommReady` does not have.  They are
neither doorbells nor ready waits, so the invariant of `CommReadyProofs` is preserved by
the steps that queue and pass them, and `ExchangeHandshake` follows from it.

`MpEventProofs` and `MpEventStreamProofs` prove, for any pool, peers,
streams, queue depth, bounds and calls, with the assumptions on the application
(`Liberties`) and on external calls (`Faults`) that each theorem names:

| theorem | excludes | states |
|---------|----------|--------|
| `TypeCorrect` | nothing | `TypeOK`, and the invariant `Inv` below |
| `PostedInOrder` | `mix` | the invariant `Order` below |
| `NotEnded` | `mix`, `rewait` | `NeverEnds` |
| `RefinesLife` | `mix` | `LifeSpec`, the refinement of `RequestLife` |
| `NotEarly` | `streams` | `SendNotEarly` |
| `AllTriggered` | `streams`, `misorder`, failing stream posts | `TrackedIsTriggered` |
| `WorkNotEarly` | `mix`, `streams`, `misorder`, failing stream posts | `StreamNotEarly` |

What a theorem excludes, it needs: "What the contract is for" above and the run
`event_wait_retry` show the property violated without it.  Everything that is not in the
second column may happen, so `NotEarly` holds although posts fail and batches are refused
halfway, and `RefinesLife` holds for every fault.

* `Inv`: ids of a peer are unique among the requests in use (`IdUnique`); a list holds
  prepared sends to its peer in ascending order (`Lists`); a work request, executed or
  not, belongs to one pending request of the channel (`Queues`); the request in a retry
  loop is in no queue (`Posting`).
* `Order`: along a channel executed work comes before waiting work, both ascending, all of
  it beyond `last_tracked`; a send in the list, or one that may still be put there, is
  beyond all of that (`ReadyAhead`), and so is the one in a retry loop.  This is what the
  assertion of `mp.c:512` relies on and no single call establishes.  The refinement needs it
  because a request is complete when its turn in the queue came.
* `Triggers`: triggers ascend on a stream, each belongs to a send in the list, and no two
  streams hold operations of one channel.  With it the word `last_trigger` only grows, and the
  head of the list is posted exactly when the stream was there.  `AllComing` adds that each
  listed send has a trigger with its id or a larger one to come.
* `Kernelled`: a piece of work has in front of it, on its stream, a wait for its id or a
  later one, or what it follows is settled already.  Waits are left out when a later id was
  waited for; `Known` and `WaitPosted` say that the wait that justifies this was queued.

`MpInitProofs` proves, for any number of ranks, any symmetric peer lists, any number of
windows, connected or datagram queue pairs, and any faults: `TypeCorrect`,
`AlwaysDeliverable` (`Deliverable`), `IndexLeadsToPeer` (`LeadsToPeer`) and
`ConnectsAllOrNothing` (`AllOrNothing`).  Ranks only meet in collectives, so the
invariant counts them.  `Phase`: the number of collectives a rank has entered is a function
of where it stands, three in `mp_init` and three for each window; `Sync`: no rank is two
ahead of another, and one that is inside no collective is not ahead at all.  What a peer has done
then follows from one's own counter: `Tables`, `Exchanged` and `Memory` say by the
counter which queue pairs are ready, which numbers were exchanged and which window is registered, and
`Messages` that a message belongs to a sender which has not passed the barrier
that protects its receiver.  `Final` says that the barrier of `mp_finalize` is the last.

`CommTrackProofs` proves, for any pool, buffers, table and ring, and any faults: `TypeCorrect`,
`PoolSound` (`FreeListSound`), `FlushAloneIsSafe` (`NoAbort`), `FlushCovers`
(`Covered`), `MemoryStays` (`StaysRegistered`) and `KernelsReadTheirBlock` (`BlockIntact`).
`TableOwn`: until a request is released behind the table's back, the table names each request
once, in progress, and has room; `CacheOwn`: a cached key is registered and belongs to one
buffer, so that deregistering one buffer leaves the requests of the others alone; `RingOwn`: the
blocks of the launched kernels are the ones just before `dreq_idx` in the ring, in order of
launch, which is what makes "fewer kernels than blocks" enough when the index wraps; `Queue`:
each completion to come belongs to one request, which is in flight, and only the poll takes it
out of its queue, which gives `PollsInFlight` (`CompletionsInFlight`) for every calls and faults.

Each inductive invariant was checked by TLC on the instances of the runs before it was
proved.

Model-checked only: the liveness properties (ENABLED and fairness are outside
the prover): `WaitReturns`, `FlushReturns`, `InitReturns`, `Terminates` and `NeverStuck`, which
is stated with ENABLED.  Every other safety property of a passing run is the statement of a theorem.

## Not modelled

Device selection, environment variables, CUDA and verbs set-up, debug output and
memory barriers; the assembly of doorbell records; the list `waited_stream_req`, to
which no code adds; `mp_irecv_on_stream` (returns EINVAL) and `mp_prepare_send` (no
caller).  The growth of the pool (`allocate_requests`) is a fixed set `Reqs`.
`mp_wait_all` polls its requests one after the other; the order of polls within its
loop is left open.

IPC between processes of one node: with `MP_ENABLE_IPC=1` `mp_init` takes a successful
`gethostname` for an error (`mp.c:1223`) and returns MP_FAILURE, so that the channels of
`mp_isend` and `mp_irecv` are never set up; `progress_ipc` has no caller.

32-bit waits: `mp_wait32` compares one word with a constant.  Its condition MP_WAIT_EQ
tests `>`, and on a stream MP_WAIT_EQ and MP_WAIT_AND become greater-or-equal
(`mp.c:1989`); no call of the library uses them.

Errors of the hardware in the poll: a negative result of `ibv_poll_cq` (`mp.c:474-477`), which
makes `mp_wait_all` return, and a completion with an error status (`mp.c:489-495`), which ends the
process.  The HCA of the models executes every work request it was shown without an error.

Peers that are the rank itself: `mp_init` has a check against them that is commented out
(`mp.c:1028-1031`); `MpInit` assumes (`PeersAssumption`) that a rank is not in its own list, as
`comm_init` sees to.

The exchanges of `mp_putget.c` and
the other examples and benchmarks are programs over calls that are modelled; only their
barrier before `mp_window_destroy` is used.

## Plan

The exchanges of `mp_putget.c`, whose signal requests are reused from iteration to
iteration, over the calls of `MpDefault`.
