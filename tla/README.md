# Blueth: a TLA+ verification project

Blueth is a header-only C++ library for asynchronous network programs: an epoll event
loop, a thread pool, byte buffers, blocking TCP/TLS stream clients, incremental HTTP/1.1
parsers, an HTTP proxy client and a few utilities. The modules here are translated from
the code under `src/blueth/`; paths below are relative to `src/`. They are checked with
TLC on small instances, and every safety property that a passing run checks is proved with
TLAPS for every instance.
`PROJECT.json` maps every definition that models code to the lines it models.

## 1. Inventory

| Component | State | Operations | Talks to |
|---|---|---|---|
| Thread pool, `blueth/concurrency/ThreadPoolExecutor.hpp` | `work_queue_`, `shutdown_`, `queue_mutex_`, `worker_cv_`, the worker threads | `submit`, `shutdown`, destructor, the worker loop | client threads; callables, which may call back into the pool |
| Byte buffer, `blueth/io/IOBuffer.hpp` | block, `capacity_`, `start_offset_`, `end_offset_` | append (bytes, buffer), `reserve`, set/modify the offsets, `clear`, move | owned by streams, messages, the peers of the loop |
| Event loop, `blueth/concurrency/AsyncEventLoop.hpp`, `internal/EventLoopBase.hpp` | the epoll set, one `PeerStateHolder` per connection, three callbacks, the batch of events | register, start, accept, read/write dispatch, `writeToPeer`, `readFromPeer`, destructor | kernel, peers, user callbacks |
| Request parser, `blueth/http/HTTPParserStateMachine.hpp` | `ParserState` and a message, both kept by the caller | one function, called once per piece of text | `IOBuffer`, `HTTPRequestMessage` |
| Response parser, `blueth/http/HTTPParserStateMachineResponse.hpp` | the same for responses | the same | `IOBuffer`, `HTTPResponseMessage` |
| Messages and headers, `blueth/http/HTTPMessage.hpp`, `HTTPHeaders.hpp`, `HTTPCommonResponseMessageTemplate.hpp` | header map, body buffer, temporary holders | push-back functions for the parsers, setters, `removeHeader`, `buildRawMessage`, ready-made responses | parsers, proxy |
| Stream clients, `blueth/net/SyncNetworkStreamClient.hpp` and `...SSL.hpp` | descriptor, TLS session, an `IOBuffer` that can be lent out, three callbacks | connect, read, write, lend/return the buffer, close | kernel, proxy client |
| Proxy client, `blueth/http/HTTPProxy.hpp` | a stream that it owns, `proxy_connection_made_` | `makeConnection`, `readProxy`, `writeProxy` | stream client, response parser |
| Thread-safe queue, mutex synchronizer, `blueth/concurrency/ThreadsafeQueue.hpp`, `MutexSynchronize.hpp` | a queue behind a mutex; a value behind a shared mutex | `push`, `pop`, `size`; read and write sections with handlers | any thread; handlers may use the queue |
| Line decoder, `blueth/codec/LineBasedFrameDecoder.hpp` | none | cut a buffer into lines, on SIMD character search | `IOBuffer` |
| Containers, sockets, Base64, time | values; wrappers of system calls | | |

What is hard in this code, and therefore what the properties are about:

* **Interleavings.** `submit()` and `shutdown()` notify after they release the mutex, and
  a callable may call both from inside a worker. A wake-up could be lost, a worker could
  return too early, a destructor could return too soon.
* **Batches and reuse.** The event loop gets raw pointers back from the kernel in a batch.
  Handling one entry can delete a holder and close a descriptor whose number and address
  are reused by the next entry of the same batch.
* **Arithmetic on offsets.** `IOBuffer` stores `size_t` offsets, adds signed numbers to
  them, reallocates and recurses. What `capacity_` says and what `realloc` returned are two
  different things.
* **Cuts.** The parsers get text in arbitrary pieces and must be in the same state as if
  they had got it at once; the request parser even looks at the byte before the current one.
* **Failures in the middle.** Callbacks throw, `epoll_wait` is interrupted, `realloc`
  refuses, peers hang up, connections are withdrawn between `epoll_wait` and `accept`;
  constructors throw with a descriptor in hand, `close` reports an error, `send` takes less
  than it was given.
* **Loans and left-overs.** A stream lends its buffer out and gets it, or another one, back;
  the proxy client takes over a stream with whatever an earlier exchange left in its buffer.

Properties that make each component correct:

* pool: mutual exclusion, FIFO delivery, each callable exactly once, no lost wake-up,
  graceful shutdown, quiet destructor, work accepted before a shutdown starts, shutdown ends;
* buffer: ordered offsets, `capacity_` is real, bytes are kept through every reallocation,
  nothing outside the block is touched;
* event loop: no event reaches a deleted holder or a later connection that reuses its number,
  what is watched is owned and conversely, no readable peer is starved;
* parsers and messages: cuts are invisible, the message says what the text says, a call
  returns, what one side composes the other parses back;
* streams and the loop's `readFromPeer`/`writeToPeer`: no byte is lost, doubled or overtaken
  on the way round, loans of the buffer lose nothing, every open descriptor is accounted for and
  none is used that belongs to others;
* proxy: success means a tunnel, and no byte of it is lost or returned twice;
* queue and synchronizer: linearizable, readers see the value as one write left it, sections end;
* line decoder: the frames are the lines, wherever the text is cut.

The list `hazards` in `PROJECT.json` has each hazard at its line with the properties that
would catch it going wrong. Where the code does have the flaw and no run shows it, there is no
property but a note: which action has it, and which property excepts it.

## 2. Modules

| Module | Models | Role |
|---|---|---|
| `GracefulExecutor` | what the pool promises | abstract specification |
| `ThreadPoolExecutor` | `ThreadPoolExecutor.hpp` | detailed specification, refines `GracefulExecutor` |
| `ThreadPoolExecutor_proofs` | | its theorems |
| `IOBufferOps` | the member functions of `IOBuffer.hpp` | operators on buffer records |
| `IOBuffer` | the callers of `IOBuffer.hpp` | the state machine of a set of buffers |
| `IOBufferOps_proofs` | | what the operators on buffer records keep; shared by the proofs of all their users |
| `IOBuffer_proofs` | | the theorems of `IOBuffer` |
| `AsyncEventLoop` | `AsyncEventLoop.hpp`, `EventLoopBase.hpp`, the listening `Socket` | state machine with kernel and peers |
| `AsyncEventLoop_proofs` | | its theorems |
| `PeerIO` | `writeToPeer`, `readFromPeer` of `AsyncEventLoop.hpp` | operators on buffer records |
| `NetworkStream` | `SyncNetworkStreamClient.hpp`, `SyncNetworkStreamClientSSL.hpp` | operators on stream records, over `IOBufferOps` |
| `Connection` | a stream client, a peer served by the loop, the wire, the descriptor table | state machine that composes `NetworkStream` and `PeerIO` |
| `Connection_proofs` | | its theorems |
| `HTTPProxy` | `HTTPProxy.hpp`, its user, the proxy server | state machine that composes `NetworkStream` and `HTTPResponseParser` |
| `HTTPProxy_proofs` | | its theorems |
| `AtomicQueue` | what the queue promises | abstract specification |
| `SynchronizedData` | `ThreadsafeQueue.hpp`, `MutexSynchronize.hpp` | detailed specification, refines `AtomicQueue` |
| `SynchronizedData_proofs` | | its theorems |
| `HTTPParserCommon` | `HTTPParserCommon.hpp`, the header map, the response codes | operators shared by the parsers |
| `HTTPMessages` | `buildRawMessage` of both messages, the setters, the ready-made responses | operators |
| `LineBasedFrameDecoder` | `LineBasedFrameDecoder.hpp`, the search of `utils/simd.hpp` | operators |
| `HTTPRequestParser` | the switch of `HTTPParserStateMachine.hpp`, `HTTPRequestMessage` | operators |
| `HTTPResponseParser` | the switch of `HTTPParserStateMachineResponse.hpp`, `HTTPResponseMessage` | operators |
| `HTTPParsers` | the loops of both parsers, their callers, the peer that composes messages | state machine that composes parsers, messages and decoder |
| `HTTPParsers_proofs` | | its theorems |
| `MC...` | | instances for TLC |

A definition that begins with the comment "Mutant" is a plausible slip in the operator
below it. It is not part of any specification; substituted for the original it makes the
property named in `PROJECT.json` fail, which shows that the property depends on that code.

### ThreadPoolExecutor

A step is what a thread does between two points at which another thread can interfere:
taking the mutex, the critical section up to its release, a notification, a call. `pc[t]`
says where a thread is; the set of threads blocked in `worker_cv_.wait` is the set of
workers with `pc = "wait"`.

| Action | Code |
|---|---|
| `Acquire` | every `std::unique_lock`, and the reacquisition that ends a `wait` |
| `Wait`, `Return`, `Take`, `Finish` | the worker loop: the predicate is false; shut down and empty; pop; the call |
| `SpuriousWakeup` | what the standard allows a condition variable |
| `CallSubmit`, `Push`, `NotifyOne` | `submit()` |
| `CallShutdown`, `SetShutdown`, `NotifyAll` | `shutdown()`, and the first half of the destructor |
| `CallDestructor`, `Join` | the destructor |

Clients and running callables call `submit()` and `shutdown()`; one client runs the
destructor, after which clients make no more calls (callables still may). Bounds: each
callable is submitted at most once, each thread calls `shutdown()` at most once. `late` remembers
what was queued after `shutdown_` was set, by a client or by a callable: `submit()` takes it,
and whether it is executed is a race. The comment of `shutdown()` says it is not, which the run
`pool_late` refutes; `GracefulShutdown` and `AcceptedWorkIsStarted` promise execution to what was
queued before. A callable that throws ends the process and is left out. `getTaskCount()` and `getActiveThreads()`
do not compile when used, `getPoolSize()` is not defined.

### IOBuffer

A buffer is a record; the member functions are operators from records to records (module
`IOBufferOps`), which `NetworkStream` and `PeerIO` use too. `mem` is the block that `realloc` really returned and
`capacity` what the object believes about it. Arithmetic wraps at `SizeMod`.
`modifyStartOffset` and `modifyEndOffset` take an `int`; the lengths given to them are taken to
fit (`writeToPeer` would narrow one above `INT_MAX`). The actions
apply the operators to a set of buffers, and record in `fault` when a call would leave the
block, recurse without end, leave a dangling pointer or run off the end of a function.

`Next` is the callers' bargain: offsets stay inside the block, `reserve()` is not asked for
less than the buffer holds, a buffer is appended to another one only where
`FitsAfterReserve`. `MoveSpec` is the calls that move buffers and append to them.

### AsyncEventLoop

`watch` is the epoll set, `holder` the heap, `batch` the entries of `events_` that
`startEventloop()` has not handled. Descriptor numbers and addresses are taken from small
sets and are free for reuse as soon as they are released. A callback is what it can do to
the loop: return the events it wants, consume input, fill the output, or throw; registration
is possible at any time while the loop object lives, from a callback too. The constructor is
`Construct`, or `ConstructThrows` with one of the calls that can fail (`Stages`): behind
`epoll_create1` it leaves the epoll descriptor open, and the holder if it was allocated.
`accepted` remembers the descriptors accepted since the batch was filled. The kernel
and the peers connect, withdraw, send, drain and hang up at any moment. `AcceptThrows`,
`HandlerThrows`, `AcceptFails` and `EpollInterrupted` are the exceptional exits of the loop,
after which it may be started again or destroyed.

### NetworkStream, PeerIO and Connection

The plain and the TLS client are the same code around `recv`/`send` and
`wolfSSL_read`/`wolfSSL_write`; `NetworkStream` has each member function once, and the two
constructors as the sequences of calls that can fail (`Stages`), of which `LeavesOpen` says
which ones throw without closing: `inet_pton`, `connect`, and the allocation of
`IOBuffer::create` behind them. `Connection` puts a client at one end of two byte streams
and at the other end a peer of the event loop whose callbacks write back what they read. Every read and write moves as little as it
likes, or fails. The bytes sent are 1, 2, 3, ..., so that loss, duplication and reordering
can be seen in them.

| Action | Code |
|---|---|
| `Construct`, `ConstructThrows`, `Close`, `Destroy` | constructors, `closeConnection`, destructors |
| `Read`, `ReadFails`, `Write` | `streamRead` and `streamWrite`, with the callbacks they run |
| `Borrow`, `Return`, `Flush`, `SetCallbacks` | `getIOBuffer`, `setIOBuffer`, `flushBuffer`, the setters |
| `Consume` | the owner works on the lent buffer |
| `PeerReads`, `PeerWrites` | `readFromPeer`, `writeToPeer` |
| `PeerMakesRoom`, `PeerCloses` | what the loop's callbacks do besides |
| `OtherOpens`, `OtherCloses` | other code of the process, which gets freed descriptor numbers |

`shortSend`, `clobbered` and `closeFailed` remember that one of the situations has occurred in
which the code does lose bytes or uses a descriptor that is not its own; the properties say that
this happens in no other. `orphans` are the descriptors that throwing constructors left open;
`OpenIsOwned` accounts for every open descriptor, these included. `clobbered` is set by the first read of a peer whose buffer
still holds data: `readFromPeer` stores at the start of the data.

### HTTPProxy

The user of a stream may exchange requests with the proxy server, set or remove callbacks that
clear the buffer, keep the buffer or close the connection, and then moves the stream into the
client. `MakeConnection` writes the `CONNECT` (of which only its kind matters), which runs the
write callback, and applies the whole response parser to what is then in the buffer, without a
read, as the code does; without a buffer it dereferences a null pointer
(`crash`). `ReadProxy` receives, returns all that the buffer holds and empties it through a
loan; what a callback has cleared before counts as taken. The server answers in order and relays once it has accepted a `CONNECT`.

### SynchronizedData

A step is what a thread does between two points at which another one can interfere. A value
has two parts, which handlers read or write one after the other; a handler may throw at any
point (`WriteThrows`, `ReadThrows`), which ends its lock and leaves a half-written value as it
is. Between the two parts a handler may call the queue, so the queue's mutex is also taken under the shared mutex (never the
other way round: `T`'s copy and move are taken not to lock). `pop()` is three steps under the
mutex: test, move the front out, erase it. The abstract queue is `AtomicQueue`, with the
queue and all that was popped as refinement mapping. The constructor that takes a const
reference initialises `data_` with itself: the first value may be `Garbage`. `latest` is the value
as the last write section left it, by its end or by an exception; `ReadersSeeWhole` says that
both parts that a reader has read are of it.

### HTTPParsers

The text comes from `Streams`, or from a peer that fills a message with up to `MaxCalls`
setters (`AddHeader` to `TakeHeaders`) or takes a ready-made response, and builds its text
(`SendBuilt`, `SendTemplate`). The map of the headers has no order, so a text is one of
several. Every phrase of a status line is one symbol, the name of the code.

A step is one iteration of a parser's loop. `kind` says which parser; the switches are the
operators `Iteration` of `HTTPRequestParser` and `HTTPResponseParser`, from the state, the
message and the current byte to the next state, the next message and whether the byte was
consumed. The caller of `Call` hands over the next piece and either keeps the consumed
bytes in front of it (as `tests/test-http/test-http-state-machine.cpp` does) or starts with
a fresh buffer. The byte before the current one, which both parsers read in `HeaderValue`
(lines 164 and 176), is then outside the buffer: `Previous` is a choice of outcomes and
`blind` remembers that it was made. A text is a sequence of symbols; a method name is one
symbol because the parser treats its characters alike until the end of the header section,
where it compares the first three or four. `std::isprint` of a byte above 127 is undefined
for a signed `char`; the model takes glibc's answer. The body is the sequence of bytes its
`IOBuffer` holds. A status code of fewer than three digits is read from memory that nobody
initialised, and is `Indeterminate`.

The reference that `MessageMatchesText` compares with has no states: lines, colons and
positions in the text. `CuttingIsInvisible` compares with `Whole`, the same switch applied
to the bytes one after the other. `RoundTrip` compares with the message that was composed.
It speaks of messages that HTTP allows (`Plain`), since the setters take anything and a line
end in a value would make two headers of one; the instance has values with spaces and colons,
which are where the parsers drop, or refuse, something.
The line decoder is a function of the text and of the bytes around it, which it also looks
at; `FramesStartLines` compares where its frames begin and where it goes on with the places of
CR LF, and the result for the whole text with the results for its two parts, over all texts of
the run. How long the frames are is the run `parsers_frames`.

## 3. Runs

| Run | Instance | Distinct states | Shows |
|---|---|---|---|
| `pool` | 2 workers, 2 clients, 2 callables | 126,207 | all properties of the pool, safety, liveness and refinement |
| `pool_late` | the same | violation | work submitted after a shutdown is executed |
| `iobuffer_contract` | 2 buffers, blocks up to 3, `size_t` modulo 8 | 55,611 (symmetry) | within the bargain: well formed, bytes kept, no fault |
| `iobuffer_move` | blocks up to 4, modulo 16 | violation | a moved buffer does not know its capacity |
| `loop` | 2 peers, 2 addresses, batches of 2, 1 pending connection | 307,692 | no dangling event, none for a later connection, no leak except after a throwing accept callback, no readable peer is starved |
| `loop_register` | the same | violation | read and write callbacks are exchanged |
| `connection` | 2 descriptor numbers, 3 bytes, reads of 2, buffers of 1 and 2 that grow to 5, 3 pairs of callbacks | 3,337,212 (symmetry) | bytes go round in order except after a short `send` or an early read; loans lose nothing; open descriptors are accounted for, and foreign ones used only after a failed `close` |
| `parsers` | 5 requests, 3 responses and every one-symbol corruption of them (1,296 texts), messages of up to 3 setter calls, 2 ready-made responses; pieces of 1, 3 and all that is left | 1,439,493 | cuts are invisible, the message says what the text says, round trip, frames begin where lines do, calls return |
| `parsers_frames` | the same | violation | frames are one character short |
| `proxy` | 3 requests, answers 200, 401 and 407, 2 tunnelled bytes, short reads of 9, 4 pairs of callbacks | 262,016 | the tunnel keeps every byte |
| `proxy_tunnel` | the same | violation | `ConnectionSuccess` without a tunnel |
| `synchronized` | 3 threads, 2 items | 976,482 | linearizable queue, undisturbed reads, matching locks, sections end |

Why the bounds are enough to be interesting:

* Two workers and two clients give every pair of roles that share the mutex; with two callables
  both workers run one, or one is queued, or on its way into the queue from inside the other,
  while a shutdown goes on.
* Blocks up to 3 with pieces of 1 and 2 bytes give appends that fit exactly, that need to
  grow and that cannot grow; `SizeMod` is small enough for a wrap-around to be reached.
* Two peers, two addresses and a batch that cannot hold listener and both peers give
  reuse of a descriptor and an address within one batch, and truncated batches.
* The requests and responses go through every state of the parsers and every method; each symbol is
  replaced by a token character, a digit, a colon, a space, CR, LF, another control character
  and a byte above 127, so every state meets what it must refuse. Three setter calls give a
  repeated name, a removed one and a body behind a header; the ready-made responses are all
  alike but for `Unauthorized`, so one of the others stands for them.
* Two descriptor numbers give an orphan beside a client, and a number that other code gets at
  once when it is closed; three bytes with reads of two give short reads, and a client buffer of one byte must grow for
  every read that finds it used.
* Three requests allow an ordinary one, whose answer stays in the buffer, and two `CONNECT`s;
  the buffer of 16 must grow for an answer of 18 symbols.
* Three threads give two that contend while a third is in the middle of its section, and two
  items a queue whose order matters.

The five violations are disagreements between a comment of the code and the code; they are
described with both lines under `findings` in `PROJECT.json`.

Deadlock checking is on in every run: the pool, the loop, the parsers and the proxy end in
explicit stuttering steps (`Terminated`, `Gone`, `Over`, `Crashed`), so any other standstill
would be reported; the connection and the threads of `SynchronizedData` can always go on.

### Fairness

* Pool: weak fairness of every thread's own steps inside the executor (a callable returns,
  a running thread goes on), and weak fairness of *some* thread's acquisition of a free
  mutex. C++ promises no more: `std::mutex` is not fair to a particular thread. This is why
  `AcceptedWorkIsStarted` speaks of the start of a callable and not of its end: a callable
  that calls `submit()` itself may be overtaken for the mutex forever by other threads that
  wake up spuriously.
* Event loop: weak fairness of the return of `epoll_wait` and of dispatching, the progress
  of the one thread that runs the loop, and strong fairness of the report on each descriptor:
  when more descriptors are ready than `max_events_supported_`, successive calls of `epoll_wait`
  go round through them (epoll_wait(2), Notes). Nothing is assumed of peers. The instance has
  batches of 2 for 3 descriptors, so that the assumption is used.
* Parsers: weak fairness of the loop inside a call.
* Synchronized data: weak fairness of every thread inside a critical section or a handler,
  and of *some* thread's acquisition of the free mutex, as for the pool.

## 4. Theorems

All for arbitrary constants, under the named assumptions of the modules, which TLC also
evaluates in every run.

* `ThreadPoolExecutor_proofs`, under `ThreadsAssumption` (finite disjoint sets of threads,
  at least one worker). The inductive invariant is the conjunction of `TypeOK`,
  `MutualExclusion`, `FifoNoLossNoDuplicate`, `OneWorkerPerTask` and `Coordination`.
  `GracefulShutdown`, `QuietAfterDestructor` and the distinctness in `FifoNoLossNoDuplicate`
  are not inductive alone: `Coordination` adds that a callable inside `submit()` is not
  queued yet and belongs to one thread, that workers return only after `shutdown_` was set,
  that only late submissions can be queued when the last one is gone, and that the
  destructor runs alone. `NoLostWakeup` is inductive relative to `TypeOK`, by counting
  the workers on their way and the notifications still due. TLC checks the whole invariant first. From it follow type correctness, mutual
  exclusion, FIFO delivery, exactly-once execution, `Coordination` itself, no lost wake-up (with any number of
  threads and cardinalities of the sets involved), graceful shutdown, the quiet destructor,
  and the refinement of `GracefulExecutor`.
* `IOBuffer_proofs` on top of `IOBufferOps_proofs`, under `SizeAssumption` (a block is less than
  half of `size_t`, as with `PTRDIFF_MAX`) and `UseAssumption`. The inductive invariant is
  `TypeOK`, `WellFormed`, `HoldsWhatWasWritten` and `NoFault`; they need each other, because an
  append stays in the block only if `capacity_` is real, and the bytes are kept only if no copy
  leaves it. The lemmas about `Slice`, `Realloc`, `Copy`, `Put`, `reserve` and `appendRawBytes`
  carry the argument; each action is then an update of one buffer.
* `SynchronizedData_proofs`, under `NamesAssumption` (no thread and no item is one of the
  special values). A handler that calls the queue keeps its lock on the value, so the invariant
  speaks of `At(t)`, where a thread is with respect to the value: `QueueInv` (the mutex belongs
  to the thread inside a section; what a `pop()` has moved out is still the front), `LockInv`
  (the shared mutex is held as the places say, never both ways) and `ValueInv` (the value is what
  the last write section left unless its writer is between the two parts, and what a reader has of
  it is that). `ReadersSeeWhole` is not inductive without the second and the third. The refinement
  of `AtomicQueue` needs `QueueInv` for the step that erases.
* `AsyncEventLoop_proofs`, under `LoopAssumption`. The inductive invariant is `TypeOK`,
  `NoDanglingEvent`, `WatchedMeansOwned`, `OwnedMeansWatched`, and that there are entries
  only while they are dispatched, that what a throwing accept callback lost shares its
  descriptor with nobody and is not watched (`LostInv`), and that the listener stays
  (`ListenerInv`). Without `LostInv` a reused descriptor could have two holders, and the close
  of one would leave the other dangling. `EventsMeetTheirConnections` needs `NoDanglingEvent`: the
  descriptor of an entry is watched and open, so that `accept` does not return it; and before the
  constructor has run nothing is watched or alive (`NewInv`).
* `Connection_proofs`, under `ConnectionAssumption` and `SizeAssumption`. `BufferInv` (all
  buffers are good ones in the sense of `IOBufferOps_proofs`), `TableInv` (every open descriptor belongs to
  exactly one of other code, the orphans and a client that takes itself for connected; the number
  of a client is no orphan's, even after a failed `close`) and `ByteInv`: what was
  got, what is on its way in either direction and what the peer's buffer holds, put one behind
  the other, is the sequence of all bytes that were sent. `BytesGoAround`, which speaks of what
  was got, is the first part of that.
* `HTTPProxy_proofs`, under `ProxyAssumption`. `TunnelKeepsBytes` needs that the buffers are good
  ones and that a stream that came without a buffer never gets one; the callbacks and the loan of
  `readProxy` are followed byte by byte. The response parser is applied as it is and nothing is
  assumed about it.
* `HTTPParsers_proofs`, under `StreamsAssumption`. The reference `Whole` is a recursive function.
  The library's induction theorems cannot be used with these provers, since they take a
  predicate; `SetInduction` is the same principle for a *set* of numbers, derived from
  `WFMin` and `NatLessThanWellFounded`, and with it the functions are shown to exist
  (`TableExists`, `FlattenSteps`), to be extended by longer texts (`WholeStep`), to stay in a final
  state (`FinalStays`) and to collect the body (`BodyGoesOn`). The inductive invariant `CutInv`
  says where the parser is *inside* a call: it agrees with the reading of the bytes it has
  consumed, or with one more, which it has refused without consuming it, or it is stuck in
  `HeaderEndLF` and the call never returns. `LookMatters` says that the byte before the current
  one matters only where `blind` watches it. The types need that all texts that are composed
  are texts, for every order of the headers. `FramesStartLines` is about the function `Decode`,
  whose recursion goes on *behind* the place it is asked about; `DownInduction`, which takes the
  least counterexample counted from the end, shows that it exists (`DecodeStep`), that the
  frames of the first part of a text are frames of the text (`DecodeCut`), and what the frames
  with CR LF are (`DecodeLines`).

  `MessageMatchesText` compares the message with a description of the text by lines and
  positions. It is not inductive: `Tells(w, n)` says for each state what the message holds of the
  first `n` bytes, namely how far the first line is read, the headers of the lines before the
  current one (`HeadersUpTo`), and what of the current line is a name and what a value. `TellsStep`
  takes it from a byte to the next, with one lemma for each part of the head, and `Told` over the
  text by `SetInduction`. It holds as long as the request parser has not met a byte at which it
  stays for ever in `HeaderEndLF`: a parser that goes on has not (`SmoothInvariance`).
  `MessageIsText` reads the lines and positions of the property off `Tells` at the end of the head.

  `RoundTrip` goes the other way, from the parts of a text that was composed: `Stands(t, n)` says
  where a part stands in the stream and `IsAt(n, s, m)` where the parser is there. One lemma reads
  each part: a name, a value with what is dropped of it or the error, a header line, all header
  lines in the order of the text (`ReadHeaders`, over the steps of `FlattenSeq`), the request line,
  the status line, the rest as body. `SentInv` says that the stream is a text of the message that
  was sent; with `CutInv` and `SmoothInv` it gives the property. A request of another type than
  the four needs no exception in it: `SmoothInv` says that its call has not returned.

What the assumptions on the constants say, beyond types: special values (`None`, `NoBuffer`,
`NoStream`, `NoThread`, `Null`) differ from what they stand apart from; a block is less than
half of `size_t`, and a read asks for no more than a block can have (otherwise the sum that
`reserve` is given could wrap around); a body given to a ready-made response has less than
ten bytes (its `Content-Length` is one digit in the model).

Only model-checked: the liveness properties (`AcceptedWorkIsStarted`, `ShutdownTerminates`,
`ReadablePeerIsServed`, `SectionsEnd`, `CallReturns`), since the prover does not do fairness, and
the violations of the five findings, which are counterexamples.

## 5. What the code does that its comments do not say

Besides the five findings with a run:

* `appendRawBytes(io_buffer)` reserves the capacity of the source
  (`blueth/io/IOBuffer.hpp:396`), whatever this buffer holds: it may recurse without end or copy
  outside the block. The model's bargain (`FitsAfterReserve`) is the condition under which it
  appends, as the comment at line 136 says it does.
* The response parser is done after the first piece of a body
  (`blueth/http/HTTPParserStateMachineResponse.hpp:217`), whatever `Content-Length` says; the
  state is "success in parsing" (`blueth/http/HTTPConstants.hpp:101`). `CuttingIsInvisible`
  says what is kept.
* The write callback runs after a failed or a short `send` and may be shown a null pointer;
  the interface says "after we written all the bytes on the wire"
  (`blueth/net/NetworkStream.hpp:169-172`). `getIOBuffer()` and `constGetIOBuffer()` do not
  throw without a buffer (comments at 99-115), and `streamWrite()` does not look at it (72-75).
* `readFromPeer()` returns 0 at the end of the stream, without space and when it would block.
* `makeConnection()` takes 407 for `NoProxySupport`, never returns `AuthFailed` and never resets
  `proxy_connection_made_`.
* `buildRawMessage()` gives 307 the phrase of 305 (`blueth/http/HTTPMessage.hpp:489-496`), writes
  neither code nor phrase for a number that is no enumerator, gives an empty text for the
  invalid code and for HTTP/2, and ignores the version of a request. Requests of type Connect or
  Unsupported cannot be parsed by the library's own parser, whose call does not return.
* The ready-made Unauthorized response has the code 400 and announces a body that it does not
  send: the text goes into `WWW-Authenticate`
  (`blueth/http/HTTPCommonResponseMessageTemplate.hpp:102-111`).
* With `NewLineNewLine` a single LF ends a frame of the line decoder
  (`blueth/codec/LineBasedFrameDecoder.hpp:52`).
* A write handler that throws leaves the value half written, for the next reader to see
  (`blueth/concurrency/MutexSynchronize.hpp:68`); the comment at lines 54-57 speaks of writing "it
  completely".
* The constructors of the stream clients leave the descriptor open when `inet_pton`, `connect` or
  `IOBuffer::create` fails, the loop's leaves the epoll descriptor and the listener's holder.
* `withReadLock()` hands the value out without `const`, and the constructor from a const
  reference initialises `data_` with itself (`blueth/concurrency/MutexSynchronize.hpp:63`).
* `IOBuffer::getOffset()` gives its second pointer relative to the block, its comment
  (`blueth/io/IOBuffer.hpp:119-124`) speaks of the data.
* `startEventloop()` does not check that callbacks are set, unlike its comment
  (`blueth/concurrency/internal/EventLoopBase.hpp:115-121`): the first event throws
  `std::bad_function_call`.
* When the accept callback throws, the new descriptor and its holder are lost (`lost` in
  `AsyncEventLoop`).
* In `HeaderEndLF` the request parser neither consumes nor changes state on a byte other
  than LF or with a method other than GET, POST, PUT and HEAD: the call does not return.
  `CallReturns` names exactly these two situations.
* A header whose value begins with a space is refused or accepted according to the memory
  in front of the buffer, if the caller of the request parser starts a fresh buffer right there.
* The response parser drops whatever stands behind a colon, also inside a value: a time
  `04:00:59` becomes `04:0:9`. `MessageMatchesText` says so through `Kept`.

## 6. Plan

Done: pool, buffer, event loop, both HTTP parsers with messages and line decoder, stream
clients with the loop's peer I/O, proxy client, queue and synchronizer; the proofs of section 4.

Nothing of the plan is left: what remains to TLC alone are liveness and the five violations.

Not modelled, with reasons: the containers (`vector`, `matrix`, `stack_array`: sequential value
types that nothing in the library uses), Base64 (third-party), the clock wrappers but for the
`Date` header, `NetUtils` and the rest of `Socket` (wrappers of system calls without state of
their own), `TransportHelpers.hpp` (wrappers of system calls that neither client uses), the AVX2 variant of the character
search (used nowhere), the wording of messages, the generator script.
