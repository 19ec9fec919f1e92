# TLA+ models of nxweb

These modules model the concurrency core of nxweb: the network thread's
per-connection state machine, request dispatch, the job queue with its worker
threads, the SIGTERM shutdown path, the `nx_queue` ring buffer, and the stream
buffer adapters of `nxd_buffer.c`. TLC checks them.

## The system

Source files (paths are relative to the repository root):

* `src/nxweb/nxweb.c` is the server. `_nxweb_main` starts the network
  threads. Each network thread runs a libev loop and owns its connections and
  its job queue (`nx_queue` guarded by `job_queue_mux` and `job_queue_cond`),
  plus N worker threads.
  * A connection moves through WAITING_FOR_REQUEST → RECEIVING_HEADERS →
    RECEIVING_BODY → HANDLING → SENDING_HEADERS → SENDING_BODY. It is then
    rearmed for keep-alive or closed.
  * It is driven by these watchers:
    * socket read and write io watchers;
    * the keep-alive, read-request and write-response timers;
    * a data-ready async watcher.
  * `dispatch_request` walks the handler chain (`find_handler`, which does a
    prefix match in registration order, then the 404 default handler).
    * An in-process handler runs at once.
    * An out-of-process handler is pushed as a job under the mutex and one
      worker is signalled. The worker runs it and calls `ev_async_send`, and
      `data_ready_cb` then either dispatches again (NEXT) or starts the
      response.
    * A full queue gets a 503.
  * `sigterm_cb`, on the main thread:
    * sets `shutdown_in_progress` without the mutex;
    * broadcasts the condition variable under the mutex;
    * sends the network thread's shutdown async;
    * arms `alarm(5)`.
  * Workers leave their loop when they see the flag. `_nxweb_main` joins all
    threads.
* `src/src/include/nxweb/nx_queue.h` is a ring of `size` slots that holds
  `size-1` items. Its push and pop each put full barriers around the copy, and
  it claims to be safe without a mutex on a side that has a single thread.
* `src/nxweb/nxweb_internal.h` wraps `nx_queue` as the job queue, and as an
  accept queue that nothing uses.
* `src/nxweb/nxd_buffer.c` holds the stream buffer adapters of the newer
  event-stream (nxe) API. The server above does not use them. An nxe loop
  connects an istream to an ostream and, while both are ready, calls the
  istream's `do_write` (push) or the ostream's `do_read` (pull).
  * `nxd_ibuffer` pulls from a source into an nxb buffer of at most
    `max_data_size` bytes and publishes `data_complete` when the cap is
    reached or the source reports EOF.
  * `nxd_rbuffer` is a ring between a source and a destination. Its
    `data_in` is readied and unreadied by `nxd_rbuffer_read` and
    `nxd_rbuffer_write`, and its `data_out` likewise.
  * `nxd_obuffer` pushes a memory block, and `nxd_fbuffer` a file range
    (by `sendfile`, or by mapping chunks and writing them), to a
    destination, ending with a transfer that carries `NXEF_EOF`.
* `src/src/lib/main_stub.c` is the launcher, `src/src/lib/filters/draw_filter.c`
  an ImageMagick filter, and `src/examples/openmp` an example program.

## Modules

| module | models |
|---|---|
| `NxwebServer` | one network thread, its connections, job queue, mutex, condition variable, workers, and the main thread's shutdown steps |
| `MCNxwebServer` | handler tables, method set and symmetry for TLC |
| `NxQueue` | `nx_queue` push and pop, split at their memory barriers, with an optional mutex on each side |
| `BoundedFifo` | the abstract job queue (spec section 8): a bounded FIFO whose push fails when full and whose pop fails when empty |
| `MCNxQueue` | instantiation of `NxQueue` for TLC |
| `ByteStream` | what every adapter promises its destination (spec section 4.4): the source's bytes in order, none lost, duplicated or invented, then EOF once |
| `NxdRBuffer` | `nxd_rbuffer` with its source and destination under the nxe loop |
| `NxdIBuffer` | `nxd_ibuffer` with its source and its owner (`nxd_ibuffer_get_result`) |
| `NxdSources` | `nxd_obuffer` and `nxd_fbuffer` feeding a destination, with or without `sendfile` |
| `NxwebTimers` | the keep-alive, read-request and write-response timers of one connection in discrete time, with the client as the environment |
| `MCNxdRBuffer`, `MCNxdIBuffer`, `MCNxdSources`, `MCNxwebTimers` | instantiations for TLC |

### NxwebServer

State, and what each variable stands for in the code:

* `conn[c]` is the connection record:
  * `st` is `cstate`. `"FREE"` means no connection object: never allocated,
    or freed by `close_connection`.
  * `ka` is `keep_alive` and `s100` is `sending_100_continue`.
  * `method`, `uri`, `handler` and `result` are the routing fields of the
    request. A URI is a sequence of characters.
  * `watch` is the set of active libev watchers (`read`, `write`, `ka`, `rt`,
    `wt`, `async`).
  * `sent` is the async watcher's pending flag.
* `queue` is the job queue as a sequence of connections.
* `mutex` is `job_queue_mux`.
* `wpc` and `wjob` are each worker's position in `worker_thread_main` and
  the job it runs.
* `shutdown` is `shutdown_in_progress`.
* `mainPc` is the main thread's position in `sigterm_cb`.
* `acceptOn` and `shutdownSent` are the accept and shutdown watchers.
* `procDone` means the process has exited, by join or SIGALRM.

Actions, one per callback or thread step:

* network thread: `Accept` (`net_thread_accept_cb` + `new_connection`),
  `SocketRead` (`socket_read_cb` with `next_room_for_read`, parsing and body
  completion), `SocketWrite` (`socket_write_cb`), `KeepAliveTimeout`,
  `ReadTimeout`, `WriteTimeout`, `DataReady` (`data_ready_cb`) and
  `NetShutdown` (`net_thread_shutdown_cb`);
* worker steps of `worker_thread_main`: `WTop`, `WTryPop` (pop or
  `cond_wait`), `WReacquire` and `WRun`;
* main thread: `SigTerm`, `Broadcast`, `Alarm` (`on_sigalrm`) and `Join`.

The helpers translate the internal functions:

* `ReceiveComplete`, `StartSending`, `Rearm`, `Sent100` (the 100-continue
  end of `socket_write_cb`) and `AsyncStart`;
* `find_handler` is `PrefixMatch`, `FindHandler` and `ChainFrom`:
  * `PrefixMatch` is its test, with `StrNEq` for `strncmp` and `CharAt` for
    the read of `uri[prefix_len]`, which is `NUL` past the end.
  * `FindHandler` is the scan, a RECURSIVE operator. The modules' handler
    lists are concatenated in scan order.
  * `ChainFrom` is the sequence of calls, each resuming after the saved
    `req->handler`.
* `Chain`, `Stops`, `Allowed` and `Inproc` for `dispatch_request`'s loop and
  `prepare_request_for_handler`;
* `QueueFull`, `CondSignal` and `Dispatch` for `dispatch_request`.

Each action models the whole callback: every watcher started or stopped and
every state assigned, on each of its branches.

Abstractions:

* Time is abstract: an armed timer may fire at any time.
* Socket readiness is abstract: an armed io watcher may fire at any time,
  which also covers `ev_feed_event`.
* The outcome of reading and writing is a nondeterministic choice among the
  branches the code distinguishes:
  * reads: error or EOF, partial headers, parse failure, header overflow,
    body complete, body too large, body pending with or without
    `Expect: 100-continue`;
  * writes: error, 100-continue finished, headers finished, all finished.
* Reads and writes that change nothing (EAGAIN, more partial data, a sendfile
  error) are stuttering steps.
* Handlers are a table of `[prefix, inproc, methods]` entries. The parser
  reports a URI from the constant set `Uris`.
* `StartSending` forgets the routing fields. No code reads them again before
  `rearm_connection` allocates a new request.

### NxQueue and BoundedFifo

`NxQueue` has `head`, `tail` and `slots`, and splits each operation in two:

* `PushCopy` checks full and writes slot `tail`, and `PushPublish` advances
  `tail`;
* `PopCopy` checks empty and reads slot `head`, and `PopPublish` advances
  `head`.

A side with several threads holds a mutex from check to publish, as
`job_queue_mux` does for the workers. `Contents` maps the ring to a sequence,
and `Fifo == INSTANCE BoundedFifo WITH Cap <- Size - 1, buf <- Contents`
makes `FifoRefinement == Fifo!Spec` the refinement property.

### NxwebTimers

`NxwebServer` has no clock: a timer is only "armed" or not, so it can say
that a connection always has a deadline but not when the deadline fires.
`NxwebTimers` follows one connection with an in-process handler through
its keep-alive requests and adds discrete time.

* `st` is `cstate`, reduced to the phase (`WAITING`, `HEADERS`, `BODY`,
  `SENDING`) or to the state `close_connection` ran in (`TIMEOUT`, `ERROR`,
  `CLOSING`). `left` is the number of ticks before the phase's one active
  timer expires, and `Deadline` is the duration each phase starts it with.
* `SocketRead` is `socket_read_cb`. Reads of any size arrive. `OnHeaders`
  is the header branch: a partial header read returns, keeping the timer.
  Complete headers that fail to parse (400) or declare a body over the
  limit (413) are rejected (`Reject`: keep-alive off, an error response
  started). `OnBody` is the body branch: a partial body read only logs.
  The only `ev_timer_again` is on entering `RECEIVING_BODY`.
* `RoomExhausted` is `next_room_for_read` with no room left: headers too
  long (400) or a chunked body over the content limit (413), both by
  `Reject`.
* `SocketWrite` is `socket_write_cb`. `write()` of the memory part, then,
  once that is all sent, `sendfile`. On a socket with bytes to send,
  `write()` returns a positive count or -1, and EAGAIN returns before the
  timer is touched. `sendfile` may also move nothing, when it fails or
  returns 0 on a truncated file; that is only logged. `WriteAgain` is
  `if (bytes_sent>0) ev_timer_again(...)` after `write()`, so only
  `write()` progress renews the timer and a `sendfile` call, whatever it
  returns, leaves it running. The end of the response is `Rearm`
  (`rearm_connection`) or a close.
* `TimerFires` is the three timeout callbacks. The keep-alive and write
  timers close in `TIMEOUT`. The read timer stops reading, turns
  keep-alive off and starts a 408 (`StartSending`).
* `Tick` is one tick of libev time. It cannot pass an expired timer,
  because libev runs the callback in the iteration in which it expires.
* Two history variables serve the properties. `quiet` counts the ticks
  since the last byte moved in the phase, and `recvAge` counts the ticks
  since the request's first byte.

### The stream buffer adapters

Common to the three modules:

* Bytes are numbered `1..Total` in source order, so a byte that is lost,
  duplicated, read before it is written or taken from outside the source
  shows up in `recv`, the sequence the destination has accepted.
* Each `do_read`/`do_write` callback is one action. The source's `read` and
  the destination's `write`/`sendfile` return any number of bytes allowed
  (`\E k`), and EOF comes with the last bytes or, for a source that may
  report it alone (`EofAlone`), in a read of none.
* `Idle == UNCHANGED vars` is the nxe loop waiting for an event. A stream
  whose readiness flags are all cleared therefore stalls instead of
  deadlocking, and the liveness properties report the stall.
* Each adapter that feeds a destination refines `ByteStream` through
  `INSTANCE ByteStream WITH eofSeen <- sinkEof`. The refinement is checked
  as the property `...Refinement == Stream!Spec`.

Per module:

* `NxdRBuffer`:
  * `rd`, `wr` and `lastWrite` are `read_ptr`, `write_ptr` and
    `last_write`. `slots` is the region.
  * `RbWrite` and `RbRead` are `nxd_rbuffer_write` and `nxd_rbuffer_read`,
    readiness updates included.
  * `DataInDoRead` and `DataOutDoWrite` are the two callbacks.
  * `get_write_ptr`, `get_read_ptr` and the full/empty tests live in a
    header outside the sources. `WriteRoom`, `ReadSize`, `ReadEof`, `Full`
    and `Empty` model them from the spec.
* `NxdIBuffer`:
  * `dataSize`, `closed` (`data_ptr` set) and `published` (the
    `data_complete` payloads) are the buffer's state.
  * `DataInDoRead` translates the callback with its clamp (`ReadSize`), its
    early return (`Open`) and its two completion branches (`Completion`).
  * `GetResult` is `nxd_ibuffer_get_result`.
  * Rooms are at least 32 bytes, as `nxb_make_room(ib->nxb, 32)` ensures.
* `NxdSources`:
  * `kind` fixes, when the stream is connected, whether it is an obuffer or
    an fbuffer, and whether the destination has `sendfile`.
  * `ObDoWrite`, `FbSendfile` and `FbWrite` are the callbacks. They share
    `Transfer`, the write of everything left from the offset, and
    `EofOnly`, the empty transfer that carries EOF.
  * `nx_file_reader_get_mbuf_ptr` is outside the sources. `MappedSize`
    models it from the spec as mapping at most `Window` bytes.

## Runs

| run | cfg | expect | properties | what it shows |
|---|---|---|---|---|
| handoff | `MCNxwebServer_handoff.cfg` | pass | JobHandoff, DispatchFirstMatch, HandlingEventuallyResponds | 2 connections and 2 workers. For `/a/b` an in-process GET handler comes first and an out-of-process ANY handler second; an out-of-process handler with no method flags serves `/a`. Requests are for `/a/b`, `/a?` and `/ab`, so a GET of `/a/b` can go through two jobs (NEXT from the first out-of-process handler queues the second). A job is exclusive to a live HANDLING connection with no net-thread watcher armed. The scan and its resumption on NEXT pick the first handler that matches by the spec's rule (section 3). Every handled request eventually gets a response, through NEXT re-dispatch and condvar signalling. |
| backpressure | `MCNxwebServer_backpressure.cfg` | pass | TypeOK, JobHandoff, NoOrphanConnection | 3 connections, 1 worker, QueueSize 3 (2 jobs), so the queue fills and the 503 path runs. The queue never overflows, the hand-off stays exclusive, and no live connection is left without a timer or a job. |
| continue | `MCNxwebServer_continue.cfg` | pass | NoOrphanConnection, WorkersExitOnShutdown | 100-continue with in-process handlers, and SIGTERM. The 100 response racing the body and the final response never strands a connection without a deadline (`Sent100`). The unlocked flag followed by the locked broadcast wakes every waiting worker: no lost wake-up. |
| continue_uaf | `MCNxwebServer_continue_uaf.cfg` | violation | JobConnectionAlive | The write timer or write error of a 100-continue frees a connection whose job a worker still holds (a use-after-free). |
| stranded | `MCNxwebServer_stranded.cfg` | violation | NoStrandedJob | Workers exit on SIGTERM with jobs still queued, against the spec's "exit when the queue is empty". |
| jobqueue | `MCNxQueue_jobqueue.cfg` | pass | TypeOK, FifoRefinement | Size 3, one producer and two consumers serialised by a mutex. In the code the net thread also pushes under `job_queue_mux` (line 432), which excludes the workers too; the run leaves the producer unlocked, which allows more interleavings than the code has and checks `nx_queue`'s claim that a single-thread side needs no mutex. The ring implements a FIFO of capacity Size-1. |
| rbuffer_ring | `MCNxdRBuffer_ring.cfg` | pass | TypeOK, WritableHasRoom, RBufferRefinement, SinkEventuallyEof | A 5-byte ring carries 14 bytes through every interleaving of partial reads and writes. `assert(size)` never fails, the destination gets every byte in order, and then EOF. |
| rbuffer_eof | `MCNxdRBuffer_eof.cfg` | violation | SinkEventuallyEof | A source that reports EOF alone after the ring has drained leaves `data_out` unready forever. |
| ibuffer_stuck | `MCNxdIBuffer_stuck.cfg` | violation | CompleteExactlyOnce | A 40-byte source, a 40-byte cap and 32-byte rooms. Spec section 4.4 says `data_complete` is published exactly once. A read that lands on the cap with end-of-input publishes it twice, and that is the trace TLC reports. Reads clamped one byte short never publish it. |
| sources_all | `MCNxdSources_all.cfg` | pass | SourceRefinement, SourceEventuallyEof | 40 bytes through obuffer, fbuffer+sendfile and fbuffer+write, in chunks of every size, with a file reader that maps at most 16 bytes at a time. Through obuffer and sendfile the bytes arrive in order and are followed by EOF (the refinement). Every adapter, the write branch included, eventually delivers EOF, through the empty EOF-only call when the write branch's mapping fell short. |
| deadlines | `MCNxwebTimers_deadlines.cfg` | pass | DeadlineNotLate, ReceiveBounded | Two keep-alive requests of 4 bytes (2 of headers), answered with 2 bytes by `write()` and 2 by `sendfile`, with timeouts 2/3/4 ticks. A peer that moves no bytes is cut off within its phase's timeout, and a trickling client cannot keep the connection receiving for more than two read timeouts. |
| deadline_progress | `MCNxwebTimers_progress.cfg` | violation | TimeoutMeansSilence | The same instance. A client that sends part of its body is answered 408 less than a full read timeout after that read, so the timer fires on a client that was not silent for the timeout. |

### Findings

1. **Use-after-free under 100-continue** (`nxweb.c:614-624`, `207-212`,
   `296-304`, `690-693`).
   * What happens: `socket_read_cb` arms the write timer and write watcher to
     send `100 Continue`. When the body then completes, the request goes to an
     out-of-process handler with both still armed.
   * The trace: `write_response_timeout_cb`, or a write error, calls
     `close_connection`, which frees the connection. The worker then runs the
     handler on freed memory and `ev_async_send`s a watcher inside it.
2. **Jobs stranded at shutdown** (`nxweb.c:684-695`, `416-445`).
   * What happens: a worker tests `shutdown_in_progress` before it pops and
     again in its wait loop.
   * The trace: after SIGTERM every worker exits while jobs are queued.
     `dispatch_request` also keeps pushing. Those requests are never answered
     before SIGALRM ends the process.
3. **rbuffer loses a lone EOF** (`nxd_buffer.c:179-183`, `133-137`).
   * What happens: `nxd_rbuffer_read` unsets `data_out` whenever the ring
     empties, even with `eof` set. `rbuffer_data_in_do_read` only records
     EOF, because its `set_ready` is commented out.
   * The trace: a source (a socket) reports EOF in a read of no bytes after
     the ring has drained. `data_out` is never ready again, and the
     destination never sees EOF.
   * Spec section 4.4 clears read readiness on empty only when no EOF has
     been signalled.
4. **ibuffer completion is not exactly once** (`nxd_buffer.c:36-54`).
   * What happens: a room larger than what is left is clamped to
     `max_data_size-data_size-1`, one byte short. A room that fits exactly
     is not clamped. The cap branch and the end-of-input branch are two
     independent `if`s.
   * The trace: reads that fit their rooms bring `data_size` to 9, then a
     31-byte read with `NXEF_EOF` lands on 40 (the exact split of the
     first 9 bytes varies between TLC runs). Both branches run, and
     `data_complete` is published twice (`-1`, then `0`). `nxb_finish_stream`
     also runs twice.
   * The other way: once `data_size` passes `max_data_size-31`, a read is
     clamped one byte short. It stops at 39, every later read has size 0,
     and nothing is published. The liveness half of the property shows
     this when the safety half is left out.
   * Spec section 4.4 says the accumulator publishes "data complete"
     exactly once.
5. **Deadlines are not renewed by progress** (`nxweb.c:557`, `626`, `317`).
   * What happens: the read-request timer starts at a request's first byte
     and is renewed once, on entering `RECEIVING_BODY` (line 612). Partial
     header and body reads leave it alone. The write timer is renewed only
     by `write()` progress (line 312), never by `sendfile` progress.
   * The trace: the headers complete, a partial body read follows, and the
     read timer fires less than a full timeout after that read. The client
     gets a 408 although it was not silent for the timeout. A one-byte request with a file response instead
     ends in `TIMEOUT` while `sendfile` is still moving bytes.
   * Spec section 4.1 says a deadline is reset on every partial progress
     event, not just on phase entry.
   * The other side of the same code holds (run deadlines). A silent peer
     is never kept past its timeout, and because the renewals are so few, a
     slow-loris client is cut off within two read timeouts.

### Bounds and why they are enough

* Two connections and two workers are enough for every pairwise race:
  * a worker against the net thread on one connection;
  * two workers on one queue;
  * a signal against a waiter.
* The 503 path needs the queue full. With QueueSize 3 (two jobs) and at
  most one job per connection, that takes three connections, hence the
  backpressure run.
* The handler table has an in-process GET-only entry and an
  out-of-process `NXWEB_HANDLE_ANY` entry for `/a/b`, and an out-of-process
  entry with no method flags for `/a`. This covers the 405, OK, NEXT and
  async branches, the default handler, both ways a handler accepts any
  method, and NEXT from a worker leading to a second job.
* The prefixes `/a/b` and `/a` are nested, as two prefixes matching one URI
  must be. The URIs sit at the scan's boundaries: `/a/b` matches both
  handlers, `/a?` matches only `/a` (at the `?`), and `/ab` matches neither
  (404), because `b` is not a separator.
* Two methods distinguish allowed from disallowed.
* Ring size 3 covers wrap-around, full and empty states. With two items,
  reordering is observable.
* The 100-continue run uses in-process handlers. With out-of-process
  handlers under 100-continue, the use-after-free lets freed slots be reused
  and the state space explodes. That combination is the violation run
  instead. The out-of-process shutdown case (a worker running or holding a
  job at SIGTERM) is the stranded run.
* Stream adapter bounds:
  * A 5-slot ring with 14 bytes wraps nearly three times, through every
    full/empty coincidence of the cursors.
  * In the ibuffer run the source and the cap are 40 bytes, with rooms of
    32 (the minimum). A read that fits its room and one clamped one byte
    short are both possible: the room's 31 usable bytes fit exactly at
    `data_size` 9 and are clamped above it.
  * The obuffer and fbuffer paths are linear, so 40 bytes make every chunk
    split possible. A 16-byte mapping window makes the file reader map
    less than the rest on the first calls and all of it later.
* Timer bounds:
  * The timeouts 2, 3 and 4 are distinct, so a phase that starts the wrong
    timer shows.
  * A 4-byte request with 2 bytes of headers allows partial header reads, a
    partial body and a complete request in one read.
  * The response has a memory part and a file part, so the `write()` and
    `sendfile` paths both run.
  * Two requests exercise `rearm_connection` and the keep-alive timer.
    More requests only repeat the same cycle.

### Fairness

* Each worker step is weakly fair: worker threads are scheduled by the OS.
* `Broadcast` and `NetShutdown` are weakly fair:
  * libev runs the callbacks of pending async watchers;
  * `sigterm_cb` runs to completion once entered.
* `DataReady` is strongly fair. When it queues a job it needs
  `job_queue_mux`, which the workers take and release again and again, so
  it is only enabled now and then. In the code the net thread blocks in
  `pthread_mutex_lock` until it gets the lock and does not give up.
* Clients, timers and signals are the environment and get no fairness. A
  request may never complete, but no property needs it to.
* Every adapter callback is weakly fair. The nxe loop keeps calling a stream
  whose two ends are ready, and the liveness properties assume a source and
  destination that keep making progress. A stall is therefore the adapter's
  own readiness logic, never a slow peer.
* `NxwebTimers` has no fairness. Its properties are safety properties about
  when a timer may and must fire, and time, the client and the timers are
  all environment.

### Mutants

Each property of each passing run is broken by one plausible bug in a mapped
definition (PROJECT.json "mutants"):

| mutant | the bug |
|---|---|
| `ReceiveComplete_keepsTimer` / `ReceiveComplete_keepsWatcher` | a read watcher left running |
| `CondSignal_lost` | the signal omitted |
| `QueueFull_offByOne` | capacity off by one |
| `Rearm_noKeepAlive` | the keep-alive timer not restarted |
| `Sent100_alwaysStops` | the "already sending headers" check dropped |
| `Broadcast_noWake` | the broadcast omitted |
| `PopPublish_noWrap` | the modulo dropped |
| `IsFull_offByOne` | the full check off by one |
| `Advance_offByOne` | the wrap test `>` instead of `>=` |
| `RbWrite_keepsInReady` | `data_in` not unset when the ring fills |
| `ReadEof_early` | EOF flagged on a chunk that does not reach `write_ptr` |
| `RbRead_noInReady` | `data_in` not made ready again after a read |
| `WriteAgain_sendfile` | the write timer renewed after every `sendfile` call, even one that moved nothing |
| `OnBody_again` | the read timer renewed on every partial body read |
| `Transfer_noAdvance` / `Transfer_shortByOne` | the offset not advanced, or one byte short |
| `PrefixMatch_noBoundary` | the character after the prefix not tested |

## Not modelled, and plan

* **ibuffer readiness after the cap** (`nxd_buffer.c:47`). `unset_ready`
  is commented out, so `data_in` stays ready on a closed buffer. While the
  source has bytes, the nxe loop keeps calling a `do_read` that returns at
  line 32. The model treats that return as no step, so this busy loop is not
  represented.
* **`nxd_ibuffer_make_room` and `nxd_fbuffer_finalize`** only reserve memory
  or release the file reader, and change no state that the properties read.
* **fbuffer over-read** (`nxd_buffer.c:226-229`). The write branch maps
  `fr_size` bytes but passes `size`, the whole remaining range, to
  `write()`. When fewer bytes were mapped, the destination may take bytes
  past the mapping. `SourceRefinement` is therefore stated for obuffer and
  sendfile only. With the write branch added to `RefinedKinds`, the
  sources_all run (`Window` 16 < `Total` 40) fails at once. This case has
  no violation run of its own.
* **ibuffer bounds**: the cap bound and "frozen after completion" held
  only by the guard they restate, so they are not checked.
* **Timers under 100-continue, out-of-process handlers and shutdown** are
  not in `NxwebTimers`. Those paths add no `ev_timer_again`, and their
  races are the business of `NxwebServer`.
* **The header's string helpers** (`nxweb.h:177-310`) are public API for
  handlers. Nothing under `src/nxweb` calls them. Reading them shows two
  disagreements that no run checks:
  * `nx_strncasecmp` tests `!len--` after comparing, so it compares `len+1`
    characters. `("ab", "ac", 1)` is nonzero.
  * `nxweb_url_prefix_match` also accepts `;` after the prefix, which
    `find_handler` and spec section 3 do not.

  Checking them would take a module of their own, with a violation run for
  each disagreement. They are left for a later extension.
* **Composition**: use `NxQueue` as the job queue inside `NxwebServer`
  (workers and the net thread all taking `job_queue_mux`).
* Startup (bind, signal masks, pid file), the launcher, the draw filter, the
  OpenMP example have no concurrency or state that these properties depend
  on, so they stay out.
