---------------------------- MODULE NxwebServer ----------------------------
(***************************************************************************)
(* One network thread of nxweb (nxweb/nxweb.c), its connections, its job   *)
(* queue with mutex and condition variable, its worker threads, and the    *)
(* SIGTERM shutdown path driven by the main thread.                        *)
(*                                                                         *)
(* A connection is a record conn[c]; st = "FREE" means no connection       *)
(* object exists in that slot (never allocated, or freed by               *)
(* close_connection).  Its libev watchers are the set conn[c].watch:       *)
(*   "read"/"write"  socket io watchers, "ka"/"rt"/"wt" the keep-alive,    *)
(*   read-request and write-response timers, "async" the data-ready       *)
(*   async watcher; conn[c].sent is the async watcher's pending flag.      *)
(* Time is abstracted: an active timer may fire in any state.  Socket      *)
(* readiness is abstracted: an active io watcher may fire in any state,    *)
(* which also covers ev_feed_event.  Header parsing, chunk decoding and    *)
(* response formatting are collaborators: their outcomes are chosen       *)
(* nondeterministically from the values the code distinguishes.           *)
(***************************************************************************)
EXTENDS Naturals, Sequences, FiniteSets

CONSTANTS
    Conns,          \* connection slots (model values)
    Workers,        \* worker threads of this network thread (model values)
    QueueSize,      \* NXWEB_JOBS_QUEUE_SIZE; nx_queue holds QueueSize-1 jobs
    Handlers,       \* registered uri handlers in scan order: [prefix: a uri
                    \*   prefix, inproc: BOOLEAN, methods: SUBSET Methods \cup {"ANY"}]
    Methods,        \* request methods the parser may report
    Uris,           \* request uris the parser may report (sequences of characters)
    Expect100,      \* whether clients may send "Expect: 100-continue"
    ShutdownSignal, \* whether SIGTERM may arrive
    NoConn, NoThread

ASSUME QueueSize > 2                       \* assert(queue_max_size>2)
ASSUME Expect100 \in BOOLEAN /\ ShutdownSignal \in BOOLEAN

VARIABLES
    conn,         \* [Conns -> connection record]
    queue,        \* job queue contents (nxweb_job = connection)
    mutex,        \* holder of job_queue_mux (the net thread takes it atomically)
    wpc,          \* worker program counter
    wjob,         \* job a worker has popped and is executing
    shutdown,     \* shutdown_in_progress
    mainPc,       \* main thread: "running", "broadcast" (in sigterm_cb), "done"
    acceptOn,     \* watch_accept active
    shutdownSent, \* watch_shutdown async pending
    procDone      \* process has exited (joined or SIGALRM)

vars == <<conn, queue, mutex, wpc, wjob, shutdown, mainPc, acceptOn,
          shutdownSent, procDone>>

NH == Len(Handlers)
Default == NH + 1                     \* default_handler (404), after all modules
Timers == {"ka", "rt", "wt"}
SocketWatchers == {"read", "write"}
Watchers == Timers \cup SocketWatchers \cup {"async"}
States == {"FREE", "WAITING_FOR_REQUEST", "RECEIVING_HEADERS", "RECEIVING_BODY",
           "HANDLING", "SENDING_HEADERS", "SENDING_BODY"}
WorkerPcs == {"top", "trypop", "wait", "woken", "run", "exited"}

\* The request fields as new_request leaves them (memset 0) and a freed slot.
FreshRequest(r) ==
    [r EXCEPT !.method = "NONE", !.uri = <<>>, !.handler = 0,
              !.result = "NONE", !.chunked = FALSE]
FreeConn ==
    [st |-> "FREE", ka |-> FALSE, s100 |-> FALSE, method |-> "NONE",
     uri |-> <<>>, handler |-> 0, result |-> "NONE", chunked |-> FALSE,
     watch |-> {}, sent |-> FALSE]

(***************************************************************************)
(* Helpers translating the internal functions of nxweb.c.                  *)
(***************************************************************************)

\* Plausible bugs in the helpers below, used as mutants: forgetting to stop
\* the read timer, or the read watcher, when the request is complete.
ReceiveComplete_keepsTimer(r) == [r EXCEPT !.watch = @ \ {"read"}]
ReceiveComplete_keepsWatcher(r) == [r EXCEPT !.watch = @ \ {"rt"}]

\* conn_request_receive_complete: stop the read timer and the read watcher.
ReceiveComplete(r) == [r EXCEPT !.watch = @ \ {"rt", "read"}]

\* start_sending_response: SENDING_HEADERS; arm write timer and watcher
\* unless a 100-continue is being written (they are already active).  The
\* request's routing fields are not read again before rearm_connection
\* replaces the request, so the model forgets them here.
StartSending(r) ==
    [FreshRequest(r) EXCEPT !.st = "SENDING_HEADERS",
                            !.watch = IF r.s100 THEN @ ELSE @ \cup {"wt", "write"}]

\* ev_async_start: no-op on an active watcher, else clears the pending flag.
AsyncStart(r) ==
    IF "async" \in r.watch THEN r
    ELSE [r EXCEPT !.watch = @ \cup {"async"}, !.sent = FALSE]

\* prepare_request_for_handler's method check (HEAD passes as GET): a
\* handler with no method flags, or with NXWEB_HANDLE_ANY, takes any method.
Allowed(h, m) ==
    IF h = Default THEN TRUE
    ELSE LET ms == Handlers[h].methods IN ms = {} \/ ({"ANY", m} \cap ms) # {}
Inproc(h) == IF h = Default THEN TRUE ELSE Handlers[h].inproc

NUL == "NUL"      \* the string terminator '\0'

\* u[i], or the terminator past the end of u
CharAt(u, i) == IF i <= Len(u) THEN u[i] ELSE NUL

\* strncmp(a, b, n) == 0: equal up to n characters or a common terminator.
RECURSIVE StrNEq(_, _, _)
StrNEq(a, b, n) ==
    \/ n = 0
    \/ /\ CharAt(a, 1) = CharAt(b, 1)
       /\ CharAt(a, 1) = NUL \/ StrNEq(Tail(a), Tail(b), n - 1)

PrefixMatch_noBoundary(p, u) ==     \* mutant: the character after the prefix not tested
    Len(p) = 0 \/ (Len(p) <= Len(u) /\ StrNEq(u, p, Len(p)))

\* find_handler's test: an empty prefix, or one the uri starts with and
\* continues with '\0', '?' or '/'.
PrefixMatch(p, u) ==
    \/ Len(p) = 0
    \/ /\ Len(p) <= Len(u) /\ StrNEq(u, p, Len(p))
       /\ CharAt(u, Len(p) + 1) \in {NUL, "?", "/"}

\* find_handler's scan from handler h on (the modules' handler lists are
\* concatenated in scan order): the first whose prefix matches uri u, else
\* default_handler.
RECURSIVE FindHandler(_, _)
FindHandler(u, h) ==
    IF h > NH THEN Default
    ELSE IF PrefixMatch(Handlers[h].prefix, u) THEN h ELSE FindHandler(u, h + 1)

\* The handlers successive find_handler calls return after handler h, each
\* resuming after the previous (req->handler+1), ending with the default
\* handler, after which find_handler returns 0.
RECURSIVE ChainFrom(_, _)
ChainFrom(u, h) ==
    LET n == FindHandler(u, h + 1)
    IN IF n = Default THEN {Default} ELSE {n} \cup ChainFrom(u, n)

Chain(r) == ChainFrom(r.uri, r.handler)

\* dispatch_request's loop runs in-process handlers that return NEXT and
\* stops at the first one that is disallowed (405), returns OK, or is
\* out-of-process.  Stop is where it can stop.
Stops(r) ==
    {s \in Chain(r) : \A h \in Chain(r) : h < s => Allowed(h, r.method) /\ Inproc(h)}

CondSignal_lost == UNCHANGED wpc        \* mutant: signal omitted

\* pthread_cond_signal: wake one waiter, if any.
CondSignal ==
    \/ \E w \in Workers : wpc[w] = "wait" /\ wpc' = [wpc EXCEPT ![w] = "woken"]
    \/ (\A w \in Workers : wpc[w] # "wait") /\ UNCHANGED wpc

QueueFull_offByOne == Len(queue) = QueueSize     \* mutant: capacity QueueSize

\* nx_queue_is_full on the job queue: QueueSize-1 jobs are queued.
QueueFull == Len(queue) = QueueSize - 1

\* dispatch_request for connection c whose record is r.
Dispatch(c, r) ==
    \E s \in Stops(r) :
      LET r1 == [r EXCEPT !.handler = s] IN
      \/ /\ ~Allowed(s, r.method)                         \* 405
         /\ conn' = [conn EXCEPT ![c] = StartSending(r1)]
         /\ UNCHANGED <<queue, wpc>>
      \/ /\ Allowed(s, r.method) /\ Inproc(s)            \* handler returned OK
         /\ conn' = [conn EXCEPT ![c] = StartSending([r1 EXCEPT !.result = "OK"])]
         /\ UNCHANGED <<queue, wpc>>
      \/ /\ Allowed(s, r.method) /\ ~Inproc(s)           \* go async
         /\ mutex = NoThread
         /\ \/ /\ ~QueueFull
               /\ queue' = Append(queue, c)
               /\ CondSignal
               /\ conn' = [conn EXCEPT ![c] = AsyncStart(r1)]
            \/ /\ QueueFull                                \* full: 503
               /\ conn' = [conn EXCEPT ![c] = StartSending(AsyncStart(r1))]
               /\ UNCHANGED <<queue, wpc>>

UpdateConn(c, r) == conn' = [conn EXCEPT ![c] = r] /\ UNCHANGED <<queue, wpc>>
Close(c) == UpdateConn(c, FreeConn)       \* close_connection frees conn

NetOnly == UNCHANGED <<mutex, wjob, shutdown, mainPc, acceptOn, shutdownSent, procDone>>
(***************************************************************************)
(* Network thread callbacks.                                               *)
(***************************************************************************)

\* net_thread_accept_cb + new_connection: a new connection waits for a
\* request with its read watcher started (and fed) and its keep-alive timer.
Accept(c) ==
    /\ acceptOn /\ ~shutdown
    /\ conn[c].st = "FREE"
    /\ UpdateConn(c, [FreeConn EXCEPT !.st = "WAITING_FOR_REQUEST",
                                      !.watch = {"read", "ka"}])
    /\ NetOnly

\* socket_read_cb (with next_room_for_read, read_bytes_from_socket and
\* is_request_body_complete).  One read per step; reads that change nothing
\* (EAGAIN, more partial headers or body) are stuttering steps.
SocketRead(c) ==
    LET r == conn[c]
        \* first bytes of a request: keep-alive timer -> read timer
        r1 == IF r.st = "WAITING_FOR_REQUEST"
              THEN [r EXCEPT !.st = "RECEIVING_HEADERS",
                             !.watch = (@ \ {"ka"}) \cup {"rt"}]
              ELSE r
        Reject(x) == StartSending([ReceiveComplete(x) EXCEPT !.ka = FALSE])
    IN
    /\ "read" \in r.watch
    /\ \/ \* no room left: headers too long (400) or chunked body over limit (413)
          /\ \/ r.st = "RECEIVING_HEADERS"
             \/ r.st = "RECEIVING_BODY" /\ r.chunked
          /\ UpdateConn(c, Reject(r))
       \/ UpdateConn(c, FreeConn)                 \* read() error, or 0 = peer closed
       \/ /\ r.st = "WAITING_FOR_REQUEST"         \* partial headers
          /\ UpdateConn(c, r1)
       \/ /\ r1.st = "RECEIVING_HEADERS"          \* headers complete, parse fails
          /\ UpdateConn(c, Reject(r1))
       \/ /\ r1.st = "RECEIVING_HEADERS"          \* headers complete and parsed
          /\ \E ka \in BOOLEAN, m \in Methods, u \in Uris,
                body \in {"complete", "toolarge", "length", "chunked"} :
               LET r2 == [r1 EXCEPT !.ka = ka, !.method = m, !.uri = u,
                                    !.chunked = (body = "chunked")]
                   r3 == [r2 EXCEPT !.st = "RECEIVING_BODY"]
               IN
               \/ body = "complete"
                  /\ Dispatch(c, [ReceiveComplete(r2) EXCEPT !.st = "HANDLING"])
               \/ body = "toolarge" /\ UpdateConn(c, Reject(r2))
               \/ body \in {"length", "chunked"}
                  /\ \E e100 \in IF Expect100 THEN BOOLEAN ELSE {FALSE} :
                       UpdateConn(c, IF e100
                                     THEN [r3 EXCEPT !.s100 = TRUE,
                                                     !.watch = @ \cup {"wt", "write"}]
                                     ELSE r3)
       \/ /\ r.st = "RECEIVING_BODY"              \* body complete
          /\ Dispatch(c, [ReceiveComplete(r) EXCEPT !.st = "HANDLING"])
    /\ NetOnly

Rearm_noKeepAlive(r) ==              \* mutant: keep-alive timer not restarted
    [FreshRequest(r) EXCEPT !.st = "WAITING_FOR_REQUEST", !.watch = @ \cup {"read"}]

\* rearm_connection: a new request; reading restarts under the keep-alive
\* timer.  If the new request cannot be allocated the connection is closed.
Rearm(r) == [FreshRequest(r) EXCEPT !.st = "WAITING_FOR_REQUEST",
                                    !.watch = @ \cup {"read", "ka"}]

Sent100_alwaysStops(r) ==            \* mutant: "already sending headers" check dropped
    [r EXCEPT !.s100 = FALSE, !.watch = @ \ {"write", "wt"}]

\* socket_write_cb, all of "100 Continue" written: if the response has
\* meanwhile reached SENDING_HEADERS keep writing it, else stop the write
\* watcher and timer until start_sending_response.
Sent100(r) ==
    IF r.st = "SENDING_HEADERS"
    THEN [r EXCEPT !.s100 = FALSE]
    ELSE [r EXCEPT !.s100 = FALSE, !.watch = @ \ {"write", "wt"}]

\* socket_write_cb (with next_write_bytes).  One phase boundary per step;
\* partial writes, EAGAIN and sendfile errors change nothing.
SocketWrite(c) ==
    LET r == conn[c]
        Done == [r EXCEPT !.watch = @ \ {"write", "wt"}]
    IN
    /\ "write" \in r.watch
    /\ \/ UpdateConn(c, FreeConn)                 \* write() error
       \/ r.s100 /\ UpdateConn(c, Sent100(r))     \* all of 100 Continue sent
       \/ /\ ~r.s100 /\ r.st = "SENDING_HEADERS"  \* headers sent
          /\ UpdateConn(c, [r EXCEPT !.st = "SENDING_BODY"])
       \/ /\ ~r.s100 /\ r.st = "SENDING_BODY"     \* all sent
          /\ IF r.ka /\ ~shutdown
             THEN \/ UpdateConn(c, Rearm(Done))
                  \/ Close(c)                     \* new_request failed
             ELSE Close(c)
    /\ NetOnly

\* keep_alive_timeout_cb and write_response_timeout_cb close the connection.
KeepAliveTimeout(c) == "ka" \in conn[c].watch /\ Close(c) /\ NetOnly
WriteTimeout(c) == "wt" \in conn[c].watch /\ Close(c) /\ NetOnly

\* read_request_timeout_cb: stop receiving and send 408 without keep-alive.
ReadTimeout(c) ==
    /\ "rt" \in conn[c].watch
    /\ UpdateConn(c, StartSending([ReceiveComplete(conn[c]) EXCEPT !.ka = FALSE]))
    /\ NetOnly

\* data_ready_cb: the worker has run the handler; NEXT dispatches again.
DataReady(c) ==
    LET r == [conn[c] EXCEPT !.watch = @ \ {"async"}, !.sent = FALSE] IN
    /\ conn[c].sent /\ "async" \in conn[c].watch
    /\ IF conn[c].result = "NEXT"
       THEN Dispatch(c, r)
       ELSE UpdateConn(c, StartSending(r))
    /\ NetOnly

\* net_thread_shutdown_cb: stop accepting.
NetShutdown ==
    /\ shutdownSent
    /\ acceptOn' = FALSE /\ shutdownSent' = FALSE
    /\ UNCHANGED <<conn, queue, mutex, wpc, wjob, shutdown, mainPc, procDone>>

(***************************************************************************)
(* Worker threads: worker_thread_main.                                     *)
(***************************************************************************)

WorkerOnly == UNCHANGED <<shutdown, mainPc, acceptOn, shutdownSent, procDone>>

\* while (!shutdown_in_progress) { pthread_mutex_lock ...
WTop(w) ==
    /\ wpc[w] = "top"
    /\ \/ shutdown /\ wpc' = [wpc EXCEPT ![w] = "exited"] /\ UNCHANGED mutex
       \/ ~shutdown /\ mutex = NoThread
          /\ mutex' = w /\ wpc' = [wpc EXCEPT ![w] = "trypop"]
    /\ UNCHANGED <<conn, queue, wjob>> /\ WorkerOnly

\* while ((result=pop()) && !shutdown_in_progress) pthread_cond_wait(...);
\* pthread_mutex_unlock.  cond_wait releases the mutex atomically.
WTryPop(w) ==
    /\ wpc[w] = "trypop"
    /\ mutex' = NoThread
    /\ \/ /\ queue # <<>>
          /\ wjob' = [wjob EXCEPT ![w] = Head(queue)]
          /\ queue' = Tail(queue)
          /\ wpc' = [wpc EXCEPT ![w] = "run"]
       \/ /\ queue = <<>>
          /\ wpc' = [wpc EXCEPT ![w] = IF shutdown THEN "top" ELSE "wait"]
          /\ UNCHANGED <<queue, wjob>>
    /\ UNCHANGED conn /\ WorkerOnly

\* a signalled waiter returns from pthread_cond_wait once it has the mutex
WReacquire(w) ==
    /\ wpc[w] = "woken" /\ mutex = NoThread
    /\ mutex' = w /\ wpc' = [wpc EXCEPT ![w] = "trypop"]
    /\ UNCHANGED <<conn, queue, wjob>> /\ WorkerOnly

\* run the handler on the worker, store handler_result, ev_async_send
WRun(w) ==
    LET c == wjob[w] IN
    /\ wpc[w] = "run"
    /\ \E res \in {"NEXT", "OK"} :
         conn' = [conn EXCEPT ![c].result = res, ![c].sent = TRUE]
    /\ wpc' = [wpc EXCEPT ![w] = "top"]
    /\ wjob' = [wjob EXCEPT ![w] = NoConn]
    /\ UNCHANGED <<queue, mutex>> /\ WorkerOnly

(***************************************************************************)
(* Main thread: sigterm_cb, SIGALRM, and the final joins of _nxweb_main.   *)
(***************************************************************************)

\* shutdown_in_progress=1 (without the mutex), then per net thread:
SigTerm ==
    /\ ShutdownSignal /\ mainPc = "running"
    /\ shutdown' = TRUE /\ mainPc' = "broadcast"
    /\ UNCHANGED <<conn, queue, mutex, wpc, wjob, acceptOn, shutdownSent, procDone>>

Broadcast_noWake ==                  \* mutant: broadcast omitted
    /\ mainPc = "broadcast" /\ mutex = NoThread
    /\ shutdownSent' = TRUE /\ mainPc' = "done"
    /\ UNCHANGED <<conn, queue, mutex, wpc, wjob, shutdown, acceptOn, procDone>>

\* lock; pthread_cond_broadcast; unlock; ev_async_send(watch_shutdown); alarm(5)
Broadcast ==
    /\ mainPc = "broadcast" /\ mutex = NoThread
    /\ wpc' = [w \in Workers |-> IF wpc[w] = "wait" THEN "woken" ELSE wpc[w]]
    /\ shutdownSent' = TRUE /\ mainPc' = "done"
    /\ UNCHANGED <<conn, queue, mutex, wjob, shutdown, acceptOn, procDone>>

\* on_sigalrm: exit(EXIT_SUCCESS) five seconds after shutdown began
Alarm ==
    /\ mainPc = "done"
    /\ procDone' = TRUE
    /\ UNCHANGED <<conn, queue, mutex, wpc, wjob, shutdown, mainPc, acceptOn, shutdownSent>>

\* ev_run of the net thread returns once no watcher is active; the main
\* thread joins it and all workers, and _nxweb_main returns.
Join ==
    /\ mainPc = "done" /\ ~acceptOn /\ ~shutdownSent
    /\ \A c \in Conns : conn[c].st = "FREE"
    /\ \A w \in Workers : wpc[w] = "exited"
    /\ procDone' = TRUE
    /\ UNCHANGED <<conn, queue, mutex, wpc, wjob, shutdown, mainPc, acceptOn, shutdownSent>>

-----------------------------------------------------------------------------

Init ==
    /\ conn = [c \in Conns |-> FreeConn]
    /\ queue = <<>>
    /\ mutex = NoThread
    /\ wpc = [w \in Workers |-> "top"]
    /\ wjob = [w \in Workers |-> NoConn]
    /\ shutdown = FALSE
    /\ mainPc = "running"
    /\ acceptOn = TRUE
    /\ shutdownSent = FALSE
    /\ procDone = FALSE

Next ==
    \/ /\ ~procDone
       /\ \/ \E c \in Conns :
               \/ Accept(c) \/ SocketRead(c) \/ SocketWrite(c)
               \/ KeepAliveTimeout(c) \/ ReadTimeout(c) \/ WriteTimeout(c)
               \/ DataReady(c)
          \/ \E w \in Workers : WTop(w) \/ WTryPop(w) \/ WReacquire(w) \/ WRun(w)
          \/ NetShutdown \/ SigTerm \/ Broadcast \/ Alarm \/ Join
    \/ procDone /\ UNCHANGED vars        \* the process has exited

\* Worker threads are scheduled by the OS and the event loop runs pending
\* async callbacks, so their steps are weakly fair.  data_ready_cb that
\* queues a job blocks in pthread_mutex_lock(job_queue_mux) until the
\* workers, which hold it only briefly, release it: it is enabled
\* infinitely often and the blocked lock is taken, so it is strongly fair.
\* Clients, timers and signals are the environment and get no fairness.
Fairness ==
    /\ \A w \in Workers : WF_vars(WTop(w) \/ WTryPop(w) \/ WReacquire(w) \/ WRun(w))
    /\ \A c \in Conns : SF_vars(DataReady(c))
    /\ WF_vars(Broadcast) /\ WF_vars(NetShutdown)

Spec == Init /\ [][Next]_vars /\ Fairness

-----------------------------------------------------------------------------

TypeOK ==
    /\ conn \in [Conns -> [st : States, ka : BOOLEAN, s100 : BOOLEAN,
                           method : Methods \cup {"NONE"}, uri : Uris \cup {<<>>},
                           handler : 0..Default, result : {"NONE", "NEXT", "OK"},
                           chunked : BOOLEAN, watch : SUBSET Watchers, sent : BOOLEAN]]
    /\ queue \in Seq(Conns) /\ Len(queue) <= QueueSize - 1
    /\ mutex \in Workers \cup {NoThread}
    /\ wpc \in [Workers -> WorkerPcs]
    /\ wjob \in [Workers -> Conns \cup {NoConn}]
    /\ shutdown \in BOOLEAN /\ acceptOn \in BOOLEAN
    /\ shutdownSent \in BOOLEAN /\ procDone \in BOOLEAN
    /\ mainPc \in {"running", "broadcast", "done"}

\* The jobs of c: queued, being executed by a worker, or finished with the
\* completion signal not yet handled by data_ready_cb.
JobCount(c) ==
    Cardinality({i \in DOMAIN queue : queue[i] = c})
    + Cardinality({w \in Workers : wpc[w] = "run" /\ wjob[w] = c})
    + (IF conn[c].sent /\ "async" \in conn[c].watch THEN 1 ELSE 0)

\* Hand-off of a connection to a worker (dispatch_request -> worker ->
\* data_ready_cb): while a job for c is outstanding there is exactly one,
\* the connection is alive in HANDLING with its async watcher armed, and no
\* socket watcher or timer of c is active, so no network-thread callback
\* can touch or free the connection the worker is using.
JobHandoff ==
    \A c \in Conns :
       /\ JobCount(c) <= 1
       /\ JobCount(c) = 1 =>
            /\ conn[c].st = "HANDLING"
            /\ "async" \in conn[c].watch
            /\ conn[c].watch \cap (Timers \cup SocketWatchers) = {}

\* A worker never runs a job whose connection close_connection has freed:
\* the connection of every queued or executing job is alive (spec: the
\* connection stays owned by its network thread until the completion signal).
JobConnectionAlive ==
    /\ \A i \in DOMAIN queue : conn[queue[i]].st # "FREE"
    /\ \A w \in Workers : wpc[w] = "run" => conn[wjob[w]].st # "FREE"

\* Every live connection can still make progress on its own: it has an
\* active timer (keep-alive, read or write deadline) or an outstanding job.
\* A connection with neither would stay open forever against a silent peer.
NoOrphanConnection ==
    \A c \in Conns :
       conn[c].st # "FREE" => conn[c].watch \cap Timers # {} \/ JobCount(c) > 0

\* Spec section 3: a prefix matches when it is empty, or when the uri
\* begins with it and goes on with end-of-string, '?' or '/'.
SpecMatch(p, u) ==
    \/ p = <<>>
    \/ /\ Len(p) <= Len(u) /\ SubSeq(u, 1, Len(p)) = p
       /\ Len(u) = Len(p) \/ u[Len(p) + 1] \in {"?", "/"}

\* A connection handed to a worker is handled by a registered handler
\* whose prefix matches its uri in the spec's sense, and every earlier
\* handler that matches it accepted the method and passed it on (NEXT):
\* find_handler's scan, its resumption after req->handler on
\* re-dispatch, and the 405 check together implement first-match-wins.
DispatchFirstMatch ==
    \A c \in Conns :
       LET r == conn[c] IN
       r.st = "HANDLING" /\ r.handler \in 1..NH =>
          /\ SpecMatch(Handlers[r.handler].prefix, r.uri)
          /\ \A g \in 1..(r.handler - 1) :
                SpecMatch(Handlers[g].prefix, r.uri) => Allowed(g, r.method)

\* A queued job always has a worker left to run it (spec: workers exit only
\* when the queue is empty and shutdown is set).
NoStrandedJob ==
    queue # <<>> => \E w \in Workers : wpc[w] # "exited"

\* A connection handed to the handlers eventually gets its response started
\* (dispatch, worker, data_ready_cb and re-dispatch on NEXT all terminate).
HandlingEventuallyResponds ==
    \A c \in Conns : conn[c].st = "HANDLING" ~> conn[c].st # "HANDLING"

\* After SIGTERM every worker thread eventually leaves worker_thread_main
\* (no worker sleeps through the broadcast), unless SIGALRM ends the process.
WorkersExitOnShutdown ==
    shutdown ~> ((\A w \in Workers : wpc[w] = "exited") \/ procDone)

=============================================================================
