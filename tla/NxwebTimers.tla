----------------------------- MODULE NxwebTimers -----------------------------
(***************************************************************************)
(* The deadlines of one connection of nxweb/nxweb.c in discrete time: the  *)
(* keep-alive timer while waiting for a request, the read-request timer    *)
(* while receiving it, and the write-response timer while sending the      *)
(* response.  At most one of the three is active in each phase; left is    *)
(* the number of ticks before it expires.  A libev timer fires in the loop *)
(* iteration in which it expires, so time cannot pass an expired timer     *)
(* (Tick needs left > 0).  The handler is in-process: dispatch_request     *)
(* runs it inline and start_sending_response follows in the same callback. *)
(*                                                                         *)
(* The client is the environment: it sends the request's ReqBytes bytes    *)
(* (the first HdrBytes of them the header block) in reads of any size,     *)
(* accepts the response in writes of any size, may stall, or may close.    *)
(* quiet counts the ticks since the last byte moved in the current phase,  *)
(* and recvAge the ticks since the request's first byte.                   *)
(***************************************************************************)
EXTENDS Naturals

CONSTANTS KeepAliveTimeout, ReadRequestTimeout, WriteResponseTimeout,
          HdrBytes,     \* bytes of the request header block
          ReqBytes,     \* bytes of the whole request (headers and body)
          RespMem,      \* response bytes written from memory (headers, body)
          RespFile,     \* response bytes sent by sendfile
          ErrBytes,     \* bytes of the 408 error response
          MaxRequests   \* requests the client sends on the connection

ASSUME /\ {KeepAliveTimeout, ReadRequestTimeout, WriteResponseTimeout} \subseteq Nat \ {0}
       /\ 0 < HdrBytes /\ HdrBytes <= ReqBytes
       /\ RespMem > 0 /\ ErrBytes > 0 /\ RespFile \in Nat /\ MaxRequests > 0

Phases == {"WAITING", "HEADERS", "BODY", "SENDING"}
ClosedStates == {"TIMEOUT", "ERROR", "CLOSING"}

VARIABLES
    st,        \* cstate: a phase, or the state close_connection ran in
    left,      \* ticks until the phase's active timer expires
    got,       \* request bytes received (obstack size)
    memLeft,   \* response bytes still to write()
    fileLeft,  \* sendfile_length - sendfile_offset
    ka,        \* conn->keep_alive
    reqs,      \* conn->request_count
    quiet,     \* ticks since the last byte moved in this phase
    recvAge    \* ticks since the request's first byte

vars == <<st, left, got, memLeft, fileLeft, ka, reqs, quiet, recvAge>>

\* The duration each phase's timer is initialised with.
Deadline == [WAITING |-> KeepAliveTimeout, HEADERS |-> ReadRequestTimeout,
             BODY |-> ReadRequestTimeout, SENDING |-> WriteResponseTimeout]

\* new_connection: WAITING_FOR_REQUEST, keep-alive timer started
Init ==
    /\ st = "WAITING" /\ left = KeepAliveTimeout
    /\ got = 0 /\ memLeft = 0 /\ fileLeft = 0
    /\ ka = FALSE /\ reqs = 0 /\ quiet = 0 /\ recvAge = 0

\* start_sending_response: SENDING_HEADERS, write timer started
StartSending(mem, file) ==
    /\ st' = "SENDING" /\ left' = WriteResponseTimeout
    /\ memLeft' = mem /\ fileLeft' = file /\ quiet' = 0

\* rearm_connection: a new request, WAITING_FOR_REQUEST, keep-alive timer
Rearm ==
    /\ st' = "WAITING" /\ left' = KeepAliveTimeout
    /\ got' = 0 /\ reqs' = reqs + 1 /\ quiet' = 0 /\ recvAge' = 0
    /\ UNCHANGED <<memLeft, fileLeft, ka>>

\* A request rejected while it is received (400 or 413): receive complete,
\* keep_alive=0, the error response is sent.
Reject == ka' = FALSE /\ StartSending(ErrBytes, 0)

\* socket_read_cb in RECEIVING_HEADERS with g bytes in the buffer and the
\* read timer at timer ticks: partial headers return; complete headers that
\* fail to parse (400) or declare a body over the limit (413) are rejected;
\* else keep-alive is as the client asks (off on its last request), a
\* complete request is dispatched and answered, and an incomplete one goes
\* on to RECEIVING_BODY with the timer renewed.
OnHeaders(g, timer) ==
    IF g < HdrBytes
    THEN /\ st' = "HEADERS" /\ left' = timer /\ quiet' = 0
         /\ UNCHANGED <<memLeft, fileLeft, ka>>
    ELSE \/ Reject
         \/ /\ ka' \in IF reqs + 1 < MaxRequests THEN BOOLEAN ELSE {FALSE}
            /\ IF g = ReqBytes
               THEN StartSending(RespMem, RespFile)
               ELSE /\ st' = "BODY" /\ left' = ReadRequestTimeout /\ quiet' = 0
                    /\ UNCHANGED <<memLeft, fileLeft>>

OnBody_again(g) ==                  \* mutant: partial body reads renew the timer
    IF g = ReqBytes
    THEN StartSending(RespMem, RespFile) /\ UNCHANGED ka
    ELSE /\ quiet' = 0 /\ left' = ReadRequestTimeout
         /\ UNCHANGED <<st, memLeft, fileLeft, ka>>

\* socket_read_cb in RECEIVING_BODY: content_received grows; a complete
\* body is dispatched and answered, a partial one only logged.
OnBody(g) ==
    IF g = ReqBytes
    THEN StartSending(RespMem, RespFile) /\ UNCHANGED ka
    ELSE quiet' = 0 /\ UNCHANGED <<st, left, memLeft, fileLeft, ka>>

\* socket_read_cb: k bytes are read; the first byte of a request stops the
\* keep-alive timer and starts the read-request timer.
SocketRead ==
    /\ st \in {"WAITING", "HEADERS", "BODY"}
    /\ \E k \in 1..(ReqBytes - got) :
         LET g == got + k IN
         /\ got' = g
         /\ IF st = "BODY" THEN OnBody(g)
            ELSE OnHeaders(g, IF st = "WAITING" THEN ReadRequestTimeout ELSE left)
    /\ UNCHANGED <<reqs, recvAge>>

\* next_room_for_read: the buffer is exhausted, by headers too long (400)
\* or a chunked body over the content limit (413).
RoomExhausted ==
    /\ st \in {"HEADERS", "BODY"}
    /\ Reject
    /\ UNCHANGED <<got, reqs, recvAge>>

\* read_bytes_from_socket: the client closed (read of 0: CLOSING) or a read
\* error (ERROR); close_connection.
ReadClosed ==
    /\ st \in {"WAITING", "HEADERS", "BODY"}
    /\ st' \in {"CLOSING", "ERROR"}
    /\ UNCHANGED <<left, got, memLeft, fileLeft, ka, reqs, quiet, recvAge>>

WriteAgain_sendfile(k, sf) ==       \* mutant: renewed after every sendfile call
    IF k > 0 \/ sf THEN WriteResponseTimeout ELSE left

\* The write timer after a callback that wrote k bytes with write() and
\* then called sendfile (sf) or not: ev_timer_again follows write()
\* progress only (line 312); a sendfile call, whatever it returns, leaves
\* the timer running.
WriteAgain(k, sf) == IF k > 0 THEN WriteResponseTimeout ELSE left

\* socket_write_cb: write() takes k > 0 of the memory bytes (on a socket
\* with bytes to send it returns a count or -1, and EAGAIN returns before
\* any change); only if it took them all does the loop go on to sendfile,
\* which takes j of the file bytes (0: it returned 0 on a file cut short,
\* or failed, which is only logged).
\* With everything sent the write timer stops and the connection is
\* rearmed for keep-alive or closed.
SocketWrite ==
    /\ st = "SENDING"
    /\ \E k \in (IF memLeft > 0 THEN 1..memLeft ELSE {0}), j \in 0..fileLeft :
         /\ k < memLeft => j = 0
         /\ memLeft' = memLeft - k /\ fileLeft' = fileLeft - j
         /\ IF k = memLeft /\ j = fileLeft
            THEN IF ka THEN Rearm
                 ELSE st' = "CLOSING" /\ UNCHANGED <<left, got, ka, reqs, quiet, recvAge>>
            ELSE /\ left' = WriteAgain(k, k = memLeft /\ fileLeft > 0)
                 /\ quiet' = IF k + j > 0 THEN 0 ELSE quiet
                 /\ UNCHANGED <<st, got, ka, reqs, recvAge>>

\* socket_write_cb: write() failed with other than EAGAIN: close.
WriteError ==
    /\ st = "SENDING" /\ st' = "ERROR"
    /\ UNCHANGED <<left, got, memLeft, fileLeft, ka, reqs, quiet, recvAge>>

\* One tick of time; it cannot pass an expired timer.
Tick ==
    /\ st \in Phases /\ left > 0
    /\ left' = left - 1 /\ quiet' = quiet + 1
    /\ recvAge' = IF st \in {"HEADERS", "BODY"} THEN recvAge + 1 ELSE recvAge
    /\ UNCHANGED <<st, got, memLeft, fileLeft, ka, reqs>>

\* The expired timer's callback: keep_alive_timeout_cb and
\* write_response_timeout_cb close the connection; read_request_timeout_cb
\* stops reading, turns keep-alive off and starts sending a 408.
TimerFires ==
    /\ st \in Phases /\ left = 0
    /\ IF st \in {"HEADERS", "BODY"}
       THEN ka' = FALSE /\ StartSending(ErrBytes, 0)
       ELSE st' = "TIMEOUT" /\ UNCHANGED <<left, memLeft, fileLeft, ka, quiet>>
    /\ UNCHANGED <<got, reqs, recvAge>>

\* The connection is gone.
Closed == st \in ClosedStates /\ UNCHANGED vars

Next == SocketRead \/ RoomExhausted \/ ReadClosed \/ SocketWrite \/ WriteError \/ Tick
        \/ TimerFires \/ Closed

Spec == Init /\ [][Next]_vars

-----------------------------------------------------------------------------

\* Not indefinitely after the deadline (spec section 8): a connection whose
\* peer moves no bytes is closed (or answered with 408) within its phase's
\* timeout; no path renews a timer without progress, e.g. on a write()
\* that returned 0.
DeadlineNotLate == st \in Phases => quiet <= Deadline[st]

\* A slow-loris client cannot hold the receive phases longer than two read
\* timeouts: the read-request timer is started at the first byte and
\* renewed only once, on entering RECEIVING_BODY, whatever the client
\* trickles.
ReceiveBounded == st \in {"HEADERS", "BODY"} => recvAge <= 2 * ReadRequestTimeout

\* Not before the deadline (spec section 4.1: a deadline is reset on every
\* partial progress event): a timer fires only after a full timeout without
\* progress in its phase.
TimeoutMeansSilence == [][TimerFires => quiet >= Deadline[st]]_vars
=============================================================================
