\* Two requests on one connection, each sent in up to four reads (headers
\* in two), a response partly written and partly sent by sendfile, and
\* timeouts of three ticks.
CONSTANTS
    KeepAliveTimeout = 2
    ReadRequestTimeout = 3
    WriteResponseTimeout = 4
    HdrBytes = 2
    ReqBytes = 4
    RespMem = 2
    RespFile = 2
    ErrBytes = 1
    MaxRequests = 2
SPECIFICATION Spec
INVARIANT DeadlineNotLate
INVARIANT ReceiveBounded
