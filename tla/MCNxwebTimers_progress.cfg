\* The same connection, checked against the spec's rule that a deadline is
\* reset on every partial progress event.
CONSTANTS
    KeepAliveTimeout = 2
    ReadRequestTimeout = 3
    WriteResponseTimeout = 4
    HdrBytes = 2
    ReqBytes = 4
    RespMem = 2
    RespFile = 2
    ErrBytes = 1
    MaxRequests = 2
SPECIFICATION Spec
PROPERTY TimeoutMeansSilence
