\* SIGTERM while a job is queued: worker threads exit without draining it.
CONSTANTS
    Conns = {c1, c2}
    Workers = {w1, w2}
    QueueSize = 3
    Handlers <- MCHandlers
    Methods <- MCMethods
    Uris <- MCUris
    Expect100 = FALSE
    ShutdownSignal = TRUE
    NoConn = NoConn
    NoThread = NoThread
SPECIFICATION Spec
INVARIANT NoStrandedJob
