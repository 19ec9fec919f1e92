\* Hand-off to workers and liveness of handling, no 100-continue, no SIGTERM.
CONSTANTS
    Conns = {c1, c2}
    Workers = {w1, w2}
    QueueSize = 3
    Handlers <- MCHandlers
    Methods <- MCMethods
    Uris <- MCUris
    Expect100 = FALSE
    ShutdownSignal = FALSE
    NoConn = NoConn
    NoThread = NoThread
SPECIFICATION Spec
INVARIANT JobHandoff
INVARIANT DispatchFirstMatch
PROPERTY HandlingEventuallyResponds
