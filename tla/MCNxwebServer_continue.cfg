\* 100-continue interleaved with request reading and response writing,
\* in-process handlers: no live connection is left without a deadline.
CONSTANTS
    Conns = {c1, c2}
    Workers = {w1}
    QueueSize = 3
    Handlers <- MCHandlersInproc
    Methods <- MCMethods
    Uris <- MCUris
    Expect100 = TRUE
    ShutdownSignal = TRUE
    NoConn = NoConn
    NoThread = NoThread
SPECIFICATION Spec
INVARIANT NoOrphanConnection
PROPERTY WorkersExitOnShutdown
SYMMETRY ConnSymmetry
