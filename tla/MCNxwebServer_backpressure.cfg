\* Three connections against a two-slot job queue: 503 when it is full.
CONSTANTS
    Conns = {c1, c2, c3}
    Workers = {w1}
    QueueSize = 3
    Handlers <- MCHandlers
    Methods <- MCMethods
    Uris <- MCUris
    Expect100 = FALSE
    ShutdownSignal = FALSE
    NoConn = NoConn
    NoThread = NoThread
SPECIFICATION Spec
INVARIANT TypeOK
INVARIANT JobHandoff
INVARIANT NoOrphanConnection
SYMMETRY ConnSymmetry
