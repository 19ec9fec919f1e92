\* 100-continue with an out-of-process handler: the write-response timer
\* stays armed while a worker runs the handler.
CONSTANTS
    Conns = {c1, c2}
    Workers = {w1, w2}
    QueueSize = 3
    Handlers <- MCHandlers
    Methods <- MCMethods
    Uris <- MCUris
    Expect100 = TRUE
    ShutdownSignal = FALSE
    NoConn = NoConn
    NoThread = NoThread
SPECIFICATION Spec
INVARIANT JobConnectionAlive
