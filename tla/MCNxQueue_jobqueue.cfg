\* One producer and several consumers serialised by a mutex.  The net thread
\* also takes job_queue_mux to push; leaving it unlocked here allows more
\* interleavings and checks that a single-thread side needs no mutex.
CONSTANTS
    Size = 3
    Items = {i1, i2}
    Producers = {net}
    Consumers = {wk1, wk2}
    LockProducers = FALSE
    LockConsumers = TRUE
    NoItem = NoItem
    NoThread = NoThread
SPECIFICATION Spec
INVARIANT TypeOK
PROPERTY FifoRefinement
