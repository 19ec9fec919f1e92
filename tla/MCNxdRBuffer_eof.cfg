\* A source that reports end-of-input in a read of no bytes, as a socket
\* does: if the ring is empty then, data_out is never made ready and the
\* destination never sees end-of-input.
CONSTANTS
    Cap = 3
    Total = 4
    EofAlone = TRUE
SPECIFICATION Spec
PROPERTY SinkEventuallyEof
