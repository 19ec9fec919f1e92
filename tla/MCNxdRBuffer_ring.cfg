\* A 5-byte ring carrying 14 bytes (the cursors wrap twice): wrap-around, full and empty coincidence.
CONSTANTS
    Cap = 5
    Total = 14
    EofAlone = FALSE
SPECIFICATION Spec
INVARIANT TypeOK
INVARIANT WritableHasRoom
PROPERTY RBufferRefinement
PROPERTY SinkEventuallyEof
