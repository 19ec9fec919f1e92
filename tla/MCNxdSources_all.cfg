\* A 40-byte range through each adapter and destination, every chunk size;
\* the file reader maps at most 16 bytes at a time.
CONSTANTS
    Total = 40
    Kinds = {"obuffer", "sendfile", "write"}
    Window = 16
SPECIFICATION Spec
PROPERTY SourceRefinement
PROPERTY SourceEventuallyEof
