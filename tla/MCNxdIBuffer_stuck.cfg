\* A source exactly as long as the cap, with 32-byte rooms: a read that
\* lands on the cap with the source's last byte publishes twice, and a
\* read clamped one byte short leaves the cap unreachable.
CONSTANTS
    MaxData = 40
    Rooms = {32}
    Total = 40
    EofAlone = TRUE
SPECIFICATION Spec
PROPERTY CompleteExactlyOnce
