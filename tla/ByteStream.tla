----------------------------- MODULE ByteStream -----------------------------
(***************************************************************************)
(* What a streaming buffer adapter promises the ostream it feeds (spec     *)
(* section 4.4): the bytes of its source, numbered 1..Total, arrive in     *)
(* order, in chunks of any size, none twice and none invented; the         *)
(* end-of-input flag arrives once, after the last byte.                    *)
(***************************************************************************)
EXTENDS Naturals, Sequences

CONSTANT Total

VARIABLES recv,     \* the bytes the destination has accepted, in order
          eofSeen   \* the destination has been given end-of-input

\* The bytes from..to of the source.
Bytes(from, to) == [i \in 1..(to - from + 1) |-> from + i - 1]

Init == recv = <<>> /\ eofSeen = FALSE

\* a chunk; the last one may carry end-of-input
Deliver ==
    /\ ~eofSeen
    /\ \E k \in 1..(Total - Len(recv)) :
         /\ recv' = recv \o Bytes(Len(recv) + 1, Len(recv) + k)
         /\ eofSeen' \in IF Len(recv) + k = Total THEN BOOLEAN ELSE {FALSE}

\* end-of-input alone, after the last byte
End ==
    /\ Len(recv) = Total /\ ~eofSeen
    /\ eofSeen' = TRUE
    /\ UNCHANGED recv

Spec == Init /\ [][Deliver \/ End]_<<recv, eofSeen>>
=============================================================================
