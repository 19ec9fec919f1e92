----------------------------- MODULE NxdRBuffer -----------------------------
(***************************************************************************)
(* The ring-buffer stream adapter nxd_rbuffer (nxweb/nxd_buffer.c) between *)
(* a source istream and a destination ostream, as the nxe event loop       *)
(* drives it: the loop calls data_in's do_read while data_in and the       *)
(* source are ready, and data_out's do_write while data_out and the        *)
(* destination are ready.  Bytes are numbered 1..Total in source order;    *)
(* slots hold the numbers, so a byte read twice, lost or read before it is *)
(* written is visible.  The region is Cap bytes; start_ptr is 0 and        *)
(* end_ptr is Cap.                                                         *)
(*                                                                         *)
(* nxd_rbuffer_get_write_ptr, nxd_rbuffer_get_read_ptr and the is_empty /  *)
(* is_full tests live in a header that is not part of the sources; they    *)
(* are modelled from the spec (section 4.4): the contiguous room or data   *)
(* from the cursor to the other cursor or to end_ptr, with last_write      *)
(* telling full from empty when the cursors coincide.                      *)
(***************************************************************************)
EXTENDS Naturals, Sequences

CONSTANTS Cap,      \* size of the region
          Total,    \* bytes the source will produce
          EofAlone  \* the source may report end-of-input in a read of no
                    \* bytes (a socket does); else only with its last bytes

ASSUME Cap > 0 /\ Total > 0 /\ EofAlone \in BOOLEAN

VARIABLES
    rd, wr,          \* read_ptr, write_ptr as offsets from start_ptr
    lastWrite,       \* last_write
    eof,             \* rb->eof
    inReady,         \* data_in.ready
    outReady,        \* data_out.ready
    slots,           \* the region: the number of the byte in each slot
    sent,            \* bytes the source has handed over
    srcDone,         \* the source has reported end-of-input
    recv,            \* bytes the destination has accepted, in order
    sinkEof          \* the destination has been given end-of-input

vars == <<rd, wr, lastWrite, eof, inReady, outReady, slots, sent, srcDone,
          recv, sinkEof>>

Slots == 0..(Cap - 1)
Min2(a, b) == IF a < b THEN a ELSE b

\* nxd_rbuffer_is_full / nxd_rbuffer_is_empty
Full == rd = wr /\ lastWrite
Empty == rd = wr /\ ~lastWrite

\* nxd_rbuffer_get_write_ptr: contiguous room at write_ptr
WriteRoom ==
    IF Full THEN 0 ELSE IF wr >= rd THEN Cap - wr ELSE rd - wr

\* nxd_rbuffer_get_read_ptr: contiguous data at read_ptr, and NXEF_EOF when
\* eof is recorded and the chunk reaches write_ptr
ReadSize ==
    IF Empty THEN 0 ELSE IF rd < wr THEN wr - rd ELSE Cap - rd
ReadEof_early == eof                      \* mutant: any chunk carries EOF
ReadEof == eof /\ (rd + ReadSize) % Cap = wr

Advance_offByOne(p, n) == IF p + n > Cap THEN 0 ELSE p + n    \* mutant

\* ptr+=size; if (ptr>=end_ptr) ptr=start_ptr;
Advance(p, n) == IF p + n >= Cap THEN 0 ELSE p + n

RbWrite_keepsInReady(n) ==         \* mutant: data_in left ready when full
    /\ wr' = Advance(wr, n)
    /\ lastWrite' = TRUE /\ outReady' = TRUE
    /\ UNCHANGED <<rd, inReady>>

\* nxd_rbuffer_write(rb, n) for n > 0: advance write_ptr, set last_write,
\* make data_out ready; if the cursors now coincide (full) data_in is no
\* longer ready.
RbWrite(n) ==
    /\ wr' = Advance(wr, n)
    /\ lastWrite' = TRUE /\ outReady' = TRUE
    /\ inReady' = IF rd = Advance(wr, n) THEN FALSE ELSE inReady
    /\ UNCHANGED rd

RbRead_noInReady(n) ==             \* mutant: data_in not made ready again
    /\ rd' = Advance(rd, n)
    /\ lastWrite' = FALSE
    /\ outReady' = IF Advance(rd, n) = wr THEN FALSE ELSE outReady
    /\ UNCHANGED <<wr, inReady>>

\* nxd_rbuffer_read(rb, n) for n > 0: advance read_ptr, clear last_write,
\* make data_in ready; if the cursors now coincide (empty) data_out is no
\* longer ready -- whether or not eof has been recorded.
RbRead(n) ==
    /\ rd' = Advance(rd, n)
    /\ lastWrite' = FALSE /\ inReady' = TRUE
    /\ outReady' = IF Advance(rd, n) = wr THEN FALSE ELSE outReady
    /\ UNCHANGED wr

\* nxd_rbuffer_init
Init ==
    /\ rd = 0 /\ wr = 0 /\ lastWrite = FALSE /\ eof = FALSE
    /\ inReady = TRUE /\ outReady = FALSE
    /\ slots = [i \in Slots |-> 0]
    /\ sent = 0 /\ srcDone = FALSE
    /\ recv = <<>> /\ sinkEof = FALSE

\* rbuffer_data_in_do_read: the source's read fills k bytes of the room at
\* write_ptr and may report end-of-input with its last byte (or alone, once
\* every byte is out); k bytes are written; NXEF_EOF only records eof.
DataInDoRead ==
    /\ inReady /\ ~srcDone
    /\ \E k \in 0..Min2(WriteRoom, Total - sent), e \in BOOLEAN :
         /\ e => k = Total - sent
         /\ IF EofAlone THEN k > 0 \/ e ELSE k > 0 /\ e = (k = Total - sent)
         /\ slots' = [i \in Slots |-> IF wr <= i /\ i < wr + k
                                      THEN sent + 1 + i - wr ELSE slots[i]]
         /\ sent' = sent + k
         /\ IF k > 0 THEN RbWrite(k)
            ELSE UNCHANGED <<rd, wr, lastWrite, inReady, outReady>>
         /\ eof' = (eof \/ e) /\ srcDone' = e
    /\ UNCHANGED <<recv, sinkEof>>

\* rbuffer_data_out_do_write: the destination's write accepts k of the
\* ReadSize bytes at read_ptr (all of them if it is to see NXEF_EOF); the k
\* bytes are read.
DataOutDoWrite ==
    /\ outReady /\ ~sinkEof
    /\ \E k \in 0..ReadSize :
         /\ k > 0 \/ ReadEof
         /\ recv' = recv \o [i \in 1..k |-> slots[rd + i - 1]]
         /\ sinkEof' = (ReadEof /\ k = ReadSize)
         /\ IF k > 0 THEN RbRead(k)
            ELSE UNCHANGED <<rd, wr, lastWrite, inReady, outReady>>
    /\ UNCHANGED <<eof, slots, sent, srcDone>>

\* The loop waits for events: neither callback is due (a stream that has
\* ended, or one whose readiness flags are all cleared).
Idle == UNCHANGED vars

Next == DataInDoRead \/ DataOutDoWrite \/ Idle

\* The nxe loop keeps calling a ready stream's callback; the source and the
\* destination are assumed to keep making progress.
Spec == Init /\ [][Next]_vars /\ WF_vars(DataInDoRead) /\ WF_vars(DataOutDoWrite)

-----------------------------------------------------------------------------

TypeOK ==
    /\ rd \in Slots /\ wr \in Slots
    /\ {lastWrite, eof, inReady, outReady, srcDone, sinkEof} \subseteq BOOLEAN
    /\ slots \in [Slots -> 0..Total]
    /\ sent \in 0..Total
    /\ recv \in Seq(1..Total)

\* The assert(size) of rbuffer_data_in_do_read never fails: whenever the
\* loop may call do_read (data_in ready, source not finished) there is room
\* at write_ptr.  It relies on nxd_rbuffer_write clearing data_in's
\* readiness exactly when a write fills the ring.
WritableHasRoom == inReady /\ ~srcDone => WriteRoom > 0

Stream == INSTANCE ByteStream WITH eofSeen <- sinkEof

\* Through every interleaving of partial reads and writes around the ring,
\* the destination receives the source's bytes in order, none twice, none
\* overwritten before being read, and end-of-input after the last byte.
RBufferRefinement == Stream!Spec

\* Given a source and a destination that keep making progress, the
\* destination is eventually given end-of-input, and so (by the refinement)
\* every byte: no readiness flag is left cleared with work to do (spec:
\* read-side readiness is cleared on empty only when no end-of-input has
\* been signalled).
SinkEventuallyEof == <>sinkEof
=============================================================================
