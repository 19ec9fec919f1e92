----------------------------- MODULE NxdIBuffer -----------------------------
(***************************************************************************)
(* The bounded accumulator nxd_ibuffer (nxweb/nxd_buffer.c): its data_in   *)
(* ostream takes bytes from a source istream into a growable nxb buffer of *)
(* at most max_data_size bytes, and publishes data_complete when the cap   *)
(* is reached ((nxe_data)-1) or the source reports end-of-input (0).  The  *)
(* nxe loop calls do_read while data_in and the source are ready.  Each    *)
(* call gets a room from the nxb buffer (nxb_make_room(32) then           *)
(* nxb_get_room): at least 32 bytes, its size one of Rooms.                *)
(***************************************************************************)
EXTENDS Integers, Sequences

CONSTANTS MaxData,   \* max_data_size
          Rooms,     \* sizes nxb_get_room may return
          Total,     \* bytes the source will produce
          EofAlone   \* the source may report end-of-input in a read of no bytes

ASSUME /\ MaxData > 0 /\ Total > 0 /\ EofAlone \in BOOLEAN
       /\ \A r \in Rooms : r >= 32     \* nxb_make_room(ib->nxb, 32)

VARIABLES
    dataSize,    \* ib->data_size
    closed,      \* ib->data_ptr set: the result is final
    inReady,     \* data_in.ready
    published,   \* payloads published on data_complete, in order
    sent,        \* bytes the source has handed over
    srcDone,     \* the source has reported end-of-input
    taken        \* the owner has called nxd_ibuffer_get_result

vars == <<dataSize, closed, inReady, published, sent, srcDone, taken>>

Min2(a, b) == IF a < b THEN a ELSE b

CapPayload == -1     \* (nxe_data)-1: truncated at max_data_size
EofPayload == 0      \* (nxe_data)0: natural end-of-input

\* size--; if (data_size+size > max_data_size) size=max_data_size-data_size-1;
ReadSize(room) ==
    IF dataSize + room - 1 > MaxData THEN MaxData - dataSize - 1 ELSE room - 1

\* if (ib->data_ptr) return;
Open == ~closed

\* What one do_read publishes: the cap test on the bytes received, then the
\* end-of-input test, each finishing the stream and publishing.
Completion(k, e) ==
    (IF k > 0 /\ dataSize + k >= MaxData THEN <<CapPayload>> ELSE <<>>)
    \o (IF e THEN <<EofPayload>> ELSE <<>>)

\* nxd_ibuffer_init
Init ==
    /\ dataSize = 0 /\ closed = FALSE /\ inReady = TRUE
    /\ published = <<>> /\ sent = 0 /\ srcDone = FALSE /\ taken = FALSE

\* ibuffer_data_in_do_read: the source's read returns k bytes of the
\* (clamped) room, and may report end-of-input with its last bytes.  On
\* end-of-input data_in stops being ready; on the cap it stays ready.
DataInDoRead ==
    /\ inReady /\ ~srcDone
    /\ Open
    /\ \E room \in Rooms :
       \E k \in 0..Min2(ReadSize(room), Total - sent), e \in BOOLEAN :
         /\ e => k = Total - sent
         /\ IF EofAlone THEN k > 0 \/ e ELSE k > 0 /\ e = (k = Total - sent)
         /\ dataSize' = dataSize + k
         /\ sent' = sent + k /\ srcDone' = e
         /\ published' = published \o Completion(k, e)
         /\ closed' = (closed \/ Completion(k, e) # <<>>)
         /\ inReady' = IF e THEN FALSE ELSE inReady
    /\ UNCHANGED taken

\* nxd_ibuffer_get_result: the owner takes the result, finishing it if it
\* is not yet (data_in is left ready).
GetResult ==
    /\ ~taken
    /\ closed' = TRUE /\ taken' = TRUE
    /\ UNCHANGED <<dataSize, inReady, published, sent, srcDone>>

\* The loop waits for events (nothing is due).
Idle == UNCHANGED vars

Next == DataInDoRead \/ GetResult \/ Idle

\* The nxe loop keeps calling a ready ostream's do_read; the source is
\* assumed to keep making progress.  The owner need never take the result.
Spec == Init /\ [][Next]_vars /\ WF_vars(DataInDoRead)

-----------------------------------------------------------------------------

\* Spec section 4.4: data_complete is published exactly once.  With a
\* source that keeps making progress it is eventually published (unless
\* the owner has taken the result first): the clamp of do_read must not
\* leave the cap unreachable.  And it is never published twice: the cap
\* branch and the end-of-input branch of one do_read must not both run.
CompleteExactlyOnce ==
    /\ <>(published # <<>> \/ taken)
    /\ [](Len(published) <= 1)

=============================================================================
