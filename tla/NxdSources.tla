----------------------------- MODULE NxdSources -----------------------------
(***************************************************************************)
(* The two push-side stream adapters of nxweb/nxd_buffer.c, whose data_out *)
(* istream serves a fixed range of bytes to a destination ostream:         *)
(*   nxd_obuffer  a memory block data_ptr..data_ptr+data_size, by write;   *)
(*   nxd_fbuffer  the bytes [offset, end) of a file, by the ostream's      *)
(*                sendfile when it has one, else by mapping a chunk with   *)
(*                nx_file_reader_get_mbuf_ptr and writing it.              *)
(* data_out is always ready, so the nxe loop calls do_write while the      *)
(* destination is ready.  The destination accepts any part of what it is   *)
(* offered and takes NXEF_EOF only with all of it.  The range's bytes are  *)
(* numbered 1..Total; a byte given from outside the mapped chunk is Junk.  *)
(* Which adapter, and whether the destination has sendfile, is fixed when  *)
(* the stream is connected: kind, chosen from Kinds.                       *)
(*                                                                         *)
(* nx_file_reader_get_mbuf_ptr is not part of the sources; it is modelled  *)
(* from the spec (section 4.4, "maps/reads a chunk into memory") as        *)
(* making at most Window bytes available from the offset.                  *)
(***************************************************************************)
EXTENDS Naturals, Sequences

CONSTANTS Total,    \* data_size of nxd_obuffer_init, end-offset of nxd_fbuffer_init
          Kinds,    \* subset of {"obuffer", "sendfile", "write"}
          Window    \* most bytes the file reader maps at once

ASSUME Total > 0 /\ Window > 0 /\ Kinds \subseteq {"obuffer", "sendfile", "write"}

VARIABLES
    kind,      \* the adapter and destination: "obuffer", or an fbuffer
               \* whose ostream has sendfile ("sendfile") or not ("write")
    off,       \* bytes by which data_ptr / fb->offset has advanced
    recv,      \* bytes the destination has accepted, in order
    sinkEof    \* the destination has been given end-of-input

vars == <<kind, off, recv, sinkEof>>

Junk == 0

Stream == INSTANCE ByteStream WITH eofSeen <- sinkEof

\* The adapters that deliver exactly the range's bytes.
RefinedKinds == {"obuffer", "sendfile"}

\* nx_file_reader_get_mbuf_ptr: fr_size, the bytes mapped at the offset
MappedSize(size) == IF size < Window THEN size ELSE Window

\* nxd_obuffer_init / nxd_fbuffer_init: data_out ready, nothing sent
Init == kind \in Kinds /\ off = 0 /\ recv = <<>> /\ sinkEof = FALSE

Transfer_noAdvance(fr, eofFlag) ==        \* mutant: offset not advanced
    \E k \in 1..(Total - off) :
       /\ recv' = recv \o [i \in 1..k |-> IF i <= fr THEN off + i ELSE Junk]
       /\ sinkEof' = (eofFlag /\ k = Total - off)
       /\ UNCHANGED off

Transfer_shortByOne(fr, eofFlag) ==       \* mutant: one byte fewer offered
    \E k \in 1..(Total - off - 1) :
       /\ recv' = recv \o [i \in 1..k |-> IF i <= fr THEN off + i ELSE Junk]
       /\ sinkEof' = (eofFlag /\ k = Total - off)
       /\ off' = off + k

\* All that is left is offered, of which the first fr bytes are the
\* range's; the destination takes k of them, and NXEF_EOF only with all;
\* if (bytes_sent>0) the offset moves by bytes_sent.
Transfer(fr, eofFlag) ==
    \E k \in 1..(Total - off) :
       /\ recv' = recv \o [i \in 1..k |-> IF i <= fr THEN off + i ELSE Junk]
       /\ sinkEof' = (eofFlag /\ k = Total - off)
       /\ off' = off + k

\* Nothing left: a transfer of no bytes carrying NXEF_EOF.
EofOnly == sinkEof' = TRUE /\ UNCHANGED <<off, recv>>

\* obuffer_data_out_do_write: flags=NXEF_EOF; a write of all data_size bytes
\* at data_ptr, or of none when data_size is 0.
ObDoWrite ==
    /\ kind = "obuffer" /\ ~sinkEof
    /\ IF off = Total THEN EofOnly ELSE Transfer(Total - off, TRUE)
    /\ UNCHANGED kind

\* fbuffer_data_out_do_write, sendfile branch: flags=NXEF_EOF; a sendfile
\* of everything left, or of nothing when size is 0.
FbSendfile ==
    /\ kind = "sendfile" /\ ~sinkEof
    /\ IF off = Total THEN EofOnly ELSE Transfer(Total - off, TRUE)
    /\ UNCHANGED kind

\* fbuffer_data_out_do_write, write branch: fr_size bytes are mapped;
\* NXEF_EOF is dropped unless they cover the rest; a write of size bytes
\* (all that is left, not fr_size) from the mapping.
FbWrite ==
    /\ kind = "write" /\ ~sinkEof
    /\ IF off = Total THEN EofOnly
       ELSE LET fr == MappedSize(Total - off) IN Transfer(fr, fr = Total - off)
    /\ UNCHANGED kind

\* The loop waits for events (the stream has ended).
Idle == UNCHANGED vars

Next == ObDoWrite \/ FbSendfile \/ FbWrite \/ Idle

\* The nxe loop keeps calling the always-ready data_out; the destination
\* is assumed to keep accepting.
Spec == Init /\ [][Next]_vars
        /\ WF_vars(ObDoWrite) /\ WF_vars(FbSendfile) /\ WF_vars(FbWrite)

-----------------------------------------------------------------------------

\* Through partial writes of every size, the destination receives the
\* range's bytes in order, each once and none from outside the range,
\* then end-of-input: for obuffer and for fbuffer with sendfile.  The write
\* branch of fbuffer is left out: when the file reader maps less than the
\* rest (fr_size != size) it offers write() bytes past the mapping.
\* (kind never changes, so this is kind \in RefinedKinds => Stream!Spec.)
SourceRefinement ==
    /\ kind \in RefinedKinds => Stream!Init
    /\ [][(kind \in RefinedKinds) => (Stream!Deliver \/ Stream!End)]_<<recv, sinkEof>>

\* The destination is eventually given end-of-input, by every adapter:
\* the offset advance is never skipped, and when the write branch drops
\* NXEF_EOF because the mapping fell short, the empty EOF transfer of a
\* later call (size 0) delivers it.
SourceEventuallyEof == <>sinkEof
=============================================================================
