----------------------------- MODULE ImageTransfer -----------------------------
(***************************************************************************)
(* flash_partition_stream: how the bytes of a raw image are cut, in chunks *)
(* for Thor, in sequences of padded parts for the legacy protocol, and     *)
(* what the device puts together from them.  A byte is known by its        *)
(* position in the image; Pad is a zero byte of the padding.               *)
(***************************************************************************)
EXTENDS Integers, Sequences

CONSTANTS
    Images,         \* [thor, size, stream]: bytes announced, bytes the file holds
    Packet,         \* odin_flash_packet_size
    Count,          \* odin_flash_sequence_count
    Chunk,          \* chunk_size of Thor, 1 MiB in the code
    MaxSequences    \* 2^32 - 1 in the code

CutAssumption ==
    {Packet, Count, Chunk} \subseteq Nat \ {0} /\ MaxSequences \in Nat
ImagesAssumption ==
    \A m \in Images : m.thor \in BOOLEAN /\ m.size \in Nat /\ m.stream \in 0..m.size

VARIABLES
    image,       \* the image, from Images
    pc,          \* where the function stands, or its result
    i,           \* sequences finished
    j,           \* parts of the sequence sent
    total_sent,  \* bytes of the image sent
    index,       \* expected_index, in Thor chunk_index
    announced,   \* device: aligned size of the sequence
    buffer,      \* device: bytes of the sequence
    flashed,     \* device: bytes of the image, in order
    last         \* device: the end of the image was announced

host == <<i, j, total_sent, index>>
dev == <<announced, buffer, flashed, last>>
vars == <<image, pc, i, j, total_sent, index, announced, buffer, flashed, last>>

Pad == -1
Span(from, len) == [k \in 1..len |-> from + k - 1]

\* A part is filled up with zeros.
Filler(len) == [k \in 1..(Packet - len) |-> Pad]

TypeOK ==
    /\ pc \in {"request", "sequence", "part", "reset", "header", "chunk", "true", "false", "refused"}
    /\ total_sent \in 0..image.stream
    /\ {i, j, index} \subseteq Nat
    /\ announced % Packet = 0 /\ announced <= Packet * Count
    /\ Len(buffer) <= announced
    /\ Len(flashed) <= image.size

Init ==
    /\ image \in Images
    /\ pc = IF image.thor THEN "header" ELSE "request"
    /\ i = 0 /\ j = 0 /\ total_sent = 0 /\ index = 0
    /\ announced = 0 /\ buffer = <<>> /\ flashed = <<>> /\ last = FALSE

Ended == pc \in {"true", "false", "refused"}

\* A request, a reply or a transfer fails, or the device refuses.
ExchangeFails == ~Ended /\ pc' = "false" /\ UNCHANGED <<image, host, dev>>

-----------------------------------------------------------------------------
(* Legacy: sequences of Count parts of Packet bytes.                       *)

SequenceBytes == Packet * Count

Sequences64 == (image.size + SequenceBytes - 1) \div SequenceBytes
LastSequence == image.size - (Sequences64 - 1) * SequenceBytes

IsLast == i + 1 = Sequences64

Aligned(size) == IF size % Packet = 0 THEN size ELSE size + Packet - (size % Packet)

\* Mutant of RealSize: the padding of the last sequence counts as data.
RealSizePadded == IF IsLast THEN Aligned(LastSequence) ELSE SequenceBytes

RealSize == IF IsLast THEN LastSequence ELSE SequenceBytes

Parts == announced \div Packet

RequestFileFlash ==
    /\ pc = "request"
    /\ pc' = IF Sequences64 \in 1..MaxSequences THEN "sequence" ELSE "refused"
    /\ UNCHANGED <<image, host, dev>>

RequestSequenceFlash ==
    /\ pc = "sequence"
    /\ announced' = Aligned(RealSize) /\ buffer' = <<>>
    /\ j' = 0
    /\ pc' = "part"
    /\ UNCHANGED <<image, i, total_sent, index, flashed, last>>

ToRead == IF image.size - total_sent < Packet THEN image.size - total_sent ELSE Packet

ChunkLen == IF image.size - total_sent < Chunk THEN image.size - total_sent ELSE Chunk

StreamHas(len) == total_sent + len <= image.stream

StreamEnds ==
    /\ \/ pc = "part" /\ j < Parts /\ ~StreamHas(ToRead)
       \/ pc = "chunk" /\ total_sent < image.size /\ ~StreamHas(ChunkLen)
    /\ pc' = "refused"
    /\ UNCHANGED <<image, host, dev>>

SendFilePart ==
    /\ pc = "part"
    /\ j < Parts
    /\ StreamHas(ToRead)
    /\ buffer' = buffer \o Span(total_sent, ToRead) \o Filler(ToRead)
    /\ total_sent' = total_sent + ToRead
    /\ j' = j + 1 /\ index' = index + 1
    /\ UNCHANGED <<image, pc, i, announced, flashed, last>>

EndSequenceFlash ==
    /\ pc = "part"
    /\ j = Parts
    /\ flashed' = flashed \o SubSeq(buffer, 1, RealSize)
    /\ last' = IsLast
    /\ i' = i + 1
    /\ pc' = IF IsLast THEN "reset" ELSE "sequence"
    /\ UNCHANGED <<image, j, total_sent, index, announced, buffer>>

ResetFlashCount == pc = "reset" /\ pc' = "true" /\ UNCHANGED <<image, host, dev>>

-----------------------------------------------------------------------------
(* Thor: chunks, none of them padded; the end follows in end_file_transfer.*)

SendFilePartHeader == pc = "header" /\ pc' = "chunk" /\ UNCHANGED <<image, host, dev>>

SendFilePartChunk ==
    /\ pc = "chunk"
    /\ total_sent < image.size
    /\ StreamHas(ChunkLen)
    /\ flashed' = flashed \o Span(total_sent, ChunkLen)
    /\ total_sent' = total_sent + ChunkLen
    /\ index' = index + 1
    /\ UNCHANGED <<image, pc, i, j, announced, buffer, last>>

ChunksDone ==
    /\ pc = "chunk"
    /\ total_sent = image.size
    /\ pc' = "true"
    /\ UNCHANGED <<image, host, dev>>

Next ==
    \/ ExchangeFails \/ StreamEnds
    \/ RequestFileFlash \/ RequestSequenceFlash \/ SendFilePart \/ EndSequenceFlash
    \/ ResetFlashCount
    \/ SendFilePartHeader \/ SendFilePartChunk \/ ChunksDone

Spec == Init /\ [][Next]_vars

-----------------------------------------------------------------------------
(* Properties.                                                             *)

\* What the device has put together is the beginning of the image: no byte is
\* missing, sent twice or padding, wherever sequences and parts are cut.
FlashedIsPrefix == flashed = Span(0, Len(flashed))

\* The device is told of the end of an image exactly when it holds all of it:
\* on that flag it finalises the partition.
LastMeansWhole == last <=> ~image.thor /\ Len(flashed) = image.size /\ i > 0

\* A sequence is ended when the device has received what was announced for it,
\* no byte more or less, and every part was a whole packet.
AnnouncedIsSent ==
    [][i' = i + 1 => Len(buffer) = announced /\ announced = j * Packet]_vars

\* The result: true means that all of the image is there.  Without a failing
\* exchange only a file that is shorter than its header says is refused, and in
\* the legacy protocol an image that is empty or too long.
ResultExact ==
    /\ pc = "true" => Len(flashed) = image.size
    /\ pc = "refused" =>
          \/ image.stream < image.size
          \/ ~image.thor /\ (image.size = 0 \/ image.size > MaxSequences * SequenceBytes)
=============================================================================
