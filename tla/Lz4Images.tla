-------------------------------- MODULE Lz4Images -------------------------------
(***************************************************************************)
(* LZ4 images: the loop that feeds the decoder (Lz4Stream), the decoder of *)
(* frames (Lz4Frame) and of one block (Lz4Block), and its checksums        *)
(* (Xxh32).  Each takes the one below by what it promises; a run is one of *)
(* the four, on one input.                                                 *)
(***************************************************************************)
EXTENDS Integers, Sequences

CONSTANTS
    Images, InBuf, OutBuf, HeaderMax,               \* of Lz4Stream
    Frames, SrcSizes, DstSizes, Window, MaxBlock,   \* of Lz4Frame
    MinFH, MaxFH, SizeField, IdField, BHSize, CrcSize, SFrameHead, SFrameMagic,
    Inputs, MaxDistance,                            \* of Lz4Block
    Lengths, MaxGiven, Modulus                      \* of Xxh32

VARIABLES
    part,   \* the part that runs: "stream", "frame", "block" or "hash"
    image, loop, pass, pos, fail, remaining, in_buf, off, src, fed, given_out, err, size, sent,
    frame, pc, ctx, at, blk, made, call,
    in, label, seq, ip, op, mem, read,
    state, given

Stream == INSTANCE Lz4Stream WITH pc <- loop, made <- given_out
Frm == INSTANCE Lz4Frame
Blk == INSTANCE Lz4Block WITH pc <- label
Xxh == INSTANCE Xxh32

stream_vars ==
    <<image, loop, pass, pos, fail, remaining, in_buf, off, src, fed, given_out, err, size, sent>>
frame_vars == <<frame, pc, ctx, at, blk, made, call>>
block_vars == <<in, label, seq, ip, op, mem, read>>
hash_vars == <<state, given>>
all == <<part, stream_vars, frame_vars, block_vars, hash_vars>>

AFrame == CHOOSE f \in Frames : f.skip
AnImage == CHOOSE m \in Images : TRUE
AnInput == CHOOSE x \in Inputs : x.n = 1

Init ==
    /\ part \in {"stream", "frame", "block", "hash"}
    /\ part = "frame" \/ (part # "frame" /\ frame = AFrame)
    /\ part = "stream" \/ (part # "stream" /\ image = AnImage)
    /\ part = "block" \/ (part # "block" /\ in = AnInput)
    /\ Frm!Init /\ Stream!Init /\ Blk!Init /\ Xxh!Init

FrameTurn == part = "frame" /\ UNCHANGED <<part, stream_vars, block_vars, hash_vars>>
StreamNext ==
    part = "stream" /\ Stream!Next /\ UNCHANGED <<part, frame_vars, block_vars, hash_vars>>
BlockNext ==
    part = "block" /\ Blk!Next /\ UNCHANGED <<part, frame_vars, stream_vars, hash_vars>>
HashNext ==
    part = "hash" /\ Xxh!Next /\ UNCHANGED <<part, frame_vars, stream_vars, block_vars>>

Next == (FrameTurn /\ Frm!Next) \/ StreamNext \/ BlockNext \/ HashNext

Spec == Init /\ [][Next]_all /\ WF_all(FrameTurn /\ Frm!Step) /\ WF_all(StreamNext)

-----------------------------------------------------------------------------
(* Properties; the parts of each are explained in the modules they are of. *)

\* Lz4Stream: the decoder is given every byte of the entry once and in order and
\* none behind it; what is sent comes to the size announced, and every sound
\* frame is taken.
StreamExact ==
    /\ Stream!TypeOK /\ Stream!FedInOrder /\ Stream!InsideEntry
    /\ Stream!WholeImageSent /\ Stream!SoundAccepted

\* Lz4Stream: its loops end.
StreamEnds == part = "stream" => Stream!Ends

\* Lz4Frame: every byte given out is the next byte of the content, whatever the
\* caller has overwritten; the decoder finishes with the last byte of a frame in
\* order, and leaves no dictionary to the next one.
FrameContent ==
    Frm!TypeOK /\ Frm!OutputInOrder /\ Frm!FrameExact /\ Frm!LeavesNoHistory

\* Lz4Frame: blocks and history stay inside the buffer of the decoder.
InsideTmp == Frm!InsideTmp

\* Lz4Frame: every call returns, and one that is given bytes and room uses or
\* gives some.
CallsReturn == Frm!CallsReturn /\ Frm!EachCallProgresses

\* Lz4Block: no stride writes outside the room of the caller, and no byte behind
\* the input is read, in damaged blocks neither.
BlockInside == Blk!TypeOK /\ Blk!WritesInside /\ Blk!ReadsInside

\* Lz4Block: the output of a block is what its sequences say, and a block that
\* keeps the rules of the format is decoded.
BlockContent == Blk!ContentExact /\ Blk!GoodIsDecoded

\* Xxh32: the digest of the pieces is the hash of the whole; what is not mixed in
\* yet waits in the buffer.
DigestIsTheHash == Xxh!BufferIsTheRest /\ Xxh!DigestIsTheHash
=============================================================================
