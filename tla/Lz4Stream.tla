------------------------------- MODULE Lz4Stream -------------------------------
(***************************************************************************)
(* process_lz4_streaming: the bytes of an entry go through in_buf to       *)
(* LZ4F_decompress, once to learn the size if the frame does not tell it,  *)
(* and once to send what comes out.  The decoder is taken by its contract: *)
(* it may use any part of what it is given and hold output back, or use    *)
(* blocks as a whole only and wait where one is not there.                 *)
(***************************************************************************)
EXTENDS Integers, Sequences

CONSTANTS
    Images,      \* the entries of archives considered
    InBuf,       \* in_buf_size
    OutBuf,      \* out_buf_size
    HeaderMax    \* bytes read for the frame info, 1024 in the code

(***************************************************************************)
(* An image is [units, declared, size, avail, flash, lazy].  units is the  *)
(* first frame, a sequence of [in, out, bad]: header, blocks, end mark, each*)
(* with its bytes and what comes out of it; declared is contentSize, 0 if  *)
(* unknown; size is compressed_size: less than the frame if it is cut,     *)
(* more if something follows; avail is what the file really holds from the *)
(* start of the entry on, less than size if it was cut; lazy tells which   *)
(* decoder is used.                                                        *)
(***************************************************************************)
InOf(us) ==
    LET upto[k \in 0..Len(us)] == IF k = 0 THEN 0 ELSE upto[k - 1] + us[k].in IN upto[Len(us)]
OutOf(us) ==
    LET upto[k \in 0..Len(us)] == IF k = 0 THEN 0 ELSE upto[k - 1] + us[k].out IN upto[Len(us)]

SizesAssumption == {InBuf, OutBuf, HeaderMax} \subseteq Nat \ {0}
ImagesAssumption ==
    \A m \in Images :
        /\ m.units \in Seq([in : Nat \ {0}, out : Nat, bad : BOOLEAN]) /\ m.units # <<>>
        /\ m.declared \in Nat /\ m.size \in Nat /\ m.avail \in Nat
        /\ m.flash \in BOOLEAN /\ m.lazy \in BOOLEAN

VARIABLES
    image,       \* the image, from Images
    pc,          \* step, or result
    pass,        \* "scan" or "send"
    pos,         \* position of the file in the entry
    fail,        \* failbit of the file
    remaining,   \* scan_remaining, remaining_compressed
    in_buf,      \* positions of the bytes in in_buf
    off, src,    \* src_offset, src_size
    fed, made,   \* decoder: bytes taken and given out
    err,         \* "more", "done" (0) or "bad"
    size,        \* uncompressed_size
    sent         \* total_uncompressed: bytes sent on

file == <<pos, fail>>
buffers == <<in_buf, off, src>>
decoder == <<fed, made, err>>
vars == <<image, pc, pass, pos, fail, remaining, in_buf, off, src, fed, made, err, size, sent>>

Units == image.units
FrameLen == InOf(Units)
Total == OutOf(Units)
Ended == pc \in {"true", "false"}

TypeOK ==
    /\ pc \in {"info", "announce", "fill", "decode", "rewind", "true", "false"}
    /\ pass \in {"scan", "send"}
    /\ pos \in 0..image.size /\ remaining \in 0..image.size
    /\ off + src <= InBuf /\ src >= 0
    /\ Len(in_buf) <= InBuf
    /\ err \in {"more", "done", "bad"}

Init ==
    /\ image \in Images
    /\ pc = "info" /\ pass = "scan"
    /\ pos = 0 /\ fail = FALSE /\ remaining = image.size
    /\ in_buf = <<>> /\ off = 0 /\ src = 0
    /\ fed = 0 /\ made = 0 /\ err = "more"
    /\ size = 0 /\ sent = 0

Min2(a, b) == IF a < b THEN a ELSE b
Return(result) == pc' = result

-----------------------------------------------------------------------------
(* Frame info, announcement, and the two passes.                           *)

StartPass(p) ==
    /\ pass' = p
    /\ pos' = 0 /\ fail' = FALSE /\ remaining' = image.size
    /\ off' = 0 /\ src' = 0
    /\ fed' = 0 /\ made' = 0 /\ err' = "more"

GetFrameInfo ==
    /\ pc = "info"
    /\ IF \/ image.avail < Min2(HeaderMax, image.size)
          \/ Units[1].bad \/ Units[1].in > Min2(HeaderMax, image.size)
       THEN Return("false") /\ UNCHANGED <<pass, file, remaining, off, src, decoder, size>>
       ELSE /\ size' = image.declared
            /\ pc' = IF image.declared = 0 THEN "fill" ELSE "announce"
            /\ StartPass(IF image.declared = 0 THEN "scan" ELSE "send")
    /\ UNCHANGED <<image, in_buf, sent>>

\* send_file_part_header in a flashing run; the context is reset.
Announce ==
    /\ pc = "announce"
    /\ \/ pc' = "fill"
       \/ image.flash /\ Return("false")
    /\ UNCHANGED <<image, pass, file, remaining, buffers, decoder, size, sent>>

\* Behind the frame of the scan the file is moved over the rest, which fails
\* after a short read, and then back.
Rewind ==
    /\ pc = "rewind"
    /\ IF err # "done" \/ (remaining > 0 /\ fail)
       THEN Return("false") /\ UNCHANGED <<pass, file, remaining, off, src, decoder>>
       ELSE pc' = "announce" /\ StartPass("send")
    /\ UNCHANGED <<image, in_buf, size, sent>>

-----------------------------------------------------------------------------
(* The input buffer.                                                       *)

\* What a read of n bytes brings.
Got(n) == IF fail THEN 0 ELSE Min2(n, image.avail - pos)

ReadTo(kept, n) ==
    /\ in_buf' = kept \o [k \in 1..Got(n) |-> pos + k - 1]
    /\ pos' = pos + Got(n)
    /\ fail' = (Got(n) < n)
    /\ remaining' = remaining - Got(n)
    /\ src' = Len(kept) + Got(n)
    /\ off' = 0

LoopOver == remaining = 0 /\ src = 0

Fill ==
    /\ pc = "fill"
    /\ err = "more" /\ ~LoopOver
    /\ IF src > 0
       THEN pc' = "decode" /\ UNCHANGED <<file, remaining, buffers>>
       ELSE IF Got(Min2(InBuf, remaining)) = 0
            THEN Return("false") /\ UNCHANGED <<file, remaining, buffers>>
            ELSE pc' = "decode" /\ ReadTo(<<>>, Min2(InBuf, remaining))
    /\ UNCHANGED <<image, pass, decoder, size, sent>>

\* Mutant of Kept: the bytes at the start of the buffer are kept.
KeptFirst == SubSeq(in_buf, 1, src)

\* The bytes not used yet, moved to the start of the buffer.
Kept == SubSeq(in_buf, off + 1, off + src)

Space == Min2(InBuf - src, remaining)

\* Mutant of Stuck: a full buffer is not looked at.
StuckAtEnd == remaining = 0

Stuck == remaining = 0 \/ Got(Space) = 0

\* The decoder waits for more: in_buf is filled up behind what it has not used.
Refill ==
    /\ IF Stuck
       THEN Return("false") /\ UNCHANGED <<file, remaining, buffers>>
       ELSE ReadTo(Kept, Space) /\ UNCHANGED pc
    /\ UNCHANGED <<image, pass, decoder, size, sent>>

-----------------------------------------------------------------------------
(* LZ4F_decompress: external.                                              *)

\* Whole units in the first n bytes of the frame.
WholeUnits(n) ==
    CHOOSE k \in 0..Len(Units) :
        /\ InOf(SubSeq(Units, 1, k)) <= n
        /\ k = Len(Units) \/ InOf(SubSeq(Units, 1, k + 1)) > n
OutAfter(n) == OutOf(SubSeq(Units, 1, WholeUnits(n)))
Spoiled(n) == \E k \in 1..WholeUnits(n) : Units[k].bad

\* It takes take bytes and gives give: no output before its block is read, none
\* left when the frame is finished.
MayDo(take, give) ==
    LET whole == SubSeq(Units, 1, WholeUnits(fed + take))
    IN  /\ fed + take <= FrameLen
        /\ made + give <= OutOf(whole)
        /\ fed + take = FrameLen => made + give = Total
        /\ \A k \in 1..Len(whole) : ~whole[k].bad
        /\ image.lazy => InOf(whole) = fed + take

\* It makes no progress only where the next unit is not there as a whole.
MayWait == image.lazy /\ made = OutAfter(fed) /\ WholeUnits(fed + src) = WholeUnits(fed)

InPlace == \A k \in 1..src : in_buf[off + k] = fed + k - 1

-----------------------------------------------------------------------------
Wait == pc = "decode" /\ src > 0 /\ MayWait /\ Refill

DecodeError ==
    /\ pc = "decode" /\ src > 0
    /\ ~InPlace \/ Spoiled(fed + src)
    /\ err' = "bad" /\ Return("false")
    /\ UNCHANGED <<image, pass, file, remaining, buffers, fed, made, size, sent>>

\* Behind a call: out of both loops when the frame is done.
After(take) == IF src = take \/ err' = "done" THEN "fill" ELSE "decode"

\* The scan counts, a flashing run sends a chunk, a check counts as well.
Deliver(give) ==
    IF pass = "scan"
    THEN size' = size + give /\ UNCHANGED sent
    ELSE sent' = sent + give /\ UNCHANGED size

Decode ==
    /\ pc = "decode" /\ src > 0
    /\ InPlace
    /\ \E take \in 0..src, give \in 0..OutBuf :
          /\ take + give > 0
          /\ MayDo(take, give)
          /\ fed' = fed + take /\ made' = made + give
          /\ err' = IF fed + take = FrameLen THEN "done" ELSE "more"
          /\ off' = off + take /\ src' = src - take
          /\ Deliver(give)
          /\ \/ pc' = After(take)
             \/ image.flash /\ pass = "send" /\ give > 0 /\ Return("false")   \* the chunk fails
    /\ UNCHANGED <<image, pass, file, remaining, in_buf>>

SizeOk == size # 0 => sent = size

LoopEnds ==
    /\ pc = "fill"
    /\ err = "done" \/ LoopOver
    /\ pc' = IF pass = "scan" THEN "rewind" ELSE IF SizeOk THEN "true" ELSE "false"
    /\ UNCHANGED <<image, pass, file, remaining, buffers, decoder, size, sent>>

Next ==
    \/ GetFrameInfo \/ Announce \/ Rewind
    \/ Fill \/ Wait \/ DecodeError \/ Decode \/ LoopEnds

Spec == Init /\ [][Next]_vars /\ WF_vars(Next)

-----------------------------------------------------------------------------
(* Properties.                                                             *)

\* The decoder is given every byte of the entry once and in order, through
\* all moves and refills of the buffer, and nothing that was not read.
FedInOrder == pc = "decode" /\ src > 0 => InPlace /\ fed + src = pos

\* No byte behind the entry is read: the position comes from what remains.
InsideEntry == pos <= image.size /\ pos + remaining = image.size

\* What is sent comes to the size announced, and to the whole image unless the
\* frame was cut behind its last block and has said its size itself.
WholeImageSent ==
    pc = "true" =>
        /\ sent = size \/ size = 0
        /\ sent = Total \/ (image.declared # 0 /\ image.size < FrameLen)

\* A sound frame is taken, whatever follows it and however the decoder and the
\* buffer cut it, if no exchange fails: a block need not fit in the buffer
\* unless the decoder waits for the whole of it.
Sound(m) ==
    /\ \A k \in 1..Len(m.units) : ~m.units[k].bad /\ (m.lazy => m.units[k].in <= InBuf)
    /\ m.units[1].in <= HeaderMax
    /\ m.size >= InOf(m.units) /\ m.avail >= m.size
    /\ m.declared \in {0, OutOf(m.units)}
SoundAccepted == Sound(image) /\ ~image.flash => pc # "false"

\* The loops end: a call of the decoder uses bytes, gives bytes, or is followed
\* by a read.
Ends == <>Ended
=============================================================================
