------------------------------- MODULE Lz4Frame -------------------------------
(***************************************************************************)
(* LZ4F_decompress: the decoder of LZ4 frames as a state machine that may  *)
(* be interrupted at every byte of its input and at every byte of its      *)
(* output.  A byte of output is known by its position in the content, so   *)
(* that a wrong history, a lost or a repeated byte shows.  How one block   *)
(* is decoded is the matter of Lz4Block.                                   *)
(***************************************************************************)
EXTENDS Integers, Sequences

CONSTANTS
    Frames,      \* the frames considered
    SrcSizes,    \* bytes a caller may give in one call
    DstSizes,    \* room a caller may give in one call
    Window,      \* 64 KB in the code
    MaxBlock,    \* maxBlockSize
    MinFH, MaxFH,              \* minFHSize 7, maxFHSize 19
    SizeField, IdField,        \* contentSize 8, dictID 4
    BHSize, CrcSize,           \* 4 and 4
    SFrameHead, SFrameMagic    \* 8 and 4: head of a skippable frame, its magic

(***************************************************************************)
(* A frame is [skip, linked, bcrc, ccrc, told, id, csize, blocks, good,    *)
(* ccrc_ok].  For a skippable frame csize is the number of bytes to skip;  *)
(* else it is contentSize, 0 if it is not told or told to be 0: the two    *)
(* differ in nothing but the length of the header.  id says that it names  *)
(* a dictionary.  A block is [raw, in, out, good, crc_ok]; good tells that *)
(* it, or the header of the frame, can be decoded.  A raw block is its own *)
(* content.                                                                *)
(***************************************************************************)
SizesAssumption ==
    /\ SFrameHead \in Nat /\ SFrameMagic \in Nat
    /\ {Window, MaxBlock, MinFH, MaxFH, SizeField, IdField, BHSize, CrcSize} \subseteq Nat \ {0}
    /\ Window <= MaxBlock /\ MinFH + SizeField + IdField <= MaxFH
    /\ SFrameMagic < MinFH /\ MinFH < SFrameHead
FramesAssumption ==
    \A f \in Frames :
        /\ {f.skip, f.linked, f.bcrc, f.ccrc, f.told, f.id, f.good, f.ccrc_ok} \subseteq BOOLEAN
        /\ f.csize \in Nat /\ (~f.skip /\ ~f.told => f.csize = 0)
        /\ f.blocks \in Seq([raw : BOOLEAN, in : Nat, out : Nat, good : BOOLEAN, crc_ok : BOOLEAN])
        /\ \A k \in 1..Len(f.blocks) :
              f.blocks[k].raw => f.blocks[k].good /\ f.blocks[k].out = f.blocks[k].in
CallsAssumption == SrcSizes \subseteq Nat /\ DstSizes \subseteq Nat \ {0}

VARIABLES
    frame,    \* the frame, from Frames
    pc,       \* "idle" between calls, "stage", "return", "done" or "error"
    ctx,      \* the decompression context
    at,       \* bytes of the frame used
    blk,      \* blocks whose header was read
    made,     \* bytes of the content given out
    call      \* the call: [src, room, dst, from, hint]

vars == <<frame, pc, ctx, at, blk, made, call>>

Garbage == -1
Min2(a, b) == IF a < b THEN a ELSE b
Span(from, n) == [k \in 1..n |-> from + k - 1]
BufferNeeded == MaxBlock + IF frame.linked THEN 2 * Window ELSE 0
Block == frame.blocks[blk]
HeaderLen ==
    MinFH + (IF frame.told THEN SizeField ELSE 0) + (IF frame.id THEN IdField ELSE 0)
Crc(flag) == IF flag THEN CrcSize ELSE 0

NoDict == [where |-> "none", off |-> 0, size |-> 0]

\* LZ4F_resetDecompressionContext.
Reset(c) == [c EXCEPT !.stage = "getFrameHeader", !.left = 0, !.dict = NoDict]

Init ==
    /\ frame \in Frames
    /\ pc = "idle"
    /\ ctx = [stage |-> "getFrameHeader", inSize |-> 0, inTarget |-> 0, left |-> 0,
              tmp |-> <<>>, off |-> 0, outStart |-> 0, outSize |-> 0, dict |-> NoDict]
    /\ at = 0 /\ blk = 0 /\ made = 0
    /\ call = [src |-> 0, room |-> 0, dst |-> <<>>, from |-> 0, hint |-> 1]

-----------------------------------------------------------------------------
(* The frame as it should be read.                                         *)

DataLen(b) == b.in + Crc(frame.bcrc)
FrameLen ==
    LET upto[k \in 0..Len(frame.blocks)] ==
            IF k = 0 THEN HeaderLen ELSE upto[k - 1] + BHSize + DataLen(frame.blocks[k])
    IN  IF frame.skip THEN SFrameHead + frame.csize
        ELSE upto[Len(frame.blocks)] + BHSize + Crc(frame.ccrc)
Total ==
    LET upto[k \in 0..Len(frame.blocks)] == IF k = 0 THEN 0 ELSE upto[k - 1] + frame.blocks[k].out
    IN  upto[Len(frame.blocks)]

BadBlock(b) ==
    \/ b.in > MaxBlock \/ ~b.good \/ b.out > MaxBlock
    \/ frame.bcrc /\ ~b.crc_ok
Faulty ==
    /\ ~frame.skip
    /\ \/ ~frame.good
       \/ \E k \in 1..Len(frame.blocks) : BadBlock(frame.blocks[k])
       \/ frame.csize # 0 /\ frame.csize # Total
       \/ frame.ccrc /\ ~frame.ccrc_ok

-----------------------------------------------------------------------------
(* Steps of a call.                                                        *)

At(stage) == pc = "stage" /\ ctx.stage = stage
Use(n) == at' = at + n
Rest(n) == [call EXCEPT !.src = call.src - n]
Stay == UNCHANGED <<frame, blk, made>>

\* doAnotherStage stays set.
Onward == pc' = "stage"

\* Mutant of Ask: doAnotherStage is not cleared.
AskForgotten == pc' = "stage"

\* Input is missing: the call ends, with a hint of how much.
Ask == pc' = "return"

\* The decoder is entered with n bytes and room for cap; dst is new each time.
Call(n, cap) ==
    /\ pc = "idle"
    /\ n <= FrameLen - at
    /\ call' = [src |-> n, room |-> cap, dst |-> <<>>, from |-> at, hint |-> 1]
    /\ pc' = "stage"
    /\ UNCHANGED <<frame, ctx, at, blk, made>>

\* Bytes put into header or tmpIn until inTarget are there.
Stored == Min2(ctx.inTarget - ctx.inSize, call.src)
Complete == ctx.inSize + Stored = ctx.inTarget

Store(stage, then) ==
    /\ At(stage)
    /\ Use(Stored) /\ call' = Rest(Stored)
    /\ IF Complete THEN then ELSE Ask /\ ctx' = [ctx EXCEPT !.inSize = @ + Stored]
    /\ Stay

StoreFrom(stage, target) == [ctx EXCEPT !.stage = stage, !.inSize = 0, !.inTarget = target]

-----------------------------------------------------------------------------
(* Headers: LZ4F_decodeHeader.                                             *)

HeaderDone(c) == [c EXCEPT !.stage = "init", !.left = frame.csize]

\* LZ4F_headerSize: what the first bytes tell of the length of the header.
HeadSize == IF frame.skip THEN SFrameHead ELSE HeaderLen

\* LZ4F_getFrameInfo reads a header that is there as a whole.  With less
\* than that it changes nothing; it is not called behind the header.
GetFrameInfo(n) ==
    /\ pc = "idle" /\ ctx.stage = "getFrameHeader"
    /\ n >= HeadSize /\ n <= FrameLen
    /\ at' = IF frame.skip THEN SFrameMagic ELSE IF frame.good THEN HeaderLen ELSE 0
    /\ ctx' = IF frame.skip THEN [ctx EXCEPT !.stage = "getSFrameSize"]
              ELSE IF frame.good THEN HeaderDone(ctx) ELSE ctx
    /\ pc' = IF frame.skip \/ frame.good THEN "idle" ELSE "error"
    /\ UNCHANGED <<frame, blk, made, call>>

GetFrameHeader ==
    /\ At("getFrameHeader")
    /\ Stay
    /\ IF call.src >= MaxFH
       THEN IF frame.skip
            THEN /\ Use(SFrameMagic) /\ call' = Rest(SFrameMagic)
                 /\ ctx' = [ctx EXCEPT !.stage = "getSFrameSize"] /\ Onward
            ELSE IF frame.good
            THEN Use(HeaderLen) /\ call' = Rest(HeaderLen) /\ ctx' = HeaderDone(ctx) /\ Onward
            ELSE pc' = "error" /\ UNCHANGED <<ctx, at, call>>
       ELSE /\ UNCHANGED <<at, call>>
            /\ IF call.src = 0 THEN Ask /\ UNCHANGED ctx
               ELSE Onward /\ ctx' = StoreFrom("storeFrameHeader", MinFH)

StoreFrameHeader ==
    Store("storeFrameHeader",
        IF frame.skip
        THEN ctx' = [ctx EXCEPT !.stage = "storeSFrameSize", !.inSize = ctx.inTarget, !.inTarget = SFrameHead] /\ Onward
        ELSE IF ctx.inTarget < HeaderLen
        THEN ctx' = [ctx EXCEPT !.inSize = ctx.inTarget, !.inTarget = HeaderLen] /\ Onward
        ELSE IF frame.good THEN ctx' = HeaderDone(ctx) /\ Onward
        ELSE pc' = "error" /\ UNCHANGED ctx)

\* The buffers are made anew if they are too small, which may fail.
InitBlocks ==
    /\ At("init")
    /\ \/ /\ Onward
          /\ ctx' = [ctx EXCEPT !.stage = "getBlockHeader", !.inSize = 0, !.inTarget = 0,
                !.tmp = IF Len(@) < BufferNeeded THEN [k \in 1..BufferNeeded |-> Garbage] ELSE @,
                !.off = 0, !.outStart = 0, !.outSize = 0]
       \/ Len(ctx.tmp) < BufferNeeded /\ pc' = "error" /\ UNCHANGED ctx
    /\ UNCHANGED <<at, call>> /\ Stay

GetSFrameSize ==
    /\ At("getSFrameSize")
    /\ Stay /\ Onward
    /\ LET size == SFrameHead - SFrameMagic
       IN  IF call.src >= size
           THEN /\ Use(size) /\ call' = Rest(size)
                /\ ctx' = [ctx EXCEPT !.stage = "skipSkippable", !.inTarget = frame.csize]
           ELSE /\ UNCHANGED <<at, call>>
                /\ ctx' = [ctx EXCEPT !.stage = "storeSFrameSize", !.inSize = SFrameMagic, !.inTarget = SFrameHead]

StoreSFrameSize ==
    Store("storeSFrameSize",
        ctx' = [ctx EXCEPT !.stage = "skipSkippable", !.inTarget = frame.csize] /\ Onward)

SkipSkippable ==
    /\ At("skipSkippable")
    /\ LET n == Min2(ctx.inTarget, call.src)
       IN  /\ Use(n)
           /\ IF n = ctx.inTarget
              THEN ctx' = Reset(ctx) /\ call' = [Rest(n) EXCEPT !.hint = 0]
              ELSE ctx' = [ctx EXCEPT !.inTarget = @ - n] /\ call' = Rest(n)
    /\ Ask /\ Stay

-----------------------------------------------------------------------------
(* Block headers and checksums.                                            *)

\* What the header of the next block, read with src bytes left, leads to.
DecodeBlockHeader(src) ==
    /\ UNCHANGED <<frame, made>>
    /\ IF blk = Len(frame.blocks)
       THEN Onward /\ ctx' = [ctx EXCEPT !.stage = "getSuffix"] /\ UNCHANGED blk
       ELSE /\ blk' = blk + 1
            /\ LET b == frame.blocks[blk + 1]
               IN  IF b.in > MaxBlock THEN pc' = "error" /\ UNCHANGED ctx
                   ELSE IF b.raw
                   THEN Onward /\ ctx' = [ctx EXCEPT !.stage = "copyDirect", !.inTarget = b.in]
                   ELSE /\ ctx' = [ctx EXCEPT !.stage = "getCBlock", !.inTarget = DataLen(b)]
                        /\ IF call.room = 0 \/ src = 0 THEN Ask ELSE Onward

GetBlockHeader ==
    /\ At("getBlockHeader")
    /\ IF call.src >= BHSize
       THEN Use(BHSize) /\ call' = Rest(BHSize) /\ DecodeBlockHeader(call.src - BHSize)
       ELSE Onward /\ ctx' = StoreFrom("storeBlockHeader", BHSize) /\ UNCHANGED <<at, call>> /\ Stay

StoreBlockHeader ==
    /\ At("storeBlockHeader")
    /\ Use(Stored) /\ call' = Rest(Stored)
    /\ IF Complete THEN DecodeBlockHeader(call.src - Stored)
       ELSE Ask /\ ctx' = [ctx EXCEPT !.inSize = @ + Stored] /\ Stay

\* Behind an uncompressed block, from the input or from header.
GetBlockChecksum ==
    /\ At("getBlockChecksum")
    /\ LET n == Min2(CrcSize - ctx.inSize, call.src)
       IN  /\ Use(n) /\ call' = Rest(n)
           /\ IF ctx.inSize + n < CrcSize THEN Ask /\ ctx' = [ctx EXCEPT !.inSize = @ + n]
              ELSE IF Block.crc_ok THEN Onward /\ ctx' = [ctx EXCEPT !.stage = "getBlockHeader"]
              ELSE pc' = "error" /\ UNCHANGED ctx
    /\ Stay

EndOfFrame ==
    IF frame.ccrc => frame.ccrc_ok
    THEN Ask /\ ctx' = Reset(ctx)
    ELSE pc' = "error" /\ UNCHANGED ctx

LeftOver == ctx.left # 0

GetSuffix ==
    /\ At("getSuffix")
    /\ Stay
    /\ IF LeftOver THEN pc' = "error" /\ UNCHANGED <<ctx, at, call>>
       ELSE IF call.src >= Crc(frame.ccrc)
       THEN Use(Crc(frame.ccrc)) /\ call' = [Rest(Crc(frame.ccrc)) EXCEPT !.hint = 0] /\ EndOfFrame
       ELSE Onward /\ ctx' = StoreFrom("storeSuffix", CrcSize) /\ UNCHANGED <<at, call>>

StoreSuffix ==
    /\ At("storeSuffix")
    /\ Use(Stored)
    /\ call' = IF Complete THEN [Rest(Stored) EXCEPT !.hint = 0] ELSE Rest(Stored)
    /\ IF Complete THEN EndOfFrame ELSE Ask /\ ctx' = [ctx EXCEPT !.inSize = @ + Stored]
    /\ Stay

-----------------------------------------------------------------------------
(* The history of linked blocks: dict tells where it is, in the caller's   *)
(* buffer or at the start of tmp.                                          *)

\* n bytes up to end of the buffer dict is in.
DictBytes(c, dst, end, n) ==
    LET buf == IF c.dict.where = "tmp" THEN c.tmp ELSE dst
    IN  [k \in 1..n |-> IF end - n + k \in 1..Len(buf) THEN buf[end - n + k] ELSE Garbage]

\* tmp with bytes put in from position to on.
Put(tmp, to, bytes) ==
    [k \in 1..Len(tmp) |-> IF k - to \in 1..Len(bytes) THEN bytes[k - to] ELSE tmp[k]]

InTmp(c, size) == [c EXCEPT !.dict = [where |-> "tmp", off |-> 0, size |-> size]]
DictEnd(c) == c.dict.off + c.dict.size

\* Mutant of CopySize: the output still in tmp is not counted.
CopySizeWindow(c) == Min2(c.off, IF c.outSize > 0 THEN 0 ELSE Window)

\* How much history is copied in front of a block decoded into tmp.
CopySize(c) == Min2(c.off, IF c.outSize > Window THEN 0 ELSE Window - c.outSize)

InFrontOfTmp(c, dst) ==
    [c EXCEPT !.tmp = Put(@, c.off - CopySize(c), DictBytes(c, dst, DictEnd(c) - c.outStart, CopySize(c)))]

\* History in tmp that cannot take n bytes more is cut to what is still needed.
Saved(c, n) ==
    IF c.dict.size + n > Len(c.tmp)
    THEN InTmp([c EXCEPT !.tmp = Put(@, 0, DictBytes(c, <<>>, c.dict.size, Window - n))], Window - n)
    ELSE c

\* LZ4F_updateDict, after n bytes were written to dst, which now ends with them.
Updated(c, dst, n, withinTmp) ==
    LET d == Len(dst) - n
        new == SubSeq(dst, d + 1, Len(dst))
        c0 == IF c.dict.size = 0 THEN [c EXCEPT !.dict = [where |-> "dst", off |-> d, size |-> 0]] ELSE c
        kept == Min2(Window - n, c0.dict.size)
    IN  CASE c0.dict.where = "dst" /\ DictEnd(c0) = d -> [c0 EXCEPT !.dict.size = @ + n]
          [] ~(c0.dict.where = "dst" /\ DictEnd(c0) = d) /\ d + n >= Window ->
                [c0 EXCEPT !.dict = [where |-> "dst", off |-> 0, size |-> d + n]]
          [] OTHER ->
                IF withinTmp
                THEN IF c0.dict.where = "tmp" THEN InTmp(c0, c0.dict.size + n)
                     ELSE InTmp(InFrontOfTmp(c0, dst), c0.off + c0.outStart + n)
                ELSE IF c0.dict.where = "tmp"
                THEN LET s == Saved(c0, n)
                     IN  InTmp([s EXCEPT !.tmp = Put(@, s.dict.size, new)], s.dict.size + n)
                ELSE InTmp([c0 EXCEPT !.tmp = Put(@, 0, DictBytes(c0, dst, DictEnd(c0), kept) \o new)], kept + n)

History(c, dst, n, withinTmp) == IF frame.linked THEN Updated(c, dst, n, withinTmp) ELSE c

\* The dictionary holds the content that matches of the next block may refer to.
HistoryOk(c) ==
    LET n == Min2(Window, made)
    IN  frame.linked => c.dict.size >= n /\ DictBytes(c, call.dst, DictEnd(c), n) = Span(made - n, n)

Decoded(c) == IF HistoryOk(c) THEN Span(made, Block.out) ELSE [k \in 1..Block.out |-> Garbage]

-----------------------------------------------------------------------------
(* Block data.                                                             *)

Told(n) == IF frame.csize # 0 THEN ctx.left - n ELSE ctx.left

CopyDirect ==
    /\ At("copyDirect")
    /\ LET n == Min2(ctx.inTarget, Min2(call.src, call.room))
           dst == call.dst \o Span(made, n)
           c == [History(ctx, dst, n, FALSE) EXCEPT !.left = Told(n)]
       IN  /\ Use(n) /\ made' = made + n
           /\ call' = [Rest(n) EXCEPT !.dst = dst, !.room = @ - n]
           /\ IF n = ctx.inTarget
              THEN /\ Onward
                   /\ ctx' = [c EXCEPT !.stage = IF frame.bcrc THEN "getBlockChecksum" ELSE "getBlockHeader",
                                       !.inSize = IF frame.bcrc THEN 0 ELSE @]
              ELSE Ask /\ ctx' = [c EXCEPT !.inTarget = @ - n]
    /\ UNCHANGED <<frame, blk>>

\* There is room for a whole block, and the history is not in front of tmpOut.
Direct == call.room >= MaxBlock /\ ~(ctx.dict.where = "tmp" /\ ctx.dict.size = ctx.off)

DecodeDirect ==
    LET dst == call.dst \o Decoded(ctx)
    IN  /\ ctx' = [History(ctx, dst, Block.out, FALSE) EXCEPT !.left = Told(Block.out), !.stage = "getBlockHeader"]
        /\ made' = made + Block.out

\* Mutant of Truncated: history in tmp is never cut.
TruncatedNever == [ctx EXCEPT !.off = IF ctx.dict.where = "tmp" THEN ctx.dict.size ELSE Min2(ctx.dict.size, Window)]

\* Where in tmp the block goes, behind the history or the place for it.
Truncated ==
    IF ~frame.linked THEN ctx
    ELSE IF ctx.dict.where # "tmp" THEN [ctx EXCEPT !.off = Min2(ctx.dict.size, Window)]
    ELSE IF ctx.dict.size > 2 * Window
    THEN InTmp([ctx EXCEPT !.off = Window, !.tmp = Put(@, 0, DictBytes(ctx, <<>>, ctx.dict.size, Window))], Window)
    ELSE [ctx EXCEPT !.off = ctx.dict.size]

\* All of the room a block may need is overwritten.
DecodeIntoTmp ==
    LET clean == [k \in 1..MaxBlock |-> IF k <= Block.out THEN Decoded(Truncated)[k] ELSE Garbage]
    IN  /\ ctx' = [Truncated EXCEPT !.tmp = Put(@, Truncated.off, clean), !.left = Told(Block.out),
                                    !.outSize = Block.out, !.outStart = 0, !.stage = "flushOut"]
        /\ UNCHANGED made

\* The block is there; src bytes of the input have been used for it.
DecodeBlock(src) ==
    /\ Use(src)
    /\ IF BadBlock(Block) THEN pc' = "error" /\ call' = Rest(src) /\ UNCHANGED <<ctx, made>>
       ELSE /\ Onward
            /\ IF Direct
               THEN DecodeDirect /\ call' = [Rest(src) EXCEPT !.dst = @ \o Decoded(ctx), !.room = @ - Block.out]
               ELSE DecodeIntoTmp /\ call' = Rest(src)
    /\ UNCHANGED <<frame, blk>>

GetCBlock ==
    /\ At("getCBlock")
    /\ IF call.src >= ctx.inTarget THEN DecodeBlock(ctx.inTarget)
       ELSE Onward /\ ctx' = [ctx EXCEPT !.stage = "storeCBlock", !.inSize = 0] /\ UNCHANGED <<at, call>> /\ Stay

StoreCBlock ==
    /\ At("storeCBlock")
    /\ IF Complete THEN DecodeBlock(Stored)
       ELSE Use(Stored) /\ call' = Rest(Stored) /\ Ask /\ ctx' = [ctx EXCEPT !.inSize = @ + Stored] /\ Stay

FlushOut ==
    /\ At("flushOut")
    /\ LET n == Min2(ctx.outSize - ctx.outStart, call.room)
           dst == call.dst \o SubSeq(ctx.tmp, ctx.off + ctx.outStart + 1, ctx.off + ctx.outStart + n)
           c == [History(ctx, dst, n, TRUE) EXCEPT !.outStart = @ + n]
       IN  /\ made' = made + n
           /\ call' = [call EXCEPT !.dst = dst, !.room = @ - n]
           /\ IF c.outStart = c.outSize
              THEN Onward /\ ctx' = [c EXCEPT !.stage = "getBlockHeader"]
              ELSE Ask /\ ctx' = c
    /\ UNCHANGED <<frame, at, blk>>

-----------------------------------------------------------------------------
(* The end of a call.                                                      *)

BlockStages == {"init", "getBlockHeader", "storeBlockHeader", "copyDirect", "getBlockChecksum",
    "getCBlock", "storeCBlock", "flushOut"}

\* The caller's buffer will be used again: history in it moves to tmp.
Preserved ==
    LET n == Min2(ctx.dict.size, Window)
    IN  IF ctx.stage = "flushOut"
        THEN InTmp(InFrontOfTmp(ctx, call.dst), ctx.off + ctx.outStart)
        ELSE InTmp([ctx EXCEPT !.tmp = Put(@, 0, DictBytes(ctx, call.dst, DictEnd(ctx), n)), !.off = n], n)

Return ==
    /\ pc = "return"
    /\ ctx' = IF frame.linked /\ ctx.dict.where = "dst" /\ ctx.stage \in BlockStages THEN Preserved ELSE ctx
    /\ call' = [call EXCEPT !.dst = <<>>, !.src = 0, !.room = 0]
    /\ pc' = IF call.hint = 0 THEN "done" ELSE "idle"
    /\ UNCHANGED <<frame, at, blk, made>>

Step ==
    \/ GetFrameHeader \/ StoreFrameHeader \/ InitBlocks
    \/ GetSFrameSize \/ StoreSFrameSize \/ SkipSkippable
    \/ GetBlockHeader \/ StoreBlockHeader \/ GetBlockChecksum
    \/ CopyDirect \/ GetCBlock \/ StoreCBlock \/ FlushOut
    \/ GetSuffix \/ StoreSuffix \/ Return

Next == Step \/ \E n \in SrcSizes : GetFrameInfo(n) \/ \E cap \in DstSizes : Call(n, cap)

\* A call runs to its end; whether there is another one is up to the caller.
Spec == Init /\ [][Next]_vars /\ WF_vars(Step)

-----------------------------------------------------------------------------
(* Properties.                                                             *)

TypeOK ==
    /\ pc \in {"idle", "stage", "return", "done", "error"}
    /\ at \in 0..FrameLen /\ blk \in 0..Len(frame.blocks)
    /\ call.src >= 0 /\ call.room >= 0
    /\ ctx.inSize <= ctx.inTarget \/ ctx.stage \notin {"storeFrameHeader", "storeCBlock", "storeSuffix"}
    /\ ctx.dict.where = "none" => ctx.dict.size = 0

\* Every byte given out is the next byte of the content, however calls cut the
\* frame and its output: no history is lost between blocks and between calls.
OutputInOrder ==
    \A k \in 1..Len(call.dst) : call.dst[k] = made - Len(call.dst) + k - 1

\* The output of a block never reaches beyond tmp, nor does the history.
InsideTmp ==
    /\ ctx.stage = "flushOut" => ctx.off + MaxBlock <= Len(ctx.tmp)
    /\ ctx.dict.where = "tmp" => ctx.dict.size <= Len(ctx.tmp)

\* The decoder finishes with the last byte of a frame that is in order, and
\* gives an error only if it is not or memory is missing.
FrameExact ==
    /\ pc = "done" => ~Faulty /\ at = FrameLen /\ (~frame.skip => made = Total)
    /\ pc = "error" => Faulty \/ ctx.stage = "init"

\* A call that is given bytes and room uses some, gives some or finishes: the
\* caller need not offer the bytes it has left together with more.
EachCallProgresses ==
    [][pc = "return" /\ pc' = "idle" => at > call.from \/ call.dst # <<>> \/ call.src = 0]_vars

\* A frame is done with no dictionary left over for the next one.
LeavesNoHistory == pc = "done" => ctx.dict = NoDict

\* Every call returns.
CallsReturn == pc = "stage" ~> pc # "stage"
=============================================================================
