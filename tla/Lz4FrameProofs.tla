----------------------------- MODULE Lz4FrameProofs -----------------------------
(***************************************************************************)
(* LZ4F_decompress: every byte given out is the next byte of the content,  *)
(* wherever the calls cut the frame and the output, and whatever becomes   *)
(* of the buffer of the caller between two calls.                          *)
(*                                                                         *)
(* The invariant has three parts.  PlaceOf says for every stage where in   *)
(* the frame the decoder is.  MemoryOf says what is in its buffers: in     *)
(* front of the next block lies the content that matches of it may refer   *)
(* to, or, while a block is given out of tmp, the block itself and behind  *)
(* it in time the history that it pushes out.  CallsOf says what a call    *)
(* finds and leaves.  Most steps leave the buffers alone; those that give  *)
(* output go through LZ4F_updateDict, whose cases are proved first.        *)
(***************************************************************************)
EXTENDS Lz4Images, SequenceTheorems, Inductions, TLAPS

-----------------------------------------------------------------------------
(* The blocks of a frame.                                                  *)

FramesOk == Frm!SizesAssumption /\ Frm!FramesAssumption /\ Frm!CallsAssumption

Bits(flag) == IF flag THEN CrcSize ELSE 0
HeadOf(f) == MinFH + (IF f.told THEN SizeField ELSE 0) + (IF f.id THEN IdField ELSE 0)
DataOf(f, b) == b.in + Bits(f.bcrc)

\* Where each block of the frame ends, and how much content there is up to it.
EndsOf(f) ==
    LET upto[k \in 0..Len(f.blocks)] ==
            IF k = 0 THEN HeadOf(f) ELSE upto[k - 1] + BHSize + DataOf(f, f.blocks[k])
    IN  upto
GivenOf(f) ==
    LET upto[k \in 0..Len(f.blocks)] == IF k = 0 THEN 0 ELSE upto[k - 1] + f.blocks[k].out
    IN  upto

FrameEnd(f) ==
    IF f.skip THEN SFrameHead + f.csize
    ELSE EndsOf(f)[Len(f.blocks)] + BHSize + Bits(f.ccrc)
ContentOf(f) == GivenOf(f)[Len(f.blocks)]
BadOf(f, b) == b.in > MaxBlock \/ ~b.good \/ b.out > MaxBlock \/ (f.bcrc /\ ~b.crc_ok)
FaultyFrame(f) ==
    /\ ~f.skip
    /\ \/ ~f.good
       \/ \E k \in 1..Len(f.blocks) : BadOf(f, f.blocks[k])
       \/ f.csize # 0 /\ f.csize # ContentOf(f)
       \/ f.ccrc /\ ~f.ccrc_ok

\* These are what the decoder is compared with.
LEMMA SameNames ==
    /\ Frm!FrameLen = FrameEnd(frame) /\ Frm!Total = ContentOf(frame)
    /\ Frm!Faulty <=> FaultyFrame(frame)
    /\ \A b : Frm!BadBlock(b) <=> BadOf(frame, b)
    /\ Frm!HeaderLen = HeadOf(frame)
    /\ \A b : Frm!DataLen(b) = DataOf(frame, b)
    /\ \A flag : Frm!Crc(flag) = Bits(flag)
  <1>1. Frm!FrameLen = FrameEnd(frame)
    BY DEF Frm!FrameLen, FrameEnd, EndsOf, HeadOf, DataOf, Bits, Frm!HeaderLen, Frm!DataLen, Frm!Crc
  <1>2. Frm!Total = ContentOf(frame)
    BY DEF Frm!Total, ContentOf, GivenOf
  <1>3. \A b : Frm!BadBlock(b) <=> BadOf(frame, b)
    BY DEF Frm!BadBlock, BadOf
  <1>4. Frm!Faulty <=> FaultyFrame(frame)
    BY <1>2, <1>3 DEF Frm!Faulty, FaultyFrame
  <1>5. /\ Frm!HeaderLen = HeadOf(frame)
        /\ \A b : Frm!DataLen(b) = DataOf(frame, b)
        /\ \A flag : Frm!Crc(flag) = Bits(flag)
    BY DEF Frm!HeaderLen, HeadOf, Frm!DataLen, DataOf, Frm!Crc, Bits
  <1>6. QED  BY <1>1, <1>2, <1>3, <1>4, <1>5

Sizes ==
    /\ Window \in Nat /\ MaxBlock \in Nat /\ MinFH \in Nat /\ MaxFH \in Nat /\ SizeField \in Nat
    /\ IdField \in Nat /\ BHSize \in Nat /\ CrcSize \in Nat /\ SFrameHead \in Nat /\ SFrameMagic \in Nat
    /\ Window > 0 /\ Window <= MaxBlock /\ MinFH > 0 /\ BHSize > 0 /\ CrcSize > 0
    /\ MinFH + SizeField + IdField <= MaxFH /\ SFrameMagic < MinFH /\ MinFH < SFrameHead

Flags(f) ==
    /\ f.skip \in BOOLEAN /\ f.linked \in BOOLEAN /\ f.bcrc \in BOOLEAN /\ f.ccrc \in BOOLEAN
    /\ f.told \in BOOLEAN /\ f.id \in BOOLEAN
    /\ f.good \in BOOLEAN /\ f.ccrc_ok \in BOOLEAN /\ f.csize \in Nat

LEMMA SizesAre ==
    ASSUME FramesOk PROVE Sizes
  <1> DEFINE S == {Window, MaxBlock, MinFH, MaxFH, SizeField, IdField, BHSize, CrcSize}
  <1>1. S \subseteq Nat \ {0}
    BY DEF FramesOk, Frm!SizesAssumption
  <1>2. /\ Window \in S /\ MaxBlock \in S /\ MinFH \in S /\ MaxFH \in S /\ SizeField \in S
        /\ IdField \in S /\ BHSize \in S /\ CrcSize \in S
    OBVIOUS
  <1>3. /\ Window \in Nat \ {0} /\ MaxBlock \in Nat \ {0} /\ MinFH \in Nat \ {0}
        /\ MaxFH \in Nat \ {0} /\ SizeField \in Nat \ {0} /\ IdField \in Nat \ {0}
        /\ BHSize \in Nat \ {0}
        /\ CrcSize \in Nat \ {0}
    <2> HIDE DEF S
    <2>1. QED  BY <1>1, <1>2
  <1>4. /\ SFrameHead \in Nat /\ SFrameMagic \in Nat
        /\ Window <= MaxBlock /\ MinFH + SizeField + IdField <= MaxFH
        /\ SFrameMagic < MinFH /\ MinFH < SFrameHead
    BY DEF FramesOk, Frm!SizesAssumption
  <1>5. QED  BY <1>3, <1>4 DEF Sizes

LEMMA BlocksAre ==
    ASSUME FramesOk, NEW f \in Frames
    PROVE  /\ Flags(f) /\ Len(f.blocks) \in Nat
           /\ HeadOf(f) \in Nat /\ HeadOf(f) >= MinFH /\ HeadOf(f) <= MaxFH
           /\ \A k \in 1..Len(f.blocks) :
                /\ f.blocks[k].in \in Nat /\ f.blocks[k].out \in Nat
                /\ f.blocks[k].raw \in BOOLEAN /\ f.blocks[k].good \in BOOLEAN
                /\ f.blocks[k].crc_ok \in BOOLEAN
                /\ DataOf(f, f.blocks[k]) \in Nat
                /\ f.blocks[k].raw => f.blocks[k].good /\ f.blocks[k].out = f.blocks[k].in
  <1>1. Sizes
    BY SizesAre
  <1>2. Flags(f)
    BY DEF FramesOk, Frm!FramesAssumption, Flags
  <1> DEFINE Kind == [raw : BOOLEAN, in : Nat, out : Nat, good : BOOLEAN, crc_ok : BOOLEAN]
  <1>3. f.blocks \in Seq(Kind)
    BY DEF FramesOk, Frm!FramesAssumption
  <1>4. \A k \in 1..Len(f.blocks) :
            f.blocks[k].raw => f.blocks[k].good /\ f.blocks[k].out = f.blocks[k].in
    BY DEF FramesOk, Frm!FramesAssumption
  <1>5. Len(f.blocks) \in Nat /\ \A k \in 1..Len(f.blocks) : f.blocks[k] \in Kind
    <2> HIDE DEF Kind
    <2>1. QED  BY <1>3, ElementOfSeq, LenProperties
  <1>6. \A k \in 1..Len(f.blocks) :
                /\ f.blocks[k].in \in Nat /\ f.blocks[k].out \in Nat
                /\ f.blocks[k].raw \in BOOLEAN /\ f.blocks[k].good \in BOOLEAN
                /\ f.blocks[k].crc_ok \in BOOLEAN
    BY <1>5
  <1>7. \A k \in 1..Len(f.blocks) : DataOf(f, f.blocks[k]) \in Nat
    BY <1>1, <1>6 DEF DataOf, Bits, Sizes
  <1>8. HeadOf(f) \in Nat /\ HeadOf(f) >= MinFH /\ HeadOf(f) <= MaxFH
    BY <1>1, <1>2 DEF HeadOf, Sizes, Flags
  <1>9. QED  BY <1>2, <1>4, <1>5, <1>6, <1>7, <1>8

LEMMA EndsFollow ==
    ASSUME FramesOk, NEW f \in Frames
    PROVE  /\ EndsOf(f)[0] = HeadOf(f)
           /\ \A k \in 0..Len(f.blocks) : EndsOf(f)[k] \in Nat
           /\ \A k \in 1..Len(f.blocks) :
                EndsOf(f)[k] = EndsOf(f)[k - 1] + BHSize + DataOf(f, f.blocks[k])
  <1> DEFINE N == Len(f.blocks)
             a == [k \in 1..N |-> BHSize + DataOf(f, f.blocks[k])]
             h == HeadOf(f)
             g == EndsOf(f)
  <1>1. N \in Nat /\ h \in Nat /\ BHSize \in Nat /\ \A k \in 1..N : DataOf(f, f.blocks[k]) \in Nat
    BY BlocksAre, SizesAre DEF Sizes
  <1>2. a \in [1..N -> Nat] /\ \A k \in 1..N : a[k] = BHSize + DataOf(f, f.blocks[k])
    BY <1>1
  <1>3. PICK t : Totals(t, N, a)
    <2> HIDE DEF N, a
    <2>1. QED  BY <1>1, <1>2, TotalsExist
  <1> DEFINE F == [k \in 0..N |-> h + t[k]]
  <1>4. /\ F[0] = h
        /\ \A k \in 0..N : F[k] \in Nat
        /\ \A k \in 1..N : F[k] = F[k - 1] + BHSize + DataOf(f, f.blocks[k])
    <2> HIDE DEF N, a, h
    <2>1. t[0] = 0 /\ \A k \in 0..N : t[k] \in Nat
      BY <1>3 DEF Totals
    <2>2. ASSUME NEW k \in 1..N PROVE F[k] = F[k - 1] + BHSize + DataOf(f, f.blocks[k])
      <3>1. k \in 0..N /\ k - 1 \in 0..N
        BY <1>1
      <3>2. t[k] = t[k - 1] + a[k] /\ a[k] = BHSize + DataOf(f, f.blocks[k])
        BY <1>2, <1>3 DEF Totals
      <3>3. F[k] = h + t[k] /\ F[k - 1] = h + t[k - 1] /\ t[k - 1] \in Nat
            /\ DataOf(f, f.blocks[k]) \in Nat
        BY <1>1, <2>1, <3>1
      <3>4. h \in Nat /\ BHSize \in Nat
        BY <1>1
      <3> DEFINE d == DataOf(f, f.blocks[k])
      <3>5. d \in Nat /\ t[k] = t[k - 1] + (BHSize + d)
        BY <3>2, <3>3
      <3> HIDE DEF F, d
      <3>6. F[k] = F[k - 1] + BHSize + d
        BY <3>3, <3>4, <3>5
      <3>7. QED  BY <3>6 DEF d
    <2>3. F[0] = h + 0 /\ \A k \in 0..N : F[k] = h + t[k]
      BY <1>1, <2>1
    <2> HIDE DEF F
    <2>4. F[0] = h /\ \A k \in 0..N : F[k] \in Nat
      BY <1>1, <2>1, <2>3
    <2>5. QED  BY <2>2, <2>4
  <1>5. F = [k \in 0..N |-> IF k = 0 THEN h ELSE F[k - 1] + BHSize + DataOf(f, f.blocks[k])]
    <2>1. \A k \in 0..N : F[k] = IF k = 0 THEN h ELSE F[k - 1] + BHSize + DataOf(f, f.blocks[k])
      <3>1. \A k \in 0..N : k # 0 => k \in 1..N
        BY <1>1
      <3> HIDE DEF F, N, h
      <3>2. QED  BY <1>4, <3>1
    <2> HIDE DEF h
    <2>2. QED  BY <2>1
  <1>6. g = [k \in 0..N |-> IF k = 0 THEN h ELSE g[k - 1] + BHSize + DataOf(f, f.blocks[k])]
    <2> HIDE DEF F, a
    <2>1. QED  BY <1>5 DEF EndsOf
  <1>7. \A k \in 0..N : g[k] = IF k = 0 THEN h ELSE g[k - 1] + BHSize + DataOf(f, f.blocks[k])
    <2> HIDE DEF g, h
    <2>1. QED  BY <1>6
  <1> DEFINE T == {n \in Nat : n <= N => g[n] \in Nat}
  <1>8. \A n \in Nat : n \in T
    <2> HIDE DEF g, h, N
    <2>1. 0 \in T
      BY <1>1, <1>7
    <2>2. ASSUME NEW n \in Nat, n \in T PROVE n + 1 \in T
      <3> SUFFICES ASSUME n + 1 <= N PROVE g[n + 1] \in Nat
        OBVIOUS
      <3>1. g[n] \in Nat /\ n + 1 \in 0..N /\ n + 1 \in 1..N /\ (n + 1) - 1 = n /\ n + 1 # 0
        BY <1>1, <2>2
      <3>2. g[n + 1] = g[n] + BHSize + DataOf(f, f.blocks[n + 1]) /\ DataOf(f, f.blocks[n + 1]) \in Nat
        BY <1>1, <1>7, <3>1
      <3>3. QED  BY <1>1, <3>1, <3>2
    <2> HIDE DEF T
    <2>3. QED  BY <2>1, <2>2, SetInduction
  <1>9. /\ g[0] = h
        /\ \A k \in 0..N : g[k] \in Nat
        /\ \A k \in 1..N : g[k] = g[k - 1] + BHSize + DataOf(f, f.blocks[k])
    <2> HIDE DEF g, h, N
    <2>1. QED  BY <1>1, <1>7, <1>8
  <1>10. QED  BY <1>9

LEMMA GivenFollow ==
    ASSUME FramesOk, NEW f \in Frames
    PROVE  /\ GivenOf(f)[0] = 0
           /\ \A k \in 0..Len(f.blocks) : GivenOf(f)[k] \in Nat
           /\ \A k \in 1..Len(f.blocks) : GivenOf(f)[k] = GivenOf(f)[k - 1] + f.blocks[k].out
  <1> DEFINE N == Len(f.blocks)
             a == [k \in 1..N |-> f.blocks[k].out]
             g == GivenOf(f)
  <1>1. N \in Nat /\ a \in [1..N -> Nat] /\ \A k \in 1..N : f.blocks[k].out \in Nat
    BY BlocksAre
  <1>2. PICK t : Totals(t, N, a)
    <2> HIDE DEF N, a
    <2>1. QED  BY <1>1, TotalsExist
  <1>3. t = [k \in 0..N |-> IF k = 0 THEN 0 ELSE t[k - 1] + f.blocks[k].out]
    <2>1. \A k \in 0..N : k # 0 => k \in 1..N
      BY <1>1
    <2>2. QED  BY <1>1, <1>2, <2>1 DEF Totals
  <1>4. g = [k \in 0..N |-> IF k = 0 THEN 0 ELSE g[k - 1] + f.blocks[k].out]
    <2>1. QED  BY <1>3 DEF GivenOf
  <1>5. \A k \in 0..N : g[k] = IF k = 0 THEN 0 ELSE g[k - 1] + f.blocks[k].out
    <2> HIDE DEF g
    <2>1. QED  BY <1>4
  <1> DEFINE T == {n \in Nat : n <= N => g[n] \in Nat}
  <1>6. \A n \in Nat : n \in T
    <2> HIDE DEF g, N
    <2>1. 0 \in T
      BY <1>1, <1>5
    <2>2. ASSUME NEW n \in Nat, n \in T PROVE n + 1 \in T
      <3> SUFFICES ASSUME n + 1 <= N PROVE g[n + 1] \in Nat
        OBVIOUS
      <3>1. g[n] \in Nat /\ n + 1 \in 0..N /\ n + 1 \in 1..N /\ (n + 1) - 1 = n /\ n + 1 # 0
        BY <1>1, <2>2
      <3>2. g[n + 1] = g[n] + f.blocks[n + 1].out /\ f.blocks[n + 1].out \in Nat
        BY <1>1, <1>5, <3>1
      <3>3. QED  BY <3>1, <3>2
    <2> HIDE DEF T
    <2>3. QED  BY <2>1, <2>2, SetInduction
  <1>7. /\ g[0] = 0
        /\ \A k \in 0..N : g[k] \in Nat
        /\ \A k \in 1..N : g[k] = g[k - 1] + f.blocks[k].out
    <2>1. g[0] = 0
      BY <1>5
    <2>2. \A k \in 1..N : g[k] = g[k - 1] + f.blocks[k].out
      <3> SUFFICES ASSUME NEW k \in 1..N PROVE g[k] = g[k - 1] + f.blocks[k].out
        OBVIOUS
      <3>1. k \in 0..N /\ k # 0
        BY <1>1
      <3> HIDE DEF g, N
      <3>2. QED  BY <1>5, <3>1
    <2> HIDE DEF g, N
    <2>3. QED  BY <1>6, <2>1, <2>2
  <1>8. QED  BY <1>7

-----------------------------------------------------------------------------
(* What is where: bytes of a buffer that are bytes of the content.         *)

Stages == {"getFrameHeader", "storeFrameHeader", "getSFrameSize", "storeSFrameSize", "skipSkippable",
    "init", "getBlockHeader", "storeBlockHeader", "copyDirect", "getBlockChecksum",
    "getCBlock", "storeCBlock", "flushOut", "getSuffix", "storeSuffix"}
Dicts == [where : {"none", "dst", "tmp"}, off : Nat, size : Nat]
Contexts == [stage : Stages, inSize : Nat, inTarget : Nat, left : Int, tmp : Seq(Int),
             off : Nat, outStart : Nat, outSize : Nat, dict : Dicts]

\* The n bytes in front of position e are those in front of byte m.
EndsIn(buf, e, m, n) == n <= e /\ \A k \in 1..n : buf[e - k + 1] = m - k

\* All of dst is the content up to byte m.
Upto(dst, m) == Len(dst) <= m /\ \A k \in 1..Len(dst) : dst[k] = m - Len(dst) + k - 1

\* These are the n bytes of the content from byte m on.
Content(new, m, n) == new \in Seq(Int) /\ Len(new) = n /\ \A k \in 1..n : new[k] = m + k - 1

\* Between blocks: the dictionary holds what the next block may refer to.
HistoryHere(c, dst, m) ==
    /\ c.dict.where = "none" => m = 0
    /\ c.dict.where = "dst" => c.dict.off + c.dict.size = Len(dst) /\ Frm!Min2(Window, m) <= c.dict.size
    /\ c.dict.where = "tmp" => /\ c.dict.off = 0 /\ c.dict.size <= Len(c.tmp)
                               /\ EndsIn(c.tmp, c.dict.size, m, Frm!Min2(Window, m))

\* Behind position e of a buffer are the n bytes of the content from byte m on.
StartsAt(buf, e, m, n) == \A k \in 1..n : buf[e + k] = m + k - 1

\* The block in tmp that is being given out starts at byte m.
BlockHere(c, m) ==
    /\ c.outSize <= MaxBlock /\ c.off + c.outSize <= Len(c.tmp)
    /\ StartsAt(c.tmp, c.off, m, c.outSize)

\* History needed in front of a block of n bytes, once it is given out.
Needed(m, n) == IF n >= Window THEN 0 ELSE Frm!Min2(Window - n, m)

\* The same within such a block, after o bytes of it: the history lies in front
\* of it in tmp, or still in the caller's buffer and there is room for it.
HistoryInBlock(c, o, dst, m) ==
    /\ Frm!Min2(Window, m) <= c.off
    /\ c.dict.where = "none" => m + o = 0
    /\ c.dict.where = "dst" =>
          c.dict.off + c.dict.size = Len(dst) /\ Frm!Min2(Window, m + o) <= c.dict.size
    /\ c.dict.where = "tmp" => /\ c.dict.off = 0 /\ c.dict.size = c.off + o
                               /\ EndsIn(c.tmp, c.off, m, Needed(m, c.outSize))

LEMMA SpanIs ==
    ASSUME NEW m \in Int, NEW n \in Nat
    PROVE  /\ Frm!Span(m, n) \in Seq(Int) /\ Len(Frm!Span(m, n)) = n
           /\ \A k \in 1..n : Frm!Span(m, n)[k] = m + k - 1
  BY DEF Frm!Span

\* A sum that the provers need not look into.
IsSum(p, a, b) == p = a + b

\* buf, with bytes in the place behind position to.
Replaced(t, buf, to, bytes) ==
    /\ t \in Seq(Int) /\ Len(t) = Len(buf)
    /\ \A k \in 1..Len(buf) : t[k] = IF k - to \in 1..Len(bytes) THEN bytes[k - to] ELSE buf[k]

LEMMA PutIs ==
    ASSUME NEW buf \in Seq(Int), NEW to \in Int, NEW bytes \in Seq(Int)
    PROVE  Replaced(Frm!Put(buf, to, bytes), buf, to, bytes)
  <1> DEFINE r == Frm!Put(buf, to, bytes)
  <1>1. Len(buf) \in Nat /\ Len(bytes) \in Nat
    OBVIOUS
  <1>2. r = [k \in 1..Len(buf) |-> IF k - to \in 1..Len(bytes) THEN bytes[k - to] ELSE buf[k]]
    BY DEF Frm!Put
  <1>3. \A k \in 1..Len(buf) : buf[k] \in Int
    BY ElementOfSeq
  <1>4. \A k \in 1..Len(bytes) : bytes[k] \in Int
    BY ElementOfSeq
  <1> HIDE DEF r
  <1>5. r \in [1..Len(buf) -> Int]
    BY <1>2, <1>3, <1>4
  <1>6. r \in Seq(Int) /\ Len(r) = Len(buf)
    <2> DEFINE l == Len(buf)
    <2>1. r \in [1..l -> Int] /\ l \in Nat
      BY <1>1, <1>5
    <2> HIDE DEF l
    <2>2. r \in Seq(Int) /\ Len(r) = l
      BY <2>1
    <2>3. QED  BY <2>2 DEF l
  <1>7. \A k \in 1..Len(buf) : r[k] = IF k - to \in 1..Len(bytes) THEN bytes[k - to] ELSE buf[k]
    BY <1>2
  <1>8. QED  BY <1>6, <1>7 DEF r, Replaced

LEMMA TmpBytesAre ==
    ASSUME NEW c \in Contexts, c.dict.where = "tmp", NEW dst, NEW end \in Int, NEW n \in Nat
    PROVE  /\ Frm!DictBytes(c, dst, end, n) \in Seq(Int) /\ Len(Frm!DictBytes(c, dst, end, n)) = n
           /\ \A k \in 1..n : end - n + k \in 1..Len(c.tmp) =>
                Frm!DictBytes(c, dst, end, n)[k] = c.tmp[end - n + k]
  <1> DEFINE r == Frm!DictBytes(c, dst, end, n)
  <1>1. r = [k \in 1..n |-> IF end - n + k \in 1..Len(c.tmp) THEN c.tmp[end - n + k] ELSE Frm!Garbage]
    BY DEF Frm!DictBytes
  <1>2. c.tmp \in Seq(Int) /\ \A k \in 1..Len(c.tmp) : c.tmp[k] \in Int
    <2>1. c.tmp \in Seq(Int)
      BY DEF Contexts
    <2>2. QED  BY <2>1, ElementOfSeq
  <1>3. Frm!Garbage \in Int
    BY DEF Frm!Garbage
  <1> HIDE DEF r
  <1>4. r \in [1..n -> Int]
    BY <1>1, <1>2, <1>3
  <1>5. r \in Seq(Int) /\ Len(r) = n
    BY <1>4
  <1>6. \A k \in 1..n : end - n + k \in 1..Len(c.tmp) => r[k] = c.tmp[end - n + k]
    BY <1>1
  <1>7. QED  BY <1>5, <1>6 DEF r

LEMMA DstBytesAre ==
    ASSUME NEW c, c.dict.where # "tmp", NEW dst \in Seq(Int), NEW end \in Int, NEW n \in Nat
    PROVE  /\ Frm!DictBytes(c, dst, end, n) \in Seq(Int) /\ Len(Frm!DictBytes(c, dst, end, n)) = n
           /\ \A k \in 1..n : end - n + k \in 1..Len(dst) =>
                Frm!DictBytes(c, dst, end, n)[k] = dst[end - n + k]
  <1> DEFINE r == Frm!DictBytes(c, dst, end, n)
  <1>1. r = [k \in 1..n |-> IF end - n + k \in 1..Len(dst) THEN dst[end - n + k] ELSE Frm!Garbage]
    BY DEF Frm!DictBytes
  <1>2. \A k \in 1..Len(dst) : dst[k] \in Int
    BY ElementOfSeq
  <1>3. Frm!Garbage \in Int
    BY DEF Frm!Garbage
  <1> HIDE DEF r
  <1>4. r \in [1..n -> Int]
    BY <1>1, <1>2, <1>3
  <1>5. r \in Seq(Int) /\ Len(r) = n
    BY <1>4
  <1>6. \A k \in 1..n : end - n + k \in 1..Len(dst) => r[k] = dst[end - n + k]
    BY <1>1
  <1>7. QED  BY <1>5, <1>6 DEF r

\* What is given out goes on with the content.
LEMMA GoesOn ==
    ASSUME NEW dst \in Seq(Int), NEW m \in Nat, Upto(dst, m), NEW n \in Nat,
           NEW new, Content(new, m, n)
    PROVE  /\ dst \o new \in Seq(Int) /\ Len(dst \o new) = Len(dst) + n /\ Upto(dst \o new, m + n)
           /\ Content(SubSeq(dst \o new, Len(dst) + 1, Len(dst) + n), m, n)
  <1>0. new \in Seq(Int) /\ Len(new) = n /\ \A k \in 1..n : new[k] = m + k - 1
    BY DEF Content
  <1> DEFINE d == Len(dst)
             all2 == dst \o new
             t == SubSeq(all2, d + 1, d + n)
  <1>1. /\ d \in Nat /\ all2 \in Seq(Int) /\ Len(all2) = d + n
        /\ \A k \in 1..(d + n) : all2[k] = IF k <= d THEN dst[k] ELSE new[k - d]
    <2>1. /\ all2 \in Seq(Int) /\ Len(all2) = Len(dst) + Len(new)
          /\ \A k \in 1..(Len(dst) + Len(new)) :
                all2[k] = IF k <= Len(dst) THEN dst[k] ELSE new[k - Len(dst)]
      BY <1>0, ConcatProperties
    <2>2. Len(dst) \in Nat
      OBVIOUS
    <2> HIDE DEF all2
    <2>3. QED  BY <1>0, <2>1, <2>2
  <1>2. \A k \in 1..d : dst[k] = m - d + k - 1
    BY DEF Upto
  <1>3. d <= m
    BY DEF Upto
  <1> HIDE DEF d, all2
  <1>4. \A k \in 1..(d + n) : all2[k] = (m + n) - (d + n) + k - 1
    <2> SUFFICES ASSUME NEW k \in 1..(d + n) PROVE all2[k] = (m + n) - (d + n) + k - 1
      OBVIOUS
    <2>1. CASE k <= d
      <3>1. k \in 1..d /\ k \in Int /\ d \in Int /\ m \in Int
        BY <1>1, <2>1
      <3>2. all2[k] = dst[k] /\ dst[k] = m - d + k - 1
        BY <1>1, <1>2, <2>1, <3>1
      <3>3. m - d + k - 1 = (m + n) - (d + n) + k - 1
        BY <3>1
      <3>4. QED  BY <3>2, <3>3
    <2>2. CASE ~(k <= d)
      <3>1. k - d \in 1..n
        BY <1>1, <2>2
      <3>2. QED  BY <1>0, <1>1, <2>2, <3>1
    <2>3. QED  BY <2>1, <2>2
  <1>5. Upto(all2, m + n)
    BY <1>1, <1>3, <1>4 DEF Upto
  <1>6. /\ t \in Seq(Int) /\ Len(t) = n
        /\ \A k \in 1..n : t[k] = all2[(d + 1) + k - 1]
    BY <1>1, SubSeqProperties
  <1>7. \A k \in 1..n : t[k] = m + k - 1
    <2> HIDE DEF t
    <2> SUFFICES ASSUME NEW k \in 1..n PROVE t[k] = m + k - 1
      OBVIOUS
    <2>1. (d + 1) + k - 1 = d + k /\ d + k \in 1..(d + n)
      BY <1>1
    <2>2. QED  BY <1>1, <1>4, <1>6, <2>1
  <1>8. QED  BY <1>1, <1>5, <1>6, <1>7 DEF d, all2, Content

-----------------------------------------------------------------------------
(* LZ4F_updateDict.                                                        *)

\* Only the history has changed.
SameButHistory(c, r) ==
    /\ r \in Contexts /\ Len(r.tmp) = Len(c.tmp)
    /\ r.stage = c.stage /\ r.inSize = c.inSize /\ r.inTarget = c.inTarget /\ r.left = c.left
    /\ r.off = c.off /\ r.outStart = c.outStart /\ r.outSize = c.outSize

LEMMA MinIs ==
    ASSUME NEW a \in Int, NEW b \in Int
    PROVE  /\ Frm!Min2(a, b) = IF a < b THEN a ELSE b
           /\ Frm!Min2(a, b) \in Int
  BY DEF Frm!Min2

LEMMA ContextIs ==
    ASSUME NEW c \in Contexts
    PROVE  /\ c.stage \in Stages /\ c.inSize \in Nat /\ c.inTarget \in Nat /\ c.left \in Int
           /\ c.tmp \in Seq(Int) /\ Len(c.tmp) \in Nat /\ c.off \in Nat
           /\ c.outStart \in Nat /\ c.outSize \in Nat
           /\ c.dict \in Dicts /\ c.dict.where \in {"none", "dst", "tmp"}
           /\ c.dict.off \in Nat /\ c.dict.size \in Nat
  BY DEF Contexts, Dicts

\* Changes of nothing but the history.
DictAt(c, w, o, n) == [c EXCEPT !.dict = [where |-> w, off |-> o, size |-> n]]
Grown(c, n) == [c EXCEPT !.dict.size = @ + n]
TmpWith(c, t, n) == Frm!InTmp([c EXCEPT !.tmp = t], n)

LEMMA DictAtIs ==
    ASSUME NEW c \in Contexts, NEW w \in {"none", "dst", "tmp"}, NEW o \in Nat, NEW n \in Nat
    PROVE  /\ SameButHistory(c, DictAt(c, w, o, n)) /\ DictAt(c, w, o, n).tmp = c.tmp
           /\ DictAt(c, w, o, n).dict.where = w /\ DictAt(c, w, o, n).dict.off = o
           /\ DictAt(c, w, o, n).dict.size = n
  BY DEF Contexts, Dicts, SameButHistory, DictAt

LEMMA GrownIs ==
    ASSUME NEW c \in Contexts, NEW n \in Nat
    PROVE  /\ SameButHistory(c, Grown(c, n)) /\ Grown(c, n).tmp = c.tmp
           /\ Grown(c, n).dict.where = c.dict.where /\ Grown(c, n).dict.off = c.dict.off
           /\ Grown(c, n).dict.size = c.dict.size + n
  <1>1. /\ c.dict.where \in {"none", "dst", "tmp"} /\ c.dict.off \in Nat /\ c.dict.size + n \in Nat
    BY ContextIs
  <1>2. c.dict = [where |-> c.dict.where, off |-> c.dict.off, size |-> c.dict.size]
    BY DEF Contexts, Dicts
  <1>3. [c.dict EXCEPT !.size = @ + n] = [where |-> c.dict.where, off |-> c.dict.off, size |-> c.dict.size + n]
    BY <1>2
  <1>4. Grown(c, n) = DictAt(c, c.dict.where, c.dict.off, c.dict.size + n)
    BY <1>3 DEF Grown, DictAt
  <1> DEFINE w == c.dict.where
             o == c.dict.off
             z == c.dict.size + n
  <1> HIDE DEF w, o, z
  <1>5. w \in {"none", "dst", "tmp"} /\ o \in Nat /\ z \in Nat
    BY <1>1 DEF w, o, z
  <1>6. Grown(c, n) = DictAt(c, w, o, z)
    BY <1>4 DEF w, o, z
  <1>7. /\ SameButHistory(c, DictAt(c, w, o, z)) /\ DictAt(c, w, o, z).tmp = c.tmp
        /\ DictAt(c, w, o, z).dict.where = w /\ DictAt(c, w, o, z).dict.off = o
        /\ DictAt(c, w, o, z).dict.size = z
    BY <1>5, DictAtIs
  <1>8. QED  BY <1>6, <1>7 DEF w, o, z

LEMMA TmpWithIs ==
    ASSUME NEW c \in Contexts, NEW t \in Seq(Int), Len(t) = Len(c.tmp), NEW n \in Nat
    PROVE  /\ SameButHistory(c, TmpWith(c, t, n)) /\ TmpWith(c, t, n).tmp = t
           /\ TmpWith(c, t, n).dict.where = "tmp" /\ TmpWith(c, t, n).dict.off = 0
           /\ TmpWith(c, t, n).dict.size = n
  BY DEF Contexts, Dicts, SameButHistory, Frm!InTmp, TmpWith

\* A dictionary of no bytes may lie anywhere.
Anchored(c, d) ==
    IF c.dict.size = 0 THEN [c EXCEPT !.dict = [where |-> "dst", off |-> d, size |-> 0]] ELSE c

LEMMA AnchoredIs ==
    ASSUME NEW c \in Contexts, NEW d \in Nat
    PROVE  /\ SameButHistory(c, Anchored(c, d)) /\ Anchored(c, d).tmp = c.tmp
           /\ c.dict.size = 0 => Anchored(c, d).dict = [where |-> "dst", off |-> d, size |-> 0]
           /\ c.dict.size # 0 => Anchored(c, d) = c
  BY DEF Contexts, Dicts, Stages, SameButHistory, Anchored

\* What becomes of a history when output goes to the caller.
LEMMA UpdatedOut ==
    ASSUME NEW c \in Contexts, NEW dst \in Seq(Int), NEW n \in Nat, NEW d \in Nat,
           NEW l, IsSum(l, d, n), Len(dst) = l, Window \in Nat
    PROVE  LET r == Frm!Updated(c, dst, n, FALSE)
               a == Anchored(c, d)
               new == SubSeq(dst, d + 1, d + n)
               ends == a.dict.where = "dst" /\ a.dict.off + a.dict.size = d
           IN  /\ ends => r = Grown(a, n)
               /\ ~ends /\ d + n >= Window =>
                    r = DictAt(a, "dst", 0, d + n)
               /\ ~ends /\ ~(d + n >= Window) /\ a.dict.where = "tmp" =>
                    r = LET s == Frm!Saved(a, n)
                        IN  TmpWith(s, Frm!Put(s.tmp, s.dict.size, new), s.dict.size + n)
  <1> DEFINE e == Len(dst) - n
             b == Anchored(c, e)
             r == Frm!Updated(c, dst, n, FALSE)
             all2 == SubSeq(dst, e + 1, Len(dst))
             kept == Frm!Min2(Window - n, b.dict.size)
  <1>1. r = CASE b.dict.where = "dst" /\ Frm!DictEnd(b) = e -> [b EXCEPT !.dict.size = @ + n]
              [] ~(b.dict.where = "dst" /\ Frm!DictEnd(b) = e) /\ e + n >= Window ->
                    [b EXCEPT !.dict = [where |-> "dst", off |-> 0, size |-> e + n]]
              [] OTHER ->
                    IF FALSE
                    THEN IF b.dict.where = "tmp" THEN Frm!InTmp(b, b.dict.size + n)
                         ELSE Frm!InTmp(Frm!InFrontOfTmp(b, dst), b.off + b.outStart + n)
                    ELSE IF b.dict.where = "tmp"
                    THEN LET s == Frm!Saved(b, n)
                         IN  Frm!InTmp([s EXCEPT !.tmp = Frm!Put(@, s.dict.size, all2)], s.dict.size + n)
                    ELSE Frm!InTmp([b EXCEPT !.tmp = Frm!Put(@, 0, Frm!DictBytes(b, dst, Frm!DictEnd(b), kept) \o all2)], kept + n)
    BY DEF Frm!Updated, Anchored
  <1>2. e = d /\ Len(dst) = d + n
    BY DEF IsSum
  <1>3. Frm!DictEnd(b) = b.dict.off + b.dict.size
    BY DEF Frm!DictEnd
  <1> HIDE DEF r, e, b
  <1>4. b = Anchored(c, d)
    BY <1>2 DEF b
  <1> DEFINE ends == b.dict.where = "dst" /\ b.dict.off + b.dict.size = d
  <1>5. ends => r = Grown(b, n)
    BY <1>1, <1>2, <1>3 DEF Grown, DictAt, TmpWith, Frm!InTmp
  <1>6. ~ends /\ d + n >= Window =>
                    r = DictAt(b, "dst", 0, d + n)
    BY <1>1, <1>2, <1>3 DEF Grown, DictAt, TmpWith, Frm!InTmp
  <1>7. ~ends /\ ~(d + n >= Window) /\ b.dict.where = "tmp" =>
                    r = LET s == Frm!Saved(b, n)
                        IN  TmpWith(s, Frm!Put(s.tmp, s.dict.size, SubSeq(dst, d + 1, d + n)), s.dict.size + n)
    BY <1>1, <1>2, <1>3 DEF Grown, DictAt, TmpWith, Frm!InTmp
  <1>8. QED  BY <1>4, <1>5, <1>6, <1>7 DEF r

\* What becomes of it when the output lies in tmp as well.
LEMMA UpdatedIn ==
    ASSUME NEW c \in Contexts, NEW dst \in Seq(Int), NEW n \in Nat, NEW d \in Nat,
           NEW l, IsSum(l, d, n), Len(dst) = l, Window \in Nat
    PROVE  LET r == Frm!Updated(c, dst, n, TRUE)
               a == Anchored(c, d)
               ends == a.dict.where = "dst" /\ a.dict.off + a.dict.size = d
           IN  /\ ends => r = Grown(a, n)
               /\ ~ends /\ d + n >= Window =>
                    r = DictAt(a, "dst", 0, d + n)
               /\ ~ends /\ ~(d + n >= Window) /\ a.dict.where = "tmp" =>
                    r = DictAt(a, "tmp", 0, a.dict.size + n)
  <1> DEFINE e == Len(dst) - n
             b == Anchored(c, e)
             r == Frm!Updated(c, dst, n, TRUE)
             all2 == SubSeq(dst, e + 1, Len(dst))
             kept == Frm!Min2(Window - n, b.dict.size)
  <1>1. r = CASE b.dict.where = "dst" /\ Frm!DictEnd(b) = e -> [b EXCEPT !.dict.size = @ + n]
              [] ~(b.dict.where = "dst" /\ Frm!DictEnd(b) = e) /\ e + n >= Window ->
                    [b EXCEPT !.dict = [where |-> "dst", off |-> 0, size |-> e + n]]
              [] OTHER ->
                    IF TRUE
                    THEN IF b.dict.where = "tmp" THEN Frm!InTmp(b, b.dict.size + n)
                         ELSE Frm!InTmp(Frm!InFrontOfTmp(b, dst), b.off + b.outStart + n)
                    ELSE IF b.dict.where = "tmp"
                    THEN LET s == Frm!Saved(b, n)
                         IN  Frm!InTmp([s EXCEPT !.tmp = Frm!Put(@, s.dict.size, all2)], s.dict.size + n)
                    ELSE Frm!InTmp([b EXCEPT !.tmp = Frm!Put(@, 0, Frm!DictBytes(b, dst, Frm!DictEnd(b), kept) \o all2)], kept + n)
    BY DEF Frm!Updated, Anchored
  <1>2. e = d /\ Len(dst) = d + n
    BY DEF IsSum
  <1>3. Frm!DictEnd(b) = b.dict.off + b.dict.size
    BY DEF Frm!DictEnd
  <1> HIDE DEF r, e, b
  <1>4. b = Anchored(c, d)
    BY <1>2 DEF b
  <1> DEFINE ends == b.dict.where = "dst" /\ b.dict.off + b.dict.size = d
  <1>5. ends => r = Grown(b, n)
    BY <1>1, <1>2, <1>3 DEF Grown, DictAt, TmpWith, Frm!InTmp
  <1>6. ~ends /\ d + n >= Window =>
                    r = DictAt(b, "dst", 0, d + n)
    BY <1>1, <1>2, <1>3 DEF Grown, DictAt, TmpWith, Frm!InTmp
  <1>7. ~ends /\ ~(d + n >= Window) /\ b.dict.where = "tmp" =>
                    r = DictAt(b, "tmp", 0, b.dict.size + n)
    BY <1>1, <1>2, <1>3 DEF Grown, DictAt, TmpWith, Frm!InTmp
  <1>8. QED  BY <1>4, <1>5, <1>6, <1>7 DEF r

\* After a dictionary of no bytes is put where the output goes.
LEMMA AnchoredHere ==
    ASSUME Sizes, NEW c \in Contexts, NEW dst \in Seq(Int), NEW m \in Nat, Upto(dst, m),
           HistoryHere(c, dst, m), c.dict.where = "none" => c.dict.size = 0,
           NEW a, a = Anchored(c, Len(dst))
    PROVE  /\ SameButHistory(c, a) /\ a.tmp = c.tmp /\ HistoryHere(a, dst, m)
           /\ a.dict.where = "tmp" \/ (a.dict.where = "dst" /\ a.dict.off + a.dict.size = Len(dst))
  <1>1. Len(dst) \in Nat /\ Len(dst) <= m /\ Window \in Nat /\ Window > 0
    BY DEF Upto, Sizes
  <1>2. SameButHistory(c, a) /\ a.tmp = c.tmp /\ a \in Contexts
    BY <1>1, AnchoredIs DEF SameButHistory
  <1>3. CASE c.dict.size = 0
    <2>1. Frm!Min2(Window, m) <= 0
      BY <1>1, <1>3, ContextIs DEF HistoryHere, EndsIn, Frm!Min2
    <2>2. m = 0 /\ Len(dst) = 0
      BY <1>1, <2>1 DEF Frm!Min2
    <2>3. a.dict = [where |-> "dst", off |-> 0, size |-> 0]
      BY <1>1, <1>3, <2>2, AnchoredIs
    <2>4. HistoryHere(a, dst, m)
      BY <2>1, <2>2, <2>3 DEF HistoryHere
    <2>5. QED  BY <1>2, <2>2, <2>3, <2>4
  <1>4. CASE c.dict.size # 0
    <2>1. a = c
      BY <1>1, <1>4, AnchoredIs
    <2>2. QED  BY <1>2, <1>4, <2>1, ContextIs DEF HistoryHere
  <1>5. QED  BY <1>3, <1>4

LEMMA SamePlace ==
    ASSUME NEW W \in Int, NEW n \in Int, NEW e \in Int, NEW L \in Int, NEW h \in Int, NEW k \in Int,
           k >= 1, k <= W - n, k <= h, h <= e, e <= L, W <= L, n >= 0
    PROVE  /\ (W - n) - k + 1 \in 1..(W - n) /\ (W - n) - k + 1 \in 1..L
           /\ e - k + 1 \in 1..L /\ e - (W - n) + ((W - n) - k + 1) = e - k + 1
  OBVIOUS

LEMMA EndOfTmp ==
    ASSUME NEW a \in Contexts, a.dict.where = "tmp", NEW e \in Int, NEW q \in Nat
    PROVE  /\ Frm!DictBytes(a, <<>>, e, q) \in Seq(Int) /\ Len(Frm!DictBytes(a, <<>>, e, q)) = q
           /\ \A k \in 1..q : e - q + k \in 1..Len(a.tmp) =>
                Frm!DictBytes(a, <<>>, e, q)[k] = a.tmp[e - q + k]
  BY TmpBytesAre

\* There are e bytes in tmp.
Fits(c, e) == e <= Len(c.tmp)

\* Of the bytes in front of position e, as many as both g and w are in place.
Kept(buf, e, m, g, w) == \A k \in 1..e : k <= g /\ k <= w => buf[e - k + 1] = m - k

\* History in tmp that is cut so that n bytes more fit.
LEMMA SavedHere ==
    ASSUME Sizes, NEW a \in Contexts, NEW m \in Nat, NEW n \in Nat, n < Window,
           a.dict.where = "tmp", a.dict.off = 0, Fits(a, a.dict.size), Fits(a, Window),
           EndsIn(a.tmp, a.dict.size, m, Frm!Min2(Window, m)),
           NEW s, s = Frm!Saved(a, n)
    PROVE  /\ SameButHistory(a, s) /\ s.dict.where = "tmp" /\ s.dict.off = 0
           /\ s.dict.size + n <= Len(a.tmp)
           /\ Frm!Min2(Window, m + n) <= s.dict.size + n
           /\ Kept(s.tmp, s.dict.size, m, Frm!Min2(Window, m), Window - n)
  <1> DEFINE W == Window
             e == a.dict.size
             L == Len(a.tmp)
             h == Frm!Min2(W, m)
  <1>0. a.tmp \in Seq(Int)
    BY ContextIs
  <1>1. /\ W \in Nat /\ e \in Nat /\ L \in Nat /\ W > 0
        /\ e <= L /\ W <= L
    BY ContextIs DEF Sizes, Fits
  <1>2. h \in Int /\ h <= e /\ (h = IF W < m THEN W ELSE m) /\ \A k \in 1..h : a.tmp[e - k + 1] = m - k
    <2>1. h = IF W < m THEN W ELSE m
      BY DEF Frm!Min2
    <2>2. h <= e /\ \A k \in 1..h : a.tmp[e - k + 1] = m - k
      BY DEF EndsIn
    <2> HIDE DEF h
    <2>3. QED  BY <1>1, <2>1, <2>2
  <1>3. Frm!Min2(W, m + n) = IF W < m + n THEN W ELSE m + n
    BY DEF Frm!Min2
  <1>4. CASE e + n > L
    <2> DEFINE b == Frm!DictBytes(a, <<>>, e, W - n)
               t == Frm!Put(a.tmp, 0, b)
    <2>1. s = TmpWith(a, t, W - n)
      BY <1>4 DEF Frm!Saved, TmpWith
    <2>2. W - n \in Nat /\ <<>> \in Seq(Int)
      BY <1>1
    <2>3. /\ b \in Seq(Int) /\ Len(b) = W - n
          /\ \A k \in 1..(W - n) : e - (W - n) + k \in 1..L => b[k] = a.tmp[e - (W - n) + k]
      <3>1. e \in Int /\ W - n \in Nat
        BY <1>1, <2>2
      <3> HIDE DEF W, e
      <3>2. QED  BY <3>1, EndOfTmp
    <2> HIDE DEF b
    <2>4. /\ t \in Seq(Int) /\ Len(t) = L
          /\ \A k \in 1..L : t[k] = IF k - 0 \in 1..Len(b) THEN b[k - 0] ELSE a.tmp[k]
      <3>1. a.tmp \in Seq(Int) /\ 0 \in Int /\ b \in Seq(Int)
        BY <1>0, <2>3
      <3>2. Replaced(t, a.tmp, 0, b)
        BY <3>1, PutIs
      <3> HIDE DEF t
      <3>3. QED  BY <3>2 DEF Replaced
    <2> HIDE DEF t
    <2>5. /\ SameButHistory(a, s) /\ s.tmp = t
          /\ s.dict.where = "tmp" /\ s.dict.off = 0 /\ s.dict.size = W - n
      <3> HIDE DEF W
      <3>1. QED  BY <2>1, <2>2, <2>4, TmpWithIs
    <2>6. ASSUME NEW k \in 1..(W - n), k <= h PROVE t[(W - n) - k + 1] = m - k
      <3> DEFINE j == (W - n) - k + 1
      <3>1. j \in 1..(W - n) /\ j \in 1..L /\ e - (W - n) + j = e - k + 1 /\ e - k + 1 \in 1..L
        <4>1. k >= 1 /\ k <= W - n /\ k <= h /\ h <= e /\ k \in Int /\ n \in Int /\ n >= 0
          BY <1>2, <2>2, <2>6
        <4>2. W \in Int /\ e \in Int /\ L \in Int /\ h \in Int /\ e <= L /\ W <= L
          BY <1>1, <1>2
        <4> HIDE DEF W, e, L, h
        <4>3. QED  BY <4>1, <4>2, SamePlace
      <3>1a. j - 0 = j
        BY <3>1
      <3>2. k \in 1..h
        BY <1>2, <2>6
      <3> HIDE DEF j, W, e, L, h
      <3>3. b[j] = a.tmp[e - k + 1]
        BY <2>3, <3>1
      <3>3a. a.tmp[e - k + 1] = m - k
        BY <1>2, <3>2
      <3>3b. t[j] = b[j]
        BY <2>3, <2>4, <3>1, <3>1a
      <3>4. t[j] = m - k
        BY <3>3, <3>3a, <3>3b
      <3>5. QED  BY <3>4 DEF j
    <2>7. s.dict.size = W - n /\ s.dict.where = "tmp" /\ s.dict.off = 0
      BY <2>5
    <2> HIDE DEF W, e, L, h
    <2>8. (W - n) + n <= L /\ Frm!Min2(W, m + n) <= (W - n) + n
      BY <1>1, <1>3
    <2>9. \A k \in 1..(W - n) : k <= h /\ k <= W - n => s.tmp[(W - n) - k + 1] = m - k
      BY <2>5, <2>6
    <2>10. Kept(s.tmp, s.dict.size, m, h, W - n)
      BY <2>7, <2>9 DEF Kept
    <2>11. QED  BY <2>5, <2>7, <2>8, <2>10 DEF W, e, L, h
  <1>5. CASE ~(e + n > L)
    <2>1. s = a
      BY <1>5 DEF Frm!Saved
    <2>2. SameButHistory(a, a)
      BY ContextIs DEF SameButHistory
    <2> HIDE DEF W, e, L, h
    <2>3. e + n <= L /\ Frm!Min2(W, m + n) <= e + n
      BY <1>1, <1>2, <1>3, <1>5
    <2>4. \A k \in 1..e : k <= h /\ k <= W - n => a.tmp[e - k + 1] = m - k
      BY <1>1, <1>2
    <2>5. Kept(a.tmp, e, m, h, W - n)
      BY <2>4 DEF Kept
    <2>6. QED  BY <2>1, <2>2, <2>3, <2>5 DEF W, e, L, h
  <1>6. QED  BY <1>4, <1>5

\* The three ways in which output that goes to the caller becomes history.
LEMMA GrownHere ==
    ASSUME Sizes, NEW a \in Contexts, NEW m \in Nat, NEW n \in Nat, NEW dst, NEW d \in Nat,
           Len(dst) = d + n, a.dict.where = "dst", a.dict.off + a.dict.size = d,
           Frm!Min2(Window, m) <= a.dict.size
    PROVE  /\ SameButHistory(a, Grown(a, n)) /\ Grown(a, n).dict.where = "dst"
           /\ HistoryHere(Grown(a, n), dst, m + n)
  <1> DEFINE r == Grown(a, n)
  <1>1. /\ SameButHistory(a, r) /\ r.dict.where = "dst" /\ r.dict.off = a.dict.off
        /\ r.dict.size = a.dict.size + n
    BY GrownIs
  <1>2. a.dict.off \in Nat /\ a.dict.size \in Nat /\ Window \in Nat
    BY ContextIs DEF Sizes
  <1> HIDE DEF r
  <1>3. Frm!Min2(Window, m + n) <= a.dict.size + n /\ a.dict.off + (a.dict.size + n) = d + n
    <2>1. Window \in Int /\ a.dict.size \in Int
      BY <1>2
    <2>2. Frm!Min2(Window, m + n) <= a.dict.size + n
      BY <2>1 DEF Frm!Min2
    <2>3. a.dict.off + (a.dict.size + n) = d + n
      <3> DEFINE x == a.dict.off
                 y == a.dict.size
      <3>1. x \in Nat /\ y \in Nat /\ x + y = d
        BY <1>2
      <3> HIDE DEF x, y
      <3>2. x + (y + n) = d + n
        BY <3>1
      <3>3. QED  BY <3>2 DEF x, y
    <2>4. QED  BY <2>2, <2>3
  <1>4. HistoryHere(r, dst, m + n)
    BY <1>1, <1>3 DEF HistoryHere
  <1>5. QED  BY <1>1, <1>4 DEF r

LEMMA RestartHere ==
    ASSUME Sizes, NEW a \in Contexts, NEW m \in Nat, NEW dst, NEW e \in Nat,
           Len(dst) = e, e >= Window
    PROVE  /\ SameButHistory(a, DictAt(a, "dst", 0, e)) /\ DictAt(a, "dst", 0, e).dict.where = "dst"
           /\ HistoryHere(DictAt(a, "dst", 0, e), dst, m)
  <1> DEFINE r == DictAt(a, "dst", 0, e)
  <1>0. "dst" \in {"none", "dst", "tmp"} /\ 0 \in Nat
    OBVIOUS
  <1>1. SameButHistory(a, r) /\ r.dict.where = "dst" /\ r.dict.off = 0 /\ r.dict.size = e
    BY <1>0, DictAtIs
  <1>2. Frm!Min2(Window, m) <= e /\ 0 + e = e
    BY DEF Frm!Min2, Sizes
  <1> HIDE DEF r
  <1>3. HistoryHere(r, dst, m)
    BY <1>1, <1>2 DEF HistoryHere
  <1>4. QED  BY <1>1, <1>3 DEF r

LEMMA MovedHere ==
    ASSUME Sizes, NEW s \in Contexts, NEW m \in Nat, NEW n \in Nat, NEW dst,
           NEW new, Content(new, m, n), NEW e, IsSum(e, s.dict.size, n), NEW p, IsSum(p, m, n),
           n < Window, Fits(s, e), Frm!Min2(Window, p) <= e,
           NEW w, IsSum(Window, w, n), w \in Int, Kept(s.tmp, s.dict.size, m, Frm!Min2(Window, m), w)
    PROVE  /\ SameButHistory(s, TmpWith(s, Frm!Put(s.tmp, s.dict.size, new), e))
           /\ TmpWith(s, Frm!Put(s.tmp, s.dict.size, new), e).dict.where = "tmp"
           /\ HistoryHere(TmpWith(s, Frm!Put(s.tmp, s.dict.size, new), e), dst, p)
  <1> DEFINE S == s.dict.size
             t == Frm!Put(s.tmp, S, new)
             W == Window
             L == Len(s.tmp)
             h == Frm!Min2(W, p)
             g == Frm!Min2(W, m)
             r == TmpWith(s, t, e)
  <1>0. s.tmp \in Seq(Int)
    BY ContextIs
  <1>0a. e = S + n /\ p = m + n /\ W = w + n /\ w \in Int /\ w = W - n
    <2>1. e = S + n /\ p = m + n /\ W = w + n
      BY DEF IsSum
    <2> HIDE DEF W, S
    <2>2. w = W - n
      BY <2>1
    <2>3. QED  BY <2>1, <2>2
  <1>1. L \in Nat /\ S \in Nat /\ W \in Nat
    BY ContextIs DEF Sizes
  <1>2. new \in Seq(Int) /\ Len(new) = n /\ \A k \in 1..n : new[k] = m + k - 1
    BY DEF Content
  <1>3. /\ t \in Seq(Int) /\ Len(t) = L
        /\ \A k \in 1..L : t[k] = IF k - S \in 1..Len(new) THEN new[k - S] ELSE s.tmp[k]
    <2>1. S \in Int
      BY <1>1
    <2>2. Replaced(t, s.tmp, S, new)
      BY <1>0, <1>2, <2>1, PutIs
    <2> HIDE DEF t
    <2>3. QED  BY <2>2 DEF Replaced
  <1> HIDE DEF t
  <1>4. /\ SameButHistory(s, r) /\ r.tmp = t
        /\ r.dict.where = "tmp" /\ r.dict.off = 0 /\ r.dict.size = e
    <2> HIDE DEF S
    <2>2. e \in Nat
      BY <1>0a, <1>1
    <2>3. QED  BY <1>3, <2>2, TmpWithIs
  <1> HIDE DEF r
  <1>5. h = (IF W < p THEN W ELSE p) /\ g = (IF W < m THEN W ELSE m)
    BY DEF Frm!Min2
  <1>6. S + n <= L /\ h <= S + n /\ h <= e /\ p = m + n /\ e = S + n /\ p \in Nat /\ n < W
    <2>1. e <= L /\ h <= e /\ n < W
      BY DEF Fits
    <2> HIDE DEF W, S, L, h
    <2>2. QED  BY <1>0a, <2>1
  <1>7. \A k \in 1..S : k <= g /\ k <= W - n => s.tmp[S - k + 1] = m - k
    <2>1. \A k \in 1..S : k <= g /\ k <= w => s.tmp[S - k + 1] = m - k
      BY DEF Kept
    <2> HIDE DEF W, S, g
    <2>2. QED  BY <1>0a, <2>1
  <1> HIDE DEF W, L, h, g, S
  <1>7a. h \in Int /\ g \in Int
    BY <1>1, <1>5, <1>6
  <1>8. ASSUME NEW k \in 1..h PROVE t[(S + n) - k + 1] = (m + n) - k
    <2> DEFINE j == (S + n) - k + 1
    <2>0. k \in Int /\ k >= 1 /\ k <= h
      BY <1>7a
    <2>1. j \in 1..L /\ k \in Int
      BY <1>1, <1>6, <1>7a, <2>0
    <2>2. CASE k <= n
      <3>1. j - S \in 1..n /\ j - S = n - k + 1
        BY <1>1, <2>0, <2>2
      <3> HIDE DEF j
      <3>2. t[j] = new[j - S] /\ new[j - S] = m + (j - S) - 1
        BY <1>2, <1>3, <2>1, <3>1
      <3>3. m + (j - S) - 1 = (m + n) - k
        BY <2>1, <3>1
      <3>4. t[j] = (m + n) - k
        BY <3>2, <3>3
      <3>5. QED  BY <3>4 DEF j
    <2>3. CASE ~(k <= n)
      <3> DEFINE l == k - n
      <3>1. l \in 1..S /\ l <= g /\ l <= W - n /\ j = S - l + 1 /\ ~(j - S \in 1..n)
        BY <1>1, <1>5, <1>6, <1>7a, <2>0, <2>3
      <3>2. m - l = (m + n) - k
        BY <2>1
      <3> HIDE DEF l, j
      <3>3. t[j] = s.tmp[j]
        BY <1>2, <1>3, <2>1, <3>1
      <3>4. s.tmp[S - l + 1] = m - l
        BY <1>7, <3>1
      <3>5. t[j] = (m + n) - k
        BY <3>1, <3>2, <3>3, <3>4
      <3>6. QED  BY <3>5 DEF j
    <2>4. QED  BY <2>2, <2>3
  <1>9. EndsIn(t, e, p, h)
    BY <1>6, <1>8 DEF EndsIn
  <1>10. e <= Len(r.tmp)
    BY <1>3, <1>4, <1>6
  <1>11. HistoryHere(r, dst, p)
    BY <1>4, <1>9, <1>10 DEF HistoryHere, h, W
  <1>12. QED  BY <1>4, <1>11 DEF r, t, S

LEMMA SameAgain ==
    ASSUME NEW c, NEW a, NEW r, SameButHistory(c, a), SameButHistory(a, r)
    PROVE  SameButHistory(c, r)
  BY DEF SameButHistory

\* Output that goes to the caller is the history of the next block.
LEMMA UpdatedHere ==
    ASSUME Sizes, NEW c \in Contexts, NEW dst \in Seq(Int), NEW m \in Nat, Upto(dst, m),
           NEW n \in Nat, NEW new, Content(new, m, n),
           HistoryHere(c, dst, m), c.dict.where = "none" => c.dict.size = 0, Fits(c, Window)
    PROVE  /\ SameButHistory(c, Frm!Updated(c, dst \o new, n, FALSE))
           /\ Frm!Updated(c, dst \o new, n, FALSE).dict.where # "none"
           /\ HistoryHere(Frm!Updated(c, dst \o new, n, FALSE), dst \o new, m + n)
  <1> DEFINE d == Len(dst)
             a == Anchored(c, d)
             dst2 == dst \o new
             r == Frm!Updated(c, dst2, n, FALSE)
             ends == a.dict.where = "dst" /\ a.dict.off + a.dict.size = d
             new2 == SubSeq(dst2, d + 1, d + n)
             s == Frm!Saved(a, n)
  <1>1. d \in Nat /\ Window \in Nat /\ d + n \in Nat
    BY DEF Sizes
  <1>2. dst2 \in Seq(Int) /\ Len(dst2) = d + n /\ Content(new2, m, n)
    BY GoesOn
  <1>3. /\ SameButHistory(c, a) /\ a.tmp = c.tmp /\ HistoryHere(a, dst, m)
        /\ a.dict.where = "tmp" \/ ends
    BY AnchoredHere
  <1>4. a \in Contexts /\ Fits(a, Window)
    BY <1>3 DEF SameButHistory, Fits
  <1> HIDE DEF dst2, d
  <1>5. /\ ends => r = Grown(a, n)
        /\ ~ends /\ d + n >= Window => r = DictAt(a, "dst", 0, d + n)
        /\ ~ends /\ ~(d + n >= Window) /\ a.dict.where = "tmp" =>
             r = TmpWith(s, Frm!Put(s.tmp, s.dict.size, new2), s.dict.size + n)
    <2>1. c \in Contexts /\ dst2 \in Seq(Int) /\ n \in Nat /\ d \in Nat /\ Window \in Nat
      BY <1>1, <1>2
    <2>2. IsSum(Len(dst2), d, n)
      BY <1>2 DEF IsSum
    <2>3. QED  BY <2>1, <2>2, UpdatedOut, ZenonT(40)
  <1> HIDE DEF a, r, s, new2
  <1>6. CASE ends
    <2>1. Frm!Min2(Window, m) <= a.dict.size
      BY <1>3, <1>6 DEF HistoryHere
    <2>1a. r = Grown(a, n) /\ a.dict.where = "dst" /\ a.dict.off + a.dict.size = d
      BY <1>5, <1>6
    <2>2. SameButHistory(a, r) /\ r.dict.where = "dst" /\ HistoryHere(r, dst2, m + n)
      BY <1>1, <1>2, <1>4, <2>1, <2>1a, GrownHere
    <2>3. SameButHistory(c, r)
      BY <1>3, <2>2, SameAgain
    <2>4. QED  BY <2>2, <2>3 DEF r, dst2
  <1>7. CASE ~ends /\ d + n >= Window
    <2>1. m + n \in Nat
      OBVIOUS
    <2>2. SameButHistory(a, r) /\ r.dict.where = "dst" /\ HistoryHere(r, dst2, m + n)
      BY <1>1, <1>2, <1>4, <1>5, <1>7, <2>1, RestartHere
    <2>3. SameButHistory(c, r)
      BY <1>3, <2>2, SameAgain
    <2>4. QED  BY <2>2, <2>3 DEF r, dst2
  <1>8. CASE ~ends /\ ~(d + n >= Window)
    <2>1. a.dict.where = "tmp"
      BY <1>3, <1>8
    <2>2. n < Window
      BY <1>1, <1>8
    <2>3. /\ a.dict.off = 0 /\ Fits(a, a.dict.size)
          /\ EndsIn(a.tmp, a.dict.size, m, Frm!Min2(Window, m))
      BY <1>3, <2>1 DEF HistoryHere, Fits
    <2>4. /\ SameButHistory(a, s) /\ s.dict.size + n <= Len(a.tmp)
          /\ Frm!Min2(Window, m + n) <= s.dict.size + n
          /\ Kept(s.tmp, s.dict.size, m, Frm!Min2(Window, m), Window - n)
      BY <1>4, <2>1, <2>2, <2>3, SavedHere DEF s
    <2>5. s \in Contexts /\ Len(s.tmp) = Len(a.tmp)
      BY <2>4 DEF SameButHistory
    <2>6. SameButHistory(s, r) /\ r.dict.where = "tmp" /\ HistoryHere(r, dst2, m + n)
      <3>1. r = TmpWith(s, Frm!Put(s.tmp, s.dict.size, new2), s.dict.size + n)
        BY <1>5, <1>8, <2>1
      <3>2. Fits(s, s.dict.size + n)
        BY <2>4, <2>5 DEF Fits
      <3> DEFINE e == s.dict.size + n
                 p == m + n
                 w == Window - n
      <3>3. Kept(s.tmp, s.dict.size, m, Frm!Min2(Window, m), w) /\ Frm!Min2(Window, p) <= e
        BY <2>4
      <3>4. e = s.dict.size + n /\ p = m + n /\ w = Window - n
        OBVIOUS
      <3> HIDE DEF e, p, w
      <3>5. r = TmpWith(s, Frm!Put(s.tmp, s.dict.size, new2), e) /\ Fits(s, e)
        BY <3>1, <3>2, <3>4
      <3>6. HistoryHere(r, dst2, p) /\ SameButHistory(s, r) /\ r.dict.where = "tmp"
        <4>1. Content(new2, m, n) /\ s \in Contexts /\ n < Window
          BY <1>2, <2>2, <2>5
        <4>2. IsSum(e, s.dict.size, n) /\ IsSum(p, m, n) /\ IsSum(Window, w, n) /\ w \in Int
          BY <1>1, <3>4 DEF IsSum
        <4>3. QED  BY <3>3, <3>5, <4>1, <4>2, MovedHere, ZenonT(40)
      <3>7. QED  BY <3>4, <3>6
    <2>7. SameButHistory(c, r)
      BY <1>3, <2>4, <2>6, SameAgain
    <2>8. QED  BY <2>6, <2>7 DEF r, dst2
  <1>9. QED  BY <1>6, <1>7, <1>8

\* The same within a block that is given out from tmp.
LEMMA AnchoredInBlock ==
    ASSUME Sizes, NEW c \in Contexts, NEW dst \in Seq(Int), NEW m \in Nat, NEW o \in Nat,
           NEW p, p = m + o, Upto(dst, p),
           HistoryInBlock(c, o, dst, m), c.dict.where = "none" => c.dict.size = 0
    PROVE  LET a == Anchored(c, Len(dst))
           IN  /\ SameButHistory(c, a) /\ a.tmp = c.tmp /\ HistoryInBlock(a, o, dst, m)
               /\ a.dict.where = "tmp" \/ (a.dict.where = "dst" /\ a.dict.off + a.dict.size = Len(dst))
  <1> DEFINE a == Anchored(c, Len(dst))
  <1>1. Len(dst) \in Nat /\ Len(dst) <= p /\ Window \in Nat /\ Window > 0
    BY DEF Upto, Sizes
  <1>2. SameButHistory(c, a) /\ a.tmp = c.tmp /\ a \in Contexts
    BY <1>1, AnchoredIs DEF SameButHistory
  <1>3. a.off = c.off /\ a.outSize = c.outSize
    BY <1>2 DEF SameButHistory
  <1>4. CASE c.dict.size = 0
    <2>1. c.off \in Nat /\ c.dict.where \in {"none", "dst", "tmp"}
      BY ContextIs
    <2>2. m = 0 /\ o = 0
      <3>1. CASE c.dict.where = "none"
        BY <3>1 DEF HistoryInBlock
      <3>2. CASE c.dict.where = "dst"
        <4>1. Frm!Min2(Window, m + o) <= 0
          BY <1>4, <3>2 DEF HistoryInBlock
        <4>2. QED  BY <1>1, <4>1 DEF Frm!Min2
      <3>3. CASE c.dict.where = "tmp"
        <4>1. c.off + o = 0 /\ Frm!Min2(Window, m) <= c.off
          BY <1>4, <3>3 DEF HistoryInBlock
        <4>2. QED  BY <1>1, <2>1, <4>1 DEF Frm!Min2
      <3>4. QED  BY <2>1, <3>1, <3>2, <3>3
    <2>3. Len(dst) = 0
      BY <1>1, <2>2
    <2>4. a.dict = [where |-> "dst", off |-> 0, size |-> 0]
      BY <1>1, <1>4, <2>3, AnchoredIs
    <2> HIDE DEF a
    <2>5. Frm!Min2(Window, m) <= a.off /\ Frm!Min2(Window, m + o) <= 0
      BY <1>1, <1>3, <2>1, <2>2 DEF Frm!Min2
    <2>6. HistoryInBlock(a, o, dst, m)
      BY <2>3, <2>4, <2>5 DEF HistoryInBlock
    <2>7. QED  BY <1>2, <2>3, <2>4, <2>6 DEF a
  <1>5. CASE c.dict.size # 0
    <2>1. a = c
      BY <1>1, <1>5, AnchoredIs
    <2> HIDE DEF a
    <2>2. HistoryInBlock(a, o, dst, m)
      BY <2>1
    <2>3. a.dict.where = "tmp" \/ (a.dict.where = "dst" /\ a.dict.off + a.dict.size = Len(dst))
      BY <1>5, <2>1, <2>2, ContextIs DEF HistoryInBlock
    <2>4. QED  BY <1>2, <2>2, <2>3 DEF a
  <1>6. QED  BY <1>4, <1>5

LEMMA GrownInBlock ==
    ASSUME Sizes, NEW a \in Contexts, NEW m \in Nat, NEW o \in Nat, NEW n \in Nat, NEW dst0, NEW dst,
           NEW d \in Nat, Len(dst0) = d, Len(dst) = d + n, a.dict.where = "dst",
           HistoryInBlock(a, o, dst0, m), NEW q, q = o + n
    PROVE  HistoryInBlock(Grown(a, n), q, dst, m)
  <1> DEFINE r == Grown(a, n)
  <1>1. /\ SameButHistory(a, r) /\ r.dict.where = "dst" /\ r.dict.off = a.dict.off
        /\ r.dict.size = a.dict.size + n
    BY GrownIs
  <1>2. a.dict.off \in Nat /\ a.dict.size \in Nat /\ Window \in Nat
    BY ContextIs DEF Sizes
  <1>3. /\ a.dict.off + a.dict.size = d /\ Frm!Min2(Window, m + o) <= a.dict.size
        /\ Frm!Min2(Window, m) <= a.off
    BY DEF HistoryInBlock
  <1> HIDE DEF r
  <1>4. r.off = a.off
    BY <1>1 DEF SameButHistory
  <1>5. Frm!Min2(Window, m + q) <= a.dict.size + n
    <2> DEFINE z == a.dict.size
    <2>1. z \in Nat /\ Window \in Nat /\ (IF Window < m + o THEN Window ELSE m + o) <= z
      BY <1>2, <1>3 DEF Frm!Min2
    <2> HIDE DEF z
    <2>2. (IF Window < m + q THEN Window ELSE m + q) <= z + n
      BY <2>1
    <2>3. QED  BY <2>2 DEF Frm!Min2, z
  <1>6. a.dict.off + (a.dict.size + n) = d + n
    <2> DEFINE x == a.dict.off
               y == a.dict.size
    <2>1. x \in Int /\ y \in Int /\ x + y = d
      BY <1>2, <1>3
    <2> HIDE DEF x, y
    <2>2. x + (y + n) = d + n
      BY <2>1
    <2>3. QED  BY <2>2 DEF x, y
  <1>7. HistoryInBlock(r, q, dst, m)
    BY <1>1, <1>3, <1>4, <1>5, <1>6 DEF HistoryInBlock
  <1>8. QED  BY <1>7 DEF r

LEMMA RestartInBlock ==
    ASSUME Sizes, NEW a \in Contexts, NEW m \in Nat, NEW q \in Nat, NEW dst, NEW e \in Nat,
           Len(dst) = e, e >= Window, Frm!Min2(Window, m) <= a.off
    PROVE  HistoryInBlock(DictAt(a, "dst", 0, e), q, dst, m)
  <1> DEFINE r == DictAt(a, "dst", 0, e)
  <1>0. "dst" \in {"none", "dst", "tmp"} /\ 0 \in Nat
    OBVIOUS
  <1>1. SameButHistory(a, r) /\ r.dict.where = "dst" /\ r.dict.off = 0 /\ r.dict.size = e
    BY <1>0, DictAtIs
  <1> HIDE DEF r
  <1>2. Frm!Min2(Window, m + q) <= e /\ 0 + e = e
    BY DEF Frm!Min2, Sizes
  <1>3. r.off = a.off
    BY <1>1 DEF SameButHistory
  <1>4. HistoryInBlock(r, q, dst, m)
    BY <1>1, <1>2, <1>3 DEF HistoryInBlock
  <1>5. QED  BY <1>4 DEF r

LEMMA TmpInBlock ==
    ASSUME NEW a \in Contexts, NEW m \in Nat, NEW o \in Nat, NEW n \in Nat, NEW dst0, NEW dst,
           a.dict.where = "tmp", HistoryInBlock(a, o, dst0, m), NEW q, q = o + n,
           NEW z, z = a.dict.size + n
    PROVE  HistoryInBlock(DictAt(a, "tmp", 0, z), q, dst, m)
  <1> DEFINE r == DictAt(a, "tmp", 0, z)
  <1>0. "tmp" \in {"none", "dst", "tmp"} /\ 0 \in Nat /\ z \in Nat
    BY ContextIs
  <1>1. SameButHistory(a, r) /\ r.dict.where = "tmp" /\ r.dict.off = 0 /\ r.dict.size = z /\ r.tmp = a.tmp
    BY <1>0, DictAtIs
  <1> HIDE DEF r
  <1>2. a.dict.size = a.off + o /\ a.off \in Nat
    BY ContextIs DEF HistoryInBlock
  <1>3. z = a.off + q
    BY <1>2
  <1>4. r.off = a.off /\ r.outSize = a.outSize
    BY <1>1 DEF SameButHistory
  <1>5. Frm!Min2(Window, m) <= a.off /\ EndsIn(a.tmp, a.off, m, Needed(m, a.outSize))
    BY DEF HistoryInBlock
  <1>6. HistoryInBlock(r, q, dst, m)
    BY <1>1, <1>3, <1>4, <1>5 DEF HistoryInBlock
  <1>7. QED  BY <1>6 DEF r

LEMMA UpdatedInBlock ==
    ASSUME Sizes, NEW c \in Contexts, NEW dst \in Seq(Int), NEW m \in Nat, NEW o \in Nat,
           NEW p, IsSum(p, m, o), Upto(dst, p), NEW n \in Nat, NEW new, Content(new, p, n),
           HistoryInBlock(c, o, dst, m), c.dict.where = "none" => c.dict.size = 0, NEW q, IsSum(q, o, n)
    PROVE  /\ SameButHistory(c, Frm!Updated(c, dst \o new, n, TRUE))
           /\ Frm!Updated(c, dst \o new, n, TRUE).tmp = c.tmp
           /\ Frm!Updated(c, dst \o new, n, TRUE).dict.where # "none"
           /\ HistoryInBlock(Frm!Updated(c, dst \o new, n, TRUE), q, dst \o new, m)
  <1> DEFINE d == Len(dst)
             a == Anchored(c, d)
             dst2 == dst \o new
             r == Frm!Updated(c, dst2, n, TRUE)
             ends == a.dict.where = "dst" /\ a.dict.off + a.dict.size = d
  <1>0. p = m + o /\ q = o + n /\ p \in Nat /\ q \in Nat
    BY DEF IsSum
  <1>1. d \in Nat /\ Window \in Nat /\ d + n \in Nat
    BY DEF Sizes
  <1>2. dst2 \in Seq(Int) /\ Len(dst2) = d + n
    BY <1>0, GoesOn
  <1>3. /\ SameButHistory(c, a) /\ a.tmp = c.tmp /\ HistoryInBlock(a, o, dst, m)
        /\ a.dict.where = "tmp" \/ ends
    BY <1>0, AnchoredInBlock
  <1>4. a \in Contexts /\ Frm!Min2(Window, m) <= a.off
    BY <1>3 DEF SameButHistory, HistoryInBlock
  <1>6. Len(dst) = d
    OBVIOUS
  <1> HIDE DEF dst2, d
  <1>5. /\ ends => r = Grown(a, n)
        /\ ~ends /\ d + n >= Window => r = DictAt(a, "dst", 0, d + n)
        /\ ~ends /\ ~(d + n >= Window) /\ a.dict.where = "tmp" => r = DictAt(a, "tmp", 0, a.dict.size + n)
    <2>1. c \in Contexts /\ dst2 \in Seq(Int) /\ n \in Nat /\ d \in Nat /\ Window \in Nat
      BY <1>1, <1>2
    <2>2. IsSum(Len(dst2), d, n)
      BY <1>2 DEF IsSum
    <2>3. QED  BY <2>1, <2>2, UpdatedIn, ZenonT(40)
  <1> HIDE DEF a, r
  <1>7. CASE ends
    <2>1. r = Grown(a, n) /\ a.dict.where = "dst"
      BY <1>5, <1>7
    <2>2. SameButHistory(a, r) /\ r.tmp = a.tmp /\ r.dict.where = "dst"
      BY <1>4, <2>1, GrownIs
    <2>3. HistoryInBlock(r, q, dst2, m)
      BY <1>0, <1>1, <1>2, <1>3, <1>4, <1>6, <2>1, GrownInBlock
    <2>4. SameButHistory(c, r)
      BY <1>3, <2>2, SameAgain
    <2>5. QED  BY <1>3, <2>2, <2>3, <2>4 DEF r, dst2
  <1>8. CASE ~ends /\ d + n >= Window
    <2> DEFINE e == d + n
    <2>1. r = DictAt(a, "dst", 0, e) /\ e \in Nat /\ e >= Window /\ Len(dst2) = e
      BY <1>1, <1>2, <1>5, <1>8
    <2>2. "dst" \in {"none", "dst", "tmp"} /\ 0 \in Nat
      OBVIOUS
    <2> HIDE DEF e
    <2>2a. a \in Contexts /\ r = DictAt(a, "dst", 0, e) /\ e \in Nat
      BY <1>4, <2>1
    <2>3. SameButHistory(a, r) /\ r.tmp = a.tmp /\ r.dict.where = "dst"
      BY <2>2, <2>2a, DictAtIs, SMTT(30)
    <2>4. HistoryInBlock(r, q, dst2, m)
      BY <1>0, <1>4, <2>1, RestartInBlock
    <2>5. SameButHistory(c, r)
      BY <1>3, <2>3, SameAgain
    <2>6. QED  BY <1>3, <2>3, <2>4, <2>5 DEF r, dst2
  <1>9. CASE ~ends /\ ~(d + n >= Window)
    <2> DEFINE z == a.dict.size + n
    <2>1. a.dict.where = "tmp"
      BY <1>3, <1>9
    <2>2. r = DictAt(a, "tmp", 0, z) /\ z \in Nat /\ z = a.dict.size + n
      <3>1. a.dict.size \in Nat
        BY <1>4, ContextIs
      <3>2. r = DictAt(a, "tmp", 0, z)
        BY <1>5, <1>9, <2>1
      <3>3. QED  BY <3>1, <3>2
    <2>3. "tmp" \in {"none", "dst", "tmp"} /\ 0 \in Nat
      OBVIOUS
    <2> HIDE DEF z
    <2>3a. a \in Contexts /\ r = DictAt(a, "tmp", 0, z) /\ z \in Nat
      BY <1>4, <2>2
    <2>4. SameButHistory(a, r) /\ r.tmp = a.tmp /\ r.dict.where = "tmp"
      BY <2>3, <2>3a, DictAtIs, SMTT(30)
    <2>5. HistoryInBlock(r, q, dst2, m)
      BY <1>0, <1>3, <1>4, <2>1, <2>2, TmpInBlock
    <2>6. SameButHistory(c, r)
      BY <1>3, <2>4, SameAgain
    <2>7. QED  BY <1>3, <2>4, <2>5, <2>6 DEF r, dst2
  <1>10. QED  BY <1>7, <1>8, <1>9

-----------------------------------------------------------------------------
(* A block that is decoded.                                                *)

LEMMA Mirrored ==
    ASSUME NEW e \in Int, NEW n \in Int, NEW k \in 1..n, NEW m \in Int, NEW L \in Int, n <= e, e <= L
    PROVE  /\ e - n + k \in 1..L /\ n - k + 1 \in 1..n
           /\ e - (n - k + 1) + 1 = e - n + k /\ m - (n - k + 1) = (m - n) + k - 1
           /\ m - e + (e - n + k) - 1 = (m - n) + k - 1
  OBVIOUS

\* What the decoder finds in the dictionary is the content.
LEMMA HistoryRead ==
    ASSUME Sizes, NEW c \in Contexts, NEW dst \in Seq(Int), NEW m \in Nat, Upto(dst, m),
           HistoryHere(c, dst, m), c.dict.where = "none" => c.dict.size = 0
    PROVE  /\ c.dict.size >= Frm!Min2(Window, m)
           /\ Frm!DictBytes(c, dst, Frm!DictEnd(c), Frm!Min2(Window, m))
                = Frm!Span(m - Frm!Min2(Window, m), Frm!Min2(Window, m))
  <1> DEFINE n == Frm!Min2(Window, m)
             e == c.dict.off + c.dict.size
             r == Frm!DictBytes(c, dst, e, n)
             t == Frm!Span(m - n, n)
             s == c.dict.size
  <1>1. n \in Nat /\ n <= m
    BY DEF Frm!Min2, Sizes
  <1>2. /\ c.dict.where \in {"none", "dst", "tmp"} /\ s \in Nat /\ c.dict.off \in Nat
        /\ c.tmp \in Seq(Int) /\ e \in Nat /\ s <= e
    <2>1. /\ c.dict.where \in {"none", "dst", "tmp"} /\ c.dict.size \in Nat /\ c.dict.off \in Nat
          /\ c.tmp \in Seq(Int)
      BY ContextIs
    <2>2. s \in Nat /\ c.dict.off \in Nat
      BY <2>1
    <2>3. e \in Nat /\ s <= e
      <3> DEFINE x == c.dict.off
      <3>1. x \in Nat /\ s \in Nat /\ e = x + s
        BY <2>2
      <3> HIDE DEF x, s, e
      <3>2. QED  BY <3>1
    <2>4. QED  BY <2>1, <2>2, <2>3
  <1>3. Frm!DictEnd(c) = e
    BY DEF Frm!DictEnd
  <1>4. t \in Seq(Int) /\ Len(t) = n /\ \A k \in 1..n : t[k] = (m - n) + k - 1
    <2>1. m - n \in Int
      BY <1>1
    <2> HIDE DEF n
    <2>2. QED  BY <1>1, <2>1, SpanIs
  <1>5. CASE c.dict.where = "tmp"
    <2>1. e = s /\ s <= Len(c.tmp) /\ EndsIn(c.tmp, s, m, n)
      BY <1>2, <1>5 DEF HistoryHere
    <2>2. /\ r \in Seq(Int) /\ Len(r) = n
          /\ \A k \in 1..n : e - n + k \in 1..Len(c.tmp) => r[k] = c.tmp[e - n + k]
      <3>1. e \in Int
        BY <1>2
      <3> HIDE DEF e, n
      <3>2. c \in Contexts /\ c.dict.where = "tmp" /\ n \in Nat
        BY <1>1, <1>5
      <3>3. QED  BY <3>1, <3>2, TmpBytesAre, SMTT(30)
    <2>3. n <= s /\ \A k \in 1..n : c.tmp[s - k + 1] = m - k
      BY <2>1 DEF EndsIn
    <2>4. Len(c.tmp) \in Int
      BY <1>2
    <2> HIDE DEF n, e, r, t, s
    <2>5. ASSUME NEW k \in 1..n PROVE r[k] = t[k]
      <3> DEFINE j == n - k + 1
                 l == Len(c.tmp)
      <3>0. e \in Int /\ n \in Int /\ m \in Int /\ l \in Int /\ n <= e /\ e <= l
        BY <1>1, <1>2, <2>1, <2>3, <2>4
      <3> HIDE DEF l
      <3>1. /\ e - n + k \in 1..l /\ j \in 1..n
            /\ e - j + 1 = e - n + k /\ m - j = (m - n) + k - 1
        BY <3>0, Mirrored
      <3> HIDE DEF j
      <3>2. r[k] = c.tmp[e - n + k] /\ c.tmp[e - j + 1] = m - j
        BY <2>1, <2>2, <2>3, <3>1 DEF l
      <3>3. QED  BY <1>4, <3>1, <3>2
    <2>6. r = t
      BY <1>4, <2>2, <2>5, SeqEqual
    <2>7. QED  BY <1>1, <1>2, <1>3, <2>3, <2>6 DEF n, e, r, t, s
  <1>6. CASE c.dict.where # "tmp"
    <2>1. /\ r \in Seq(Int) /\ Len(r) = n
          /\ \A k \in 1..n : e - n + k \in 1..Len(dst) => r[k] = dst[e - n + k]
      <3>1. e \in Int
        BY <1>2
      <3> HIDE DEF e, n
      <3>2. c.dict.where # "tmp" /\ dst \in Seq(Int) /\ n \in Nat
        BY <1>1, <1>6
      <3>3. QED  BY <3>1, <3>2, DstBytesAre, ZenonT(40)
    <2>2. n <= s /\ (n = 0 \/ e = Len(dst))
      BY <1>1, <1>2, <1>6 DEF HistoryHere
    <2>3. Len(dst) \in Nat /\ \A k \in 1..Len(dst) : dst[k] = m - Len(dst) + k - 1
      BY DEF Upto
    <2> HIDE DEF n, e, r, t, s
    <2>4. ASSUME NEW k \in 1..n PROVE r[k] = t[k]
      <3>0. e \in Int /\ n \in Int /\ m \in Int /\ n <= e /\ e = Len(dst)
        BY <1>1, <1>2, <2>2
      <3>1. e - n + k \in 1..e /\ m - e + (e - n + k) - 1 = (m - n) + k - 1
        BY <3>0, Mirrored
      <3>2. r[k] = dst[e - n + k] /\ dst[e - n + k] = m - e + (e - n + k) - 1
        BY <2>1, <2>3, <3>0, <3>1
      <3>3. QED  BY <1>4, <3>1, <3>2
    <2>5. r = t
      BY <1>4, <2>1, <2>4, SeqEqual
    <2>6. QED  BY <1>1, <1>2, <1>3, <2>2, <2>5 DEF n, e, r, t, s
  <1>7. QED  BY <1>5, <1>6

-----------------------------------------------------------------------------
(* Bytes that are copied.                                                  *)

\* The n bytes up to position e of a buffer of l bytes, where there are any.
CopyOf(b, buf, e, n, l) == \A k \in 1..n : e - n + k \in 1..l => b[k] = buf[e - n + k]

\* A buffer has e bytes.
Reaches(buf, e) == e <= Len(buf)

\* A copy of the end of something has the same end.
LEMMA CopyEnds ==
    ASSUME NEW e \in Nat, NEW n \in Nat, NEW l \in Nat, NEW m \in Int, NEW h \in Int, NEW b, NEW buf,
           CopyOf(b, buf, e, n, l), EndsIn(buf, e, m, h), h <= n, e <= l
    PROVE  EndsIn(b, n, m, h)
  <1>1. h <= e /\ \A k \in 1..h : buf[e - k + 1] = m - k
    BY DEF EndsIn
  <1>2. ASSUME NEW k \in 1..h PROVE b[n - k + 1] = m - k
    <2> DEFINE j == n - k + 1
    <2>1. j \in 1..n /\ e - n + j \in 1..l /\ e - n + j = e - k + 1
      BY <1>1
    <2> HIDE DEF j
    <2>2. b[j] = buf[e - n + j]
      BY <2>1 DEF CopyOf
    <2>3. b[j] = m - k
      BY <1>1, <2>1, <2>2
    <2>4. QED  BY <2>3 DEF j
  <1>3. QED  BY <1>2 DEF EndsIn

\* The end of the output, or of all but the last o bytes of it.
LEMMA UptoEnds ==
    ASSUME NEW dst \in Seq(Int), NEW m \in Int, NEW o \in Nat, NEW p, p = m + o, Upto(dst, p),
           NEW h \in Int, NEW e \in Int, e + o = Len(dst), h <= e
    PROVE  EndsIn(dst, e, m, h)
  <1> DEFINE L == Len(dst)
  <1>1. L \in Nat /\ e + o = L
    OBVIOUS
  <1>2. \A k \in 1..L : dst[k] = p - L + k - 1
    BY DEF Upto
  <1> HIDE DEF L
  <1>3. ASSUME NEW k \in 1..h PROVE dst[e - k + 1] = m - k
    <2> DEFINE j == e - k + 1
    <2>1. j \in 1..L /\ p - L + j - 1 = m - k
      BY <1>1
    <2> HIDE DEF j
    <2>2. dst[j] = m - k
      BY <1>2, <2>1
    <2>3. QED  BY <2>2 DEF j
  <1>4. QED  BY <1>3 DEF EndsIn

\* What is put into a buffer is there, and what is in front of it or behind stays.
LEMMA PutEnds ==
    ASSUME NEW t, NEW buf \in Seq(Int), NEW to \in Nat, NEW b \in Seq(Int), Replaced(t, buf, to, b),
           NEW n \in Nat, Len(b) = n, NEW e, IsSum(e, to, n), Reaches(buf, e),
           NEW m \in Int, NEW h \in Int, EndsIn(b, n, m, h)
    PROVE  EndsIn(t, e, m, h)
  <1> DEFINE L == Len(buf)
  <1>1. L \in Nat /\ e <= L /\ e = to + n
    BY DEF Reaches, IsSum
  <1>2. \A k \in 1..L : k - to \in 1..n => t[k] = b[k - to]
    BY DEF Replaced
  <1>3. h <= n /\ \A k \in 1..h : b[n - k + 1] = m - k
    BY DEF EndsIn
  <1> HIDE DEF L
  <1>4. ASSUME NEW k \in 1..h PROVE t[e - k + 1] = m - k
    <2> DEFINE j == e - k + 1
    <2>1. j \in 1..L /\ j - to \in 1..n /\ j - to = n - k + 1
      BY <1>1, <1>3
    <2> HIDE DEF j
    <2>2. t[j] = m - k
      BY <1>2, <1>3, <2>1
    <2>3. QED  BY <2>2 DEF j
  <1>5. h <= e
    BY <1>1, <1>3
  <1>6. QED  BY <1>4, <1>5 DEF EndsIn

LEMMA PutStarts ==
    ASSUME NEW t, NEW buf \in Seq(Int), NEW to \in Nat, NEW b \in Seq(Int), Replaced(t, buf, to, b),
           NEW m \in Int, NEW n \in Nat, n <= Len(b), StartsAt(b, 0, m, n),
           NEW e, IsSum(e, to, n), Reaches(buf, e)
    PROVE  StartsAt(t, to, m, n)
  <1> DEFINE L == Len(buf)
             N == Len(b)
  <1>1. L \in Nat /\ N \in Nat /\ e <= L /\ n <= N /\ e = to + n
    BY DEF Reaches, IsSum
  <1>2. \A k \in 1..L : k - to \in 1..N => t[k] = b[k - to]
    BY DEF Replaced
  <1>3. \A k \in 1..n : b[0 + k] = m + k - 1
    BY DEF StartsAt
  <1> HIDE DEF L, N
  <1>4. ASSUME NEW k \in 1..n PROVE t[to + k] = m + k - 1
    <2>1. to + k \in 1..L /\ (to + k) - to \in 1..N /\ (to + k) - to = k /\ 0 + k = k
      BY <1>1
    <2>2. QED  BY <1>2, <1>3, <2>1
  <1>5. QED  BY <1>4 DEF StartsAt

LEMMA InFrontOfPut ==
    ASSUME NEW t, NEW buf \in Seq(Int), NEW to \in Nat, NEW b \in Seq(Int), Replaced(t, buf, to, b),
           NEW e \in Nat, e <= to, Reaches(buf, e),
           NEW m \in Int, NEW h \in Int, EndsIn(buf, e, m, h)
    PROVE  EndsIn(t, e, m, h)
  <1> DEFINE L == Len(buf)
             N == Len(b)
  <1>1. L \in Nat /\ N \in Nat /\ e <= L
    BY DEF Reaches
  <1>2. \A k \in 1..L : ~(k - to \in 1..N) => t[k] = buf[k]
    BY DEF Replaced
  <1>3. h <= e /\ \A k \in 1..h : buf[e - k + 1] = m - k
    BY DEF EndsIn
  <1> HIDE DEF L, N
  <1>4. ASSUME NEW k \in 1..h PROVE t[e - k + 1] = m - k
    <2> DEFINE j == e - k + 1
    <2>1. j \in 1..L /\ ~(j - to \in 1..N)
      BY <1>1, <1>3
    <2> HIDE DEF j
    <2>2. t[j] = buf[j]
      BY <1>2, <2>1
    <2>3. QED  BY <1>3, <2>2 DEF j
  <1>5. QED  BY <1>3, <1>4 DEF EndsIn

LEMMA BehindPut ==
    ASSUME NEW t, NEW buf \in Seq(Int), NEW to \in Nat, NEW b \in Seq(Int), Replaced(t, buf, to, b),
           NEW q \in Nat, to + Len(b) <= q, NEW m \in Int, NEW n \in Nat,
           NEW e, IsSum(e, q, n), Reaches(buf, e), StartsAt(buf, q, m, n)
    PROVE  StartsAt(t, q, m, n)
  <1> DEFINE L == Len(buf)
             N == Len(b)
  <1>1. L \in Nat /\ N \in Nat /\ e <= L /\ to + N <= q /\ e = q + n
    BY DEF Reaches, IsSum
  <1>2. \A k \in 1..L : ~(k - to \in 1..N) => t[k] = buf[k]
    BY DEF Replaced
  <1> HIDE DEF L, N
  <1>3. ASSUME NEW k \in 1..n PROVE t[q + k] = m + k - 1
    <2>1. q + k \in 1..L /\ ~((q + k) - to \in 1..N)
      BY <1>1
    <2>2. t[q + k] = buf[q + k]
      BY <1>2, <2>1
    <2>3. QED  BY <2>2 DEF StartsAt
  <1>4. QED  BY <1>3 DEF StartsAt

-----------------------------------------------------------------------------
(* A block that is decoded into tmp.                                       *)

\* What Truncated does to a context.
CutOf(c) ==
    IF c.dict.where # "tmp" THEN [c EXCEPT !.off = Frm!Min2(c.dict.size, Window)]
    ELSE IF c.dict.size > 2 * Window
    THEN Frm!InTmp([c EXCEPT !.off = Window,
                             !.tmp = Frm!Put(@, 0, Frm!DictBytes(c, <<>>, c.dict.size, Window))], Window)
    ELSE [c EXCEPT !.off = c.dict.size]

\* Only the history has changed, and where a block goes.
SameButPlace(c, r) ==
    /\ r \in Contexts /\ Len(r.tmp) = Len(c.tmp)
    /\ r.stage = c.stage /\ r.inSize = c.inSize /\ r.inTarget = c.inTarget /\ r.left = c.left
    /\ r.outStart = c.outStart /\ r.outSize = c.outSize

\* A context with another buffer, another place for blocks and history in front of it.
PlacedAt(c, t, o, n) ==
    Frm!InTmp([c EXCEPT !.off = o, !.tmp = t], n)

LEMMA PlacedAtIs ==
    ASSUME NEW c \in Contexts, NEW t \in Seq(Int), Len(t) = Len(c.tmp), NEW o \in Nat, NEW n \in Nat
    PROVE  /\ SameButPlace(c, PlacedAt(c, t, o, n))
           /\ PlacedAt(c, t, o, n).tmp = t /\ PlacedAt(c, t, o, n).off = o
           /\ PlacedAt(c, t, o, n).dict.where = "tmp" /\ PlacedAt(c, t, o, n).dict.off = 0
           /\ PlacedAt(c, t, o, n).dict.size = n
  BY DEF Contexts, Dicts, SameButPlace, PlacedAt, Frm!InTmp

LEMMA OffIs ==
    ASSUME NEW c \in Contexts, NEW o \in Nat
    PROVE  /\ SameButPlace(c, [c EXCEPT !.off = o]) /\ [c EXCEPT !.off = o].off = o
           /\ [c EXCEPT !.off = o].tmp = c.tmp /\ [c EXCEPT !.off = o].dict = c.dict
  BY DEF Contexts, SameButPlace

\* The history in front of the place for the next block.
LEMMA CutHere ==
    ASSUME Sizes, NEW c \in Contexts, NEW m \in Nat, NEW dst, HistoryHere(c, dst, m),
           c.dict.where = "none" => c.dict.size = 0, Fits(c, Window)
    PROVE  /\ SameButPlace(c, CutOf(c)) /\ HistoryHere(CutOf(c), dst, m)
           /\ CutOf(c).off <= 2 * Window /\ Frm!Min2(Window, m) <= CutOf(c).off
           /\ CutOf(c).dict.where = "none" => CutOf(c).dict.size = 0
           /\ CutOf(c).dict.where = "tmp" => CutOf(c).dict.size = CutOf(c).off
  <1> DEFINE T == CutOf(c)
             s == c.dict.size
             h == Frm!Min2(Window, m)
  <1>1. Window \in Nat /\ Window > 0 /\ s \in Nat /\ c.dict.where \in {"none", "dst", "tmp"}
    BY ContextIs DEF Sizes
  <1>2. h \in Nat /\ h <= Window /\ h <= m
    BY <1>1 DEF Frm!Min2
  <1>3. CASE c.dict.where # "tmp"
    <2> DEFINE o == Frm!Min2(s, Window)
    <2>1. T = [c EXCEPT !.off = o]
      BY <1>3 DEF CutOf
    <2>2. h <= s
      BY <1>1, <1>3 DEF HistoryHere, Frm!Min2
    <2>3. o \in Nat /\ o <= 2 * Window /\ h <= o
      <3>1. o = IF s < Window THEN s ELSE Window
        BY DEF Frm!Min2
      <3> HIDE DEF o, h, s
      <3>2. QED  BY <1>1, <1>2, <2>2, <3>1
    <2> HIDE DEF o
    <2>4. SameButPlace(c, T) /\ T.off = o /\ T.tmp = c.tmp /\ T.dict = c.dict
      BY <2>1, <2>3, OffIs
    <2> HIDE DEF T, h, s
    <2>5. HistoryHere(T, dst, m)
      BY <2>4 DEF HistoryHere
    <2>6. QED  BY <1>3, <2>3, <2>4, <2>5 DEF T, h
  <1>4. CASE c.dict.where = "tmp" /\ s > 2 * Window
    <2> DEFINE b == Frm!DictBytes(c, <<>>, s, Window)
               t == Frm!Put(c.tmp, 0, b)
    <2>1. T = PlacedAt(c, t, Window, Window)
      BY <1>4 DEF CutOf, PlacedAt
    <2>2. /\ b \in Seq(Int) /\ Len(b) = Window
          /\ \A k \in 1..Window : s - Window + k \in 1..Len(c.tmp) => b[k] = c.tmp[s - Window + k]
      <3>1. s \in Int
        BY <1>1
      <3> HIDE DEF s
      <3>2. QED  BY <1>1, <1>4, <3>1, EndOfTmp
    <2>3. c.tmp \in Seq(Int) /\ Len(c.tmp) \in Nat
      BY ContextIs
    <2>4. EndsIn(c.tmp, s, m, h) /\ s <= Len(c.tmp)
      BY <1>4 DEF HistoryHere
    <2> HIDE DEF b
    <2>5. Replaced(t, c.tmp, 0, b)
      <3>1. 0 \in Int
        OBVIOUS
      <3>2. QED  BY <2>2, <2>3, <3>1, PutIs
    <2> HIDE DEF t, s, h
    <2>6. EndsIn(t, Window, m, h)
      <3>1. CopyOf(b, c.tmp, s, Window, Len(c.tmp))
        BY <2>2 DEF CopyOf
      <3>2. EndsIn(b, Window, m, h)
        <4>1. s \in Nat /\ Window \in Nat /\ Len(c.tmp) \in Nat /\ m \in Int /\ h \in Int /\ h <= Window
          BY <1>1, <1>2, <2>3
        <4>2. QED  BY <2>4, <3>1, <4>1, CopyEnds
      <3>3. Reaches(c.tmp, Window)
        BY DEF Fits, Reaches
      <3>4. 0 \in Nat /\ IsSum(Window, 0, Window) /\ m \in Int /\ h \in Int
        BY <1>1, <1>2 DEF IsSum
      <3>5. QED  BY <1>1, <2>2, <2>3, <2>5, <3>2, <3>3, <3>4, PutEnds
    <2>7. /\ SameButPlace(c, T) /\ T.tmp = t /\ T.off = Window /\ T.dict.where = "tmp"
          /\ T.dict.off = 0 /\ T.dict.size = Window
      <3>1. t \in Seq(Int) /\ Len(t) = Len(c.tmp)
        BY <2>5 DEF Replaced
      <3>2. QED  BY <1>1, <2>1, <3>1, PlacedAtIs
    <2> HIDE DEF T
    <2>8. Window <= Len(T.tmp)
      BY <2>7 DEF Fits, SameButPlace
    <2>9. HistoryHere(T, dst, m)
      BY <2>6, <2>7, <2>8 DEF HistoryHere, h
    <2>10. Window <= 2 * Window
      BY <1>1
    <2>11. QED  BY <1>2, <2>7, <2>9, <2>10 DEF T, h
  <1>5. CASE c.dict.where = "tmp" /\ ~(s > 2 * Window)
    <2>1. T = [c EXCEPT !.off = s]
      BY <1>5 DEF CutOf
    <2>2. h <= s
      BY <1>5 DEF HistoryHere, EndsIn
    <2>3. SameButPlace(c, T) /\ T.off = s /\ T.tmp = c.tmp /\ T.dict = c.dict
      BY <1>1, <2>1, OffIs
    <2>4. s <= 2 * Window
      BY <1>1, <1>5
    <2> HIDE DEF T
    <2>5. HistoryHere(T, dst, m)
      BY <2>3 DEF HistoryHere
    <2>6. QED  BY <1>5, <2>2, <2>3, <2>4, <2>5 DEF T, h
  <1>6. QED  BY <1>1, <1>3, <1>4, <1>5

\* The block is put into tmp.
LEMMA BlockInTmp ==
    ASSUME Sizes, NEW c \in Contexts, NEW m \in Nat, NEW n \in Nat, Fits(c, c.off + MaxBlock),
           NEW b \in Seq(Int), Len(b) = MaxBlock, n <= MaxBlock, StartsAt(b, 0, m, n),
           NEW r \in Contexts, r.off = c.off, r.outSize = n, r.tmp = Frm!Put(c.tmp, c.off, b)
    PROVE  BlockHere(r, m)
  <1> DEFINE o == c.off
             t == r.tmp
             e == o + n
  <1>1. o \in Nat /\ c.tmp \in Seq(Int) /\ Len(c.tmp) \in Nat /\ MaxBlock \in Nat
    BY ContextIs DEF Sizes
  <1>2. Replaced(t, c.tmp, o, b)
    <2>1. o \in Int
      BY <1>1
    <2>2. QED  BY <1>1, <2>1, PutIs
  <1>3. e \in Nat /\ e <= Len(c.tmp) /\ o <= Len(c.tmp)
    BY <1>1 DEF Fits
  <1>4. Len(t) = Len(c.tmp)
    BY <1>2 DEF Replaced
  <1> HIDE DEF t, e
  <1>5. StartsAt(t, o, m, n)
    <2>1. Reaches(c.tmp, e) /\ IsSum(e, o, n)
      BY <1>3 DEF Reaches, IsSum, e
    <2>2. m \in Int /\ n <= Len(b)
      OBVIOUS
    <2> HIDE DEF o
    <2>3. QED  BY <1>1, <1>2, <2>1, <2>2, PutStarts
  <1>6. QED
    <2>1. r.outSize <= MaxBlock /\ r.off + r.outSize <= Len(r.tmp)
      BY <1>3, <1>4 DEF e, t
    <2>2. QED  BY <1>5, <2>1 DEF BlockHere, t

\* The block is put behind the history that is in front of its place.
LEMMA IntoTmp ==
    ASSUME Sizes, NEW c \in Contexts, NEW m \in Nat, NEW dst, HistoryHere(c, dst, m),
           Frm!Min2(Window, m) <= c.off, c.dict.where = "tmp" => c.dict.size = c.off,
           NEW n \in Nat, Fits(c, c.off + MaxBlock),
           NEW b \in Seq(Int), Len(b) = MaxBlock, n <= MaxBlock, StartsAt(b, 0, m, n),
           NEW r \in Contexts, r.dict = c.dict, r.off = c.off, r.outSize = n,
           r.tmp = Frm!Put(c.tmp, c.off, b)
    PROVE  HistoryInBlock(r, 0, dst, m)
  <1> DEFINE o == c.off
             t == r.tmp
             e == o + n
             h == Frm!Min2(Window, m)
             g == Needed(m, n)
  <1>1. o \in Nat /\ c.tmp \in Seq(Int) /\ Len(c.tmp) \in Nat /\ MaxBlock \in Nat /\ Window \in Nat
    BY ContextIs DEF Sizes
  <1>2. Replaced(t, c.tmp, o, b)
    <2>1. o \in Int
      BY <1>1
    <2>2. QED  BY <1>1, <2>1, PutIs
  <1>3. e \in Nat /\ e <= Len(c.tmp) /\ o <= Len(c.tmp)
    BY <1>1 DEF Fits
  <1> HIDE DEF t, e, h, g
  <1>4. h \in Int /\ g \in Int /\ g <= h /\ h <= o /\ (m = 0 => h = 0)
    BY <1>1 DEF h, g, Needed, Frm!Min2
  <1>5. ASSUME c.dict.where = "tmp" PROVE EndsIn(t, o, m, g)
    <2>1. EndsIn(c.tmp, o, m, h)
      BY <1>5 DEF HistoryHere, h
    <2>2. EndsIn(c.tmp, o, m, g)
      BY <1>1, <1>4, <2>1 DEF EndsIn
    <2>3. Reaches(c.tmp, o) /\ o <= o /\ m \in Int
      BY <1>1, <1>3 DEF Reaches
    <2> HIDE DEF o
    <2>4. QED  BY <1>1, <1>2, <1>4, <2>2, <2>3, InFrontOfPut
  <1>6. HistoryInBlock(r, 0, dst, m)
    <2>1. r.dict.where = c.dict.where /\ r.dict.off = c.dict.off /\ r.dict.size = c.dict.size
      OBVIOUS
    <2>2. r.dict.where = "none" => m + 0 = 0
      BY <2>1 DEF HistoryHere
    <2>3. r.dict.where = "dst" =>
            r.dict.off + r.dict.size = Len(dst) /\ Frm!Min2(Window, m + 0) <= r.dict.size
      <3>1. m + 0 = m
        OBVIOUS
      <3>2. QED  BY <2>1, <3>1 DEF HistoryHere
    <2>4. r.dict.where = "tmp" => /\ r.dict.off = 0 /\ r.dict.size = r.off + 0
                                 /\ EndsIn(r.tmp, r.off, m, Needed(m, r.outSize))
      <3>1. o + 0 = o
        BY <1>1
      <3>2. QED  BY <1>5, <2>1, <3>1 DEF HistoryHere, t, g
    <2>5. Frm!Min2(Window, m) <= r.off
      BY <1>4 DEF h
    <2>6. QED  BY <2>2, <2>3, <2>4, <2>5 DEF HistoryInBlock
  <1>7. QED  BY <1>6

\* A block that has been given out is history.
LEMMA FlushEnds ==
    ASSUME Sizes, NEW c \in Contexts, NEW m \in Nat, NEW dst, NEW n \in Nat, n = c.outSize,
           BlockHere(c, m), HistoryInBlock(c, n, dst, m), NEW p, p = m + n
    PROVE  HistoryHere(c, dst, p)
  <1> DEFINE o == c.off
             h == Frm!Min2(Window, p)
             g == Needed(m, n)
             t == c.tmp
             e == o + n
  <1>1. o \in Nat /\ Window \in Nat /\ p \in Nat
    BY ContextIs DEF Sizes
  <1>2. Frm!Min2(Window, m) <= o /\ StartsAt(t, o, m, n) /\ e <= Len(t)
    BY DEF HistoryInBlock, BlockHere
  <1>3. h = (IF Window < p THEN Window ELSE p)
    BY DEF Frm!Min2
  <1>4. g = IF n >= Window THEN 0 ELSE IF Window - n < m THEN Window - n ELSE m
    BY DEF Needed, Frm!Min2
  <1>5. (IF Window < m THEN Window ELSE m) <= o
    BY <1>2 DEF Frm!Min2
  <1> HIDE DEF t, h, g
  <1>6. ASSUME c.dict.where = "tmp", EndsIn(t, o, m, g) PROVE EndsIn(t, e, p, h)
    <2>1. \A k \in 1..g : t[o - k + 1] = m - k
      BY <1>6 DEF EndsIn
    <2>2. \A k \in 1..n : t[o + k] = m + k - 1
      BY <1>2 DEF StartsAt
    <2>3. h \in Int /\ g \in Int /\ h <= e
      BY <1>1, <1>3, <1>4, <1>5
    <2>4. ASSUME NEW k \in 1..h PROVE t[e - k + 1] = p - k
      <3>1. CASE k <= n
        <4> DEFINE j == n - k + 1
        <4>1. j \in 1..n /\ o + j = e - k + 1 /\ m + j - 1 = p - k
          BY <1>1, <2>3, <3>1
        <4> HIDE DEF j
        <4>2. QED  BY <2>2, <4>1
      <3>2. CASE ~(k <= n)
        <4> DEFINE j == k - n
        <4>1. j \in 1..g /\ o - j + 1 = e - k + 1 /\ m - j = p - k
          BY <1>1, <1>3, <1>4, <2>3, <3>2
        <4> HIDE DEF j
        <4>2. QED  BY <2>1, <4>1
      <3>3. QED  BY <3>1, <3>2
    <2>5. QED  BY <2>3, <2>4 DEF EndsIn
  <1>7. c.dict.where = "none" => p = 0
    BY DEF HistoryInBlock
  <1>8. c.dict.where = "dst" => c.dict.off + c.dict.size = Len(dst) /\ h <= c.dict.size
    BY DEF HistoryInBlock, h
  <1>9. c.dict.where = "tmp" => c.dict.off = 0 /\ c.dict.size = e /\ EndsIn(t, o, m, g)
    BY DEF HistoryInBlock, t, g
  <1> HIDE DEF o, e
  <1>10. c.dict.where = "tmp" => c.dict.off = 0 /\ c.dict.size <= Len(c.tmp) /\ EndsIn(c.tmp, c.dict.size, p, h)
    BY <1>2, <1>6, <1>9 DEF t
  <1>11. QED  BY <1>7, <1>8, <1>10 DEF HistoryHere, h

-----------------------------------------------------------------------------
(* The end of a call: history in the caller's buffer is brought to tmp.    *)

LEMMA DstBytes ==
    ASSUME NEW c, c.dict.where = "dst", NEW dst \in Seq(Int), NEW e \in Int, NEW n \in Nat,
           NEW b, b = Frm!DictBytes(c, dst, e, n)
    PROVE  b \in Seq(Int) /\ Len(b) = n /\ CopyOf(b, dst, e, n, Len(dst))
  <1>1. c.dict.where # "tmp"
    OBVIOUS
  <1>2. /\ b \in Seq(Int) /\ Len(b) = n
        /\ \A k \in 1..n : e - n + k \in 1..Len(dst) => b[k] = dst[e - n + k]
    BY <1>1, DstBytesAre
  <1>3. QED  BY <1>2 DEF CopyOf

LEMMA PreservedHere ==
    ASSUME Sizes, NEW c \in Contexts, NEW dst \in Seq(Int), NEW m \in Nat, Upto(dst, m),
           c.dict.where = "dst", HistoryHere(c, dst, m), Fits(c, Window),
           NEW n, n = Frm!Min2(c.dict.size, Window), NEW dst2,
           NEW b, b = Frm!DictBytes(c, dst, Frm!DictEnd(c), n),
           NEW r, r = PlacedAt(c, Frm!Put(c.tmp, 0, b), n, n)
    PROVE  /\ SameButPlace(c, r) /\ HistoryHere(r, dst2, m) /\ r.off <= 2 * Window
           /\ r.dict.where = "tmp"
  <1> DEFINE s == c.dict.size
             L == Len(dst)
             h == Frm!Min2(Window, m)
             t == Frm!Put(c.tmp, 0, b)
  <1>1. /\ Window \in Nat /\ s \in Nat /\ c.dict.off \in Nat /\ L \in Nat
        /\ c.tmp \in Seq(Int) /\ Len(c.tmp) \in Nat
    BY ContextIs DEF Sizes
  <1>2. Frm!DictEnd(c) = L /\ s <= L /\ h <= s
    <2>1. Frm!DictEnd(c) = L /\ h <= s
      BY DEF HistoryHere, Frm!DictEnd
    <2>2. c.dict.off + s = L
      BY DEF HistoryHere
    <2> HIDE DEF s, L
    <2>3. QED  BY <1>1, <2>1, <2>2
  <1>3. n = (IF s < Window THEN s ELSE Window) /\ h = (IF Window < m THEN Window ELSE m)
    BY DEF Frm!Min2
  <1> HIDE DEF s, h
  <1>4. n \in Nat /\ n <= s /\ n <= Window /\ h \in Int /\ h <= n /\ n <= 2 * Window /\ h <= L
    BY <1>1, <1>2, <1>3
  <1>5. b \in Seq(Int) /\ Len(b) = n /\ CopyOf(b, dst, L, n, L)
    <2>1. L \in Int
      BY <1>1
    <2>2. b = Frm!DictBytes(c, dst, L, n)
      BY <1>2
    <2>3. QED  BY <1>4, <2>1, <2>2, DstBytes
  <1>6. EndsIn(dst, L, m, h)
    <2>1. L + 0 = Len(dst) /\ m = m + 0 /\ 0 \in Nat /\ m \in Int /\ L \in Int
      BY <1>1
    <2> HIDE DEF L
    <2>2. QED  BY <1>4, <2>1, UptoEnds
  <1>7. EndsIn(b, n, m, h)
    <2>1. m \in Int
      OBVIOUS
    <2> HIDE DEF L
    <2>2. QED  BY <1>1, <1>4, <1>5, <1>6, <2>1, CopyEnds
  <1>8. Replaced(t, c.tmp, 0, b)
    <2>1. 0 \in Int
      OBVIOUS
    <2>2. QED  BY <1>1, <1>5, <2>1, PutIs
  <1> HIDE DEF t
  <1>9. EndsIn(t, n, m, h) /\ n <= Len(c.tmp)
    <2>1. n <= Len(c.tmp)
      BY <1>1, <1>4 DEF Fits
    <2>2. Reaches(c.tmp, n) /\ IsSum(n, 0, n) /\ 0 \in Nat /\ m \in Int
      BY <1>4, <2>1 DEF Reaches, IsSum
    <2>3. EndsIn(t, n, m, h)
      BY <1>1, <1>4, <1>5, <1>7, <1>8, <2>2, PutEnds
    <2>4. QED  BY <2>1, <2>3
  <1>10. /\ SameButPlace(c, r) /\ r.tmp = t /\ r.off = n /\ r.dict.where = "tmp"
         /\ r.dict.off = 0 /\ r.dict.size = n
    <2>1. t \in Seq(Int) /\ Len(t) = Len(c.tmp) /\ r = PlacedAt(c, t, n, n)
      BY <1>8 DEF Replaced, t
    <2>2. QED  BY <1>4, <2>1, PlacedAtIs
  <1>11. n <= Len(r.tmp)
    BY <1>9, <1>10 DEF SameButPlace
  <1>12. HistoryHere(r, dst2, m)
    BY <1>9, <1>10, <1>11 DEF HistoryHere, h
  <1>13. QED  BY <1>4, <1>10, <1>12

\* The same in front of a block of which o bytes are given out.
Moved(c, dst, o) ==
    LET q == Frm!CopySize(c)
    IN  TmpWith(c, Frm!Put(c.tmp, c.off - q, Frm!DictBytes(c, dst, Frm!DictEnd(c) - o, q)), c.off + o)

LEMMA PreservedInBlock ==
    ASSUME Sizes, NEW c \in Contexts, NEW dst \in Seq(Int), NEW m \in Nat, NEW o \in Nat,
           NEW p, IsSum(p, m, o), Upto(dst, p), o <= c.outSize,
           c.dict.where = "dst", BlockHere(c, m), HistoryInBlock(c, o, dst, m), NEW dst2,
           NEW r, r = Moved(c, dst, o)
    PROVE  /\ SameButHistory(c, r) /\ BlockHere(r, m) /\ HistoryInBlock(r, o, dst2, m)
           /\ r.dict.where = "tmp" /\ r.dict.size <= Len(r.tmp)
  <1>b. p = m + o
    BY DEF IsSum
  <1> DEFINE q == Frm!CopySize(c)
             b == Frm!DictBytes(c, dst, Frm!DictEnd(c) - o, q)
             e == c.off + o
  <1>a. /\ q = Frm!CopySize(c) /\ b = Frm!DictBytes(c, dst, Frm!DictEnd(c) - o, q) /\ e = c.off + o
        /\ r = TmpWith(c, Frm!Put(c.tmp, c.off - q, b), e)
    BY DEF Moved
  <1> HIDE DEF q, b, e
  <1> USE <1>a, <1>b
  <1> DEFINE w == c.off
             z == c.outSize
             s == c.dict.size
             L == Len(dst)
             l == L - o
             g == Needed(m, z)
             x == w - q
             t == Frm!Put(c.tmp, x, b)
  <1>1. /\ Window \in Nat /\ s \in Nat /\ c.dict.off \in Nat /\ L \in Nat
        /\ w \in Nat /\ z \in Nat
        /\ c.tmp \in Seq(Int) /\ Len(c.tmp) \in Nat
    BY ContextIs DEF Sizes
  <1>2. Frm!DictEnd(c) = L /\ s <= L /\ Frm!Min2(Window, p) <= s /\ Frm!Min2(Window, m) <= w
    <2>1. /\ Frm!DictEnd(c) = L /\ Frm!Min2(Window, p) <= s /\ Frm!Min2(Window, m) <= w
      BY DEF HistoryInBlock, Frm!DictEnd
    <2>2. c.dict.off + s = L
      BY DEF HistoryInBlock
    <2> HIDE DEF s, L, w
    <2>3. QED  BY <1>1, <2>1, <2>2
  <1>3. /\ (IF Window < p THEN Window ELSE p) <= s /\ (IF Window < m THEN Window ELSE m) <= w
        /\ g = IF z >= Window THEN 0 ELSE IF Window - z < m THEN Window - z ELSE m
    BY <1>2 DEF Frm!Min2, Needed
  <1>4. q = LET y == IF z > Window THEN 0 ELSE Window - z IN IF w < y THEN w ELSE y
    BY DEF Frm!CopySize, Frm!Min2
  <1>5. z <= MaxBlock /\ w + z <= Len(c.tmp) /\ StartsAt(c.tmp, w, m, z) /\ o <= z
    BY DEF BlockHere
  <1> HIDE DEF s, g, w, z
  <1>6. /\ q \in Nat /\ q <= w /\ g \in Int /\ g <= q
        /\ x \in Nat /\ w = x + q /\ e \in Nat /\ e <= Len(c.tmp) /\ w <= Len(c.tmp)
    <2>1. q \in Nat /\ q <= w /\ g \in Int /\ g <= q
      BY <1>1, <1>3, <1>4
    <2>2. x \in Nat /\ w = x + q
      BY <1>1, <2>1
    <2>3. e = w + o
      BY DEF w
    <2>4. e \in Nat /\ e <= Len(c.tmp) /\ w <= Len(c.tmp)
      BY <1>1, <1>5, <2>3
    <2>5. QED  BY <2>1, <2>2, <2>4
  <1>6a. l \in Int /\ l <= L /\ ((q = 0 /\ g <= 0) \/ (l \in Nat /\ g <= l))
    <2>1. l \in Int /\ l <= L
      BY <1>1
    <2>2. CASE z < Window
      <3>1. o <= s /\ o + g <= s
        BY <1>1, <1>3, <1>5, <2>2
      <3>2. s \in Int /\ g \in Int /\ L \in Int /\ s <= L
        BY <1>1, <1>2, <1>6
      <3> HIDE DEF L
      <3>3. l >= 0 /\ g <= l
        BY <3>1, <3>2
      <3>4. QED  BY <2>1, <3>3
    <2>3. CASE ~(z < Window)
      <3>1. q = 0 /\ g <= 0
        BY <1>1, <1>3, <1>4, <2>3
      <3>2. QED  BY <2>1, <3>1
    <2>4. QED  BY <2>2, <2>3
  <1> HIDE DEF l, x
  <1>7. b \in Seq(Int) /\ Len(b) = q /\ CopyOf(b, dst, l, q, L)
    <2>1. b = Frm!DictBytes(c, dst, l, q)
      BY <1>2 DEF l
    <2>2. q \in Nat /\ l \in Int
      BY <1>6, <1>6a
    <2>3. QED  BY <2>1, <2>2, DstBytes
  <1>8. EndsIn(b, q, m, g)
    <2>1. CASE l \in Nat /\ g <= l
      <3>1. EndsIn(dst, l, m, g)
        <4>1. l + o = Len(dst) /\ m \in Int
          BY <1>1 DEF l
        <4>2. QED  BY <1>6, <1>6a, <2>1, <4>1, UptoEnds
      <3>2. m \in Int
        OBVIOUS
      <3> HIDE DEF L
      <3>3. QED  BY <1>1, <1>6, <1>6a, <1>7, <2>1, <3>1, <3>2, CopyEnds
    <2>2. CASE q = 0 /\ g <= 0
      BY <1>6, <2>2 DEF EndsIn
    <2>3. QED  BY <1>6a, <2>1, <2>2
  <1>9. Replaced(t, c.tmp, x, b)
    <2>1. x \in Int
      BY <1>6
    <2>2. QED  BY <1>1, <1>7, <2>1, PutIs
  <1>9a. t = Frm!Put(c.tmp, c.off - q, b)
    BY DEF x, w
  <1> HIDE DEF t
  <1>10. EndsIn(t, w, m, g)
    <2>1. Reaches(c.tmp, w) /\ IsSum(w, x, q) /\ m \in Int
      BY <1>6 DEF Reaches, IsSum
    <2>2. QED  BY <1>1, <1>6, <1>7, <1>8, <1>9, <2>1, PutEnds
  <1>11. StartsAt(t, w, m, z)
    <2> DEFINE y == w + z
    <2>1. x + Len(b) <= w /\ m \in Int
      BY <1>6, <1>7
    <2>2. Reaches(c.tmp, y) /\ IsSum(y, w, z)
      BY <1>5 DEF Reaches, IsSum
    <2> HIDE DEF y
    <2>3. QED  BY <1>1, <1>5, <1>6, <1>7, <1>9, <2>1, <2>2, BehindPut
  <1>12. /\ SameButHistory(c, r) /\ r.tmp = t /\ r.dict.where = "tmp"
         /\ r.dict.off = 0 /\ r.dict.size = e
    <2>1. t \in Seq(Int) /\ Len(t) = Len(c.tmp) /\ r = TmpWith(c, t, e)
      BY <1>9, <1>9a DEF Replaced
    <2>2. QED  BY <1>6, <2>1, TmpWithIs
  <1>13. r.off = w /\ r.outSize = z /\ Len(r.tmp) = Len(c.tmp)
    BY <1>12 DEF SameButHistory, w, z
  <1>14. BlockHere(r, m)
    BY <1>5, <1>11, <1>12, <1>13 DEF BlockHere
  <1>15. Frm!Min2(Window, m) <= r.off /\ e = r.off + o
    BY <1>2, <1>13 DEF w
  <1>16. HistoryInBlock(r, o, dst2, m)
    BY <1>10, <1>12, <1>13, <1>15 DEF HistoryInBlock, g
  <1>17. QED  BY <1>6, <1>12, <1>13, <1>14, <1>16

-----------------------------------------------------------------------------
(* The inductive invariant of LZ4F_decompress.                             *)

Outer == {"getFrameHeader", "storeFrameHeader", "getSFrameSize", "storeSFrameSize", "skipSkippable", "init"}
AmongBlocks == {"getBlockHeader", "storeBlockHeader", "copyDirect", "getBlockChecksum",
    "getCBlock", "storeCBlock"}
Trailer == {"getSuffix", "storeSuffix"}

\* Where the decoder is in frame f, with b block headers read, p bytes used and m
\* bytes of content given out: at or in the part of the frame its stage is for.
Sound(f, b) == ~f.skip /\ f.good /\ \A k \in 1..b : ~BadOf(f, f.blocks[k])
LeftIs(f, c, m) == c.left = IF f.csize = 0 THEN 0 ELSE f.csize - m
Opened(f, b) == b >= 1 /\ Sound(f, b - 1) /\ f.blocks[b].in <= MaxBlock

AtHeader(f, c, p, b, m) == p = 0 /\ b = 0 /\ m = 0
InHeader(f, c, p, b, m) ==
    /\ p = c.inSize /\ c.inSize < c.inTarget /\ b = 0 /\ m = 0
    /\ c.inTarget = MinFH \/ (~f.skip /\ c.inTarget = HeadOf(f))
AtSkipSize(f, c, p, b, m) == f.skip /\ p = SFrameMagic
InSkipSize(f, c, p, b, m) ==
    f.skip /\ p = c.inSize /\ c.inSize < c.inTarget /\ c.inTarget = SFrameHead
InSkipped(f, c, p, b, m) == f.skip /\ p + c.inTarget = SFrameHead + f.csize
AtInit(f, c, p, b, m) == Sound(f, 0) /\ p = HeadOf(f) /\ b = 0 /\ m = 0 /\ LeftIs(f, c, m)
AtBlockHeader(f, c, p, b, m) ==
    Sound(f, b) /\ p = EndsOf(f)[b] /\ m = GivenOf(f)[b] /\ LeftIs(f, c, m)
InBlockHeader(f, c, p, b, m) ==
    /\ Sound(f, b) /\ p = EndsOf(f)[b] + c.inSize /\ m = GivenOf(f)[b] /\ LeftIs(f, c, m)
    /\ c.inSize < c.inTarget /\ c.inTarget = BHSize
InRawBlock(f, c, p, b, m) ==
    /\ Opened(f, b) /\ f.blocks[b].raw /\ LeftIs(f, c, m)
    /\ p + c.inTarget = EndsOf(f)[b - 1] + BHSize + f.blocks[b].in
    /\ m + c.inTarget = GivenOf(f)[b]
InRawSum(f, c, p, b, m) ==
    /\ Opened(f, b) /\ f.blocks[b].raw /\ f.bcrc /\ LeftIs(f, c, m)
    /\ c.inSize < CrcSize /\ p = EndsOf(f)[b - 1] + BHSize + f.blocks[b].in + c.inSize
    /\ m = GivenOf(f)[b]
AtBlock(f, c, p, b, m) ==
    /\ Opened(f, b) /\ LeftIs(f, c, m)
    /\ p = EndsOf(f)[b - 1] + BHSize /\ c.inTarget = DataOf(f, f.blocks[b])
    /\ m = GivenOf(f)[b - 1]
InBlock(f, c, p, b, m) ==
    /\ Opened(f, b) /\ LeftIs(f, c, m)
    /\ p = EndsOf(f)[b - 1] + BHSize + c.inSize /\ c.inTarget = DataOf(f, f.blocks[b])
    /\ c.inSize < c.inTarget
    /\ m = GivenOf(f)[b - 1]
InFlush(f, c, p, b, m) ==
    /\ b >= 1 /\ Sound(f, b) /\ p = EndsOf(f)[b] /\ c.outSize = f.blocks[b].out
    /\ m = GivenOf(f)[b - 1] + c.outStart /\ LeftIs(f, c, GivenOf(f)[b])
AtSuffix(f, c, p, b, m) ==
    /\ b = Len(f.blocks) /\ Sound(f, b) /\ p = EndsOf(f)[b] + BHSize
    /\ m = GivenOf(f)[b] /\ LeftIs(f, c, m)
InSuffix(f, c, p, b, m) ==
    /\ b = Len(f.blocks) /\ Sound(f, b) /\ p = EndsOf(f)[b] + BHSize + c.inSize
    /\ m = GivenOf(f)[b] /\ LeftIs(f, c, m) /\ c.left = 0
    /\ c.inSize < c.inTarget /\ c.inTarget = CrcSize /\ f.ccrc

PlaceOf(f, c, p, b, m) ==
    /\ c.stage = "getFrameHeader" => AtHeader(f, c, p, b, m)
    /\ c.stage = "storeFrameHeader" => InHeader(f, c, p, b, m)
    /\ c.stage = "getSFrameSize" => AtSkipSize(f, c, p, b, m)
    /\ c.stage = "storeSFrameSize" => InSkipSize(f, c, p, b, m)
    /\ c.stage = "skipSkippable" => InSkipped(f, c, p, b, m)
    /\ c.stage = "init" => AtInit(f, c, p, b, m)
    /\ c.stage = "getBlockHeader" => AtBlockHeader(f, c, p, b, m)
    /\ c.stage = "storeBlockHeader" => InBlockHeader(f, c, p, b, m)
    /\ c.stage = "copyDirect" => InRawBlock(f, c, p, b, m)
    /\ c.stage = "getBlockChecksum" => InRawSum(f, c, p, b, m)
    /\ c.stage = "getCBlock" => AtBlock(f, c, p, b, m)
    /\ c.stage = "storeCBlock" => InBlock(f, c, p, b, m)
    /\ c.stage = "flushOut" => InFlush(f, c, p, b, m)
    /\ c.stage = "getSuffix" => AtSuffix(f, c, p, b, m)
    /\ c.stage = "storeSuffix" => InSuffix(f, c, p, b, m)

CallRecords == [src : Nat, room : Nat, dst : Seq(Int), from : Nat, hint : {0, 1}]

FrameTypes ==
    /\ frame \in Frames /\ pc \in {"idle", "stage", "return", "done", "error"}
    /\ ctx \in Contexts /\ call \in CallRecords
    /\ at \in Nat /\ blk \in 0..Len(frame.blocks) /\ made \in Nat
    /\ at + call.src <= FrameEnd(frame)
    /\ ctx.stage \in {"storeFrameHeader", "storeCBlock", "storeSuffix"} => ctx.inSize <= ctx.inTarget

\* What is in the buffers: the dictionary in d bytes at most when it is in tmp.
Needs(f) == MaxBlock + IF f.linked THEN 2 * Window ELSE 0

MemoryOf(f, c, dst, m) ==
    /\ Upto(dst, m)
    /\ c.off <= 2 * Window
    /\ c.dict.where = "none" => c.dict = Frm!NoDict
    /\ c.dict.where = "tmp" => c.dict.size <= Len(c.tmp)
    /\ c.stage \in Outer => c.dict = Frm!NoDict
    /\ ~f.linked => c.off = 0 /\ c.dict = Frm!NoDict
    /\ c.stage \in AmongBlocks \cup {"flushOut"} => Len(c.tmp) >= Needs(f)
    /\ f.linked /\ c.stage \in AmongBlocks => HistoryHere(c, dst, m)
    /\ c.stage = "flushOut" =>
          c.outStart <= c.outSize /\ c.outStart <= m /\ BlockHere(c, m - c.outStart)
    /\ f.linked /\ c.stage = "flushOut" => HistoryInBlock(c, c.outStart, dst, m - c.outStart)

FinishedAt(f, c, p, m) ==
    /\ c.stage = "getFrameHeader" /\ c.dict = Frm!NoDict
    /\ ~FaultyFrame(f) /\ p = FrameEnd(f) /\ (~f.skip => m = ContentOf(f))

\* What a call may find and leave: at the end of one, no history is left in the
\* buffer of the caller.
CallsOf(f, q, c, p, b, m, a) ==
    /\ q = "idle" => a.src = 0 /\ a.hint = 1 /\ a.dst = <<>>
    /\ q = "stage" => a.hint = 1
    /\ q = "done" => a.hint = 0
    /\ q = "idle" /\ f.linked /\ c.stage \in AmongBlocks \cup {"flushOut"} => c.dict.where # "dst"
    /\ q \in {"idle", "stage", "return"} /\ a.hint = 1 => PlaceOf(f, c, p, b, m)
    /\ q \in {"return", "done"} /\ a.hint = 0 => FinishedAt(f, c, p, m)
    /\ q = "error" => FaultyFrame(f) \/ c.stage = "init"

MemoryOK == MemoryOf(frame, ctx, call.dst, made)
CallsOK == CallsOf(frame, pc, ctx, at, blk, made, call)
FrameInv == FrameTypes /\ MemoryOK /\ CallsOK

-----------------------------------------------------------------------------
(* Steps that leave the buffers alone.                                     *)

LEMMA PlaceMeans ==
    ASSUME NEW f, NEW c, NEW p, NEW b, NEW m
    PROVE  /\ c.stage = "getFrameHeader" => (PlaceOf(f, c, p, b, m) <=> AtHeader(f, c, p, b, m))
           /\ c.stage = "storeFrameHeader" => (PlaceOf(f, c, p, b, m) <=> InHeader(f, c, p, b, m))
           /\ c.stage = "getSFrameSize" => (PlaceOf(f, c, p, b, m) <=> AtSkipSize(f, c, p, b, m))
           /\ c.stage = "storeSFrameSize" => (PlaceOf(f, c, p, b, m) <=> InSkipSize(f, c, p, b, m))
           /\ c.stage = "skipSkippable" => (PlaceOf(f, c, p, b, m) <=> InSkipped(f, c, p, b, m))
           /\ c.stage = "init" => (PlaceOf(f, c, p, b, m) <=> AtInit(f, c, p, b, m))
           /\ c.stage = "getBlockHeader" => (PlaceOf(f, c, p, b, m) <=> AtBlockHeader(f, c, p, b, m))
           /\ c.stage = "storeBlockHeader" => (PlaceOf(f, c, p, b, m) <=> InBlockHeader(f, c, p, b, m))
           /\ c.stage = "copyDirect" => (PlaceOf(f, c, p, b, m) <=> InRawBlock(f, c, p, b, m))
           /\ c.stage = "getBlockChecksum" => (PlaceOf(f, c, p, b, m) <=> InRawSum(f, c, p, b, m))
           /\ c.stage = "getCBlock" => (PlaceOf(f, c, p, b, m) <=> AtBlock(f, c, p, b, m))
           /\ c.stage = "storeCBlock" => (PlaceOf(f, c, p, b, m) <=> InBlock(f, c, p, b, m))
           /\ c.stage = "flushOut" => (PlaceOf(f, c, p, b, m) <=> InFlush(f, c, p, b, m))
           /\ c.stage = "getSuffix" => (PlaceOf(f, c, p, b, m) <=> AtSuffix(f, c, p, b, m))
           /\ c.stage = "storeSuffix" => (PlaceOf(f, c, p, b, m) <=> InSuffix(f, c, p, b, m))
  BY DEF PlaceOf

\* Only the counters of a context have changed.
Quiet(c, r) ==
    /\ r \in Contexts /\ r.tmp = c.tmp /\ r.off = c.off /\ r.dict = c.dict
    /\ r.outStart = c.outStart /\ r.outSize = c.outSize

\* Stages between which the history need not be looked at.
StageMove(x, y) ==
    \/ x = y \/ (x \in Outer /\ y \in Outer) \/ (x \in Trailer /\ y \in Trailer)
    \/ x \in AmongBlocks /\ y \in AmongBlocks \cup Trailer

LEMMA MemorySame ==
    ASSUME NEW f, NEW c, NEW dst, NEW m, MemoryOf(f, c, dst, m), NEW r, Quiet(c, r),
           StageMove(c.stage, r.stage)
    PROVE  MemoryOf(f, r, dst, m)
  <1>1. /\ r.tmp = c.tmp /\ r.off = c.off /\ r.dict = c.dict
        /\ r.outStart = c.outStart /\ r.outSize = c.outSize
    BY DEF Quiet
  <1>2. /\ r.stage \in Outer => c.stage \in Outer
        /\ r.stage \in AmongBlocks => c.stage \in AmongBlocks
        /\ r.stage = "flushOut" => c.stage = "flushOut"
    BY DEF StageMove, Outer, AmongBlocks, Trailer
  <1>3. /\ Upto(dst, m) /\ r.off <= 2 * Window
        /\ r.dict.where = "none" => r.dict = Frm!NoDict
        /\ r.dict.where = "tmp" => r.dict.size <= Len(r.tmp)
        /\ r.stage \in Outer => r.dict = Frm!NoDict
        /\ ~f.linked => r.off = 0 /\ r.dict = Frm!NoDict
        /\ r.stage \in AmongBlocks \cup {"flushOut"} => Len(r.tmp) >= Needs(f)
    BY <1>1, <1>2 DEF MemoryOf
  <1>4. f.linked /\ r.stage \in AmongBlocks => HistoryHere(r, dst, m)
    <2> SUFFICES ASSUME f.linked, r.stage \in AmongBlocks PROVE HistoryHere(r, dst, m)
      OBVIOUS
    <2>1. HistoryHere(c, dst, m)
      BY <1>2 DEF MemoryOf
    <2>2. QED  BY <1>1, <2>1 DEF HistoryHere
  <1>5. r.stage = "flushOut" =>
          r.outStart <= r.outSize /\ r.outStart <= m /\ BlockHere(r, m - r.outStart)
    <2> SUFFICES ASSUME r.stage = "flushOut"
                 PROVE  r.outStart <= r.outSize /\ r.outStart <= m /\ BlockHere(r, m - r.outStart)
      OBVIOUS
    <2>1. c.outStart <= c.outSize /\ c.outStart <= m /\ BlockHere(c, m - c.outStart)
      BY <1>2 DEF MemoryOf
    <2>2. QED  BY <1>1, <2>1 DEF BlockHere
  <1>6. f.linked /\ r.stage = "flushOut" => HistoryInBlock(r, r.outStart, dst, m - r.outStart)
    <2> SUFFICES ASSUME f.linked, r.stage = "flushOut"
                 PROVE  HistoryInBlock(r, r.outStart, dst, m - r.outStart)
      OBVIOUS
    <2>1. HistoryInBlock(c, c.outStart, dst, m - c.outStart)
      BY <1>2 DEF MemoryOf
    <2>2. QED  BY <1>1, <2>1 DEF HistoryInBlock
  <1>7. QED  BY <1>3, <1>4, <1>5, <1>6 DEF MemoryOf

\* A call has used n bytes more of its input.
Used(n) == [call EXCEPT !.src = call.src - n]

LEMMA UsedIs ==
    ASSUME call \in CallRecords, NEW n \in Nat, n <= call.src, NEW h \in {0, 1}
    PROVE  /\ Used(n) \in CallRecords /\ Used(n).src = call.src - n /\ Used(n).room = call.room
           /\ Used(n).dst = call.dst /\ Used(n).hint = call.hint
           /\ [Used(n) EXCEPT !.hint = h] \in CallRecords /\ [Used(n) EXCEPT !.hint = h].src = call.src - n
           /\ [Used(n) EXCEPT !.hint = h].dst = call.dst /\ [Used(n) EXCEPT !.hint = h].hint = h
  <1>1. /\ Used(n) \in CallRecords /\ Used(n).src = call.src - n /\ Used(n).room = call.room
        /\ Used(n).dst = call.dst /\ Used(n).hint = call.hint
    BY DEF Used, CallRecords
  <1>2. ASSUME NEW u \in CallRecords
        PROVE  /\ [u EXCEPT !.hint = h] \in CallRecords /\ [u EXCEPT !.hint = h].src = u.src
               /\ [u EXCEPT !.hint = h].dst = u.dst /\ [u EXCEPT !.hint = h].hint = h
    BY DEF CallRecords
  <1>3. QED  BY <1>1, <1>2

\* The decoder is at work.
AtWork == FramesOk /\ FrameInv /\ pc = "stage"

LEMMA WorkFacts ==
    ASSUME AtWork
    PROVE  /\ Sizes /\ frame \in Frames /\ Flags(frame) /\ ctx \in Contexts /\ call \in CallRecords
           /\ call.src \in Nat /\ call.room \in Nat /\ call.dst \in Seq(Int) /\ call.hint = 1
           /\ at \in Nat /\ made \in Nat /\ at + call.src <= FrameEnd(frame)
           /\ Len(frame.blocks) \in Nat /\ blk \in 0..Len(frame.blocks)
           /\ PlaceOf(frame, ctx, at, blk, made) /\ MemoryOf(frame, ctx, call.dst, made)
  <1>1. FrameTypes /\ MemoryOK /\ CallsOK /\ pc = "stage"
    BY DEF AtWork, FrameInv
  <1>2. Sizes /\ frame \in Frames /\ Flags(frame) /\ Len(frame.blocks) \in Nat
    BY <1>1, SizesAre, BlocksAre DEF AtWork, FrameTypes
  <1>3. call.src \in Nat /\ call.room \in Nat /\ call.dst \in Seq(Int)
    BY <1>1 DEF FrameTypes, CallRecords
  <1>4. call.hint = 1
    BY <1>1 DEF CallsOK, CallsOf
  <1>5. PlaceOf(frame, ctx, at, blk, made)
    BY <1>1, <1>4 DEF CallsOK, CallsOf
  <1>6. QED  BY <1>1, <1>2, <1>3, <1>4, <1>5 DEF FrameTypes, MemoryOK

\* The frame and the types, after n bytes more of it.
Goes(n) ==
    /\ n \in Nat /\ n <= call.src /\ frame' = frame /\ at' = at + n /\ call'.src = call.src - n
    /\ ctx' \in Contexts /\ call' \in CallRecords /\ blk' \in 0..Len(frame.blocks) /\ made' \in Nat
    /\ pc' \in {"stage", "return", "error"}
    /\ ctx'.stage \in {"storeFrameHeader", "storeCBlock", "storeSuffix"} => ctx'.inSize <= ctx'.inTarget

LEMMA TypesKept ==
    ASSUME AtWork, NEW n, Goes(n)
    PROVE  FrameTypes'
  <1>1. /\ frame' \in Frames /\ pc' \in {"idle", "stage", "return", "done", "error"}
        /\ ctx' \in Contexts /\ call' \in CallRecords
        /\ blk' \in 0..Len(frame'.blocks) /\ made' \in Nat
        /\ ctx'.stage \in {"storeFrameHeader", "storeCBlock", "storeSuffix"} => ctx'.inSize <= ctx'.inTarget
    BY WorkFacts DEF Goes
  <1>2. at' \in Nat /\ at' + call'.src <= FrameEnd(frame')
    <2> DEFINE e == FrameEnd(frame)
               z == call.src
    <2>1. at \in Nat /\ z \in Nat /\ at + z <= e
      BY WorkFacts
    <2>2. n \in Nat /\ at' = at + n /\ call'.src = z - n /\ FrameEnd(frame') = e
      BY DEF Goes
    <2>3. at + n \in Nat /\ (at + n) + (z - n) = at + z
      <3> HIDE DEF z
      <3>1. QED  BY <2>1, <2>2
    <2> HIDE DEF z, e
    <2>4. QED  BY <2>1, <2>2, <2>3
  <1>3. QED  BY <1>1, <1>2 DEF FrameTypes

\* Whether the step is right for the call.
LEMMA GoesToPlace ==
    ASSUME AtWork, NEW n, Goes(n), pc' \in {"stage", "return"}, call'.hint = 1,
           PlaceOf(frame, ctx', at', blk', made')
    PROVE  CallsOK'
  BY DEF CallsOK, CallsOf, Goes

LEMMA GoesWrong ==
    ASSUME AtWork, NEW n, Goes(n), pc' = "error", FaultyFrame(frame) \/ ctx'.stage = "init"
    PROVE  CallsOK'
  BY DEF CallsOK, CallsOf, Goes

LEMMA GoesHome ==
    ASSUME AtWork, NEW n, Goes(n), pc' = "return", call'.hint = 0, FinishedAt(frame, ctx', at', made')
    PROVE  CallsOK'
  BY DEF CallsOK, CallsOf, Goes

\* The buffers after a step that leaves them alone.
LEMMA MemoryKept ==
    ASSUME AtWork, NEW n, Goes(n), made' = made, call'.dst = call.dst,
           Quiet(ctx, ctx'), StageMove(ctx.stage, ctx'.stage)
    PROVE  MemoryOK'
  <1>1. MemoryOf(frame, ctx', call.dst, made)
    BY WorkFacts, MemorySame
  <1>2. QED  BY <1>1 DEF MemoryOK, Goes

\* n bytes of input are used.
Uses(n) ==
    /\ n \in Nat /\ n <= call.src
    /\ \/ at' = at + n /\ call' = Used(n)
       \/ n = 0 /\ UNCHANGED <<at, call>>

LEMMA UsesIs ==
    ASSUME AtWork, NEW n, Uses(n)
    PROVE  /\ at' = at + n /\ call' \in CallRecords /\ call'.src = call.src - n
           /\ call'.dst = call.dst /\ call'.hint = 1
  <1>1. at \in Nat /\ call \in CallRecords /\ call.src \in Nat /\ call.hint = 1
    BY WorkFacts
  <1>2. CASE at' = at + n /\ call' = Used(n)
    BY <1>1, <1>2, UsedIs DEF Uses
  <1>3. CASE n = 0 /\ UNCHANGED <<at, call>>
    BY <1>1, <1>3
  <1>4. QED  BY <1>2, <1>3 DEF Uses

\* A step of headers and counters that leads to the place its stage is for.
QuietStep ==
    /\ frame' = frame /\ made' = made /\ blk' \in 0..Len(frame.blocks)
    /\ Quiet(ctx, ctx') /\ StageMove(ctx.stage, ctx'.stage)
    /\ ctx'.stage \in {"storeFrameHeader", "storeCBlock", "storeSuffix"} => ctx'.inSize <= ctx'.inTarget

LEMMA QuietToPlace ==
    ASSUME AtWork, NEW n, Uses(n), QuietStep, pc' \in {"stage", "return"},
           PlaceOf(frame, ctx', at', blk', made')
    PROVE  FrameInv'
  <1>1. made \in Nat
    BY WorkFacts
  <1>2. Goes(n)
    BY <1>1, UsesIs DEF Goes, Uses, QuietStep, Quiet
  <1>3. FrameTypes'
    BY <1>2, TypesKept
  <1>4. MemoryOK'
    BY <1>2, UsesIs, MemoryKept DEF QuietStep
  <1>5. CallsOK'
    BY <1>2, UsesIs, GoesToPlace
  <1>6. QED  BY <1>3, <1>4, <1>5 DEF FrameInv

\* A step that finds the frame damaged.
LEMMA QuietWrong ==
    ASSUME AtWork, NEW n \in Nat, n <= call.src, UNCHANGED <<frame, made, ctx>>, blk' \in 0..Len(frame.blocks),
           at' = at + n, call' \in CallRecords, call'.src = call.src - n, call'.dst = call.dst,
           pc' = "error", FaultyFrame(frame) \/ ctx.stage = "init"
    PROVE  FrameInv'
  <1>1. ctx \in Contexts /\ made \in Nat
    BY WorkFacts
  <1>2. ctx.stage \in {"storeFrameHeader", "storeCBlock", "storeSuffix"} => ctx.inSize <= ctx.inTarget
    BY DEF AtWork, FrameInv, FrameTypes
  <1>3. Goes(n)
    BY <1>1, <1>2 DEF Goes
  <1>4. Quiet(ctx, ctx') /\ StageMove(ctx.stage, ctx'.stage)
    BY <1>1 DEF Quiet, StageMove
  <1>5. QED
    BY <1>3, <1>4, TypesKept, MemoryKept, GoesWrong DEF FrameInv

-----------------------------------------------------------------------------
(* Headers.                                                                *)

LEMMA GetFrameHeaderStep ==
    ASSUME FramesOk, FrameInv, Frm!GetFrameHeader
    PROVE  FrameInv'
  <1>1. AtWork /\ ctx.stage = "getFrameHeader" /\ UNCHANGED <<frame, blk, made>>
    BY DEF Frm!GetFrameHeader, Frm!At, AtWork, Frm!Stay
  <1>2. Sizes /\ Flags(frame) /\ ctx \in Contexts /\ call.src \in Nat /\ blk' \in 0..Len(frame.blocks)
        /\ at \in Nat /\ call \in CallRecords /\ PlaceOf(frame, ctx, at, blk, made)
    BY <1>1, WorkFacts
  <1>3. at = 0 /\ blk = 0 /\ made = 0
    BY <1>1, <1>2, PlaceMeans DEF AtHeader
  <1>4. HeadOf(frame) \in Nat /\ HeadOf(frame) <= MaxFH /\ Frm!HeaderLen = HeadOf(frame)
    BY <1>1, WorkFacts, BlocksAre, SameNames DEF AtWork
  <1>5. CASE call.src >= MaxFH /\ frame.skip
    <2>1. /\ at' = at + SFrameMagic /\ call' = Used(SFrameMagic) /\ pc' = "stage"
          /\ ctx' = [ctx EXCEPT !.stage = "getSFrameSize"]
      BY <1>5 DEF Frm!GetFrameHeader, Frm!Use, Frm!Rest, Used, Frm!Onward
    <2>2. Uses(SFrameMagic)
      BY <1>2, <1>5, <2>1, SMTT(30) DEF Sizes, Uses
    <2>3. Quiet(ctx, ctx') /\ ctx'.stage = "getSFrameSize"
      BY <1>2, <2>1 DEF Quiet, Contexts, Stages
    <2>4. QuietStep
      BY <1>1, <1>2, <2>3 DEF QuietStep, StageMove, Outer
    <2>5. PlaceOf(frame, ctx', at', blk', made')
      <3>1. AtSkipSize(frame, ctx', at', blk', made')
        BY <1>2, <1>3, <1>5, <2>1 DEF AtSkipSize, Sizes
      <3>2. QED  BY <2>3, <3>1, PlaceMeans
    <2>6. QED  BY <1>1, <2>1, <2>2, <2>4, <2>5, QuietToPlace
  <1>6. CASE call.src >= MaxFH /\ ~frame.skip /\ frame.good
    <2>1. /\ at' = at + HeadOf(frame) /\ call' = Used(HeadOf(frame)) /\ pc' = "stage"
          /\ ctx' = [ctx EXCEPT !.stage = "init", !.left = frame.csize]
      BY <1>4, <1>6 DEF Frm!GetFrameHeader, Frm!Use, Frm!Rest, Used, Frm!Onward, Frm!HeaderDone
    <2>2. Uses(HeadOf(frame))
      BY <1>2, <1>4, <1>6, <2>1, SMTT(30) DEF Sizes, Uses
    <2>3. Quiet(ctx, ctx') /\ ctx'.stage = "init" /\ ctx'.left = frame.csize
      <3>1. frame.csize \in Int
        BY <1>2 DEF Flags
      <3>2. QED  BY <1>2, <2>1, <3>1 DEF Quiet, Contexts, Stages
    <2>4. QuietStep
      BY <1>1, <1>2, <2>3 DEF QuietStep, StageMove, Outer
    <2>5. PlaceOf(frame, ctx', at', blk', made')
      <3>1. at' = HeadOf(frame) /\ frame.csize = IF frame.csize = 0 THEN 0 ELSE frame.csize - made'
        BY <1>1, <1>2, <1>3, <1>4, <2>1 DEF Flags
      <3>2. AtInit(frame, ctx', at', blk', made')
        BY <1>1, <1>3, <1>6, <2>3, <3>1 DEF AtInit, Sound, LeftIs
      <3>3. QED  BY <2>3, <3>2, PlaceMeans
    <2>6. QED  BY <1>1, <2>1, <2>2, <2>4, <2>5, QuietToPlace
  <1>7. CASE call.src >= MaxFH /\ ~frame.skip /\ ~frame.good
    <2>1. pc' = "error" /\ UNCHANGED <<ctx, at, call>>
      BY <1>7 DEF Frm!GetFrameHeader
    <2>2. FaultyFrame(frame)
      BY <1>7 DEF FaultyFrame
    <2>3. at' = at + 0 /\ call'.src = call.src - 0 /\ call' \in CallRecords /\ call'.dst = call.dst
      BY <1>2, <2>1
    <2>4. QED  BY <1>1, <1>2, <2>1, <2>2, <2>3, QuietWrong
  <1>8. CASE ~(call.src >= MaxFH) /\ call.src = 0
    <2>1. pc' = "return" /\ UNCHANGED <<ctx, at, call>>
      BY <1>8 DEF Frm!GetFrameHeader, Frm!Ask
    <2>2. Uses(0) /\ QuietStep
      BY <1>1, <1>2, <1>8, <2>1 DEF Uses, QuietStep, Quiet, StageMove
    <2>3. PlaceOf(frame, ctx', at', blk', made')
      BY <1>1, <1>2, <2>1
    <2>4. QED  BY <1>1, <2>1, <2>2, <2>3, QuietToPlace
  <1>9. CASE ~(call.src >= MaxFH) /\ call.src # 0
    <2>1. /\ UNCHANGED <<at, call>> /\ pc' = "stage"
          /\ ctx' = [ctx EXCEPT !.stage = "storeFrameHeader", !.inSize = 0, !.inTarget = MinFH]
      BY <1>9 DEF Frm!GetFrameHeader, Frm!Onward, Frm!StoreFrom
    <2>2. Quiet(ctx, ctx') /\ ctx'.stage = "storeFrameHeader" /\ ctx'.inSize = 0 /\ ctx'.inTarget = MinFH
      BY <1>2, <2>1 DEF Quiet, Contexts, Stages, Sizes
    <2>3. Uses(0) /\ QuietStep
      BY <1>1, <1>2, <2>1, <2>2 DEF Uses, QuietStep, StageMove, Outer, Sizes
    <2>4. PlaceOf(frame, ctx', at', blk', made')
      <3>1. InHeader(frame, ctx', at', blk', made')
        BY <1>1, <1>2, <1>3, <2>1, <2>2 DEF InHeader, Sizes
      <3>2. QED  BY <2>2, <3>1, PlaceMeans
    <2>5. QED  BY <1>1, <2>1, <2>3, <2>4, QuietToPlace
  <1>10. QED
    BY <1>2, <1>5, <1>6, <1>7, <1>8, <1>9 DEF Flags

\* Bytes put where some are already.
Storing == {"storeFrameHeader", "storeSFrameSize", "storeBlockHeader", "storeCBlock", "storeSuffix"}

LEMMA StoredIs ==
    ASSUME AtWork, ctx.stage \in Storing
    PROVE  /\ Frm!Stored \in Nat /\ Frm!Stored <= call.src
           /\ ctx.inSize \in Nat /\ ctx.inTarget \in Nat /\ ctx.inSize < ctx.inTarget
           /\ ctx.inSize + Frm!Stored <= ctx.inTarget
           /\ Frm!Complete <=> ctx.inSize + Frm!Stored = ctx.inTarget
  <1>1. ctx.inSize \in Nat /\ ctx.inTarget \in Nat /\ call.src \in Nat
    BY WorkFacts, ContextIs
  <1>2. ctx.inSize < ctx.inTarget
    BY WorkFacts, PlaceMeans DEF Storing, InHeader, InSkipSize, InBlockHeader, InBlock, InSuffix
  <1>3. QED  BY <1>1, <1>2 DEF Frm!Stored, Frm!Complete, Frm!Min2

LEMMA StoreMore ==
    ASSUME AtWork, ctx.stage \in Storing, ~Frm!Complete, UNCHANGED <<frame, blk, made>>,
           at' = at + Frm!Stored, call' = Used(Frm!Stored), pc' = "return",
           ctx' = [ctx EXCEPT !.inSize = @ + Frm!Stored]
    PROVE  FrameInv'
  <1> DEFINE n == Frm!Stored
  <1>1. /\ ctx \in Contexts /\ at \in Nat /\ blk' \in 0..Len(frame.blocks) /\ made' = made /\ blk' = blk
        /\ frame' = frame /\ PlaceOf(frame, ctx, at, blk, made) /\ frame \in Frames /\ blk \in 0..Len(frame.blocks)
    BY WorkFacts
  <1>2. /\ n \in Nat /\ n <= call.src /\ ctx.inSize \in Nat /\ ctx.inTarget \in Nat
        /\ ctx.inSize + n < ctx.inTarget
    BY StoredIs
  <1> HIDE DEF n
  <1>3. ctx' = [ctx EXCEPT !.inSize = ctx.inSize + n] /\ at' = at + n /\ call' = Used(n)
    BY DEF n
  <1>4. /\ Quiet(ctx, ctx') /\ ctx'.stage = ctx.stage /\ ctx'.inSize = ctx.inSize + n
        /\ ctx'.inTarget = ctx.inTarget /\ ctx'.left = ctx.left
    <2> DEFINE i == ctx.inSize + n
    <2>1. i \in Nat /\ ctx' = [ctx EXCEPT !.inSize = i] /\ ctx \in Contexts
      BY <1>1, <1>2, <1>3
    <2> HIDE DEF i
    <2>2. /\ Quiet(ctx, ctx') /\ ctx'.stage = ctx.stage /\ ctx'.inSize = i
          /\ ctx'.inTarget = ctx.inTarget /\ ctx'.left = ctx.left
      BY <2>1 DEF Quiet, Contexts
    <2>3. QED  BY <2>2 DEF i
  <1>5. Uses(n) /\ QuietStep
    BY <1>1, <1>2, <1>3, <1>4 DEF Uses, QuietStep, StageMove
  <1>6. PlaceOf(frame, ctx', at', blk', made')
    <2>1. CASE ctx.stage = "storeFrameHeader"
      <3>1. InHeader(frame, ctx', at', blk', made')
        BY <1>1, <1>2, <1>3, <1>4, <2>1, PlaceMeans DEF InHeader
      <3>2. QED  BY <1>4, <2>1, <3>1, PlaceMeans
    <2>2. CASE ctx.stage = "storeSFrameSize"
      <3>1. InSkipSize(frame, ctx', at', blk', made')
        BY <1>1, <1>2, <1>3, <1>4, <2>2, PlaceMeans DEF InSkipSize
      <3>2. QED  BY <1>4, <2>2, <3>1, PlaceMeans
    <2>3. CASE ctx.stage = "storeBlockHeader"
      <3>1. InBlockHeader(frame, ctx, at, blk, made) /\ EndsOf(frame)[blk] \in Nat
        BY <1>1, <2>3, PlaceMeans, EndsFollow DEF AtWork
      <3> DEFINE e == EndsOf(frame)[blk]
      <3>2. at = e + ctx.inSize /\ e \in Nat
        BY <3>1 DEF InBlockHeader
      <3> HIDE DEF e
      <3>3. at' = e + ctx'.inSize
        BY <1>2, <1>3, <1>4, <3>2
      <3>4. InBlockHeader(frame, ctx', at', blk', made')
        BY <1>1, <1>2, <1>4, <3>1, <3>3 DEF InBlockHeader, e, LeftIs
      <3>5. QED  BY <1>4, <2>3, <3>4, PlaceMeans
    <2>4. CASE ctx.stage = "storeCBlock"
      <3>1. InBlock(frame, ctx, at, blk, made)
        BY <1>1, <2>4, PlaceMeans
      <3> DEFINE e == EndsOf(frame)[blk - 1]
      <3>2. at = e + BHSize + ctx.inSize /\ e \in Nat /\ BHSize \in Nat
        <4>1. blk >= 1 /\ blk - 1 \in 0..Len(frame.blocks)
          BY <1>1, <3>1, WorkFacts DEF InBlock, Opened
        <4>2. QED  BY <1>1, <3>1, <4>1, EndsFollow, WorkFacts DEF AtWork, InBlock, Sizes
      <3> HIDE DEF e
      <3>3. at' = e + BHSize + ctx'.inSize
        BY <1>2, <1>3, <1>4, <3>2
      <3>4. InBlock(frame, ctx', at', blk', made')
        BY <1>1, <1>2, <1>4, <3>1, <3>3 DEF InBlock, e, LeftIs
      <3>5. QED  BY <1>4, <2>4, <3>4, PlaceMeans
    <2>5. CASE ctx.stage = "storeSuffix"
      <3>1. InSuffix(frame, ctx, at, blk, made) /\ EndsOf(frame)[blk] \in Nat
        BY <1>1, <2>5, PlaceMeans, EndsFollow DEF AtWork
      <3> DEFINE e == EndsOf(frame)[blk]
      <3>2. at = e + BHSize + ctx.inSize /\ e \in Nat /\ BHSize \in Nat
        BY <3>1, WorkFacts DEF InSuffix, Sizes
      <3> HIDE DEF e
      <3>3. at' = e + BHSize + ctx'.inSize
        BY <1>2, <1>3, <1>4, <3>2
      <3>4. InSuffix(frame, ctx', at', blk', made')
        BY <1>1, <1>2, <1>4, <3>1, <3>3 DEF InSuffix, e, LeftIs
      <3>5. QED  BY <1>4, <2>5, <3>4, PlaceMeans
    <2>6. QED  BY <2>1, <2>2, <2>3, <2>4, <2>5 DEF Storing
  <1>7. QED  BY <1>3, <1>5, <1>6, QuietToPlace

LEMMA StoreFrameHeaderStep ==
    ASSUME FramesOk, FrameInv, Frm!StoreFrameHeader
    PROVE  FrameInv'
  <1> DEFINE n == Frm!Stored
  <1>1. /\ AtWork /\ ctx.stage = "storeFrameHeader" /\ UNCHANGED <<frame, blk, made>>
        /\ at' = at + n /\ call' = Used(n)
    BY DEF Frm!StoreFrameHeader, Frm!Store, Frm!At, AtWork, Frm!Stay, Frm!Use, Frm!Rest, Used
  <1>2. Sizes /\ Flags(frame) /\ ctx \in Contexts /\ call.src \in Nat /\ blk' \in 0..Len(frame.blocks)
        /\ at \in Nat /\ call \in CallRecords /\ PlaceOf(frame, ctx, at, blk, made)
    BY <1>1, WorkFacts
  <1>3. /\ at = ctx.inSize /\ blk = 0 /\ made = 0
        /\ ctx.inTarget = MinFH \/ (~frame.skip /\ ctx.inTarget = HeadOf(frame))
    BY <1>1, <1>2, PlaceMeans DEF InHeader
  <1>4. HeadOf(frame) \in Nat /\ HeadOf(frame) >= MinFH /\ Frm!HeaderLen = HeadOf(frame)
    BY <1>1, WorkFacts, BlocksAre, SameNames DEF AtWork
  <1>5. /\ n \in Nat /\ n <= call.src /\ ctx.inSize \in Nat /\ ctx.inTarget \in Nat
        /\ Frm!Complete <=> ctx.inSize + n = ctx.inTarget
    BY <1>1, StoredIs DEF Storing
  <1>6. Uses(n)
    BY <1>1, <1>5 DEF Uses
  <1> HIDE DEF n
  <1>7. CASE ~Frm!Complete
    <2>1. pc' = "return" /\ ctx' = [ctx EXCEPT !.inSize = @ + Frm!Stored]
      BY <1>7 DEF Frm!StoreFrameHeader, Frm!Store, Frm!Ask
    <2>2. QED  BY <1>1, <1>7, <2>1, StoreMore DEF n, Storing
  <1>8. CASE Frm!Complete /\ frame.skip
    <2>1. /\ pc' = "stage"
          /\ ctx' = [ctx EXCEPT !.stage = "storeSFrameSize", !.inSize = ctx.inTarget, !.inTarget = SFrameHead]
      BY <1>8 DEF Frm!StoreFrameHeader, Frm!Store, Frm!Onward
    <2>2. /\ Quiet(ctx, ctx') /\ ctx'.stage = "storeSFrameSize" /\ ctx'.inSize = ctx.inTarget
          /\ ctx'.inTarget = SFrameHead
      BY <1>2, <1>5, <2>1 DEF Quiet, Contexts, Stages, Sizes
    <2>3. QuietStep
      BY <1>1, <1>2, <2>2 DEF QuietStep, StageMove, Outer
    <2>4. PlaceOf(frame, ctx', at', blk', made')
      <3>1. InSkipSize(frame, ctx', at', blk', made')
        BY <1>1, <1>2, <1>3, <1>5, <1>8, <2>2 DEF InSkipSize, Sizes
      <3>2. QED  BY <2>2, <3>1, PlaceMeans
    <2>5. QED  BY <1>1, <1>6, <2>1, <2>3, <2>4, QuietToPlace
  <1>9. CASE Frm!Complete /\ ~frame.skip /\ ctx.inTarget < HeadOf(frame)
    <2>1. /\ pc' = "stage"
          /\ ctx' = [ctx EXCEPT !.inSize = ctx.inTarget, !.inTarget = HeadOf(frame)]
      BY <1>4, <1>9 DEF Frm!StoreFrameHeader, Frm!Store, Frm!Onward
    <2>2. /\ Quiet(ctx, ctx') /\ ctx'.stage = "storeFrameHeader" /\ ctx'.inSize = ctx.inTarget
          /\ ctx'.inTarget = HeadOf(frame)
      BY <1>1, <1>2, <1>4, <1>5, <2>1 DEF Quiet, Contexts, Stages
    <2>3. QuietStep
      BY <1>1, <1>2, <1>4, <1>5, <1>9, <2>2 DEF QuietStep, StageMove, Outer
    <2>4. PlaceOf(frame, ctx', at', blk', made')
      <3>1. InHeader(frame, ctx', at', blk', made')
        BY <1>1, <1>2, <1>3, <1>5, <1>9, <2>2 DEF InHeader
      <3>2. QED  BY <2>2, <3>1, PlaceMeans
    <2>5. QED  BY <1>1, <1>6, <2>1, <2>3, <2>4, QuietToPlace
  <1>10. CASE Frm!Complete /\ ~frame.skip /\ ~(ctx.inTarget < HeadOf(frame)) /\ frame.good
    <2>1. /\ pc' = "stage" /\ ctx' = [ctx EXCEPT !.stage = "init", !.left = frame.csize]
      BY <1>4, <1>10 DEF Frm!StoreFrameHeader, Frm!Store, Frm!Onward, Frm!HeaderDone
    <2>2. Quiet(ctx, ctx') /\ ctx'.stage = "init" /\ ctx'.left = frame.csize
      <3>1. frame.csize \in Int
        BY <1>2 DEF Flags
      <3>2. QED  BY <1>2, <2>1, <3>1 DEF Quiet, Contexts, Stages
    <2>3. QuietStep
      BY <1>1, <1>2, <2>2 DEF QuietStep, StageMove, Outer
    <2>4. PlaceOf(frame, ctx', at', blk', made')
      <3>1. at' = HeadOf(frame) /\ frame.csize = IF frame.csize = 0 THEN 0 ELSE frame.csize - made'
        BY <1>1, <1>2, <1>3, <1>4, <1>5, <1>10 DEF Flags, Sizes
      <3>2. AtInit(frame, ctx', at', blk', made')
        BY <1>1, <1>3, <1>10, <2>2, <3>1 DEF AtInit, Sound, LeftIs
      <3>3. QED  BY <2>2, <3>2, PlaceMeans
    <2>5. QED  BY <1>1, <1>6, <2>1, <2>3, <2>4, QuietToPlace
  <1>11. CASE Frm!Complete /\ ~frame.skip /\ ~(ctx.inTarget < HeadOf(frame)) /\ ~frame.good
    <2>1. pc' = "error" /\ UNCHANGED ctx
      BY <1>4, <1>11 DEF Frm!StoreFrameHeader, Frm!Store
    <2>2. FaultyFrame(frame)
      BY <1>11 DEF FaultyFrame
    <2>3. QED  BY <1>1, <1>2, <1>5, <1>6, <2>1, <2>2, UsesIs, QuietWrong
  <1>12. QED
    BY <1>2, <1>7, <1>8, <1>9, <1>10, <1>11 DEF Flags

\* The decoder is reset behind the last byte of the frame.
LEMMA ResetHome ==
    ASSUME AtWork, UNCHANGED <<frame, blk, made>>, NEW n \in Nat, n <= call.src, at' = at + n,
           call' = [Used(n) EXCEPT !.hint = 0], pc' = "return", ctx' = Frm!Reset(ctx),
           ~FaultyFrame(frame), at + n = FrameEnd(frame), ~frame.skip => made = ContentOf(frame)
    PROVE  FrameInv'
  <1>1. /\ ctx \in Contexts /\ call \in CallRecords /\ made \in Nat /\ blk \in 0..Len(frame.blocks)
        /\ MemoryOf(frame, ctx, call.dst, made)
    BY WorkFacts
  <1>2. /\ call' \in CallRecords /\ call'.src = call.src - n /\ call'.dst = call.dst /\ call'.hint = 0
    <2>1. 0 \in {0, 1}
      OBVIOUS
    <2>2. QED  BY <1>1, <2>1, UsedIs
  <1>3. /\ ctx' \in Contexts /\ ctx'.stage = "getFrameHeader" /\ ctx'.dict = Frm!NoDict
        /\ ctx'.off = ctx.off /\ ctx'.tmp = ctx.tmp
    <2>1. Frm!NoDict \in Dicts
      BY DEF Frm!NoDict, Dicts
    <2>2. ctx' = [ctx EXCEPT !.stage = "getFrameHeader", !.left = 0, !.dict = Frm!NoDict]
      BY DEF Frm!Reset
    <2>3. "getFrameHeader" \in Stages /\ 0 \in Int
      BY DEF Stages
    <2>4. QED  BY <1>1, <2>1, <2>2, <2>3 DEF Contexts
  <1>4. Goes(n)
    BY <1>1, <1>2, <1>3 DEF Goes
  <1>5. MemoryOK'
    <2>1. Frm!NoDict.where = "none"
      BY DEF Frm!NoDict
    <2>2. MemoryOf(frame', ctx', call'.dst, made')
      BY <1>1, <1>2, <1>3, <2>1 DEF MemoryOf, AmongBlocks
    <2>3. QED  BY <2>2 DEF MemoryOK
  <1>6. FinishedAt(frame, ctx', at', made')
    BY <1>3 DEF FinishedAt
  <1>7. QED  BY <1>2, <1>4, <1>5, <1>6, TypesKept, GoesHome DEF FrameInv

LEMMA InitBlocksStep ==
    ASSUME FramesOk, FrameInv, Frm!InitBlocks
    PROVE  FrameInv'
  <1>1. AtWork /\ ctx.stage = "init" /\ UNCHANGED <<frame, blk, made, at, call>>
    BY DEF Frm!InitBlocks, Frm!At, AtWork, Frm!Stay
  <1>2. /\ Sizes /\ Flags(frame) /\ frame \in Frames /\ ctx \in Contexts /\ call.src \in Nat
        /\ blk \in 0..Len(frame.blocks) /\ made \in Nat /\ at \in Nat /\ call \in CallRecords
        /\ call.hint = 1
        /\ PlaceOf(frame, ctx, at, blk, made) /\ MemoryOf(frame, ctx, call.dst, made)
    BY <1>1, WorkFacts
  <1>3. Sound(frame, 0) /\ at = HeadOf(frame) /\ blk = 0 /\ made = 0 /\ LeftIs(frame, ctx, made)
    BY <1>1, <1>2, PlaceMeans DEF AtInit
  <1>4. Frm!BufferNeeded = Needs(frame) /\ Needs(frame) \in Nat
    BY <1>2 DEF Frm!BufferNeeded, Needs, Sizes, Flags
  <1>5. Len(ctx.tmp) \in Nat /\ ctx.tmp \in Seq(Int)
    BY <1>2, ContextIs
  <1>6. CASE pc' = "error" /\ UNCHANGED ctx
    <2>1. at' = at + 0 /\ call'.src = call.src - 0 /\ call' \in CallRecords /\ call'.dst = call.dst
      BY <1>1, <1>2
    <2>2. QED  BY <1>1, <1>2, <1>6, <2>1, QuietWrong
  <1>7. CASE /\ Frm!Onward
             /\ ctx' = [ctx EXCEPT !.stage = "getBlockHeader", !.inSize = 0, !.inTarget = 0,
                  !.tmp = IF Len(@) < Frm!BufferNeeded THEN [k \in 1..Frm!BufferNeeded |-> Frm!Garbage] ELSE @,
                  !.off = 0, !.outStart = 0, !.outSize = 0]
    <2> DEFINE t == IF Len(ctx.tmp) < Needs(frame) THEN [k \in 1..Needs(frame) |-> Frm!Garbage] ELSE ctx.tmp
    <2>1. t \in Seq(Int) /\ Len(t) >= Needs(frame)
      <3>1. CASE Len(ctx.tmp) < Needs(frame)
        <4>1. t = [k \in 1..Needs(frame) |-> -1]
          BY <3>1 DEF Frm!Garbage
        <4>2. [k \in 1..Needs(frame) |-> -1] \in Seq(Int) /\ Len([k \in 1..Needs(frame) |-> -1]) = Needs(frame)
          <5> DEFINE z == Needs(frame)
          <5>1. z \in Nat /\ \A k \in 1..z : -1 \in Int
            BY <1>4
          <5> HIDE DEF z
          <5>2. [k \in 1..z |-> -1] \in Seq(Int) /\ Len([k \in 1..z |-> -1]) = z
            BY <5>1, IsASeq
          <5>3. QED  BY <5>2 DEF z
        <4>3. QED  BY <1>4, <4>1, <4>2
      <3>2. CASE ~(Len(ctx.tmp) < Needs(frame))
        BY <1>4, <1>5, <3>2
      <3>3. QED  BY <3>1, <3>2
    <2>2. ctx' = [ctx EXCEPT !.stage = "getBlockHeader", !.inSize = 0, !.inTarget = 0,
                  !.tmp = t, !.off = 0, !.outStart = 0, !.outSize = 0]
      BY <1>4, <1>7
    <2> HIDE DEF t
    <2>3. /\ ctx' \in Contexts /\ ctx'.stage = "getBlockHeader" /\ ctx'.tmp = t /\ ctx'.off = 0
          /\ ctx'.dict = ctx.dict /\ ctx'.left = ctx.left
      BY <1>2, <2>1, <2>2 DEF Contexts, Stages
    <2>4. pc' = "stage" /\ at' = at + 0 /\ call'.src = call.src - 0
      BY <1>1, <1>2, <1>7 DEF Frm!Onward
    <2>5. Goes(0)
      BY <1>1, <1>2, <2>3, <2>4 DEF Goes
    <2>6. MemoryOK'
      <3>1. ctx.dict = Frm!NoDict /\ Frm!NoDict.where = "none"
        BY <1>1, <1>2 DEF MemoryOf, Outer, Frm!NoDict
      <3>2. HistoryHere(ctx', call.dst, made)
        BY <1>3, <2>3, <3>1 DEF HistoryHere
      <3>3. Upto(call.dst, made) /\ 0 <= 2 * Window
        BY <1>2 DEF MemoryOf, Sizes
      <3>4. MemoryOf(frame, ctx', call.dst, made)
        BY <2>1, <2>3, <3>1, <3>2, <3>3 DEF MemoryOf, Outer
      <3>5. QED  BY <1>1, <3>4 DEF MemoryOK
    <2>7. PlaceOf(frame, ctx', at', blk', made')
      <3>1. EndsOf(frame)[0] = HeadOf(frame) /\ GivenOf(frame)[0] = 0
        BY <1>1, <1>2, EndsFollow, GivenFollow DEF AtWork
      <3>2. AtBlockHeader(frame, ctx', at', blk', made')
        BY <1>1, <1>3, <2>3, <3>1 DEF AtBlockHeader, LeftIs
      <3>3. QED  BY <2>3, <3>2, PlaceMeans
    <2>8. CallsOK'
      BY <1>1, <1>2, <2>4, <2>5, <2>7, GoesToPlace
    <2>9. QED  BY <1>1, <2>5, <2>6, <2>8, TypesKept DEF FrameInv
  <1>8. QED  BY <1>6, <1>7 DEF Frm!InitBlocks

-----------------------------------------------------------------------------
(* Skippable frames.                                                       *)

LEMMA GetSFrameSizeStep ==
    ASSUME FramesOk, FrameInv, Frm!GetSFrameSize
    PROVE  FrameInv'
  <1>1. AtWork /\ ctx.stage = "getSFrameSize" /\ UNCHANGED <<frame, blk, made>> /\ pc' = "stage"
    BY DEF Frm!GetSFrameSize, Frm!At, AtWork, Frm!Stay, Frm!Onward
  <1>2. /\ Sizes /\ Flags(frame) /\ ctx \in Contexts /\ call.src \in Nat /\ blk' \in 0..Len(frame.blocks)
        /\ at \in Nat /\ PlaceOf(frame, ctx, at, blk, made)
    BY <1>1, WorkFacts
  <1>3. frame.skip /\ at = SFrameMagic
    BY <1>1, <1>2, PlaceMeans DEF AtSkipSize
  <1> DEFINE n == SFrameHead - SFrameMagic
  <1>4. CASE call.src >= n
    <2>1. /\ at' = at + n /\ call' = Used(n)
          /\ ctx' = [ctx EXCEPT !.stage = "skipSkippable", !.inTarget = frame.csize]
      BY <1>4 DEF Frm!GetSFrameSize, Frm!Use, Frm!Rest, Used
    <2>2. Uses(n)
      <3>1. n \in Nat /\ n <= call.src
        BY <1>2, <1>4 DEF Sizes
      <3> HIDE DEF n
      <3>2. QED  BY <2>1, <3>1 DEF Uses
    <2>3. Quiet(ctx, ctx') /\ ctx'.stage = "skipSkippable" /\ ctx'.inTarget = frame.csize
      BY <1>2, <2>1 DEF Quiet, Contexts, Stages, Flags
    <2>4. QuietStep
      BY <1>1, <1>2, <2>3 DEF QuietStep, StageMove, Outer
    <2>5. PlaceOf(frame, ctx', at', blk', made')
      <3>1. InSkipped(frame, ctx', at', blk', made')
        BY <1>2, <1>3, <2>1, <2>3 DEF InSkipped, Sizes, Flags
      <3>2. QED  BY <2>3, <3>1, PlaceMeans
    <2>6. QED  BY <1>1, <2>2, <2>4, <2>5, QuietToPlace
  <1>5. CASE ~(call.src >= n)
    <2>1. /\ UNCHANGED <<at, call>>
          /\ ctx' = [ctx EXCEPT !.stage = "storeSFrameSize", !.inSize = SFrameMagic, !.inTarget = SFrameHead]
      BY <1>5 DEF Frm!GetSFrameSize
    <2>2. /\ Quiet(ctx, ctx') /\ ctx'.stage = "storeSFrameSize" /\ ctx'.inSize = SFrameMagic
          /\ ctx'.inTarget = SFrameHead
      BY <1>2, <2>1 DEF Quiet, Contexts, Stages, Sizes
    <2>3. Uses(0) /\ QuietStep
      BY <1>1, <1>2, <2>1, <2>2 DEF Uses, QuietStep, StageMove, Outer
    <2>4. PlaceOf(frame, ctx', at', blk', made')
      <3>1. InSkipSize(frame, ctx', at', blk', made')
        BY <1>2, <1>3, <2>1, <2>2 DEF InSkipSize, Sizes
      <3>2. QED  BY <2>2, <3>1, PlaceMeans
    <2>5. QED  BY <1>1, <2>3, <2>4, QuietToPlace
  <1>6. QED  BY <1>4, <1>5

LEMMA StoreSFrameSizeStep ==
    ASSUME FramesOk, FrameInv, Frm!StoreSFrameSize
    PROVE  FrameInv'
  <1> DEFINE n == Frm!Stored
  <1>1. /\ AtWork /\ ctx.stage = "storeSFrameSize" /\ UNCHANGED <<frame, blk, made>>
        /\ at' = at + n /\ call' = Used(n)
    BY DEF Frm!StoreSFrameSize, Frm!Store, Frm!At, AtWork, Frm!Stay, Frm!Use, Frm!Rest, Used
  <1>2. Sizes /\ Flags(frame) /\ ctx \in Contexts /\ call.src \in Nat /\ blk' \in 0..Len(frame.blocks)
        /\ at \in Nat /\ PlaceOf(frame, ctx, at, blk, made)
    BY <1>1, WorkFacts
  <1>3. frame.skip /\ at = ctx.inSize /\ ctx.inTarget = SFrameHead
    BY <1>1, <1>2, PlaceMeans DEF InSkipSize
  <1>4. /\ n \in Nat /\ n <= call.src /\ ctx.inSize \in Nat /\ ctx.inTarget \in Nat
        /\ Frm!Complete <=> ctx.inSize + n = ctx.inTarget
    BY <1>1, StoredIs DEF Storing
  <1>5. Uses(n)
    BY <1>1, <1>4 DEF Uses
  <1> HIDE DEF n
  <1>6. CASE ~Frm!Complete
    <2>1. pc' = "return" /\ ctx' = [ctx EXCEPT !.inSize = @ + Frm!Stored]
      BY <1>6 DEF Frm!StoreSFrameSize, Frm!Store, Frm!Ask
    <2>2. QED  BY <1>1, <1>6, <2>1, StoreMore DEF n, Storing
  <1>7. CASE Frm!Complete
    <2>1. /\ pc' = "stage" /\ ctx' = [ctx EXCEPT !.stage = "skipSkippable", !.inTarget = frame.csize]
      BY <1>7 DEF Frm!StoreSFrameSize, Frm!Store, Frm!Onward
    <2>2. Quiet(ctx, ctx') /\ ctx'.stage = "skipSkippable" /\ ctx'.inTarget = frame.csize
      BY <1>2, <2>1 DEF Quiet, Contexts, Stages, Flags
    <2>3. QuietStep
      BY <1>1, <1>2, <2>2 DEF QuietStep, StageMove, Outer
    <2>4. PlaceOf(frame, ctx', at', blk', made')
      <3>1. InSkipped(frame, ctx', at', blk', made')
        BY <1>1, <1>2, <1>3, <1>4, <1>7, <2>2 DEF InSkipped, Sizes, Flags
      <3>2. QED  BY <2>2, <3>1, PlaceMeans
    <2>5. QED  BY <1>1, <1>5, <2>1, <2>3, <2>4, QuietToPlace
  <1>8. QED  BY <1>6, <1>7

LEMMA SkipSkippableStep ==
    ASSUME FramesOk, FrameInv, Frm!SkipSkippable
    PROVE  FrameInv'
  <1> DEFINE n == Frm!Min2(ctx.inTarget, call.src)
  <1>1. /\ AtWork /\ ctx.stage = "skipSkippable" /\ UNCHANGED <<frame, blk, made>>
        /\ at' = at + n /\ pc' = "return"
    BY DEF Frm!SkipSkippable, Frm!At, AtWork, Frm!Stay, Frm!Use, Frm!Ask
  <1>2. /\ Sizes /\ Flags(frame) /\ ctx \in Contexts /\ call.src \in Nat /\ blk' \in 0..Len(frame.blocks)
        /\ at \in Nat /\ PlaceOf(frame, ctx, at, blk, made) /\ ctx.inTarget \in Nat
    BY <1>1, WorkFacts, ContextIs
  <1>3. frame.skip /\ at + ctx.inTarget = SFrameHead + frame.csize
    BY <1>1, <1>2, PlaceMeans DEF InSkipped
  <1>4. n \in Nat /\ n <= call.src /\ n <= ctx.inTarget
    BY <1>2 DEF Frm!Min2
  <1>5. CASE n = ctx.inTarget
    <2>1. ctx' = Frm!Reset(ctx) /\ call' = [Used(n) EXCEPT !.hint = 0]
      BY <1>5 DEF Frm!SkipSkippable, Frm!Rest, Used
    <2>2. ~FaultyFrame(frame) /\ at + n = FrameEnd(frame)
      BY <1>3, <1>5 DEF FaultyFrame, FrameEnd
    <2> HIDE DEF n
    <2>3. QED  BY <1>1, <1>3, <1>4, <2>1, <2>2, ResetHome
  <1>6. CASE ~(n = ctx.inTarget)
    <2> DEFINE t == ctx.inTarget - n
    <2>1. ctx' = [ctx EXCEPT !.inTarget = t] /\ call' = Used(n)
      BY <1>6 DEF Frm!SkipSkippable, Frm!Rest, Used
    <2> HIDE DEF n
    <2>2. t \in Nat
      BY <1>2, <1>4
    <2> HIDE DEF t
    <2>3. Quiet(ctx, ctx') /\ ctx'.stage = "skipSkippable" /\ ctx'.inTarget = t
      BY <1>1, <1>2, <2>1, <2>2 DEF Quiet, Contexts
    <2>4. Uses(n) /\ QuietStep
      BY <1>1, <1>2, <1>4, <2>1, <2>3 DEF Uses, QuietStep, StageMove
    <2>5. PlaceOf(frame, ctx', at', blk', made')
      <3>1. at' + t = SFrameHead + frame.csize
        BY <1>1, <1>2, <1>3, <1>4 DEF t, Sizes, Flags
      <3>2. InSkipped(frame, ctx', at', blk', made')
        BY <1>1, <1>3, <2>3, <3>1 DEF InSkipped
      <3>3. QED  BY <2>3, <3>2, PlaceMeans
    <2>6. QED  BY <1>1, <2>4, <2>5, QuietToPlace
  <1>7. QED  BY <1>5, <1>6

-----------------------------------------------------------------------------
(* Block headers and checksums.                                            *)

\* The header of a block, or the end mark, is read.
LEMMA HeaderRead ==
    ASSUME AtWork, ctx.stage \in {"getBlockHeader", "storeBlockHeader"}, NEW n, Uses(n), NEW s,
           Frm!DecodeBlockHeader(s), Sound(frame, blk), at + n = EndsOf(frame)[blk] + BHSize,
           made = GivenOf(frame)[blk], LeftIs(frame, ctx, made)
    PROVE  FrameInv'
  <1>1. /\ Sizes /\ frame \in Frames /\ Flags(frame) /\ ctx \in Contexts /\ call.src \in Nat
        /\ Len(frame.blocks) \in Nat /\ blk \in 0..Len(frame.blocks) /\ at' = at + n
        /\ ctx.stage \in AmongBlocks /\ FramesOk
    BY WorkFacts, UsesIs DEF AmongBlocks, AtWork
  <1>2. UNCHANGED <<frame, made>>
    BY DEF Frm!DecodeBlockHeader
  <1>3. CASE blk = Len(frame.blocks)
    <2>1. pc' = "stage" /\ ctx' = [ctx EXCEPT !.stage = "getSuffix"] /\ blk' = blk
      BY <1>3 DEF Frm!DecodeBlockHeader, Frm!Onward
    <2>2. Quiet(ctx, ctx') /\ ctx'.stage = "getSuffix" /\ ctx'.left = ctx.left
      BY <1>1, <2>1 DEF Quiet, Contexts, Stages
    <2>3. QuietStep
      BY <1>1, <1>2, <2>1, <2>2 DEF QuietStep, StageMove, Trailer
    <2>4. AtSuffix(frame, ctx', at', blk', made')
      BY <1>1, <1>2, <1>3, <2>1, <2>2 DEF AtSuffix, LeftIs
    <2>5. PlaceOf(frame, ctx', at', blk', made')
      BY <2>2, <2>4, PlaceMeans
    <2>6. QED  BY <2>1, <2>3, <2>5, QuietToPlace
  <1>4. CASE blk # Len(frame.blocks)
    <2> DEFINE j == blk + 1
               b == frame.blocks[j]
    <2>1. blk' = j /\ j \in 1..Len(frame.blocks) /\ j \in 0..Len(frame.blocks) /\ j >= 1 /\ j - 1 = blk
      BY <1>1, <1>4 DEF Frm!DecodeBlockHeader
    <2>2. b.in \in Nat /\ b.raw \in BOOLEAN /\ DataOf(frame, b) \in Nat
          /\ (b.raw => b.out = b.in) /\ Frm!DataLen(b) = DataOf(frame, b)
      BY <1>1, <2>1, BlocksAre, SameNames
    <2>3. GivenOf(frame)[j] = GivenOf(frame)[blk] + b.out
      <3>1. GivenOf(frame)[j] = GivenOf(frame)[j - 1] + frame.blocks[j].out
        BY <1>1, <2>1, GivenFollow
      <3>2. QED  BY <2>1, <3>1
    <2>4. CASE b.in > MaxBlock
      <3>1. pc' = "error" /\ UNCHANGED ctx
        BY <1>4, <2>4 DEF Frm!DecodeBlockHeader
      <3>2. FaultyFrame(frame)
        <4>1. BadOf(frame, frame.blocks[j]) /\ ~frame.skip
          BY <2>4 DEF BadOf, Sound
        <4> HIDE DEF j
        <4>2. QED  BY <2>1, <4>1 DEF FaultyFrame
      <3>3. blk' \in 0..Len(frame.blocks) /\ n \in Nat /\ n <= call.src
        BY <2>1 DEF Uses
      <3>4. QED  BY <1>2, <3>1, <3>2, <3>3, UsesIs, QuietWrong
    <2>5. CASE ~(b.in > MaxBlock) /\ b.raw
      <3>1. pc' = "stage" /\ ctx' = [ctx EXCEPT !.stage = "copyDirect", !.inTarget = b.in]
        BY <1>4, <2>5 DEF Frm!DecodeBlockHeader, Frm!Onward
      <3> DEFINE z == b.in
      <3>2. z \in Nat /\ ctx' = [ctx EXCEPT !.stage = "copyDirect", !.inTarget = z]
        BY <2>2, <3>1
      <3>3. Opened(frame, j) /\ z <= MaxBlock
        BY <1>1, <2>1, <2>2, <2>5 DEF Opened, Sizes
      <3>4. made + z = GivenOf(frame)[j]
        BY <2>2, <2>3, <2>5
      <3>5. (at + n) + z = EndsOf(frame)[j - 1] + BHSize + z
        BY <2>1
      <3>6. frame.blocks[j].raw /\ z = frame.blocks[j].in
        BY <2>5
      <3> HIDE DEF z, j
      <3>7. /\ Quiet(ctx, ctx') /\ ctx'.stage = "copyDirect" /\ ctx'.left = ctx.left
            /\ ctx'.inTarget = z
        BY <1>1, <3>2 DEF Quiet, Contexts, Stages
      <3>8. QuietStep
        BY <1>1, <1>2, <2>1, <3>7 DEF QuietStep, StageMove, AmongBlocks
      <3>9. InRawBlock(frame, ctx', at', blk', made')
        BY <1>1, <1>2, <2>1, <3>3, <3>4, <3>5, <3>6, <3>7 DEF InRawBlock, LeftIs
      <3>10. PlaceOf(frame, ctx', at', blk', made')
        BY <3>7, <3>9, PlaceMeans
      <3>11. QED  BY <3>1, <3>8, <3>10, QuietToPlace
    <2>6. CASE ~(b.in > MaxBlock) /\ ~b.raw
      <3> DEFINE z == DataOf(frame, b)
      <3>1. pc' \in {"stage", "return"} /\ ctx' = [ctx EXCEPT !.stage = "getCBlock", !.inTarget = z]
        BY <1>4, <2>2, <2>6 DEF Frm!DecodeBlockHeader, Frm!Onward, Frm!Ask
      <3>2. z \in Nat
        BY <2>2
      <3>3. Opened(frame, j)
        BY <1>1, <2>1, <2>2, <2>6 DEF Opened, Sizes
      <3>4. z = DataOf(frame, frame.blocks[j])
        OBVIOUS
      <3> HIDE DEF z, j
      <3>5. /\ Quiet(ctx, ctx') /\ ctx'.stage = "getCBlock" /\ ctx'.left = ctx.left
            /\ ctx'.inTarget = z
        BY <1>1, <3>1, <3>2 DEF Quiet, Contexts, Stages
      <3>6. QuietStep
        BY <1>1, <1>2, <2>1, <3>5 DEF QuietStep, StageMove, AmongBlocks
      <3>7. AtBlock(frame, ctx', at', blk', made')
        BY <1>1, <1>2, <2>1, <3>3, <3>4, <3>5 DEF AtBlock, LeftIs
      <3>8. PlaceOf(frame, ctx', at', blk', made')
        BY <3>5, <3>7, PlaceMeans
      <3>9. QED  BY <3>1, <3>6, <3>8, QuietToPlace
    <2>7. QED  BY <2>2, <2>4, <2>5, <2>6
  <1>5. QED  BY <1>3, <1>4

LEMMA GetBlockHeaderStep ==
    ASSUME FramesOk, FrameInv, Frm!GetBlockHeader
    PROVE  FrameInv'
  <1>1. AtWork /\ ctx.stage = "getBlockHeader"
    BY DEF Frm!GetBlockHeader, Frm!At, AtWork
  <1>2. /\ Sizes /\ frame \in Frames /\ ctx \in Contexts /\ call.src \in Nat
        /\ blk \in 0..Len(frame.blocks) /\ at \in Nat /\ PlaceOf(frame, ctx, at, blk, made)
    BY <1>1, WorkFacts
  <1>3. AtBlockHeader(frame, ctx, at, blk, made)
    BY <1>1, <1>2, PlaceMeans
  <1>4. CASE call.src >= BHSize
    <2>1. at' = at + BHSize /\ call' = Used(BHSize) /\ Frm!DecodeBlockHeader(call.src - BHSize)
      BY <1>4 DEF Frm!GetBlockHeader, Frm!Use, Frm!Rest, Used
    <2>2. Uses(BHSize)
      BY <1>2, <1>4, <2>1 DEF Uses, Sizes
    <2>3. /\ Sound(frame, blk) /\ at + BHSize = EndsOf(frame)[blk] + BHSize
          /\ made = GivenOf(frame)[blk] /\ LeftIs(frame, ctx, made)
      BY <1>3 DEF AtBlockHeader
    <2>4. QED  BY <1>1, <2>1, <2>2, <2>3, HeaderRead
  <1>5. CASE ~(call.src >= BHSize)
    <2>1. /\ UNCHANGED <<frame, blk, made, at, call>> /\ pc' = "stage"
          /\ ctx' = [ctx EXCEPT !.stage = "storeBlockHeader", !.inSize = 0, !.inTarget = BHSize]
      BY <1>5 DEF Frm!GetBlockHeader, Frm!Onward, Frm!StoreFrom, Frm!Stay
    <2>2. /\ Quiet(ctx, ctx') /\ ctx'.stage = "storeBlockHeader" /\ ctx'.inSize = 0
          /\ ctx'.inTarget = BHSize /\ ctx'.left = ctx.left
      BY <1>2, <2>1 DEF Quiet, Contexts, Stages, Sizes
    <2>3. Uses(0) /\ QuietStep
      BY <1>1, <1>2, <2>1, <2>2 DEF Uses, QuietStep, StageMove, AmongBlocks
    <2>4. PlaceOf(frame, ctx', at', blk', made')
      <3>1. EndsOf(frame)[blk] \in Nat
        BY <1>1, <1>2, EndsFollow DEF AtWork
      <3>2. InBlockHeader(frame, ctx', at', blk', made')
        BY <1>2, <1>3, <2>1, <2>2, <3>1 DEF InBlockHeader, AtBlockHeader, LeftIs, Sizes
      <3>3. QED  BY <2>2, <3>2, PlaceMeans
    <2>5. QED  BY <1>1, <2>1, <2>3, <2>4, QuietToPlace
  <1>6. QED  BY <1>4, <1>5

LEMMA StoreBlockHeaderStep ==
    ASSUME FramesOk, FrameInv, Frm!StoreBlockHeader
    PROVE  FrameInv'
  <1> DEFINE n == Frm!Stored
  <1>1. AtWork /\ ctx.stage = "storeBlockHeader" /\ at' = at + n /\ call' = Used(n)
    BY DEF Frm!StoreBlockHeader, Frm!At, AtWork, Frm!Use, Frm!Rest, Used
  <1>2. /\ frame \in Frames /\ ctx \in Contexts /\ call.src \in Nat
        /\ blk \in 0..Len(frame.blocks) /\ at \in Nat /\ PlaceOf(frame, ctx, at, blk, made)
    BY <1>1, WorkFacts
  <1>3. InBlockHeader(frame, ctx, at, blk, made)
    BY <1>1, <1>2, PlaceMeans
  <1>4. /\ n \in Nat /\ n <= call.src /\ ctx.inSize \in Nat /\ ctx.inTarget \in Nat
        /\ Frm!Complete <=> ctx.inSize + n = ctx.inTarget
    BY <1>1, StoredIs DEF Storing
  <1>5. Uses(n)
    BY <1>1, <1>4 DEF Uses
  <1> HIDE DEF n
  <1>6. CASE ~Frm!Complete
    <2>1. /\ UNCHANGED <<frame, blk, made>> /\ pc' = "return"
          /\ ctx' = [ctx EXCEPT !.inSize = @ + Frm!Stored]
      BY <1>6 DEF Frm!StoreBlockHeader, Frm!Ask, Frm!Stay
    <2>2. QED  BY <1>1, <1>6, <2>1, StoreMore DEF n, Storing
  <1>7. CASE Frm!Complete
    <2>1. Frm!DecodeBlockHeader(call.src - n)
      BY <1>7 DEF Frm!StoreBlockHeader, n
    <2>2. at + n = EndsOf(frame)[blk] + BHSize
      <3> DEFINE e == EndsOf(frame)[blk]
      <3>1. e \in Nat
        BY <1>1, <1>2, EndsFollow DEF AtWork
      <3>2. at = e + ctx.inSize /\ ctx.inSize + n = BHSize
        BY <1>3, <1>4, <1>7 DEF InBlockHeader
      <3> HIDE DEF e
      <3>3. at + n = e + BHSize
        BY <1>4, <3>1, <3>2
      <3>4. QED  BY <3>3 DEF e
    <2>3. Sound(frame, blk) /\ made = GivenOf(frame)[blk] /\ LeftIs(frame, ctx, made)
      BY <1>3 DEF InBlockHeader
    <2>4. QED  BY <1>1, <1>5, <2>1, <2>2, <2>3, HeaderRead
  <1>8. QED  BY <1>6, <1>7

\* Block b, opened before, is found in order.
LEMMA SoundAgain ==
    ASSUME NEW f, NEW b \in Nat, Opened(f, b), ~BadOf(f, f.blocks[b])
    PROVE  Sound(f, b)
  <1>1. \A k \in 1..b : k = b \/ k \in 1..(b - 1)
    OBVIOUS
  <1>2. QED  BY <1>1 DEF Opened, Sound

\* A raw block is bad only for its size or its checksum.
LEMMA RawSound ==
    ASSUME FramesOk, NEW f \in Frames, NEW b \in 1..Len(f.blocks), Opened(f, b), f.blocks[b].raw,
           f.bcrc => f.blocks[b].crc_ok
    PROVE  Sound(f, b)
  <1>1. f.blocks[b].in \in Nat /\ f.blocks[b].good /\ f.blocks[b].out = f.blocks[b].in /\ Len(f.blocks) \in Nat
    BY BlocksAre
  <1>2. f.blocks[b].in <= MaxBlock /\ MaxBlock \in Nat
    BY SizesAre DEF Opened, Sizes
  <1>3. ~BadOf(f, f.blocks[b])
    BY <1>1, <1>2 DEF BadOf
  <1>4. QED  BY <1>1, <1>3, SoundAgain

LEMMA GetBlockChecksumStep ==
    ASSUME FramesOk, FrameInv, Frm!GetBlockChecksum
    PROVE  FrameInv'
  <1> DEFINE n == Frm!Min2(CrcSize - ctx.inSize, call.src)
             i == ctx.inSize + n
             p == EndsOf(frame)[blk - 1] + BHSize + frame.blocks[blk].in
  <1>1. /\ AtWork /\ ctx.stage = "getBlockChecksum" /\ UNCHANGED <<frame, blk, made>>
        /\ at' = at + n /\ call' = Used(n)
    BY DEF Frm!GetBlockChecksum, Frm!At, AtWork, Frm!Stay, Frm!Use, Frm!Rest, Used
  <1>2. /\ Sizes /\ frame \in Frames /\ ctx \in Contexts /\ call.src \in Nat /\ ctx.inSize \in Nat
        /\ blk \in 0..Len(frame.blocks) /\ at \in Nat /\ PlaceOf(frame, ctx, at, blk, made)
        /\ Len(frame.blocks) \in Nat
    BY <1>1, WorkFacts, ContextIs
  <1>3. InRawSum(frame, ctx, at, blk, made)
    BY <1>1, <1>2, PlaceMeans
  <1>4. /\ Opened(frame, blk) /\ frame.blocks[blk].raw /\ frame.bcrc /\ ctx.inSize < CrcSize
        /\ at = p + ctx.inSize /\ made = GivenOf(frame)[blk] /\ LeftIs(frame, ctx, made)
        /\ blk \in 1..Len(frame.blocks)
    BY <1>2, <1>3 DEF InRawSum, Opened
  <1>5. n \in Nat /\ n <= call.src /\ i \in Nat /\ i <= CrcSize
    <2> DEFINE q == CrcSize - ctx.inSize
    <2>1. q \in Nat /\ ctx.inSize + q = CrcSize /\ ctx.inSize \in Nat /\ call.src \in Nat
      BY <1>2, <1>4 DEF Sizes
    <2>2. n = IF q < call.src THEN q ELSE call.src
      BY DEF Frm!Min2
    <2> HIDE DEF n, q
    <2>3. QED  BY <2>1, <2>2
  <1>6. Uses(n)
    BY <1>1, <1>5 DEF Uses
  <1>7. p \in Nat /\ EndsOf(frame)[blk] = p + CrcSize
    <2>1. EndsOf(frame)[blk - 1] \in Nat /\ frame.blocks[blk].in \in Nat
          /\ EndsOf(frame)[blk] = EndsOf(frame)[blk - 1] + BHSize + DataOf(frame, frame.blocks[blk])
      <3>1. blk - 1 \in 0..Len(frame.blocks) /\ FramesOk
        BY <1>1, <1>2, <1>4 DEF AtWork
      <3>2. QED  BY <1>2, <1>4, <3>1, EndsFollow, BlocksAre
    <2>2. DataOf(frame, frame.blocks[blk]) = frame.blocks[blk].in + CrcSize
      BY <1>4 DEF DataOf, Bits
    <2> DEFINE e == EndsOf(frame)[blk - 1]
               z == frame.blocks[blk].in
               d == DataOf(frame, frame.blocks[blk])
    <2>3. e \in Nat /\ z \in Nat /\ EndsOf(frame)[blk] = e + BHSize + d /\ d = z + CrcSize
      BY <2>1, <2>2
    <2>4. BHSize \in Nat /\ CrcSize \in Nat /\ p = e + BHSize + z
      BY <1>2 DEF Sizes
    <2> HIDE DEF e, z, d, p
    <2>5. QED  BY <2>3, <2>4
  <1>8. at' = p + i
    <2> HIDE DEF n, p
    <2>1. QED  BY <1>1, <1>2, <1>4, <1>5, <1>7 DEF i
  <1>9. CASE i < CrcSize
    <2>1. pc' = "return" /\ ctx' = [ctx EXCEPT !.inSize = i]
      BY <1>9 DEF Frm!GetBlockChecksum, Frm!Ask
    <2> HIDE DEF n, i, p
    <2>2. /\ Quiet(ctx, ctx') /\ ctx'.stage = "getBlockChecksum" /\ ctx'.inSize = i
          /\ ctx'.left = ctx.left
      BY <1>1, <1>2, <1>5, <2>1 DEF Quiet, Contexts
    <2>3. QuietStep
      BY <1>1, <1>2, <2>2 DEF QuietStep, StageMove
    <2>4. InRawSum(frame, ctx', at', blk', made')
      BY <1>1, <1>4, <1>8, <1>9, <2>2 DEF InRawSum, LeftIs, p
    <2>5. PlaceOf(frame, ctx', at', blk', made')
      BY <2>2, <2>4, PlaceMeans
    <2>6. QED  BY <1>1, <1>6, <2>1, <2>3, <2>5, QuietToPlace
  <1>10. CASE ~(i < CrcSize) /\ frame.blocks[blk].crc_ok
    <2>1. pc' = "stage" /\ ctx' = [ctx EXCEPT !.stage = "getBlockHeader"]
      BY <1>10 DEF Frm!GetBlockChecksum, Frm!Onward, Frm!Block
    <2>2. i = CrcSize
      BY <1>2, <1>5, <1>10 DEF Sizes
    <2> HIDE DEF n, i, p
    <2>3. Quiet(ctx, ctx') /\ ctx'.stage = "getBlockHeader" /\ ctx'.left = ctx.left
      BY <1>2, <2>1 DEF Quiet, Contexts, Stages
    <2>4. QuietStep
      BY <1>1, <1>2, <2>3 DEF QuietStep, StageMove, AmongBlocks
    <2>5. Sound(frame, blk)
      BY <1>1, <1>2, <1>4, <1>10, RawSound DEF AtWork
    <2>6. AtBlockHeader(frame, ctx', at', blk', made')
      BY <1>1, <1>4, <1>7, <1>8, <2>2, <2>3, <2>5 DEF AtBlockHeader, LeftIs
    <2>7. PlaceOf(frame, ctx', at', blk', made')
      BY <2>3, <2>6, PlaceMeans
    <2>8. QED  BY <1>1, <1>6, <2>1, <2>4, <2>7, QuietToPlace
  <1>11. CASE ~(i < CrcSize) /\ ~frame.blocks[blk].crc_ok
    <2>1. pc' = "error" /\ UNCHANGED ctx
      BY <1>11 DEF Frm!GetBlockChecksum, Frm!Block
    <2>2. FaultyFrame(frame)
      <3>1. BadOf(frame, frame.blocks[blk]) /\ ~frame.skip
        BY <1>4, <1>11 DEF BadOf, Opened, Sound
      <3>2. QED  BY <1>4, <3>1 DEF FaultyFrame
    <2> HIDE DEF n
    <2>3. QED  BY <1>1, <1>2, <1>5, <1>6, <2>1, <2>2, UsesIs, QuietWrong
  <1>12. QED  BY <1>9, <1>10, <1>11

-----------------------------------------------------------------------------
(* The end of a frame.                                                     *)

LEMMA FrameInOrder ==
    ASSUME NEW f, Sound(f, Len(f.blocks)), f.csize = 0 \/ f.csize = ContentOf(f), f.ccrc => f.ccrc_ok
    PROVE  ~FaultyFrame(f)
  BY DEF FaultyFrame, Sound

LEMMA FrameEndIs ==
    ASSUME FramesOk, NEW f \in Frames, ~f.skip, NEW b, b = Len(f.blocks)
    PROVE  FrameEnd(f) = EndsOf(f)[b] + BHSize + Bits(f.ccrc) /\ ContentOf(f) = GivenOf(f)[b]
  BY DEF FrameEnd, ContentOf

\* All of the frame has been read, the checksum of its content too.
LEMMA SuffixRead ==
    ASSUME AtWork, UNCHANGED <<frame, blk, made>>, NEW n \in Nat, n <= call.src, at' = at + n,
           call' = [Used(n) EXCEPT !.hint = 0], Frm!EndOfFrame, Sound(frame, blk), blk = Len(frame.blocks),
           at + n = FrameEnd(frame), made = ContentOf(frame), LeftIs(frame, ctx, made), ctx.left = 0
    PROVE  FrameInv'
  <1>1. Flags(frame) /\ made \in Nat /\ call \in CallRecords /\ blk \in 0..Len(frame.blocks)
    BY WorkFacts
  <1>2. CASE frame.ccrc => frame.ccrc_ok
    <2>1. pc' = "return" /\ ctx' = Frm!Reset(ctx)
      BY <1>2 DEF Frm!EndOfFrame, Frm!Ask
    <2>2. frame.csize = 0 \/ frame.csize = ContentOf(frame)
      <3> DEFINE z == frame.csize
      <3>1. z \in Nat /\ 0 = IF z = 0 THEN 0 ELSE z - made
        BY <1>1 DEF Flags, LeftIs
      <3> HIDE DEF z
      <3>2. z = 0 \/ z = made
        BY <1>1, <3>1
      <3>3. QED  BY <3>2 DEF z
    <2>3. ~FaultyFrame(frame)
      BY <1>2, <2>2, FrameInOrder
    <2>4. QED  BY <2>1, <2>3, ResetHome
  <1>3. CASE ~(frame.ccrc => frame.ccrc_ok)
    <2>1. pc' = "error" /\ UNCHANGED ctx
      BY <1>3 DEF Frm!EndOfFrame
    <2>2. FaultyFrame(frame)
      BY <1>3 DEF FaultyFrame, Sound
    <2>3. call' \in CallRecords /\ call'.src = call.src - n /\ call'.dst = call.dst
      <3>1. 0 \in {0, 1}
        OBVIOUS
      <3>2. QED  BY <1>1, <3>1, UsedIs
    <2>4. blk' \in 0..Len(frame.blocks)
      BY <1>1
    <2>5. QED  BY <2>1, <2>2, <2>3, <2>4, QuietWrong
  <1>4. QED  BY <1>2, <1>3

LEMMA GetSuffixStep ==
    ASSUME FramesOk, FrameInv, Frm!GetSuffix
    PROVE  FrameInv'
  <1> DEFINE n == Bits(frame.ccrc)
  <1>1. AtWork /\ ctx.stage = "getSuffix" /\ UNCHANGED <<frame, blk, made>>
    BY DEF Frm!GetSuffix, Frm!At, AtWork, Frm!Stay
  <1>2. /\ Sizes /\ frame \in Frames /\ Flags(frame) /\ ctx \in Contexts /\ call.src \in Nat
        /\ blk \in 0..Len(frame.blocks) /\ at \in Nat /\ PlaceOf(frame, ctx, at, blk, made)
        /\ call \in CallRecords /\ made \in Nat
    BY <1>1, WorkFacts
  <1>3. AtSuffix(frame, ctx, at, blk, made)
    BY <1>1, <1>2, PlaceMeans
  <1>4. /\ blk = Len(frame.blocks) /\ Sound(frame, blk) /\ ~frame.skip
        /\ at = EndsOf(frame)[blk] + BHSize /\ made = ContentOf(frame) /\ LeftIs(frame, ctx, made)
        /\ FrameEnd(frame) = EndsOf(frame)[blk] + BHSize + n
    BY <1>1, <1>2, <1>3, FrameEndIs DEF AtSuffix, AtWork, Sound
  <1>5. n \in Nat /\ Frm!Crc(frame.ccrc) = n
    BY <1>2, SameNames DEF Bits, Sizes
  <1>6. CASE ctx.left # 0
    <2>1. pc' = "error" /\ UNCHANGED <<ctx, at, call>>
      BY <1>6 DEF Frm!GetSuffix, Frm!LeftOver
    <2>2. FaultyFrame(frame)
      <3>1. frame.csize # 0 /\ frame.csize # ContentOf(frame)
        <4> DEFINE z == frame.csize
        <4>1. z \in Nat /\ ctx.left = IF z = 0 THEN 0 ELSE z - made
          BY <1>2, <1>4 DEF Flags, LeftIs
        <4> HIDE DEF z
        <4>2. z # 0 /\ z # made
          BY <1>2, <1>6, <4>1
        <4>3. QED  BY <1>4, <4>2 DEF z
      <3>2. QED  BY <1>4, <3>1 DEF FaultyFrame
    <2>3. at' = at + 0 /\ call'.src = call.src - 0 /\ call' \in CallRecords /\ call'.dst = call.dst
      BY <1>2, <2>1
    <2>4. QED  BY <1>1, <1>2, <2>1, <2>2, <2>3, QuietWrong
  <1>7. CASE ctx.left = 0 /\ call.src >= n
    <2>1. at' = at + n /\ call' = [Used(n) EXCEPT !.hint = 0] /\ Frm!EndOfFrame
      BY <1>5, <1>7 DEF Frm!GetSuffix, Frm!LeftOver, Frm!Use, Frm!Rest, Used
    <2>2. at + n = FrameEnd(frame)
      BY <1>4
    <2> HIDE DEF n
    <2>3. n <= call.src
      BY <1>2, <1>5, <1>7
    <2>4. QED  BY <1>1, <1>4, <1>5, <1>7, <2>1, <2>2, <2>3, SuffixRead
  <1>8. CASE ctx.left = 0 /\ ~(call.src >= n)
    <2>1. /\ UNCHANGED <<at, call>> /\ pc' = "stage"
          /\ ctx' = [ctx EXCEPT !.stage = "storeSuffix", !.inSize = 0, !.inTarget = CrcSize]
      BY <1>5, <1>8 DEF Frm!GetSuffix, Frm!LeftOver, Frm!Onward, Frm!StoreFrom
    <2>2. /\ Quiet(ctx, ctx') /\ ctx'.stage = "storeSuffix" /\ ctx'.inSize = 0
          /\ ctx'.inTarget = CrcSize /\ ctx'.left = ctx.left
      BY <1>2, <2>1 DEF Quiet, Contexts, Stages, Sizes
    <2>3. Uses(0) /\ QuietStep
      BY <1>1, <1>2, <2>1, <2>2 DEF Uses, QuietStep, StageMove, Trailer, Sizes
    <2>4. frame.ccrc
      BY <1>2, <1>8 DEF Bits, Flags
    <2>5. PlaceOf(frame, ctx', at', blk', made')
      <3>1. at' = EndsOf(frame)[blk] + BHSize + 0
        <4> DEFINE e == EndsOf(frame)[blk]
        <4>1. e \in Nat /\ at = e + BHSize /\ BHSize \in Nat
          BY <1>1, <1>2, <1>4, EndsFollow DEF AtWork, Sizes
        <4> HIDE DEF e
        <4>2. at' = e + BHSize + 0
          BY <2>1, <4>1
        <4>3. QED  BY <4>2 DEF e
      <3>2. InSuffix(frame, ctx', at', blk', made')
        BY <1>1, <1>2, <1>3, <1>8, <2>2, <2>4, <3>1 DEF InSuffix, AtSuffix, LeftIs, Sizes
      <3>3. QED  BY <2>2, <3>2, PlaceMeans
    <2>6. QED  BY <1>1, <2>1, <2>3, <2>5, QuietToPlace
  <1>9. QED  BY <1>6, <1>7, <1>8

LEMMA StoreSuffixStep ==
    ASSUME FramesOk, FrameInv, Frm!StoreSuffix
    PROVE  FrameInv'
  <1> DEFINE n == Frm!Stored
  <1>1. AtWork /\ ctx.stage = "storeSuffix" /\ at' = at + n /\ UNCHANGED <<frame, blk, made>>
    BY DEF Frm!StoreSuffix, Frm!At, AtWork, Frm!Use, Frm!Stay
  <1>2. /\ Sizes /\ frame \in Frames /\ ctx \in Contexts /\ call.src \in Nat
        /\ blk \in 0..Len(frame.blocks) /\ at \in Nat /\ PlaceOf(frame, ctx, at, blk, made)
    BY <1>1, WorkFacts
  <1>3. InSuffix(frame, ctx, at, blk, made)
    BY <1>1, <1>2, PlaceMeans
  <1>4. /\ n \in Nat /\ n <= call.src /\ ctx.inSize \in Nat /\ ctx.inTarget \in Nat
        /\ Frm!Complete <=> ctx.inSize + n = ctx.inTarget
    BY <1>1, StoredIs DEF Storing
  <1> HIDE DEF n
  <1>5. CASE ~Frm!Complete
    <2>1. /\ call' = Used(Frm!Stored) /\ pc' = "return"
          /\ ctx' = [ctx EXCEPT !.inSize = @ + Frm!Stored]
      BY <1>5 DEF Frm!StoreSuffix, Frm!Ask, Frm!Rest, Used
    <2>2. QED  BY <1>1, <1>5, <2>1, StoreMore DEF n, Storing
  <1>6. CASE Frm!Complete
    <2>1. call' = [Used(n) EXCEPT !.hint = 0] /\ Frm!EndOfFrame
      BY <1>6 DEF Frm!StoreSuffix, Frm!Rest, Used, n
    <2>2. /\ blk = Len(frame.blocks) /\ Sound(frame, blk) /\ ~frame.skip /\ ctx.left = 0
          /\ made = ContentOf(frame) /\ LeftIs(frame, ctx, made)
          /\ FrameEnd(frame) = EndsOf(frame)[blk] + BHSize + Bits(frame.ccrc)
      BY <1>1, <1>2, <1>3, FrameEndIs DEF InSuffix, AtWork, Sound
    <2>3. at + n = FrameEnd(frame)
      <3> DEFINE e == EndsOf(frame)[blk]
      <3>1. e \in Nat /\ BHSize \in Nat
        BY <1>1, <1>2, EndsFollow DEF AtWork, Sizes
      <3>2. at = e + BHSize + ctx.inSize /\ ctx.inSize + n = CrcSize /\ FrameEnd(frame) = e + BHSize + CrcSize
        BY <1>3, <1>4, <1>6, <2>2 DEF InSuffix, Bits
      <3> HIDE DEF e
      <3>3. QED  BY <1>4, <3>1, <3>2
    <2>4. QED  BY <1>1, <1>4, <2>1, <2>2, <2>3, SuffixRead
  <1>7. QED  BY <1>5, <1>6

-----------------------------------------------------------------------------
(* Output that goes to the caller.                                         *)

\* What a step between blocks has to show of the buffers.
LEMMA MemoryGiven ==
    ASSUME NEW f, NEW c, NEW dst, NEW m, MemoryOf(f, c, dst, m), c.stage \in AmongBlocks \cup {"flushOut"},
           NEW r \in Contexts, Len(r.tmp) = Len(c.tmp), r.off = c.off, r.stage \in AmongBlocks,
           NEW dst2, NEW m2, Upto(dst2, m2),
           f.linked => HistoryHere(r, dst2, m2) /\ r.dict.where # "none",
           ~f.linked => r.dict = c.dict
    PROVE  MemoryOf(f, r, dst2, m2)
  <1>1. r.stage \notin Outer /\ r.stage # "flushOut"
    BY DEF AmongBlocks, Outer
  <1>2. r.off <= 2 * Window /\ (~f.linked => r.off = 0 /\ r.dict = Frm!NoDict) /\ Len(r.tmp) >= Needs(f)
    BY DEF MemoryOf
  <1>3. r.dict.where = "none" => r.dict = Frm!NoDict
    BY <1>2
  <1>4. r.dict.where = "tmp" => r.dict.size <= Len(r.tmp)
    BY <1>2 DEF HistoryHere, Frm!NoDict
  <1>5. QED  BY <1>1, <1>2, <1>3, <1>4 DEF MemoryOf

LEMMA TmpIsLarge ==
    ASSUME AtWork, ctx.stage \in AmongBlocks \cup {"flushOut"}
    PROVE  /\ Fits(ctx, Window) /\ Fits(ctx, MaxBlock)
           /\ frame.linked => Fits(ctx, MaxBlock + 2 * Window)
           /\ ctx.dict.where = "none" => ctx.dict.size = 0
  <1>1. Sizes /\ Flags(frame) /\ MemoryOf(frame, ctx, call.dst, made) /\ Len(ctx.tmp) \in Nat
    BY WorkFacts, ContextIs
  <1>2. Len(ctx.tmp) >= Needs(frame) /\ (ctx.dict.where = "none" => ctx.dict = Frm!NoDict)
    BY <1>1 DEF MemoryOf
  <1>3. QED
    BY <1>1, <1>2 DEF Needs, Sizes, Flags, Fits, Frm!NoDict

LEMMA GivenOut ==
    ASSUME AtWork, ctx.stage \in AmongBlocks, NEW n \in Nat, NEW new, Content(new, made, n),
           NEW h, h = Frm!History(ctx, call.dst \o new, n, FALSE)
    PROVE  /\ call.dst \o new \in Seq(Int) /\ Upto(call.dst \o new, made + n) /\ SameButHistory(ctx, h)
           /\ frame.linked => HistoryHere(h, call.dst \o new, made + n) /\ h.dict.where # "none"
           /\ ~frame.linked => h.dict = ctx.dict
  <1>1. /\ Sizes /\ ctx \in Contexts /\ call.dst \in Seq(Int) /\ made \in Nat
        /\ MemoryOf(frame, ctx, call.dst, made)
    BY WorkFacts
  <1>2. Upto(call.dst, made) /\ (frame.linked => HistoryHere(ctx, call.dst, made))
    BY <1>1 DEF MemoryOf
  <1>3. call.dst \o new \in Seq(Int) /\ Upto(call.dst \o new, made + n)
    BY <1>1, <1>2, GoesOn
  <1>4. CASE frame.linked
    <2>1. h = Frm!Updated(ctx, call.dst \o new, n, FALSE)
      BY <1>4 DEF Frm!History
    <2>2. Fits(ctx, Window) /\ (ctx.dict.where = "none" => ctx.dict.size = 0)
      BY TmpIsLarge
    <2>3. HistoryHere(ctx, call.dst, made)
      BY <1>2, <1>4
    <2>4. /\ SameButHistory(ctx, Frm!Updated(ctx, call.dst \o new, n, FALSE))
          /\ Frm!Updated(ctx, call.dst \o new, n, FALSE).dict.where # "none"
          /\ HistoryHere(Frm!Updated(ctx, call.dst \o new, n, FALSE), call.dst \o new, made + n)
      BY <1>1, <1>2, <2>2, <2>3, UpdatedHere
    <2>5. QED  BY <1>3, <1>4, <2>1, <2>4
  <1>5. CASE ~frame.linked
    <2>1. h = ctx
      BY <1>5 DEF Frm!History
    <2>2. QED  BY <1>1, <1>3, <1>5, <2>1 DEF SameButHistory
  <1>6. QED  BY <1>4, <1>5

\* The call, after k bytes of output for which there was room.
Gave(n, k, d) == [Used(n) EXCEPT !.dst = d, !.room = @ - k]

LEMMA GaveIs ==
    ASSUME call \in CallRecords, NEW n \in Nat, n <= call.src, NEW k \in Nat, k <= call.room,
           NEW d \in Seq(Int)
    PROVE  /\ Gave(n, k, d) \in CallRecords /\ Gave(n, k, d).src = call.src - n
           /\ Gave(n, k, d).dst = d /\ Gave(n, k, d).hint = call.hint
  <1> DEFINE u == Used(n)
  <1>1. u \in CallRecords /\ u.src = call.src - n /\ u.room = call.room /\ u.hint = call.hint
    <2>1. 0 \in {0, 1}
      OBVIOUS
    <2>2. QED  BY <2>1, UsedIs
  <1>2. Gave(n, k, d) = [u EXCEPT !.dst = d, !.room = @ - k]
    BY DEF Gave
  <1> HIDE DEF u
  <1> DEFINE z == call.room - k
  <1>3. z \in Nat
    BY DEF CallRecords
  <1>4. Gave(n, k, d) = [u EXCEPT !.dst = d, !.room = z]
    BY <1>1, <1>2
  <1> HIDE DEF z
  <1>5. /\ [u EXCEPT !.dst = d, !.room = z] \in CallRecords
        /\ [u EXCEPT !.dst = d, !.room = z].src = u.src
        /\ [u EXCEPT !.dst = d, !.room = z].dst = d
        /\ [u EXCEPT !.dst = d, !.room = z].hint = u.hint
    BY <1>1, <1>3 DEF CallRecords
  <1>6. QED  BY <1>1, <1>4, <1>5 DEF u

\* What is left to be told of, after n bytes more.
LEMMA ToldInt ==
    ASSUME AtWork, NEW n \in Nat
    PROVE  Frm!Told(n) \in Int
  <1>1. ctx.left \in Int
    BY WorkFacts, ContextIs
  <1>2. QED  BY <1>1 DEF Frm!Told

LEMMA ToldIs ==
    ASSUME AtWork, NEW m \in Int, NEW n \in Nat, LeftIs(frame, ctx, m), NEW r, r.left = Frm!Told(n)
    PROVE  LeftIs(frame, r, m + n)
  <1> DEFINE z == frame.csize
  <1>1. z \in Nat /\ ctx.left \in Int
    BY WorkFacts, ContextIs DEF Flags
  <1>2. ctx.left = IF z = 0 THEN 0 ELSE z - m
    BY DEF LeftIs
  <1>3. r.left = IF z # 0 THEN ctx.left - n ELSE ctx.left
    BY DEF Frm!Told
  <1> HIDE DEF z
  <1>4. r.left = (IF z = 0 THEN 0 ELSE z - (m + n))
    BY <1>1, <1>2, <1>3
  <1>5. QED  BY <1>4 DEF LeftIs, z

\* A step that gives k bytes to the caller and used n bytes for that.
LEMMA GivenStep ==
    ASSUME AtWork, ctx.stage \in AmongBlocks, frame' = frame, blk' = blk,
           NEW n \in Nat, n <= call.src, at' = at + n,
           NEW k \in Nat, k <= call.room, made' = made + k,
           NEW new, Content(new, made, k), call' = Gave(n, k, call.dst \o new),
           NEW h, h = Frm!History(ctx, call.dst \o new, k, FALSE),
           ctx' \in Contexts, ctx'.tmp = h.tmp, ctx'.off = h.off, ctx'.dict = h.dict,
           ctx'.stage \in {"copyDirect", "getBlockHeader", "getBlockChecksum"},
           pc' \in {"stage", "return"}, PlaceOf(frame, ctx', at', blk', made')
    PROVE  FrameInv'
  <1> DEFINE dst == call.dst \o new
  <1>1. /\ call \in CallRecords /\ made \in Nat /\ call.hint = 1 /\ blk \in 0..Len(frame.blocks)
        /\ MemoryOf(frame, ctx, call.dst, made)
    BY WorkFacts
  <1>2. /\ dst \in Seq(Int) /\ Upto(dst, made + k) /\ SameButHistory(ctx, h)
        /\ frame.linked => HistoryHere(h, dst, made + k) /\ h.dict.where # "none"
        /\ ~frame.linked => h.dict = ctx.dict
    BY GivenOut
  <1> HIDE DEF dst
  <1>3. call' = Gave(n, k, dst)
    BY DEF dst
  <1>4. call' \in CallRecords /\ call'.src = call.src - n /\ call'.dst = dst /\ call'.hint = 1
    BY <1>1, <1>2, <1>3, GaveIs
  <1>5. Goes(n)
    BY <1>1, <1>4 DEF Goes
  <1>6. MemoryOf(frame, ctx', dst, made + k)
    <2>1. ctx.stage \in AmongBlocks \cup {"flushOut"} /\ ctx'.stage \in AmongBlocks
      BY DEF AmongBlocks
    <2>2. Len(ctx'.tmp) = Len(ctx.tmp) /\ ctx'.off = ctx.off
      BY <1>2 DEF SameButHistory
    <2>3. frame.linked => HistoryHere(ctx', dst, made + k) /\ ctx'.dict.where # "none"
      BY <1>2 DEF HistoryHere
    <2>4. ~frame.linked => ctx'.dict = ctx.dict
      BY <1>2
    <2>5. QED  BY <1>1, <1>2, <2>1, <2>2, <2>3, <2>4, MemoryGiven
  <1>7. MemoryOK'
    BY <1>4, <1>6 DEF MemoryOK
  <1>8. CallsOK'
    BY <1>4, <1>5, GoesToPlace
  <1>9. QED  BY <1>5, <1>7, <1>8, TypesKept DEF FrameInv

LEMMA CopyDirectStep ==
    ASSUME FramesOk, FrameInv, Frm!CopyDirect
    PROVE  FrameInv'
  <1> DEFINE n == Frm!Min2(ctx.inTarget, Frm!Min2(call.src, call.room))
             new == Frm!Span(made, n)
             dst == call.dst \o new
             h == Frm!History(ctx, dst, n, FALSE)
             told == Frm!Told(n)
             e == EndsOf(frame)[blk - 1] + BHSize + frame.blocks[blk].in
  <1>1. /\ AtWork /\ ctx.stage = "copyDirect" /\ UNCHANGED <<frame, blk>>
        /\ at' = at + n /\ made' = made + n /\ call' = Gave(n, n, dst)
    BY DEF Gave, Frm!CopyDirect, Frm!At, AtWork, Frm!Use, Frm!Rest, Used
  <1>2. /\ Sizes /\ frame \in Frames /\ Flags(frame) /\ ctx \in Contexts /\ call.src \in Nat /\ call.room \in Nat
        /\ blk \in 0..Len(frame.blocks) /\ at \in Nat /\ PlaceOf(frame, ctx, at, blk, made)
        /\ MemoryOf(frame, ctx, call.dst, made) /\ FramesOk
        /\ call \in CallRecords /\ made \in Nat /\ call.hint = 1 /\ ctx.inTarget \in Nat /\ ctx.inSize \in Nat
    BY <1>1, WorkFacts, ContextIs
  <1>3. InRawBlock(frame, ctx, at, blk, made)
    BY <1>1, <1>2, PlaceMeans
  <1>4. /\ n \in Nat /\ n <= call.src /\ n <= call.room /\ n <= ctx.inTarget
    BY <1>2 DEF Frm!Min2
  <1>5. /\ Opened(frame, blk) /\ frame.blocks[blk].raw /\ LeftIs(frame, ctx, made)
        /\ at + ctx.inTarget = e /\ made + ctx.inTarget = GivenOf(frame)[blk]
        /\ blk \in 1..Len(frame.blocks)
    BY <1>2, <1>3 DEF InRawBlock, Opened
  <1> HIDE DEF n, e
  <1>6. Content(new, made, n)
    BY <1>2, <1>4, SpanIs DEF Content
  <1>7. /\ dst \in Seq(Int) /\ Upto(dst, made + n) /\ SameButHistory(ctx, h)
        /\ frame.linked => HistoryHere(h, dst, made + n) /\ h.dict.where # "none"
        /\ ~frame.linked => h.dict = ctx.dict
    <2> HIDE DEF new
    <2>1. ctx.stage \in AmongBlocks
      BY <1>1 DEF AmongBlocks
    <2>2. QED  BY <1>1, <1>4, <1>6, <2>1, GivenOut
  <1> HIDE DEF dst, h
  <1>9. told \in Int /\ \A r : r.left = told => LeftIs(frame, r, made + n)
    <2>1. told \in Int
      BY <1>1, <1>4, ToldInt
    <2>2. ASSUME NEW r, r.left = told PROVE LeftIs(frame, r, made + n)
      BY <1>1, <1>2, <1>4, <1>5, <2>2, ToldIs
    <2>3. QED  BY <2>1, <2>2
  <1> HIDE DEF told
  <1>10. ASSUME ctx' \in Contexts, ctx'.tmp = h.tmp, ctx'.off = h.off, ctx'.dict = h.dict,
                ctx'.stage \in {"copyDirect", "getBlockHeader", "getBlockChecksum"},
                pc' \in {"stage", "return"}, PlaceOf(frame, ctx', at', blk', made')
         PROVE  FrameInv'
    <2>1. ctx.stage \in AmongBlocks
      BY <1>1 DEF AmongBlocks
    <2>2. Gave(n, n, call.dst \o new) = call'
      BY <1>1 DEF dst
    <2>3. h = Frm!History(ctx, call.dst \o new, n, FALSE)
      BY DEF h, dst
    <2> HIDE DEF new
    <2>4. QED  BY <1>1, <1>2, <1>4, <1>6, <1>10, <2>1, <2>2, <2>3, GivenStep
  <1>11. h \in Contexts /\ h.stage = "copyDirect" /\ h.inTarget = ctx.inTarget /\ h.inSize = ctx.inSize
    BY <1>1, <1>7 DEF SameButHistory
  <1> DEFINE c == [h EXCEPT !.left = told]
  <1>12. /\ c \in Contexts /\ c.stage = "copyDirect" /\ c.inTarget = ctx.inTarget /\ c.inSize = ctx.inSize
         /\ c.tmp = h.tmp /\ c.off = h.off /\ c.dict = h.dict /\ c.left = told
    BY <1>9, <1>11 DEF Contexts
  <1>13. CASE ~(n = ctx.inTarget)
    <2> DEFINE t == ctx.inTarget - n
    <2>1. pc' = "return" /\ ctx' = [c EXCEPT !.inTarget = @ - n]
      BY <1>13 DEF Frm!CopyDirect, Frm!Ask, n, h, dst, told
    <2> HIDE DEF c
    <2>2. t \in Nat /\ ctx' = [c EXCEPT !.inTarget = t]
      BY <1>2, <1>4, <1>12, <2>1
    <2> HIDE DEF t
    <2>3. /\ ctx' \in Contexts /\ ctx'.tmp = h.tmp /\ ctx'.off = h.off /\ ctx'.dict = h.dict
          /\ ctx'.stage = "copyDirect" /\ ctx'.left = told /\ ctx'.inTarget = t
      BY <1>12, <2>2 DEF Contexts
    <2>4. InRawBlock(frame, ctx', at', blk', made')
      <3>1. (at + n) + t = at + ctx.inTarget /\ (made + n) + t = made + ctx.inTarget
        BY <1>2, <1>4 DEF t
      <3>2. LeftIs(frame, ctx', made + n)
        BY <1>9, <2>3
      <3>3. QED  BY <1>1, <1>5, <2>3, <3>1, <3>2 DEF InRawBlock, e
    <2>5. QED  BY <1>10, <2>1, <2>3, <2>4, PlaceMeans
  <1>14. CASE n = ctx.inTarget
    <2> DEFINE x == IF frame.bcrc THEN "getBlockChecksum" ELSE "getBlockHeader"
               i == IF frame.bcrc THEN 0 ELSE ctx.inSize
    <2>1. pc' = "stage" /\ ctx' = [c EXCEPT !.stage = x, !.inSize = IF frame.bcrc THEN 0 ELSE @]
      BY <1>14 DEF Frm!CopyDirect, Frm!Onward, n, h, dst, told
    <2>2. i \in Nat /\ ctx' = [c EXCEPT !.stage = x, !.inSize = i] /\ x \in Stages
      BY <1>2, <1>12, <2>1 DEF Stages
    <2>3. x \in {"getBlockHeader", "getBlockChecksum"}
      OBVIOUS
    <2> HIDE DEF c, i, x
    <2>4. /\ ctx' \in Contexts /\ ctx'.tmp = h.tmp /\ ctx'.off = h.off /\ ctx'.dict = h.dict
          /\ ctx'.stage = x /\ ctx'.left = told /\ ctx'.inSize = i
      BY <1>12, <2>2 DEF Contexts
    <2>5. at' = e /\ made' = GivenOf(frame)[blk] /\ LeftIs(frame, ctx', made')
      BY <1>1, <1>5, <1>9, <1>14, <2>4
    <2>6. CASE frame.bcrc
      <3>1. ctx'.stage = "getBlockChecksum" /\ ctx'.inSize = 0
        BY <2>4, <2>6 DEF x, i
      <3>2. e \in Nat
        BY <1>2, <1>5
      <3>3. InRawSum(frame, ctx', at', blk', made')
        BY <1>1, <1>2, <1>5, <2>5, <2>6, <3>1, <3>2 DEF InRawSum, Sizes, e
      <3>4. QED  BY <1>10, <2>1, <2>4, <3>1, <3>3, PlaceMeans
    <2>7. CASE ~frame.bcrc
      <3>1. ctx'.stage = "getBlockHeader"
        BY <2>4, <2>7 DEF x
      <3>2. Sound(frame, blk)
        BY <1>2, <1>5, <2>7, RawSound
      <3>3. e = EndsOf(frame)[blk]
        <4>1. EndsOf(frame)[blk] = EndsOf(frame)[blk - 1] + BHSize + DataOf(frame, frame.blocks[blk])
          BY <1>2, <1>5, EndsFollow
        <4>2. frame.blocks[blk].in \in Nat
          BY <1>2, <1>5, BlocksAre
        <4>3. DataOf(frame, frame.blocks[blk]) = frame.blocks[blk].in
          BY <2>7, <4>2 DEF DataOf, Bits
        <4>4. QED  BY <4>1, <4>3 DEF e
      <3>4. AtBlockHeader(frame, ctx', at', blk', made')
        BY <1>1, <2>5, <3>2, <3>3 DEF AtBlockHeader
      <3>5. QED  BY <1>10, <2>1, <2>4, <3>1, <3>4, PlaceMeans
    <2>8. QED  BY <2>6, <2>7
  <1>15. QED  BY <1>13, <1>14

-----------------------------------------------------------------------------
(* Blocks that are decoded.                                                *)

\* With its history a block is decoded to what follows in the content.
LEMMA DecodedIs ==
    ASSUME AtWork, NEW c \in Contexts, frame.linked => HistoryHere(c, call.dst, made),
           c.dict.where = "none" => c.dict.size = 0
    PROVE  Frm!Decoded(c) = Frm!Span(made, frame.blocks[blk].out)
  <1>1. Sizes /\ call.dst \in Seq(Int) /\ made \in Nat /\ Upto(call.dst, made)
    BY WorkFacts DEF MemoryOf
  <1>2. Frm!HistoryOk(c)
    <2> SUFFICES ASSUME frame.linked PROVE Frm!HistoryOk(c)
      BY DEF Frm!HistoryOk
    <2>1. HistoryHere(c, call.dst, made)
      OBVIOUS
    <2>2. /\ c.dict.size >= Frm!Min2(Window, made)
          /\ Frm!DictBytes(c, call.dst, Frm!DictEnd(c), Frm!Min2(Window, made))
                = Frm!Span(made - Frm!Min2(Window, made), Frm!Min2(Window, made))
      BY <1>1, <2>1, HistoryRead
    <2>3. QED  BY <2>2 DEF Frm!HistoryOk
  <1>3. QED  BY <1>2 DEF Frm!Decoded, Frm!Block

\* The dictionary of CutOf is the one that was there, or in tmp.
LEMMA CutDict ==
    ASSUME NEW c \in Contexts
    PROVE  CutOf(c).dict = c.dict \/ CutOf(c).dict.where = "tmp"
  <1>1. CASE c.dict.where # "tmp"
    <2>1. CutOf(c) = [c EXCEPT !.off = Frm!Min2(c.dict.size, Window)]
      BY <1>1 DEF CutOf
    <2> DEFINE o == Frm!Min2(c.dict.size, Window)
    <2> HIDE DEF o
    <2>2. [c EXCEPT !.off = o].dict = c.dict
      BY DEF Contexts
    <2>3. QED  BY <2>1, <2>2 DEF o
  <1>2. CASE c.dict.where = "tmp" /\ c.dict.size > 2 * Window
    <2> DEFINE t == Frm!Put(c.tmp, 0, Frm!DictBytes(c, <<>>, c.dict.size, Window))
    <2>1. CutOf(c) = Frm!InTmp([c EXCEPT !.off = Window, !.tmp = t], Window)
      BY <1>2 DEF CutOf
    <2> HIDE DEF t
    <2>2. Frm!InTmp([c EXCEPT !.off = Window, !.tmp = t], Window).dict = [where |-> "tmp", off |-> 0, size |-> Window]
      BY DEF Frm!InTmp, Contexts
    <2>3. QED  BY <2>1, <2>2
  <1>3. CASE c.dict.where = "tmp" /\ ~(c.dict.size > 2 * Window)
    <2>1. CutOf(c) = [c EXCEPT !.off = c.dict.size]
      BY <1>3 DEF CutOf
    <2> DEFINE o == c.dict.size
    <2>2. [c EXCEPT !.off = o].dict = c.dict
      BY DEF Contexts
    <2>3. QED  BY <2>1, <2>2
  <1>4. QED  BY <1>1, <1>2, <1>3

\* Where the next block goes.
LEMMA TruncatedIs ==
    ASSUME AtWork, ctx.stage \in AmongBlocks, NEW c, c = Frm!Truncated
    PROVE  /\ SameButPlace(ctx, c) /\ c.off <= 2 * Window
           /\ c.dict.where = "none" => c.dict = Frm!NoDict
           /\ ~frame.linked => c.off = 0 /\ c.dict = Frm!NoDict
           /\ Fits(c, c.off + MaxBlock) /\ Len(c.tmp) = Len(ctx.tmp)
           /\ frame.linked =>
                /\ HistoryHere(c, call.dst, made) /\ Frm!Min2(Window, made) <= c.off
                /\ c.dict.where = "tmp" => c.dict.size = c.off
  <1>1. /\ Sizes /\ ctx \in Contexts /\ call.dst \in Seq(Int) /\ made \in Nat
        /\ MemoryOf(frame, ctx, call.dst, made) /\ Flags(frame) /\ Len(ctx.tmp) \in Nat
    BY WorkFacts, ContextIs
  <1>2. /\ Fits(ctx, Window) /\ Fits(ctx, MaxBlock) /\ (frame.linked => Fits(ctx, MaxBlock + 2 * Window))
        /\ ctx.dict.where = "none" => ctx.dict.size = 0
    BY TmpIsLarge
  <1>3. CASE frame.linked
    <2>1. c = CutOf(ctx)
      BY <1>3 DEF Frm!Truncated, CutOf
    <2>2. HistoryHere(ctx, call.dst, made)
      BY <1>1, <1>3 DEF MemoryOf
    <2>3. /\ SameButPlace(ctx, CutOf(ctx)) /\ HistoryHere(CutOf(ctx), call.dst, made)
          /\ CutOf(ctx).off <= 2 * Window /\ Frm!Min2(Window, made) <= CutOf(ctx).off
          /\ CutOf(ctx).dict.where = "none" => CutOf(ctx).dict.size = 0
          /\ CutOf(ctx).dict.where = "tmp" => CutOf(ctx).dict.size = CutOf(ctx).off
      BY <1>1, <1>2, <2>2, CutHere
    <2>4. c.dict.where = "none" => c.dict = Frm!NoDict
      BY <1>1, <2>1, CutDict DEF MemoryOf
    <2>5. c \in Contexts /\ Len(c.tmp) = Len(ctx.tmp)
      BY <2>1, <2>3 DEF SameButPlace
    <2>6. Fits(c, c.off + MaxBlock)
      <3>1. c.off \in Nat /\ c.off <= 2 * Window /\ Window \in Nat /\ MaxBlock \in Nat
        BY <1>1, <2>1, <2>3, <2>5, ContextIs DEF Sizes
      <3>2. MaxBlock + 2 * Window <= Len(ctx.tmp)
        BY <1>2, <1>3 DEF Fits
      <3>3. c.off + MaxBlock <= Len(ctx.tmp)
        BY <1>1, <3>1, <3>2
      <3>4. QED  BY <2>5, <3>3 DEF Fits
    <2>7. QED  BY <1>3, <2>1, <2>3, <2>4, <2>5, <2>6
  <1>4. CASE ~frame.linked
    <2>1. c = ctx
      BY <1>4 DEF Frm!Truncated
    <2>2. c.off = 0 /\ c.dict = Frm!NoDict
      BY <1>1, <1>4, <2>1 DEF MemoryOf
    <2>3. Fits(c, c.off + MaxBlock) /\ c.off <= 2 * Window
      BY <1>1, <1>2, <2>1, <2>2 DEF Fits, Sizes
    <2>4. SameButPlace(ctx, c)
      BY <1>1, <2>1 DEF SameButPlace
    <2>5. QED  BY <1>4, <2>1, <2>2, <2>3, <2>4
  <1>5. QED  BY <1>3, <1>4

\* All of the room a block may need is overwritten.
Padded(new, n) == [k \in 1..MaxBlock |-> IF k <= n THEN new[k] ELSE Frm!Garbage]

LEMMA PaddedIs ==
    ASSUME Sizes, NEW m \in Int, NEW n \in Nat, n <= MaxBlock, NEW new, Content(new, m, n)
    PROVE  /\ Padded(new, n) \in Seq(Int) /\ Len(Padded(new, n)) = MaxBlock
           /\ StartsAt(Padded(new, n), 0, m, n)
  <1>1. MaxBlock \in Nat /\ \A k \in 1..n : new[k] = m + k - 1
    BY DEF Sizes, Content
  <1> DEFINE v(k) == IF k <= n THEN new[k] ELSE -1
             z == MaxBlock
  <1>2. \A k \in 1..z : v(k) \in Int
    <2> SUFFICES ASSUME NEW k \in 1..z PROVE v(k) \in Int
      OBVIOUS
    <2>1. CASE k <= n
      <3>1. k \in 1..n
        BY <1>1, <2>1
      <3>2. new[k] = m + k - 1
        BY <1>1, <3>1
      <3>3. QED  BY <2>1, <3>2
    <2>2. CASE ~(k <= n)
      BY <2>2
    <2>3. QED  BY <2>1, <2>2
  <1>3. Padded(new, n) = [k \in 1..z |-> v(k)]
    BY DEF Padded, Frm!Garbage
  <1>4. z \in Nat /\ n <= z
    BY <1>1
  <1> HIDE DEF z
  <1>5. [k \in 1..z |-> v(k)] \in Seq(Int) /\ Len([k \in 1..z |-> v(k)]) = z
    <2> HIDE DEF v
    <2>1. QED  BY <1>2, <1>4, IsASeq
  <1>6. \A k \in 1..n : [i \in 1..z |-> v(i)][0 + k] = m + k - 1
    <2> SUFFICES ASSUME NEW k \in 1..n PROVE [i \in 1..z |-> v(i)][0 + k] = m + k - 1
      OBVIOUS
    <2>1. 0 + k = k /\ k \in 1..z /\ k <= n
      BY <1>4
    <2>2. v(k) = m + k - 1
      BY <1>1, <2>1
    <2> HIDE DEF v
    <2>3. QED  BY <2>1, <2>2
  <1>7. QED  BY <1>3, <1>5, <1>6 DEF StartsAt, z

\* The input of a block is there.
LEMMA BlockDecoded ==
    ASSUME AtWork, ctx.stage \in {"getCBlock", "storeCBlock"}, NEW n \in Nat, n <= call.src,
           Frm!DecodeBlock(n), Opened(frame, blk), LeftIs(frame, ctx, made),
           made = GivenOf(frame)[blk - 1],
           at + n = EndsOf(frame)[blk - 1] + BHSize + DataOf(frame, frame.blocks[blk])
    PROVE  FrameInv'
  <1> DEFINE k == frame.blocks[blk].out
             new == Frm!Span(made, k)
             told == Frm!Told(k)
  <1>1. /\ Sizes /\ frame \in Frames /\ Flags(frame) /\ ctx \in Contexts /\ call.src \in Nat /\ call.room \in Nat
        /\ blk \in 0..Len(frame.blocks) /\ at \in Nat /\ FramesOk /\ Len(frame.blocks) \in Nat
        /\ MemoryOf(frame, ctx, call.dst, made) /\ Upto(call.dst, made)
        /\ call \in CallRecords /\ made \in Nat /\ call.hint = 1 /\ ctx.stage \in AmongBlocks
    BY WorkFacts DEF AtWork, AmongBlocks, MemoryOf
  <1>2. blk \in 1..Len(frame.blocks) /\ ~frame.skip
    BY <1>1 DEF Opened, Sound
  <1>3. k \in Nat /\ at' = at + n /\ UNCHANGED <<frame, blk>>
    BY <1>1, <1>2, BlocksAre DEF Frm!DecodeBlock, Frm!Use
  <1>4. CASE BadOf(frame, frame.blocks[blk])
    <2>1. pc' = "error" /\ call' = Used(n) /\ UNCHANGED <<ctx, made>>
      BY <1>4, SameNames DEF Frm!DecodeBlock, Frm!Block, Frm!Rest, Used
    <2>2. FaultyFrame(frame)
      BY <1>2, <1>4 DEF FaultyFrame
    <2>3. Uses(n) /\ blk' \in 0..Len(frame.blocks)
      BY <1>1, <1>3, <2>1 DEF Uses
    <2>4. QED  BY <1>3, <2>1, <2>2, <2>3, UsesIs, QuietWrong
  <1>5. CASE ~BadOf(frame, frame.blocks[blk])
    <2>1. Sound(frame, blk) /\ k <= MaxBlock /\ blk \in Nat
      <3>1. blk \in Nat
        BY <1>1
      <3>2. Sound(frame, blk)
        BY <1>5, <3>1, SoundAgain
      <3>3. ~(k > MaxBlock) /\ MaxBlock \in Nat
        BY <1>1, <1>5 DEF BadOf, Sizes
      <3> HIDE DEF k
      <3>4. QED  BY <1>3, <3>1, <3>2, <3>3
    <2>2. pc' = "stage" /\ Frm!Block = frame.blocks[blk]
      BY <1>5, SameNames DEF Frm!DecodeBlock, Frm!Block, Frm!Onward
    <2>3. Content(new, made, k)
      <3> HIDE DEF k
      <3>1. made \in Int
        BY <1>1
      <3>2. QED  BY <1>3, <3>1, SpanIs DEF Content
    <2>4. told \in Int /\ \A r : r.left = told => LeftIs(frame, r, made + k)
      <3> HIDE DEF k
      <3>1. told \in Int
        BY <1>3, ToldInt
      <3>2. ASSUME NEW r, r.left = told PROVE LeftIs(frame, r, made + k)
        BY <1>1, <1>3, <3>2, ToldIs
      <3>3. QED  BY <3>1, <3>2
    <2>5. made + k = GivenOf(frame)[blk] /\ at' = EndsOf(frame)[blk]
      <3>1. GivenOf(frame)[blk] = GivenOf(frame)[blk - 1] + frame.blocks[blk].out
        BY <1>1, <1>2, GivenFollow
      <3>2. EndsOf(frame)[blk] = EndsOf(frame)[blk - 1] + BHSize + DataOf(frame, frame.blocks[blk])
        BY <1>1, <1>2, EndsFollow
      <3>3. QED  BY <1>3, <3>1, <3>2
    <2>6. CASE Frm!Direct
      <3> DEFINE dst == call.dst \o new
                 h == Frm!History(ctx, dst, k, FALSE)
      <3>1. Frm!Decoded(ctx) = new
        BY <1>1, TmpIsLarge, DecodedIs DEF MemoryOf
      <3>2. /\ ctx' = [h EXCEPT !.left = told, !.stage = "getBlockHeader"]
            /\ made' = made + k /\ call' = Gave(n, k, dst)
        <4>1. Frm!DecodeDirect /\ call' = [Used(n) EXCEPT !.dst = @ \o new, !.room = @ - k]
          BY <1>5, <2>2, <2>6, <3>1, SameNames DEF Frm!DecodeBlock, Frm!Rest, Used
        <4>2. [Used(n) EXCEPT !.dst = @ \o new, !.room = @ - k] = Gave(n, k, dst)
          <5>1. Used(n).dst = call.dst
            <6>1. 0 \in {0, 1}
              OBVIOUS
            <6>2. QED  BY <1>1, <6>1, UsedIs
          <5>2. QED  BY <5>1 DEF Gave
        <4>3. QED  BY <2>2, <3>1, <4>1, <4>2 DEF Frm!DecodeDirect
      <3>3. h \in Contexts
        <4> HIDE DEF new, k
        <4>1. SameButHistory(ctx, h)
          BY <1>1, <1>3, <2>3, GivenOut
        <4>2. QED  BY <4>1 DEF SameButHistory
      <3> HIDE DEF h, told
      <3>4. /\ ctx' \in Contexts /\ ctx'.tmp = h.tmp /\ ctx'.off = h.off /\ ctx'.dict = h.dict
            /\ ctx'.stage = "getBlockHeader" /\ ctx'.left = told
        BY <2>4, <3>2, <3>3 DEF Contexts, Stages
      <3>5. AtBlockHeader(frame, ctx', at', blk', made')
        <4> HIDE DEF k
        <4>1. LeftIs(frame, ctx', made + k)
          BY <2>4, <3>4
        <4>2. QED  BY <1>3, <2>1, <2>5, <3>2, <4>1 DEF AtBlockHeader
      <3>6. PlaceOf(frame, ctx', at', blk', made')
        BY <3>4, <3>5, PlaceMeans
      <3>7. k <= call.room
        BY <1>1, <1>3, <2>1, <2>6 DEF Frm!Direct, Sizes
      <3> HIDE DEF new, k
      <3>8. QED
        BY <1>1, <1>3, <2>2, <2>3, <3>2, <3>4, <3>6, <3>7, GivenStep, ZenonT(40) DEF h
    <2>7. CASE ~Frm!Direct
      <3> DEFINE c == Frm!Truncated
                 b == Padded(new, k)
                 t == Frm!Put(c.tmp, c.off, b)
      <3>1. /\ SameButPlace(ctx, c) /\ c.off <= 2 * Window
            /\ c.dict.where = "none" => c.dict = Frm!NoDict
            /\ ~frame.linked => c.off = 0 /\ c.dict = Frm!NoDict
            /\ Fits(c, c.off + MaxBlock) /\ Len(c.tmp) = Len(ctx.tmp)
            /\ frame.linked =>
                 /\ HistoryHere(c, call.dst, made) /\ Frm!Min2(Window, made) <= c.off
                 /\ c.dict.where = "tmp" => c.dict.size = c.off
        <4> HIDE DEF c
        <4>1. c = Frm!Truncated
          BY DEF c
        <4>2. QED  BY <1>1, <4>1, TruncatedIs
      <3>2. c \in Contexts
        BY <3>1 DEF SameButPlace
      <3>3. Frm!Decoded(c) = new
        <4>1. c.dict.where = "none" => c.dict.size = 0
          BY <3>1 DEF Frm!NoDict
        <4> HIDE DEF c
        <4>2. QED  BY <3>1, <3>2, <4>1, DecodedIs
      <3>4. /\ ctx' = [c EXCEPT !.tmp = t, !.left = told, !.outSize = k, !.outStart = 0, !.stage = "flushOut"]
            /\ made' = made /\ call' = Used(n)
        <4>1. Frm!DecodeIntoTmp /\ call' = Used(n)
          BY <1>5, <2>2, <2>7, SameNames DEF Frm!DecodeBlock, Frm!Rest, Used
        <4>2. b = [j \in 1..MaxBlock |-> IF j <= Frm!Block.out THEN Frm!Decoded(Frm!Truncated)[j] ELSE Frm!Garbage]
          BY <2>2, <3>3 DEF Padded
        <4>3. c = Frm!Truncated /\ k = Frm!Block.out /\ told = Frm!Told(Frm!Block.out)
          BY <2>2
        <4> HIDE DEF c, k, told, new
        <4>4. ctx' = [c EXCEPT !.tmp = Frm!Put(c.tmp, c.off, b), !.left = told, !.outSize = k, !.outStart = 0, !.stage = "flushOut"]
              /\ made' = made
          BY <4>1, <4>2, <4>3 DEF Frm!DecodeIntoTmp
        <4>5. QED  BY <4>1, <4>4
      <3>5. b \in Seq(Int) /\ Len(b) = MaxBlock /\ StartsAt(b, 0, made, k)
        <4> HIDE DEF new, k
        <4>1. QED  BY <1>1, <1>3, <2>1, <2>3, PaddedIs
      <3>6. t \in Seq(Int) /\ Len(t) = Len(c.tmp)
        <4>1. c.tmp \in Seq(Int) /\ c.off \in Int
          BY <3>2, ContextIs
        <4> HIDE DEF b, c
        <4>2. QED  BY <3>5, <4>1, PutIs DEF Replaced
      <3> HIDE DEF t, b, c, told, new, k
      <3>7. /\ ctx' \in Contexts /\ ctx'.tmp = t /\ ctx'.off = c.off /\ ctx'.dict = c.dict /\ ctx'.stage = "flushOut"
            /\ ctx'.left = told /\ ctx'.outSize = k /\ ctx'.outStart = 0
        BY <1>3, <2>4, <3>2, <3>4, <3>6 DEF Contexts, Stages
      <3>8. ctx'.tmp = Frm!Put(c.tmp, c.off, b)
        BY <3>7 DEF t
      <3>9. BlockHere(ctx', made)
        BY <1>1, <1>3, <2>1, <3>1, <3>2, <3>5, <3>7, <3>8, BlockInTmp
      <3>10. frame.linked => HistoryInBlock(ctx', 0, call.dst, made)
        BY <1>1, <1>3, <2>1, <3>1, <3>2, <3>5, <3>7, <3>8, IntoTmp
      <3>11. Uses(n) /\ Goes(n) /\ call'.dst = call.dst /\ call'.hint = 1
        <4>1. Uses(n)
          BY <1>3, <3>4 DEF Uses
        <4>2. QED  BY <1>1, <1>3, <2>2, <3>4, <3>7, <4>1, UsesIs DEF Goes
      <3>12. MemoryOf(frame, ctx', call.dst, made)
        <4>1. made - 0 = made /\ 0 <= k /\ 0 <= made
          BY <1>1, <1>3
        <4>2. ctx'.stage \notin Outer /\ ctx'.stage \notin AmongBlocks
          BY <3>7 DEF Outer, AmongBlocks
        <4>3. ctx'.dict.where = "tmp" => ctx'.dict.size <= Len(ctx'.tmp)
          BY <3>1, <3>6, <3>7 DEF HistoryHere, Frm!NoDict
        <4>4. Len(ctx'.tmp) >= Needs(frame)
          BY <1>1, <3>1, <3>6, <3>7 DEF MemoryOf
        <4>5. Upto(call.dst, made) /\ ctx'.off <= 2 * Window
              /\ (ctx'.dict.where = "none" => ctx'.dict = Frm!NoDict)
              /\ (~frame.linked => ctx'.off = 0 /\ ctx'.dict = Frm!NoDict)
          BY <1>1, <3>1, <3>7
        <4>6. ctx'.outStart <= ctx'.outSize /\ ctx'.outStart <= made /\ BlockHere(ctx', made - ctx'.outStart)
          BY <3>7, <3>9, <4>1
        <4>7. frame.linked => HistoryInBlock(ctx', ctx'.outStart, call.dst, made - ctx'.outStart)
          BY <3>7, <3>10, <4>1
        <4>8. QED  BY <4>2, <4>3, <4>4, <4>5, <4>6, <4>7 DEF MemoryOf
      <3>13. MemoryOK'
        BY <1>3, <3>4, <3>11, <3>12 DEF MemoryOK
      <3>14. PlaceOf(frame, ctx', at', blk', made')
        <4>1. LeftIs(frame, ctx', GivenOf(frame)[blk])
          BY <2>4, <2>5, <3>7
        <4>2. made = GivenOf(frame)[blk - 1] + 0
          BY <1>1
        <4>3. InFlush(frame, ctx', at', blk', made')
          BY <1>2, <1>3, <2>1, <2>5, <3>4, <3>7, <4>1, <4>2 DEF InFlush, k, Opened
        <4>4. QED  BY <3>7, <4>3, PlaceMeans
      <3>15. CallsOK'
        BY <2>2, <3>11, <3>14, GoesToPlace
      <3>16. QED  BY <3>11, <3>13, <3>15, TypesKept DEF FrameInv
    <2>8. QED  BY <2>6, <2>7
  <1>6. QED  BY <1>4, <1>5

LEMMA GetCBlockStep ==
    ASSUME FramesOk, FrameInv, Frm!GetCBlock
    PROVE  FrameInv'
  <1>1. AtWork /\ ctx.stage = "getCBlock"
    BY DEF Frm!GetCBlock, Frm!At, AtWork
  <1>2. /\ frame \in Frames /\ ctx \in Contexts /\ call.src \in Nat /\ ctx.inTarget \in Nat
        /\ blk \in 0..Len(frame.blocks) /\ at \in Nat /\ PlaceOf(frame, ctx, at, blk, made) /\ Sizes
    BY <1>1, WorkFacts, ContextIs
  <1>3. AtBlock(frame, ctx, at, blk, made)
    BY <1>1, <1>2, PlaceMeans
  <1>4. CASE call.src >= ctx.inTarget
    <2>1. Frm!DecodeBlock(ctx.inTarget)
      BY <1>4 DEF Frm!GetCBlock
    <2>2. at + ctx.inTarget = EndsOf(frame)[blk - 1] + BHSize + DataOf(frame, frame.blocks[blk])
      BY <1>3 DEF AtBlock
    <2>3. Opened(frame, blk) /\ LeftIs(frame, ctx, made) /\ made = GivenOf(frame)[blk - 1]
      BY <1>3 DEF AtBlock
    <2>4. ctx.inTarget <= call.src
      BY <1>2, <1>4
    <2>5. QED  BY <1>1, <1>2, <2>1, <2>2, <2>3, <2>4, BlockDecoded
  <1>5. CASE ~(call.src >= ctx.inTarget)
    <2>1. /\ UNCHANGED <<frame, blk, made, at, call>> /\ pc' = "stage"
          /\ ctx' = [ctx EXCEPT !.stage = "storeCBlock", !.inSize = 0]
      BY <1>5 DEF Frm!GetCBlock, Frm!Onward, Frm!Stay
    <2>2. /\ Quiet(ctx, ctx') /\ ctx'.stage = "storeCBlock" /\ ctx'.inSize = 0
          /\ ctx'.inTarget = ctx.inTarget /\ ctx'.left = ctx.left
      BY <1>2, <2>1 DEF Quiet, Contexts, Stages
    <2>3. ctx.inTarget > 0
      BY <1>2, <1>5
    <2>4. Uses(0) /\ QuietStep
      BY <1>1, <1>2, <2>1, <2>2, <2>3 DEF Uses, QuietStep, StageMove, AmongBlocks
    <2>5. PlaceOf(frame, ctx', at', blk', made')
      <3> DEFINE e == EndsOf(frame)[blk - 1]
      <3>1. e \in Nat
        <4>1. blk - 1 \in 0..Len(frame.blocks) /\ FramesOk
          BY <1>1, <1>2, <1>3, WorkFacts DEF AtBlock, Opened, AtWork
        <4>2. QED  BY <1>2, <4>1, EndsFollow
      <3>2. at = e + BHSize /\ BHSize \in Nat
        BY <1>2, <1>3 DEF AtBlock, Sizes
      <3> HIDE DEF e
      <3>3. at' = e + BHSize + 0
        BY <2>1, <3>1, <3>2
      <3>4. InBlock(frame, ctx', at', blk', made')
        BY <1>2, <1>3, <2>1, <2>2, <2>3, <3>3 DEF InBlock, AtBlock, LeftIs, e
      <3>5. QED  BY <2>2, <3>4, PlaceMeans
    <2>6. QED  BY <1>1, <2>1, <2>4, <2>5, QuietToPlace
  <1>6. QED  BY <1>4, <1>5

LEMMA StoreCBlockStep ==
    ASSUME FramesOk, FrameInv, Frm!StoreCBlock
    PROVE  FrameInv'
  <1> DEFINE n == Frm!Stored
  <1>1. AtWork /\ ctx.stage = "storeCBlock"
    BY DEF Frm!StoreCBlock, Frm!At, AtWork
  <1>2. /\ frame \in Frames /\ ctx \in Contexts /\ call.src \in Nat /\ Sizes
        /\ blk \in 0..Len(frame.blocks) /\ at \in Nat /\ PlaceOf(frame, ctx, at, blk, made)
    BY <1>1, WorkFacts
  <1>3. InBlock(frame, ctx, at, blk, made)
    BY <1>1, <1>2, PlaceMeans
  <1>4. /\ n \in Nat /\ n <= call.src /\ ctx.inSize \in Nat /\ ctx.inTarget \in Nat
        /\ Frm!Complete <=> ctx.inSize + n = ctx.inTarget
    BY <1>1, StoredIs DEF Storing
  <1>5. CASE ~Frm!Complete
    <2>1. /\ UNCHANGED <<frame, blk, made>> /\ pc' = "return" /\ at' = at + Frm!Stored
          /\ call' = Used(Frm!Stored) /\ ctx' = [ctx EXCEPT !.inSize = @ + Frm!Stored]
      BY <1>5 DEF Frm!StoreCBlock, Frm!Ask, Frm!Stay, Frm!Use, Frm!Rest, Used
    <2>2. QED  BY <1>1, <1>5, <2>1, StoreMore DEF Storing
  <1>6. CASE Frm!Complete
    <2>1. Frm!DecodeBlock(n)
      BY <1>6 DEF Frm!StoreCBlock
    <2> HIDE DEF n
    <2>2. at + n = EndsOf(frame)[blk - 1] + BHSize + DataOf(frame, frame.blocks[blk])
      <3> DEFINE e == EndsOf(frame)[blk - 1]
      <3>1. e \in Nat
        <4>1. blk - 1 \in 0..Len(frame.blocks) /\ FramesOk
          BY <1>1, <1>2, <1>3, WorkFacts DEF InBlock, Opened, AtWork
        <4>2. QED  BY <1>2, <4>1, EndsFollow
      <3>2. at = e + BHSize + ctx.inSize /\ ctx.inSize + n = DataOf(frame, frame.blocks[blk]) /\ BHSize \in Nat
        BY <1>2, <1>3, <1>4, <1>6 DEF InBlock, Sizes
      <3> HIDE DEF e
      <3>3. at + n = e + BHSize + DataOf(frame, frame.blocks[blk])
        BY <1>4, <3>1, <3>2
      <3>4. QED  BY <3>3 DEF e
    <2>3. Opened(frame, blk) /\ LeftIs(frame, ctx, made) /\ made = GivenOf(frame)[blk - 1]
      BY <1>3 DEF InBlock
    <2>4. QED  BY <1>1, <1>4, <2>1, <2>2, <2>3, BlockDecoded
  <1>7. QED  BY <1>5, <1>6

-----------------------------------------------------------------------------
(* A block that is given out from tmp.                                     *)

\* The next n bytes of the block are the next n bytes of the content.
LEMMA BlockGoesOn ==
    ASSUME NEW c \in Contexts, NEW m \in Int, BlockHere(c, m), NEW o \in Nat, NEW n \in Nat,
           o + n <= c.outSize, NEW p, p = m + o
    PROVE  Content(SubSeq(c.tmp, c.off + o + 1, c.off + o + n), p, n)
  <1> DEFINE t == c.tmp
             a == c.off + o + 1
             b == c.off + o + n
             s == SubSeq(t, a, b)
  <1>1. t \in Seq(Int) /\ c.off \in Nat /\ c.outSize \in Nat /\ Len(t) \in Nat
    BY ContextIs
  <1>2. c.off + c.outSize <= Len(t) /\ \A k \in 1..c.outSize : t[c.off + k] = m + k - 1
    BY DEF BlockHere, StartsAt
  <1> DEFINE x == c.off
             z == c.outSize
             l == Len(t)
  <1>3. x \in Nat /\ z \in Nat /\ l \in Nat /\ x + z <= l /\ o + n <= z /\ a = x + o + 1 /\ b = x + o + n
    BY <1>1, <1>2
  <1> HIDE DEF a, b, t, x, z, l
  <1>a. a \in Nat /\ b \in Nat /\ a >= 1 /\ b <= l /\ b - a + 1 = n /\ a <= b + 1
    BY <1>3
  <1>4. \A i \in a..b : t[i] \in Int
    <2>1. \A i \in a..b : i \in 1..l
      BY <1>3, <1>a
    <2>2. QED  BY <1>1, <2>1, ElementOfSeq DEF l
  <1>5. /\ s \in Seq(Int) /\ Len(s) = n
        /\ \A i \in 1..n : s[i] = t[a + i - 1]
    <2>1. a \in 1..(l + 1) /\ b \in (a - 1)..l
      BY <1>3, <1>a
    <2>2. /\ s \in Seq(Int) /\ Len(s) = IF a <= b THEN b - a + 1 ELSE 0
          /\ \A i \in 1..(b - a + 1) : s[i] = t[a + i - 1]
      BY <1>1, <2>1, SubSeqProperties, SMTT(30) DEF l
    <2>3. QED  BY <1>a, <2>2
  <1> HIDE DEF s
  <1>6. ASSUME NEW i \in 1..n PROVE s[i] = p + i - 1
    <2>1. o + i \in 1..z /\ a + i - 1 = x + (o + i)
      BY <1>3
    <2>2. t[x + (o + i)] = m + (o + i) - 1
      BY <1>2, <2>1 DEF x, z, t
    <2>3. QED  BY <1>5, <2>1, <2>2
  <1>7. QED  BY <1>5, <1>6 DEF Content, s, a, b, t

LEMMA FlushOutStep ==
    ASSUME FramesOk, FrameInv, Frm!FlushOut
    PROVE  FrameInv'
  <1> DEFINE o == ctx.outStart
             n == Frm!Min2(ctx.outSize - o, call.room)
             m == made - o
             q == o + n
             p == made + n
             new == SubSeq(ctx.tmp, ctx.off + o + 1, ctx.off + o + n)
             dst == call.dst \o new
             h == Frm!History(ctx, dst, n, TRUE)
             c == [h EXCEPT !.outStart = @ + n]
  <1>1. /\ AtWork /\ ctx.stage = "flushOut" /\ UNCHANGED <<frame, at, blk>>
        /\ made' = p /\ call' = [call EXCEPT !.dst = dst, !.room = @ - n]
        /\ IF c.outStart = c.outSize
           THEN pc' = "stage" /\ ctx' = [c EXCEPT !.stage = "getBlockHeader"]
           ELSE pc' = "return" /\ ctx' = c
    BY DEF Frm!FlushOut, Frm!At, AtWork, Frm!Onward, Frm!Ask
  <1>2. /\ Sizes /\ frame \in Frames /\ ctx \in Contexts /\ call.src \in Nat /\ call.room \in Nat
        /\ blk \in 0..Len(frame.blocks) /\ at \in Nat /\ FramesOk /\ call.dst \in Seq(Int)
        /\ MemoryOf(frame, ctx, call.dst, made) /\ PlaceOf(frame, ctx, at, blk, made)
        /\ call \in CallRecords /\ made \in Nat /\ call.hint = 1
        /\ o \in Nat /\ ctx.outSize \in Nat /\ ctx.off \in Nat
    BY <1>1, WorkFacts, ContextIs DEF AtWork
  <1>3. InFlush(frame, ctx, at, blk, made)
    BY <1>1, <1>2, PlaceMeans
  <1>4. /\ o <= ctx.outSize /\ o <= made /\ BlockHere(ctx, m) /\ Upto(call.dst, made)
        /\ frame.linked => HistoryInBlock(ctx, o, call.dst, m)
        /\ ctx.dict.where = "none" => ctx.dict.size = 0
    BY <1>1, <1>2 DEF MemoryOf, Frm!NoDict
  <1>5. /\ n \in Nat /\ n <= call.room /\ q \in Nat /\ q <= ctx.outSize /\ m \in Nat /\ made = m + o
        /\ p \in Nat /\ p = m + q
    <2> DEFINE z == ctx.outSize - o
    <2>1. z \in Nat /\ o + z = ctx.outSize
      BY <1>2, <1>4
    <2>2. n = IF z < call.room THEN z ELSE call.room
      BY DEF Frm!Min2
    <2> HIDE DEF z, n
    <2>3. n \in Nat /\ n <= call.room /\ n <= z
      BY <1>2, <2>1, <2>2
    <2>4. m \in Nat /\ made = m + o /\ o \in Nat
      BY <1>2, <1>4
    <2>5. p = made + n /\ q = o + n
      OBVIOUS
    <2> HIDE DEF m, p, q, o
    <2>6. QED  BY <2>1, <2>3, <2>4, <2>5
  <1> HIDE DEF n, m, p
  <1>6. Content(new, made, n)
    BY <1>2, <1>4, <1>5, BlockGoesOn, SMTT(30)
  <1> HIDE DEF new
  <1>7. /\ dst \in Seq(Int) /\ Upto(dst, p)
    BY <1>2, <1>4, <1>5, <1>6, GoesOn DEF p
  <1>8. /\ SameButHistory(ctx, h) /\ h.tmp = ctx.tmp
        /\ frame.linked => HistoryInBlock(h, q, dst, m) /\ h.dict.where # "none"
        /\ ~frame.linked => h.dict = ctx.dict
    <2>1. CASE frame.linked
      <3>1. h = Frm!Updated(ctx, dst, n, TRUE)
        BY <2>1 DEF Frm!History
      <3>2. IsSum(made, m, o) /\ IsSum(q, o, n)
        BY <1>5 DEF IsSum
      <3>3. HistoryInBlock(ctx, o, call.dst, m) /\ Upto(call.dst, made)
        BY <1>4, <2>1
      <3> HIDE DEF o, q
      <3>4. /\ SameButHistory(ctx, Frm!Updated(ctx, call.dst \o new, n, TRUE))
            /\ Frm!Updated(ctx, call.dst \o new, n, TRUE).tmp = ctx.tmp
            /\ Frm!Updated(ctx, call.dst \o new, n, TRUE).dict.where # "none"
            /\ HistoryInBlock(Frm!Updated(ctx, call.dst \o new, n, TRUE), q, call.dst \o new, m)
        BY <1>2, <1>4, <1>5, <1>6, <3>2, <3>3, UpdatedInBlock
      <3>5. QED  BY <2>1, <3>1, <3>4
    <2>2. CASE ~frame.linked
      <3>1. h = ctx
        BY <2>2 DEF Frm!History
      <3>2. QED  BY <1>2, <2>2, <3>1 DEF SameButHistory
    <2>3. QED  BY <2>1, <2>2
  <1>9. /\ h \in Contexts /\ h.stage = "flushOut" /\ h.off = ctx.off /\ h.outStart = o
        /\ h.outSize = ctx.outSize /\ h.left = ctx.left
    BY <1>1, <1>8 DEF SameButHistory
  <1>10. /\ c \in Contexts /\ c.stage = "flushOut" /\ c.off = ctx.off /\ c.outStart = q /\ c.tmp = ctx.tmp
         /\ c.dict = h.dict /\ c.outSize = ctx.outSize /\ c.left = ctx.left
    <2>1. c = [h EXCEPT !.outStart = q]
      BY <1>9
    <2> HIDE DEF h, c, q
    <2>2. QED  BY <1>5, <1>8, <1>9, <2>1 DEF Contexts
  <1>11. /\ BlockHere(c, m)
         /\ frame.linked => HistoryInBlock(c, q, dst, m)
    <2> HIDE DEF c, h, dst, q
    <2>1. BlockHere(c, m)
      BY <1>4, <1>10 DEF BlockHere
    <2>2. frame.linked => HistoryInBlock(c, q, dst, m)
      BY <1>8, <1>9, <1>10 DEF HistoryInBlock
    <2>3. QED  BY <2>1, <2>2
  <1>12. call' = Gave(0, n, dst)
    <2>1. Used(0) = call
      BY <1>2 DEF Used, CallRecords
    <2>2. QED  BY <1>1, <2>1 DEF Gave
  <1>13. call' \in CallRecords /\ call'.src = call.src - 0 /\ call'.dst = dst /\ call'.hint = 1
    <2> HIDE DEF dst
    <2>a. n \in Nat /\ n <= call.room
      BY <1>5
    <2>b. 0 \in Nat /\ 0 <= call.src /\ call \in CallRecords
      BY <1>2
    <2>c. dst \in Seq(Int)
      BY <1>7
    <2>1. /\ 0 \in Nat /\ 0 <= call.src /\ n \in Nat /\ n <= call.room /\ dst \in Seq(Int)
          /\ call \in CallRecords
      BY <2>a, <2>b, <2>c
    <2>2. /\ Gave(0, n, dst) \in CallRecords /\ Gave(0, n, dst).src = call.src - 0
          /\ Gave(0, n, dst).dst = dst /\ Gave(0, n, dst).hint = call.hint
      BY <2>1, GaveIs
    <2>3. QED  BY <1>2, <1>12, <2>2
  <1> HIDE DEF h, dst
  <1>14. CASE q # ctx.outSize
    <2>1. pc' = "return" /\ ctx' = c
      BY <1>1, <1>10, <1>14
    <2> HIDE DEF c, q, o
    <2>2. at' = at + 0 /\ Goes(0)
      <3>1. at' = at + 0 /\ 0 <= call.src /\ made' \in Nat /\ blk' \in 0..Len(frame.blocks)
        BY <1>1, <1>2, <1>5, SMTT(30)
      <3>2. ctx' \in Contexts /\ ctx'.stage = "flushOut"
        BY <1>10, <2>1
      <3>3. QED  BY <1>1, <1>13, <2>1, <3>1, <3>2 DEF Goes
    <2>3. MemoryOf(frame, c, dst, p)
      <3>1. p - q = m /\ q <= p
        BY <1>5
      <3>2. c.stage \notin Outer /\ c.stage \notin AmongBlocks
        BY <1>10 DEF Outer, AmongBlocks
      <3>3. ~frame.linked => c.off = 0 /\ c.dict = Frm!NoDict
        BY <1>2, <1>8, <1>10 DEF MemoryOf
      <3>4. c.dict.where = "none" => c.dict = Frm!NoDict
        BY <1>8, <1>10, <3>3
      <3>5. c.dict.where = "tmp" => c.dict.size <= Len(c.tmp)
        <4>1. CASE frame.linked /\ c.dict.where = "tmp"
          <5>1. c.dict.size = c.off + q
            BY <1>11, <4>1 DEF HistoryInBlock
          <5>2. c.off + c.outSize <= Len(c.tmp)
            BY <1>11 DEF BlockHere
          <5>3. Len(c.tmp) \in Nat /\ c.off \in Nat /\ c.outSize \in Nat /\ q <= c.outSize
            BY <1>5, <1>10, ContextIs
          <5>4. QED  BY <1>5, <5>1, <5>2, <5>3
        <4>2. CASE ~frame.linked
          BY <3>3, <4>2 DEF Frm!NoDict
        <4>3. QED  BY <4>1, <4>2
      <3>6. Len(c.tmp) >= Needs(frame) /\ c.off <= 2 * Window
        BY <1>1, <1>2, <1>10 DEF MemoryOf
      <3>7. c.outStart <= c.outSize /\ c.outStart <= p /\ BlockHere(c, p - c.outStart)
        BY <1>5, <1>10, <1>11, <3>1
      <3>8. frame.linked => HistoryInBlock(c, c.outStart, dst, p - c.outStart)
        BY <1>10, <1>11, <3>1
      <3>9. QED  BY <1>7, <3>2, <3>3, <3>4, <3>5, <3>6, <3>7, <3>8 DEF MemoryOf
    <2>4. MemoryOK'
      BY <1>1, <1>13, <2>1, <2>3 DEF MemoryOK
    <2>5. InFlush(frame, ctx', at', blk', made')
      <3> DEFINE g == GivenOf(frame)[blk - 1]
      <3>1. made = g + o
        BY <1>3 DEF InFlush, o
      <3>2. g \in Nat
        <4>1. blk - 1 \in 0..Len(frame.blocks)
          BY <1>1, <1>2, <1>3, WorkFacts DEF InFlush
        <4>2. QED  BY <1>2, <4>1, GivenFollow
      <3> HIDE DEF g
      <3>3. o \in Nat /\ p = made + n /\ q = o + n
        BY <1>2 DEF p, q, o
      <3>4. p = g + q
        BY <1>5, <3>1, <3>2, <3>3
      <3>5. QED  BY <1>1, <1>3, <1>10, <2>1, <3>4 DEF InFlush, LeftIs, g
    <2>6. PlaceOf(frame, ctx', at', blk', made')
      BY <1>10, <2>1, <2>5, PlaceMeans
    <2>7. CallsOK'
      BY <1>1, <1>13, <2>1, <2>2, <2>6, GoesToPlace
    <2>8. QED  BY <1>1, <2>2, <2>4, <2>7, TypesKept DEF FrameInv
  <1>15. CASE q = ctx.outSize
    <2>1. pc' = "stage" /\ ctx' = [c EXCEPT !.stage = "getBlockHeader"]
      BY <1>1, <1>10, <1>15
    <2> HIDE DEF c, o
    <2>2. /\ ctx' \in Contexts /\ ctx'.stage = "getBlockHeader" /\ ctx'.tmp = c.tmp /\ ctx'.off = c.off
          /\ ctx'.dict = c.dict /\ ctx'.left = c.left
      BY <1>10, <2>1 DEF Contexts, Stages
    <2>3. at' = at + 0 /\ Goes(0)
      <3>1. at' = at + 0 /\ 0 <= call.src /\ made' \in Nat /\ blk' \in 0..Len(frame.blocks)
        BY <1>1, <1>2, <1>5, SMTT(30)
      <3>2. QED  BY <1>1, <1>13, <2>1, <2>2, <3>1 DEF Goes
    <2>4. frame.linked => HistoryHere(c, dst, p)
      <3> SUFFICES ASSUME frame.linked PROVE HistoryHere(c, dst, p)
        OBVIOUS
      <3>1. HistoryInBlock(c, q, dst, m) /\ BlockHere(c, m) /\ q = c.outSize
        BY <1>10, <1>11, <1>15
      <3> HIDE DEF q
      <3>2. QED  BY <1>2, <1>5, <1>10, <3>1, FlushEnds
    <2>5. MemoryOf(frame, ctx', dst, p)
      <3>1. ctx.stage \in AmongBlocks \cup {"flushOut"} /\ ctx'.stage \in AmongBlocks
        BY <1>1, <2>2 DEF AmongBlocks
      <3>2. frame.linked => HistoryHere(ctx', dst, p) /\ ctx'.dict.where # "none"
        BY <1>8, <1>10, <2>2, <2>4 DEF HistoryHere
      <3>3. Len(ctx'.tmp) = Len(ctx.tmp) /\ ctx'.off = ctx.off /\ (~frame.linked => ctx'.dict = ctx.dict)
        BY <1>8, <1>10, <2>2
      <3>4. QED  BY <1>2, <1>7, <2>2, <3>1, <3>2, <3>3, MemoryGiven
    <2>6. MemoryOK'
      BY <1>1, <1>13, <2>5 DEF MemoryOK
    <2>7. AtBlockHeader(frame, ctx', at', blk', made')
      <3>1. /\ blk >= 1 /\ Sound(frame, blk) /\ at = EndsOf(frame)[blk] /\ ctx.outSize = frame.blocks[blk].out
            /\ made = GivenOf(frame)[blk - 1] + o /\ LeftIs(frame, ctx, GivenOf(frame)[blk])
        BY <1>3 DEF InFlush, o
      <3>2. blk \in 1..Len(frame.blocks) /\ blk - 1 \in 0..Len(frame.blocks)
        BY <1>1, <1>2, <3>1, WorkFacts, SMTT(30)
      <3> DEFINE g == GivenOf(frame)[blk - 1]
      <3>3. g \in Nat /\ GivenOf(frame)[blk] = g + ctx.outSize
        BY <1>2, <3>1, <3>2, GivenFollow
      <3>4. made = g + o /\ o \in Nat /\ p = made + n /\ q = o + n
        BY <1>2, <3>1 DEF o, p, q
      <3> HIDE DEF g, q
      <3>5. p = g + ctx.outSize
        BY <1>2, <1>5, <1>15, <3>3, <3>4
      <3>6. p = GivenOf(frame)[blk]
        BY <3>3, <3>5
      <3>7. QED  BY <1>1, <1>10, <2>2, <3>1, <3>6 DEF AtBlockHeader, LeftIs
    <2>8. PlaceOf(frame, ctx', at', blk', made')
      BY <2>2, <2>7, PlaceMeans
    <2>9. CallsOK'
      BY <1>1, <1>13, <2>1, <2>3, <2>8, GoesToPlace
    <2>10. QED  BY <1>1, <2>3, <2>6, <2>9, TypesKept DEF FrameInv
  <1>16. QED  BY <1>14, <1>15

-----------------------------------------------------------------------------
(* The ends of a call.                                                     *)

LEMMA FrameEndInt ==
    ASSUME FramesOk, NEW f \in Frames
    PROVE  FrameEnd(f) \in Nat
  <1>1. Sizes /\ Flags(f) /\ Len(f.blocks) \in Nat
    BY SizesAre, BlocksAre
  <1>2. EndsOf(f)[Len(f.blocks)] \in Nat
    BY <1>1, EndsFollow
  <1>3. Bits(f.ccrc) \in Nat
    BY <1>1 DEF Bits, Sizes
  <1> DEFINE e == EndsOf(f)[Len(f.blocks)]
             z == Bits(f.ccrc)
  <1>4. FrameEnd(f) = IF f.skip THEN SFrameHead + f.csize ELSE e + BHSize + z
    BY DEF FrameEnd
  <1>5. SFrameHead \in Nat /\ f.csize \in Nat /\ BHSize \in Nat
    BY <1>1 DEF Sizes, Flags
  <1> HIDE DEF e, z
  <1>6. e \in Nat /\ z \in Nat
    BY <1>2, <1>3 DEF e, z
  <1>7. QED  BY <1>4, <1>5, <1>6

\* The place in the frame is a matter of the counters.
LEMMA PlaceKept ==
    ASSUME NEW f, NEW c, NEW p, NEW b, NEW m, PlaceOf(f, c, p, b, m), NEW r, r.stage = c.stage,
           r.inSize = c.inSize, r.inTarget = c.inTarget, r.left = c.left,
           r.outStart = c.outStart, r.outSize = c.outSize
    PROVE  PlaceOf(f, r, p, b, m)
  BY DEF PlaceOf, LeftIs, AtHeader, InHeader, AtSkipSize, InSkipSize, InSkipped, AtInit, AtBlockHeader,
         InBlockHeader, InRawBlock, InRawSum, AtBlock, InBlock, InFlush, AtSuffix, InSuffix

\* The next call has a buffer of its own.
LEMMA FreshBuffer ==
    ASSUME NEW f, NEW c, NEW dst, NEW m \in Nat, MemoryOf(f, c, dst, m),
           f.linked /\ c.stage \in AmongBlocks \cup {"flushOut"} => c.dict.where # "dst"
    PROVE  MemoryOf(f, c, <<>>, m)
  <1>1. Upto(<<>>, m)
    BY DEF Upto
  <1>2. f.linked /\ c.stage \in AmongBlocks => HistoryHere(c, <<>>, m)
    <2> SUFFICES ASSUME f.linked, c.stage \in AmongBlocks PROVE HistoryHere(c, <<>>, m)
      OBVIOUS
    <2>1. HistoryHere(c, dst, m) /\ c.dict.where # "dst"
      BY DEF MemoryOf
    <2>2. QED  BY <2>1 DEF HistoryHere
  <1>3. f.linked /\ c.stage = "flushOut" => HistoryInBlock(c, c.outStart, <<>>, m - c.outStart)
    <2> SUFFICES ASSUME f.linked, c.stage = "flushOut"
                 PROVE  HistoryInBlock(c, c.outStart, <<>>, m - c.outStart)
      OBVIOUS
    <2>1. HistoryInBlock(c, c.outStart, dst, m - c.outStart) /\ c.dict.where # "dst"
      BY DEF MemoryOf
    <2>2. QED  BY <2>1 DEF HistoryInBlock
  <1>4. QED  BY <1>1, <1>2, <1>3 DEF MemoryOf

\* History in the buffer of the caller has moved to tmp.
LEMMA PreservedIs ==
    ASSUME FramesOk, FrameInv, frame.linked, ctx.dict.where = "dst",
           ctx.stage \in AmongBlocks \cup {"flushOut"}, NEW r, r = Frm!Preserved
    PROVE  /\ r \in Contexts /\ MemoryOf(frame, r, <<>>, made) /\ r.dict.where = "tmp"
           /\ r.stage = ctx.stage /\ r.inSize = ctx.inSize /\ r.inTarget = ctx.inTarget
           /\ r.left = ctx.left /\ r.outStart = ctx.outStart /\ r.outSize = ctx.outSize
  <1>1. /\ Sizes /\ ctx \in Contexts /\ call.dst \in Seq(Int) /\ made \in Nat /\ ctx.outStart \in Nat
        /\ MemoryOf(frame, ctx, call.dst, made) /\ Len(ctx.tmp) \in Nat /\ ctx.off \in Nat /\ ctx.outSize \in Nat
    BY SizesAre, ContextIs DEF FrameInv, FrameTypes, MemoryOK, CallRecords
  <1>2. Len(ctx.tmp) >= MaxBlock + 2 * Window /\ Upto(call.dst, made) /\ ctx.off <= 2 * Window
    BY <1>1 DEF MemoryOf, Needs
  <1>3. Upto(<<>>, made)
    BY <1>1 DEF Upto
  <1>4. CASE ctx.stage = "flushOut"
    <2> DEFINE o == ctx.outStart
               m == made - o
    <2>1. /\ o \in Nat /\ o <= ctx.outSize /\ o <= made /\ BlockHere(ctx, m)
          /\ HistoryInBlock(ctx, o, call.dst, m)
      BY <1>1, <1>4 DEF MemoryOf
    <2>2. m \in Nat /\ IsSum(made, m, o)
      <3>1. o \in Nat /\ o <= made
        BY <2>1
      <3> HIDE DEF o
      <3>2. QED  BY <1>1, <3>1 DEF IsSum
    <2>3. r = Moved(ctx, call.dst, o)
      BY <1>4 DEF Frm!Preserved, Frm!InFrontOfTmp, TmpWith, Moved
    <2> HIDE DEF m, o
    <2>4. ctx.dict.where = "dst" /\ Upto(call.dst, made)
      BY <1>2
    <2>5. /\ SameButHistory(ctx, r) /\ BlockHere(r, m) /\ HistoryInBlock(r, o, <<>>, m)
          /\ r.dict.where = "tmp" /\ r.dict.size <= Len(r.tmp)
      <3>1. /\ Sizes /\ ctx \in Contexts /\ call.dst \in Seq(Int) /\ m \in Nat /\ o \in Nat
            /\ IsSum(made, m, o) /\ Upto(call.dst, made) /\ o <= ctx.outSize
            /\ ctx.dict.where = "dst" /\ BlockHere(ctx, m) /\ HistoryInBlock(ctx, o, call.dst, m)
        BY <1>1, <2>1, <2>2, <2>4
      <3>2. QED  BY <2>3, <3>1, PreservedInBlock
    <2>6. /\ r \in Contexts /\ Len(r.tmp) = Len(ctx.tmp) /\ r.off = ctx.off
          /\ r.stage = ctx.stage /\ r.inSize = ctx.inSize /\ r.inTarget = ctx.inTarget
          /\ r.left = ctx.left /\ r.outStart = o /\ r.outSize = ctx.outSize
      BY <2>5 DEF SameButHistory, o
    <2>7. MemoryOf(frame, r, <<>>, made)
      <3>1. r.stage = "flushOut" /\ r.stage \notin Outer /\ r.stage \notin AmongBlocks
        BY <1>4, <2>6 DEF Outer, AmongBlocks
      <3>2. r.outStart <= r.outSize /\ r.outStart <= made /\ made - r.outStart = m
        BY <2>1, <2>6 DEF m
      <3>3. Len(r.tmp) >= Needs(frame)
        BY <1>1, <1>4, <2>6 DEF MemoryOf
      <3> HIDE DEF o
      <3>4. QED  BY <1>2, <1>3, <2>5, <2>6, <3>1, <3>2, <3>3 DEF MemoryOf
    <2>8. QED  BY <2>5, <2>6, <2>7 DEF o
  <1>5. CASE ctx.stage \in AmongBlocks
    <2> DEFINE n == Frm!Min2(ctx.dict.size, Window)
               b == Frm!DictBytes(ctx, call.dst, Frm!DictEnd(ctx), n)
               t == Frm!Put(ctx.tmp, 0, b)
    <2>1. ctx.stage # "flushOut" /\ ctx.stage \notin Outer
      BY <1>5 DEF AmongBlocks, Outer
    <2>2. HistoryHere(ctx, call.dst, made)
      BY <1>1, <1>5 DEF MemoryOf
    <2>3. Fits(ctx, Window)
      BY <1>1, <1>2 DEF Fits, Sizes
    <2>4. r = Frm!InTmp([ctx EXCEPT !.tmp = t, !.off = n], n)
      BY <2>1 DEF Frm!Preserved
    <2> HIDE DEF n, t
    <2>5. [ctx EXCEPT !.tmp = t, !.off = n] = [ctx EXCEPT !.off = n, !.tmp = t]
      BY <1>1 DEF Contexts
    <2>6. r = PlacedAt(ctx, Frm!Put(ctx.tmp, 0, b), n, n)
      BY <2>4, <2>5 DEF PlacedAt, t
    <2>a. n = Frm!Min2(ctx.dict.size, Window) /\ b = Frm!DictBytes(ctx, call.dst, Frm!DictEnd(ctx), n)
      BY DEF n
    <2> HIDE DEF b
    <2>b. /\ Sizes /\ ctx \in Contexts /\ call.dst \in Seq(Int) /\ made \in Nat /\ Upto(call.dst, made)
          /\ ctx.dict.where = "dst" /\ HistoryHere(ctx, call.dst, made) /\ Fits(ctx, Window)
      BY <1>1, <1>2, <2>2, <2>3
    <2>7. /\ SameButPlace(ctx, r) /\ HistoryHere(r, <<>>, made) /\ r.off <= 2 * Window
          /\ r.dict.where = "tmp"
      BY <2>a, <2>b, <2>6, PreservedHere, ZenonT(40)
    <2>8. /\ r \in Contexts /\ Len(r.tmp) = Len(ctx.tmp)
          /\ r.stage = ctx.stage /\ r.inSize = ctx.inSize /\ r.inTarget = ctx.inTarget
          /\ r.left = ctx.left /\ r.outStart = ctx.outStart /\ r.outSize = ctx.outSize
      BY <2>7 DEF SameButPlace
    <2>9. r.dict.size <= Len(r.tmp)
      BY <2>7 DEF HistoryHere
    <2>10. Len(r.tmp) >= Needs(frame) /\ r.stage # "flushOut" /\ r.stage \notin Outer
      BY <1>1, <1>5, <2>1, <2>8 DEF MemoryOf
    <2>11. MemoryOf(frame, r, <<>>, made)
      BY <1>3, <2>7, <2>8, <2>9, <2>10 DEF MemoryOf
    <2>12. QED  BY <2>7, <2>8, <2>11
  <1>6. QED  BY <1>4, <1>5

LEMMA ReturnStep ==
    ASSUME FramesOk, FrameInv, Frm!Return
    PROVE  FrameInv'
  <1> DEFINE moved == frame.linked /\ ctx.dict.where = "dst" /\ ctx.stage \in Frm!BlockStages
  <1>1. /\ pc = "return" /\ UNCHANGED <<frame, at, blk, made>>
        /\ ctx' = (IF moved THEN Frm!Preserved ELSE ctx)
        /\ call' = [call EXCEPT !.dst = <<>>, !.src = 0, !.room = 0]
        /\ pc' = IF call.hint = 0 THEN "done" ELSE "idle"
    BY DEF Frm!Return
  <1>2. /\ Sizes /\ frame \in Frames /\ ctx \in Contexts /\ call \in CallRecords /\ call.src \in Nat
        /\ at \in Nat /\ made \in Nat /\ blk \in 0..Len(frame.blocks) /\ at + call.src <= FrameEnd(frame)
        /\ call.dst \in Seq(Int) /\ call.hint \in {0, 1}
        /\ MemoryOf(frame, ctx, call.dst, made)
        /\ ctx.stage \in {"storeFrameHeader", "storeCBlock", "storeSuffix"} => ctx.inSize <= ctx.inTarget
    BY SizesAre DEF FrameInv, FrameTypes, MemoryOK, CallRecords
  <1>3. /\ call.hint = 1 => PlaceOf(frame, ctx, at, blk, made)
        /\ call.hint = 0 => FinishedAt(frame, ctx, at, made)
    BY <1>1 DEF FrameInv, CallsOK, CallsOf
  <1>4. /\ call' \in CallRecords /\ call'.dst = <<>> /\ call'.src = 0 /\ call'.hint = call.hint
    <2>1. <<>> \in Seq(Int)
      OBVIOUS
    <2>2. QED  BY <1>1, <1>2, <2>1 DEF CallRecords
  <1>5. moved => ctx.stage \in AmongBlocks \cup {"flushOut"}
    <2> SUFFICES ASSUME moved PROVE ctx.stage \in AmongBlocks \cup {"flushOut"}
      OBVIOUS
    <2>1. ctx.stage # "init"
      BY <1>2 DEF MemoryOf, Outer, Frm!NoDict
    <2>2. QED  BY <2>1 DEF Frm!BlockStages, AmongBlocks
  <1>6. /\ ctx' \in Contexts /\ MemoryOf(frame, ctx', <<>>, made)
        /\ ctx'.stage = ctx.stage /\ ctx'.inSize = ctx.inSize /\ ctx'.inTarget = ctx.inTarget
        /\ ctx'.left = ctx.left /\ ctx'.outStart = ctx.outStart /\ ctx'.outSize = ctx.outSize
        /\ frame.linked /\ ctx'.stage \in AmongBlocks \cup {"flushOut"} => ctx'.dict.where # "dst"
    <2>1. CASE moved
      <3>1. ctx' = Frm!Preserved
        BY <1>1, <2>1
      <3>2. frame.linked /\ ctx.dict.where = "dst" /\ ctx.stage \in AmongBlocks \cup {"flushOut"}
        BY <1>5, <2>1
      <3>3. /\ ctx' \in Contexts /\ MemoryOf(frame, ctx', <<>>, made) /\ ctx'.dict.where = "tmp"
            /\ ctx'.stage = ctx.stage /\ ctx'.inSize = ctx.inSize /\ ctx'.inTarget = ctx.inTarget
            /\ ctx'.left = ctx.left /\ ctx'.outStart = ctx.outStart /\ ctx'.outSize = ctx.outSize
        BY <3>1, <3>2, PreservedIs
      <3>4. QED  BY <3>3
    <2>2. CASE ~moved
      <3>1. ctx' = ctx
        BY <1>1, <2>2
      <3>2. frame.linked /\ ctx.stage \in AmongBlocks \cup {"flushOut"} => ctx.dict.where # "dst"
        BY <2>2 DEF Frm!BlockStages, AmongBlocks
      <3>3. MemoryOf(frame, ctx, <<>>, made)
        BY <1>2, <3>2, FreshBuffer
      <3>4. QED  BY <1>2, <3>1, <3>2, <3>3
    <2>3. QED  BY <2>1, <2>2
  <1>7. FrameTypes'
    <2>1. at' \in Nat /\ at' + call'.src <= FrameEnd(frame')
      <3>1. at' = at /\ frame' = frame /\ call'.src = 0
        BY <1>1, <1>4
      <3> DEFINE e == FrameEnd(frame)
                 z == call.src
      <3>2. at \in Nat /\ z \in Nat /\ at + z <= e /\ FrameEnd(frame') = e
        BY <1>2, <3>1
      <3>3. FrameEnd(frame) \in Int
        BY <1>2, FrameEndInt
      <3> HIDE DEF e, z
      <3>4. at <= e
        BY <3>2, <3>3 DEF e
      <3>5. QED  BY <3>1, <3>2, <3>4
    <2>2. pc' \in {"idle", "stage", "return", "done", "error"}
      BY <1>1
    <2>3. QED  BY <1>1, <1>2, <1>4, <1>6, <2>1, <2>2 DEF FrameTypes
  <1>8. MemoryOK'
    BY <1>1, <1>4, <1>6 DEF MemoryOK
  <1>9. CallsOK'
    <2>1. CASE call.hint = 1
      <3>1. PlaceOf(frame, ctx', at, blk, made)
        BY <1>3, <1>6, <2>1, PlaceKept
      <3>2. pc' = "idle"
        BY <1>1, <2>1
      <3>3. QED  BY <1>1, <1>4, <1>6, <2>1, <3>1, <3>2 DEF CallsOK, CallsOf
    <2>2. CASE call.hint = 0
      <3>1. FinishedAt(frame, ctx, at, made) /\ pc' = "done"
        BY <1>1, <1>3, <2>2
      <3>2. ~moved
        BY <3>1 DEF FinishedAt, Frm!BlockStages
      <3>3. ctx' = ctx
        BY <1>1, <3>2
      <3>4. QED  BY <1>1, <1>4, <2>2, <3>1, <3>3 DEF CallsOK, CallsOf
    <2>3. QED  BY <1>2, <2>1, <2>2
  <1>10. QED  BY <1>7, <1>8, <1>9 DEF FrameInv

LEMMA CallStep ==
    ASSUME FramesOk, FrameInv, NEW n \in SrcSizes, NEW cap \in DstSizes, Frm!Call(n, cap)
    PROVE  FrameInv'
  <1>1. /\ pc = "idle" /\ n <= FrameEnd(frame) - at /\ UNCHANGED <<frame, ctx, at, blk, made>>
        /\ call' = [src |-> n, room |-> cap, dst |-> <<>>, from |-> at, hint |-> 1]
        /\ pc' = "stage"
    BY SameNames DEF Frm!Call
  <1>2. n \in Nat /\ cap \in Nat
    BY DEF FramesOk, Frm!CallsAssumption
  <1>3. /\ frame \in Frames /\ ctx \in Contexts /\ at \in Nat /\ made \in Nat
        /\ blk \in 0..Len(frame.blocks) /\ MemoryOf(frame, ctx, call.dst, made) /\ call.dst = <<>>
        /\ PlaceOf(frame, ctx, at, blk, made)
        /\ ctx.stage \in {"storeFrameHeader", "storeCBlock", "storeSuffix"} => ctx.inSize <= ctx.inTarget
    BY <1>1 DEF FrameInv, FrameTypes, MemoryOK, CallsOK, CallsOf
  <1>4. /\ call' \in CallRecords /\ call'.src = n /\ call'.dst = <<>> /\ call'.hint = 1
    <2>1. <<>> \in Seq(Int)
      OBVIOUS
    <2>2. QED  BY <1>1, <1>2, <1>3, <2>1 DEF CallRecords
  <1>5. at' + call'.src <= FrameEnd(frame')
    <2>1. at' = at /\ call'.src = n /\ frame' = frame
      BY <1>1, <1>4
    <2> DEFINE e == FrameEnd(frame)
    <2>2. e \in Nat /\ FrameEnd(frame') = e
      BY <1>3, <2>1, FrameEndInt
    <2>3. n <= e - at
      BY <1>1
    <2> HIDE DEF e
    <2>4. QED  BY <1>2, <1>3, <2>1, <2>2, <2>3
  <1>6. FrameTypes'
    BY <1>1, <1>3, <1>4, <1>5 DEF FrameTypes
  <1>7. MemoryOK'
    BY <1>1, <1>3, <1>4 DEF MemoryOK
  <1>8. CallsOK'
    BY <1>1, <1>3, <1>4 DEF CallsOK, CallsOf
  <1>9. QED  BY <1>6, <1>7, <1>8 DEF FrameInv

LEMMA GetFrameInfoStep ==
    ASSUME FramesOk, FrameInv, NEW n \in SrcSizes, Frm!GetFrameInfo(n)
    PROVE  FrameInv'
  <1>1. /\ pc = "idle" /\ ctx.stage = "getFrameHeader" /\ n >= Frm!HeadSize /\ n <= FrameEnd(frame)
        /\ at' = (IF frame.skip THEN SFrameMagic ELSE IF frame.good THEN HeadOf(frame) ELSE 0)
        /\ ctx' = (IF frame.skip THEN [ctx EXCEPT !.stage = "getSFrameSize"]
                   ELSE IF frame.good THEN Frm!HeaderDone(ctx) ELSE ctx)
        /\ pc' = (IF frame.skip \/ frame.good THEN "idle" ELSE "error")
        /\ UNCHANGED <<frame, blk, made, call>>
    BY SameNames DEF Frm!GetFrameInfo
  <1>2. /\ Sizes /\ frame \in Frames /\ Flags(frame) /\ ctx \in Contexts /\ made \in Nat /\ call \in CallRecords
        /\ blk \in 0..Len(frame.blocks) /\ MemoryOf(frame, ctx, call.dst, made)
        /\ call.src = 0 /\ call.hint = 1 /\ call.dst = <<>>
        /\ PlaceOf(frame, ctx, at, blk, made)
    BY <1>1, SizesAre, BlocksAre DEF FrameInv, FrameTypes, MemoryOK, CallsOK, CallsOf
  <1>3. at = 0 /\ blk = 0 /\ made = 0
    BY <1>1, <1>2, PlaceMeans DEF AtHeader
  <1>4. FrameEnd(frame) \in Nat /\ n \in Nat
    BY <1>2, FrameEndInt DEF FramesOk, Frm!CallsAssumption
  <1>5. HeadOf(frame) \in Nat
    BY <1>2 DEF HeadOf, Sizes, Flags
  <1>6. at' \in Nat /\ at' <= FrameEnd(frame)
    <2>1. n >= IF frame.skip THEN SFrameHead ELSE HeadOf(frame)
      BY <1>1, SameNames DEF Frm!HeadSize
    <2> DEFINE e == FrameEnd(frame)
               z == HeadOf(frame)
    <2>2. e \in Nat /\ z \in Nat /\ n <= e /\ (frame.skip => n >= SFrameHead) /\ (~frame.skip => n >= z)
      BY <1>1, <1>4, <1>5, <2>1
    <2>3. (frame.skip => at' = SFrameMagic) /\ (~frame.skip => at' = z \/ at' = 0)
      BY <1>1
    <2>4. SFrameMagic \in Nat /\ SFrameHead \in Nat /\ SFrameMagic <= SFrameHead
      BY <1>2 DEF Sizes
    <2> HIDE DEF e, z
    <2>5. at' \in Nat /\ at' <= e
      BY <1>4, <2>2, <2>3, <2>4
    <2>6. QED  BY <2>5 DEF e
  <1>7. /\ ctx' \in Contexts /\ Quiet(ctx, ctx') /\ StageMove(ctx.stage, ctx'.stage)
        /\ frame.skip => ctx'.stage = "getSFrameSize"
        /\ ~frame.skip /\ frame.good => ctx'.stage = "init" /\ ctx'.left = frame.csize
        /\ ~frame.skip /\ ~frame.good => ctx' = ctx
    <2>1. CASE frame.skip
      <3>1. ctx' = [ctx EXCEPT !.stage = "getSFrameSize"]
        BY <1>1, <2>1
      <3>2. QED  BY <1>1, <1>2, <2>1, <3>1 DEF Contexts, Stages, Quiet, StageMove, Outer
    <2>2. CASE ~frame.skip /\ frame.good
      <3>1. ctx' = [ctx EXCEPT !.stage = "init", !.left = frame.csize]
        BY <1>1, <2>2 DEF Frm!HeaderDone
      <3>2. frame.csize \in Int
        BY <1>2 DEF Flags
      <3>3. QED  BY <1>1, <1>2, <2>2, <3>1, <3>2 DEF Contexts, Stages, Quiet, StageMove, Outer
    <2>3. CASE ~frame.skip /\ ~frame.good
      <3>1. ctx' = ctx
        BY <1>1, <2>3
      <3>2. QED  BY <1>2, <2>3, <3>1 DEF Quiet, StageMove
    <2>4. QED  BY <2>1, <2>2, <2>3
  <1>8. ctx'.stage \in {"getFrameHeader", "getSFrameSize", "init"}
    BY <1>1, <1>7
  <1>9. FrameTypes'
    <2>1. at' + call'.src <= FrameEnd(frame')
      <3>1. call'.src = 0 /\ frame' = frame
        BY <1>1, <1>2
      <3> DEFINE e == FrameEnd(frame)
      <3>2. at' \in Nat /\ at' <= e /\ FrameEnd(frame') = e
        BY <1>6, <3>1
      <3> HIDE DEF e
      <3>3. QED  BY <3>1, <3>2
    <2>2. QED  BY <1>1, <1>2, <1>6, <1>7, <1>8, <2>1 DEF FrameTypes
  <1>10. MemoryOK'
    <2>1. MemoryOf(frame, ctx', call.dst, made)
      BY <1>2, <1>7, MemorySame
    <2>2. QED  BY <1>1, <2>1 DEF MemoryOK
  <1>11. CallsOK'
    <2>1. CASE frame.skip \/ frame.good
      <3>1. pc' = "idle"
        BY <1>1, <2>1
      <3>2. PlaceOf(frame, ctx', at', blk', made')
        <4>1. CASE frame.skip
          <5>1. AtSkipSize(frame, ctx', at', blk', made') /\ ctx'.stage = "getSFrameSize"
            BY <1>1, <1>7, <4>1 DEF AtSkipSize
          <5>2. QED  BY <5>1, PlaceMeans
        <4>2. CASE ~frame.skip
          <5>1. at' = HeadOf(frame) /\ ctx'.stage = "init" /\ ctx'.left = frame.csize
            BY <1>1, <1>7, <2>1, <4>2
          <5>2. LeftIs(frame, ctx', made')
            BY <1>1, <1>2, <1>3, <5>1 DEF LeftIs, Flags
          <5>3. Sound(frame, 0)
            BY <2>1, <4>2 DEF Sound
          <5>4. AtInit(frame, ctx', at', blk', made')
            BY <1>1, <1>3, <5>1, <5>2, <5>3 DEF AtInit
          <5>5. QED  BY <5>1, <5>4, PlaceMeans
        <4>3. QED  BY <4>1, <4>2
      <3>3. ctx'.stage \notin AmongBlocks \cup {"flushOut"}
        BY <1>8 DEF AmongBlocks
      <3>4. QED  BY <1>1, <1>2, <3>1, <3>2, <3>3 DEF CallsOK, CallsOf
    <2>2. CASE ~(frame.skip \/ frame.good)
      <3>1. pc' = "error" /\ FaultyFrame(frame)
        BY <1>1, <2>2 DEF FaultyFrame
      <3>2. QED  BY <1>1, <3>1 DEF CallsOK, CallsOf
    <2>3. QED  BY <2>1, <2>2
  <1>12. QED  BY <1>9, <1>10, <1>11 DEF FrameInv

-----------------------------------------------------------------------------
(* The invariant holds of every run, and says what the properties say.     *)

LEMMA FrameBegins ==
    ASSUME FramesOk, Frm!Init
    PROVE  FrameInv
  <1>1. /\ frame \in Frames /\ pc = "idle" /\ at = 0 /\ blk = 0 /\ made = 0
        /\ ctx = [stage |-> "getFrameHeader", inSize |-> 0, inTarget |-> 0, left |-> 0,
                  tmp |-> <<>>, off |-> 0, outStart |-> 0, outSize |-> 0, dict |-> Frm!NoDict]
        /\ call = [src |-> 0, room |-> 0, dst |-> <<>>, from |-> 0, hint |-> 1]
    BY DEF Frm!Init
  <1>2. Frm!NoDict \in Dicts
    BY DEF Frm!NoDict, Dicts
  <1>3. <<>> \in Seq(Int)
    OBVIOUS
  <1>4. /\ ctx \in Contexts /\ ctx.stage = "getFrameHeader" /\ ctx.dict = Frm!NoDict /\ ctx.off = 0
    BY <1>1, <1>2, <1>3 DEF Contexts, Stages
  <1>5. call \in CallRecords /\ call.src = 0 /\ call.dst = <<>> /\ call.hint = 1
    BY <1>1, <1>3 DEF CallRecords
  <1>6. Sizes /\ FrameEnd(frame) \in Nat /\ Len(frame.blocks) \in Nat
    BY <1>1, SizesAre, FrameEndInt, BlocksAre
  <1>7. FrameTypes
    <2>1. at + call.src <= FrameEnd(frame)
      <3> DEFINE e == FrameEnd(frame)
      <3>1. e \in Nat
        BY <1>6
      <3> HIDE DEF e
      <3>2. at + call.src <= e
        BY <1>1, <1>5, <3>1
      <3>3. QED  BY <3>2 DEF e
    <2>2. QED  BY <1>1, <1>4, <1>5, <1>6, <2>1 DEF FrameTypes
  <1>8. MemoryOK
    <2>1. Upto(<<>>, 0)
      BY DEF Upto
    <2>2. ctx.stage \notin AmongBlocks \cup {"flushOut"}
      BY <1>4 DEF AmongBlocks
    <2>3. ctx.dict.where = "none"
      BY <1>4 DEF Frm!NoDict
    <2>4. ctx.off <= 2 * Window
      BY <1>4, <1>6 DEF Sizes
    <2>5. QED  BY <1>1, <1>4, <1>5, <2>1, <2>2, <2>3, <2>4 DEF MemoryOK, MemoryOf
  <1>9. CallsOK
    <2>1. PlaceOf(frame, ctx, at, blk, made)
      BY <1>1, <1>4, PlaceMeans DEF AtHeader
    <2>2. ctx.stage \notin AmongBlocks \cup {"flushOut"}
      BY <1>4 DEF AmongBlocks
    <2>3. QED  BY <1>1, <1>5, <2>1, <2>2 DEF CallsOK, CallsOf
  <1>10. QED  BY <1>7, <1>8, <1>9 DEF FrameInv

LEMMA FrameStep ==
    ASSUME FramesOk, FrameInv, [Frm!Next]_(Frm!vars)
    PROVE  FrameInv'
  <1>1. CASE Frm!GetFrameHeader
    BY <1>1, GetFrameHeaderStep
  <1>2. CASE Frm!StoreFrameHeader
    BY <1>2, StoreFrameHeaderStep
  <1>3. CASE Frm!InitBlocks
    BY <1>3, InitBlocksStep
  <1>4. CASE Frm!GetSFrameSize
    BY <1>4, GetSFrameSizeStep
  <1>5. CASE Frm!StoreSFrameSize
    BY <1>5, StoreSFrameSizeStep
  <1>6. CASE Frm!SkipSkippable
    BY <1>6, SkipSkippableStep
  <1>7. CASE Frm!GetBlockHeader
    BY <1>7, GetBlockHeaderStep
  <1>8. CASE Frm!StoreBlockHeader
    BY <1>8, StoreBlockHeaderStep
  <1>9. CASE Frm!GetBlockChecksum
    BY <1>9, GetBlockChecksumStep
  <1>10. CASE Frm!CopyDirect
    BY <1>10, CopyDirectStep
  <1>11. CASE Frm!GetCBlock
    BY <1>11, GetCBlockStep
  <1>12. CASE Frm!StoreCBlock
    BY <1>12, StoreCBlockStep
  <1>13. CASE Frm!FlushOut
    BY <1>13, FlushOutStep
  <1>14. CASE Frm!GetSuffix
    BY <1>14, GetSuffixStep
  <1>15. CASE Frm!StoreSuffix
    BY <1>15, StoreSuffixStep
  <1>16. CASE Frm!Return
    BY <1>16, ReturnStep
  <1>17. ASSUME NEW n \in SrcSizes, Frm!GetFrameInfo(n) PROVE FrameInv'
    BY <1>17, GetFrameInfoStep
  <1>18. ASSUME NEW n \in SrcSizes, NEW cap \in DstSizes, Frm!Call(n, cap) PROVE FrameInv'
    BY <1>18, CallStep
  <1>19. CASE UNCHANGED Frm!vars
    BY <1>19 DEF Frm!vars, FrameInv, FrameTypes, MemoryOK, CallsOK
  <1>20. QED
    BY <1>1, <1>2, <1>3, <1>4, <1>5, <1>6, <1>7, <1>8, <1>9, <1>10, <1>11, <1>12, <1>13, <1>14,
       <1>15, <1>16, <1>17, <1>18, <1>19 DEF Frm!Next, Frm!Step

LEMMA FramesInvariant ==
    ASSUME FramesOk
    PROVE  Spec => []FrameInv
  <1>1. Init => FrameInv
    BY FrameBegins DEF Init
  <1>2. [Next]_all => [Frm!Next]_(Frm!vars)
    BY DEF Next, FrameTurn, StreamNext, BlockNext, HashNext, all, frame_vars, Frm!vars
  <1>3. FrameInv /\ [Frm!Next]_(Frm!vars) => FrameInv'
    BY FrameStep
  <1>4. QED  BY <1>1, <1>2, <1>3, PTL DEF Spec

\* Every byte given out is the next byte of the content, however the calls cut the
\* frame and the room for its content, and whatever the caller does with its buffer
\* between them; the decoder says that it is done with the last byte of a frame in
\* order, and then only, and gives an error only for a frame that is not in order or
\* when memory is missing; and it leaves no dictionary to the next frame.
THEOREM FramesKeepContent ==
    ASSUME Frm!SizesAssumption, Frm!FramesAssumption, Frm!CallsAssumption
    PROVE  Spec => []FrameContent
  <1>0. FramesOk
    BY DEF FramesOk
  <1>1. FrameInv => FrameContent
    <2> SUFFICES ASSUME FrameInv PROVE FrameContent
      OBVIOUS
    <2>1. /\ frame \in Frames /\ ctx \in Contexts /\ call \in CallRecords /\ at \in Nat /\ made \in Nat
          /\ call.src \in Nat /\ call.room \in Nat /\ call.dst \in Seq(Int) /\ call.hint \in {0, 1}
          /\ pc \in {"idle", "stage", "return", "done", "error"} /\ blk \in 0..Len(frame.blocks)
          /\ at + call.src <= FrameEnd(frame) /\ MemoryOf(frame, ctx, call.dst, made)
          /\ ctx.stage \in {"storeFrameHeader", "storeCBlock", "storeSuffix"} => ctx.inSize <= ctx.inTarget
      BY DEF FrameInv, FrameTypes, MemoryOK, CallRecords
    <2>2. Frm!TypeOK
      <3>1. at \in 0..FrameEnd(frame)
        <4> DEFINE e == FrameEnd(frame)
                   z == call.src
        <4>1. at \in Nat /\ z \in Nat /\ e \in Nat /\ at + z <= e
          BY <1>0, <2>1, FrameEndInt
        <4> HIDE DEF e, z
        <4>2. at \in 0..e
          BY <4>1
        <4>3. QED  BY <4>2 DEF e
      <3>2. call.src >= 0 /\ call.room >= 0
        BY <2>1
      <3>3. ctx.dict.where = "none" => ctx.dict.size = 0
        BY <2>1 DEF MemoryOf, Frm!NoDict
      <3>4. QED  BY <2>1, <3>1, <3>2, <3>3, SameNames DEF Frm!TypeOK
    <2>3. Frm!OutputInOrder
      BY <2>1 DEF MemoryOf, Upto, Frm!OutputInOrder
    <2>4. pc = "done" => FinishedAt(frame, ctx, at, made)
      BY DEF FrameInv, CallsOK, CallsOf
    <2>5. pc = "error" => FaultyFrame(frame) \/ ctx.stage = "init"
      BY DEF FrameInv, CallsOK, CallsOf
    <2>6. Frm!FrameExact /\ Frm!LeavesNoHistory
      BY <2>4, <2>5, SameNames DEF FinishedAt, Frm!FrameExact, Frm!LeavesNoHistory
    <2>7. QED  BY <2>2, <2>3, <2>6 DEF FrameContent
  <1>2. QED  BY <1>0, <1>1, FramesInvariant, PTL

\* There is always room in the buffer of the decoder for the largest block behind its
\* history, and the history in it does not reach beyond it.
THEOREM HistoryStaysInside ==
    ASSUME Frm!SizesAssumption, Frm!FramesAssumption, Frm!CallsAssumption
    PROVE  Spec => []InsideTmp
  <1>0. FramesOk
    BY DEF FramesOk
  <1>1. FrameInv => InsideTmp
    <2> SUFFICES ASSUME FrameInv PROVE InsideTmp
      OBVIOUS
    <2>1. /\ frame \in Frames /\ ctx \in Contexts /\ MemoryOf(frame, ctx, call.dst, made) /\ Sizes
          /\ ctx.off \in Nat /\ Len(ctx.tmp) \in Nat /\ Flags(frame)
      BY <1>0, SizesAre, ContextIs, BlocksAre DEF FrameInv, FrameTypes, MemoryOK
    <2>2. ctx.stage = "flushOut" => ctx.off + MaxBlock <= Len(ctx.tmp)
      <3> SUFFICES ASSUME ctx.stage = "flushOut" PROVE ctx.off + MaxBlock <= Len(ctx.tmp)
        OBVIOUS
      <3>1. Len(ctx.tmp) >= Needs(frame) /\ ctx.off <= 2 * Window /\ (~frame.linked => ctx.off = 0)
        BY <2>1 DEF MemoryOf
      <3>2. Len(ctx.tmp) >= MaxBlock /\ (frame.linked => Len(ctx.tmp) >= MaxBlock + 2 * Window)
        BY <2>1, <3>1 DEF Needs, Sizes
      <3> DEFINE x == ctx.off
                 l == Len(ctx.tmp)
      <3>3. x \in Nat /\ l \in Nat /\ Window \in Nat /\ MaxBlock \in Nat
        BY <2>1 DEF Sizes
      <3>4. (x <= 2 * Window /\ l >= MaxBlock + 2 * Window) \/ (x = 0 /\ l >= MaxBlock)
        BY <3>1, <3>2
      <3> HIDE DEF x, l
      <3>5. x + MaxBlock <= l
        BY <3>3, <3>4
      <3>6. QED  BY <3>5 DEF x, l
    <2>3. ctx.dict.where = "tmp" => ctx.dict.size <= Len(ctx.tmp)
      BY <2>1 DEF MemoryOf
    <2>4. QED  BY <2>2, <2>3 DEF InsideTmp, Frm!InsideTmp
  <1>2. QED  BY <1>0, <1>1, FramesInvariant, PTL
=============================================================================
