------------------------------- MODULE Lz4Proofs -------------------------------
(***************************************************************************)
(* Three parts of an LZ4 image.  process_lz4_streaming gives the decoder   *)
(* every byte of an entry once and in order and takes every sound frame,   *)
(* for every frame, every size of the buffers, and every way the decoder   *)
(* takes its input.  The hash of the pieces is the hash of the whole, for  *)
(* every way to cut it.  No stride of the block decoder leaves its         *)
(* buffers, for every block, the damaged ones included.                    *)
(***************************************************************************)
EXTENDS Lz4Images, SequenceTheorems, Inductions, TLAPS

-----------------------------------------------------------------------------
(* Frames.                                                                 *)

Unit == [in : Nat \ {0}, out : Nat, bad : BOOLEAN]
Ins(us) == [k \in 1..Len(us) |-> us[k].in]
Outs(us) == [k \in 1..Len(us) |-> us[k].out]

\* The bytes of the first k units, and what comes out of them.
InUpto(us) ==
    LET upto[k \in 0..Len(us)] == IF k = 0 THEN 0 ELSE upto[k - 1] + us[k].in IN upto
OutUpto(us) ==
    LET upto[k \in 0..Len(us)] == IF k = 0 THEN 0 ELSE upto[k - 1] + us[k].out IN upto

LEMMA Numbered ==
    ASSUME NEW us \in Seq(Unit)
    PROVE  /\ Len(us) \in Nat
           /\ Ins(us) \in [1..Len(us) -> Nat] /\ Outs(us) \in [1..Len(us) -> Nat]
           /\ \A k \in 1..Len(us) : /\ us[k] \in Unit /\ us[k].in \in Nat /\ us[k].in > 0
                                    /\ us[k].out \in Nat
                                    /\ Ins(us)[k] = us[k].in /\ Outs(us)[k] = us[k].out
  <1>1. Len(us) \in Nat /\ \A k \in 1..Len(us) : us[k] \in Unit
    OBVIOUS
  <1>2. \A k \in 1..Len(us) : us[k].in \in Nat /\ us[k].in > 0 /\ us[k].out \in Nat
    BY <1>1 DEF Unit
  <1>3. QED  BY <1>1, <1>2 DEF Ins, Outs

LEMMA InTotals ==
    ASSUME NEW us \in Seq(Unit)
    PROVE  Totals(InUpto(us), Len(us), Ins(us)) /\ Stream!InOf(us) = InUpto(us)[Len(us)]
  <1> DEFINE N == Len(us)
             g == InUpto(us)
  <1>1. PICK f : Totals(f, N, Ins(us))
    BY Numbered, TotalsExist
  <1>2. f = [k \in 0..N |-> IF k = 0 THEN 0 ELSE f[k - 1] + us[k].in]
    <2>1. \A k \in 0..N : k # 0 => k \in 1..N
      BY Numbered
    <2>2. QED  BY <1>1, <2>1, Numbered DEF Totals
  <1>3. g = [k \in 0..N |-> IF k = 0 THEN 0 ELSE g[k - 1] + us[k].in]
    BY <1>2 DEF InUpto
  <1>4. g = [k \in 0..N |-> IF k = 0 THEN 0 ELSE g[k - 1] + Ins(us)[k]]
    <2>1. \A k \in 0..N : k # 0 => Ins(us)[k] = us[k].in
      BY Numbered
    <2> HIDE DEF g
    <2>2. QED  BY <1>3, <2>1
  <1>5. Totals(g, N, Ins(us))
    <2> HIDE DEF g, N
    <2>1. N \in Nat /\ Ins(us) \in [1..N -> Nat]
      BY Numbered DEF N
    <2>2. QED  BY <1>4, <2>1, TotalsAre
  <1>6. Stream!InOf(us) = InUpto(us)[Len(us)]
    BY DEF Stream!InOf, InUpto
  <1>7. QED  BY <1>5, <1>6

LEMMA OutTotals ==
    ASSUME NEW us \in Seq(Unit)
    PROVE  Totals(OutUpto(us), Len(us), Outs(us)) /\ Stream!OutOf(us) = OutUpto(us)[Len(us)]
  <1> DEFINE N == Len(us)
             g == OutUpto(us)
  <1>1. PICK f : Totals(f, N, Outs(us))
    BY Numbered, TotalsExist
  <1>2. f = [k \in 0..N |-> IF k = 0 THEN 0 ELSE f[k - 1] + us[k].out]
    <2>1. \A k \in 0..N : k # 0 => k \in 1..N
      BY Numbered
    <2>2. QED  BY <1>1, <2>1, Numbered DEF Totals
  <1>3. g = [k \in 0..N |-> IF k = 0 THEN 0 ELSE g[k - 1] + us[k].out]
    BY <1>2 DEF OutUpto
  <1>4. g = [k \in 0..N |-> IF k = 0 THEN 0 ELSE g[k - 1] + Outs(us)[k]]
    <2>1. \A k \in 0..N : k # 0 => Outs(us)[k] = us[k].out
      BY Numbered
    <2> HIDE DEF g
    <2>2. QED  BY <1>3, <2>1
  <1>5. Totals(g, N, Outs(us))
    <2> HIDE DEF g, N
    <2>1. N \in Nat /\ Outs(us) \in [1..N -> Nat]
      BY Numbered DEF N
    <2>2. QED  BY <1>4, <2>1, TotalsAre
  <1>6. Stream!OutOf(us) = OutUpto(us)[Len(us)]
    BY DEF Stream!OutOf, OutUpto
  <1>7. QED  BY <1>5, <1>6

\* The first units of a frame are a frame.
LEMMA Prefixes ==
    ASSUME NEW us \in Seq(Unit), NEW k \in 0..Len(us)
    PROVE  /\ SubSeq(us, 1, k) \in Seq(Unit) /\ Len(SubSeq(us, 1, k)) = k
           /\ Stream!InOf(SubSeq(us, 1, k)) = InUpto(us)[k]
           /\ Stream!OutOf(SubSeq(us, 1, k)) = OutUpto(us)[k]
           /\ InUpto(us)[k] \in Nat /\ OutUpto(us)[k] \in Nat
  <1> DEFINE s == SubSeq(us, 1, k)
  <1>1. Len(us) \in Nat /\ k \in Nat /\ k <= Len(us)
    OBVIOUS
  <1>2. s \in Seq(Unit) /\ Len(s) = k /\ \A l \in 1..k : s[l] = us[l]
    BY <1>1
  <1> HIDE DEF s
  <1>3. \A l \in 1..k : Ins(s)[l] = Ins(us)[l] /\ Outs(s)[l] = Outs(us)[l]
    <2>1. \A l \in 1..k : l \in 1..Len(us) /\ l \in 1..Len(s)
      BY <1>1, <1>2
    <2>2. QED  BY <1>2, <2>1 DEF Ins, Outs
  <1>4. Totals(InUpto(us), Len(us), Ins(us)) /\ Totals(OutUpto(us), Len(us), Outs(us))
    BY InTotals, OutTotals
  <1>5. /\ Totals(InUpto(s), k, Ins(s)) /\ Stream!InOf(s) = InUpto(s)[k]
        /\ Totals(OutUpto(s), k, Outs(s)) /\ Stream!OutOf(s) = OutUpto(s)[k]
    BY <1>2, InTotals, OutTotals
  <1>6. InUpto(s)[k] = InUpto(us)[k]
    BY <1>1, <1>3, <1>4, <1>5, TotalsAgree
  <1>7. OutUpto(s)[k] = OutUpto(us)[k]
    BY <1>1, <1>3, <1>4, <1>5, TotalsAgree
  <1>8. InUpto(us)[k] \in Nat /\ OutUpto(us)[k] \in Nat
    BY <1>4 DEF Totals
  <1>9. QED  BY <1>2, <1>5, <1>6, <1>7, <1>8 DEF s

-----------------------------------------------------------------------------
(* The frame of an image.                                                  *)

P == InUpto(image.units)
Q == OutUpto(image.units)
Last == Len(image.units)

Assumptions == Stream!SizesAssumption /\ Stream!ImagesAssumption

LEMMA FrameFacts ==
    ASSUME Assumptions, image \in Images
    PROVE  /\ image.units \in Seq(Unit) /\ Last \in Nat /\ Last >= 1
           /\ InBuf \in Nat /\ OutBuf \in Nat /\ HeaderMax \in Nat /\ InBuf > 0
           /\ image.declared \in Nat /\ image.size \in Nat /\ image.avail \in Nat
           /\ image.flash \in BOOLEAN /\ image.lazy \in BOOLEAN
           /\ Stream!FrameLen = P[Last] /\ Stream!Total = Q[Last]
           /\ \A k \in 0..Last : P[k] \in Nat /\ Q[k] \in Nat
           /\ P[0] = 0
           /\ \A k \in 0..(Last - 1) : P[k + 1] = P[k] + image.units[k + 1].in
           /\ \A k \in 1..Last : image.units[k].in \in Nat /\ image.units[k].in > 0
  <1>1. image.units \in Seq([in : Nat \ {0}, out : Nat, bad : BOOLEAN]) /\ image.units # <<>>
    BY DEF Assumptions, Stream!ImagesAssumption
  <1>2. image.units \in Seq(Unit) /\ Last \in Nat /\ Last >= 1
    BY <1>1 DEF Unit, Last
  <1>3. Totals(P, Last, Ins(image.units)) /\ Totals(Q, Last, Outs(image.units))
    BY <1>2, InTotals, OutTotals DEF P, Q, Last
  <1>4. Stream!FrameLen = P[Last] /\ Stream!Total = Q[Last]
    BY <1>2, InTotals, OutTotals DEF P, Q, Last, Stream!FrameLen, Stream!Total, Stream!Units
  <1>5. P[0] = 0 /\ \A k \in 0..Last : P[k] \in Nat /\ Q[k] \in Nat
    BY <1>3 DEF Totals
  <1>6. ASSUME NEW k \in 0..(Last - 1) PROVE P[k + 1] = P[k] + image.units[k + 1].in
    <2>1. k + 1 \in 1..Last /\ (k + 1) - 1 = k
      BY <1>2
    <2>2. Ins(image.units)[k + 1] = image.units[k + 1].in
      BY <1>2, <2>1, Numbered DEF Last
    <2>3. QED  BY <1>3, <2>1, <2>2 DEF Totals
  <1>7. \A k \in 1..Last : image.units[k].in \in Nat /\ image.units[k].in > 0
    BY <1>2, Numbered DEF Last
  <1>8. /\ InBuf \in Nat /\ OutBuf \in Nat /\ HeaderMax \in Nat /\ InBuf > 0
        /\ image.declared \in Nat /\ image.size \in Nat /\ image.avail \in Nat
        /\ image.flash \in BOOLEAN /\ image.lazy \in BOOLEAN
    BY DEF Assumptions, Stream!SizesAssumption, Stream!ImagesAssumption
  <1>9. QED  BY <1>2, <1>4, <1>5, <1>6, <1>7, <1>8

\* No unit is empty: sums of more of them are larger.
LEMMA Longer ==
    ASSUME Assumptions, image \in Images, NEW j \in 0..Last, NEW k \in j..Last
    PROVE  P[j] <= P[k] /\ (j < k => P[j] < P[k])
  <1>1. image.units \in Seq(Unit) /\ Last \in Nat
    BY FrameFacts
  <1>2. Totals(P, Last, Ins(image.units)) /\ Ins(image.units) \in [1..Last -> Nat]
    BY <1>1, InTotals, Numbered DEF P, Last
  <1>3. \A l \in 1..Last : Ins(image.units)[l] > 0
    BY <1>1, Numbered DEF Last
  <1>4. QED  BY <1>1, <1>2, <1>3, TotalsGrow

\* There is a number of whole units in n bytes.
LEMMA WholeIs ==
    ASSUME Assumptions, image \in Images, NEW n \in Nat
    PROVE  /\ Stream!WholeUnits(n) \in 0..Last
           /\ P[Stream!WholeUnits(n)] <= n
           /\ Stream!WholeUnits(n) = Last \/ P[Stream!WholeUnits(n) + 1] > n
  <1>0. image.units \in Seq(Unit) /\ Last \in Nat /\ Last >= 1 /\ P[0] = 0
        /\ \A k \in 0..Last : P[k] \in Nat
    BY FrameFacts
  <1> DEFINE Fits(k) == P[k] <= n /\ (k = Last \/ P[k + 1] > n)
  <1>1. \E k \in 0..Last : Fits(k)
    <2> DEFINE T == {k \in 0..Last : P[k] > n}
    <2>1. CASE T = {}
      <3>1. Last \in 0..Last /\ P[Last] \in Nat /\ ~(P[Last] > n)
        BY <1>0, <2>1
      <3>2. Fits(Last)
        BY <3>1
      <3>3. QED  BY <3>1, <3>2
    <2>2. CASE T # {}
      <3>1. T \in SUBSET Nat
        BY <1>0
      <3>2. PICK m \in T : \A k \in T : m <= k
        <4> HIDE DEF T
        <4>1. QED  BY <2>2, <3>1, Least
      <3>3. m \in 0..Last /\ P[m] > n /\ m # 0
        BY <1>0, <3>2
      <3>4. m - 1 \in 0..Last /\ m - 1 \notin T /\ (m - 1) + 1 = m
        <4>1. m - 1 \in 0..Last /\ (m - 1) + 1 = m /\ ~(m <= m - 1)
          BY <1>0, <3>3
        <4> HIDE DEF T
        <4>2. QED  BY <3>2, <4>1
      <3>5. P[m - 1] \in Nat /\ ~(P[m - 1] > n)
        BY <1>0, <3>4
      <3>6. Fits(m - 1)
        BY <3>3, <3>4, <3>5
      <3>7. QED  BY <3>4, <3>6
    <2>3. QED  BY <2>1, <2>2
  <1>2. ASSUME NEW k \in 0..Last
        PROVE  Fits(k) <=>
                 /\ Stream!InOf(SubSeq(image.units, 1, k)) <= n
                 /\ k = Len(image.units) \/ Stream!InOf(SubSeq(image.units, 1, k + 1)) > n
    <2>1. Stream!InOf(SubSeq(image.units, 1, k)) = P[k]
      BY <1>0, Prefixes DEF P, Last
    <2>2. k # Last => Stream!InOf(SubSeq(image.units, 1, k + 1)) = P[k + 1]
      <3>1. k # Last => k + 1 \in 0..Last
        BY <1>0
      <3>2. QED  BY <1>0, <3>1, Prefixes DEF P, Last
    <2>3. QED  BY <2>1, <2>2 DEF Last
  <1>3. Stream!WholeUnits(n) = CHOOSE k \in 0..Last :
                 /\ Stream!InOf(SubSeq(image.units, 1, k)) <= n
                 /\ k = Len(image.units) \/ Stream!InOf(SubSeq(image.units, 1, k + 1)) > n
    BY DEF Stream!WholeUnits, Stream!Units, Last
  <1>4. PICK k \in 0..Last : Fits(k)
    BY <1>1
  <1>5. /\ Stream!WholeUnits(n) \in 0..Last
        /\ Stream!InOf(SubSeq(image.units, 1, Stream!WholeUnits(n))) <= n
        /\ \/ Stream!WholeUnits(n) = Len(image.units)
           \/ Stream!InOf(SubSeq(image.units, 1, Stream!WholeUnits(n) + 1)) > n
    <2> HIDE DEF Fits
    <2>1. QED  BY <1>2, <1>3, <1>4
  <1>6. QED  BY <1>2, <1>5

-----------------------------------------------------------------------------
(* The inductive invariant of the loop.                                    *)

\* The file and the buffer, and what was counted.
StreamTypes ==
    /\ image \in Images
    /\ loop \in {"info", "announce", "fill", "decode", "rewind", "true", "false"}
    /\ pass \in {"scan", "send"} /\ err \in {"more", "done", "bad"} /\ fail \in BOOLEAN
    /\ pos \in Nat /\ remaining \in Nat /\ pos + remaining = image.size /\ pos <= image.avail
    /\ in_buf \in Seq(Nat) /\ Len(in_buf) <= InBuf
    /\ off \in Nat /\ src \in Nat /\ off + src <= Len(in_buf)
    /\ fed \in Nat /\ given_out \in Nat /\ size \in Nat /\ sent \in Nat

\* What was read and not taken yet is in the buffer, and it is what comes next.
FedOK == fed + src = pos /\ Stream!InPlace

\* n bytes are a number of whole units.
Between(us, n) == \E k \in 0..Len(us) : Stream!InOf(SubSeq(us, 1, k)) = n

\* How far the decoder has come, and where the loop can be then.  One that uses
\* whole units only stands between two of them.
DecoderOK ==
    /\ fed <= Stream!FrameLen
    /\ err = "more" => fed < Stream!FrameLen
    /\ err = "done" => fed = Stream!FrameLen /\ given_out = Stream!Total
    /\ err = "bad" => loop = "false"
    /\ loop = "decode" => err = "more" /\ src > 0
    /\ loop \in {"info", "announce"} => err = "more" /\ fed = 0 /\ given_out = 0
    /\ image.lazy => Between(image.units, fed)

\* What the size is worth: the scan has seen the whole frame, else it is the frame's
\* own word.
CountOK ==
    /\ loop = "info" => pass = "scan"
    /\ loop \in {"announce", "true"} => pass = "send"
    /\ loop = "rewind" => pass = "scan"
    /\ loop \in {"rewind", "true"} => err = "done" \/ Stream!LoopOver
    /\ loop = "true" => Stream!SizeOk
    /\ pass = "scan" => sent = 0
    /\ pass = "scan" /\ loop # "false" => size = given_out /\ (loop # "info" => image.declared = 0)
    /\ pass = "send" =>
          /\ sent = given_out
          /\ IF image.declared = 0 THEN size = Stream!Total /\ Stream!FrameLen <= image.size
             ELSE size = image.declared

\* A sound frame is in a whole file, and only an exchange that fails ends its loop.
SoundOK == Stream!Sound(image) => ~fail /\ (~image.flash => loop # "false")

StreamInv == StreamTypes /\ FedOK /\ DecoderOK /\ CountOK /\ SoundOK

-----------------------------------------------------------------------------
(* Steps.                                                                  *)

\* Both passes begin between two units.
LEMMA Begins ==
    ASSUME Assumptions, image \in Images
    PROVE  /\ Between(image.units, 0) /\ 0 < Stream!FrameLen
           /\ Stream!FrameLen \in Nat /\ Stream!Total \in Nat
  <1>1. image.units \in Seq(Unit) /\ Last \in Nat /\ Last >= 1 /\ P[0] = 0
        /\ Stream!FrameLen = P[Last] /\ P[Last] \in Nat /\ Stream!Total \in Nat
    <2>1. Last \in 0..Last
      BY FrameFacts
    <2>2. QED  BY <2>1, FrameFacts
  <1>2. 0 \in 0..Len(image.units)
    BY <1>1 DEF Last
  <1>3. Stream!InOf(SubSeq(image.units, 1, 0)) = 0
    BY <1>1, <1>2, Prefixes DEF P, Last
  <1>4. 0 < P[Last]
    <2>1. 0 \in 0..Last /\ Last \in 0..Last
      BY <1>1
    <2>2. QED  BY <1>1, <2>1, Longer
  <1>5. QED  BY <1>1, <1>2, <1>3, <1>4 DEF Between

LEMMA StreamBegins ==
    ASSUME Assumptions, Stream!Init
    PROVE  StreamInv
  <1>1. image \in Images /\ image.size \in Nat /\ InBuf \in Nat /\ image.avail \in Nat
    BY FrameFacts DEF Stream!Init
  <1>2. StreamTypes
    <2>1. in_buf \in Seq(Nat) /\ Len(in_buf) = 0
      BY DEF Stream!Init
    <2>2. fail \in BOOLEAN
      BY DEF Stream!Init
    <2>3. /\ pos \in Nat /\ remaining \in Nat /\ pos + remaining = image.size /\ pos <= image.avail
          /\ off \in Nat /\ src \in Nat /\ off + src <= Len(in_buf) /\ Len(in_buf) <= InBuf
          /\ fed \in Nat /\ given_out \in Nat /\ size \in Nat /\ sent \in Nat
      BY <1>1, <2>1 DEF Stream!Init
    <2>4. loop = "info" /\ pass = "scan" /\ err = "more"
      BY DEF Stream!Init
    <2>5. QED  BY <1>1, <2>1, <2>2, <2>3, <2>4 DEF StreamTypes
  <1>3. FedOK
    BY DEF Stream!Init, FedOK, Stream!InPlace
  <1>4. DecoderOK
    BY <1>1, Begins DEF Stream!Init, DecoderOK
  <1>5. CountOK
    BY DEF Stream!Init, CountOK
  <1>6. SoundOK
    BY DEF Stream!Init, SoundOK
  <1>7. QED  BY <1>2, <1>3, <1>4, <1>5, <1>6 DEF StreamInv

\* A pass begins with an empty buffer at the start of the entry.
LEMMA PassBegins ==
    ASSUME Assumptions, StreamInv, NEW p \in {"scan", "send"}, Stream!StartPass(p),
           UNCHANGED <<image, in_buf>>, size' \in Nat, UNCHANGED sent,
           loop' \in {"fill", "announce"}
    PROVE  StreamTypes' /\ FedOK' /\ DecoderOK' /\ SoundOK'
  <1>1. image \in Images /\ image.size \in Nat /\ image.avail \in Nat
    BY FrameFacts DEF StreamInv, StreamTypes
  <1>2. StreamTypes'
    <2>1. in_buf \in Seq(Nat) /\ Len(in_buf) \in Nat
      BY DEF StreamInv, StreamTypes
    <2> HIDE DEF StreamInv
    <2>2. /\ Len(in_buf) <= InBuf /\ sent \in Nat
      BY DEF StreamInv, StreamTypes
    <2>3. fail' \in BOOLEAN
      BY DEF Stream!StartPass
    <2>4. /\ pos' = 0 /\ remaining' = image.size /\ off' = 0 /\ src' = 0 /\ fed' = 0
          /\ given_out' = 0 /\ sent' = sent /\ image' = image /\ in_buf' = in_buf
      BY DEF Stream!StartPass
    <2>5. /\ pos' \in Nat /\ remaining' \in Nat /\ pos' + remaining' = image'.size /\ pos' <= image'.avail
          /\ off' \in Nat /\ src' \in Nat /\ off' + src' <= Len(in_buf')
          /\ Len(in_buf') <= InBuf /\ in_buf' \in Seq(Nat)
          /\ fed' \in Nat /\ given_out' \in Nat /\ sent' \in Nat
      BY <1>1, <2>1, <2>2, <2>4
    <2>6. err' = "more" /\ pass' = p
      BY DEF Stream!StartPass
    <2>7. QED  BY <1>1, <2>3, <2>4, <2>5, <2>6 DEF StreamTypes
  <1>3. FedOK'
    BY DEF FedOK, Stream!InPlace, Stream!StartPass
  <1>4. DecoderOK'
    BY <1>1, Begins DEF DecoderOK, Stream!StartPass, Stream!FrameLen, Stream!Total, Stream!Units
  <1>5. SoundOK'
    BY DEF SoundOK, Stream!StartPass
  <1>6. QED  BY <1>2, <1>3, <1>4, <1>5

\* What is given up keeps what was said of the buffer and the decoder.
LEMMA StreamGivenUp ==
    ASSUME StreamInv, loop' = "false", UNCHANGED Stream!file, UNCHANGED Stream!buffers,
           UNCHANGED <<image, pass, remaining, fed, given_out, size, sent>>,
           err' \in {err, "bad"}, ~(Stream!Sound(image) /\ ~image.flash)
    PROVE  StreamInv'
  <1>1. StreamTypes'
    BY DEF StreamInv, StreamTypes, Stream!file, Stream!buffers
  <1>2. FedOK'
    BY DEF StreamInv, FedOK, Stream!InPlace, Stream!file, Stream!buffers
  <1>3. DecoderOK'
    BY DEF StreamInv, DecoderOK, Stream!FrameLen, Stream!Total, Stream!Units
  <1>4. CountOK'
    BY DEF StreamInv, CountOK, Stream!FrameLen, Stream!Total, Stream!Units
  <1>5. SoundOK'
    BY DEF StreamInv, SoundOK, Stream!file
  <1>6. QED  BY <1>1, <1>2, <1>3, <1>4, <1>5 DEF StreamInv

LEMMA FrameInfoStep ==
    ASSUME Assumptions, StreamInv, Stream!GetFrameInfo
    PROVE  StreamInv'
  <1>0. image \in Images
    BY DEF StreamInv, StreamTypes
  <1> DEFINE Short == \/ image.avail < Stream!Min2(HeaderMax, image.size)
                      \/ image.units[1].bad \/ image.units[1].in > Stream!Min2(HeaderMax, image.size)
  <1>1. CASE Short
    <2>1. /\ loop' = "false" /\ UNCHANGED Stream!file /\ UNCHANGED Stream!buffers
          /\ UNCHANGED <<image, pass, remaining, fed, given_out, size, sent>> /\ err' = err
      BY <1>1 DEF Stream!GetFrameInfo, Stream!Return, Stream!buffers, Stream!decoder, Stream!Units
    <2>2. ~Stream!Sound(image)
      <3> SUFFICES ASSUME Stream!Sound(image) PROVE FALSE
        OBVIOUS
      <3>1. /\ image.units \in Seq(Unit) /\ Last \in Nat /\ Last >= 1 /\ 1 \in 1..Last
            /\ HeaderMax \in Nat /\ image.size \in Nat /\ image.avail \in Nat
            /\ image.units[1].in \in Nat
            /\ P[1] = P[0] + image.units[1].in /\ P[0] = 0 /\ P[1] \in Nat /\ P[Last] \in Nat
            /\ Stream!InOf(image.units) = P[Last]
        <4>1. Last \in Nat /\ Last >= 1
          BY <1>0, FrameFacts
        <4>2. 0 \in 0..(Last - 1) /\ 1 \in 0..Last /\ Last \in 0..Last /\ 0 + 1 = 1 /\ 1 \in 1..Last
          BY <4>1
        <4>3. QED  BY <1>0, <4>1, <4>2, FrameFacts DEF Stream!FrameLen, Stream!Units
      <3>2. P[1] <= P[Last]
        <4>1. 1 \in 0..Last /\ Last \in 1..Last
          BY <3>1
        <4>2. QED  BY <1>0, <4>1, Longer
      <3>3. /\ ~image.units[1].bad /\ image.units[1].in <= HeaderMax
            /\ image.size >= P[Last] /\ image.avail >= image.size
        BY <3>1 DEF Stream!Sound, Last
      <3>4. image.units[1].in <= image.size /\ image.units[1].in \in Nat
        BY <3>1, <3>2, <3>3
      <3>5. QED  BY <1>1, <3>1, <3>3, <3>4 DEF Stream!Min2
    <2>3. QED  BY <2>1, <2>2, StreamGivenUp
  <1>2. CASE ~Short
    <2> DEFINE p == IF image.declared = 0 THEN "scan" ELSE "send"
    <2>1. /\ size' = image.declared /\ Stream!StartPass(p)
          /\ loop' = IF image.declared = 0 THEN "fill" ELSE "announce"
          /\ UNCHANGED <<image, in_buf, sent>> /\ loop = "info"
      BY <1>2 DEF Stream!GetFrameInfo, Stream!Units
    <2>2. image.declared \in Nat
      BY <1>0, FrameFacts
    <2>3. StreamTypes' /\ FedOK' /\ DecoderOK' /\ SoundOK'
      BY <2>1, <2>2, PassBegins
    <2>4. sent = 0
      BY <2>1 DEF StreamInv, CountOK
    <2>5. CountOK'
      BY <2>1, <2>2, <2>4 DEF CountOK, Stream!StartPass
    <2>6. QED  BY <2>3, <2>5 DEF StreamInv
  <1>3. QED  BY <1>1, <1>2

LEMMA AnnounceStep ==
    ASSUME Assumptions, StreamInv, Stream!Announce
    PROVE  StreamInv'
  <1>1. CASE image.flash /\ loop' = "false"
    <2>1. /\ UNCHANGED Stream!file /\ UNCHANGED Stream!buffers /\ err' = err
          /\ UNCHANGED <<image, pass, remaining, fed, given_out, size, sent>>
      BY DEF Stream!Announce, Stream!decoder
    <2>2. QED  BY <1>1, <2>1, StreamGivenUp
  <1>2. CASE loop' = "fill"
    <2>1. /\ loop = "announce" /\ UNCHANGED <<image, pass, pos, fail, remaining, in_buf, off, src>>
          /\ UNCHANGED <<fed, given_out, err, size, sent>>
      BY DEF Stream!Announce, Stream!decoder, Stream!file, Stream!buffers
    <2>2. StreamTypes' /\ FedOK'
      BY <1>2, <2>1 DEF StreamInv, StreamTypes, FedOK, Stream!InPlace
    <2>3. DecoderOK'
      BY <1>2, <2>1 DEF StreamInv, DecoderOK, Stream!FrameLen, Stream!Total, Stream!Units
    <2>4. CountOK'
      BY <1>2, <2>1 DEF StreamInv, CountOK, Stream!FrameLen, Stream!Total, Stream!Units
    <2>5. SoundOK'
      BY <1>2, <2>1 DEF StreamInv, SoundOK
    <2>6. QED  BY <2>2, <2>3, <2>4, <2>5 DEF StreamInv
  <1>3. QED  BY <1>1, <1>2 DEF Stream!Announce, Stream!Return

\* Behind an entry that holds the whole frame the frame is done.
LEMMA WholeFrameDone ==
    ASSUME Assumptions, StreamInv, Stream!LoopOver, loop # "false",
           Stream!FrameLen <= image.size
    PROVE  err = "done" /\ fed = Stream!FrameLen /\ given_out = Stream!Total
  <1>1. image \in Images /\ Stream!FrameLen \in Nat
    BY Begins DEF StreamInv, StreamTypes
  <1>2. fed = image.size
    BY DEF StreamInv, StreamTypes, FedOK, Stream!LoopOver
  <1>3. err # "more"
    BY <1>1, <1>2 DEF StreamInv, StreamTypes, DecoderOK
  <1>4. err # "bad"
    BY DEF StreamInv, DecoderOK
  <1>5. QED  BY <1>3, <1>4 DEF StreamInv, StreamTypes, DecoderOK

LEMMA SoundHolds ==
    ASSUME Stream!Sound(image)
    PROVE  /\ Stream!FrameLen <= image.size /\ image.size <= image.avail
           /\ image.declared \in {0, Stream!Total}
           /\ \A k \in 1..Last : ~image.units[k].bad /\ (image.lazy => image.units[k].in <= InBuf)
  BY DEF Stream!Sound, Stream!FrameLen, Stream!Total, Stream!Units, Last

LEMMA RewindStep ==
    ASSUME Assumptions, StreamInv, Stream!Rewind
    PROVE  StreamInv'
  <1>0. loop = "rewind" /\ image \in Images
    BY DEF Stream!Rewind, StreamInv, StreamTypes
  <1>1. CASE err # "done" \/ (remaining > 0 /\ fail)
    <2>1. /\ loop' = "false" /\ UNCHANGED Stream!file /\ UNCHANGED Stream!buffers /\ err' = err
          /\ UNCHANGED <<image, pass, remaining, fed, given_out, size, sent>>
      BY <1>1 DEF Stream!Rewind, Stream!Return, Stream!decoder, Stream!buffers
    <2>2. ~Stream!Sound(image)
      <3> SUFFICES ASSUME Stream!Sound(image) PROVE FALSE
        OBVIOUS
      <3>1. ~fail
        BY DEF StreamInv, SoundOK
      <3>2. err = "done" \/ Stream!LoopOver
        BY <1>0 DEF StreamInv, CountOK
      <3>3. err = "done"
        BY <1>0, <3>2, SoundHolds, WholeFrameDone
      <3>4. QED  BY <1>1, <3>1, <3>3
    <2>3. QED  BY <2>1, <2>2, StreamGivenUp
  <1>2. CASE ~(err # "done" \/ (remaining > 0 /\ fail))
    <2>1. /\ loop' = "announce" /\ Stream!StartPass("send") /\ err = "done"
          /\ UNCHANGED <<image, in_buf, size, sent>>
      BY <1>2 DEF Stream!Rewind
    <2>2. /\ pass = "scan" /\ sent = 0 /\ size = given_out /\ image.declared = 0
          /\ given_out = Stream!Total /\ fed = Stream!FrameLen /\ size \in Nat
      BY <1>0, <2>1 DEF StreamInv, StreamTypes, CountOK, DecoderOK
    <2>3. StreamTypes' /\ FedOK' /\ DecoderOK' /\ SoundOK'
      BY <2>1, <2>2, PassBegins
    <2>4. Stream!FrameLen <= image.size
      <3>1. image.size \in Nat
        BY <1>0, FrameFacts
      <3>2. QED  BY <2>2, <3>1 DEF StreamInv, StreamTypes, FedOK
    <2>5. CountOK'
      BY <2>1, <2>2, <2>4 DEF CountOK, Stream!StartPass, Stream!FrameLen, Stream!Total, Stream!Units
    <2>6. QED  BY <2>3, <2>5 DEF StreamInv
  <1>3. QED  BY <1>1, <1>2

\* A read puts what comes next behind what is kept.
LEMMA ReadStep ==
    ASSUME Assumptions, StreamInv, NEW kept \in Seq(Nat), NEW n \in Nat,
           Len(kept) = src, \A k \in 1..src : kept[k] = fed + k - 1,
           n <= remaining, src + n <= InBuf, Stream!ReadTo(kept, n),
           UNCHANGED <<image, pass, fed, given_out, err, size, sent>>,
           loop' \in {"fill", "decode"}
    PROVE  /\ StreamTypes' /\ FedOK' /\ src' = src + Stream!Got(n) /\ Stream!Got(n) \in Nat
           /\ Stream!Sound(image) => ~fail'
  <1> DEFINE g == Stream!Got(n)
             new == [k \in 1..g |-> pos + k - 1]
  <1>1. /\ image \in Images /\ image.size \in Nat /\ image.avail \in Nat /\ InBuf \in Nat
        /\ pos \in Nat /\ remaining \in Nat /\ pos + remaining = image.size /\ pos <= image.avail
        /\ off \in Nat /\ src \in Nat /\ fed \in Nat /\ given_out \in Nat /\ size \in Nat
        /\ sent \in Nat /\ fed + src = pos
        /\ pass \in {"scan", "send"} /\ err \in {"more", "done", "bad"}
    BY FrameFacts DEF StreamInv, StreamTypes, FedOK
  <1>2. g \in 0..n /\ g <= image.avail - pos
    BY <1>1 DEF Stream!Got, Stream!Min2
  <1>3. /\ in_buf' = kept \o new /\ pos' = pos + g /\ fail' = (g < n)
        /\ remaining' = remaining - g /\ src' = src + g /\ off' = 0
    BY DEF Stream!ReadTo
  <1> HIDE DEF g
  <1>4. new \in Seq(Nat) /\ Len(new) = g /\ \A k \in 1..g : new[k] = pos + k - 1
    BY <1>1, <1>2
  <1> HIDE DEF new
  <1>5. /\ in_buf' \in Seq(Nat) /\ Len(in_buf') = src + g
        /\ \A k \in 1..(src + g) : in_buf'[k] = IF k <= src THEN kept[k] ELSE new[k - src]
    <2>1. Len(kept) = src /\ kept \in Seq(Nat) /\ new \in Seq(Nat) /\ Len(new) = g
      BY <1>4
    <2>2. /\ (kept \o new) \in Seq(Nat) /\ Len(kept \o new) = Len(kept) + Len(new)
          /\ \A k \in 1..(Len(kept) + Len(new)) :
                (kept \o new)[k] = IF k <= Len(kept) THEN kept[k] ELSE new[k - Len(kept)]
      BY <2>1, ConcatProperties
    <2>3. QED  BY <1>3, <2>1, <2>2
  <1>6. \A k \in 1..(src + g) : in_buf'[k] = fed + k - 1
    <2> SUFFICES ASSUME NEW k \in 1..(src + g) PROVE in_buf'[k] = fed + k - 1
      OBVIOUS
    <2>1. CASE k <= src
      BY <1>1, <1>2, <1>5, <2>1
    <2>2. CASE ~(k <= src)
      <3>1. k - src \in 1..g
        BY <1>1, <1>2, <2>2
      <3>2. new[k - src] = pos + (k - src) - 1
        BY <1>4, <3>1
      <3>3. in_buf'[k] = new[k - src]
        BY <1>5, <2>2
      <3>4. k \in Int
        OBVIOUS
      <3>5. QED  BY <1>1, <2>2, <3>2, <3>3, <3>4
    <2>3. QED  BY <2>1, <2>2
  <1>7. fail' \in BOOLEAN
    BY <1>3
  <1>8. /\ pos' \in Nat /\ remaining' \in Nat /\ pos' + remaining' = image.size /\ pos' <= image.avail
        /\ Len(in_buf') <= InBuf /\ off' \in Nat /\ src' \in Nat /\ off' + src' <= Len(in_buf')
    BY <1>1, <1>2, <1>3, <1>5
  <1>9. StreamTypes'
    BY <1>1, <1>5, <1>7, <1>8 DEF StreamTypes
  <1>10. FedOK'
    <2>1. ASSUME NEW k \in 1..src' PROVE in_buf'[off' + k] = fed' + k - 1
      <3>1. k \in 1..(src + g) /\ off' + k = k /\ fed' = fed
        BY <1>1, <1>2, <1>3
      <3>2. QED  BY <1>6, <3>1
    <2>2. fed' + src' = pos'
      BY <1>1, <1>2, <1>3
    <2>3. QED  BY <2>1, <2>2 DEF FedOK, Stream!InPlace
  <1>11. ASSUME Stream!Sound(image) PROVE ~fail'
    <2>1. ~fail /\ image.size <= image.avail
      BY <1>11, SoundHolds DEF StreamInv, SoundOK
    <2>2. g = n
      BY <1>1, <2>1 DEF Stream!Got, Stream!Min2, g
    <2>3. ~(g < n)
      BY <2>2
    <2>4. QED  BY <1>3, <2>3
  <1>12. QED  BY <1>2, <1>3, <1>9, <1>10, <1>11 DEF g

\* A sound file gives what is asked for.
LEMMA SoundGives ==
    ASSUME Assumptions, StreamInv, Stream!Sound(image), NEW n \in Nat, n <= remaining
    PROVE  Stream!Got(n) = n
  <1>1. ~fail /\ image.size <= image.avail
    BY SoundHolds DEF StreamInv, SoundOK
  <1>2. /\ image.size \in Nat /\ image.avail \in Nat /\ pos \in Nat /\ remaining \in Nat
        /\ pos + remaining = image.size
    BY FrameFacts DEF StreamInv, StreamTypes
  <1>3. QED  BY <1>1, <1>2 DEF Stream!Got, Stream!Min2

\* Where the loop only reads, the rest is as it was.
LEMMA OnlyRead ==
    ASSUME StreamInv, StreamTypes', FedOK', src' > 0 \/ loop' = "fill",
           err = "more", loop \in {"fill", "decode"}, loop' = "decode",
           Stream!Sound(image) => ~fail',
           UNCHANGED <<image, pass, fed, given_out, err, size, sent>>
    PROVE  StreamInv'
  <1>1. DecoderOK'
    BY DEF StreamInv, DecoderOK, Stream!FrameLen, Stream!Total, Stream!Units
  <1>2. CountOK'
    BY DEF StreamInv, CountOK, Stream!FrameLen, Stream!Total, Stream!Units
  <1>3. SoundOK'
    BY DEF StreamInv, SoundOK
  <1>4. QED  BY <1>1, <1>2, <1>3 DEF StreamInv

LEMMA FillStep ==
    ASSUME Assumptions, StreamInv, Stream!Fill
    PROVE  StreamInv'
  <1>0. /\ loop = "fill" /\ err = "more" /\ ~Stream!LoopOver
        /\ UNCHANGED <<image, pass, fed, given_out, err, size, sent>>
    BY DEF Stream!Fill, Stream!decoder
  <1>1. image \in Images /\ src \in Nat /\ remaining \in Nat /\ InBuf \in Nat /\ InBuf > 0
    BY FrameFacts DEF StreamInv, StreamTypes
  <1> DEFINE n == Stream!Min2(InBuf, remaining)
  <1>2. n \in Nat /\ n <= remaining /\ n <= InBuf /\ (remaining # 0 => n > 0)
    BY <1>1 DEF Stream!Min2
  <1>3. CASE src > 0
    <2>1. loop' = "decode" /\ UNCHANGED <<pos, fail, remaining, in_buf, off, src>>
      BY <1>3 DEF Stream!Fill, Stream!file, Stream!buffers
    <2>2. StreamTypes' /\ FedOK'
      BY <1>0, <2>1 DEF StreamInv, StreamTypes, FedOK, Stream!InPlace
    <2>3. Stream!Sound(image) => ~fail'
      BY <2>1 DEF StreamInv, SoundOK
    <2>4. QED  BY <1>0, <1>3, <2>1, <2>2, <2>3, OnlyRead
  <1>4. CASE ~(src > 0) /\ Stream!Got(n) = 0
    <2>1. loop' = "false" /\ UNCHANGED Stream!file /\ UNCHANGED Stream!buffers /\ UNCHANGED remaining
      BY <1>4 DEF Stream!Fill, Stream!Return
    <2>2. ~Stream!Sound(image)
      <3>1. remaining # 0
        BY <1>0, <1>1, <1>4 DEF Stream!LoopOver
      <3> HIDE DEF n
      <3>2. QED  BY <1>2, <1>4, <3>1, SoundGives
    <2>3. QED  BY <1>0, <2>1, <2>2, StreamGivenUp
  <1>5. CASE ~(src > 0) /\ Stream!Got(n) # 0
    <2>1. loop' = "decode" /\ Stream!ReadTo(<<>>, n)
      BY <1>5 DEF Stream!Fill
    <2>2. src = 0 /\ <<>> \in Seq(Nat) /\ Len(<<>>) = src
      BY <1>1, <1>5
    <2> HIDE DEF n
    <2>3. /\ StreamTypes' /\ FedOK' /\ src' = src + Stream!Got(n) /\ Stream!Got(n) \in Nat
          /\ Stream!Sound(image) => ~fail'
      <3>1. \A k \in 1..src : <<>>[k] = fed + k - 1
        BY <2>2
      <3>2. src + n <= InBuf
        BY <1>1, <1>2, <2>2
      <3>3. QED  BY <1>0, <1>2, <2>1, <2>2, <3>1, <3>2, ReadStep
    <2>4. src' > 0
      BY <1>5, <2>2, <2>3
    <2>5. QED  BY <1>0, <2>1, <2>3, <2>4, OnlyRead
  <1>6. QED  BY <1>3, <1>4, <1>5

\* Where the decoder waits in a sound frame, the rest of the unit is in the file and
\* has room in the buffer.
LEMMA NotStuck ==
    ASSUME Assumptions, StreamInv, Stream!Sound(image), loop = "decode", Stream!MayWait
    PROVE  ~Stream!Stuck
  <1>0. /\ image \in Images /\ src \in Nat /\ fed \in Nat /\ remaining \in Nat /\ pos \in Nat
        /\ InBuf \in Nat /\ fed + src = pos /\ pos + remaining = image.size /\ image.size \in Nat
    BY FrameFacts DEF StreamInv, StreamTypes, FedOK
  <1>1. /\ image.units \in Seq(Unit) /\ Last \in Nat /\ Last >= 1 /\ Stream!FrameLen = P[Last]
        /\ \A k \in 0..Last : P[k] \in Nat
        /\ \A k \in 0..(Last - 1) : P[k + 1] = P[k] + image.units[k + 1].in
        /\ \A k \in 1..Last : image.units[k].in \in Nat
    BY <1>0, FrameFacts
  <1>2. fed < P[Last] /\ image.lazy
    BY <1>1 DEF StreamInv, DecoderOK, Stream!MayWait
  <1>3. PICK j \in 0..Last : P[j] = fed
    <2>1. PICK k \in 0..Len(image.units) : Stream!InOf(SubSeq(image.units, 1, k)) = fed
      BY <1>2 DEF StreamInv, DecoderOK, Between
    <2>2. QED  BY <1>1, <2>1, Prefixes DEF P, Last
  <1> DEFINE w == Stream!WholeUnits(fed)
  <1>4. /\ w \in 0..Last /\ P[w] <= fed /\ (w = Last \/ P[w + 1] > fed)
        /\ w = Last \/ P[w + 1] > fed + src
    <2>1. fed + src \in Nat /\ Stream!WholeUnits(fed + src) = w
      BY <1>0 DEF Stream!MayWait
    <2>2. /\ w \in 0..Last /\ P[w] <= fed /\ (w = Last \/ P[w + 1] > fed)
      BY <1>0, WholeIs
    <2>3. w = Last \/ P[w + 1] > fed + src
      <3> HIDE DEF w
      <3>1. Stream!WholeUnits(fed + src) = Last \/ P[Stream!WholeUnits(fed + src) + 1] > fed + src
        BY <1>0, <2>1, WholeIs
      <3>2. QED  BY <2>1, <3>1
    <2>4. QED  BY <2>2, <2>3
  <1> HIDE DEF w
  <1>5. w = j /\ w < Last
    <2>1. ~(j < w)
      <3> SUFFICES ASSUME j < w PROVE FALSE
        OBVIOUS
      <3>1. P[j] < P[w]
        <4>1. w \in j..Last
          BY <1>1, <1>4
        <4>2. QED  BY <1>0, <4>1, Longer
      <3>2. P[w] \in Nat
        BY <1>1, <1>4
      <3>3. QED  BY <1>0, <1>3, <1>4, <3>1, <3>2
    <2>2. ~(w < j)
      <3> SUFFICES ASSUME w < j PROVE FALSE
        OBVIOUS
      <3>1. w # Last /\ w + 1 \in 0..Last /\ j \in (w + 1)..Last
        BY <1>1, <1>4
      <3>2. P[w + 1] <= P[j] /\ P[w + 1] \in Nat
        BY <1>0, <1>1, <3>1, Longer
      <3>3. QED  BY <1>0, <1>3, <1>4, <3>1, <3>2
    <2>3. j # Last
      BY <1>0, <1>2, <1>3
    <2>4. QED  BY <1>1, <1>4, <2>1, <2>2, <2>3
  <1>6. w + 1 \in 1..Last /\ w \in 0..(Last - 1) /\ w + 1 \in 0..Last /\ Last \in (w + 1)..Last
    BY <1>1, <1>4, <1>5
  <1>7. P[w + 1] > fed + src /\ P[w + 1] = fed + image.units[w + 1].in /\ P[w + 1] <= P[Last]
    BY <1>0, <1>1, <1>3, <1>4, <1>5, <1>6, Longer
  <1>8. image.units[w + 1].in <= InBuf /\ image.units[w + 1].in \in Nat
    BY <1>1, <1>2, <1>6, SoundHolds
  <1>9. src < InBuf
    BY <1>0, <1>7, <1>8
  <1>10. remaining # 0
    <2>1. P[Last] <= image.size
      BY <1>1, SoundHolds
    <2>2. P[Last] \in Nat /\ P[w + 1] \in Nat
      BY <1>1, <1>6
    <2>3. QED  BY <1>0, <1>7, <2>1, <2>2
  <1>11. Stream!Space \in Nat /\ Stream!Space <= remaining /\ Stream!Space # 0
    BY <1>0, <1>9, <1>10 DEF Stream!Space, Stream!Min2
  <1>12. Stream!Got(Stream!Space) = Stream!Space
    BY <1>11, SoundGives
  <1>13. QED  BY <1>10, <1>11, <1>12 DEF Stream!Stuck

\* What is kept is what was read and not taken.
LEMMA KeptIs ==
    ASSUME StreamInv
    PROVE  /\ Stream!Kept \in Seq(Nat) /\ Len(Stream!Kept) = src
           /\ \A k \in 1..src : Stream!Kept[k] = fed + k - 1
  <1>1. /\ in_buf \in Seq(Nat) /\ off \in Nat /\ src \in Nat /\ off + src <= Len(in_buf)
        /\ \A k \in 1..src : in_buf[off + k] = fed + k - 1
    BY DEF StreamInv, StreamTypes, FedOK, Stream!InPlace
  <1>2. Len(in_buf) \in Nat
    BY <1>1
  <1>3. Stream!Kept \in Seq(Nat)
    BY <1>1, <1>2 DEF Stream!Kept
  <1>4. Len(Stream!Kept) = src
    BY <1>1, <1>2 DEF Stream!Kept
  <1>5. ASSUME NEW k \in 1..src PROVE Stream!Kept[k] = in_buf[off + k]
    <2>1. off + 1 \in 1..(Len(in_buf) + 1) /\ off + src \in 0..Len(in_buf)
          /\ k \in 1..((off + src) - (off + 1) + 1) /\ (off + 1) + k - 1 = off + k
      BY <1>1, <1>2
    <2>2. QED  BY <1>1, <2>1 DEF Stream!Kept
  <1>6. QED  BY <1>1, <1>3, <1>4, <1>5

LEMMA WaitStep ==
    ASSUME Assumptions, StreamInv, Stream!Wait
    PROVE  StreamInv'
  <1>0. /\ loop = "decode" /\ src > 0 /\ Stream!MayWait /\ Stream!Refill /\ err = "more"
        /\ UNCHANGED <<image, pass, fed, given_out, err, size, sent>>
    BY DEF Stream!Wait, Stream!Refill, Stream!decoder, StreamInv, DecoderOK
  <1>1. CASE Stream!Stuck
    <2>1. loop' = "false" /\ UNCHANGED Stream!file /\ UNCHANGED Stream!buffers /\ UNCHANGED remaining
      BY <1>0, <1>1 DEF Stream!Refill, Stream!Return
    <2>2. ~Stream!Sound(image)
      BY <1>0, <1>1, NotStuck
    <2>3. QED  BY <1>0, <2>1, <2>2, StreamGivenUp
  <1>2. CASE ~Stream!Stuck
    <2>1. Stream!ReadTo(Stream!Kept, Stream!Space) /\ loop' = loop
      BY <1>0, <1>2 DEF Stream!Refill
    <2>2. /\ src \in Nat /\ src <= InBuf /\ InBuf \in Nat /\ remaining \in Nat
      <3>1. image \in Images /\ InBuf \in Nat
        BY FrameFacts DEF StreamInv, StreamTypes
      <3>2. in_buf \in Seq(Nat) /\ off \in Nat /\ src \in Nat /\ off + src <= Len(in_buf)
            /\ Len(in_buf) <= InBuf /\ remaining \in Nat
        BY DEF StreamInv, StreamTypes
      <3>3. Len(in_buf) \in Nat
        BY <3>2
      <3>4. QED  BY <3>1, <3>2, <3>3
    <2>3. Stream!Space \in Nat /\ Stream!Space <= remaining /\ src + Stream!Space <= InBuf
      BY <2>2 DEF Stream!Space, Stream!Min2
    <2>4. /\ StreamTypes' /\ FedOK' /\ src' = src + Stream!Got(Stream!Space)
          /\ Stream!Got(Stream!Space) \in Nat /\ (Stream!Sound(image) => ~fail')
      BY <1>0, <2>1, <2>3, KeptIs, ReadStep
    <2>5. src' > 0
      BY <1>0, <2>2, <2>4
    <2>6. QED  BY <1>0, <2>1, <2>4, <2>5, OnlyRead
  <1>3. QED  BY <1>1, <1>2

LEMMA DecodeErrorStep ==
    ASSUME Assumptions, StreamInv, Stream!DecodeError
    PROVE  StreamInv'
  <1>1. /\ loop' = "false" /\ UNCHANGED Stream!file /\ UNCHANGED Stream!buffers /\ err' = "bad"
        /\ UNCHANGED <<image, pass, remaining, fed, given_out, size, sent>>
    BY DEF Stream!DecodeError, Stream!Return
  <1>2. ~Stream!Sound(image)
    <2> SUFFICES ASSUME Stream!Sound(image) PROVE FALSE
      OBVIOUS
    <2>1. Stream!InPlace
      BY DEF StreamInv, FedOK
    <2>2. PICK k \in 1..Stream!WholeUnits(fed + src) : image.units[k].bad
      BY <2>1 DEF Stream!DecodeError, Stream!Spoiled, Stream!Units
    <2>3. image \in Images /\ fed + src \in Nat
      BY DEF StreamInv, StreamTypes
    <2>4. Stream!WholeUnits(fed + src) \in 0..Last /\ Last \in Nat
      BY <2>3, WholeIs, FrameFacts
    <2>5. k \in 1..Last
      BY <2>4
    <2>6. QED  BY <2>2, <2>5, SoundHolds
  <1>3. QED  BY <1>1, <1>2, StreamGivenUp

LEMMA DecodeStep ==
    ASSUME Assumptions, StreamInv, Stream!Decode
    PROVE  StreamInv'
  <1>1. PICK take \in 0..src, give \in 0..OutBuf :
          /\ Stream!MayDo(take, give)
          /\ fed' = fed + take /\ given_out' = given_out + give
          /\ err' = IF fed + take = Stream!FrameLen THEN "done" ELSE "more"
          /\ off' = off + take /\ src' = src - take
          /\ Stream!Deliver(give)
          /\ \/ loop' = Stream!After(take)
             \/ image.flash /\ pass = "send" /\ loop' = "false"
    BY DEF Stream!Decode, Stream!Return
  <1>2. /\ loop = "decode" /\ Stream!InPlace /\ err = "more" /\ src > 0
        /\ UNCHANGED <<image, pass, pos, fail, remaining, in_buf>>
    BY DEF Stream!Decode, Stream!file, StreamInv, DecoderOK
  <1>3. /\ image \in Images /\ src \in Nat /\ off \in Nat /\ fed \in Nat /\ given_out \in Nat
        /\ size \in Nat /\ sent \in Nat /\ take \in Nat /\ take <= src /\ give \in Nat /\ pos \in Nat
        /\ fed + src = pos /\ Stream!FrameLen \in Nat /\ Stream!Total \in Nat
    BY FrameFacts, Begins DEF StreamInv, StreamTypes, FedOK
  <1>4. /\ fed + take <= Stream!FrameLen
        /\ fed + take = Stream!FrameLen => given_out + give = Stream!Total
        /\ image.lazy => Between(image.units, fed + take)
    <2>1. fed + take <= Stream!FrameLen /\ (fed + take = Stream!FrameLen => given_out + give = Stream!Total)
      BY <1>1 DEF Stream!MayDo
    <2>2. ASSUME image.lazy PROVE Between(image.units, fed + take)
      <3>1. fed + take \in Nat /\ Stream!WholeUnits(fed + take) \in 0..Last
        BY <1>3, WholeIs
      <3>2. Stream!InOf(SubSeq(image.units, 1, Stream!WholeUnits(fed + take))) = fed + take
        BY <1>1, <2>2 DEF Stream!MayDo, Stream!Units
      <3>3. QED  BY <3>1, <3>2 DEF Between, Last
    <2>3. QED  BY <2>1, <2>2
  <1>5. \/ pass = "scan" /\ size' = size + give /\ sent' = sent
        \/ pass = "send" /\ sent' = sent + give /\ size' = size
    BY <1>1 DEF Stream!Deliver, StreamInv, StreamTypes
  <1>6. \/ loop' = "fill"
        \/ loop' = "decode" /\ src # take /\ err' = "more"
        \/ image.flash /\ pass = "send" /\ loop' = "false"
    BY <1>1 DEF Stream!After
  <1>7. StreamTypes'
    <2>1. in_buf \in Seq(Nat) /\ Len(in_buf) \in Nat /\ off + src <= Len(in_buf)
      BY DEF StreamInv, StreamTypes
    <2>2. fail' \in BOOLEAN
      BY <1>2 DEF StreamInv, StreamTypes
    <2>3. err' \in {"more", "done", "bad"} /\ loop' \in {"fill", "decode", "false"}
      BY <1>1, <1>6
    <2>4. /\ off' \in Nat /\ src' \in Nat /\ off' + src' <= Len(in_buf)
          /\ fed' \in Nat /\ given_out' \in Nat /\ size' \in Nat /\ sent' \in Nat
      BY <1>1, <1>3, <1>5, <2>1
    <2>5. /\ remaining \in Nat /\ pos + remaining = image.size /\ pos <= image.avail
          /\ Len(in_buf) <= InBuf /\ pass \in {"scan", "send"}
      BY DEF StreamInv, StreamTypes
    <2>6. QED  BY <1>2, <1>3, <2>1, <2>2, <2>3, <2>4, <2>5 DEF StreamTypes
  <1>8. FedOK'
    <2>1. fed' + src' = pos'
      BY <1>1, <1>2, <1>3
    <2>2. ASSUME NEW k \in 1..src' PROVE in_buf[off' + k] = fed' + k - 1
      <3>1. take + k \in 1..src /\ off' + k = off + (take + k) /\ fed' + k - 1 = fed + (take + k) - 1
        BY <1>1, <1>3
      <3>2. in_buf[off + (take + k)] = fed + (take + k) - 1
        BY <1>2, <3>1 DEF Stream!InPlace
      <3>3. QED  BY <3>1, <3>2
    <2>3. QED  BY <1>2, <2>1, <2>2 DEF FedOK, Stream!InPlace
  <1>9. DecoderOK'
    <2>1. src' > 0 \/ loop' # "decode"
      BY <1>1, <1>3, <1>6
    <2>2. fed' <= Stream!FrameLen /\ (err' = "more" => fed' < Stream!FrameLen)
          /\ (err' = "done" => fed' = Stream!FrameLen /\ given_out' = Stream!Total)
          /\ err' # "bad"
      BY <1>1, <1>3, <1>4
    <2>3. image.lazy => Between(image.units, fed')
      BY <1>1, <1>4
    <2>4. Stream!FrameLen' = Stream!FrameLen /\ Stream!Total' = Stream!Total
      BY <1>2 DEF Stream!FrameLen, Stream!Total, Stream!Units
    <2>5. image' = image
      BY <1>2
    <2>6. loop' = "decode" => err' = "more"
      BY <1>6
    <2>7. loop' \notin {"info", "announce"}
      BY <1>6
    <2>8. QED  BY <2>1, <2>2, <2>3, <2>4, <2>5, <2>6, <2>7 DEF DecoderOK
  <1>10. CountOK'
    <2>1. loop' \notin {"info", "announce", "rewind", "true"}
      BY <1>6
    <2>2. Stream!FrameLen' = Stream!FrameLen /\ Stream!Total' = Stream!Total /\ image' = image
      BY <1>2 DEF Stream!FrameLen, Stream!Total, Stream!Units
    <2>3. CASE pass = "scan"
      <3>1. sent = 0 /\ size = given_out /\ image.declared = 0
        BY <1>2, <2>3 DEF StreamInv, CountOK
      <3>2. pass' = "scan" /\ sent' = 0 /\ size' = given_out'
        BY <1>1, <1>2, <1>5, <2>3, <3>1
      <3>3. QED  BY <2>1, <2>2, <3>1, <3>2 DEF CountOK
    <2>4. CASE pass = "send"
      <3>1. sent = given_out /\ (IF image.declared = 0 THEN size = Stream!Total /\ Stream!FrameLen <= image.size
                                 ELSE size = image.declared)
        BY <2>4 DEF StreamInv, CountOK
      <3>2. pass' = "send" /\ sent' = given_out' /\ size' = size
        BY <1>1, <1>2, <1>5, <2>4, <3>1
      <3>3. QED  BY <2>1, <2>2, <3>1, <3>2 DEF CountOK
    <2>5. QED  BY <2>3, <2>4 DEF StreamInv, StreamTypes
  <1>11. SoundOK'
    BY <1>2, <1>6 DEF StreamInv, SoundOK
  <1>12. QED  BY <1>7, <1>8, <1>9, <1>10, <1>11 DEF StreamInv

LEMMA LoopEndsStep ==
    ASSUME Assumptions, StreamInv, Stream!LoopEnds
    PROVE  StreamInv'
  <1>0. /\ loop = "fill" /\ (err = "done" \/ Stream!LoopOver)
        /\ loop' = IF pass = "scan" THEN "rewind" ELSE IF Stream!SizeOk THEN "true" ELSE "false"
        /\ UNCHANGED <<image, pass, pos, fail, remaining, in_buf, off, src, fed, given_out, err, size, sent>>
    BY DEF Stream!LoopEnds, Stream!file, Stream!buffers, Stream!decoder
  <1>1. image \in Images /\ pass \in {"scan", "send"} /\ Stream!Total \in Nat
    BY Begins DEF StreamInv, StreamTypes
  <1>2. StreamTypes' /\ FedOK'
    BY <1>0 DEF StreamInv, StreamTypes, FedOK, Stream!InPlace
  <1>3. DecoderOK'
    BY <1>0, <1>1 DEF StreamInv, DecoderOK, Stream!FrameLen, Stream!Total, Stream!Units
  <1>4. CountOK'
    BY <1>0, <1>1 DEF StreamInv, CountOK, Stream!FrameLen, Stream!Total, Stream!Units, Stream!LoopOver, Stream!SizeOk
  <1>5. SoundOK'
    <2>1. CASE loop' # "false"
      BY <1>0, <2>1 DEF StreamInv, SoundOK
    <2>2. CASE loop' = "false"
      <3>1. pass = "send" /\ ~Stream!SizeOk
        BY <1>0, <1>1, <2>2
      <3>2. ASSUME Stream!Sound(image) PROVE FALSE
        <4>1. given_out = Stream!Total
          <5>1. CASE err = "done"
            BY <5>1 DEF StreamInv, DecoderOK
          <5>2. CASE Stream!LoopOver
            BY <1>0, <3>2, <5>2, SoundHolds, WholeFrameDone
          <5>3. QED  BY <1>0, <5>1, <5>2
        <4>2. sent = Stream!Total /\ size = Stream!Total
          BY <3>1, <3>2, <4>1, SoundHolds DEF StreamInv, CountOK
        <4>3. QED  BY <3>1, <4>2 DEF Stream!SizeOk
      <3>3. QED  BY <1>0, <3>2 DEF SoundOK
    <2>3. QED  BY <2>1, <2>2
  <1>6. QED  BY <1>2, <1>3, <1>4, <1>5 DEF StreamInv

LEMMA StreamStep ==
    ASSUME Assumptions, StreamInv, [Stream!Next]_(Stream!vars)
    PROVE  StreamInv'
  <1>1. CASE UNCHANGED Stream!vars
    <2>1. UNCHANGED <<image, loop, pass, pos, fail, remaining, in_buf, off, src, fed, given_out, err, size, sent>>
      BY <1>1 DEF Stream!vars
    <2>2. StreamTypes' /\ FedOK'
      BY <2>1 DEF StreamInv, StreamTypes, FedOK, Stream!InPlace
    <2>3. DecoderOK'
      BY <2>1 DEF StreamInv, DecoderOK, Stream!FrameLen, Stream!Total, Stream!Units
    <2>4. CountOK'
      BY <2>1 DEF StreamInv, CountOK, Stream!FrameLen, Stream!Total, Stream!Units, Stream!LoopOver, Stream!SizeOk
    <2>5. SoundOK'
      BY <2>1 DEF StreamInv, SoundOK
    <2>6. QED  BY <2>2, <2>3, <2>4, <2>5 DEF StreamInv
  <1>2. CASE Stream!Next
    BY <1>2, FrameInfoStep, AnnounceStep, RewindStep, FillStep, WaitStep, DecodeErrorStep,
       DecodeStep, LoopEndsStep DEF Stream!Next
  <1>3. QED  BY <1>1, <1>2

\* A run is one of the parts; the others stand still.
LEMMA PartSteps ==
    ASSUME [Next]_all
    PROVE  [Stream!Next]_(Stream!vars)
  BY DEF Next, StreamNext, FrameTurn, BlockNext, HashNext, all, stream_vars, Stream!vars

LEMMA StreamInvariant ==
    ASSUME Assumptions
    PROVE  Spec => []StreamInv
  <1>1. Init => StreamInv
    BY StreamBegins DEF Init
  <1>2. StreamInv /\ [Stream!Next]_(Stream!vars) => StreamInv'
    BY StreamStep
  <1>3. QED  BY <1>1, <1>2, PartSteps, PTL DEF Spec

\* The decoder gets every byte of an entry once and in order and none behind it,
\* through every move and refill of the buffer; true means that what was sent is the
\* size announced, and the whole image unless the frame is cut and has said its size
\* itself; and a sound frame is taken, unless an exchange fails.
THEOREM StreamsAreExact ==
    ASSUME Stream!SizesAssumption, Stream!ImagesAssumption
    PROVE  Spec => []StreamExact
  <1>0. Assumptions
    BY DEF Assumptions
  <1>1. StreamInv => StreamExact
    <2> SUFFICES ASSUME StreamInv PROVE StreamExact
      OBVIOUS
    <2>0. /\ image \in Images /\ image.size \in Nat /\ InBuf \in Nat /\ Stream!Total \in Nat
          /\ Stream!FrameLen \in Nat
      BY <1>0, FrameFacts, Begins DEF StreamInv, StreamTypes
    <2>1. Stream!TypeOK
      <3>1. in_buf \in Seq(Nat) /\ Len(in_buf) \in Nat /\ off + src <= Len(in_buf)
        BY DEF StreamInv, StreamTypes
      <3>2. /\ loop \in {"info", "announce", "fill", "decode", "rewind", "true", "false"}
            /\ pass \in {"scan", "send"} /\ err \in {"more", "done", "bad"}
            /\ pos \in Nat /\ remaining \in Nat /\ pos + remaining = image.size
            /\ Len(in_buf) <= InBuf /\ off \in Nat /\ src \in Nat
        BY DEF StreamInv, StreamTypes
      <3>3. pos \in 0..image.size /\ remaining \in 0..image.size /\ off + src <= InBuf /\ src >= 0
        BY <2>0, <3>1, <3>2
      <3>4. QED  BY <3>2, <3>3 DEF Stream!TypeOK
    <2>2. Stream!FedInOrder
      BY DEF StreamInv, FedOK, Stream!FedInOrder
    <2>3. Stream!InsideEntry
      BY <2>0 DEF StreamInv, StreamTypes, Stream!InsideEntry
    <2>4. Stream!WholeImageSent
      <3> SUFFICES ASSUME loop = "true"
                   PROVE  /\ sent = size \/ size = 0
                          /\ sent = Stream!Total \/ (image.declared # 0 /\ image.size < Stream!FrameLen)
        BY DEF Stream!WholeImageSent
      <3>1. pass = "send" /\ sent = given_out /\ Stream!SizeOk /\ (err = "done" \/ Stream!LoopOver)
        BY DEF StreamInv, CountOK
      <3>2. CASE err = "done"
        BY <3>1, <3>2 DEF StreamInv, DecoderOK, Stream!SizeOk
      <3>3. CASE Stream!LoopOver /\ Stream!FrameLen <= image.size
        BY <1>0, <3>1, <3>3, WholeFrameDone DEF Stream!SizeOk
      <3>4. CASE ~(Stream!FrameLen <= image.size)
        BY <2>0, <3>1, <3>4 DEF StreamInv, CountOK, Stream!SizeOk
      <3>5. QED  BY <3>1, <3>2, <3>3, <3>4
    <2>5. Stream!SoundAccepted
      BY DEF StreamInv, SoundOK, Stream!SoundAccepted
    <2>6. QED  BY <2>1, <2>2, <2>3, <2>4, <2>5 DEF StreamExact
  <1>2. QED  BY <1>0, <1>1, StreamInvariant, PTL

-----------------------------------------------------------------------------
(* The hash.                                                               *)

\* What goes into the four lanes of the hash.
Lanes == [1..4 -> Seq(Seq(Int))]

LEMMA BytesAre ==
    ASSUME NEW p \in Int, NEW n \in Nat
    PROVE  /\ Xxh!Bytes(p, n) \in Seq(Int) /\ Len(Xxh!Bytes(p, n)) = n
           /\ \A k \in 1..n : Xxh!Bytes(p, n)[k] = p + k - 1
  <1>1. \A k \in 1..n : Xxh!Bytes(p, n)[k] = p + k - 1
    BY DEF Xxh!Bytes
  <1>2. Xxh!Bytes(p, n) \in [1..n -> Int]
    BY DEF Xxh!Bytes
  <1>3. QED  BY <1>1, <1>2

LEMMA RoundMixes ==
    ASSUME NEW v \in Lanes, NEW p \in Int
    PROVE  Xxh!Round(v, Xxh!Bytes(p, 16)) \in Lanes
  <1> DEFINE s == Xxh!Bytes(p, 16)
  <1>1. \A k \in 1..16 : s[k] \in Int
    <2>1. 16 \in Nat
      OBVIOUS
    <2>2. \A k \in 1..16 : s[k] = p + k - 1
      BY <2>1, BytesAre
    <2>3. QED  BY <2>2
  <1>2. ASSUME NEW i \in 1..4 PROVE Append(v[i], SubSeq(s, 4 * i - 3, 4 * i)) \in Seq(Seq(Int))
    <2>1. \A k \in (4 * i - 3)..(4 * i) : s[k] \in Int
      BY <1>1
    <2>2. SubSeq(s, 4 * i - 3, 4 * i) \in Seq(Int)
      <3> HIDE DEF s
      <3>1. QED  BY <2>1, SubSeqProperties
    <2>3. v[i] \in Seq(Seq(Int))
      BY DEF Lanes
    <2> HIDE DEF s
    <2>4. QED  BY <2>2, <2>3
  <1> HIDE DEF s
  <1>3. [i \in 1..4 |-> Append(v[i], SubSeq(s, 4 * i - 3, 4 * i))] \in [1..4 -> Seq(Seq(Int))]
    BY <1>2
  <1>4. QED  BY <1>3 DEF Xxh!Round, Lanes, s

\* The lanes after each of n stripes.
After(v, p, n) ==
    LET after[k \in 0..n] ==
        IF k = 0 THEN v ELSE Xxh!Round(after[k - 1], Xxh!Bytes(p + 16 * (k - 1), 16))
    IN  after

LEMMA AfterIs ==
    ASSUME NEW v \in Lanes, NEW p \in Int, NEW n \in Nat
    PROVE  /\ After(v, p, n) = [k \in 0..n |->
                IF k = 0 THEN v
                ELSE Xxh!Round(After(v, p, n)[k - 1], Xxh!Bytes(p + 16 * (k - 1), 16))]
           /\ Xxh!Stripes(v, p, n) = After(v, p, n)[n]
  <1> DEFINE G == [x \in (1..n) \X Lanes |-> Xxh!Round(x[2], Xxh!Bytes(p + 16 * (x[1] - 1), 16))]
  <1>1. G \in [(1..n) \X Lanes -> Lanes]
    <2>1. ASSUME NEW x \in (1..n) \X Lanes
          PROVE  Xxh!Round(x[2], Xxh!Bytes(p + 16 * (x[1] - 1), 16)) \in Lanes
      <3>1. x[2] \in Lanes /\ p + 16 * (x[1] - 1) \in Int
        OBVIOUS
      <3>2. QED  BY <3>1, RoundMixes
    <2>2. QED  BY <2>1
  <1>2. PICK f : Follows(f, n, Lanes, v, G)
    <2> HIDE DEF G
    <2>1. QED  BY <1>1, Recursion
  <1>3. f \in [0..n -> Lanes] /\ f[0] = v /\ \A k \in 1..n : f[k] = G[<<k, f[k - 1]>>]
    BY <1>2 DEF Follows
  <1>4. ASSUME NEW k \in 1..n
        PROVE  f[k] = Xxh!Round(f[k - 1], Xxh!Bytes(p + 16 * (k - 1), 16))
    <2>1. f[k - 1] \in Lanes
      BY <1>3
    <2>2. f[k] = G[<<k, f[k - 1]>>] /\ <<k, f[k - 1]>> \in (1..n) \X Lanes
      BY <1>3, <2>1
    <2>3. QED  BY <2>2
  <1>5. f = [k \in 0..n |-> IF k = 0 THEN v
                            ELSE Xxh!Round(f[k - 1], Xxh!Bytes(p + 16 * (k - 1), 16))]
    <2>1. \A k \in 0..n : f[k] = IF k = 0 THEN v
                                 ELSE Xxh!Round(f[k - 1], Xxh!Bytes(p + 16 * (k - 1), 16))
      <3>1. \A k \in 0..n : k # 0 => k \in 1..n
        OBVIOUS
      <3> HIDE DEF G
      <3>2. QED  BY <1>3, <1>4, <3>1
    <2>2. QED  BY <1>3, <2>1
  <1>6. After(v, p, n) = [k \in 0..n |->
            IF k = 0 THEN v ELSE Xxh!Round(After(v, p, n)[k - 1], Xxh!Bytes(p + 16 * (k - 1), 16))]
    BY <1>5 DEF After
  <1>7. Xxh!Stripes(v, p, n) = After(v, p, n)[n]
    BY DEF Xxh!Stripes, After
  <1>8. QED  BY <1>6, <1>7

LEMMA AfterFollows ==
    ASSUME NEW v \in Lanes, NEW p \in Int, NEW n \in Nat
    PROVE  /\ After(v, p, n)[0] = v
           /\ \A k \in 1..n : After(v, p, n)[k] =
                Xxh!Round(After(v, p, n)[k - 1], Xxh!Bytes(p + 16 * (k - 1), 16))
  <1> DEFINE g == After(v, p, n)
  <1>1. g = [k \in 0..n |-> IF k = 0 THEN v
                            ELSE Xxh!Round(g[k - 1], Xxh!Bytes(p + 16 * (k - 1), 16))]
    BY AfterIs
  <1> HIDE DEF g
  <1>2. 0 \in 0..n /\ \A k \in 1..n : k \in 0..n /\ k # 0
    OBVIOUS
  <1>3. g[0] = v
    BY <1>1, <1>2
  <1>4. \A k \in 1..n : g[k] = Xxh!Round(g[k - 1], Xxh!Bytes(p + 16 * (k - 1), 16))
    BY <1>1, <1>2
  <1>5. QED  BY <1>3, <1>4 DEF g

LEMMA AfterAgree ==
    ASSUME NEW v \in Lanes, NEW p \in Int, NEW n \in Nat, NEW m \in Nat, NEW k \in Nat, k <= n, k <= m
    PROVE  After(v, p, n)[k] = After(v, p, m)[k]
  <1> DEFINE f == After(v, p, n)
             g == After(v, p, m)
             T == {j \in Nat : j <= k => f[j] = g[j]}
  <1>1. 0 \in T
    BY AfterFollows
  <1>2. ASSUME NEW j \in Nat, j \in T PROVE j + 1 \in T
    <2> SUFFICES ASSUME j + 1 <= k PROVE f[j + 1] = g[j + 1]
      OBVIOUS
    <2>1. f[j] = g[j] /\ j + 1 \in 1..n /\ j + 1 \in 1..m /\ (j + 1) - 1 = j
      BY <1>2
    <2>2. /\ f[j + 1] = Xxh!Round(f[j], Xxh!Bytes(p + 16 * j, 16))
          /\ g[j + 1] = Xxh!Round(g[j], Xxh!Bytes(p + 16 * j, 16))
      BY <2>1, AfterFollows
    <2>3. QED  BY <2>1, <2>2
  <1>3. \A j \in Nat : j \in T
    <2> HIDE DEF T
    <2>1. QED  BY <1>1, <1>2, SetInduction
  <1>4. QED  BY <1>3

\* Stripes one by one.
LEMMA StripesGrow ==
    ASSUME NEW v \in Lanes, NEW p \in Int, NEW n \in Nat
    PROVE  /\ Xxh!Stripes(v, p, 0) = v
           /\ Xxh!Stripes(v, p, n + 1) =
                Xxh!Round(Xxh!Stripes(v, p, n), Xxh!Bytes(p + 16 * n, 16))
  <1>1. Xxh!Stripes(v, p, 0) = v
    BY AfterIs, AfterFollows
  <1>2. n + 1 \in Nat /\ n + 1 \in 1..(n + 1) /\ (n + 1) - 1 = n /\ n <= n + 1
    OBVIOUS
  <1>3. Xxh!Stripes(v, p, n + 1) = After(v, p, n + 1)[n + 1] /\ Xxh!Stripes(v, p, n) = After(v, p, n)[n]
    BY <1>2, AfterIs
  <1>4. After(v, p, n + 1)[n + 1] = Xxh!Round(After(v, p, n + 1)[n], Xxh!Bytes(p + 16 * n, 16))
    BY <1>2, AfterFollows
  <1>5. After(v, p, n + 1)[n] = After(v, p, n)[n]
    BY <1>2, AfterAgree
  <1>6. QED  BY <1>1, <1>3, <1>4, <1>5

LEMMA StripesMix ==
    ASSUME NEW v \in Lanes, NEW p \in Int, NEW n \in Nat
    PROVE  Xxh!Stripes(v, p, n) \in Lanes
  <1> DEFINE T == {j \in Nat : Xxh!Stripes(v, p, j) \in Lanes}
  <1>1. 0 \in T
    BY StripesGrow
  <1>2. ASSUME NEW j \in Nat, j \in T PROVE j + 1 \in T
    <2>1. p + 16 * j \in Int /\ j + 1 \in Nat
      OBVIOUS
    <2>2. QED  BY <1>2, <2>1, StripesGrow, RoundMixes
  <1>3. \A j \in Nat : j \in T
    <2> HIDE DEF T
    <2>1. QED  BY <1>1, <1>2, SetInduction
  <1>4. QED  BY <1>3

\* Stripes can be cut anywhere.
LEMMA StripesAdd ==
    ASSUME NEW v \in Lanes, NEW p \in Int, NEW m \in Nat, NEW n \in Nat
    PROVE  Xxh!Stripes(Xxh!Stripes(v, p, m), p + 16 * m, n) = Xxh!Stripes(v, p, m + n)
  <1> DEFINE w == Xxh!Stripes(v, p, m)
             q == p + 16 * m
             T == {j \in Nat : Xxh!Stripes(w, q, j) = Xxh!Stripes(v, p, m + j)}
  <1>0. w \in Lanes /\ q \in Int
    BY StripesMix
  <1>1. 0 \in T
    <2>1. m + 0 = m
      OBVIOUS
    <2>2. Xxh!Stripes(w, q, 0) = w
      BY <1>0, StripesGrow
    <2>3. QED  BY <2>1, <2>2
  <1>2. ASSUME NEW j \in Nat, j \in T PROVE j + 1 \in T
    <2>1. m + j \in Nat /\ m + (j + 1) = (m + j) + 1 /\ q + 16 * j = p + 16 * (m + j)
      OBVIOUS
    <2>2. Xxh!Stripes(w, q, j + 1) = Xxh!Round(Xxh!Stripes(w, q, j), Xxh!Bytes(q + 16 * j, 16))
      <3> HIDE DEF w, q
      <3>1. QED  BY <1>0, StripesGrow
    <2>3. Xxh!Stripes(v, p, (m + j) + 1) =
            Xxh!Round(Xxh!Stripes(v, p, m + j), Xxh!Bytes(p + 16 * (m + j), 16))
      BY <2>1, StripesGrow
    <2> HIDE DEF w, q
    <2>4. QED  BY <1>2, <2>1, <2>2, <2>3
  <1>3. \A j \in Nat : j \in T
    <2> HIDE DEF T
    <2>1. QED  BY <1>1, <1>2, SetInduction
  <1>4. QED  BY <1>3


-----------------------------------------------------------------------------
(* What is hashed and what waits.                                          *)

Room == [1..16 -> Int]

\* The buffer holds the m bytes in front of position p.
Holds(buf, m, p) == \A k \in 1..m : buf[k] = p - m + k - 1

HashState == [total : Nat, large : BOOLEAN, v : Lanes, mem : Room, memsize : Nat]

HashOk(s, g) ==
    /\ g \in Nat
    /\ s \in HashState
    /\ s.total = g % Modulus /\ s.memsize = g % 16
    /\ s.large <=> g >= 16
    /\ s.v = Xxh!Stripes(Xxh!Seeds, 0, g \div 16)
    /\ Holds(s.mem, g % 16, g)

HashInv == HashOk(state, given)

LEMMA SeedsAreLanes == Xxh!Seeds \in Lanes
  BY DEF Xxh!Seeds, Lanes

LEMMA HashBegins ==
    ASSUME Xxh!Xxh32Assumption, NEW s, NEW g, s = Xxh!Cleared, g = 0
    PROVE  HashOk(s, g)
  <1>1. Xxh!Stripes(Xxh!Seeds, 0, 0) = Xxh!Seeds
    BY SeedsAreLanes, StripesGrow
  <1>2. 0 % 16 = 0 /\ 0 \div 16 = 0 /\ Modulus \in Nat /\ Modulus > 0
    BY DEF Xxh!Xxh32Assumption
  <1>3. 0 % Modulus = 0
    BY <1>2
  <1>4. s.large = FALSE /\ s.v = Xxh!Seeds /\ s.mem = [k \in 1..16 |-> -1]
    BY DEF Xxh!Cleared
  <1>5. s.mem \in Room
    BY <1>4 DEF Room
  <1>6. s.mem \in Room /\ Holds(s.mem, 0, 0)
    BY <1>4 DEF Room, Holds
  <1>7. s.memsize = 0 /\ s.total = 0
    BY DEF Xxh!Cleared
  <1>8. g \in Nat /\ g % 16 = 0 /\ g \div 16 = 0 /\ g % Modulus = 0 /\ ~(g >= 16)
    BY <1>2, <1>3
  <1>9. s.v = Xxh!Stripes(Xxh!Seeds, 0, g \div 16)
    BY <1>1, <1>4, <1>8
  <1>10. s \in HashState
    BY <1>5, SeedsAreLanes DEF Xxh!Cleared, HashState
  <1>11. QED  BY <1>4, <1>6, <1>7, <1>8, <1>9, <1>10 DEF HashOk

\* Counters: the short one comes round only when the length is known to be large.
LEMMA Counters ==
    ASSUME Xxh!Xxh32Assumption, NEW g \in Nat, NEW n \in Nat
    PROVE  /\ ((g % Modulus) + n) % Modulus = (g + n) % Modulus
           /\ g + n >= 16 <=> g >= 16 \/ n >= 16 \/ (g + n) % Modulus >= 16
  <1>1. Modulus \in Nat /\ Modulus >= 32
    BY DEF Xxh!Xxh32Assumption
  <1>2. 0 \in Nat /\ \A x \in Nat : x < Modulus => (Modulus * 0 + x) % Modulus = x
    BY <1>1, Remainder
  <1>3. ASSUME NEW x \in Nat, x < Modulus PROVE x % Modulus = x
    BY <1>1, <1>2, <1>3
  <1>4. ((g % Modulus) + n) % Modulus = (g + n) % Modulus
    <2>1. Modulus \in Nat \ {0}
      BY <1>1
    <2>2. QED  BY <2>1, SumRemainder
  <1>5. ASSUME g < 16, n < 16 PROVE (g + n) % Modulus = g + n
    BY <1>1, <1>3, <1>5
  <1>6. ASSUME g + n < 16 PROVE (g + n) % Modulus < 16
    BY <1>1, <1>3, <1>6
  <1>7. QED  BY <1>4, <1>5, <1>6

LEMMA FilledHolds ==
    ASSUME NEW s, NEW bytes, NEW m \in 0..15, NEW n \in 0..(16 - m), NEW p \in Int,
           s.memsize = m, s.mem \in Room, Holds(s.mem, m, p),
           bytes = Xxh!Bytes(p, n)
    PROVE  /\ Xxh!Filled(s, bytes) \in Room
           /\ Holds(Xxh!Filled(s, bytes), m + n, p + n)
  <1> DEFINE f == Xxh!Filled(s, bytes)
  <1>0. n \in Nat
    OBVIOUS
  <1>1. Len(bytes) = n /\ \A k \in 1..n : bytes[k] = p + k - 1
    BY <1>0, BytesAre
  <1>2. f = [k \in 1..16 |-> IF k - m \in 1..n THEN bytes[k - m] ELSE s.mem[k]]
    BY <1>1 DEF Xxh!Filled
  <1>3. \A k \in 1..16 : s.mem[k] \in Int
    BY DEF Room
  <1>4. ASSUME NEW k \in 1..16, k - m \in 1..n PROVE f[k] = p + (k - m) - 1
    BY <1>1, <1>2, <1>4
  <1>5. ASSUME NEW k \in 1..16, k - m \notin 1..n PROVE f[k] = s.mem[k]
    BY <1>2, <1>5
  <1>6. f \in Room
    <2>1. \A k \in 1..16 : f[k] \in Int
      BY <1>3, <1>4, <1>5
    <2> HIDE DEF f
    <2>2. QED  BY <1>2, <2>1 DEF Room
  <1>7. ASSUME NEW k \in 1..(m + n) PROVE f[k] = (p + n) - (m + n) + k - 1
    <2>1. k \in 1..16 /\ p + (k - m) - 1 = (p + n) - (m + n) + k - 1
      OBVIOUS
    <2>2. CASE k > m
      <3>1. k - m \in 1..n
        BY <2>2
      <3> HIDE DEF f
      <3>2. QED  BY <1>4, <2>1, <3>1
    <2>3. CASE k <= m
      <3>1. k - m \notin 1..n /\ k \in 1..m
        BY <2>3
      <3>2. s.mem[k] = p - m + k - 1
        BY <3>1 DEF Holds
      <3>3. p - m + k - 1 = (p + n) - (m + n) + k - 1
        OBVIOUS
      <3> HIDE DEF f
      <3>4. QED  BY <1>5, <2>1, <3>1, <3>2, <3>3
    <2>4. QED  BY <2>2, <2>3
  <1>8. QED  BY <1>6, <1>7 DEF Holds

\* A buffer that holds all of a stripe is that stripe.
LEMMA FullBuffer ==
    ASSUME NEW f \in Room, NEW p \in Int, Holds(f, 16, p)
    PROVE  f = Xxh!Bytes(p - 16, 16)
  BY DEF Room, Holds, Xxh!Bytes

LEMMA UpdateStep ==
    ASSUME Xxh!Xxh32Assumption, HashInv, NEW n \in Lengths, Xxh!Update(n)
    PROVE  HashInv'
  <1> DEFINE m == given % 16
             d == given \div 16
             total == (state.total + n) % Modulus
             t == [state EXCEPT !.total = total, !.large = Xxh!Large(state, n, total)]
             g == given + n
  <1>0. /\ n \in Nat /\ given \in Nat /\ g \in Nat /\ m \in 0..15 /\ d \in Nat
        /\ given = 16 * d + m
    <2>1. n \in Nat /\ given \in Nat
      BY DEF HashInv, HashOk, Xxh!Xxh32Assumption
    <2>2. QED  BY <2>1
  <1>a. state.memsize = m /\ state.total = given % Modulus
    BY DEF HashInv, HashOk
  <1>b. state.v = Xxh!Stripes(Xxh!Seeds, 0, d) /\ state.mem \in Room /\ Holds(state.mem, m, given)
    BY DEF HashInv, HashOk, HashState
  <1>1. total = g % Modulus
    BY <1>0, <1>a, Counters
  <1>2. Xxh!Large(state, n, total) \in BOOLEAN
    BY DEF Xxh!Large, HashInv, HashOk
  <1>3. Xxh!Large(state, n, total) <=> g >= 16
    <2>1. state.large <=> given >= 16
      BY DEF HashInv, HashOk
    <2>2. g >= 16 <=> given >= 16 \/ n >= 16 \/ g % Modulus >= 16
      BY <1>0, Counters
    <2> HIDE DEF total
    <2>3. QED  BY <1>1, <2>1, <2>2 DEF Xxh!Large
  <1>4. state' = Xxh!Updated(state, n) /\ given' = g
    BY DEF Xxh!Update
  <1>5. state.v \in Lanes
    BY <1>0, <1>b, SeedsAreLanes, StripesMix
  <1>6. /\ t.total = g % Modulus /\ t.large = Xxh!Large(state, n, total) /\ t.v = state.v
        /\ t.mem = state.mem /\ t.memsize = m /\ t \in HashState
    <2> DEFINE large == Xxh!Large(state, n, total)
    <2>1. large \in BOOLEAN /\ total \in Nat /\ state \in HashState
      <3>1. g % Modulus \in Nat
        BY <1>0, Division DEF Xxh!Xxh32Assumption
      <3>2. QED  BY <1>1, <1>2, <3>1 DEF HashInv, HashOk
    <2> HIDE DEF total, m, large
    <2>2. /\ t.total = total /\ t.large = large /\ t.v = state.v /\ t.mem = state.mem
          /\ t.memsize = state.memsize /\ t \in HashState
      <3>1. t = [state EXCEPT !.total = total, !.large = large]
        BY DEF large
      <3> HIDE DEF t
      <3>2. QED  BY <2>1, <3>1 DEF HashState
    <2>3. QED  BY <1>1, <1>a, <2>2 DEF large
  <1>7. CASE Xxh!Fits(state, n)
    <2> DEFINE f == Xxh!Filled(state, Xxh!Bytes(given, n))
    <2>1. n \in 0..(16 - m) /\ g % 16 = m + n /\ g \div 16 = d
      BY <1>0, <1>a, <1>7 DEF Xxh!Fits
    <2>2. f \in Room /\ Holds(f, m + n, g)
      <3>1. given + n = g /\ given \in Int
        BY <1>0
      <3> HIDE DEF m, g
      <3>2. QED  BY <1>0, <1>a, <1>b, <2>1, <3>1, FilledHolds
    <2>3. state' = [t EXCEPT !.mem = f, !.memsize = @ + n]
      BY <1>4, <1>7 DEF Xxh!Updated
    <2> HIDE DEF t, f
    <2>4. /\ state'.mem = f /\ state'.memsize = m + n /\ state'.v = state.v
          /\ state'.large = Xxh!Large(state, n, total) /\ state'.total = g % Modulus
          /\ state' \in HashState
      <3>1. t \in HashState /\ t.memsize = m /\ m + n \in Nat /\ f \in Room
        BY <1>0, <1>6, <2>2
      <3>2. state' = [t EXCEPT !.mem = f, !.memsize = m + n]
        BY <2>3, <3>1
      <3> HIDE DEF m, g
      <3>3. QED  BY <1>6, <3>1, <3>2 DEF HashState
    <2>5. QED
      BY <1>0, <1>2, <1>3, <1>4, <1>b, <2>1, <2>2, <2>4 DEF HashInv, HashOk
  <1>8. CASE ~Xxh!Fits(state, n)
    <2> DEFINE taken == IF m > 0 THEN 16 - m ELSE 0
               count == (n - taken) \div 16
               p == given + taken + 16 * count
               f == Xxh!Filled(state, Xxh!Bytes(given, 16 - m))
               first == IF m > 0 THEN Xxh!Round(state.v, f) ELSE state.v
               d1 == IF m > 0 THEN d + 1 ELSE d
               rest == Xxh!Filled([state EXCEPT !.memsize = 0], Xxh!Bytes(p, g - p))
    <2>1. /\ taken \in 0..n /\ count \in Nat /\ d1 \in Nat /\ given + taken = 16 * d1
          /\ g - p \in 0..15 /\ g % 16 = g - p /\ g \div 16 = d1 + count /\ p \in Nat
      BY <1>0, <1>a, <1>8 DEF Xxh!Fits
    <2>2. first = Xxh!Stripes(Xxh!Seeds, 0, d1)
      <3>1. CASE m > 0
        <4>1. f \in Room /\ Holds(f, m + (16 - m), given + (16 - m))
          <5>1. 16 - m \in 0..(16 - m) /\ given \in Int
            BY <1>0
          <5> HIDE DEF m
          <5>2. QED  BY <1>0, <1>a, <1>b, <5>1, FilledHolds
        <4>2. f = Xxh!Bytes(0 + 16 * d, 16)
          <5>1. m + (16 - m) = 16 /\ given + (16 - m) \in Int /\ (given + (16 - m)) - 16 = 0 + 16 * d
            BY <1>0
          <5> HIDE DEF f
          <5>2. QED  BY <4>1, <5>1, FullBuffer
        <4>3. Xxh!Stripes(Xxh!Seeds, 0, d + 1) = Xxh!Round(state.v, Xxh!Bytes(0 + 16 * d, 16))
          BY <1>0, <1>b, SeedsAreLanes, StripesGrow
        <4> HIDE DEF f
        <4>4. QED  BY <3>1, <4>2, <4>3
      <3>2. CASE ~(m > 0)
        BY <1>b, <3>2
      <3>3. QED  BY <3>1, <3>2
    <2>3. Xxh!Stripes(first, given + taken, count) = Xxh!Stripes(Xxh!Seeds, 0, g \div 16)
      <3>1. given + taken = 0 + 16 * d1 /\ 0 \in Int
        BY <2>1
      <3>2. Xxh!Stripes(Xxh!Stripes(Xxh!Seeds, 0, d1), 0 + 16 * d1, count) = Xxh!Stripes(Xxh!Seeds, 0, d1 + count)
        BY <2>1, SeedsAreLanes, StripesAdd
      <3> HIDE DEF first, taken, count, d1
      <3>3. QED  BY <2>1, <2>2, <3>1, <3>2
    <2>4. rest \in Room /\ Holds(rest, g - p, g)
      <3> DEFINE s == [state EXCEPT !.memsize = 0]
      <3>1. s.memsize = 0 /\ s.mem = state.mem
        BY DEF HashInv, HashOk
      <3>2. Holds(s.mem, 0, p) /\ s.mem \in Room
        BY <1>b, <3>1 DEF Holds
      <3>3. g - p \in 0..(16 - 0) /\ p \in Int /\ 0 \in 0..15 /\ p + (g - p) = g /\ 0 + (g - p) = g - p
        BY <1>0, <2>1
      <3> HIDE DEF s, p
      <3>4. Xxh!Filled(s, Xxh!Bytes(p, g - p)) \in Room
            /\ Holds(Xxh!Filled(s, Xxh!Bytes(p, g - p)), 0 + (g - p), p + (g - p))
        BY <3>1, <3>2, <3>3, FilledHolds
      <3>5. QED  BY <3>3, <3>4 DEF s
    <2>5. state' = [t EXCEPT !.v = Xxh!Stripes(first, given + taken, count), !.mem = rest, !.memsize = g - p]
      <3> DEFINE T == Xxh!Taken(state)
                 F == IF state.memsize > 0
                      THEN Xxh!Round(state.v, Xxh!Filled(state, Xxh!Bytes(given, 16 - state.memsize)))
                      ELSE state.v
      <3>1. T = taken
        BY <1>a DEF Xxh!Taken
      <3>2. F = first
        BY <1>a
      <3> DEFINE U(x, y) ==
                [t EXCEPT !.v = Xxh!Stripes(y, given + x, (n - x) \div 16),
                          !.mem = Xxh!Filled([state EXCEPT !.memsize = 0],
                                      Xxh!Bytes(given + x + 16 * ((n - x) \div 16),
                                          given + n - (given + x + 16 * ((n - x) \div 16)))),
                          !.memsize = given + n - (given + x + 16 * ((n - x) \div 16))]
      <3>3. Xxh!Updated(state, n) = U(T, F)
        BY <1>8 DEF Xxh!Updated
      <3>4. U(T, F) = U(taken, first)
        <4> HIDE DEF U, T, F, taken, first
        <4>1. QED  BY <3>1, <3>2
      <3>5. U(taken, first) = [t EXCEPT !.v = Xxh!Stripes(first, given + taken, count), !.mem = rest, !.memsize = g - p]
        <4> HIDE DEF t, first, taken
        <4>1. given + (n - p) = g - p
          <5> HIDE DEF p
          <5>1. QED  BY <1>0, <2>1
        <4> DEFINE V(y) ==
              [t EXCEPT !.v = Xxh!Stripes(first, given + taken, count),
                        !.mem = Xxh!Filled([state EXCEPT !.memsize = 0], Xxh!Bytes(p, y)),
                        !.memsize = y]
        <4>2. U(taken, first) = V(given + (n - p))
          <5> HIDE DEF taken, first, t
          <5>1. QED  OBVIOUS
        <4>3. V(given + (n - p)) = V(g - p)
          <5> HIDE DEF V, p, g
          <5>1. QED  BY <4>1
        <4>4. QED  BY <4>2, <4>3
      <3> HIDE DEF U, T, F
      <3>6. QED  BY <1>4, <3>3, <3>4, <3>5
    <2>a. Xxh!Stripes(first, given + taken, count) \in Lanes /\ g - p \in Nat
      BY <2>1, <2>3, SeedsAreLanes, StripesMix
    <2> HIDE DEF t, rest, first, taken, count, p
    <2>6. /\ state'.mem = rest /\ state'.memsize = g - p
          /\ state'.v = Xxh!Stripes(first, given + taken, count)
          /\ state'.large = Xxh!Large(state, n, total) /\ state'.total = g % Modulus
          /\ state' \in HashState
      BY <1>6, <2>1, <2>4, <2>5, <2>a DEF HashState
    <2>7. QED
      BY <1>0, <1>2, <1>3, <1>4, <2>1, <2>3, <2>4, <2>6 DEF HashInv, HashOk
  <1>9. QED  BY <1>7, <1>8

\* The digest follows from the invariant.
LEMMA HashInvExact ==
    ASSUME Xxh!Xxh32Assumption, HashInv
    PROVE  DigestIsTheHash
  <1> DEFINE m == given % 16
             d == given \div 16
             b == Xxh!Bytes(given - m, m)
  <1>0. /\ given \in Nat /\ m \in 0..15 /\ d \in Nat /\ given = 16 * d + m
        /\ (given < 16 => d = 0)
    <2>1. given \in Nat
      BY DEF HashInv, HashOk
    <2>2. QED  BY <2>1
  <1>1. state.memsize = m /\ state.total = given % Modulus
    BY DEF HashInv, HashOk
  <1>2. state.v = Xxh!Stripes(Xxh!Seeds, 0, d) /\ state.mem \in Room /\ Holds(state.mem, m, given)
    BY DEF HashInv, HashOk, HashState
  <1>3. SubSeq(state.mem, 1, m) = b
    <2>1. \A k \in 1..m : state.mem[k] \in Int
      <3> HIDE DEF m
      <3>1. QED  BY <1>0, <1>2 DEF Room
    <2>2. /\ SubSeq(state.mem, 1, m) \in Seq(Int) /\ Len(SubSeq(state.mem, 1, m)) = m
          /\ \A i \in 1..m : SubSeq(state.mem, 1, m)[i] = state.mem[i]
      <3>1. m \in Int /\ 1 \in Int /\ m - 1 + 1 = m /\ \A i \in 1..m : 1 + i - 1 = i
        BY <1>0
      <3>2. /\ SubSeq(state.mem, 1, m) \in Seq(Int)
            /\ Len(SubSeq(state.mem, 1, m)) = IF 1 <= m THEN m - 1 + 1 ELSE 0
            /\ \A i \in 1..(m - 1 + 1) : SubSeq(state.mem, 1, m)[i] = state.mem[1 + i - 1]
        <4> HIDE DEF m
        <4>1. QED  BY <2>1, <3>1, SubSeqProperties
      <3>3. QED  BY <1>0, <3>1, <3>2
    <2>3. b \in Seq(Int) /\ Len(b) = m /\ \A i \in 1..m : b[i] = (given - m) + i - 1
      <3>1. given - m \in Int /\ m \in Nat
        BY <1>0
      <3>2. QED  BY <3>1, BytesAre
    <2>4. \A i \in 1..m : state.mem[i] = (given - m) + i - 1
      BY <1>2 DEF Holds
    <2> HIDE DEF m, b
    <2>5. \A i \in 1..m : SubSeq(state.mem, 1, m)[i] = b[i]
      BY <2>2, <2>3, <2>4
    <2>6. QED  BY <2>2, <2>3, <2>5, SeqEqual
  <1>4. Xxh!BufferIsTheRest
    BY <1>1, <1>3 DEF Xxh!BufferIsTheRest
  <1>5. given - 16 * d = m /\ 16 * d = given - m
    BY <1>0
  <1>6. CASE given >= 16
    <2>1. state.large
      BY <1>6 DEF HashInv, HashOk
    <2>2. Xxh!Digest(state) = Xxh!Finalize(Xxh!Merged(state.v, given % Modulus), b)
      BY <1>1, <1>3, <2>1 DEF Xxh!Digest
    <2>3. Xxh!Xxh32(given) = Xxh!Finalize(Xxh!Merged(state.v, given % Modulus), b)
      BY <1>2, <1>5, <1>6 DEF Xxh!Xxh32
    <2>4. QED  BY <1>4, <2>2, <2>3 DEF Xxh!DigestIsTheHash, DigestIsTheHash
  <1>7. CASE ~(given >= 16)
    <2>1. ~state.large
      BY <1>7 DEF HashInv, HashOk
    <2>2. state.v = Xxh!Seeds
      BY <1>0, <1>2, <1>7, SeedsAreLanes, StripesGrow
    <2>3. state.v[3] = <<>>
      BY <2>2 DEF Xxh!Seeds
    <2>4. Xxh!Digest(state) = Xxh!Finalize(Xxh!Short(<<>>, given % Modulus), b)
      BY <1>1, <1>3, <2>1, <2>3 DEF Xxh!Digest
    <2>5. Xxh!Xxh32(given) = Xxh!Finalize(Xxh!Short(<<>>, given % Modulus), b)
      BY <1>5, <1>7 DEF Xxh!Xxh32
    <2>6. QED  BY <1>4, <2>4, <2>5 DEF Xxh!DigestIsTheHash, DigestIsTheHash
  <1>8. QED  BY <1>6, <1>7

LEMMA HashStep ==
    ASSUME Xxh!Xxh32Assumption, HashInv, [Next]_all
    PROVE  HashInv'
  <1>1. CASE UNCHANGED hash_vars
    BY <1>1 DEF HashInv, HashOk, hash_vars
  <1>2. CASE Xxh!Reset
    <2>1. state' = Xxh!Cleared /\ given' = 0
      BY <1>2 DEF Xxh!Reset
    <2>2. HashOk(state', given')
      BY <2>1, HashBegins
    <2>3. QED  BY <2>2 DEF HashInv
  <1>3. CASE \E n \in Lengths : Xxh!Update(n)
    BY <1>3, UpdateStep
  <1>4. QED  BY <1>1, <1>2, <1>3 DEF Next, FrameTurn, StreamNext, BlockNext, HashNext, Xxh!Next, all

\* However the input of the hash is cut, and though its counter of bytes comes round,
\* the digest is the hash of the whole, and what is not mixed in yet waits in the
\* buffer.
THEOREM DigestsAreTheHash ==
    ASSUME Xxh!Xxh32Assumption
    PROVE  Spec => []DigestIsTheHash
  <1>1. Init => HashInv
    BY HashBegins DEF HashInv, Init, Xxh!Init
  <1>2. HashInv /\ [Next]_all => HashInv'
    BY HashStep
  <1>3. HashInv => DigestIsTheHash
    BY HashInvExact
  <1>4. QED  BY <1>1, <1>2, <1>3, PTL DEF Spec

-----------------------------------------------------------------------------
(* One block: the room of the caller.                                      *)

Cells == (-Blk!Front)..(in.cap + Blk!Behind)

\* Nothing was written outside the room.
Inside(m) ==
    /\ m \in [Cells -> Int]
    /\ \A p \in in.cap..in.cap + Blk!Behind : m[p] = Blk!Untouched
    /\ \A p \in -Blk!Front..-1 : m[p] = p

Memories == {m \in [Cells -> Int] : Inside(m)}

\* The block, and what is left in front of the ends of input and output: 64 bytes of
\* room where the fast loop starts, 32 behind its literals and 12 at a match of the
\* safe one; a byte for the token, and three where the fast loop reads an offset.
BlockInv ==
    /\ in \in Inputs
    /\ label \in {"start", "fast", "fast_match", "safe", "safe_literal_copy", "copy_match",
                  "safe_match_copy", "done", "error"}
    /\ seq \in 1..(Len(in.block) + 1)
    /\ ip \in Nat /\ op \in 0..in.cap /\ read \in 0..in.n
    /\ Inside(mem)
    /\ label \in {"fast_match", "safe_literal_copy", "copy_match", "safe_match_copy"} => seq <= Len(in.block)
    /\ label = "start" => ip = 0 /\ op = 0
    /\ label = "fast" => op <= in.cap - 64 /\ ip < in.n
    /\ label = "fast_match" => op <= in.cap - 32 /\ ip <= in.n - 3
    /\ label = "safe" => ip < in.n
    /\ label = "safe_literal_copy" => ip <= in.n
    /\ label \in {"copy_match", "safe_match_copy"} => ip < in.n /\ op <= in.cap - 12

LEMMA InputFacts ==
    ASSUME Blk!InputsAssumption, in \in Inputs
    PROVE  /\ in.n \in Nat /\ in.cap \in Nat /\ in.hist \in Nat /\ Len(in.block) \in Nat
           /\ Blk!Front \in Nat /\ Cells \subseteq Int /\ MaxDistance \in Nat
           /\ \A k \in 1..Len(in.block) :
                in.block[k].ll \in Nat /\ in.block[k].off \in Nat /\ in.block[k].ml \in Nat /\ in.block[k].ml >= 4
  <1>1. /\ in.n \in Nat /\ in.cap \in Nat /\ in.hist \in Nat /\ MaxDistance \in Nat
        /\ in.block \in Seq([ll : Nat, off : 0..MaxDistance, ml : Nat \ 0..3])
    BY DEF Blk!InputsAssumption
  <1>2. Blk!Front \in Nat
    BY <1>1 DEF Blk!Front
  <1>3. Cells \subseteq Int
    BY <1>1, <1>2 DEF Cells, Blk!Behind
  <1>4. Len(in.block) \in Nat
    BY <1>1
  <1>5. ASSUME NEW k \in 1..Len(in.block)
        PROVE  in.block[k].ll \in Nat /\ in.block[k].off \in Nat /\ in.block[k].ml \in Nat /\ in.block[k].ml >= 4
    <2> DEFINE R == [ll : Nat, off : 0..MaxDistance, ml : Nat \ 0..3]
    <2>1. in.block[k] \in R
      <3>1. in.block \in Seq(R)
        BY <1>1
      <3> HIDE DEF R
      <3>2. QED  BY <3>1
    <2>2. /\ in.block[k].ll \in Nat /\ in.block[k].off \in 0..MaxDistance
          /\ in.block[k].ml \in Nat /\ in.block[k].ml \notin 0..3
      BY <2>1
    <2>3. in.block[k].off \in Nat
      BY <1>1, <2>2
    <2>4. ASSUME NEW x \in Nat, x \notin 0..3 PROVE x >= 4
      <3> SUFFICES ASSUME ~(x >= 4) PROVE x \in 0..3
        BY <2>4
      <3>1. QED  OBVIOUS
    <2>5. QED  BY <2>2, <2>3, <2>4
  <1>6. QED  BY <1>1, <1>2, <1>3, <1>4, <1>5

\* An area inside the room can be written with anything.
LEMMA Written ==
    ASSUME Blk!InputsAssumption, in \in Inputs, NEW m, Inside(m), NEW to \in Nat, NEW n \in Int,
           to + n <= in.cap, NEW v \in [Cells -> Int], NEW w,
           w = [p \in Cells |-> IF p \in to..to + n - 1 THEN v[p] ELSE m[p]]
    PROVE  Inside(w)
  <1>1. m \in [Cells -> Int] /\ in.cap \in Nat /\ Blk!Front \in Nat /\ Blk!Behind = 64
    BY InputFacts DEF Inside, Blk!Behind
  <1>2. \A p \in Cells : w[p] \in Int
    BY <1>1
  <1>3. w \in [Cells -> Int]
    BY <1>2
  <1>4. ASSUME NEW p \in Cells, p < 0 \/ p >= in.cap PROVE w[p] = m[p]
    <2>1. p \notin to..to + n - 1
      BY <1>1, <1>4, InputFacts
    <2>2. QED  BY <2>1
  <1>5. ASSUME NEW p \in in.cap..in.cap + Blk!Behind PROVE w[p] = Blk!Untouched
    <2>1. p \in Cells /\ p >= in.cap
      BY <1>1 DEF Cells
    <2>2. QED  BY <1>4, <2>1 DEF Inside
  <1>6. ASSUME NEW p \in -Blk!Front..-1 PROVE w[p] = p
    <2>1. p \in Cells /\ p < 0
      BY <1>1 DEF Cells
    <2>2. QED  BY <1>4, <2>1 DEF Inside
  <1>7. QED  BY <1>3, <1>5, <1>6 DEF Inside

LEMMA BytesAreNumbers ==
    ASSUME Blk!InputsAssumption, in \in Inputs, NEW m, Inside(m), NEW p
    PROVE  Blk!Byte(m, p) \in Int
  BY DEF Inside, Blk!Byte, Blk!Unknown

LEMMA MemcpyInside ==
    ASSUME Blk!InputsAssumption, in \in Inputs, NEW m, Inside(m), NEW to \in Nat, NEW n \in Int,
           NEW from \in Int, to + n <= in.cap
    PROVE  Inside(Blk!Memcpy(m, to, from, n))
  <1> DEFINE overlap == to < from + n /\ from < to + n /\ to # from
             v == [p \in Cells |-> IF overlap THEN Blk!Unknown ELSE Blk!Byte(m, from + (p - to))]
  <1>1. v \in [Cells -> Int]
    BY BytesAreNumbers DEF Blk!Unknown
  <1> DEFINE w == Blk!Memcpy(m, to, from, n)
  <1>2. w = [p \in Cells |-> IF p \in to..to + n - 1 THEN v[p] ELSE m[p]]
    BY DEF Blk!Memcpy, Blk!Put, Inside
  <1> HIDE DEF v, w
  <1>3. Inside(w)
    BY <1>1, <1>2, Written
  <1>4. QED  BY <1>3 DEF w

LEMMA FromInputInside ==
    ASSUME Blk!InputsAssumption, in \in Inputs, NEW m, Inside(m), NEW to \in Nat, NEW n \in Int,
           NEW from \in Int, to + n <= in.cap
    PROVE  Inside(Blk!FromInput(m, to, from, n))
  <1> DEFINE v == [p \in Cells |-> IF from + (p - to) < in.n THEN from + (p - to) ELSE Blk!Unknown]
  <1>1. v \in [Cells -> Int]
    BY InputFacts DEF Blk!Unknown
  <1> DEFINE w == Blk!FromInput(m, to, from, n)
  <1>2. w = [p \in Cells |-> IF p \in to..to + n - 1 THEN v[p] ELSE m[p]]
    BY DEF Blk!FromInput, Blk!Put, Inside
  <1> HIDE DEF v, w
  <1>3. Inside(w)
    BY <1>1, <1>2, Written
  <1>4. QED  BY <1>3 DEF w

\* Strides, of which the last may run up to n - 1 bytes over the end.
LEMMA StridesInside ==
    ASSUME Blk!InputsAssumption, in \in Inputs, NEW m, Inside(m), NEW to \in Nat, NEW from \in Int,
           NEW end \in Int, NEW n \in {1, 8, 16}, to + n <= in.cap, end + n - 1 <= in.cap
    PROVE  Inside(Blk!Strides(m, to, from, end, n))
  <1> DEFINE count == Blk!Larger(1, (end - to + n - 1) \div n)
             G == [x \in (1..count) \X Memories |-> Blk!Memcpy(x[2], to + n * (x[1] - 1), from + n * (x[1] - 1), n)]
  <1>0. in.cap \in Nat
    BY InputFacts
  <1>a. count \in Nat /\ to + n * count <= in.cap
    <2>1. CASE n = 1
      BY <1>0, <2>1 DEF Blk!Larger
    <2>2. CASE n = 8
      BY <1>0, <2>2 DEF Blk!Larger
    <2>3. CASE n = 16
      BY <1>0, <2>3 DEF Blk!Larger
    <2>4. QED  BY <2>1, <2>2, <2>3
  <1>1. count \in Nat /\ \A k \in 1..count : /\ to + n * (k - 1) \in Nat /\ from + n * (k - 1) \in Int
                                             /\ to + n * (k - 1) + n <= in.cap
    <2> HIDE DEF count
    <2>1. CASE n = 1
      BY <1>0, <1>a, <2>1
    <2>2. CASE n = 8
      BY <1>0, <1>a, <2>2
    <2>3. CASE n = 16
      BY <1>0, <1>a, <2>3
    <2>4. QED  BY <1>a, <2>1, <2>2, <2>3
  <1> HIDE DEF count
  <1>2. G \in [(1..count) \X Memories -> Memories]
    <2>1. ASSUME NEW x \in (1..count) \X Memories
          PROVE  Blk!Memcpy(x[2], to + n * (x[1] - 1), from + n * (x[1] - 1), n) \in Memories
      <3>1. x[1] \in 1..count /\ x[2] \in Memories
        OBVIOUS
      <3>2. Inside(x[2])
        BY <3>1 DEF Memories
      <3>3. Inside(Blk!Memcpy(x[2], to + n * (x[1] - 1), from + n * (x[1] - 1), n))
        <4> DEFINE a == to + n * (x[1] - 1)
                   b == from + n * (x[1] - 1)
        <4>1. a \in Nat /\ b \in Int /\ a + n <= in.cap /\ n \in Int
          BY <1>1, <3>1
        <4> HIDE DEF a, b
        <4>2. Inside(Blk!Memcpy(x[2], a, b, n))
          BY <3>2, <4>1, MemcpyInside
        <4>3. QED  BY <4>2 DEF a, b
      <3>4. QED  BY <3>3 DEF Inside, Memories
    <2>2. QED  BY <2>1
  <1>3. m \in Memories
    BY DEF Inside, Memories
  <1>4. PICK g : Follows(g, count, Memories, m, G)
    <2> HIDE DEF G
    <2>1. QED  BY <1>1, <1>2, <1>3, Recursion
  <1>5. g \in [0..count -> Memories] /\ g[0] = m /\ \A k \in 1..count : g[k] = G[<<k, g[k - 1]>>]
    BY <1>4 DEF Follows
  <1>6. ASSUME NEW k \in 1..count
        PROVE  g[k] = Blk!Memcpy(g[k - 1], to + n * (k - 1), from + n * (k - 1), n)
    <2>1. k - 1 \in 0..count
      BY <1>1
    <2>2. g[k - 1] \in Memories
      BY <1>5, <2>1
    <2>3. <<k, g[k - 1]>> \in (1..count) \X Memories
      BY <2>2
    <2>4. QED  BY <1>5, <2>3
  <1> DEFINE Rec(f) == [k \in 0..count |-> IF k = 0 THEN m
                          ELSE Blk!Memcpy(f[k - 1], to + n * (k - 1), from + n * (k - 1), n)]
  <1>7. g = Rec(g)
    <2>1. ASSUME NEW k \in 0..count
          PROVE  g[k] = IF k = 0 THEN m ELSE Blk!Memcpy(g[k - 1], to + n * (k - 1), from + n * (k - 1), n)
      <3>1. k # 0 => k \in 1..count
        BY <1>1
      <3> HIDE DEF G
      <3>2. QED  BY <1>5, <1>6, <3>1
    <2> HIDE DEF G
    <2>2. QED  BY <1>5, <2>1
  <1>8. ASSUME NEW f, f = Rec(f) PROVE f[count] \in Memories
    <2> DEFINE T == {j \in Nat : j <= count => f[j] \in Memories}
    <2>0. \A k \in 0..count : f[k] = IF k = 0 THEN m
                          ELSE Blk!Memcpy(f[k - 1], to + n * (k - 1), from + n * (k - 1), n)
      BY <1>8
    <2>1. 0 \in T
      BY <1>1, <1>3, <2>0
    <2>2. ASSUME NEW j \in Nat, j \in T PROVE j + 1 \in T
      <3> SUFFICES ASSUME j + 1 <= count PROVE f[j + 1] \in Memories
        OBVIOUS
      <3>1. j + 1 \in 0..count /\ j + 1 \in 1..count /\ (j + 1) - 1 = j /\ j + 1 # 0 /\ f[j] \in Memories
        BY <1>1, <2>2
      <3>2. f[j + 1] = Blk!Memcpy(f[j], to + n * ((j + 1) - 1), from + n * ((j + 1) - 1), n)
        BY <2>0, <3>1
      <3>3. Inside(f[j])
        BY <3>1 DEF Memories
      <3>4. Inside(f[j + 1])
        <4> DEFINE a == to + n * ((j + 1) - 1)
                   b == from + n * ((j + 1) - 1)
        <4>0. j + 1 \in 1..count
          BY <3>1
        <4>1. a \in Nat /\ b \in Int /\ a + n <= in.cap /\ n \in Int
          <5>1. n \in Int
            OBVIOUS
          <5>2. QED  BY <1>1, <4>0, <5>1
        <4>2. f[j + 1] = Blk!Memcpy(f[j], a, b, n)
          BY <3>2
        <4> HIDE DEF a, b
        <4>3. QED  BY <3>3, <4>1, <4>2, MemcpyInside
      <3>5. QED  BY <3>4 DEF Inside, Memories
    <2>3. \A j \in Nat : j \in T
      <3> HIDE DEF T
      <3>1. QED  BY <2>1, <2>2, SetInduction
    <2>4. QED  BY <1>1, <2>3
  <1> DEFINE h == CHOOSE f : f = Rec(f)
  <1>9. h = Rec(h)
    <2> HIDE DEF Rec
    <2>1. QED  BY <1>7
  <1>10. Blk!Strides(m, to, from, end, n) = h[count]
    BY DEF Blk!Strides, count
  <1> HIDE DEF h, Rec
  <1>11. QED  BY <1>8, <1>9, <1>10 DEF Memories

LEMMA BytewiseInside ==
    ASSUME Blk!InputsAssumption, in \in Inputs, NEW m, Inside(m), NEW to \in Nat, NEW from \in Int,
           NEW n \in Int, to + n <= in.cap
    PROVE  Inside(Blk!Bytewise(m, to, from, n))
  <1>1. CASE n <= 0
    BY <1>1 DEF Blk!Bytewise
  <1>2. CASE ~(n <= 0)
    <2>1. to + 1 <= in.cap /\ (to + n) + 1 - 1 <= in.cap /\ to + n \in Int /\ 1 \in {1, 8, 16}
      BY <1>2, InputFacts
    <2>2. Inside(Blk!Strides(m, to, from, to + n, 1))
      BY <2>1, StridesInside
    <2>3. QED  BY <1>2, <2>2 DEF Blk!Bytewise
  <1>3. QED  BY <1>1, <1>2

LEMMA WildCopyInside ==
    ASSUME Blk!InputsAssumption, in \in Inputs, NEW m, Inside(m), NEW to \in Nat, NEW from \in Int,
           NEW end \in Int, to + 8 <= in.cap, end + 7 <= in.cap
    PROVE  Inside(Blk!WildCopy8(m, to, from, end))
  <1>1. end + 8 - 1 <= in.cap /\ 8 \in {1, 8, 16}
    BY InputFacts
  <1>2. QED  BY <1>1, StridesInside DEF Blk!WildCopy8

LEMMA WildCopy32Inside ==
    ASSUME Blk!InputsAssumption, in \in Inputs, NEW m, Inside(m), NEW to \in Nat, NEW from \in Int,
           NEW end \in Int, to + 47 <= in.cap, end + 46 <= in.cap
    PROVE  Inside(Blk!WildCopy32(m, to, from, end))
  <1> DEFINE stop == to + 32 * Blk!Larger(1, (end - to + 31) \div 32)
  <1>1. stop \in Int /\ stop + 16 - 1 <= in.cap /\ to + 16 <= in.cap /\ 16 \in {1, 8, 16}
    BY InputFacts DEF Blk!Larger
  <1> HIDE DEF stop
  <1>2. Inside(Blk!Strides(m, to, from, stop, 16))
    BY <1>1, StridesInside
  <1>3. QED  BY <1>2 DEF Blk!WildCopy32, stop

LEMMA OverIs ==
    ASSUME NEW n \in Nat, NEW s \in {8, 32}
    PROVE  /\ Blk!Over(n, s) \in Nat /\ Blk!Over(n, s) >= s /\ Blk!Over(n, s) >= n
           /\ Blk!Over(n, s) <= n + s /\ (n > 0 => Blk!Over(n, s) <= n + s - 1)
  <1>1. CASE s = 8
    BY <1>1 DEF Blk!Over, Blk!Larger
  <1>2. CASE s = 32
    BY <1>2 DEF Blk!Over, Blk!Larger
  <1>3. QED  BY <1>1, <1>2

LEMMA FirstEightInside ==
    ASSUME Blk!InputsAssumption, in \in Inputs, NEW m, Inside(m), NEW to \in Nat, NEW offset \in Nat,
           to + 8 <= in.cap
    PROVE  Inside(Blk!FirstEight(m, to, offset))
  <1>0. in.cap \in Nat
    BY InputFacts
  <1>1. CASE offset >= 8
    BY <1>0, <1>1, MemcpyInside DEF Blk!FirstEight
  <1>2. CASE ~(offset >= 8)
    <2> DEFINE z == Blk!Put(m, to, 4, LAMBDA k : Blk!Zero)
               b == Blk!Bytewise(z, to, to - offset, 4)
               from == to - offset + Blk!inc32table[offset + 1]
    <2>1. Inside(z)
      <3> DEFINE v == [p \in Cells |-> Blk!Zero]
      <3>1. v \in [Cells -> Int]
        BY DEF Blk!Zero
      <3>2. z = [p \in Cells |-> IF p \in to..to + 4 - 1 THEN v[p] ELSE m[p]]
        BY DEF Blk!Put, Inside
      <3>3. to + 4 <= in.cap /\ 4 \in Int
        BY <1>0
      <3> HIDE DEF z, v
      <3>4. QED  BY <3>1, <3>2, <3>3, Written
    <2>2. Inside(b)
      <3>1. to + 4 <= in.cap /\ 4 \in Int /\ to - offset \in Int
        BY <1>0
      <3> HIDE DEF z
      <3>2. QED  BY <2>1, <3>1, BytewiseInside
    <2>3. from \in Int
      <3>1. offset + 1 \in 1..8
        BY <1>2
      <3>2. \A i \in 1..8 : Blk!inc32table[i] \in Int
        BY DEF Blk!inc32table
      <3>3. QED  BY <3>1, <3>2
    <2>4. Inside(Blk!Memcpy(b, to + 4, from, 4))
      <3>1. (to + 4) + 4 <= in.cap /\ 4 \in Int /\ to + 4 \in Nat
        BY <1>0
      <3> HIDE DEF b, from
      <3>2. QED  BY <2>2, <2>3, <3>1, MemcpyInside
    <2> HIDE DEF b, from
    <2>5. Blk!FirstEight(m, to, offset) = Blk!Memcpy(b, to + 4, from, 4)
      BY <1>2 DEF Blk!FirstEight, b, from
    <2>6. QED  BY <2>4, <2>5
  <1>3. QED  BY <1>1, <1>2

LEMMA GoesOnSomewhere ==
    ASSUME NEW to \in Int, NEW offset \in Nat
    PROVE  Blk!GoesOnAt(to, offset) \in Int
  <1>1. CASE offset >= 8
    BY <1>1 DEF Blk!GoesOnAt
  <1>2. CASE ~(offset >= 8)
    <2>1. offset + 1 \in 1..8
      BY <1>2
    <2>2. \A i \in 1..8 : Blk!inc32table[i] \in Int /\ Blk!dec64table[i] \in Int
      BY DEF Blk!inc32table, Blk!dec64table
    <2>3. QED  BY <1>2, <2>1, <2>2 DEF Blk!GoesOnAt
  <1>3. QED  BY <1>1, <1>2

LEMMA UsingOffsetInside ==
    ASSUME Blk!InputsAssumption, in \in Inputs, NEW m, Inside(m), NEW to \in Nat, NEW offset \in Nat,
           NEW end \in Int, to + 16 <= in.cap, to < end, end + 8 <= in.cap
    PROVE  Inside(Blk!CopyUsingOffset(m, to, end, offset))
  <1>0. in.cap \in Nat
    BY InputFacts
  <1>1. CASE offset \in {1, 2, 4}
    <2> DEFINE n == Blk!Over(end - to, 8)
               v == [p \in Cells |-> Blk!Byte(m, to - offset + ((p - to) % offset))]
               w == Blk!CopyUsingOffset(m, to, end, offset)
    <2>1. n \in Int /\ to + n <= in.cap
      <3>1. end - to \in Nat /\ 8 \in {8, 32}
        OBVIOUS
      <3>2. n \in Nat /\ n <= (end - to) + 8
        BY <3>1, OverIs
      <3> HIDE DEF n
      <3>3. QED  BY <1>0, <3>2
    <2>2. v \in [Cells -> Int]
      BY BytesAreNumbers
    <2>3. w = [p \in Cells |-> IF p \in to..to + n - 1 THEN v[p] ELSE m[p]]
      BY <1>1 DEF Blk!CopyUsingOffset, Blk!Put, Inside
    <2> HIDE DEF n, v, w
    <2>4. Inside(w)
      BY <2>1, <2>2, <2>3, Written
    <2>5. QED  BY <2>4 DEF w
  <1>2. CASE offset \notin {1, 2, 4}
    <2> DEFINE e == Blk!FirstEight(m, to, offset)
    <2>1. Inside(e)
      BY <1>0, FirstEightInside
    <2>2. to + 8 \in Nat /\ (to + 8) + 8 <= in.cap /\ end + 7 <= in.cap /\ Blk!GoesOnAt(to, offset) \in Int
      <3>1. Blk!GoesOnAt(to, offset) \in Int
        BY GoesOnSomewhere
      <3>2. QED  BY <1>0, <3>1
    <2> HIDE DEF e
    <2>3. Inside(Blk!WildCopy8(e, to + 8, Blk!GoesOnAt(to, offset), end))
      BY <2>1, <2>2, WildCopyInside
    <2>4. QED  BY <1>2, <2>3 DEF Blk!CopyUsingOffset, e
  <1>3. QED  BY <1>1, <1>2

\* Sequence seq, which is there at the labels inside a sequence.
LEMMA SequenceFacts ==
    ASSUME Blk!InputsAssumption, in \in Inputs, seq \in 1..Len(in.block)
    PROVE  /\ Blk!Now.ll \in Nat /\ Blk!Now.off \in Nat /\ Blk!Now.ml \in Nat /\ Blk!Now.ml >= 4
           /\ Blk!LiteralBytes \in Nat /\ Blk!MatchBytes \in Nat
           /\ Blk!iend = in.n /\ Blk!oend = in.cap
           /\ \A from \in Int : Blk!LiteralsAt(Blk!Now, from) = from + 1 + Blk!LiteralBytes
           /\ Blk!Now.ll < 15 => Blk!LiteralBytes = 0
           /\ op \in Int => Blk!Match \in Int
           /\ Blk!lowPrefix \in Int
           /\ Blk!usingExtDict => Blk!lowPrefix = 0
  <1>1. Blk!Now.ll \in Nat /\ Blk!Now.off \in Nat /\ Blk!Now.ml \in Nat /\ Blk!Now.ml >= 4
    BY InputFacts DEF Blk!Now
  <1>2. Blk!Extra(Blk!Now.ll, 15) \in Nat /\ Blk!Extra(Blk!Now.ml - 4, 15) \in Nat
    <2>1. ASSUME NEW x \in Nat PROVE Blk!Extra(x, 15) \in Nat
      <3>1. CASE x < 15
        BY <3>1 DEF Blk!Extra
      <3>2. CASE ~(x < 15)
        <4>1. (x - 15) \div 255 \in Nat
          BY <3>2
        <4>2. QED  BY <3>2, <4>1 DEF Blk!Extra
      <3>3. QED  BY <3>1, <3>2
    <2>2. Blk!Now.ml - 4 \in Nat
      BY <1>1
    <2>3. QED  BY <1>1, <2>1, <2>2
  <1>3. Blk!LiteralBytes \in Nat /\ Blk!MatchBytes \in Nat
    BY <1>2 DEF Blk!LiteralBytes, Blk!MatchBytes, Blk!RUN_MASK, Blk!MINMATCH
  <1>4. Blk!Now.ll < 15 => Blk!LiteralBytes = 0
    BY DEF Blk!LiteralBytes, Blk!RUN_MASK, Blk!Extra
  <1>5. \A from \in Int : Blk!LiteralsAt(Blk!Now, from) = from + 1 + Blk!LiteralBytes
    BY DEF Blk!LiteralsAt, Blk!LiteralBytes
  <1>6. Blk!lowPrefix \in Int /\ (Blk!usingExtDict => Blk!lowPrefix = 0)
    <2>1. MaxDistance \in Nat /\ Blk!Front \in Nat
      BY InputFacts
    <2>2. Blk!lowPrefix \in Int
      BY <2>1 DEF Blk!lowPrefix
    <2>3. ASSUME Blk!usingExtDict PROVE Blk!lowPrefix = 0
      <3>1. Blk!Front = 0 /\ ~Blk!Prefix64k
        BY <2>3 DEF Blk!usingExtDict, Blk!Prefix64k, Blk!Front
      <3>2. Blk!lowPrefix = -Blk!Front
        BY <3>1 DEF Blk!lowPrefix
      <3>3. -Blk!Front = 0 - Blk!Front
        BY <2>1
      <3>4. QED  BY <3>1, <3>2, <3>3
    <2>4. QED  BY <2>2, <2>3
  <1>7. op \in Int => Blk!Match \in Int
    BY <1>1 DEF Blk!Match
  <1>8. QED  BY <1>1, <1>3, <1>4, <1>5, <1>6, <1>7 DEF Blk!iend, Blk!oend

\* The length bytes that are read, of a length that is taken or of one that is not.
Taken(here, bytes, limit) == Blk!LengthRead(here, bytes, limit, TRUE)
TakenEnd(here, bytes, limit) == Blk!LengthEnd(here, bytes, limit, TRUE)
Unguarded(here, bytes, limit) == Blk!LengthRead(here, bytes, limit, FALSE)
UnguardedEnd(here, bytes, limit) == Blk!LengthEnd(here, bytes, limit, FALSE)

LEMMA LengthReads ==
    ASSUME NEW here \in Nat, NEW bytes \in Nat, NEW limit \in Int
    PROVE  /\ Taken(here, bytes, limit) => here + bytes <= limit
           /\ Unguarded(here, bytes, limit) => here + bytes <= limit
           /\ TakenEnd(here, bytes, limit) \in Nat /\ UnguardedEnd(here, bytes, limit) \in Nat
           /\ ~Taken(here, bytes, limit) =>
                TakenEnd(here, bytes, limit) <= Blk!Larger(here, limit + 1)
           /\ ~Unguarded(here, bytes, limit) =>
                UnguardedEnd(here, bytes, limit) <= Blk!Larger(here + 1, limit + 1)
  <1>1. /\ Taken(here, bytes, limit) => here + bytes <= limit
        /\ Unguarded(here, bytes, limit) => here + bytes <= limit
    BY DEF Blk!LengthRead, Taken, Unguarded
  <1>2. TakenEnd(here, bytes, limit) \in Nat /\ UnguardedEnd(here, bytes, limit) \in Nat
    BY DEF Blk!LengthEnd, Blk!Larger, TakenEnd, UnguardedEnd
  <1>3. ~Taken(here, bytes, limit) =>
                TakenEnd(here, bytes, limit) <= Blk!Larger(here, limit + 1)
    BY DEF Blk!LengthRead, Blk!LengthEnd, Blk!Larger, Taken, TakenEnd
  <1>4. ~Unguarded(here, bytes, limit) =>
                UnguardedEnd(here, bytes, limit) <= Blk!Larger(here + 1, limit + 1)
    BY DEF Blk!LengthRead, Blk!LengthEnd, Blk!Larger, Unguarded, UnguardedEnd
  <1>5. QED  BY <1>1, <1>2, <1>3, <1>4

LEMMA ReadsUpTo ==
    ASSUME in.n \in Nat, read \in 0..in.n, NEW end \in Int, end <= in.n, Blk!Reads(end)
    PROVE  read' \in 0..in.n
  BY DEF Blk!Reads, Blk!Larger

LEMMA BlockBegins ==
    ASSUME Blk!InputsAssumption, Blk!Init
    PROVE  BlockInv
  <1>1. in \in Inputs /\ label = "start" /\ seq = 1 /\ ip = 0 /\ op = 0 /\ read = 0
    BY DEF Blk!Init
  <1>2. Inside(mem)
    <2>1. mem = [p \in Cells |-> IF p < 0 THEN p ELSE Blk!Untouched]
      BY DEF Blk!Init, Cells
    <2>2. /\ Cells \subseteq Int /\ Blk!Front \in Nat /\ in.cap \in Nat
          /\ \A p \in in.cap..in.cap + Blk!Behind : p \in Cells /\ p >= 0
          /\ \A p \in -Blk!Front..-1 : p \in Cells /\ p < 0
      BY <1>1, InputFacts DEF Cells, Blk!Behind
    <2>3. QED  BY <2>1, <2>2 DEF Inside, Blk!Untouched
  <1>3. QED  BY <1>1, <1>2, InputFacts DEF BlockInv

\* The sets over which Inside is stated do not change.
LEMMA InsideKept ==
    ASSUME in' = in, NEW m, Inside(m), mem' = m
    PROVE  Inside(mem)'
  BY DEF Inside, Cells, Blk!Front, Blk!Behind, Blk!Untouched

LEMMA StartStep ==
    ASSUME Blk!InputsAssumption, BlockInv, Blk!Start
    PROVE  BlockInv'
  <1>0. /\ label = "start" /\ in' = in /\ seq' = seq /\ op' = op /\ mem' = mem /\ ip' = ip
        /\ label' \in {"done", "error", "fast", "safe"}
        /\ label' = "fast" => in.cap >= 64 /\ in.n # 0
        /\ label' = "safe" => in.n # 0
        /\ read' = read \/ Blk!Reads(IF in.n = 1 THEN 1 ELSE 0)
    BY DEF Blk!Start, Blk!Goto, Blk!Same, Blk!FASTLOOP
  <1>1. in \in Inputs /\ in.n \in Nat /\ in.cap \in Nat
    BY InputFacts DEF BlockInv
  <1>2. read' \in 0..in.n
    <2>1. (IF in.n = 1 THEN 1 ELSE 0) \in Int /\ (IF in.n = 1 THEN 1 ELSE 0) <= in.n
      BY <1>1
    <2>2. QED  BY <1>0, <1>1, <2>1, ReadsUpTo DEF BlockInv
  <1>3. Inside(mem)'
    BY <1>0, InsideKept DEF BlockInv
  <1>4. ip = 0 /\ op = 0
    BY <1>0 DEF BlockInv
  <1>5. QED  BY <1>0, <1>1, <1>2, <1>3, <1>4 DEF BlockInv

LEMMA FastLiteralsStep ==
    ASSUME Blk!InputsAssumption, BlockInv, Blk!FastLiterals
    PROVE  BlockInv'
  <1> DEFINE lit == Blk!LiteralsAt(Blk!Now, ip)
             ll == Blk!Now.ll
             bytes == Blk!LiteralBytes
             limit == Blk!LiteralLimit
  <1>0. label = "fast" /\ seq <= Len(in.block) /\ in' = in
    BY DEF Blk!FastLiterals, Blk!Same
  <1>a. /\ in \in Inputs /\ read \in 0..in.n /\ op \in 0..in.cap
        /\ seq \in 1..Len(in.block) /\ Inside(mem) /\ Len(in.block) \in Nat
    BY <1>0, InputFacts DEF BlockInv
  <1>1. in.n \in Nat /\ in.cap \in Nat /\ ip \in Nat /\ op \in Nat /\ op <= in.cap - 64 /\ ip < in.n
    BY <1>0, <1>a, InputFacts DEF BlockInv
  <1>2. /\ ll \in Nat /\ bytes \in Nat /\ lit = ip + 1 + bytes /\ limit = in.n - 15
        /\ ll < 15 => bytes = 0
    <2>0. ip \in Int
      BY <1>1
    <2>1. /\ Blk!Now.ll \in Nat /\ Blk!LiteralBytes \in Nat /\ Blk!iend = in.n
          /\ Blk!LiteralsAt(Blk!Now, ip) = ip + 1 + Blk!LiteralBytes
          /\ Blk!Now.ll < 15 => Blk!LiteralBytes = 0
      BY <1>1, <1>a, <2>0, SequenceFacts
    <2>2. Blk!LiteralLimit = in.n - 15
      BY <2>1 DEF Blk!LiteralLimit, Blk!RUN_MASK
    <2>3. QED  BY <2>1, <2>2
  <1>3. CASE ll >= 15 /\ ~Taken(ip + 1, bytes, limit)
    <2>1. Blk!Refuse /\ Blk!Reads(TakenEnd(ip + 1, bytes, limit))
      BY <1>3 DEF Blk!FastLiterals, Blk!RUN_MASK, Taken, TakenEnd
    <2>2. /\ TakenEnd(ip + 1, bytes, limit) \in Nat
          /\ TakenEnd(ip + 1, bytes, limit) <= in.n
      <3> HIDE DEF bytes, limit
      <3>1. ip + 1 \in Nat /\ limit \in Int /\ Blk!Larger(ip + 1, limit + 1) <= in.n
            /\ Blk!Larger(ip + 1, limit + 1) \in Int
        BY <1>1, <1>2 DEF Blk!Larger
      <3>2. TakenEnd(ip + 1, bytes, limit) \in Nat
            /\ TakenEnd(ip + 1, bytes, limit) <= Blk!Larger(ip + 1, limit + 1)
        BY <1>2, <1>3, <3>1, LengthReads
      <3>3. QED  BY <1>1, <3>1, <3>2
    <2>3. read' \in 0..in.n
      <3> DEFINE end == TakenEnd(ip + 1, bytes, limit)
      <3>1. end \in Int /\ end <= in.n /\ Blk!Reads(end)
        BY <2>1, <2>2
      <3> HIDE DEF end
      <3>2. QED  BY <1>1, <3>1, <1>a, ReadsUpTo
    <2>4. QED
      BY <1>0, <1>1, <1>a, <2>1, <2>3, InsideKept DEF BlockInv, Blk!Refuse, Blk!Goto
  <1>4. CASE ~(ll >= 15 /\ ~Taken(ip + 1, bytes, limit))
    <2>1. lit \in Nat /\ lit <= in.n /\ (ll >= 15 => lit <= in.n - 15)
      <3>1. CASE ll >= 15
        <4>1. ip + 1 \in Nat /\ limit \in Int /\ Taken(ip + 1, bytes, limit)
          <5> HIDE DEF bytes, limit, ll
          <5>1. QED  BY <1>1, <1>2, <1>4, <3>1
        <4>2. (ip + 1) + bytes <= limit
          <5> HIDE DEF bytes, limit
          <5>1. QED  BY <1>2, <4>1, LengthReads
        <4> HIDE DEF bytes, limit, lit
        <4>3. QED  BY <1>1, <1>2, <4>2
      <3>2. CASE ~(ll >= 15)
        <4> HIDE DEF bytes, limit, lit, ll
        <4>1. QED  BY <1>1, <1>2, <3>2
      <3>3. QED  BY <3>1, <3>2
    <2>2. CASE label' = "safe_literal_copy"
      <3>1. ip' = lit /\ Blk!Reads(lit) /\ UNCHANGED <<seq, op, mem>>
        BY <1>4, <2>2 DEF Blk!FastLiterals, Blk!RUN_MASK, Taken, TakenEnd, Blk!Goto
      <3> HIDE DEF lit
      <3>2. read' \in 0..in.n
        BY <1>1, <2>1, <3>1, <1>a, ReadsUpTo
      <3>3. QED
        BY <1>0, <1>1, <1>a, <2>1, <2>2, <3>1, <3>2, InsideKept DEF BlockInv
    <2>3. CASE label' # "safe_literal_copy"
      <3> DEFINE n == IF ll >= 15 THEN Blk!Over(ll, 32) ELSE 16
      <3>1. /\ label' = "fast_match" /\ ip' = lit + ll /\ op' = op + ll /\ seq' = seq
            /\ mem' = Blk!FromInput(mem, op, lit, n) /\ Blk!Reads(lit + n)
            /\ IF ll >= 15 THEN op + ll <= in.cap - 32 /\ lit + ll <= in.n - 32
                           ELSE lit <= in.n - (16 + 1)
        BY <1>4, <2>3 DEF Blk!FastLiterals, Blk!RUN_MASK, Taken, TakenEnd, Blk!Goto, Blk!FastRoom, Blk!iend, Blk!oend
      <3>2. /\ n \in Nat /\ op + n <= in.cap /\ lit + n <= in.n
            /\ op + ll <= in.cap - 32 /\ lit + ll <= in.n - 3
        <4>1. CASE ll >= 15
          <5> HIDE DEF lit, ll, bytes, limit
          <5>1. Blk!Over(ll, 32) \in Nat /\ Blk!Over(ll, 32) <= ll + 31
            <6>1. 32 \in {8, 32} /\ ll > 0
              BY <1>2, <4>1
            <6>2. Blk!Over(ll, 32) \in Nat /\ Blk!Over(ll, 32) <= ll + 32 - 1
              BY <1>2, <6>1, OverIs
            <6>3. QED  BY <1>2, <6>2
          <5>2. op + ll <= in.cap - 32 /\ lit + ll <= in.n - 32 /\ n = Blk!Over(ll, 32)
            BY <3>1, <4>1
          <5> HIDE DEF n
          <5>3. QED  BY <1>1, <1>2, <2>1, <4>1, <5>1, <5>2
        <4>2. CASE ~(ll >= 15)
          <5> HIDE DEF lit, ll, bytes, limit
          <5>1. lit <= in.n - 17 /\ n = 16
            BY <3>1, <4>2
          <5> HIDE DEF n
          <5>2. QED  BY <1>1, <1>2, <2>1, <4>2, <5>1
        <4>3. QED  BY <4>1, <4>2
      <3> HIDE DEF n, lit, ll
      <3>3. read' \in 0..in.n
        <4>1. lit + n \in Int
          BY <2>1, <3>2
        <4>2. QED  BY <1>1, <3>1, <3>2, <4>1, <1>a, ReadsUpTo
      <3>4. Inside(Blk!FromInput(mem, op, lit, n))
        <4>1. op \in Nat /\ n \in Int /\ lit \in Int
          BY <1>1, <2>1, <3>2
        <4>2. QED  BY <1>1, <3>2, <4>1, <1>a, FromInputInside
      <3>5. Inside(mem)'
        BY <1>0, <3>1, <3>4, InsideKept
      <3>6. ip' \in Nat /\ op' \in 0..in.cap
        BY <1>1, <1>2, <2>1, <3>1, <3>2
      <3>7. QED
        BY <1>0, <1>1, <1>a, <1>2, <3>1, <3>2, <3>3, <3>5, <3>6 DEF BlockInv
    <2>4. QED  BY <2>2, <2>3
  <1>5. QED  BY <1>3, <1>4

LEMMA ExtMatchInside ==
    ASSUME Blk!InputsAssumption, in \in Inputs, seq \in 1..Len(in.block), Inside(mem), op \in Nat,
           Blk!usingExtDict, Blk!Match < Blk!lowPrefix, op + Blk!Now.ml <= in.cap
    PROVE  Inside(Blk!ExtMatch)
  <1> DEFINE ml == Blk!Now.ml
             low == Blk!lowPrefix
             from == Blk!Match
             n == IF ml <= low - from THEN ml ELSE low - from
             m == Blk!Put(mem, op, n, LAMBDA k : IF from + k >= -in.hist THEN from + k ELSE Blk!Unknown)
             v == [p \in Cells |-> IF from + (p - op) >= -in.hist THEN from + (p - op) ELSE Blk!Unknown]
  <1>1. ml \in Nat /\ low \in Int /\ from \in Int /\ in.cap \in Nat /\ Cells \subseteq Int /\ from < low
    <2>1. op \in Int
      OBVIOUS
    <2>2. QED  BY <2>1, SequenceFacts, InputFacts
  <1>2. op + ml <= in.cap
    OBVIOUS
  <1>3. n \in Int /\ n <= ml /\ op + n <= in.cap /\ n >= 0
    <2> HIDE DEF ml, low, from
    <2>1. QED  BY <1>1, <1>2
  <1>4. m = [p \in Cells |-> IF p \in op..op + n - 1 THEN v[p] ELSE mem[p]]
    BY DEF Blk!Put, Inside
  <1>5. v \in [Cells -> Int]
    <2> HIDE DEF from
    <2>1. \A p \in Cells : from + (p - op) \in Int
      BY <1>1
    <2>2. QED  BY <2>1 DEF Blk!Unknown
  <1>6. Inside(m)
    <2> HIDE DEF m, v, n
    <2>1. QED  BY <1>3, <1>4, <1>5, Written
  <1> DEFINE to == op + n
             rest == ml - n
  <1>7. Blk!ExtMatch = IF rest > op + (n - low) THEN Blk!Bytewise(m, to, low, rest) ELSE Blk!Memcpy(m, to, low, rest)
    BY DEF Blk!ExtMatch
  <1>8. to \in Nat /\ rest \in Int /\ to + rest <= in.cap
    <2> HIDE DEF n, ml
    <2>1. QED  BY <1>1, <1>2, <1>3
  <1> HIDE DEF to, rest, m, low
  <1>9. Inside(Blk!Bytewise(m, to, low, rest)) /\ Inside(Blk!Memcpy(m, to, low, rest))
    BY <1>1, <1>6, <1>8, BytewiseInside, MemcpyInside
  <1>10. QED  BY <1>7, <1>9

LEMMA EighteenInside ==
    ASSUME Blk!InputsAssumption, in \in Inputs, NEW m, Inside(m), NEW to \in Nat, NEW from \in Int,
           to + 18 <= in.cap
    PROVE  Inside(Blk!Memcpy(Blk!Memcpy(Blk!Memcpy(m, to, from, 8), to + 8, from + 8, 8), to + 16, from + 16, 2))
  <1> DEFINE a == Blk!Memcpy(m, to, from, 8)
             b == Blk!Memcpy(a, to + 8, from + 8, 8)
             c == Blk!Memcpy(b, to + 16, from + 16, 2)
  <1>0. /\ in.cap \in Nat /\ to + 8 <= in.cap /\ to + 8 \in Nat /\ from + 8 \in Int /\ (to + 8) + 8 <= in.cap
        /\ to + 16 \in Nat /\ from + 16 \in Int /\ (to + 16) + 2 <= in.cap /\ 8 \in Int /\ 2 \in Int
    BY InputFacts
  <1>1. Inside(a)
    BY <1>0, MemcpyInside
  <1>2. Inside(b)
    <2> HIDE DEF a
    <2>1. QED  BY <1>0, <1>1, MemcpyInside
  <1>3. Inside(c)
    <2> HIDE DEF b
    <2>1. QED  BY <1>0, <1>2, MemcpyInside
  <1>4. QED  BY <1>3

LEMMA FastMatchStep ==
    ASSUME Blk!InputsAssumption, BlockInv, Blk!FastMatch
    PROVE  BlockInv'
  <1> DEFINE ml == Blk!Now.ml
             bytes == Blk!MatchBytes
             limit == Blk!MatchLimit
             here == ip + 2
             cpy == op + ml
  <1>0. label = "fast_match" /\ in' = in
    BY DEF Blk!FastMatch, Blk!Same
  <1>a. /\ in \in Inputs /\ read \in 0..in.n /\ op \in 0..in.cap
        /\ seq \in 1..Len(in.block) /\ Inside(mem) /\ Len(in.block) \in Nat
    BY <1>0, InputFacts DEF BlockInv
  <1>1. in.n \in Nat /\ in.cap \in Nat /\ ip \in Nat /\ op \in Nat /\ op <= in.cap - 32 /\ ip <= in.n - 3
    BY <1>0, <1>a, InputFacts DEF BlockInv
  <1>2. /\ ml \in Nat /\ ml >= 4 /\ bytes \in Nat /\ limit = in.n - 4 /\ Blk!Now.off \in Nat
        /\ Blk!Match \in Int /\ Blk!oend = in.cap
    <2>0. op \in Int
      BY <1>1
    <2>1. /\ Blk!Now.ml \in Nat /\ Blk!Now.ml >= 4 /\ Blk!MatchBytes \in Nat /\ Blk!iend = in.n
          /\ Blk!Now.off \in Nat /\ Blk!Match \in Int /\ Blk!oend = in.cap
      BY <1>a, <2>0, SequenceFacts
    <2>2. Blk!MatchLimit = in.n - 4
      BY <1>1, <2>1 DEF Blk!MatchLimit, Blk!LASTLITERALS
    <2>3. QED  BY <2>1, <2>2
  <1>3. here \in Nat /\ limit \in Int
    <2> HIDE DEF limit
    <2>1. QED  BY <1>1, <1>2
  <1>4. CASE bytes > 0 /\ ~Unguarded(here, bytes, limit)
    <2>1. Blk!Refuse /\ Blk!Reads(UnguardedEnd(here, bytes, limit))
      BY <1>4 DEF Blk!FastMatch, Unguarded, UnguardedEnd
    <2> DEFINE end == UnguardedEnd(here, bytes, limit)
    <2>2. end \in Int /\ end <= in.n
      <3> HIDE DEF bytes, limit, here
      <3>1. end \in Nat /\ end <= Blk!Larger(here + 1, limit + 1)
        BY <1>2, <1>3, <1>4, LengthReads
      <3>2. Blk!Larger(here + 1, limit + 1) <= in.n /\ Blk!Larger(here + 1, limit + 1) \in Int
        BY <1>1, <1>2, <1>3 DEF Blk!Larger, here
      <3> HIDE DEF end
      <3>3. QED  BY <1>1, <3>1, <3>2
    <2> HIDE DEF end, bytes, limit, here
    <2>3. read' \in 0..in.n
      BY <1>1, <1>a, <2>1, <2>2, ReadsUpTo DEF end
    <2>4. QED
      BY <1>0, <1>1, <1>a, <2>1, <2>3, InsideKept DEF BlockInv, Blk!Refuse, Blk!Goto
  <1>5. CASE ~(bytes > 0 /\ ~Unguarded(here, bytes, limit))
    <2>1. here + bytes \in Nat /\ here + bytes < in.n
      <3> HIDE DEF bytes, limit, here
      <3>1. CASE bytes > 0
        <4>1. here + bytes <= limit
          BY <1>2, <1>3, <1>5, <3>1, LengthReads
        <4>2. QED  BY <1>1, <1>2, <1>3, <4>1
      <3>2. CASE ~(bytes > 0)
        BY <1>1, <1>2, <1>3, <3>2 DEF here
      <3>3. QED  BY <3>1, <3>2
    <2>2. /\ Blk!Reads(here + bytes) /\ ip' = here + bytes
          /\ \/ label' = "safe_match_copy" /\ UNCHANGED <<seq, op, mem>>
             \/ label' = "error" /\ UNCHANGED <<seq, op, mem>>
             \/ /\ cpy < in.cap - 64 /\ op' = cpy /\ label' = "fast" /\ seq' = seq + 1
                /\ \/ mem' = Blk!Eighteen(mem)
                   \/ Blk!usingExtDict /\ Blk!Match < Blk!lowPrefix /\ mem' = Blk!ExtMatch
                   \/ mem' = Blk!CopyUsingOffset(mem, op, cpy, Blk!Now.off)
                   \/ mem' = Blk!WildCopy32(mem, op, Blk!Match, cpy)
      <3>1. ~(cpy >= Blk!oend - 64) => cpy < in.cap - 64
        <4> HIDE DEF ml
        <4>1. QED  BY <1>1, <1>2
      <3>2. QED
        BY <1>5, <3>1 DEF Blk!FastMatch, Unguarded, Blk!Goto, Blk!NextSequence, Blk!FASTLOOP
    <2>3. read' \in 0..in.n
      <3> HIDE DEF here, bytes
      <3>1. here + bytes \in Int /\ here + bytes <= in.n
        BY <1>1, <2>1
      <3>2. QED  BY <1>1, <1>a, <2>2, <3>1, ReadsUpTo
    <2> HIDE DEF here, bytes, limit, ml
    <2>4. CASE UNCHANGED <<seq, op, mem>> /\ label' \in {"safe_match_copy", "error"}
      <3>1. Inside(mem)'
        BY <1>0, <1>a, <2>4, InsideKept
      <3>2. QED
        BY <1>0, <1>1, <1>a, <2>1, <2>2, <2>3, <2>4, <3>1 DEF BlockInv
    <2>5. CASE /\ cpy < in.cap - 64 /\ op' = cpy /\ label' = "fast" /\ seq' = seq + 1
               /\ \/ mem' = Blk!Eighteen(mem)
                  \/ Blk!usingExtDict /\ Blk!Match < Blk!lowPrefix /\ mem' = Blk!ExtMatch
                  \/ mem' = Blk!CopyUsingOffset(mem, op, cpy, Blk!Now.off)
                  \/ mem' = Blk!WildCopy32(mem, op, Blk!Match, cpy)
      <3>0. cpy \in Nat /\ cpy < in.cap - 64 /\ op < cpy
        BY <1>1, <1>2, <2>5
      <3>1. Inside(mem')
        <4>1. CASE mem' = Blk!Eighteen(mem)
          <5>1. op + 18 <= in.cap
            BY <1>1, <1>2, <3>0
          <5>2. QED  BY <1>1, <1>2, <1>a, <4>1, <5>1, EighteenInside DEF Blk!Eighteen
        <4>2. CASE Blk!usingExtDict /\ Blk!Match < Blk!lowPrefix /\ mem' = Blk!ExtMatch
          <5>1. op + Blk!Now.ml <= in.cap
            BY <1>1, <1>2, <3>0 DEF ml
          <5>2. QED  BY <1>1, <1>a, <4>2, <5>1, ExtMatchInside
        <4>3. CASE mem' = Blk!CopyUsingOffset(mem, op, cpy, Blk!Now.off)
          <5>1. op + 16 <= in.cap /\ cpy + 8 <= in.cap /\ cpy \in Int
            BY <1>1, <1>2, <3>0
          <5> HIDE DEF cpy
          <5>2. QED  BY <1>1, <1>2, <1>a, <3>0, <4>3, <5>1, UsingOffsetInside
        <4>4. CASE mem' = Blk!WildCopy32(mem, op, Blk!Match, cpy)
          <5>1. op + 47 <= in.cap /\ cpy + 46 <= in.cap /\ cpy \in Int
            BY <1>1, <1>2, <3>0
          <5> HIDE DEF cpy
          <5>2. QED  BY <1>1, <1>2, <1>a, <4>4, <5>1, WildCopy32Inside
        <4>5. QED  BY <2>5, <4>1, <4>2, <4>3, <4>4
      <3>2. Inside(mem)'
        BY <1>0, <3>1, InsideKept
      <3>3. op' \in 0..in.cap /\ op' <= in.cap - 64 /\ seq' \in 1..(Len(in.block) + 1)
        BY <1>1, <1>a, <2>5, <3>0
      <3>4. QED
        BY <1>0, <1>a, <2>1, <2>2, <2>3, <2>5, <3>2, <3>3 DEF BlockInv
    <2>6. QED  BY <2>2, <2>4, <2>5
  <1>6. QED  BY <1>4, <1>5

LEMMA SafeSequenceStep ==
    ASSUME Blk!InputsAssumption, BlockInv, Blk!SafeSequence
    PROVE  BlockInv'
  <1> DEFINE lit == Blk!LiteralsAt(Blk!Now, ip)
             ll == Blk!Now.ll
             ml == Blk!Now.ml
             bytes == Blk!LiteralBytes
             limit == Blk!LiteralLimit
             m == Blk!FromInput(mem, op, lit, 16)
             begin == op + ll
  <1>0. label = "safe" /\ seq <= Len(in.block) /\ in' = in
    BY DEF Blk!SafeSequence, Blk!Same
  <1>a. /\ in \in Inputs /\ read \in 0..in.n /\ op \in 0..in.cap
        /\ seq \in 1..Len(in.block) /\ Inside(mem) /\ Len(in.block) \in Nat
    BY <1>0, InputFacts DEF BlockInv
  <1>1. in.n \in Nat /\ in.cap \in Nat /\ ip \in Nat /\ op \in Nat /\ op <= in.cap /\ ip < in.n
    BY <1>0, <1>a, InputFacts DEF BlockInv
  <1>b. Blk!MatchBytes \in Nat /\ Blk!Now.off \in Nat /\ Blk!iend = in.n /\ Blk!oend = in.cap
    BY <1>a, SequenceFacts
  <1>2. /\ ll \in Nat /\ ml \in Nat /\ ml >= 4 /\ bytes \in Nat /\ lit = ip + 1 + bytes /\ limit = in.n - 15
        /\ ll < 15 => bytes = 0
    <2>0. ip \in Int
      BY <1>1
    <2>1. /\ Blk!Now.ll \in Nat /\ Blk!Now.ml \in Nat /\ Blk!Now.ml >= 4 /\ Blk!LiteralBytes \in Nat /\ Blk!iend = in.n
          /\ Blk!LiteralsAt(Blk!Now, ip) = ip + 1 + Blk!LiteralBytes
          /\ Blk!Now.ll < 15 => Blk!LiteralBytes = 0
      BY <1>1, <1>a, <2>0, SequenceFacts
    <2>2. Blk!LiteralLimit = in.n - 15
      BY <2>1 DEF Blk!LiteralLimit, Blk!RUN_MASK
    <2>3. QED  BY <2>1, <2>2
  <1>3. CASE Blk!Shortcut
    <2>1. ll < 15 /\ ip + 1 < in.n - 16 /\ op <= in.cap - 32
      <3>1. Blk!Now.ll < 15 /\ ip + 1 < in.n - (14 + 2) /\ op <= in.cap - (14 + 18)
        BY <1>3, <1>b DEF Blk!Shortcut, Blk!RUN_MASK
      <3> HIDE DEF ll
      <3>2. QED  BY <1>1, <3>1 DEF ll
    <2>2. lit = ip + 1
      <3> HIDE DEF lit, ll, bytes, limit, ml
      <3>1. QED  BY <1>1, <1>2, <2>1
    <2>3. /\ Blk!Reads(Blk!Larger(lit + 16, lit + ll + 2)) /\ ip' = lit + ll + 2
          /\ \/ /\ ml <= 18 /\ op' = begin + ml /\ label' = "safe" /\ seq' = seq + 1
                /\ mem' = Blk!Memcpy(Blk!Memcpy(Blk!Memcpy(m, begin, begin - Blk!Now.off, 8),
                                    begin + 8, begin - Blk!Now.off + 8, 8), begin + 16, begin - Blk!Now.off + 16, 2)
             \/ mem' = m /\ op' = begin /\ label' = "copy_match" /\ seq' = seq
      <3>1. Blk!MatchBytes = 0 => ml <= 18
        <4>1. ml - 4 < 15 \/ (ml - 4 - 15) \div 255 \in Nat
          <5> HIDE DEF ml
          <5>1. QED  BY <1>2
        <4>2. Blk!MatchBytes = IF ml - 4 < 15 THEN 0 ELSE (ml - 4 - 15) \div 255 + 1
          BY DEF Blk!MatchBytes, Blk!Extra, Blk!RUN_MASK, Blk!MINMATCH
        <4> HIDE DEF ml
        <4>3. QED  BY <1>2, <4>1, <4>2
      <3>2. QED
        BY <1>3, <3>1 DEF Blk!SafeSequence, Blk!Goto, Blk!NextSequence
    <2> DEFINE end == Blk!Larger(lit + 16, lit + ll + 2)
    <2>4. end \in Int /\ end <= in.n
      <3> HIDE DEF lit, ll, bytes, limit, ml
      <3>1. QED  BY <1>1, <1>2, <2>1, <2>2 DEF Blk!Larger
    <2>5. read' \in 0..in.n
      <3>1. Blk!Reads(end)
        BY <2>3
      <3> HIDE DEF end
      <3>2. QED  BY <1>1, <1>a, <2>4, <3>1, ReadsUpTo
    <2>6. Inside(m)
      <3>1. lit \in Int /\ op + 16 <= in.cap /\ 16 \in Int
        <4> HIDE DEF lit, ll
        <4>1. QED  BY <1>1, <2>1, <2>2
      <3> HIDE DEF lit
      <3>2. QED  BY <1>1, <1>a, <3>1, FromInputInside
    <2>7. begin \in Nat /\ begin + 18 <= in.cap /\ ip' \in Nat /\ ip' < in.n
      <3> HIDE DEF lit, ll, bytes, limit, ml
      <3>1. QED  BY <1>1, <1>2, <2>1, <2>2, <2>3
    <2>8. CASE mem' = m /\ op' = begin /\ label' = "copy_match" /\ seq' = seq
      <3> HIDE DEF m, begin
      <3>1. Inside(mem)'
        BY <1>0, <2>6, <2>8, InsideKept
      <3>2. op' \in 0..in.cap /\ op' <= in.cap - 12
        BY <1>1, <2>7, <2>8
      <3>3. QED
        BY <1>0, <1>a, <2>5, <2>7, <2>8, <3>1, <3>2 DEF BlockInv
    <2>9. CASE /\ ml <= 18 /\ op' = begin + ml /\ label' = "safe" /\ seq' = seq + 1
               /\ mem' = Blk!Memcpy(Blk!Memcpy(Blk!Memcpy(m, begin, begin - Blk!Now.off, 8),
                                    begin + 8, begin - Blk!Now.off + 8, 8), begin + 16, begin - Blk!Now.off + 16, 2)
      <3> DEFINE from == begin - Blk!Now.off
      <3>0. from \in Int
        BY <1>b, <2>7
      <3> HIDE DEF m, begin, from
      <3>1. mem' = Blk!Memcpy(Blk!Memcpy(Blk!Memcpy(m, begin, from, 8), begin + 8, from + 8, 8), begin + 16, from + 16, 2)
        BY <2>9 DEF from
      <3>2. Inside(mem')
        BY <1>a, <2>6, <2>7, <3>0, <3>1, EighteenInside
      <3>3. Inside(mem)'
        BY <1>0, <3>2, InsideKept
      <3>4. op' \in 0..in.cap /\ seq' \in 1..(Len(in.block) + 1)
        <4> HIDE DEF ml
        <4>1. ml <= 18 /\ op' = begin + ml /\ seq' = seq + 1
          BY <2>9
        <4>2. op' \in 0..in.cap
          BY <1>1, <1>2, <2>7, <4>1
        <4>3. QED  BY <1>a, <4>1, <4>2
      <3>5. QED
        BY <1>0, <1>a, <2>5, <2>7, <2>9, <3>3, <3>4 DEF BlockInv
    <2>10. QED  BY <2>3, <2>8, <2>9
  <1>4. CASE ~Blk!Shortcut /\ ll >= 15 /\ ~Taken(ip + 1, bytes, limit)
    <2> DEFINE end == TakenEnd(ip + 1, bytes, limit)
    <2>1. Blk!Refuse /\ Blk!Reads(end)
      BY <1>4 DEF Blk!SafeSequence, Blk!RUN_MASK, Taken, TakenEnd
    <2>2. end \in Int /\ end <= in.n
      <3> HIDE DEF bytes, limit
      <3>1. ip + 1 \in Nat /\ limit \in Int /\ Blk!Larger(ip + 1, limit + 1) <= in.n
            /\ Blk!Larger(ip + 1, limit + 1) \in Int
        BY <1>1, <1>2 DEF Blk!Larger
      <3>2. end \in Nat /\ end <= Blk!Larger(ip + 1, limit + 1)
        BY <1>2, <1>4, <3>1, LengthReads
      <3> HIDE DEF end
      <3>3. QED  BY <1>1, <3>1, <3>2
    <2> HIDE DEF end
    <2>3. read' \in 0..in.n
      BY <1>1, <1>a, <2>1, <2>2, ReadsUpTo
    <2>4. QED
      BY <1>0, <1>1, <1>a, <2>1, <2>3, InsideKept DEF BlockInv, Blk!Refuse, Blk!Goto
  <1>5. CASE ~Blk!Shortcut /\ ~(ll >= 15 /\ ~Taken(ip + 1, bytes, limit))
    <2>1. label' = "safe_literal_copy" /\ ip' = lit /\ Blk!Reads(lit) /\ UNCHANGED <<seq, op, mem>>
      BY <1>5 DEF Blk!SafeSequence, Blk!RUN_MASK, Taken, Blk!Goto
    <2>2. lit \in Nat /\ lit <= in.n
      <3> HIDE DEF lit, bytes, limit, ll
      <3>1. CASE ll >= 15
        <4>1. ip + 1 \in Nat /\ limit \in Int /\ Taken(ip + 1, bytes, limit)
          BY <1>1, <1>2, <1>5, <3>1
        <4>2. (ip + 1) + bytes <= limit
          BY <1>2, <4>1, LengthReads
        <4>3. QED  BY <1>1, <1>2, <4>2
      <3>2. CASE ~(ll >= 15)
        BY <1>1, <1>2, <3>2
      <3>3. QED  BY <3>1, <3>2
    <2> HIDE DEF lit
    <2>3. read' \in 0..in.n
      BY <1>1, <1>a, <2>1, <2>2, ReadsUpTo
    <2>4. Inside(mem)'
      BY <1>0, <1>a, <2>1, InsideKept
    <2>5. QED
      BY <1>0, <1>a, <2>1, <2>2, <2>3, <2>4 DEF BlockInv
  <1>6. QED  BY <1>3, <1>4, <1>5

LEMMA SafeLiteralStep ==
    ASSUME Blk!InputsAssumption, BlockInv, Blk!SafeLiteralCopy
    PROVE  BlockInv'
  <1> DEFINE ll == Blk!Now.ll
             over == Blk!Over(ll, 8)
  <1>0. label = "safe_literal_copy" /\ in' = in
    BY DEF Blk!SafeLiteralCopy, Blk!Same
  <1>a. /\ in \in Inputs /\ read \in 0..in.n /\ op \in 0..in.cap
        /\ seq \in 1..Len(in.block) /\ Inside(mem) /\ Len(in.block) \in Nat
    BY <1>0, InputFacts DEF BlockInv
  <1>1. in.n \in Nat /\ in.cap \in Nat /\ ip \in Nat /\ op \in Nat /\ op <= in.cap /\ ip <= in.n
    BY <1>0, <1>a, InputFacts DEF BlockInv
  <1>2. ll \in Nat /\ Blk!iend = in.n /\ Blk!oend = in.cap
    BY <1>a, SequenceFacts
  <1>3. over \in Nat /\ over <= ll + 8 /\ (ll > 0 => over <= ll + 7)
    <2>1. 8 \in {8, 32}
      OBVIOUS
    <2> HIDE DEF ll
    <2>2. Blk!Over(ll, 8) \in Nat /\ Blk!Over(ll, 8) <= ll + 8 /\ (ll > 0 => Blk!Over(ll, 8) <= ll + 8 - 1)
      BY <1>2, <2>1, OverIs
    <2>3. QED  BY <1>2, <2>2
  <1>4. CASE Blk!LastSequence /\ (ip + ll # in.n \/ op + ll > in.cap)
    <2>1. Blk!Refuse /\ read' = read
      BY <1>2, <1>4 DEF Blk!SafeLiteralCopy
    <2>2. QED
      BY <1>0, <1>1, <1>a, <2>1, InsideKept DEF BlockInv, Blk!Refuse, Blk!Goto
  <1>5. CASE Blk!LastSequence /\ ~(ip + ll # in.n \/ op + ll > in.cap)
    <2>1. /\ mem' = Blk!FromInput(mem, op, ip, ll) /\ Blk!Reads(ip + ll)
          /\ ip' = ip + ll /\ op' = op + ll /\ label' = "done" /\ seq' = seq
      BY <1>2, <1>5 DEF Blk!SafeLiteralCopy, Blk!Goto
    <2>2. ip + ll = in.n /\ op + ll <= in.cap /\ op + ll \in Nat
      <3> HIDE DEF ll
      <3>1. QED  BY <1>1, <1>2, <1>5
    <2> HIDE DEF ll
    <2>3. read' \in 0..in.n
      <3>1. ip + ll \in Int /\ ip + ll <= in.n
        BY <1>1, <2>2
      <3>2. QED  BY <1>1, <1>a, <2>1, <3>1, ReadsUpTo
    <2>4. Inside(mem')
      <3>1. ll \in Int /\ ip \in Int
        BY <1>1, <1>2
      <3>2. QED  BY <1>1, <1>a, <2>1, <2>2, <3>1, FromInputInside
    <2>5. Inside(mem)'
      BY <1>0, <2>4, InsideKept
    <2>6. op' \in 0..in.cap /\ ip' \in Nat
      BY <1>1, <2>1, <2>2
    <2>7. QED
      BY <1>0, <1>a, <2>1, <2>3, <2>5, <2>6 DEF BlockInv
  <1>6. CASE ~Blk!LastSequence
    <2>1. /\ mem' = Blk!FromInput(mem, op, ip, over) /\ Blk!Reads(ip + Blk!Larger(over, ll + 2))
          /\ ip' = ip + ll + 2 /\ op' = op + ll /\ label' = "copy_match" /\ seq' = seq
      BY <1>6 DEF Blk!SafeLiteralCopy, Blk!Goto, Blk!Wild
    <2>2. op + ll <= in.cap - 12 /\ ip + ll <= in.n - 8
      <3>1. ~(op + ll > in.cap - 12) /\ ~(ip + ll > in.n - (2 + 1 + 5))
        BY <1>2, <1>6 DEF Blk!LastSequence, Blk!MFLIMIT, Blk!LASTLITERALS
      <3> HIDE DEF ll
      <3>2. QED  BY <1>1, <1>2, <3>1
    <2> DEFINE end == ip + Blk!Larger(over, ll + 2)
    <2> HIDE DEF ll, over
    <2>3. end \in Int /\ end <= in.n
      BY <1>1, <1>2, <1>3, <2>2 DEF Blk!Larger
    <2>4. read' \in 0..in.n
      <3>1. Blk!Reads(end)
        BY <2>1
      <3> HIDE DEF end
      <3>2. QED  BY <1>1, <1>a, <2>3, <3>1, ReadsUpTo
    <2>5. Inside(mem')
      <3>1. over \in Int /\ ip \in Int /\ op + over <= in.cap
        BY <1>1, <1>2, <1>3, <2>2
      <3>2. QED  BY <1>1, <1>a, <2>1, <3>1, FromInputInside
    <2>6. Inside(mem)'
      BY <1>0, <2>5, InsideKept
    <2>7. op' \in 0..in.cap /\ op' <= in.cap - 12 /\ ip' \in Nat /\ ip' < in.n
      BY <1>1, <1>2, <2>1, <2>2
    <2>8. QED
      BY <1>0, <1>a, <2>1, <2>4, <2>6, <2>7 DEF BlockInv
  <1>7. QED  BY <1>4, <1>5, <1>6

LEMMA CopyMatchStep ==
    ASSUME Blk!InputsAssumption, BlockInv, Blk!CopyMatch
    PROVE  BlockInv'
  <1> DEFINE bytes == Blk!MatchBytes
             limit == Blk!MatchLimit
  <1>0. label = "copy_match" /\ in' = in
    BY DEF Blk!CopyMatch, Blk!Same
  <1>a. /\ in \in Inputs /\ read \in 0..in.n /\ op \in 0..in.cap
        /\ seq \in 1..Len(in.block) /\ Inside(mem) /\ Len(in.block) \in Nat
    BY <1>0, InputFacts DEF BlockInv
  <1>1. in.n \in Nat /\ in.cap \in Nat /\ ip \in Nat /\ op \in Nat /\ op <= in.cap - 12 /\ ip < in.n
    BY <1>0, <1>a, InputFacts DEF BlockInv
  <1>2. bytes \in Nat /\ limit = in.n - 4
    <2>1. Blk!MatchBytes \in Nat /\ Blk!iend = in.n
      BY <1>a, SequenceFacts
    <2>2. Blk!MatchLimit = in.n - 4
      BY <1>1, <2>1 DEF Blk!MatchLimit, Blk!LASTLITERALS
    <2>3. QED  BY <2>1, <2>2
  <1>3. CASE bytes > 0 /\ ~Unguarded(ip, bytes, limit)
    <2> DEFINE end == UnguardedEnd(ip, bytes, limit)
    <2>1. Blk!Refuse /\ Blk!Reads(end)
      BY <1>3 DEF Blk!CopyMatch, Unguarded, UnguardedEnd
    <2>2. end \in Int /\ end <= in.n
      <3> HIDE DEF bytes, limit
      <3>0. limit \in Int
        BY <1>1, <1>2
      <3>1. end \in Nat /\ end <= Blk!Larger(ip + 1, limit + 1)
        BY <1>1, <1>2, <1>3, <3>0, LengthReads
      <3>2. Blk!Larger(ip + 1, limit + 1) <= in.n /\ Blk!Larger(ip + 1, limit + 1) \in Int
        BY <1>1, <1>2 DEF Blk!Larger
      <3> HIDE DEF end
      <3>3. QED  BY <1>1, <3>1, <3>2
    <2> HIDE DEF end
    <2>3. read' \in 0..in.n
      BY <1>1, <1>a, <2>1, <2>2, ReadsUpTo
    <2>4. QED
      BY <1>0, <1>1, <1>a, <2>1, <2>3, InsideKept DEF BlockInv, Blk!Refuse, Blk!Goto
  <1>4. CASE ~(bytes > 0 /\ ~Unguarded(ip, bytes, limit))
    <2>1. /\ label' = "safe_match_copy" /\ ip' = ip + bytes /\ Blk!Reads(ip + bytes)
          /\ UNCHANGED <<seq, op, mem>>
      BY <1>4 DEF Blk!CopyMatch, Unguarded, Blk!Goto
    <2> HIDE DEF bytes, limit
    <2>2. ip + bytes \in Nat /\ ip + bytes < in.n
      <3>0. limit \in Int
        BY <1>1, <1>2
      <3>1. CASE bytes > 0
        <4>1. ip + bytes <= limit
          BY <1>1, <1>2, <1>4, <3>0, <3>1, LengthReads
        <4>2. QED  BY <1>1, <1>2, <4>1
      <3>2. CASE ~(bytes > 0)
        BY <1>1, <1>2, <3>2
      <3>3. QED  BY <3>1, <3>2
    <2>3. read' \in 0..in.n
      <3>1. ip + bytes \in Int /\ ip + bytes <= in.n
        BY <1>1, <2>2
      <3>2. QED  BY <1>1, <1>a, <2>1, <3>1, ReadsUpTo
    <2>4. Inside(mem)'
      BY <1>0, <1>a, <2>1, InsideKept
    <2>5. QED
      BY <1>0, <1>1, <1>a, <2>1, <2>2, <2>3, <2>4 DEF BlockInv
  <1>5. QED  BY <1>3, <1>4

\* Strides up to the last that fits, and single bytes.
LEMMA NearEndInside ==
    ASSUME Blk!InputsAssumption, in \in Inputs, NEW m, Inside(m), NEW to \in Nat, NEW from \in Int,
           NEW cpy \in Int, cpy <= in.cap
    PROVE  Inside(Blk!NearEnd(m, to, from, cpy))
  <1> DEFINE limit == Blk!oend - 7
  <1>1. in.cap \in Nat /\ limit = in.cap - 7
    BY InputFacts DEF Blk!oend
  <1>2. CASE to < limit
    <2> DEFINE w == Blk!WildCopy8(m, to, from, limit)
    <2> HIDE DEF limit
    <2>1. Inside(w)
      <3>1. limit \in Int /\ to + 8 <= in.cap /\ limit + 7 <= in.cap
        BY <1>1, <1>2
      <3>2. QED  BY <3>1, WildCopyInside
    <2> HIDE DEF w
    <2>2. Inside(Blk!Bytewise(w, limit, from + limit - to, cpy - limit))
      <3>1. limit \in Nat /\ from + limit - to \in Int /\ cpy - limit \in Int /\ limit + (cpy - limit) <= in.cap
        BY <1>1, <1>2
      <3>2. QED  BY <2>1, <3>1, BytewiseInside
    <2>3. QED  BY <1>2, <2>2 DEF Blk!NearEnd, Blk!Wild, w, limit
  <1>3. CASE ~(to < limit)
    <2>1. cpy - to \in Int /\ to + (cpy - to) <= in.cap
      BY <1>1
    <2>2. Inside(Blk!Bytewise(m, to, from, cpy - to))
      BY <2>1, BytewiseInside
    <2>3. QED  BY <1>3, <2>2 DEF Blk!NearEnd, Blk!Wild
  <1>4. QED  BY <1>2, <1>3

LEMMA SafeMatchStep ==
    ASSUME Blk!InputsAssumption, BlockInv, Blk!SafeMatchCopy
    PROVE  BlockInv'
  <1> DEFINE ml == Blk!Now.ml
             cpy == op + ml
             m == Blk!FirstEight(mem, op, Blk!Now.off)
             from == Blk!GoesOnAt(op, Blk!Now.off)
             second == Blk!Memcpy(m, op + 8, from, 8)
  <1>0. label = "safe_match_copy" /\ in' = in /\ read' = read
    BY DEF Blk!SafeMatchCopy, Blk!Same
  <1>a. /\ in \in Inputs /\ read \in 0..in.n /\ op \in 0..in.cap
        /\ seq \in 1..Len(in.block) /\ Inside(mem) /\ Len(in.block) \in Nat
    BY <1>0, InputFacts DEF BlockInv
  <1>1. in.n \in Nat /\ in.cap \in Nat /\ ip \in Nat /\ op \in Nat /\ op <= in.cap - 12 /\ ip < in.n
    BY <1>0, <1>a, InputFacts DEF BlockInv
  <1>2. ml \in Nat /\ ml >= 4 /\ Blk!Now.off \in Nat /\ Blk!oend = in.cap
    BY <1>a, SequenceFacts
  <1>3. from \in Int
    <2>1. op \in Int
      BY <1>1
    <2>2. QED  BY <1>2, <2>1, GoesOnSomewhere
  <1>4. Inside(m)
    <2>1. op + 8 <= in.cap
      BY <1>1
    <2>2. QED  BY <1>1, <1>2, <1>a, <2>1, FirstEightInside
  <1>5. CASE Blk!Refuse
    BY <1>0, <1>1, <1>5, <1>a, InsideKept DEF BlockInv, Blk!Refuse, Blk!Goto
  <1>6. CASE label' = "error" /\ mem' = m /\ UNCHANGED <<seq, ip, op>>
    <2>1. Inside(mem)'
      <3> HIDE DEF m
      <3>1. QED  BY <1>0, <1>4, <1>6, InsideKept
    <2>2. QED
      BY <1>0, <1>1, <1>6, <1>a, <2>1 DEF BlockInv
  <1>7. CASE /\ label' = "safe" /\ seq' = seq + 1 /\ op' = cpy /\ ip' = ip /\ cpy <= in.cap - 5
             /\ \/ Blk!usingExtDict /\ Blk!Match < Blk!lowPrefix /\ mem' = Blk!ExtMatch
                \/ mem' = Blk!NearEnd(m, op + 8, from, cpy)
                \/ ml > 16 /\ cpy <= in.cap - 12 /\ mem' = Blk!WildCopy8(second, op + 16, from + 8, cpy)
                \/ cpy <= in.cap - 12 /\ mem' = second
    <2>1. cpy \in Nat /\ cpy <= in.cap /\ op + 4 <= cpy
      <3> HIDE DEF ml
      <3>1. QED  BY <1>1, <1>2, <1>7
    <2>2. ASSUME cpy <= in.cap - 12 PROVE Inside(second)
      <3>1. op + 8 \in Nat /\ (op + 8) + 8 <= in.cap /\ 8 \in Int
        <4> HIDE DEF cpy
        <4>1. QED  BY <1>1, <2>1, <2>2
      <3> HIDE DEF m, from
      <3>2. QED  BY <1>3, <1>4, <1>a, <3>1, MemcpyInside
    <2>3. Inside(mem')
      <3>1. CASE Blk!usingExtDict /\ Blk!Match < Blk!lowPrefix /\ mem' = Blk!ExtMatch
        <4>1. op + Blk!Now.ml <= in.cap
          BY <2>1
        <4>2. QED  BY <1>1, <1>a, <3>1, <4>1, ExtMatchInside
      <3>2. CASE mem' = Blk!NearEnd(m, op + 8, from, cpy)
        <4>1. op + 8 \in Nat /\ cpy \in Int
          BY <1>1, <2>1
        <4> HIDE DEF m, from, cpy
        <4>2. QED  BY <1>3, <1>4, <1>a, <2>1, <3>2, <4>1, NearEndInside
      <3>3. CASE ml > 16 /\ cpy <= in.cap - 12 /\ mem' = Blk!WildCopy8(second, op + 16, from + 8, cpy)
        <4>1. op + 16 < cpy
          <5> HIDE DEF ml
          <5>1. QED  BY <1>1, <1>2, <3>3
        <4>2. op + 16 \in Nat /\ from + 8 \in Int /\ cpy \in Int /\ (op + 16) + 8 <= in.cap /\ cpy + 7 <= in.cap
          <5> HIDE DEF cpy, from
          <5>1. QED  BY <1>1, <1>3, <2>1, <3>3, <4>1
        <4> HIDE DEF second, from, cpy
        <4>3. QED  BY <1>a, <2>2, <3>3, <4>2, WildCopyInside
      <3>4. CASE cpy <= in.cap - 12 /\ mem' = second
        BY <2>2, <3>4
      <3>5. QED  BY <1>7, <3>1, <3>2, <3>3, <3>4
    <2>4. Inside(mem)'
      BY <1>0, <2>3, InsideKept
    <2>5. op' \in 0..in.cap /\ seq' \in 1..(Len(in.block) + 1)
      <3> HIDE DEF cpy
      <3>1. QED  BY <1>1, <1>a, <1>7, <2>1
    <2>6. QED
      BY <1>0, <1>1, <1>a, <1>7, <2>4, <2>5 DEF BlockInv
  <1>8. \/ Blk!Refuse
        \/ label' = "error" /\ mem' = m /\ UNCHANGED <<seq, ip, op>>
        \/ /\ label' = "safe" /\ seq' = seq + 1 /\ op' = cpy /\ ip' = ip /\ cpy <= in.cap - 5
           /\ \/ Blk!usingExtDict /\ Blk!Match < Blk!lowPrefix /\ mem' = Blk!ExtMatch
              \/ mem' = Blk!NearEnd(m, op + 8, from, cpy)
              \/ ml > 16 /\ cpy <= in.cap - 12 /\ mem' = Blk!WildCopy8(second, op + 16, from + 8, cpy)
              \/ cpy <= in.cap - 12 /\ mem' = second
    <2>1. /\ ~(cpy > Blk!oend - 5) => cpy <= in.cap - 5
          /\ ~(cpy > Blk!oend - 12) => cpy <= in.cap - 5 /\ cpy <= in.cap - 12
      <3> HIDE DEF ml
      <3>1. QED  BY <1>1, <1>2
    <2>2. QED
      BY <2>1 DEF Blk!SafeMatchCopy, Blk!FromExtDict, Blk!Goto, Blk!NextSequence, Blk!SAFEGUARD, Blk!LASTLITERALS
  <1>9. QED  BY <1>5, <1>6, <1>7, <1>8

LEMMA BlockStep ==
    ASSUME Blk!InputsAssumption, BlockInv, [Blk!Next]_(Blk!vars)
    PROVE  BlockInv'
  <1>1. CASE UNCHANGED Blk!vars
    <2>1. UNCHANGED <<in, label, seq, ip, op, mem, read>>
      BY <1>1 DEF Blk!vars
    <2>2. Inside(mem)'
      BY <2>1, InsideKept DEF BlockInv
    <2>3. QED  BY <2>1, <2>2 DEF BlockInv
  <1>2. CASE Blk!Next
    BY <1>2, StartStep, FastLiteralsStep, FastMatchStep, SafeSequenceStep, SafeLiteralStep,
       CopyMatchStep, SafeMatchStep DEF Blk!Next
  <1>3. QED  BY <1>1, <1>2

\* For every block, damaged ones too, any room and any history, no stride of the
\* decoder writes outside the room or into the history, and no byte behind the input
\* is read.
THEOREM BlocksStayInside ==
    ASSUME Blk!InputsAssumption
    PROVE  Spec => []BlockInside
  <1>1. Init => BlockInv
    BY BlockBegins DEF Init
  <1>2. [Next]_all => [Blk!Next]_(Blk!vars)
    BY DEF Next, FrameTurn, StreamNext, BlockNext, HashNext, all, block_vars, Blk!vars
  <1>3. BlockInv /\ [Blk!Next]_(Blk!vars) => BlockInv'
    BY BlockStep
  <1>4. BlockInv => BlockInside
    <2> SUFFICES ASSUME BlockInv PROVE BlockInside
      OBVIOUS
    <2>1. Blk!TypeOK /\ Blk!WritesInside
      BY DEF BlockInv, Inside, Blk!TypeOK, Blk!WritesInside
    <2>2. Blk!ReadsInside
      <3>1. in.n \in Nat
        BY InputFacts DEF BlockInv
      <3>2. QED  BY <3>1 DEF BlockInv, Blk!ReadsInside
    <2>3. QED  BY <2>1, <2>2 DEF BlockInside
  <1>5. QED  BY <1>1, <1>2, <1>3, <1>4, PTL DEF Spec
=============================================================================
