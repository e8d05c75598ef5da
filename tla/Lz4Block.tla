------------------------------- MODULE Lz4Block -------------------------------
(***************************************************************************)
(* LZ4_decompress_safe_usingDict: the decoder of one LZ4 block.  It copies *)
(* in strides that run over the end of what they copy, so the distances it *)
(* keeps from the ends of its input and output decide whether it stays in  *)
(* its buffers.  A step is the literals or the match of one sequence; what *)
(* memory holds is told byte by byte.  NDEBUG is set and size_t has 64     *)
(* bits; decode_full_block is the only mode LZ4F_decompress asks for.      *)
(***************************************************************************)
EXTENDS Integers, Sequences

CONSTANTS
    Inputs,       \* [block, n, cap, hist, adjacent, fast]
    MaxDistance   \* the largest offset, 65535 in the code

(***************************************************************************)
(* A block is a sequence of [ll, off, ml], of which the first n bytes are  *)
(* given.  cap is maxOutputSize; hist bytes of history lie in front of the *)
(* output if adjacent, else elsewhere.  fast is LZ4_FAST_DEC_LOOP.         *)
(***************************************************************************)
InputsAssumption ==
    /\ MaxDistance \in Nat
    /\ \A i \in Inputs :
        /\ i.n \in Nat /\ i.cap \in Nat /\ i.hist \in Nat
        /\ i.adjacent \in BOOLEAN /\ i.fast \in BOOLEAN
        /\ i.block \in Seq([ll : Nat, off : 0..MaxDistance, ml : Nat \ 0..3])

VARIABLES
    in,      \* the input
    pc,      \* "start", the labels of the code, "done" or "error"
    seq,     \* the sequence that is read
    ip, op,  \* positions in the input and in the output
    mem,     \* the output, what lies before it and behind it
    read     \* end of what was read of the input

vars == <<in, pc, seq, ip, op, mem, read>>

MINMATCH == 4
LASTLITERALS == 5
MFLIMIT == 12
SAFEGUARD == 12
FASTLOOP == 64
RUN_MASK == 15
Wild == 8

\* Byte p of the input is p, and the byte k before the output is -k.
Zero == 1000000
Unknown == 1000001
Untouched == 1000002
Behind == 64

Larger(a, b) == IF a > b THEN a ELSE b
iend == in.n
oend == in.cap
Now == in.block[seq]
Front == IF in.adjacent THEN in.hist ELSE 0

-----------------------------------------------------------------------------
(* LZ4_decompress_safe_usingDict: the dictionary.                          *)

Prefix64k == in.adjacent /\ in.hist >= MaxDistance
lowPrefix == IF Prefix64k THEN -(MaxDistance + 1) ELSE -Front
dictSize == IF in.adjacent THEN 0 ELSE in.hist
usingExtDict == ~in.adjacent /\ in.hist > 0

Init ==
    /\ in \in Inputs
    /\ pc = "start" /\ seq = 1 /\ ip = 0 /\ op = 0 /\ read = 0
    /\ mem = [p \in -Front..in.cap + Behind |-> IF p < 0 THEN p ELSE Untouched]

-----------------------------------------------------------------------------
(* The block as it was written.                                            *)

Extra(length, mask) == IF length < mask THEN 0 ELSE (length - mask) \div 255 + 1
LiteralsAt(s, at) == at + 1 + Extra(s.ll, RUN_MASK)
Encoded ==
    LET at[k \in 1..Len(in.block) + 1] ==
            IF k = 1 THEN 0
            ELSE LET s == in.block[k - 1]
                 IN  LiteralsAt(s, at[k - 1]) + s.ll + 2 + Extra(s.ml - MINMATCH, RUN_MASK)
    IN  at
Starts ==
    LET at[k \in 1..Len(in.block) + 1] ==
            IF k = 1 THEN 0 ELSE at[k - 1] + in.block[k - 1].ll + in.block[k - 1].ml
    IN  at

\* The output, byte by byte, if the input ends with the literals of sequence k.
Total(k) == Starts[k] + in.block[k].ll
Content(k) ==
    LET v[p \in 0..Total(k) - 1] ==
            LET j == CHOOSE j \in 1..k : Starts[j] <= p /\ p < Starts[j + 1]
                s == in.block[j]
                m == Starts[j] + s.ll
            IN  IF p < m THEN LiteralsAt(s, Encoded[j]) + p - Starts[j]
                ELSE IF s.off = 0 THEN Zero
                ELSE LET from == m - s.off + ((p - m) % s.off)
                     IN  IF from < 0 THEN from ELSE v[from]
    IN  v

EndsWith(k) == in.n = LiteralsAt(in.block[k], Encoded[k]) + in.block[k].ll
OffsetOk(j) == in.block[j].off \in 1..Starts[j] + in.block[j].ll + in.hist

\* The rules of the format: the last five bytes are literals, and the last match
\* begins twelve bytes before the end.
WellFormed ==
    \E k \in 1..Len(in.block) :
        /\ EndsWith(k) /\ Total(k) <= in.cap
        /\ \A j \in 1..k - 1 : OffsetOk(j)
        /\ k > 1 => Total(k) - Starts[k] >= LASTLITERALS /\ Total(k) - (Starts[k] - in.block[k - 1].ml) >= MFLIMIT

-----------------------------------------------------------------------------
(* Copies.                                                                 *)

Byte(m, p) == IF p \notin DOMAIN m \/ m[p] = Untouched THEN Unknown ELSE m[p]
Put(m, to, n, value(_)) == [p \in DOMAIN m |-> IF p \in to..to + n - 1 THEN value(p - to) ELSE m[p]]

\* memcpy; what it does to areas that overlap is not defined.
Memcpy(m, to, from, n) ==
    LET overlap == to < from + n /\ from < to + n /\ to # from
    IN  Put(m, to, n, LAMBDA k : IF overlap THEN Unknown ELSE Byte(m, from + k))

\* Strides of n bytes, the last of which may run over the end.
Strides(m, to, from, end, n) ==
    LET count == Larger(1, (end - to + n - 1) \div n)
        f[k \in 0..count] == IF k = 0 THEN m ELSE Memcpy(f[k - 1], to + n * (k - 1), from + n * (k - 1), n)
    IN  f[count]
WildCopy8(m, to, from, end) == Strides(m, to, from, end, 8)

\* Two strides of 16 at a time.
WildCopy32(m, to, from, end) ==
    Strides(m, to, from, to + 32 * Larger(1, (end - to + 31) \div 32), 16)
Bytewise(m, to, from, n) == IF n <= 0 THEN m ELSE Strides(m, to, from, to + n, 1)

FromInput(m, to, at, n) == Put(m, to, n, LAMBDA k : IF at + k < in.n THEN at + k ELSE Unknown)
Over(n, stride) == stride * Larger(1, (n + stride - 1) \div stride)

inc32table == <<0, 1, 2, 1, 0, 4, 4, 4>>
dec64table == <<0, 0, 0, -1, -4, 1, 2, 3>>

\* The first eight bytes of a match, and how far behind op + 8 it goes on.
FirstEight(m, to, offset) ==
    IF offset >= 8 THEN Memcpy(m, to, to - offset, 8)
    ELSE Memcpy(Bytewise(Put(m, to, 4, LAMBDA k : Zero), to, to - offset, 4),
                to + 4, to - offset + inc32table[offset + 1], 4)
GoesOnAt(to, offset) ==
    to - offset + IF offset >= 8 THEN 8 ELSE inc32table[offset + 1] - dec64table[offset + 1]

\* LZ4_memcpy_using_offset.
CopyUsingOffset(m, to, end, offset) ==
    IF offset \in {1, 2, 4}
    THEN Put(m, to, Over(end - to, 8), LAMBDA k : Byte(m, to - offset + (k % offset)))
    ELSE WildCopy8(FirstEight(m, to, offset), to + 8, GoesOnAt(to, offset), end)

-----------------------------------------------------------------------------
(* Steps.                                                                  *)

Goto(label) == pc' = label
Reads(end) == read' = Larger(read, end)
Refuse == Goto("error") /\ UNCHANGED <<seq, ip, op, mem>>
NextSequence(label) == Goto(label) /\ seq' = seq + 1
Same == UNCHANGED in

\* read_variable_length: whether it succeeds, and what it reads of the input.
LengthRead(at, bytes, ilimit, check) == (check => at < ilimit) /\ at + bytes <= ilimit
LengthEnd(at, bytes, ilimit, check) ==
    IF check /\ at >= ilimit THEN at
    ELSE IF at + bytes <= ilimit THEN at + bytes ELSE Larger(at, ilimit) + 1
LiteralBytes == Extra(Now.ll, RUN_MASK)
MatchBytes == Extra(Now.ml - MINMATCH, RUN_MASK)
LiteralLimit == iend - RUN_MASK

MatchLimit == iend - LASTLITERALS + 1

Start ==
    /\ pc = "start"
    /\ IF in.cap = 0
       THEN /\ Goto(IF in.n = 1 /\ Now.ll = 0 /\ Now.ml = MINMATCH THEN "done" ELSE "error")
            /\ Reads(IF in.n = 1 THEN 1 ELSE 0)
            /\ UNCHANGED ip
       ELSE /\ Goto(IF in.n = 0 THEN "error" ELSE IF in.fast /\ in.cap >= FASTLOOP THEN "fast" ELSE "safe")
            /\ UNCHANGED <<ip, read>>
    /\ UNCHANGED <<seq, op, mem>> /\ Same

\* There is room for strides of 32 bytes.
FastRoom(at) == op + Now.ll <= oend - 32 /\ at + Now.ll <= iend - 32

FastLiterals ==
    /\ pc = "fast" /\ seq <= Len(in.block)
    /\ LET at == LiteralsAt(Now, ip)
       IN  IF Now.ll >= RUN_MASK
           THEN IF ~LengthRead(ip + 1, LiteralBytes, LiteralLimit, TRUE)
                THEN Refuse /\ Reads(LengthEnd(ip + 1, LiteralBytes, LiteralLimit, TRUE))
                ELSE IF ~FastRoom(at)
                THEN Goto("safe_literal_copy") /\ ip' = at /\ Reads(at) /\ UNCHANGED <<seq, op, mem>>
                ELSE /\ Goto("fast_match") /\ ip' = at + Now.ll /\ op' = op + Now.ll
                     /\ mem' = FromInput(mem, op, at, Over(Now.ll, 32))
                     /\ Reads(at + Over(Now.ll, 32)) /\ UNCHANGED seq
           ELSE IF at <= iend - (16 + 1)
           THEN /\ Goto("fast_match") /\ ip' = at + Now.ll /\ op' = op + Now.ll
                /\ mem' = FromInput(mem, op, at, 16) /\ Reads(at + 16) /\ UNCHANGED seq
           ELSE Goto("safe_literal_copy") /\ ip' = at /\ Reads(at) /\ UNCHANGED <<seq, op, mem>>
    /\ Same

Match == op - Now.off
InPrefix == Prefix64k \/ Match >= lowPrefix

\* Mutant of OutsideBuffers: the offset is not checked.
OutsideBuffersNever == FALSE

OutsideBuffers == Match + dictSize < lowPrefix
Eighteen(m) == Memcpy(Memcpy(Memcpy(m, op, Match, 8), op + 8, Match + 8, 8), op + 16, Match + 16, 2)

\* A match that begins in the external dictionary, and may go on in the output.
ExtMatch ==
    LET inDict == IF Now.ml <= lowPrefix - Match THEN Now.ml ELSE lowPrefix - Match
        m == Put(mem, op, inDict, LAMBDA k : IF Match + k >= -in.hist THEN Match + k ELSE Unknown)
    IN  IF Now.ml - inDict > op + inDict - lowPrefix
        THEN Bytewise(m, op + inDict, lowPrefix, Now.ml - inDict)
        ELSE Memcpy(m, op + inDict, lowPrefix, Now.ml - inDict)

FromExtDict(label) ==
    IF op + Now.ml > oend - LASTLITERALS THEN Refuse
    ELSE mem' = ExtMatch /\ op' = op + Now.ml /\ NextSequence(label)

FastMatch ==
    /\ pc = "fast_match"
    /\ LET at == ip + 2
           cpy == op + Now.ml
       IN  IF MatchBytes > 0 /\ ~LengthRead(at, MatchBytes, MatchLimit, FALSE)
           THEN Refuse /\ Reads(LengthEnd(at, MatchBytes, MatchLimit, FALSE))
           ELSE /\ Reads(at + MatchBytes)
                /\ ip' = at + MatchBytes
                /\ IF cpy >= oend - FASTLOOP THEN Goto("safe_match_copy") /\ UNCHANGED <<seq, op, mem>>
                   ELSE IF MatchBytes = 0 /\ InPrefix /\ Now.off >= 8
                   THEN mem' = Eighteen(mem) /\ op' = cpy /\ NextSequence("fast")
                   ELSE IF OutsideBuffers THEN Goto("error") /\ UNCHANGED <<seq, op, mem>>
                   ELSE IF usingExtDict /\ Match < lowPrefix
                   THEN mem' = ExtMatch /\ op' = cpy /\ NextSequence("fast")
                   ELSE /\ mem' = IF Now.off < 16 THEN CopyUsingOffset(mem, op, cpy, Now.off)
                                  ELSE WildCopy32(mem, op, Match, cpy)
                        /\ op' = cpy /\ NextSequence("fast")
    /\ Same

\* The two stages of the shortcut: literals and match of the usual lengths.
Shortcut == Now.ll < RUN_MASK /\ ip + 1 < iend - (14 + 2) /\ op <= oend - (14 + 18)

SafeSequence ==
    /\ pc = "safe" /\ seq <= Len(in.block)
    /\ LET at == LiteralsAt(Now, ip)
           m == FromInput(mem, op, at, 16)
           begin == op + Now.ll
       IN  IF Shortcut
           THEN /\ Reads(Larger(at + 16, at + Now.ll + 2)) /\ ip' = at + Now.ll + 2
                /\ IF /\ MatchBytes = 0 /\ Now.off >= 8
                      /\ Prefix64k \/ begin - Now.off >= lowPrefix
                   THEN /\ mem' = Memcpy(Memcpy(Memcpy(m, begin, begin - Now.off, 8),
                                    begin + 8, begin - Now.off + 8, 8), begin + 16, begin - Now.off + 16, 2)
                        /\ op' = begin + Now.ml /\ NextSequence("safe")
                   ELSE mem' = m /\ op' = begin /\ Goto("copy_match") /\ UNCHANGED seq
           ELSE IF Now.ll >= RUN_MASK /\ ~LengthRead(ip + 1, LiteralBytes, LiteralLimit, TRUE)
           THEN Refuse /\ Reads(LengthEnd(ip + 1, LiteralBytes, LiteralLimit, TRUE))
           ELSE Goto("safe_literal_copy") /\ ip' = at /\ Reads(at) /\ UNCHANGED <<seq, op, mem>>
    /\ Same

LastSequence == op + Now.ll > oend - MFLIMIT \/ ip + Now.ll > iend - (2 + 1 + LASTLITERALS)

SafeLiteralCopy ==
    /\ pc = "safe_literal_copy"
    /\ IF LastSequence
       THEN IF ip + Now.ll # iend \/ op + Now.ll > oend THEN Refuse /\ UNCHANGED read
            ELSE /\ mem' = FromInput(mem, op, ip, Now.ll) /\ Reads(ip + Now.ll)
                 /\ ip' = ip + Now.ll /\ op' = op + Now.ll /\ Goto("done") /\ UNCHANGED seq
       ELSE /\ mem' = FromInput(mem, op, ip, Over(Now.ll, Wild))
            /\ Reads(ip + Larger(Over(Now.ll, Wild), Now.ll + 2))
            /\ ip' = ip + Now.ll + 2 /\ op' = op + Now.ll /\ Goto("copy_match") /\ UNCHANGED seq
    /\ Same

CopyMatch ==
    /\ pc = "copy_match"
    /\ IF MatchBytes > 0 /\ ~LengthRead(ip, MatchBytes, MatchLimit, FALSE)
       THEN Refuse /\ Reads(LengthEnd(ip, MatchBytes, MatchLimit, FALSE))
       ELSE /\ Goto("safe_match_copy") /\ ip' = ip + MatchBytes /\ Reads(ip + MatchBytes)
            /\ UNCHANGED <<seq, op, mem>>
    /\ Same

\* Mutant of NearEnd: the last strides run up to the end of the match.
NearEndNever(m, to, from, cpy) == WildCopy8(m, to, from, cpy)

\* Strides up to the last that fits, and then byte by byte.
NearEnd(m, to, from, cpy) ==
    LET limit == oend - (Wild - 1)
    IN  IF to < limit
        THEN Bytewise(WildCopy8(m, to, from, limit), limit, from + limit - to, cpy - limit)
        ELSE Bytewise(m, to, from, cpy - to)

SafeMatchCopy ==
    /\ pc = "safe_match_copy"
    /\ LET cpy == op + Now.ml
           m == FirstEight(mem, op, Now.off)
           from == GoesOnAt(op, Now.off)
       IN  IF OutsideBuffers THEN Refuse
           ELSE IF usingExtDict /\ Match < lowPrefix THEN FromExtDict("safe") /\ UNCHANGED ip
           ELSE IF cpy > oend - SAFEGUARD
           THEN IF cpy > oend - LASTLITERALS THEN Goto("error") /\ mem' = m /\ UNCHANGED <<seq, ip, op>>
                ELSE mem' = NearEnd(m, op + 8, from, cpy) /\ op' = cpy /\ NextSequence("safe") /\ UNCHANGED ip
           ELSE /\ LET second == Memcpy(m, op + 8, from, 8)
                   IN  mem' = IF Now.ml > 16 THEN WildCopy8(second, op + 16, from + 8, cpy) ELSE second
                /\ op' = cpy /\ NextSequence("safe") /\ UNCHANGED ip
    /\ UNCHANGED read /\ Same

Next ==
    \/ Start \/ FastLiterals \/ FastMatch \/ SafeSequence
    \/ SafeLiteralCopy \/ CopyMatch \/ SafeMatchCopy

Spec == Init /\ [][Next]_vars

-----------------------------------------------------------------------------
(* Properties.                                                             *)

TypeOK ==
    /\ pc \in {"start", "fast", "fast_match", "safe", "safe_literal_copy", "copy_match",
               "safe_match_copy", "done", "error"}
    /\ seq \in 1..Len(in.block) + 1
    /\ op \in 0..in.cap

\* No stride writes outside the room of the caller or into the history.
WritesInside ==
    /\ \A p \in in.cap..in.cap + Behind : mem[p] = Untouched
    /\ \A p \in -Front..-1 : mem[p] = p

\* No byte behind the input is read, and there is one whenever a token is read.
ReadsInside ==
    /\ read <= in.n
    /\ pc \in {"fast", "safe"} => ip < in.n

\* A block that is accepted was used as a whole, and its output is what its
\* sequences say: with offset 0, zeros and nothing that lay in memory.
ContentExact ==
    pc = "done" /\ in.cap > 0 =>
        EndsWith(seq) /\ op = Total(seq) /\ \A p \in 0..op - 1 : mem[p] = Content(seq)[p]

\* A block that keeps the rules of the format is decoded, whatever the room.
GoodIsDecoded == WellFormed => pc # "error"
=============================================================================
