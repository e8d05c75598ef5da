--------------------------------- MODULE MCLz4 ---------------------------------
(***************************************************************************)
(* Frames, entries and blocks to be decoded, and pieces to be hashed       *)
(* (Lz4Images).                                                            *)
(***************************************************************************)
EXTENDS Lz4Images

-----------------------------------------------------------------------------
(* Frames of up to five blocks, with a window of three bytes and blocks of *)
(* up to three, and longer ones that fill tmp; given in pieces.            *)
B(raw, bytes, content) == [raw |-> raw, in |-> bytes, out |-> content, good |-> TRUE, crc_ok |-> TRUE]
Blocks == {B(TRUE, 1, 1), B(TRUE, 3, 3), B(FALSE, 2, 2), B(FALSE, 1, 3)}
Raw == B(TRUE, 2, 2)
Packed == B(FALSE, 1, 3)
Long == {<<Raw, Packed, Packed, Raw, Packed>>, <<Packed, Packed, Packed, Packed>>}
Frame(linked, crc, csize, bs) ==
    [skip |-> FALSE, linked |-> linked, bcrc |-> crc, ccrc |-> crc,
     told |-> csize > 0, id |-> FALSE, csize |-> csize,
     blocks |-> bs, good |-> TRUE, ccrc_ok |-> TRUE]
Linked == {Frame(TRUE, FALSE, 0, bs) : bs \in [1..3 -> Blocks] \cup Long}
Plain == UNION {{Frame(FALSE, crc, csize, bs) : crc \in BOOLEAN, csize \in 0..3} : bs \in {<<>>} \cup {<<b>> : b \in Blocks}}
Two == [Frame(TRUE, TRUE, 2, <<B(TRUE, 1, 1), B(FALSE, 1, 1)>>) EXCEPT !.csize = 2]
Spoiled == {[Two EXCEPT !.good = FALSE], [Two EXCEPT !.ccrc_ok = FALSE],
    [Two EXCEPT !.blocks[1].crc_ok = FALSE], [Two EXCEPT !.blocks[2].crc_ok = FALSE],
    [Two EXCEPT !.blocks[2].good = FALSE], [Two EXCEPT !.blocks[1] = B(TRUE, 4, 4)], [Two EXCEPT !.blocks[2].out = 4]}
Skips == {[Frame(FALSE, FALSE, n, <<>>) EXCEPT !.skip = TRUE] : n \in 0..2}
\* Headers of every length: a size told to be 0, the name of a dictionary.
Headed == {[Frame(FALSE, FALSE, csize, bs) EXCEPT !.told = (csize > 0 \/ told), !.id = TRUE] :
              csize \in {0, 1}, told \in BOOLEAN, bs \in {<<>>, <<B(TRUE, 1, 1)>>}}
    \cup {[Frame(FALSE, FALSE, 0, bs) EXCEPT !.told = TRUE] : bs \in {<<>>, <<B(TRUE, 1, 1)>>}}
AllFrames == Linked \cup Plain \cup {Two} \cup Spoiled \cup Skips \cup Headed

-----------------------------------------------------------------------------
(* Entries: frames of up to two blocks with blocks shorter than, as long   *)
(* as and longer than the buffer of three bytes, whole, cut at every byte, *)
(* or followed by other bytes; with a damaged unit, a wrong size, and in a *)
(* short file.                                                             *)
Unit(bytes, content) == [in |-> bytes, out |-> content, bad |-> FALSE]
Header == Unit(2, 0)
EndMark == Unit(1, 0)
Bad(u) == [u EXCEPT !.bad = TRUE]
Units == {Unit(1, 2), Unit(2, 3), Unit(3, 1), Unit(4, 2)}
Sound == {<<Header, EndMark>>, <<Unit(2, 0), Unit(3, 0)>>}
    \cup {<<Header, b, EndMark>> : b \in Units} \cup {<<Header, b, c, EndMark>> : b, c \in Units}
Damaged == {<<Bad(Header), EndMark>>, <<Header, Bad(Unit(2, 3)), EndMark>>, <<Header, Unit(1, 2), Bad(EndMark)>>}
Cut == <<Header, Unit(2, 3), EndMark>>
Length(us) == LET f[k \in 0..Len(us)] == IF k = 0 THEN 0 ELSE f[k - 1] + us[k].in IN f[Len(us)]
Content(us) == LET f[k \in 0..Len(us)] == IF k = 0 THEN 0 ELSE f[k - 1] + us[k].out IN f[Len(us)]
Image(us, d, n, a, fl, lz) ==
    [units |-> us, declared |-> d, size |-> n, avail |-> a, flash |-> fl, lazy |-> lz]
AllImages ==
    UNION {{Image(us, d, n, n + 2, fl, lz) :
              d \in {0, Content(us), Content(us) + 1},
              n \in 1..(Length(us) + 2), fl, lz \in BOOLEAN} : us \in Sound \cup Damaged}
    \cup {Image(Cut, d, Length(Cut) + 2, n, FALSE, lz) :
              d \in {0, Content(Cut)}, n \in 0..(Length(Cut) + 1), lz \in BOOLEAN}

-----------------------------------------------------------------------------
(* Blocks whose sequences lie around every distance the decoder keeps,     *)
(* whole and cut, with room that is exact, short and ample.                *)
S(l, o, m) == [ll |-> l, off |-> o, ml |-> m]
Extra(len) == IF len < 15 THEN 0 ELSE (len - 15) \div 255 + 1
Size(b) ==
    LET f[j \in 1..Len(b)] == IF j = 1 THEN b[1].ll ELSE f[j - 1] + b[j - 1].ml + b[j].ll IN f[Len(b)]
Bytes(b) ==
    LET f[k \in 1..Len(b)] ==
            (IF k = 1 THEN 0 ELSE f[k - 1] + 2 + Extra(b[k - 1].ml - 4)) + 1 + Extra(b[k].ll) + b[k].ll
    IN  f[Len(b)]
Input(b, n, cap, h, fast) ==
    [block |-> b, n |-> n, cap |-> cap, hist |-> h[1], adjacent |-> h[2], fast |-> fast]
NoHistory == <<0, FALSE>>
Histories == {<<10, TRUE>>, <<10, FALSE>>}
Offsets == {0, 1, 2, 3, 5, 6, 7, 8, 16, 70}
Matches == {4, 7, 18, 19, 33}
Single == {<<S(l, o, m), S(5, 1, 4)>> : l \in {1, 9, 20}, o \in Offsets, m \in Matches}
    \cup {<<S(9, o, m), S(e, 1, 4)>> : o \in Offsets, m \in Matches, e \in {4, 12}}
Chained == {<<S(l, 1, 5), S(k, o, m), S(8, 1, 4)>> : l \in {3, 14, 50}, k \in {0, 6},
                                                     o \in {3, 8, 15, 17}, m \in {8, 20}}
    \cup {<<S(l, o, m), S(20, 3, 5), S(e, 1, 4)>> : l \in {10, 275}, o \in {1, 9, 20},
                                                    m \in {18, 275}, e \in {5, 70}}
CutBlocks == {<<S(9, 8, 19), S(5, 1, 4)>>, <<S(30, 3, 9), S(12, 1, 4)>>, <<S(14, 1, 290), S(5, 1, 4)>>,
    <<S(0, 1, 4)>>, <<S(2, 1, 30), S(40, 9, 23), S(6, 1, 4)>>}
TightBlocks == {<<S(40, 9, 36), S(5, 1, 4)>>, <<S(3, 2, 17), S(7, 20, 18), S(13, 1, 4)>>,
    <<S(0, 1, 4)>>, <<S(17, 1, 4)>>}
AllInputs ==
    {Input(b, Bytes(b), Size(b) + r, NoHistory, f) :
        b \in Single, r \in {-1, 0, 7, 33, 70}, f \in BOOLEAN}
    \cup {Input(b, Bytes(b), Size(b) + r, h, f) :
        b \in Single, r \in {0, 33}, h \in Histories, f \in BOOLEAN}
    \cup {Input(b, Bytes(b), Size(b) + r, NoHistory, f) :
        b \in Chained, r \in {0, 1, 12, 30, 64}, f \in BOOLEAN}
    \cup UNION {{Input(b, n, Size(b) + 60, NoHistory, f) : n \in 0..Bytes(b) - 1, f \in BOOLEAN} : b \in CutBlocks}
    \cup UNION {{Input(b, Bytes(b), cap, NoHistory, f) : cap \in 0..Size(b) + 40, f \in BOOLEAN} : b \in TightBlocks}
    \cup {Input(<<S(5, o, m), S(9, 1, 4)>>, 18, 5 + m + 9 + r, <<75, TRUE>>, f) :
        o \in {6, 74, 75}, m \in {4, 18}, r \in {0, 60}, f \in BOOLEAN}

-----------------------------------------------------------------------------
\* The constants: by a name of their own the sets above are made once only.
TheImages == AllImages
TheFrames == AllFrames
TheInputs == AllInputs

ASSUME Stream!SizesAssumption /\ Stream!ImagesAssumption
ASSUME Frm!SizesAssumption /\ Frm!FramesAssumption /\ Frm!CallsAssumption
ASSUME Blk!InputsAssumption
ASSUME Xxh!Xxh32Assumption
=============================================================================
