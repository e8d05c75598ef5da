------------------------------- MODULE MCArchive -------------------------------
(***************************************************************************)
(* Small archives, signed files, number fields and headers for             *)
(* ArchiveReading.                                                         *)
(***************************************************************************)
EXTENDS ArchiveReading

-----------------------------------------------------------------------------
(* Archives of up to three members, cut off at any byte.                   *)

Parts == {"boot", "BOOT", "radio", "RADIO", "modem", "readme", "img", "IMG", "bin", "lz4", "txt"}
MCLower == [p \in Parts |-> CASE p = "BOOT" -> "boot" [] p = "RADIO" -> "radio"
                              [] p = "IMG" -> "img" [] OTHER -> p]

MCPit == <<[identifier |-> 1, file |-> <<"boot", "img">>, partition |-> <<"BOOT">>],
           [identifier |-> 2, file |-> <<"modem", "bin">>, partition |-> <<"RADIO">>],
           [identifier |-> 3, file |-> <<>>, partition |-> <<"radio", "img">>]>>

Member(type, name, carries, size) ==
    [type |-> type, name |-> name, carries |-> carries, size |-> size, valid |-> TRUE, good |-> TRUE]
File(name, size) == Member("0", name, <<>>, size)

BootLz4 == File(<<"boot", "img", "lz4">>, 3)
Modem == File(<<"modem", "bin">>, 2)

\* Files whose PIT entry is found by file name, by partition name, after
\* dropping extensions, in another case, or not at all; directories; name
\* records of both kinds; and what is wrong with members.
Kinds == {BootLz4, Modem,
    File(<<"BOOT", "IMG">>, 1), File(<<"RADIO">>, 0), File(<<"readme", "txt">>, 2),
    File(<<>>, 1),
    Member("5", <<"readme">>, <<>>, 0),
    Member("L", <<"boot">>, <<"radio", "bin">>, 2),
    Member("x", <<"boot">>, <<"modem", "bin">>, 1),
    Member("x", <<"modem">>, <<>>, 1),
    Member("L", <<"boot">>, <<"boot">>, 4),
    [BootLz4 EXCEPT !.good = FALSE], [Modem EXCEPT !.good = FALSE],
    [Modem EXCEPT !.valid = FALSE]}

\* Three members where names are handed from one to the next.
Named == {k \in Kinds : k.valid /\ k.good /\ k.type # "0"} \cup {BootLz4, Modem, File(<<"RADIO">>, 0)}

Lists == {<<a>> : a \in Kinds} \cup {<<a, b>> : a, b \in Kinds} \cup {<<a, b, c>> : a, b, c \in Named}

Padded(size) == Block * ((size + Block - 1) \div Block)
Layout(ms) ==
    LET starts[k \in 1..(Len(ms) + 1)] == IF k = 1 THEN 0 ELSE starts[k - 1] + Block + Padded(ms[k - 1].size)
    IN  starts

\* The end of the content: after the two zero blocks, before them, or inside
\* the last member; at least one block (process_tar_file refuses less).
Archive(ms, starts, cut, flash) ==
    [members |-> ms, at |-> starts, end |-> starts[Len(ms) + 1] + 2 * Block - cut,
     flash |-> flash, allow_unknown |-> ~flash]
AllArchives == {Archive(ms, Layout(ms), cut, flash) : ms \in Lists,
    cut \in {0} \cup ((2 * Block)..(2 * Block + 4)), flash \in BOOLEAN}
SoundArchives == {a \in AllArchives : a.end >= Block}

-----------------------------------------------------------------------------
(* Signed files: every content of up to five bytes and every kind of       *)
(* trailer, with sums of two digits and a tail of seven bytes.             *)
Contents == UNION {[1..n -> {"hex", "nl", "other"}] : n \in 0..5}
Suffixes == {<<>>, <<"nl">>, <<"hex">>, <<"other", "nl">>, <<"other", "hex", "nl">>,
    <<"other", "hex", "hex", "nl">>, <<"nl", "nl">>, <<"other", "other", "other", "other", "nl">>}
AllFiles == [content : Contents, suffix : Suffixes, intact : BOOLEAN]

\* Number fields of up to four characters - digits, 8 among them, and blank,
\* NUL and others - that fit in seven bits or lose one, two or three.
AllFields == UNION {[1..n -> {0, 1, 3, 7, 8, 10, 11, 12}] : n \in 0..4}

\* Headers of two bytes with the values around the sign bit.
AllHeaders == [1..2 -> {0, 127, 128, 255}]

ASSUME Tar!ArchivesAssumption /\ Tar!BlockAssumption
ASSUME Md5!FilesAssumption /\ Md5!SizesAssumption
ASSUME Octal!FieldsAssumption /\ Octal!TopAssumption
ASSUME Sum!HeadersAssumption /\ Sum!FieldLenAssumption
=============================================================================
