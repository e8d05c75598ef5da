----------------------------- MODULE ArchiveReading -----------------------------
(***************************************************************************)
(* What is read of an archive before anything is flashed: the walk over    *)
(* its members (TarArchive), the search for its sum (TarMd5), the numbers  *)
(* and the checksum of a header (ParseOctal, TarChecksum).  The four share *)
(* no variable in the code; a run is one of them, on one input.            *)
(***************************************************************************)
EXTENDS Naturals, Sequences

CONSTANTS
    Archives, Pit, Lower, Block, NameLimit,   \* of TarArchive
    SignedFiles, SumLen, TailLen, BufSize,    \* of TarMd5
    Fields, Top,                              \* of ParseOctal
    Headers, FieldLen                         \* of TarChecksum

VARIABLES
    part,   \* the part that runs: "walk", "sum", "number" or "header"
    archive, pos, gnu, pax, used, log, rc,                                  \* of TarArchive
    file, search, at, best, content_end, hashed,                            \* of TarMd5
    field, digit, out, parsing,                                             \* of ParseOctal
    original, header, expected, summed, sum_unsigned, sum_signed, checking  \* of TarChecksum

Tar == INSTANCE TarArchive
Md5 == INSTANCE TarMd5 WITH Files <- SignedFiles, Digits <- SumLen, pc <- search, pos <- at
Octal == INSTANCE ParseOctal WITH i <- digit, pc <- parsing
Sum == INSTANCE TarChecksum WITH i <- summed, pc <- checking

walk_vars == <<archive, pos, gnu, pax, used, log, rc>>
sum_vars == <<file, search, at, best, content_end, hashed>>
number_vars == <<field, digit, out, parsing>>
header_vars == <<original, header, expected, summed, sum_unsigned, sum_signed, checking>>
all == <<part, walk_vars, sum_vars, number_vars, header_vars>>

\* What a part that does not run is given.
AnArchive == CHOOSE a \in Archives : TRUE
AFile == CHOOSE f \in SignedFiles : TRUE
AField == CHOOSE f \in Fields : TRUE
AHeader == CHOOSE h \in Headers : TRUE

Init ==
    /\ part \in {"walk", "sum", "number", "header"}
    /\ part = "walk" \/ (part # "walk" /\ archive = AnArchive)
    /\ part = "sum" \/ (part # "sum" /\ file = AFile)
    /\ part = "number" \/ (part # "number" /\ field = AField)
    /\ part = "header" \/ (part # "header" /\ original = AHeader)
    /\ Tar!Init /\ Md5!Init /\ Octal!Init /\ Sum!Init

Next ==
    /\ UNCHANGED part
    /\ \/ part = "walk" /\ Tar!Next /\ UNCHANGED <<sum_vars, number_vars, header_vars>>
       \/ part = "sum" /\ Md5!Next /\ UNCHANGED <<walk_vars, number_vars, header_vars>>
       \/ part = "number" /\ Octal!Next /\ UNCHANGED <<walk_vars, sum_vars, header_vars>>
       \/ part = "header" /\ Sum!Next /\ UNCHANGED <<walk_vars, sum_vars, number_vars>>

Spec == Init /\ [][Next]_all /\ WF_all(Next)

-----------------------------------------------------------------------------
(* Properties; the parts of each are explained in the modules they are of. *)

\* TarArchive: the images handed on are those of the list of members, each with
\* its own name and bytes, and no partition is given two of them.
ImagesOfTheList == Tar!ImagesOfTheList /\ Tar!OneImagePerPartition

\* TarArchive: the first member that is not in order decides the result, and what
\* a cut archive that is accepted has lost is a tail of whole members.
FirstFaultDecides == Tar!FirstFaultDecides /\ Tar!CutBetweenMembers

\* TarArchive: no image reaches beyond the end of the content, and nothing but
\* headers is read as a header.
InsideContent == Tar!TypeOK /\ Tar!InsideContent /\ Tar!HeadersOnly

\* TarMd5: what is accepted is exactly what the sum was made of.
AcceptedIsSigned == Md5!TypeOK /\ Md5!AcceptedIsSigned

\* TarMd5: a good file without a newline in its tail is accepted.
GoodIsAccepted == Md5!GoodIsAccepted

\* TarMd5, README "Core Features": every good file is accepted.
IntactIsAccepted == Md5!IntactIsAccepted

\* ParseOctal and TarChecksum: a number in a header is taken with its true value
\* or refused, and so is a header one byte of which has changed.
HeaderExact ==
    /\ Octal!TypeOK /\ Octal!ExactOrRefused
    /\ Sum!TypeOK /\ Sum!OneChangedByteIsFound

\* The walk and the search for the sum end.
BothEnd == (part = "walk" => Tar!Ends) /\ (part = "sum" => Md5!Ends)
=============================================================================
