--------------------------------- MODULE TarMd5 ---------------------------------
(***************************************************************************)
(* check of a .tar.md5 file: detect_tar_md5_info looks for the digits of   *)
(* the sum in the tail of the file and decides where the content ends,     *)
(* verify_tar_md5 compares the sum of that content with them.              *)
(*                                                                         *)
(* The writer has put the sum of the tar archive, in Digits hex digits,    *)
(* behind it, as md5sum does, followed by a suffix (the file name and a    *)
(* newline).  Only the kind of a byte matters here: "hex", "nl" or "other".*)
(* A sum is the sum of one content only.                                   *)
(***************************************************************************)
EXTENDS Integers, Sequences

CONSTANTS
    Files,     \* [content, suffix, intact]
    Digits,    \* 32 in the code
    TailLen,   \* 65536 in the code
    BufSize    \* read buffer of verify_tar_md5, 1 MiB in the code

Kinds == {"hex", "nl", "other"}

FilesAssumption ==
    \A f \in Files : f.content \in Seq(Kinds) /\ f.suffix \in Seq(Kinds) /\ f.intact \in BOOLEAN
SizesAssumption ==
    Digits \in Nat \ {0} /\ TailLen \in Nat /\ TailLen >= Digits /\ BufSize \in Nat \ {0}

VARIABLES
    file,          \* the file, from Files
    pc,            \* the loop that runs, or the result
    pos,           \* where the loop stands in the tail, from 1
    best,          \* best_pos, 0 if none
    content_end,
    hashed         \* bytes given to the hash

vars == <<file, pc, pos, best, content_end, hashed>>

Bytes == file.content \o [k \in 1..Digits |-> "hex"] \o file.suffix
Size == Len(Bytes)
Skipped == IF Size > TailLen THEN Size - TailLen ELSE 0
Tail1 == SubSeq(Bytes, Skipped + 1, Size)
TrueStart == Len(file.content) + 1

TypeOK ==
    /\ file.intact \in BOOLEAN
    /\ pc \in {"scan", "line", "hash", "Success", "Firmware"}
    /\ pos \in 0..Len(Tail1)
    /\ best \in 0..Len(Tail1)
    /\ content_end \in 0..Size /\ hashed \in 0..content_end

Init ==
    /\ file \in Files
    /\ pc = "scan"
    /\ pos = Len(Tail1) - Digits + 1
    /\ best = 0 /\ content_end = Size /\ hashed = 0

-----------------------------------------------------------------------------
Hex(k) == k \in 1..Len(Tail1) /\ Tail1[k] = "hex"

\* A run of hex digits as long as a sum and no longer.
Isolated(p) ==
    /\ \A k \in p..(p + Digits - 1) : Hex(k)
    /\ ~Hex(p - 1) /\ ~Hex(p + Digits)

ScanBack ==
    /\ pc = "scan"
    /\ pos >= 1 /\ ~Isolated(pos)
    /\ pos' = pos - 1
    /\ UNCHANGED <<file, pc, best, content_end, hashed>>

Found ==
    /\ pc = "scan"
    /\ pos >= 1 /\ Isolated(pos)
    /\ best' = pos /\ pos' = pos - 1
    /\ pc' = "line"
    /\ UNCHANGED <<file, content_end, hashed>>

\* No run stands alone: the last bytes count if they are digits.
NotFound ==
    /\ pc = "scan"
    /\ pos = 0
    /\ LET last == Len(Tail1) - Digits + 1
       IN  IF \A k \in last..Len(Tail1) : Hex(k)
           THEN best' = last /\ content_end' = Size - Digits /\ pc' = "hash"
           ELSE pc' = "Firmware" /\ UNCHANGED <<best, content_end>>
    /\ UNCHANGED <<file, pos, hashed>>

LineBack ==
    /\ pc = "line"
    /\ pos >= 1 /\ Tail1[pos] # "nl"
    /\ pos' = pos - 1
    /\ UNCHANGED <<file, pc, best, content_end, hashed>>

\* Mutant of LineStart: without a newline the line starts with the tail.
LineStartOfTail == pos + 1

\* The line of the digits starts behind the newline before them; if there is
\* none in the tail, at the digits.
LineStart == IF pos = 0 THEN best ELSE pos + 1

LineFound ==
    /\ pc = "line"
    /\ pos > 0 => Tail1[pos] = "nl"
    /\ content_end' = Skipped + LineStart - 1
    /\ pc' = "hash"
    /\ UNCHANGED <<file, pos, best, hashed>>

\* Mutant of HashEnd: what stands before the digits is hashed.
HashEndAtDigits == Skipped + best - 1

\* The hash covers what will be read as the archive.
HashEnd == content_end

Chunk == IF HashEnd - hashed < BufSize THEN HashEnd - hashed ELSE BufSize

HashBuffer ==
    /\ pc = "hash"
    /\ hashed < HashEnd
    /\ hashed' = hashed + Chunk
    /\ UNCHANGED <<file, pc, pos, best, content_end>>

\* The digits at best are the sum of the content as it was written.
SumsAgree == file.intact /\ Skipped + best = TrueStart /\ hashed = Len(file.content)

Compare ==
    /\ pc = "hash"
    /\ hashed = HashEnd
    /\ pc' = IF content_end > 0 /\ SumsAgree THEN "Success" ELSE "Firmware"
    /\ UNCHANGED <<file, pos, best, content_end, hashed>>

Next == ScanBack \/ Found \/ NotFound \/ LineBack \/ LineFound \/ HashBuffer \/ Compare

Spec == Init /\ [][Next]_vars /\ WF_vars(Next)

-----------------------------------------------------------------------------
(* Properties.                                                             *)

\* The archive that is walked afterwards is exactly what the sum was made of:
\* nothing of the trailer is read as tar, nothing behind the sum is left out.
AcceptedIsSigned ==
    pc = "Success" => file.intact /\ content_end = Len(file.content) /\ content_end > 0

\* What the search may rely on: the content does not end in a hex digit, the
\* suffix holds no second sum, and either there is no newline in the part of
\* the content that is searched, or the content ends in one.
Plain(f) ==
    /\ f.intact /\ f.content # <<>>
    /\ f.content[Len(f.content)] # "hex"
    /\ f.suffix = <<>> \/ f.suffix[1] # "hex"
    /\ \A p \in 1..(Len(f.suffix) - Digits + 1) :
          ~(\A k \in p..(p + Digits - 1) : f.suffix[k] = "hex")

NewlineOk(f) ==
    \/ f.content[Len(f.content)] = "nl"
    \/ \A k \in 1..Len(f.content) :
          k > Len(f.content) + Digits + Len(f.suffix) - TailLen => f.content[k] # "nl"

\* A good file is accepted, wherever the boundaries of tail and content fall,
\* as long as no newline stands in the searched part of the content.
GoodIsAccepted ==
    pc = "Firmware" /\ Plain(file) /\ Digits + Len(file.suffix) <= TailLen => ~NewlineOk(file)

\* README, "Core Features": "Verifies the integrity of `.tar.md5` firmware
\* archives" - a file with the sum of its content behind it is accepted.
IntactIsAccepted ==
    pc = "Firmware" => ~(Plain(file) /\ Digits + Len(file.suffix) <= TailLen)

\* The search ends.
Ends == <>(pc \in {"Success", "Firmware"})
=============================================================================
