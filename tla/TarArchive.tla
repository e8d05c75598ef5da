------------------------------- MODULE TarArchive -------------------------------
(***************************************************************************)
(* process_tar_file: the walk over the headers of one archive.  Positions  *)
(* are bytes, of which a block holds Block (512 in the code).  What happens*)
(* to an image is in FlashSession; here it succeeds or fails.              *)
(***************************************************************************)
EXTENDS PitMatch, FiniteSets

CONSTANTS
    Archives,   \* [members, at, end, flash, allow_unknown]: archive and run
    Pit,        \* the PIT entries of the device
    Block,      \* size of a tar block
    NameLimit   \* the largest long-name or PAX record, 1 MiB in the code

(***************************************************************************)
(* A member is a header with its data: [type, name, carries, size, valid,  *)
(* good].  type is "0" for a file, "L" and "x" for records that carry the  *)
(* name of another member ("x" stands for PAX headers of both kinds, which *)
(* may carry none), "5" for everything else.  valid: checksum and size     *)
(* field can be read; good: flashing or decoding the image succeeds.  at   *)
(* is where the header of each member, and what follows the last, stands,  *)
(* end where the content ends, wherever that falls in the members.         *)
(***************************************************************************)
Types == {"0", "L", "x", "5"}

\* A tar archive fills the last block of each member.
RoundUp(size) == IF size % Block = 0 THEN size ELSE size + Block - (size % Block)

ArchivesAssumption ==
    \A a \in Archives :
        /\ a.end \in Nat /\ Len(a.members) \in Nat
        /\ a.at[1] = 0
        /\ \A k \in 1..Len(a.members) :
              a.at[k + 1] = a.at[k] + Block + RoundUp(a.members[k].size)
        /\ \A k \in 1..Len(a.members) : a.members[k].type \in Types /\ a.members[k].size \in Nat
BlockAssumption == Block \in Nat \ {0} /\ NameLimit \in Nat

\* The PIT entry of an image.
Entry(name) == PitEntry(Pit, name)

VARIABLES
    archive,   \* the archive, from Archives
    pos,       \* read position of the stream
    gnu,       \* pending_gnu_long_name, <<>> if none
    pax,       \* pending_pax_path, <<>> if none
    used,      \* used_partition_ids
    log,       \* history: the images handed on, [name, entry, start, size]
    rc         \* the result, "none" while the walk goes on

vars == <<archive, pos, gnu, pax, used, log, rc>>

Members == archive.members

Start == archive.at

TypeOK ==
    /\ archive.end \in Nat
    /\ pos \in Nat
    /\ gnu = <<>> \/ pax = <<>>
    /\ used = {Pit[log[i].entry].identifier : i \in 1..Len(log)}
    /\ rc \in {"none", "Success", "Firmware", "Pit", "Protocol"}

Init ==
    /\ archive \in Archives
    /\ pos = 0
    /\ gnu = <<>> /\ pax = <<>>
    /\ used = {} /\ log = <<>>
    /\ rc = "none"

-----------------------------------------------------------------------------
(* The header at pos.  Behind the last member zero blocks follow; a block  *)
(* that is not a header would be read as an invalid one.                   *)

Running == rc = "none" /\ pos + Block <= archive.end
AtMember == \E k \in 1..Len(Members) : Start[k] = pos
Here == Members[CHOOSE k \in 1..Len(Members) : Start[k] = pos]
AtZeros == pos >= Start[Len(Members) + 1]

Return(code) == rc' = code /\ UNCHANGED <<archive, pos, gnu, pax, used, log>>

EndOfContent == rc = "none" /\ pos + Block > archive.end /\ Return("Success")

ZeroBlock == Running /\ AtZeros /\ Return("Success")

DataStart == pos + Block

\* Mutant of Fits: the end of the data is not compared.
FitsStart(size) == DataStart <= archive.end

Fits(size) == DataStart <= archive.end /\ size <= archive.end - DataStart

InvalidHeader ==
    /\ Running /\ ~AtZeros
    /\ ~AtMember \/ ~Here.valid \/ ~Fits(Here.size)
    /\ Return("Firmware")

Header(types) == Running /\ AtMember /\ Here.valid /\ Fits(Here.size) /\ Here.type \in types

\* Bytes between the end of the data and the next header.
PadTo(size) == (Block - (size % Block)) % Block

\* Mutant of Advance: the stream is put back to the header it was read from.
AdvanceNowhere == pos' = pos

\* The stream moves behind data and padding, also past the end of the content.
Advance == pos' = DataStart + Here.size + PadTo(Here.size)

\* The name of the header at pos: what is pending comes first.
Name == IF gnu # <<>> THEN gnu ELSE IF pax # <<>> THEN pax ELSE Here.name

\* Mutant of PaxLeft: a header with another name leaves the PAX path pending.
PaxLeftAlways == pax

\* Every header takes the pending name, whether it has a use for it or not.
PaxLeft == IF gnu # <<>> THEN pax ELSE <<>>
TakeName == gnu' = <<>> /\ pax' = PaxLeft

GnuLongName ==
    /\ Header({"L"})
    /\ Here.size <= NameLimit
    /\ gnu' = Here.carries /\ pax' = PaxLeft
    /\ Advance
    /\ UNCHANGED <<archive, used, log, rc>>

PaxHeader ==
    /\ Header({"x"})
    /\ Here.size <= NameLimit
    /\ gnu' = <<>> /\ pax' = IF Here.carries # <<>> THEN Here.carries ELSE PaxLeft
    /\ Advance
    /\ UNCHANGED <<archive, used, log, rc>>

NameTooLong == Header({"L", "x"}) /\ Here.size > NameLimit /\ Return("Firmware")

SkipEntryData ==
    /\ \/ Header({"5"})
       \/ Header({"0"}) /\ Name # <<>> /\ Entry(Name) = 0 /\ archive.allow_unknown
    /\ TakeName /\ Advance
    /\ UNCHANGED <<archive, used, log, rc>>

EmptyName == Header({"0"}) /\ Name = <<>> /\ Return("Firmware")

Identifier == Pit[Entry(Name)].identifier

Reject ==
    /\ Header({"0"}) /\ Name # <<>>
    /\ \/ Entry(Name) = 0 /\ ~archive.allow_unknown
       \/ Entry(Name) # 0 /\ Identifier \in used
    /\ Return("Pit")

FreshPartition == Entry(Name) # 0 /\ Identifier \notin used

\* Mutant of Noticed: no image is looked at in a check-only run.
NoticedFlashing == ~Here.good /\ archive.flash

\* A raw image is only stepped over in a check-only run.
Noticed == ~Here.good /\ (archive.flash \/ IsLz4(Name))

Image ==
    /\ Header({"0"}) /\ Name # <<>>
    /\ FreshPartition
    /\ used' = used \cup {Identifier}
    /\ log' = Append(log, [name |-> Name, entry |-> Entry(Name),
                           start |-> DataStart, size |-> Here.size])
    /\ TakeName
    /\ IF Noticed
       THEN rc' = (IF archive.flash THEN "Protocol" ELSE "Firmware") /\ UNCHANGED pos
       ELSE Advance /\ UNCHANGED rc
    /\ UNCHANGED archive

Next ==
    \/ EndOfContent \/ ZeroBlock \/ InvalidHeader
    \/ GnuLongName \/ PaxHeader \/ NameTooLong \/ SkipEntryData
    \/ EmptyName \/ Reject \/ Image

Spec == Init /\ [][Next]_vars /\ WF_vars(Next)

-----------------------------------------------------------------------------
(* The reference: the archive as a list of members.                        *)

\* The members whose header is there; the content may end behind any of them.
Visible == {k \in 1..Len(Members) : Start[k] + Block <= archive.end}

\* The name of a member: that of a name record directly in front, or its own.
NameOf(k) ==
    IF k > 1 /\ Members[k - 1].type \in {"L", "x"} /\ Members[k - 1].carries # <<>>
    THEN Members[k - 1].carries ELSE Members[k].name

Files == {k \in Visible : Members[k].type = "0"}
EntryOf(k) == Entry(NameOf(k))
Images == {k \in Files : NameOf(k) # <<>> /\ EntryOf(k) # 0}

Repeated(k) == \E j \in Images : j < k /\ Pit[EntryOf(j)].identifier = Pit[EntryOf(k)].identifier

\* The header cannot be used, there is no place for the image, it is spoiled.
Broken(k) ==
    LET m == Members[k]
    IN  \/ ~m.valid \/ m.size > archive.end - Start[k] - Block
        \/ m.type \in {"L", "x"} /\ m.size > NameLimit
        \/ k \in Files /\ NameOf(k) = <<>>
Unplaced(k) ==
    \/ k \in Files \ Images /\ ~archive.allow_unknown
    \/ k \in Images /\ Repeated(k)
Spoiled(k) == k \in Images /\ ~Members[k].good /\ (archive.flash \/ IsLz4(NameOf(k)))

\* What is wrong with member k, if all members before it are in order.
Fault(k) ==
    IF Broken(k) THEN "Firmware"
    ELSE IF Unplaced(k) THEN "Pit"
    ELSE IF Spoiled(k) THEN (IF archive.flash THEN "Protocol" ELSE "Firmware")
    ELSE "none"

Sound(k) == \A j \in 1..k : Fault(j) = "none"

-----------------------------------------------------------------------------
(* Properties.                                                             *)

\* The images handed on are those of the list, each with its own name and its
\* own bytes: a name record counts for the header behind it and for no other,
\* and no member is met twice or passed over.
ImagesOfTheList ==
    \A i \in 1..Len(log) : \E k \in Images :
        /\ log[i] = [name |-> NameOf(k), entry |-> EntryOf(k),
                     start |-> Start[k] + Block, size |-> Members[k].size]
        /\ Cardinality({j \in Images : j <= k}) = i

\* The result is that of the first member that is not in order; Success means
\* that there is none and that every image there is was handed on.
FirstFaultDecides ==
    /\ rc = "Success" =>
          (\A k \in Visible : Fault(k) = "none") /\ Len(log) = Cardinality(Images)
    /\ rc \in {"Firmware", "Pit", "Protocol"} =>
          \E k \in Visible : Fault(k) = rc /\ Sound(k - 1)

\* The list need not be all there: an archive cut between two members, or within a
\* header, passes (the walk stops like at its end).  What Success may leave out is
\* then a tail of whole members; no member is there in part.
CutBetweenMembers ==
    rc = "Success" => \A k \in 1..Len(Members) :
        \/ Start[k] + Block + Members[k].size <= archive.end
        \/ \A j \in k..Len(Members) : Start[j] + Block > archive.end

\* No image reaches beyond the end of the content into the MD5 trailer or past
\* the end of the file, wherever an archive was cut off.
InsideContent == \A i \in 1..Len(log) : log[i].start + log[i].size <= archive.end

\* The walk only ever reads headers: padding of every size leads to the next.
HeadersOnly == Running => AtMember \/ pos = Start[Len(Members) + 1]

\* No partition is given two images by one archive, under whatever names.
OneImagePerPartition ==
    \A i, j \in 1..Len(log) :
        Pit[log[i].entry].identifier = Pit[log[j].entry].identifier => i = j

\* The walk ends.
Ends == <>(rc # "none")
=============================================================================
