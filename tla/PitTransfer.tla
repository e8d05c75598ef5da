------------------------------ MODULE PitTransfer ------------------------------
(***************************************************************************)
(* request_pit: the PIT travels from the device, in blocks in the legacy   *)
(* protocol and in one transfer in Thor, and parse_pit_bytes turns its     *)
(* bytes into entries.  A byte is known by its position in the device's    *)
(* memory; what it says is known of the entries only.                      *)
(***************************************************************************)
EXTENDS Integers, Sequences

CONSTANTS
    Devices,     \* [thor, size, magic, count, entries]: what a device holds
    HeaderLen,   \* 28 in the code
    EntryLen,    \* 132
    BlockLen,    \* 500
    MaxSize,     \* 1 MiB
    MaxEntries   \* 512

(***************************************************************************)
(* size is what the device announces, count what the header of the table   *)
(* says; neither need agree with the other.  Behind the table the memory   *)
(* holds more of what looks like entries.  An entry is [identifier, name,  *)
(* file], the names "ok", "bad" (not printable, or with a slash) or        *)
(* "empty".                                                                *)
(***************************************************************************)
SizesAssumption ==
    /\ HeaderLen \in Nat /\ EntryLen \in Nat \ {0} /\ BlockLen \in Nat \ {0}
    /\ MaxSize \in Nat /\ MaxEntries \in Nat
Entry == [identifier : Nat, name : {"ok", "bad", "empty"}, file : {"ok", "bad", "empty"}]
DevicesAssumption ==
    \A d \in Devices :
        /\ d \in [thor : BOOLEAN, size : Nat, magic : BOOLEAN, count : Nat, entries : Seq(Entry)]
        /\ HeaderLen + (Len(d.entries) + 1) * EntryLen > d.size

VARIABLES
    device,      \* the device, from Devices
    pc,          \* where request_pit stands, or its result
    pit,         \* the bytes received, by position; Unset where none came
    i,           \* blocks received, later entries parsed
    entries      \* pit_table.entries

vars == <<device, pc, pit, i, entries>>

Unset == -1
Size == Len(pit)

TypeOK ==
    /\ pc \in {"size", "blocks", "end", "data", "header", "entries", "true", "false"}
    /\ \A k \in 1..Size : pit[k] \in {Unset, k - 1}
    /\ Size \in {0, device.size}
    /\ i \in Nat
    /\ Len(entries) <= MaxEntries

Init ==
    /\ device \in Devices
    /\ pc = "size"
    /\ pit = <<>> /\ i = 0 /\ entries = <<>>

-----------------------------------------------------------------------------
(* The transfer.                                                           *)

\* An exchange or a read fails, or the device refuses.
Fail ==
    /\ pc \in {"size", "blocks", "end", "data"}
    /\ pc' = "false"
    /\ UNCHANGED <<device, pit, i, entries>>

SmallestSize == IF device.thor THEN HeaderLen ELSE 1
SizeOk == device.size >= SmallestSize /\ device.size <= MaxSize

ReceiveSize ==
    /\ pc = "size"
    /\ IF SizeOk
       THEN /\ pit' = [k \in 1..device.size |-> Unset]
            /\ pc' = IF device.thor THEN "data" ELSE "blocks"
       ELSE pc' = "false" /\ UNCHANGED pit
    /\ UNCHANGED <<device, i, entries>>

\* receive_packet with the full size as the least length it takes.
ReceiveData ==
    /\ pc = "data"
    /\ pit' = [k \in 1..Size |-> k - 1]
    /\ pc' = "header"
    /\ UNCHANGED <<device, i, entries>>

Blocks == (Size + BlockLen - 1) \div BlockLen

\* A block comes in full length; the last may reach beyond the PIT.
Copied(off) == IF BlockLen < Size - off THEN BlockLen ELSE Size - off

DumpBlock ==
    /\ pc = "blocks"
    /\ i < Blocks
    /\ LET off == i * BlockLen
           placed == (off + 1)..(off + Copied(off))
       IN  pit' = [k \in 1..Size \cup placed |-> IF k \in placed THEN k - 1 ELSE pit[k]]
    /\ i' = i + 1
    /\ UNCHANGED <<device, pc, entries>>

BlocksDone ==
    /\ pc = "blocks"
    /\ i = Blocks
    /\ pc' = "end"
    /\ UNCHANGED <<device, pit, i, entries>>

EndDump ==
    /\ pc = "end"
    /\ pc' = "header"
    /\ UNCHANGED <<device, pit, i, entries>>

-----------------------------------------------------------------------------
(* parse_pit_bytes.                                                        *)

\* Mutant of Required: a count that is one too large is let through.
RequiredOneLess == HeaderLen + device.count * EntryLen - EntryLen

Required == HeaderLen + device.count * EntryLen

ParseHeader ==
    /\ pc = "header"
    /\ i' = 0
    /\ pc' = IF /\ Size >= HeaderLen
                /\ device.magic
                /\ device.count \in 1..MaxEntries
                /\ Size >= Required
             THEN "entries" ELSE "false"
    /\ UNCHANGED <<device, pit, entries>>

\* What stands at the place of entry k: itself, if all its bytes are there.
Torn == [identifier |-> 1, name |-> "ok", file |-> "empty"]
EntryAt(k) ==
    IF \A p \in (HeaderLen + (k - 1) * EntryLen)..(HeaderLen + k * EntryLen - 1) :
          p < Size /\ pit[p + 1] = p
    THEN device.entries[k] ELSE Torn

FreshIdentifier(id) == \A k \in 1..Len(entries) : entries[k].identifier # id

EntryOk(e) ==
    /\ e.name = "ok" /\ e.file # "bad"
    /\ e.identifier # 0 /\ FreshIdentifier(e.identifier)

ParseEntry ==
    /\ pc = "entries"
    /\ i < device.count
    /\ LET e == EntryAt(i + 1)
       IN  IF EntryOk(e)
           THEN entries' = Append(entries, e) /\ i' = i + 1 /\ UNCHANGED pc
           ELSE pc' = "false" /\ UNCHANGED <<i, entries>>
    /\ UNCHANGED <<device, pit>>

ParseDone ==
    /\ pc = "entries"
    /\ i = device.count
    /\ pc' = "true"
    /\ UNCHANGED <<device, pit, i, entries>>

Next ==
    \/ Fail \/ ReceiveSize \/ ReceiveData
    \/ DumpBlock \/ BlocksDone \/ EndDump
    \/ ParseHeader \/ ParseEntry \/ ParseDone

\* Every exchange has a timeout, so it ends one way or the other.
Spec == Init /\ [][Next]_vars /\ WF_vars(Next)

-----------------------------------------------------------------------------
(* Properties.                                                             *)

\* A transfer that is taken as complete has brought every byte of the announced
\* size, each to its place, whether or not the last block is full.
WholePit == pc \in {"header", "entries", "true"} => \A k \in 1..Size : pit[k] = k - 1

\* The table that is used holds the entries of the device, all those its header
\* counts, none of them from beyond the bytes received.
TableOfTheDevice ==
    pc = "true" => /\ entries = SubSeq(device.entries, 1, device.count)
                   /\ HeaderLen + Len(entries) * EntryLen <= device.size

\* An identifier names one partition of the table: the archive walk counts on it
\* to find two images of one partition, and the device to find the partition.
IdentifiersAreUnique ==
    \A j, k \in 1..Len(entries) :
        j # k => entries[j].identifier # entries[k].identifier

\* What is wrong with the PIT of device d.
Faulty(d) ==
    \/ d.size < HeaderLen \/ d.size > MaxSize \/ ~d.magic
    \/ d.count \notin 1..MaxEntries
    \/ d.size < HeaderLen + d.count * EntryLen
    \/ \E k \in 1..d.count :
          \/ d.entries[k].name # "ok" \/ d.entries[k].file = "bad"
          \/ d.entries[k].identifier = 0
          \/ \E j \in 1..(k - 1) : d.entries[j].identifier = d.entries[k].identifier

\* A PIT with a fault is never used.
UsedIsSound == pc = "true" => ~Faulty(device)

\* A PIT with a fault is refused, and one without is used unless an exchange
\* fails: from the moment all of it is there the result is decided.
Judged == pc \in {"header", "entries"} ~> (IF Faulty(device) THEN pc = "false" ELSE pc = "true")
=============================================================================
