------------------------------- MODULE MCBulkRead -------------------------------
(***************************************************************************)
(* Small replies and tables for DeviceReads.                               *)
(***************************************************************************)
EXTENDS DeviceReads

\* Every read of up to three packets of two bytes and every shorter reply.
Possible == [size : 1..6, min : 1..6, override : BOOLEAN, once : BOOLEAN, length : 0..6]
AllReads == {r \in Possible :
    /\ r.min <= r.size /\ r.length <= r.size
    /\ r.min < r.size \/ r.once => r.size <= MaxPacket
    /\ r.once => r.min = r.size /\ ~r.override}

-----------------------------------------------------------------------------
(* Tables of up to three entries with a header of two bytes, entries of    *)
(* three and blocks of four: announced sizes that end in every byte of a   *)
(* block and of an entry, below, at and above what the header counts.      *)
Good(id) == [identifier |-> id, name |-> "ok", file |-> "ok"]
EntryKinds == {Good(1), Good(2), [Good(3) EXCEPT !.file = "empty"], [Good(3) EXCEPT !.file = "bad"],
    [Good(3) EXCEPT !.name = "bad"], [Good(3) EXCEPT !.name = "empty"]}
AllDevices ==
    [thor : BOOLEAN, size : 0..13, magic : {TRUE}, count : 0..4, entries : [1..4 -> EntryKinds]]
    \cup [thor : BOOLEAN, size : {8, 11}, magic : BOOLEAN, count : 1..3,
          entries : [1..4 -> {Good(0), Good(1), Good(2)}]]
\* The memory behind the entries that are counted does not matter.
SomeDevices == {d \in AllDevices : \A k \in (d.count + 1)..4 : d.entries[k] = Good(2)}

ASSUME Pit!SizesAssumption /\ Pit!DevicesAssumption
=============================================================================
