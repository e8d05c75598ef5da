------------------------------ MODULE DeviceReads ------------------------------
(***************************************************************************)
(* Bytes on their way from the device: single replies (BulkRead), and the  *)
(* PIT with its many (PitTransfer).  Neither reads the other's state; a    *)
(* run is one of them.                                                     *)
(***************************************************************************)
EXTENDS BulkRead

CONSTANTS
    Devices, HeaderLen, EntryLen, BlockLen, MaxSize, MaxEntries   \* of PitTransfer

VARIABLES
    part,   \* the part that runs: "read" or "pit"
    device, step, pit, i, entries   \* of PitTransfer

Pit == INSTANCE PitTransfer WITH pc <- step

pit_vars == <<device, step, pit, i, entries>>
all == <<part, vars, pit_vars>>

ARead == CHOOSE r \in Reads : TRUE
ADevice == CHOOSE d \in Devices : TRUE

AnyInit ==
    /\ part \in {"read", "pit"}
    /\ part = "read" \/ (part # "read" /\ call = ARead)
    /\ part = "pit" \/ (part # "pit" /\ device = ADevice)
    /\ Init /\ Pit!Init

Read == part = "read" /\ UNCHANGED part /\ UNCHANGED pit_vars
RequestPit == part = "pit" /\ Pit!Next /\ UNCHANGED part /\ UNCHANGED vars

AnyNext == (Read /\ Next) \/ RequestPit

AnySpec == AnyInit /\ [][AnyNext]_all /\ WF_all(Read /\ Host) /\ WF_all(RequestPit)

-----------------------------------------------------------------------------
(* Properties: the invariants of BulkRead, and these.                      *)

\* BulkRead: receive_packet and bulk_read_once return, their variables of their types.
ReadReturns == part = "read" => []TypeOK /\ Returns

\* PitTransfer: a complete transfer has brought every byte to its place, the table in
\* use is without fault and holds the entries its header counts, and an identifier
\* names one of them.
PitInUse ==
    /\ Pit!TypeOK /\ Pit!WholePit /\ Pit!TableOfTheDevice
    /\ Pit!IdentifiersAreUnique /\ Pit!UsedIsSound

\* PitTransfer: a PIT with a fault is refused, one without is used.
Judged == part = "pit" => Pit!Judged
=============================================================================
