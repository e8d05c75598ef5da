------------------------------ MODULE DeviceWrites -----------------------------
(***************************************************************************)
(* Bytes on their way to the device: single messages (BulkWrite), and how  *)
(* the bytes of an image are cut into messages (ImageTransfer).  Neither   *)
(* reads the other's state; a run is one of them.                          *)
(***************************************************************************)
EXTENDS BulkWrite

CONSTANTS
    Images, Packet, Count, ImageChunk, MaxSequences   \* of ImageTransfer

VARIABLES
    part,   \* the part that runs: "write" or "image"
    image, step, i, j, total_sent, index, announced, buffer, flashed, last   \* of ImageTransfer

Img == INSTANCE ImageTransfer WITH Chunk <- ImageChunk, pc <- step

image_vars == <<image, step, i, j, total_sent, index, announced, buffer, flashed, last>>
all == <<part, vars, image_vars>>

AnImage == CHOOSE m \in Images : TRUE

AnyInit ==
    /\ part \in {"write", "image"}
    /\ part = "image" \/ (part # "image" /\ image = AnImage)
    /\ Init /\ Img!Init

AnyNext ==
    /\ UNCHANGED part
    /\ \/ part = "write" /\ Next /\ UNCHANGED image_vars
       \/ part = "image" /\ Img!Next /\ UNCHANGED vars

AnySpec == AnyInit /\ [][AnyNext]_all /\ WF_all(part = "write" /\ AnyNext)

-----------------------------------------------------------------------------
(* Properties: the invariants of BulkWrite, and these.                     *)

\* BulkWrite: bulk_write_all returns for every message, its variables of their types.
WriteReturns == part = "write" => []TypeOK /\ Returns

\* ImageTransfer: what the device puts together is the beginning of the image and,
\* once the end is told, all of it; each sequence has what was announced for it;
\* true means the whole image, and only bad input is refused.
ImageArrives ==
    /\ [](Img!TypeOK /\ Img!FlashedIsPrefix /\ Img!LastMeansWhole /\ Img!ResultExact)
    /\ Img!AnnouncedIsSent
=============================================================================
