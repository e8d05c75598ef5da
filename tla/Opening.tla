--------------------------------- MODULE Opening --------------------------------
(***************************************************************************)
(* What comes before a session: the command line (CommandLine), the device *)
(* that is found and opened (UsbOpen), and the check that the archives are *)
(* for it (ModelMatch).  What one hands to the next is an input of it; a   *)
(* run is one of the three.                                                *)
(***************************************************************************)
EXTENDS UsbOpen, Integers

CONSTANTS
    CommandLines, HexOf, IntOf, Dashed, Buses,   \* of CommandLine
    Reported, ArchiveNames                       \* of ModelMatch

VARIABLES
    part,   \* the part that runs: "line", "usb" or "model"
    args, plugged, i, cfg, level, devices, reading, rc,   \* of CommandLine
    field, names, dt, k, matching                         \* of ModelMatch

Line == INSTANCE CommandLine WITH bus <- plugged, pc <- reading
Model == INSTANCE ModelMatch WITH Archives <- ArchiveNames, pc <- matching

line_vars == <<args, plugged, i, cfg, level, devices, reading, rc>>
model_vars == <<field, names, dt, k, matching>>
all == <<part, vars, line_vars, model_vars>>

\* What a part that does not run is given.
NoWish == [vid |-> {}, pid |-> {}, interface |-> {}]
AName == CHOOSE n \in ArchiveNames : TRUE
AField == CHOOSE f \in Reported : TRUE

AnyInit ==
    /\ part \in {"line", "usb", "model"}
    /\ part = "line" \/ (part # "line" /\ args = <<>> /\ plugged = {})
    /\ part = "usb" \/ (part # "usb" /\ bus = [p \in Paths |-> NoDevice] /\ crit = NoWish /\ path = "")
    /\ part = "model" \/ (part # "model" /\ field = AField /\ names = <<AName>>)
    /\ Init /\ Line!Init /\ Model!Init

AnyNext ==
    \/ part = "line" /\ Line!Next /\ UNCHANGED <<part, vars, model_vars>>
    \/ part = "usb" /\ Next /\ UNCHANGED <<part, line_vars, model_vars>>
    \/ part = "model" /\ Model!Next /\ UNCHANGED <<part, vars, line_vars>>

AnySpec == AnyInit /\ [][AnyNext]_all

-----------------------------------------------------------------------------
(* Properties: those of UsbOpen, and these.                                *)

\* CommandLine: the run gets what the arguments say, whatever their order, with the
\* last word on the level; it has something to do and no argument was not
\* understood; its device is the one named or the only one there is (of several
\* none is taken, which is what SeveralDevicesServed is about).
RunIsTheArguments ==
    Line!ConfigIsTheArguments /\ Line!QuietIsLast /\ Line!RunIsSensible /\ Line!DeviceIsChosen

\* CommandLine, README "Core Features": several devices are flashed in turn.
SeveralDevicesServed == Line!SeveralAreServed

\* ModelMatch: an archive whose name has the reported type in it is accepted, and
\* each archive of a set that is accepted names the model.
ModelCompared == Model!SameModelAccepted /\ Model!AcceptedNamesTheModel
=============================================================================
