--------------------------- MODULE DownloadDevice ---------------------------
(***************************************************************************)
(* The bootloader at the other end of the cable.  It is not part of the    *)
(* repository: its behaviour is what usb_device.cpp relies on, for the     *)
(* packet protocol ("Thor", thor_protocol.h) and for the older command     *)
(* protocol ("OdinLegacy", odin_* in usb_device.cpp).  It handles requests *)
(* in order, may refuse any of them, may take as long as it likes (so a    *)
(* reply may arrive after the host has given up) and may never answer.     *)
(*                                                                         *)
(* A partition image is the sequence of chunks that were sent for it; a    *)
(* chunk is <<archive, entry, index>>, so that lost, repeated, misplaced   *)
(* or foreign chunks can be told apart.                                    *)
(***************************************************************************)
EXTENDS UsbChannel, FiniteSets

CONSTANTS
    DeviceTypes,      \* what ThorDeviceTypePacket may report; NoType is ""
    Protocols,        \* the protocols the attached device may speak
    PitBlocks,        \* number of 500-byte blocks of a legacy PIT dump
    ProgressReplies   \* may EndSequenceFlash be answered by 0xFF, -7..-2 first?

NoType == 0

ASSUME DeviceTypesAssumption == DeviceTypes \subseteq Nat
ASSUME ProtocolsAssumption == Protocols \subseteq {"Thor", "OdinLegacy"}
ASSUME PitBlocksAssumption == PitBlocks \in Nat \ {0}
ASSUME ProgressRepliesAssumption == ProgressReplies \in BOOLEAN

VARIABLES
    profile,   \* [proto, type, version, pit] of the attached device; pit says
               \* whether its PIT is one that parse_pit_bytes accepts
    stage,     \* "idle", "session", "file" or "part"
    due,       \* legacy: parts still to come in the running sequence
    xfer,      \* chunks received for the file being transferred
    flashed,   \* finalised partitions, oldest first: [part, data]
    busy       \* a progress reply went out for the request being handled

device == <<profile, stage, due, xfer, flashed, busy>>

ThorOps == {"HANDSHAKE", "DEVICE_TYPE", "BEGIN_SESSION", "PIT_FILE",
            "FILE_PART_SIZE", "FILE_PART", "FILE_DATA", "END_FILE_TRANSFER",
            "CONTROL_REBOOT", "CONTROL_REDOWNLOAD", "END_SESSION"}

LegacyOps == {"ODIN", "BeginSession", "SendFilePartSize", "RequestPitDump",
              "PitDumpBlock", "EndPitDump", "RequestFileFlash",
              "RequestSequenceFlash", "SendFilePart", "EndSequenceFlash",
              "ResetFlashCount", "Reboot", "EndSession"}

Ops == ThorOps \cup LegacyOps

OpsOf(proto) == IF proto = "Thor" THEN ThorOps ELSE LegacyOps

Profiles == [proto : Protocols, type : DeviceTypes \cup {NoType}, version : {1, 2}, pit : BOOLEAN]

DeviceTypeOK ==
    /\ profile \in Profiles
    /\ stage \in {"idle", "session", "file", "part"}
    /\ due \in Nat
    /\ xfer \in Seq(Seq(Nat))
    /\ flashed \in Seq([part : Nat, data : Seq(Seq(Nat))])
    /\ busy \in BOOLEAN

DeviceInit ==
    /\ profile \in Profiles
    /\ stage = "idle"
    /\ due = 0
    /\ xfer = <<>>
    /\ flashed = <<>>
    /\ busy = FALSE

-----------------------------------------------------------------------------
Pending(ops) == outq # <<>> /\ Head(outq).op \in ops \cap OpsOf(profile.proto)
Arg == Head(outq).arg

\* The plain positive answer of each protocol.
Ack(val) == <<Answer(IF profile.proto = "Thor" THEN "RESPONSE" ELSE "RSP8", "ok", val)>>

\* Requests that are answered and change nothing the host can observe later.
DeviceInform ==
    /\ \/ Pending({"HANDSHAKE", "SendFilePartSize", "RequestPitDump",
                   "EndPitDump", "ResetFlashCount"}) /\ Serve(Ack(0))
       \/ Pending({"ODIN"}) /\ Serve(<<Answer("LOKE", "ok", 0)>>)
       \/ Pending({"DEVICE_TYPE"})
          /\ Serve(<<Answer("DEVICE_TYPE", "ok", profile.type)>>)
       \/ \E size \in {"ok", "fail"} :   \* a size the host takes, or refuses
             /\ Pending({"PIT_FILE"})
             /\ Serve(<<Answer("PIT_SIZE", size, 0), Answer("PIT_DATA", "ok", 0)>>)
       \/ Pending({"PitDumpBlock"})
          /\ Serve(<<Answer("RSP8", "ok", 0), Answer("PIT_DATA", "ok", 0)>>)
    /\ UNCHANGED device

DeviceBegin ==
    /\ Pending({"BEGIN_SESSION", "BeginSession"})
    /\ Serve(Ack(profile.version))
    /\ stage' = "session"
    /\ UNCHANGED <<profile, due, xfer, flashed, busy>>

\* The end of the session; a reboot ends it too.
DeviceEnd ==
    /\ Pending({"END_SESSION", "EndSession", "CONTROL_REBOOT",
                "CONTROL_REDOWNLOAD", "Reboot"})
    /\ Serve(Ack(0))
    /\ stage' = "idle"
    /\ UNCHANGED <<profile, due, xfer, flashed, busy>>

DeviceStartFile ==
    /\ Pending({"FILE_PART_SIZE", "RequestFileFlash"})
    /\ Serve(Ack(0))
    /\ stage' = "file"
    /\ xfer' = <<>>
    /\ UNCHANGED <<profile, due, flashed, busy>>

\* Announces one chunk (Thor) or a sequence of Arg[1] parts (legacy).
DeviceStartPart ==
    /\ Pending({"FILE_PART", "RequestSequenceFlash"})
    /\ Serve(Ack(0))
    /\ stage' = "part"
    /\ due' = Arg[1]
    /\ UNCHANGED <<profile, xfer, flashed, busy>>

\* The data of an announced chunk; a legacy device answers with its own part index.
DeviceTakeData ==
    /\ Pending({"FILE_DATA", "SendFilePart"})
    /\ due > 0
    /\ Serve(Ack(Len(xfer)))
    /\ stage' = IF profile.proto = "Thor" THEN "file" ELSE "part"
    /\ due' = due - 1
    /\ xfer' = Append(xfer, Arg)
    /\ UNCHANGED <<profile, flashed, busy>>

\* END_FILE_TRANSFER names the partition; EndSequenceFlash also says whether
\* this was the last sequence of the file.
DeviceFinalise ==
    /\ Pending({"END_FILE_TRANSFER", "EndSequenceFlash"})
    /\ Serve(Ack(0))
    /\ IF Arg[2] = 1
       THEN /\ stage' = "session"
            /\ flashed' = Append(flashed, [part |-> Arg[1], data |-> xfer])
            /\ xfer' = <<>>
       ELSE /\ stage' = "file"
            /\ UNCHANGED <<flashed, xfer>>
    /\ busy' = FALSE
    /\ UNCHANGED <<profile, due>>

\* Any request may be refused: a failing RESPONSE, or 0xFF in an 8-byte reply.
DeviceRefuse ==
    /\ outq # <<>>
    /\ Serve(<<Answer(IF profile.proto = "Thor" THEN "RESPONSE" ELSE "RSP8", "fail", 0)>>)
    /\ busy' = FALSE
    /\ UNCHANGED <<profile, stage, due, xfer, flashed>>

\* The opening packet of the other protocol may also be ignored.
DeviceIgnore ==
    /\ outq # <<>>
    /\ Head(outq).op \notin OpsOf(profile.proto)
    /\ Serve(<<>>)
    /\ UNCHANGED device

\* "Some bootloaders report intermediate/progress states using 0xFF + a
\* negative code" (odin_fail_check): the verdict on the sequence follows later.
DeviceProgress ==
    /\ ProgressReplies
    /\ Pending({"EndSequenceFlash"})
    /\ ~busy
    /\ busy' = TRUE
    /\ inq' = Append(inq, Answer("RSP8", "progress", 0))
    /\ UNCHANGED <<phase, sent, outq, profile, stage, due, xfer, flashed>>

DeviceNext ==
    \/ DeviceInform \/ DeviceBegin \/ DeviceEnd
    \/ DeviceStartFile \/ DeviceStartPart \/ DeviceTakeData \/ DeviceFinalise
    \/ DeviceRefuse \/ DeviceIgnore \/ DeviceProgress

-----------------------------------------------------------------------------
(* The order of requests both protocols prescribe.                         *)

Legal(q) ==
    /\ q.op \in {"BEGIN_SESSION", "BeginSession"} => stage = "idle"
    /\ q.op \in {"PIT_FILE", "SendFilePartSize", "RequestPitDump", "PitDumpBlock",
                 "EndPitDump", "FILE_PART_SIZE", "RequestFileFlash",
                 "ResetFlashCount"} => stage = "session"
    /\ q.op \in {"FILE_PART", "END_FILE_TRANSFER", "RequestSequenceFlash"} => stage = "file"
    /\ q.op = "FILE_DATA" => stage = "part"
    /\ q.op = "SendFilePart" => stage = "part" /\ due > 0
    /\ q.op = "EndSequenceFlash" => stage = "part" /\ due = 0
=============================================================================
