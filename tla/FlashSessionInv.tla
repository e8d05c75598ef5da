---------------------------- MODULE FlashSessionInv ----------------------------
(***************************************************************************)
(* The inductive invariant behind the theorems of FlashSessionProofs, in   *)
(* named parts, here so that TLC can check it before it is proved.         *)
(***************************************************************************)
EXTENDS FlashSession

ThorFile == {"send_file_part_header", "send_file_part_chunk", "file_part_data",
             "end_file_transfer"}
LegacyFile == {"odin_request_file_flash", "odin_request_sequence_flash",
               "odin_send_file_part", "odin_end_sequence_flash",
               "odin_reset_flash_count"}
InFile == ThorFile \cup LegacyFile

\* The cursor points into the archives, and at an image while one is flashed.
CursorOK ==
    /\ pc \in InFile \cup {"tar_entry"} => arch <= Len(cfg.archives)
    /\ pc \in InFile =>
          /\ entry <= Len(cfg.archives[arch].entries)
          /\ Current.kind = "file" /\ Current.part # 0

\* How far the chunk loops are.
PartOK ==
    /\ pc = "send_file_part_header" => part = 0
    /\ pc = "odin_request_file_flash" => part = 0
    /\ pc = "send_file_part_chunk" => part <= Current.available
    /\ pc = "send_file_part_chunk" /\ phase = "recv" => part < Current.available
    /\ pc = "file_part_data" => part < Current.available
    /\ pc = "end_file_transfer" => part = Current.announced
    /\ pc = "odin_request_sequence_flash" => part < Current.announced
    /\ pc = "odin_send_file_part" => part < seqend /\ seqend <= Current.announced
    /\ pc = "odin_end_sequence_flash" => part = seqend /\ seqend <= Current.announced

\* The requests the device takes numbers from carry them.
Operands(op, arg) ==
    /\ op \in {"FILE_PART", "RequestSequenceFlash"} => Len(arg) >= 1
    /\ op \in {"END_FILE_TRANSFER", "EndSequenceFlash"} => Len(arg) = 2

OperandsOK == \A i \in 1..Len(outq) : Operands(outq[i].op, outq[i].arg)

-----------------------------------------------------------------------------
(* Lockstep: while no exchange has failed, the pipes hold the request made *)
(* at pc or its answer and nothing else.                                   *)

Asks == {<<"odin_legacy_handshake", "ODIN">>, <<"handshake", "HANDSHAKE">>,
    <<"request_device_type", "DEVICE_TYPE">>, <<"begin_session", "BEGIN_SESSION">>,
    <<"odin_begin_session", "BeginSession">>, <<"odin_file_part_size", "SendFilePartSize">>,
    <<"request_pit", "PIT_FILE">>, <<"odin_dump_pit", "RequestPitDump">>,
    <<"odin_pit_block", "PitDumpBlock">>, <<"odin_end_pit", "EndPitDump">>,
    <<"send_file_part_header", "FILE_PART_SIZE">>, <<"send_file_part_chunk", "FILE_PART">>,
    <<"file_part_data", "FILE_DATA">>, <<"end_file_transfer", "END_FILE_TRANSFER">>,
    <<"odin_request_file_flash", "RequestFileFlash">>,
    <<"odin_request_sequence_flash", "RequestSequenceFlash">>,
    <<"odin_send_file_part", "SendFilePart">>,
    <<"odin_end_sequence_flash", "EndSequenceFlash">>,
    <<"odin_reset_flash_count", "ResetFlashCount">>,
    <<"send_reboot", "CONTROL_REBOOT">>, <<"send_reboot", "Reboot">>,
    <<"send_redownload", "CONTROL_REDOWNLOAD">>,
    <<"end_session", "END_SESSION">>, <<"end_session", "EndSession">>}

TwoPackets == {"request_pit", "odin_pit_block"}

\* The one request under way.
Asked ==
    /\ Len(outq) = 1 /\ inq = <<>>
    /\ outq[1].n = sent
    /\ <<pc, outq[1].op>> \in Asks
    /\ outq[1].op \in {"FILE_DATA", "SendFilePart"} => outq[1].arg = <<arch, entry, part + 1>>
    /\ outq[1].op = "EndSequenceFlash" => outq[1].arg[2] = IF IsLast THEN 1 ELSE 0

\* Its answer, if the device gave one; only a PIT request has two packets.
Answered ==
    /\ outq = <<>>
    /\ \A i \in 1..Len(inq) : inq[i].to = sent
    /\ pc \in TwoPackets => Len(inq) <= 2
    /\ pc \notin TwoPackets => Len(inq) <= 1
    /\ pc \in TwoPackets /\ Len(inq) = 1 => inq[1].code # "ok"

InStep == IF phase = "send" THEN outq = <<>> /\ inq = <<>> ELSE Asked \/ Answered

\* During the handshake the legacy greeting or its answer may still be about,
\* but nothing that passes for the answer to the handshake.
Passes(r) == r.kind = "RESPONSE" /\ r.code = "ok"

Greeting ==
    /\ \A i \in 1..Len(outq) :
          outq[i].op = "ODIN" \/ (outq[i].op = "HANDSHAKE" /\ phase = "recv"
                                  /\ outq[i].n = sent /\ i = Len(outq))
    /\ phase = "send" \/ outq # <<>> => \A i \in 1..Len(inq) : ~Passes(inq[i])
    /\ \A i \in 1..Len(inq) : Passes(inq[i]) => i = Len(inq) /\ inq[i].to = sent
    /\ phase = "recv" /\ outq # <<>> => outq[Len(outq)].op = "HANDSHAKE"

\* After a failed exchange only end_session is left to do.
TroubleEnds == trouble => pc \in {"end_session", "exit"}

Lockstep == ~trouble => IF pc = "handshake" THEN Greeting ELSE InStep

-----------------------------------------------------------------------------
(* What the device has of the image under way.                             *)

Prefix(n) == [k \in 1..n |-> <<arch, entry, k>>]

\* The device has performed the request made at pc.
Done == phase = "recv" /\ outq = <<>> /\ inq # <<>> /\ Head(inq).code = "ok"

Received ==
    /\ pc \in {"send_file_part_header", "odin_request_file_flash"} /\ Done => xfer = <<>>
    /\ pc \in {"send_file_part_chunk", "odin_request_sequence_flash"} => xfer = Prefix(part)
    /\ pc \in {"file_part_data", "odin_send_file_part"} =>
          xfer = Prefix(IF Done THEN part + 1 ELSE part)
    /\ pc = "end_file_transfer" /\ ~Done => xfer = Prefix(part)
    /\ pc = "odin_end_sequence_flash" /\ ~(Done /\ IsLast) => xfer = Prefix(part)

ReceivedOK == ~trouble => Received

\* A request to finalise is handled next if at all, and the image is complete.
Finalises(q) ==
    \/ q.op = "END_FILE_TRANSFER"
    \/ q.op = "EndSequenceFlash" /\ q.arg[2] = 1

FinalReady ==
    \A i \in 1..Len(outq) : Finalises(outq[i]) =>
        /\ i = 1
        /\ \E w \in Work : [part |-> outq[i].arg[1], data |-> xfer] = Image(w)

\* The typed part of the invariant holds whatever the device does.
TypeInv == TypeOK /\ CursorOK /\ PartOK /\ OperandsOK

\* The whole invariant: it needs every reply to be final (~ProgressReplies).
FlashInv ==
    /\ TypeInv /\ TroubleEnds /\ Lockstep
    /\ ReceivedOK /\ FinalReady /\ FinalisedComplete
=============================================================================
