---------------------------- MODULE FlashSession ----------------------------
(***************************************************************************)
(* One run of odin4 against one device: run_for_device (main.cpp), the     *)
(* control flow of process_tar_file (firmware_package.cpp) and the         *)
(* operations of UsbDevice that exchange packets with the device, in both  *)
(* protocols.  `pc' is the function that runs; an operation that exchanges *)
(* a request and a reply is entered with phase = "send" and left when its  *)
(* reply has been read or it has failed.                                   *)
(***************************************************************************)
EXTENDS DownloadDevice

CONSTANTS
    Configs,    \* the invocations considered: OdinConfig with its archives
    SeqParts    \* odin_flash_sequence_count: parts per legacy sequence

(***************************************************************************)
(* An archive is what process_tar_file can tell about the file: the device *)
(* types its name matches, whether the checks made before the first header *)
(* succeed (MD5 trailer, readable, large enough), and its entries.  An     *)
(* entry is                                                                *)
(*   kind       "file", "skip" (directory, link, long-name or PAX header)  *)
(*              or "bad" (checksum, size field, name or bounds)            *)
(*   part       identifier of the PIT entry it matches, 0 for none         *)
(*   lz4        its name ends in .lz4                                      *)
(*   readable   LZ4: the frame header, and the scan that computes a        *)
(*              missing content size, succeed                              *)
(*   announced  chunks its (declared) size amounts to                      *)
(*   available  chunks that can really be read or decoded from it          *)
(***************************************************************************)
Entries == [kind : {"file", "skip", "bad"}, part : Nat, lz4 : BOOLEAN,
            readable : BOOLEAN, announced : Nat, available : Nat]
Archives == [matches : SUBSET DeviceTypes, intact : BOOLEAN, entries : Seq(Entries)]
Invocations == [archives : Seq(Archives), dry_run : BOOLEAN, allow_unknown : BOOLEAN,
                reboot : BOOLEAN, redownload : BOOLEAN]

\* A raw entry cannot hold more than its header says; a frame without a
\* content size announces what the scan decoded.
Plausible(e) ==
    /\ ~e.lz4 => e.available <= e.announced
    /\ e.lz4 /\ e.announced = 0 => e.available = 0

\* process_arguments_and_run rejects an invocation with nothing to do.
ASSUME ConfigsAssumption ==
    /\ Configs \subseteq Invocations
    /\ \A c \in Configs :
        /\ c.archives # <<>> \/ c.reboot \/ c.redownload
        /\ c.dry_run => c.archives # <<>>
        /\ \A a \in 1..Len(c.archives) : \A i \in 1..Len(c.archives[a].entries) :
              Plausible(c.archives[a].entries[i])
ASSUME SeqPartsAssumption == SeqParts \in Nat \ {0}

VARIABLES
    cfg,       \* the invocation
    pc,        \* the function that runs; "exit" after run_for_device returned
    rc,        \* the ExitCode to return
    trouble,   \* history: an exchange with the device has failed
    mode,      \* protocol_mode
    devtype,   \* device_type_str
    arch,      \* index of the archive process_tar_file works on
    entry,     \* index of the tar entry
    part,      \* chunks of the entry sent and acknowledged (or PIT blocks read)
    seqend,    \* legacy: value of part at the end of the running sequence
    used       \* used_partition_ids

link == <<mode, devtype>>
cursor == <<arch, entry, part, seqend, used>>
host == <<cfg, pc, rc, trouble, link, cursor>>
vars == <<chan, device, host>>

ExitCodes == {"Success", "Usb", "Firmware", "Pit", "Protocol"}

Locations == {"open_device", "odin_legacy_handshake", "handshake",
    "request_device_type", "verify_firmware_compatibility", "begin_session",
    "odin_begin_session", "odin_file_part_size", "request_pit",
    "receive_pit_table", "odin_dump_pit", "odin_pit_block", "odin_pit_data",
    "odin_end_pit", "process_tar_file", "tar_entry", "send_file_part_header",
    "send_file_part_chunk", "file_part_data", "end_file_transfer",
    "odin_request_file_flash", "odin_request_sequence_flash",
    "odin_send_file_part", "odin_end_sequence_flash", "odin_reset_flash_count",
    "send_reboot", "send_redownload", "end_session", "exit"}

TypeOK ==
    /\ ChannelTypeOK(Ops)
    /\ DeviceTypeOK
    /\ cfg \in Configs
    /\ pc \in Locations
    /\ rc \in ExitCodes
    /\ trouble \in BOOLEAN
    /\ mode \in {"Thor", "OdinLegacy"}
    /\ devtype \in Nat
    /\ arch \in Nat \ {0}
    /\ entry \in Nat \ {0}
    /\ part \in Nat
    /\ seqend \in Nat
    /\ used \subseteq Nat

Init ==
    /\ ChannelInit
    /\ DeviceInit
    /\ cfg \in Configs
    /\ pc = "open_device"
    /\ rc = "Success"
    /\ trouble = FALSE
    /\ mode = "Thor"
    /\ devtype = NoType
    /\ arch = 1
    /\ entry = 1
    /\ part = 0
    /\ seqend = 0
    /\ used = {}

-----------------------------------------------------------------------------
(* How control moves.                                                      *)

Wait == UNCHANGED <<pc, rc, trouble>>

Goto(f) == pc' = f /\ UNCHANGED <<rc, trouble>>

\* run_for_device returns at once; end_session is not called.
Stop(code) == pc' = "exit" /\ rc' = code /\ trouble' = TRUE

\* Mutant of Abort: the error path returns without calling end_session.
AbortNoEnd(code) == pc' = "exit" /\ rc' = code /\ UNCHANGED trouble

\* run_for_device calls end_session, ignores its result, and returns code.
Abort(code) == pc' = "end_session" /\ rc' = code /\ UNCHANGED trouble
AbortExchange(code) == pc' = "end_session" /\ rc' = code /\ trouble' = TRUE

\* A step of the host that touches neither pipe.
Local == phase = "send" /\ UNCHANGED chan

-----------------------------------------------------------------------------
(* Opening, handshake and session.                                         *)

OpenDevice ==
    /\ pc = "open_device"
    /\ Local
    /\ Goto("odin_legacy_handshake") \/ Stop("Usb")
    /\ UNCHANGED <<link, cursor>>

\* The legacy greeting is tried first; its failure is not an error.
OdinLegacyHandshake ==
    /\ pc = "odin_legacy_handshake"
    /\ \/ Send("ODIN", <<>>) /\ Wait /\ UNCHANGED mode
       \/ Receive(IsOk("LOKE"), "send") /\ mode' = "OdinLegacy" /\ Goto("request_device_type")
       \/ Fails(IsOk("LOKE")) /\ Goto("handshake") /\ UNCHANGED mode
    /\ UNCHANGED <<devtype, cursor>>

Handshake ==
    /\ pc = "handshake"
    /\ \/ Send("HANDSHAKE", <<>>) /\ Wait
       \/ Receive(IsOk("RESPONSE"), "send") /\ Goto("request_device_type")
       \/ Fails(IsOk("RESPONSE")) /\ Stop("Protocol")
    /\ UNCHANGED <<link, cursor>>

RequestDeviceType ==
    /\ pc = "request_device_type"
    /\ \/ /\ mode = "OdinLegacy" /\ Local
          /\ devtype' = NoType
          /\ Goto("verify_firmware_compatibility")
       \/ /\ mode = "Thor"
          /\ \/ Send("DEVICE_TYPE", <<>>) /\ Wait /\ UNCHANGED devtype
             \/ /\ Receive(IsOk("DEVICE_TYPE"), "send")
                /\ devtype' = Head(inq).val
                /\ Goto("verify_firmware_compatibility")
             \/ Fails(IsOk("DEVICE_TYPE")) /\ Stop("Protocol") /\ UNCHANGED devtype
    /\ UNCHANGED <<mode, cursor>>

\* Every archive's file name must contain the device type, if there is one.
Compatible ==
    devtype = NoType \/ \A a \in 1..Len(cfg.archives) : devtype \in cfg.archives[a].matches

VerifyFirmwareCompatibility ==
    /\ pc = "verify_firmware_compatibility"
    /\ Local
    /\ IF Compatible
       THEN Goto(IF mode = "Thor" THEN "begin_session" ELSE "odin_begin_session")
       ELSE pc' = "exit" /\ rc' = "Pit" /\ UNCHANGED trouble
    /\ UNCHANGED <<link, cursor>>

BeginSession ==
    /\ pc = "begin_session"
    /\ \/ Send("BEGIN_SESSION", <<>>) /\ Wait
       \/ Receive(IsOk("RESPONSE"), "send") /\ Goto("request_pit")
       \/ Fails(IsOk("RESPONSE")) /\ Stop("Protocol")
    /\ UNCHANGED <<link, cursor>>

\* Protocol versions above 1 negotiate the packet size in a second command.
OdinBeginSession ==
    /\ pc = "odin_begin_session"
    /\ \/ Send("BeginSession", <<>>) /\ Wait
       \/ /\ Receive(IsOk("RSP8"), "send")
          /\ Goto(IF Head(inq).val <= 1 THEN "odin_dump_pit" ELSE "odin_file_part_size")
       \/ Fails(IsOk("RSP8")) /\ Stop("Protocol")
    /\ UNCHANGED <<link, cursor>>

OdinFilePartSize ==
    /\ pc = "odin_file_part_size"
    /\ \/ Send("SendFilePartSize", <<>>) /\ Wait
       \/ Receive(IsOk("RSP8"), "send") /\ Goto("odin_dump_pit")
       \/ Fails(IsOk("RSP8")) /\ Stop("Protocol")
    /\ UNCHANGED <<link, cursor>>

-----------------------------------------------------------------------------
(* The partition table.  A size outside the limits fails the exchange, and *)
(* its data stay in the pipe; in the legacy protocol the size comes with   *)
(* the answer to RequestPitDump, which is then as good as a refusal.       *)

\* parse_pit_bytes has the whole PIT: to refuse it is no failed exchange.
ParsePit == IF profile.pit THEN Goto("process_tar_file") ELSE Abort("Pit")

RequestPit ==
    /\ pc = "request_pit"
    /\ \/ Send("PIT_FILE", <<>>) /\ Wait
       \/ Receive(IsOk("PIT_SIZE"), "recv") /\ Goto("receive_pit_table")
       \/ Fails(IsOk("PIT_SIZE")) /\ AbortExchange("Pit")
    /\ UNCHANGED <<link, cursor>>

ReceivePitTable ==
    /\ pc = "receive_pit_table"
    /\ \/ Receive(IsOk("PIT_DATA"), "send") /\ ParsePit
       \/ Fails(IsOk("PIT_DATA")) /\ AbortExchange("Pit")
    /\ UNCHANGED <<link, cursor>>

OdinDumpPit ==
    /\ pc = "odin_dump_pit"
    /\ \/ Send("RequestPitDump", <<>>) /\ Wait
       \/ Receive(IsOk("RSP8"), "send") /\ Goto("odin_pit_block")
       \/ Fails(IsOk("RSP8")) /\ AbortExchange("Pit")
    /\ UNCHANGED <<link, cursor>>

OdinPitBlock ==
    /\ pc = "odin_pit_block"
    /\ \/ Send("PitDumpBlock", <<part>>) /\ Wait
       \/ Receive(IsOk("RSP8"), "recv") /\ Goto("odin_pit_data")
       \/ Fails(IsOk("RSP8")) /\ AbortExchange("Pit")
    /\ UNCHANGED <<link, cursor>>

OdinPitData ==
    /\ pc = "odin_pit_data"
    /\ \/ /\ Receive(IsOk("PIT_DATA"), "send")
          /\ part' = part + 1
          /\ Goto(IF part + 1 < PitBlocks THEN "odin_pit_block" ELSE "odin_end_pit")
       \/ Fails(IsOk("PIT_DATA")) /\ AbortExchange("Pit") /\ UNCHANGED part
    /\ UNCHANGED <<link, arch, entry, seqend, used>>

OdinEndPit ==
    /\ pc = "odin_end_pit"
    /\ \/ Send("EndPitDump", <<>>) /\ Wait
       \/ Receive(IsOk("RSP8"), "send") /\ ParsePit
       \/ Fails(IsOk("RSP8")) /\ AbortExchange("Pit")
    /\ UNCHANGED <<link, cursor>>

-----------------------------------------------------------------------------
(* Archives and their entries.                                             *)

Current == cfg.archives[arch].entries[entry]
Flashing == ~cfg.dry_run

ProcessTarFile ==
    /\ pc = "process_tar_file"
    /\ Local
    /\ arch <= Len(cfg.archives)
    /\ IF cfg.archives[arch].intact THEN Goto("tar_entry") ELSE Abort("Firmware")
    /\ entry' = 1
    /\ used' = {}
    /\ UNCHANGED <<link, arch, part, seqend>>

\* Mutant of ArchivesDone: the reboot commands are not skipped in a dry run.
ArchivesDoneAlwaysControl ==
    /\ pc = "process_tar_file"
    /\ Local
    /\ arch > Len(cfg.archives)
    /\ Goto("send_reboot")
    /\ UNCHANGED <<link, cursor>>

ArchivesDone ==
    /\ pc = "process_tar_file"
    /\ Local
    /\ arch > Len(cfg.archives)
    /\ Goto(IF cfg.dry_run THEN "end_session" ELSE "send_reboot")
    /\ UNCHANGED <<link, cursor>>

AtEntry == pc = "tar_entry" /\ Local /\ entry <= Len(cfg.archives[arch].entries)

\* Mutant of NextEntry: the next header is not reached.
NextEntryStays == UNCHANGED <<link, arch, entry, part, seqend>>

\* The file position moves behind the entry's data and padding.
NextEntry == entry' = entry + 1 /\ UNCHANGED <<link, arch, part, seqend>>

EndOfArchive ==
    /\ pc = "tar_entry"
    /\ Local
    /\ entry > Len(cfg.archives[arch].entries)
    /\ arch' = arch + 1
    /\ Goto("process_tar_file")
    /\ UNCHANGED <<link, entry, part, seqend, used>>

BadEntry ==
    /\ AtEntry
    /\ Current.kind = "bad"
    /\ Abort("Firmware")
    /\ UNCHANGED <<link, cursor>>

SkipEntry ==
    /\ AtEntry
    /\ \/ Current.kind = "skip"
       \/ Current.kind = "file" /\ Current.part = 0 /\ cfg.allow_unknown
    /\ Goto("tar_entry")
    /\ NextEntry /\ UNCHANGED used

\* No PIT entry matches, or an earlier entry of this archive had the same one.
RejectEntry ==
    /\ AtEntry
    /\ Current.kind = "file"
    /\ \/ Current.part = 0 /\ ~cfg.allow_unknown
       \/ Current.part \in used
    /\ Abort("Pit")
    /\ UNCHANGED <<link, cursor>>

Fresh == AtEntry /\ Current.kind = "file" /\ Current.part # 0 /\ Current.part \notin used

Decodes(e) == e.readable /\ e.available = e.announced

\* --check-only: an LZ4 entry is decoded, a raw one is stepped over.
CheckEntry ==
    /\ Fresh
    /\ cfg.dry_run
    /\ used' = used \cup {Current.part}
    /\ IF Current.lz4 /\ ~Decodes(Current)
       THEN Abort("Firmware") /\ UNCHANGED <<link, arch, entry, part, seqend>>
       ELSE Goto("tar_entry") /\ NextEntry

\* Mutant of FlashEntry: an LZ4 entry a legacy device cannot take is passed over.
FlashEntryPassOver ==
    /\ Fresh
    /\ Flashing
    /\ used' = used \cup {Current.part}
    /\ part' = 0
    /\ UNCHANGED <<link, arch, seqend>>
    /\ IF Current.lz4 /\ (mode = "OdinLegacy" \/ ~Current.readable)
       THEN Goto("tar_entry") /\ entry' = entry + 1
       ELSE /\ Goto(IF mode = "Thor" THEN "send_file_part_header" ELSE "odin_request_file_flash")
            /\ UNCHANGED entry

FlashEntry ==
    /\ Fresh
    /\ Flashing
    /\ IF Current.lz4 /\ (mode = "OdinLegacy" \/ ~Current.readable)
       THEN Abort("Protocol")
       ELSE Goto(IF mode = "Thor" THEN "send_file_part_header" ELSE "odin_request_file_flash")
    /\ used' = used \cup {Current.part}
    /\ part' = 0
    /\ UNCHANGED <<link, arch, entry, seqend>>

-----------------------------------------------------------------------------
(* One image in the Thor protocol: flash_partition_stream for a raw entry, *)
(* process_lz4_streaming for an LZ4 one.                                   *)

SendFilePartHeader ==
    /\ pc = "send_file_part_header"
    /\ \/ Send("FILE_PART_SIZE", <<Current.announced>>) /\ Wait
       \/ Receive(IsOk("RESPONSE"), "send") /\ Goto("send_file_part_chunk")
       \/ Fails(IsOk("RESPONSE")) /\ AbortExchange("Protocol")
    /\ UNCHANGED <<link, cursor>>

\* The loop over the chunks: announce the next one while there is one.
SendFilePartChunk ==
    /\ pc = "send_file_part_chunk"
    /\ \/ part < Current.available /\ Send("FILE_PART", <<1, part>>) /\ Wait
       \/ Receive(IsOk("RESPONSE"), "send") /\ Goto("file_part_data")
       \/ part < Current.available /\ Fails(IsOk("RESPONSE")) /\ AbortExchange("Protocol")
    /\ UNCHANGED <<link, cursor>>

\* Mutant of FilePartData: a missing post-data acknowledgement is taken
\* for a positive one.
FilePartDataNoAck ==
    /\ pc = "file_part_data"
    /\ \/ Send("FILE_DATA", <<arch, entry, part + 1>>) /\ Wait /\ UNCHANGED part
       \/ /\ \/ Receive(IsOk("RESPONSE"), "send")
             \/ phase = "recv" /\ Fails(TRUE)
          /\ part' = part + 1
          /\ Goto("send_file_part_chunk")
       \/ Fails(IsOk("RESPONSE")) /\ AbortExchange("Protocol") /\ UNCHANGED part
    /\ UNCHANGED <<link, arch, entry, seqend, used>>

\* The data are written and the post-data acknowledgement is awaited.
FilePartData ==
    /\ pc = "file_part_data"
    /\ \/ Send("FILE_DATA", <<arch, entry, part + 1>>) /\ Wait /\ UNCHANGED part
       \/ /\ Receive(IsOk("RESPONSE"), "send")
          /\ part' = part + 1
          /\ Goto("send_file_part_chunk")
       \/ Fails(IsOk("RESPONSE")) /\ AbortExchange("Protocol") /\ UNCHANGED part
    /\ UNCHANGED <<link, arch, entry, seqend, used>>

\* Mutant of ChunksDone: the size of the decoded data is not compared.
ChunksDoneUnchecked ==
    /\ pc = "send_file_part_chunk"
    /\ Local
    /\ part = Current.available
    /\ Goto("end_file_transfer")
    /\ UNCHANGED <<link, cursor>>

\* No chunk is left: a short read, a decoding error or a size mismatch
\* fails the entry, also when all its data have been sent already.
ChunksDone ==
    /\ pc = "send_file_part_chunk"
    /\ Local
    /\ part = Current.available
    /\ IF part = Current.announced THEN Goto("end_file_transfer") ELSE Abort("Protocol")
    /\ UNCHANGED <<link, cursor>>

EndFileTransfer ==
    /\ pc = "end_file_transfer"
    /\ \/ Send("END_FILE_TRANSFER", <<Current.part, 1>>) /\ Wait /\ UNCHANGED entry
       \/ Receive(IsOk("RESPONSE"), "send") /\ Goto("tar_entry") /\ entry' = entry + 1
       \/ Fails(IsOk("RESPONSE")) /\ AbortExchange("Protocol") /\ UNCHANGED entry
    /\ UNCHANGED <<link, arch, part, seqend, used>>

-----------------------------------------------------------------------------
(* One image in the legacy protocol (flash_partition_stream, first half).  *)

\* An empty image needs no sequence, which is rejected after the request.
OdinRequestFileFlash ==
    /\ pc = "odin_request_file_flash"
    /\ \/ Send("RequestFileFlash", <<>>) /\ Wait
       \/ /\ Receive(IsOk("RSP8"), "send")
          /\ IF Current.announced = 0 THEN Abort("Protocol")
             ELSE Goto("odin_request_sequence_flash")
       \/ Fails(IsOk("RSP8")) /\ AbortExchange("Protocol")
    /\ UNCHANGED <<link, cursor>>

MinOf(x, y) == IF x < y THEN x ELSE y

\* Where the sequence that starts at the current part ends.
SequenceEnd == MinOf(part + SeqParts, Current.announced)

\* Mutant of OdinRequestSequenceFlash: a full sequence is announced always.
OdinRequestFullSequence ==
    /\ pc = "odin_request_sequence_flash"
    /\ \/ Send("RequestSequenceFlash", <<SeqParts>>) /\ Wait /\ UNCHANGED seqend
       \/ /\ Receive(IsOk("RSP8"), "send")
          /\ seqend' = SequenceEnd
          /\ Goto("odin_send_file_part")
       \/ Fails(IsOk("RSP8")) /\ AbortExchange("Protocol") /\ UNCHANGED seqend
    /\ UNCHANGED <<link, arch, entry, part, used>>

OdinRequestSequenceFlash ==
    /\ pc = "odin_request_sequence_flash"
    /\ \/ Send("RequestSequenceFlash", <<SequenceEnd - part>>) /\ Wait /\ UNCHANGED seqend
       \/ /\ Receive(IsOk("RSP8"), "send")
          /\ seqend' = SequenceEnd
          /\ Goto("odin_send_file_part")
       \/ Fails(IsOk("RSP8")) /\ AbortExchange("Protocol") /\ UNCHANGED seqend
    /\ UNCHANGED <<link, arch, entry, part, used>>

\* Mutant of PartAcked: the index in the acknowledgement is not compared.
PartAckedAnyIndex == IsOk("RSP8")

\* The acknowledgement must carry the index of the part (expected_index,
\* which runs over the whole file).
PartAcked == IsOk("RSP8") /\ Head(inq).val = part

OdinSendFilePart ==
    /\ pc = "odin_send_file_part"
    /\ \/ /\ part < Current.available
          /\ Send("SendFilePart", <<arch, entry, part + 1>>)
          /\ Wait /\ UNCHANGED part
       \/ /\ Receive(PartAcked, "send")
          /\ part' = part + 1
          /\ IF part + 1 < seqend THEN Wait ELSE Goto("odin_end_sequence_flash")
       \/ /\ part < Current.available
          /\ Fails(PartAcked) /\ AbortExchange("Protocol") /\ UNCHANGED part
    /\ UNCHANGED <<link, arch, entry, seqend, used>>

OdinReadFails ==
    /\ pc = "odin_send_file_part"
    /\ Local
    /\ part >= Current.available
    /\ Abort("Protocol")
    /\ UNCHANGED <<link, cursor>>

IsLast == part = Current.announced

\* odin_fail_check with allow_progress: a progress code counts as success.
SequenceAcked == IsOk("RSP8") \/ (Head(inq).kind = "RSP8" /\ Head(inq).code = "progress")

OdinEndSequenceFlash ==
    /\ pc = "odin_end_sequence_flash"
    /\ \/ Send("EndSequenceFlash", <<Current.part, IF IsLast THEN 1 ELSE 0>>) /\ Wait
       \/ /\ Receive(SequenceAcked, "send")
          /\ Goto(IF IsLast THEN "odin_reset_flash_count" ELSE "odin_request_sequence_flash")
       \/ Fails(SequenceAcked) /\ AbortExchange("Protocol")
    /\ UNCHANGED <<link, cursor>>

\* The last command of an image; end_file_transfer sends nothing.
OdinResetFlashCount ==
    /\ pc = "odin_reset_flash_count"
    /\ \/ Send("ResetFlashCount", <<>>) /\ Wait /\ UNCHANGED entry
       \/ Receive(IsOk("RSP8"), "send") /\ Goto("tar_entry") /\ entry' = entry + 1
       \/ Fails(IsOk("RSP8")) /\ AbortExchange("Protocol") /\ UNCHANGED entry
    /\ UNCHANGED <<link, arch, part, seqend, used>>

-----------------------------------------------------------------------------
(* The end of the run.                                                     *)

OkKind == IF mode = "Thor" THEN "RESPONSE" ELSE "RSP8"

SendReboot ==
    /\ pc = "send_reboot"
    /\ \/ ~cfg.reboot /\ Local /\ Goto("send_redownload")
       \/ /\ cfg.reboot
          /\ \/ Send(IF mode = "Thor" THEN "CONTROL_REBOOT" ELSE "Reboot", <<>>) /\ Wait
             \/ Receive(IsOk(OkKind), "send") /\ Goto("send_redownload")
             \/ Fails(IsOk(OkKind)) /\ AbortExchange("Protocol")
    /\ UNCHANGED <<link, cursor>>

\* The legacy protocol has no such command: send_control just returns true.
SendRedownload ==
    /\ pc = "send_redownload"
    /\ \/ (~cfg.redownload \/ mode = "OdinLegacy") /\ Local /\ Goto("end_session")
       \/ /\ cfg.redownload /\ mode = "Thor"
          /\ \/ Send("CONTROL_REDOWNLOAD", <<>>) /\ Wait
             \/ Receive(IsOk("RESPONSE"), "send") /\ Goto("end_session")
             \/ Fails(IsOk("RESPONSE")) /\ AbortExchange("Protocol")
    /\ UNCHANGED <<link, cursor>>

\* Mutant of EndSession: its failure does not change the exit code.
EndSessionIgnored ==
    /\ pc = "end_session"
    /\ \/ Send(IF mode = "Thor" THEN "END_SESSION" ELSE "EndSession", <<>>) /\ Wait
       \/ Receive(IsOk(OkKind), "send") /\ Goto("exit")
       \/ Fails(IsOk(OkKind)) /\ Stop(rc)
    /\ UNCHANGED <<link, cursor>>

\* On an abort the result of end_session is ignored and rc stands.
EndSession ==
    /\ pc = "end_session"
    /\ \/ Send(IF mode = "Thor" THEN "END_SESSION" ELSE "EndSession", <<>>) /\ Wait
       \/ Receive(IsOk(OkKind), "send") /\ Goto("exit")
       \/ Fails(IsOk(OkKind)) /\ Stop(IF rc = "Success" THEN "Protocol" ELSE rc)
    /\ UNCHANGED <<link, cursor>>

HostNext ==
    /\ \/ OpenDevice \/ OdinLegacyHandshake \/ Handshake \/ RequestDeviceType
       \/ VerifyFirmwareCompatibility
       \/ BeginSession \/ OdinBeginSession \/ OdinFilePartSize
       \/ RequestPit \/ ReceivePitTable
       \/ OdinDumpPit \/ OdinPitBlock \/ OdinPitData \/ OdinEndPit
       \/ ProcessTarFile \/ ArchivesDone \/ EndOfArchive
       \/ BadEntry \/ SkipEntry \/ RejectEntry \/ CheckEntry \/ FlashEntry
       \/ SendFilePartHeader \/ SendFilePartChunk \/ FilePartData \/ ChunksDone
       \/ EndFileTransfer
       \/ OdinRequestFileFlash \/ OdinRequestSequenceFlash \/ OdinSendFilePart
       \/ OdinReadFails \/ OdinEndSequenceFlash \/ OdinResetFlashCount
       \/ SendReboot \/ SendRedownload \/ EndSession
    /\ UNCHANGED <<cfg, device>>

Next == HostNext \/ (DeviceNext /\ UNCHANGED host)

\* Every wait of the host has a timeout, so the host always moves on; the
\* device is under no obligation to answer.
Spec == Init /\ [][Next]_vars /\ WF_vars(HostNext)

-----------------------------------------------------------------------------
(* What a run is supposed to achieve.                                      *)

EntryAt(a, e) == cfg.archives[a].entries[e]

Positions == UNION {{a} \X (1..Len(cfg.archives[a].entries)) : a \in 1..Len(cfg.archives)}

\* The tar entries that are to be flashed.
Work == {w \in Positions : EntryAt(w[1], w[2]).kind = "file" /\ EntryAt(w[1], w[2]).part # 0}

\* What the device must hold for such an entry: all its chunks, in order.
Image(w) ==
    [part |-> EntryAt(w[1], w[2]).part,
     data |-> [k \in 1..EntryAt(w[1], w[2]).announced |-> <<w[1], w[2], k>>]]

\* Archives are flashed in the order BL, AP, CP, CSC, UMS, entries in tar order.
Precedes(v, w) == v[1] < w[1] \/ (v[1] = w[1] /\ v[2] < w[2])
Place(w) == 1 + Cardinality({v \in Work : Precedes(v, w)})

\* An invocation that has to succeed if every exchange with the device does.
ImageAcceptable(e, dry) ==
    IF dry THEN e.lz4 => Decodes(e)
    ELSE /\ e.available = e.announced
         /\ e.lz4 => e.readable /\ mode = "Thor"
         /\ mode = "OdinLegacy" => e.announced > 0

EntryAcceptable(e, dry) ==
    \/ e.kind = "skip"
    \/ e.kind = "file" /\ (IF e.part = 0 THEN cfg.allow_unknown ELSE ImageAcceptable(e, dry))

Acceptable(dry) ==
    /\ Compatible
    /\ profile.pit
    /\ \A a \in 1..Len(cfg.archives) : cfg.archives[a].intact
    /\ \A w \in Positions : EntryAcceptable(EntryAt(w[1], w[2]), dry)
    /\ \A v, w \in Work :
          v[1] = w[1] /\ EntryAt(v[1], v[2]).part = EntryAt(w[1], w[2]).part => v = w

WriteOps == {"FILE_PART_SIZE", "FILE_PART", "FILE_DATA", "END_FILE_TRANSFER",
             "CONTROL_REBOOT", "CONTROL_REDOWNLOAD", "RequestFileFlash",
             "RequestSequenceFlash", "SendFilePart", "EndSequenceFlash",
             "ResetFlashCount", "Reboot"}

-----------------------------------------------------------------------------
(* Properties.                                                             *)

\* A reply the host acts on answers the request it has just sent.  No reply
\* carries a request number, the pipes are never drained and several timeouts
\* can leave a late reply behind (receive_packet, bulk_read_once), so this
\* rests on the host giving up at the first exchange that fails.
AcceptsOwnReply ==
    [][phase = "recv" /\ inq # <<>> /\ inq' = Tail(inq) /\ ~trouble' => Head(inq).to = sent]_vars

\* Every partition the device is told to finalise (end_file_transfer,
\* odin_end_sequence_flash with is_last) holds exactly the chunks of one tar
\* entry that maps to it, complete, in order and without a chunk of another:
\* whatever fails and whichever requests are handled late.
FinalisedComplete ==
    \A i \in 1..Len(flashed) : \E w \in Work : flashed[i] = Image(w)

\* Exit code Success of a flashing run means that every entry of every archive
\* with a PIT match was finalised exactly once, in order, nothing else was, and
\* the device has left the session.
SuccessMeansFlashed ==
    pc = "exit" /\ rc = "Success" /\ Flashing =>
        /\ Len(flashed) = Cardinality(Work)
        /\ \A w \in Work : flashed[Place(w)] = Image(w)
        /\ stage = "idle"

\* The device meets every request in the state the protocol wants it in: no
\* data outside a session or a file, no part more than the sequence announced,
\* no EndSequenceFlash before its last part; also for requests it handles only
\* after the host has timed out and sent EndSession behind them.
DeviceInOrder == outq # <<>> => Legal(Head(outq))

\* --check-only never sends a request that writes, finalises or reboots.
DryRunTouchesNothing ==
    cfg.dry_run =>
        /\ \A i \in 1..Len(outq) : outq[i].op \notin WriteOps
        /\ flashed = <<>> /\ xfer = <<>>

\* run_for_device returns Success exactly when no exchange failed and the PIT and
\* every archive pass every check: no path loses an error and none invents one.
VerdictExact == pc = "exit" => (rc = "Success" <=> Acceptable(cfg.dry_run) /\ ~trouble)

\* If no exchange failed, the device is out of the session when odin4 exits, also
\* when the PIT cannot be parsed or an archive or an entry of one fails a check:
\* each of these error paths calls end_session.
CleanExitReleases == pc = "exit" /\ ~trouble => stage = "idle"

\* run_for_device returns, even if the device never answers.
Terminates == <>(pc = "exit")

\* README, "Safety and Validation": "enforcing strict checks before any write
\* operations" - a run stopped by an archive or PIT check has written nothing.
ChecksBeforeAnyWrite ==
    pc = "exit" /\ rc \in {"Firmware", "Pit"} => flashed = <<>> /\ xfer = <<>>

\* README, "Safety and Validation": "Device Model Compatibility Check: Verifies
\* that the firmware is compatible with the connected device model" - data are
\* only sent to a device of a model (profile.type) that every archive matches.
ModelChecked ==
    stage \in {"file", "part"} /\ profile.type # NoType =>
        \A a \in 1..Len(cfg.archives) : profile.type \in cfg.archives[a].matches
=============================================================================
