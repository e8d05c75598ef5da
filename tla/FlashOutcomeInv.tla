---------------------------- MODULE FlashOutcomeInv ----------------------------
(***************************************************************************)
(* The invariants behind the outcome of a run: what a check-only run keeps *)
(* away from, which stage of the protocol the device is in for each place  *)
(* of the host, what has been looked at when the cursor stands where it    *)
(* does, and which images the device holds by then.  FlashSessionProofs    *)
(* proves them; TLC checks them first.                                     *)
(***************************************************************************)
EXTENDS FlashSessionInv, FlashSessionRefinement

AtArchive == InFile \cup {"tar_entry"}
Closing == {"send_reboot", "send_redownload", "end_session", "exit"}
Unopened == {"open_device", "odin_legacy_handshake", "handshake",
             "request_device_type", "verify_firmware_compatibility"}

-----------------------------------------------------------------------------
(* A check-only run.                                                       *)

WriteLocations == InFile \cup {"send_reboot", "send_redownload"}

DryOK == cfg.dry_run => pc \notin WriteLocations /\ DryRunTouchesNothing

-----------------------------------------------------------------------------
(* What the host has looked at.                                            *)

Cursor == <<arch, entry>>

\* The tar entries that are behind the cursor.
Behind == {w \in Positions : IF pc \in AtArchive THEN Precedes(w, Cursor) ELSE w[1] < arch}

\* The exit code is decided late, and only once every archive was processed
\* or something was wrong.
CodeOK ==
    /\ pc \in Unopened => arch = 1
    /\ pc \notin {"end_session", "exit"} => rc = "Success"
    /\ trouble => rc # "Success"
    /\ pc \in Closing /\ rc = "Success" => arch > Len(cfg.archives)

\* An unusable PIT stops the run before the archives.
PitOK == rc = "Success" /\ pc \in AtArchive \cup Closing \cup {"process_tar_file"}
             => profile.pit

SamePartition(v, w) == v[1] = w[1] /\ EntryAt(v[1], v[2]).part = EntryAt(w[1], w[2]).part

\* Nothing behind the cursor is a reason to fail.
SeenOK == rc = "Success" =>
    /\ pc \notin Unopened => Compatible
    /\ \A a \in 1..Len(cfg.archives) :
          a < arch \/ (a = arch /\ pc \in AtArchive) => cfg.archives[a].intact
    /\ \A w \in Behind : EntryAcceptable(EntryAt(w[1], w[2]), cfg.dry_run)
    /\ \A v, w \in Behind \cap Work : SamePartition(v, w) => v = w

\* used_partition_ids holds the partitions of this archive met so far, that
\* of the image under way included, which is none of the earlier ones.
Met == {EntryAt(w[1], w[2]).part : w \in {v \in Behind \cap Work : v[1] = arch}}

UsedOK == pc \in AtArchive =>
    IF pc \in InFile THEN used = Met \cup {Current.part} /\ Current.part \notin Met
                     ELSE used = Met

\* What is known of the image under way.
ImageOK ==
    /\ pc \in ThorFile => mode = "Thor" /\ (Current.lz4 => Current.readable)
    /\ pc \in LegacyFile => mode = "OdinLegacy" /\ ~Current.lz4
    /\ pc \in LegacyFile \ {"odin_request_file_flash"} =>
          Current.announced > 0 /\ part <= Current.available
    /\ pc = "odin_send_file_part" /\ phase = "recv" => part < Current.available
    /\ pc = "odin_reset_flash_count" => part = Current.announced
    /\ pc = "end_file_transfer" => part = Current.available

\* Failing has a reason.
FaultOK == rc # "Success" => trouble \/ ~Acceptable(cfg.dry_run)

VerdictInv == CodeOK /\ SeenOK /\ PitOK /\ UsedOK /\ ImageOK /\ FaultOK

-----------------------------------------------------------------------------
(* The stage the device is in.                                             *)

RepliesFinal == \A i \in 1..Len(inq) : inq[i].code # "progress"

InSession == {"odin_file_part_size", "request_pit", "receive_pit_table",
    "odin_dump_pit", "odin_pit_block", "odin_pit_data", "odin_end_pit",
    "process_tar_file", "tar_entry", "odin_reset_flash_count"}

\* The device moves from `before' to `after' when it performs the request.
Moves(before, after) == stage = IF Done THEN after ELSE before

Staged ==
    /\ pc \in Unopened => stage = "idle"
    /\ pc \in {"begin_session", "odin_begin_session"} => Moves("idle", "session")
    /\ pc \in InSession => stage = "session"
    /\ pc \in {"send_file_part_header", "odin_request_file_flash"} => Moves("session", "file")
    /\ pc \in {"send_file_part_chunk", "odin_request_sequence_flash"} => Moves("file", "part")
    /\ pc = "file_part_data" => Moves("part", "file")
    /\ pc = "end_file_transfer" => Moves("file", "session")
    /\ pc = "odin_request_sequence_flash" /\ Done => due = SequenceEnd - part
    /\ pc = "odin_send_file_part" =>
          stage = "part" /\ due = seqend - (IF Done THEN part + 1 ELSE part)
    /\ pc = "odin_end_sequence_flash" =>
          Moves("part", IF IsLast THEN "session" ELSE "file") /\ due = 0
    /\ pc \in {"send_reboot", "send_redownload", "end_session"} /\ Done => stage = "idle"
    /\ pc = "exit" => stage = "idle"

\* The request under way carries the numbers the device goes by.
Operated ==
    /\ pc = "odin_request_sequence_flash" /\ outq # <<>> => outq[1].arg[1] = SequenceEnd - part
    /\ pc = "end_file_transfer" /\ outq # <<>> => outq[1].arg[2] = 1

StageOK == ~trouble => Staged /\ Operated

\* Requests that are in order in every stage.
AnyStage == {"HANDSHAKE", "DEVICE_TYPE", "ODIN", "CONTROL_REBOOT", "CONTROL_REDOWNLOAD",
             "Reboot", "END_SESSION", "EndSession"}

\* Only the oldest request can be one that needs a stage, and it has it.
QueueOK == \A i \in 1..Len(outq) :
    outq[i].op \notin AnyStage => i = 1 /\ Legal(outq[i])

OrderInv == RepliesFinal /\ StageOK /\ QueueOK

-----------------------------------------------------------------------------
(* The images the device holds.                                            *)

\* The image under the cursor has been finalised, but the cursor has not moved.
Finalised ==
    \/ pc = "odin_reset_flash_count"
    \/ pc = "end_file_transfer" /\ Done
    \/ pc = "odin_end_sequence_flash" /\ Done /\ IsLast

Passed == (Behind \cap Work) \cup (IF Finalised THEN {Cursor} ELSE {})

\* While nothing has gone wrong the device holds as many as were passed.
CountOK == Flashing /\ rc = "Success" => Len(flashed) = Cardinality(Passed)

\* It holds the first of them, in order, whatever went wrong.
HeldOK ==
    /\ Len(flashed) <= Cardinality(Work)
    /\ \A w \in Work : Place(w) <= Len(flashed) => flashed[Place(w)] = Image(w)

\* A request to finalise is handled next if at all, for the image that is due.
NextOK == \A i \in 1..Len(outq) : Finalises(outq[i]) =>
    /\ i = 1
    /\ \E w \in Work : /\ Place(w) = Len(flashed) + 1
                       /\ [part |-> outq[i].arg[1], data |-> xfer] = Image(w)

HoldInv == CountOK /\ HeldOK /\ NextOK

-----------------------------------------------------------------------------
\* The whole inductive invariant of a session.
SessionInv == FlashInv /\ DryOK /\ VerdictInv /\ OrderInv /\ HoldInv
=============================================================================
