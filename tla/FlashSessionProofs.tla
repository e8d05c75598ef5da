-------------------------- MODULE FlashSessionProofs --------------------------
(***************************************************************************)
(* Theorems about FlashSession for every value of its constants.  The      *)
(* invariants and their parts are those of FlashSessionInv and             *)
(* FlashOutcomeInv.                                                        *)
(*                                                                         *)
(* First types, and, for replies that are final throughout                 *)
(* (~ProgressReplies), that host and device agree on the exchange under    *)
(* way and that the device finalises only complete images.                 *)
(*                                                                         *)
(* Then what a run of odin4 decides, for every invocation and whatever     *)
(* the device answers, progress replies included: a check-only run asks    *)
(* for nothing that writes, and the exit code says exactly whether         *)
(* something went wrong.                                                   *)
(*                                                                         *)
(* Last, again for ~ProgressReplies: the device meets every request in     *)
(* the stage the protocol wants it in, is out of the session after a run   *)
(* without a failed exchange, and comes to hold the images of the          *)
(* invocation one by one and in order; Success means that it holds all of  *)
(* them.  FlashSession implements FlashPromise.                            *)
(***************************************************************************)
EXTENDS FlashOutcomeInv, SequenceTheorems, FiniteSetTheorems, TLAPS

-----------------------------------------------------------------------------
(* What a step of the host does to the pipes.                              *)

Took == inq # <<>> /\ inq' = Tail(inq) /\ phase' \in {"send", "recv"} /\ UNCHANGED <<sent, outq>>
Gave == phase' = "send" /\ UNCHANGED <<sent, outq, inq>>
Wrote == \E op \in Ops, arg \in Seq(Nat) : Operands(op, arg) /\ Send(op, arg)

LEMMA WroteIntro ==
    ASSUME NEW op \in Ops, NEW arg \in Seq(Nat), Operands(op, arg), Send(op, arg)
    PROVE  Wrote
  BY DEF Wrote

LEMMA TookOrGave ==
    ASSUME NEW good, NEW next \in {"send", "recv"}, Receive(good, next) \/ Fails(good)
    PROVE  Took \/ Gave
  BY DEF Receive, Fails, Took, Gave

LEMMA SendPhase ==
    ASSUME NEW op, NEW arg, Send(op, arg)
    PROVE  phase = "send" /\ phase' = "recv"
  BY DEF Send

LEMMA ReceivePhase ==
    ASSUME NEW good, NEW next, Receive(good, next)
    PROVE  phase = "recv" /\ phase' = next
  BY DEF Receive

LEMMA FailsPhase ==
    ASSUME NEW good, Fails(good)
    PROVE  phase' = "send"
  BY DEF Fails

LEMMA OpsFacts == /\ ThorOps \subseteq Ops /\ LegacyOps \subseteq Ops
  BY DEF Ops

LEMMA ArgFacts ==
    /\ <<>> \in Seq(Nat)
    /\ \A x \in Nat : <<x>> \in Seq(Nat)
    /\ \A x, y \in Nat : <<x, y>> \in Seq(Nat)
    /\ \A x, y, z \in Nat : <<x, y, z>> \in Seq(Nat)
  OBVIOUS

HostTypeOK ==
    /\ cfg \in Configs
    /\ pc \in Locations
    /\ rc \in ExitCodes
    /\ trouble \in BOOLEAN
    /\ mode \in {"Thor", "OdinLegacy"}
    /\ devtype \in Nat
    /\ arch \in Nat \ {0}
    /\ entry \in Nat \ {0}
    /\ part \in Nat
    /\ seqend \in Nat
    /\ used \subseteq Nat

LEMMA TypeParts == TypeOK <=> ChannelTypeOK(Ops) /\ DeviceTypeOK /\ HostTypeOK
  BY DEF TypeOK, HostTypeOK

\* The entry under the cursor is one of the invocation's entries.
LEMMA CurrentTyped ==
    ASSUME HostTypeOK, arch <= Len(cfg.archives), entry <= Len(cfg.archives[arch].entries)
    PROVE  Current \in Entries
  <1>1. cfg.archives \in Seq(Archives)
    BY ConfigsAssumption DEF HostTypeOK, Invocations
  <1>2. cfg.archives[arch] \in Archives
    BY <1>1 DEF HostTypeOK
  <1>3. cfg.archives[arch].entries \in Seq(Entries)
    BY <1>2 DEF Archives
  <1>4. QED
    BY <1>3 DEF HostTypeOK, Current

LEMMA WireStep ==
    ASSUME HostTypeOK, CursorOK, PartOK, HostNext
    PROVE  UNCHANGED chan \/ Took \/ Gave \/ Wrote
  <1> USE DEF ThorOps, LegacyOps, Operands
  <1>n. arch \in Nat /\ entry \in Nat /\ part \in Nat
    BY DEF HostTypeOK
  <1>1. CASE OpenDevice
    BY <1>1 DEF OpenDevice, Local
  <1>2. CASE OdinLegacyHandshake
    BY <1>2, TookOrGave, WroteIntro, OpsFacts, ArgFacts DEF OdinLegacyHandshake
  <1>3. CASE Handshake
    BY <1>3, TookOrGave, WroteIntro, OpsFacts, ArgFacts DEF Handshake
  <1>4. CASE RequestDeviceType
    BY <1>4, TookOrGave, WroteIntro, OpsFacts, ArgFacts DEF RequestDeviceType, Local
  <1>5. CASE VerifyFirmwareCompatibility
    BY <1>5 DEF VerifyFirmwareCompatibility, Local
  <1>6. CASE BeginSession
    BY <1>6, TookOrGave, WroteIntro, OpsFacts, ArgFacts DEF BeginSession
  <1>7. CASE OdinBeginSession
    BY <1>7, TookOrGave, WroteIntro, OpsFacts, ArgFacts DEF OdinBeginSession
  <1>8. CASE OdinFilePartSize
    BY <1>8, TookOrGave, WroteIntro, OpsFacts, ArgFacts DEF OdinFilePartSize
  <1>9. CASE RequestPit
    BY <1>9, TookOrGave, WroteIntro, OpsFacts, ArgFacts DEF RequestPit
  <1>10. CASE ReceivePitTable
    BY <1>10, TookOrGave, WroteIntro, OpsFacts, ArgFacts DEF ReceivePitTable
  <1>11. CASE OdinDumpPit
    BY <1>11, TookOrGave, WroteIntro, OpsFacts, ArgFacts DEF OdinDumpPit
  <1>12. CASE OdinPitBlock
    BY <1>12, <1>n, TookOrGave, WroteIntro, OpsFacts, ArgFacts DEF OdinPitBlock
  <1>13. CASE OdinPitData
    BY <1>13, TookOrGave, WroteIntro, OpsFacts, ArgFacts DEF OdinPitData
  <1>14. CASE OdinEndPit
    BY <1>14, TookOrGave, WroteIntro, OpsFacts, ArgFacts DEF OdinEndPit
  <1>15. CASE ProcessTarFile
    BY <1>15 DEF ProcessTarFile, Local
  <1>16. CASE ArchivesDone
    BY <1>16 DEF ArchivesDone, Local
  <1>17. CASE EndOfArchive
    BY <1>17 DEF EndOfArchive, Local
  <1>18. CASE BadEntry
    BY <1>18 DEF BadEntry, Local, AtEntry
  <1>19. CASE SkipEntry
    BY <1>19 DEF SkipEntry, Local, AtEntry
  <1>20. CASE RejectEntry
    BY <1>20 DEF RejectEntry, Local, AtEntry
  <1>21. CASE CheckEntry
    BY <1>21 DEF CheckEntry, Local, Fresh, AtEntry
  <1>22. CASE FlashEntry
    BY <1>22 DEF FlashEntry, Local, Fresh, AtEntry
  <1>23. CASE SendFilePartHeader
    <2>1. Current.announced \in Nat /\ Current.part \in Nat
      BY <1>23, CurrentTyped DEF SendFilePartHeader, CursorOK, InFile, ThorFile, LegacyFile, Entries
    <2>2. QED  BY <1>23, <2>1, TookOrGave, WroteIntro, OpsFacts, ArgFacts DEF SendFilePartHeader
  <1>24. CASE SendFilePartChunk
    <2>1. <<1, part>> \in Seq(Nat) /\ Len(<<1, part>>) = 2  BY <1>n
    <2>2. "FILE_PART" \in Ops /\ Operands("FILE_PART", <<1, part>>)  BY <2>1, OpsFacts
    <2> HIDE DEF Operands
    <2>3. QED  BY <1>24, <2>1, <2>2, TookOrGave, WroteIntro DEF SendFilePartChunk
  <1>25. CASE FilePartData
    <2>1. <<arch, entry, part + 1>> \in Seq(Nat)  BY <1>n
    <2>2. QED  BY <1>25, <2>1, TookOrGave, WroteIntro, OpsFacts, ArgFacts DEF FilePartData
  <1>26. CASE ChunksDone
    BY <1>26 DEF ChunksDone, Local
  <1>27. CASE EndFileTransfer
    <2>1. Current.announced \in Nat /\ Current.part \in Nat
      BY <1>27, CurrentTyped DEF EndFileTransfer, CursorOK, InFile, ThorFile, LegacyFile, Entries
    <2>2. QED  BY <1>27, <2>1, TookOrGave, WroteIntro, OpsFacts, ArgFacts DEF EndFileTransfer
  <1>28. CASE OdinRequestFileFlash
    BY <1>28, TookOrGave, WroteIntro, OpsFacts, ArgFacts DEF OdinRequestFileFlash
  <1>29. CASE OdinRequestSequenceFlash
    <2>1. Current.announced \in Nat /\ part < Current.announced
      BY <1>29, CurrentTyped DEF OdinRequestSequenceFlash, CursorOK, PartOK, InFile, ThorFile, LegacyFile, Entries
    <2>2. SequenceEnd - part \in Nat
      BY <2>1, <1>n, SeqPartsAssumption DEF SequenceEnd, MinOf
    <2>3. <<SequenceEnd - part>> \in Seq(Nat) /\ Len(<<SequenceEnd - part>>) = 1  BY <2>2
    <2>4. /\ "RequestSequenceFlash" \in Ops
          /\ Operands("RequestSequenceFlash", <<SequenceEnd - part>>)
      BY <2>3, OpsFacts
    <2> HIDE DEF Operands
    <2>5. QED  BY <1>29, <2>3, <2>4, TookOrGave, WroteIntro DEF OdinRequestSequenceFlash
  <1>30. CASE OdinSendFilePart
    <2>1. <<arch, entry, part + 1>> \in Seq(Nat)  BY <1>n
    <2>2. QED  BY <1>30, <2>1, TookOrGave, WroteIntro, OpsFacts, ArgFacts DEF OdinSendFilePart
  <1>31. CASE OdinReadFails
    BY <1>31 DEF OdinReadFails, Local
  <1>32. CASE OdinEndSequenceFlash
    <2>1. Current.announced \in Nat /\ Current.part \in Nat
      BY <1>32, CurrentTyped DEF OdinEndSequenceFlash, CursorOK, InFile, ThorFile, LegacyFile, Entries
    <2>2. <<Current.part, IF IsLast THEN 1 ELSE 0>> \in Seq(Nat)  BY <2>1
    <2>3. QED  BY <1>32, <2>2, TookOrGave, WroteIntro, OpsFacts, ArgFacts DEF OdinEndSequenceFlash
  <1>33. CASE OdinResetFlashCount
    BY <1>33, TookOrGave, WroteIntro, OpsFacts, ArgFacts DEF OdinResetFlashCount
  <1>34. CASE SendReboot
    <2>1. (IF mode = "Thor" THEN "CONTROL_REBOOT" ELSE "Reboot") \in Ops  BY OpsFacts
    <2>2. QED  BY <1>34, <2>1, TookOrGave, WroteIntro, OpsFacts, ArgFacts DEF SendReboot, Local
  <1>35. CASE SendRedownload
    BY <1>35, TookOrGave, WroteIntro, OpsFacts, ArgFacts DEF SendRedownload, Local
  <1>36. CASE EndSession
    <2>1. (IF mode = "Thor" THEN "END_SESSION" ELSE "EndSession") \in Ops  BY OpsFacts
    <2>2. QED  BY <1>36, <2>1, TookOrGave, WroteIntro, OpsFacts, ArgFacts DEF EndSession, Local
  <1>q. QED
    BY <1>1, <1>2, <1>3, <1>4, <1>5, <1>6, <1>7, <1>8, <1>9, <1>10, <1>11, <1>12, <1>13, <1>14, <1>15, <1>16, <1>17, <1>18, <1>19, <1>20, <1>21, <1>22, <1>23, <1>24, <1>25, <1>26, <1>27, <1>28, <1>29, <1>30, <1>31, <1>32, <1>33, <1>34, <1>35, <1>36 DEF HostNext

-----------------------------------------------------------------------------
(* What a step of the host does to its own variables.                      *)

LEMMA HostStep ==
    ASSUME HostTypeOK, CursorOK, PartOK, ChannelTypeOK(Ops), HostNext
    PROVE  HostTypeOK' /\ CursorOK' /\ PartOK'
  <1> USE DEF Goto, Wait, Stop, Abort, AbortExchange, link, cursor
  <1>0. cfg' = cfg
    BY DEF HostNext
  <1>c. pc \in InFile => Current.announced \in Nat /\ Current.available \in Nat
    BY CurrentTyped DEF CursorOK, Entries
  <1>t. /\ NoType \in Nat
        /\ inq # <<>> => Head(inq).val \in Nat
    <2>1. inq # <<>> => Head(inq) \in Reply  BY DEF ChannelTypeOK
    <2>2. QED  BY <2>1 DEF NoType, Reply
  <1>n. /\ part \in Nat /\ part + 1 \in Nat
        /\ entry \in Nat \ {0} /\ entry + 1 \in Nat \ {0}
    BY DEF HostTypeOK
  <1>1. CASE OpenDevice
    <2>1. HostTypeOK'
      BY <1>0, <1>1 DEF OpenDevice, HostTypeOK, Locations, ExitCodes
    <2>2. CursorOK'
      BY <1>0, <1>1 DEF OpenDevice, HostTypeOK, CursorOK, Current, InFile, ThorFile, LegacyFile
    <2>3. PartOK'
      BY <1>0, <1>1 DEF OpenDevice, PartOK
    <2>4. QED  BY <2>1, <2>2, <2>3
  <1>2. CASE OdinLegacyHandshake
    <2>1. HostTypeOK'
      BY <1>0, <1>2 DEF OdinLegacyHandshake, HostTypeOK, Locations, ExitCodes
    <2>2. CursorOK'
      BY <1>0, <1>2 DEF OdinLegacyHandshake, HostTypeOK, CursorOK, Current, InFile, ThorFile, LegacyFile
    <2>3. PartOK'
      BY <1>0, <1>2 DEF OdinLegacyHandshake, PartOK
    <2>4. QED  BY <2>1, <2>2, <2>3
  <1>3. CASE Handshake
    <2>1. HostTypeOK'
      BY <1>0, <1>3 DEF Handshake, HostTypeOK, Locations, ExitCodes
    <2>2. CursorOK'
      BY <1>0, <1>3 DEF Handshake, HostTypeOK, CursorOK, Current, InFile, ThorFile, LegacyFile
    <2>3. PartOK'
      BY <1>0, <1>3 DEF Handshake, PartOK
    <2>4. QED  BY <2>1, <2>2, <2>3
  <1>4. CASE RequestDeviceType
    <2>1. HostTypeOK'
      BY <1>0, <1>4, <1>t DEF RequestDeviceType, HostTypeOK, Locations, ExitCodes, Receive
    <2>2. CursorOK'
      BY <1>0, <1>4 DEF RequestDeviceType, HostTypeOK, CursorOK, Current, InFile, ThorFile, LegacyFile
    <2>3. PartOK'
      BY <1>0, <1>4 DEF RequestDeviceType, PartOK
    <2>4. QED  BY <2>1, <2>2, <2>3
  <1>5. CASE VerifyFirmwareCompatibility
    <2>1. HostTypeOK'
      BY <1>0, <1>5 DEF VerifyFirmwareCompatibility, HostTypeOK, Locations, ExitCodes
    <2>2. CursorOK'
      BY <1>0, <1>5 DEF VerifyFirmwareCompatibility, HostTypeOK, CursorOK, Current, InFile, ThorFile, LegacyFile
    <2>3. PartOK'
      BY <1>0, <1>5 DEF VerifyFirmwareCompatibility, PartOK
    <2>4. QED  BY <2>1, <2>2, <2>3
  <1>6. CASE BeginSession
    <2>1. HostTypeOK'
      BY <1>0, <1>6 DEF BeginSession, HostTypeOK, Locations, ExitCodes
    <2>2. CursorOK'
      BY <1>0, <1>6 DEF BeginSession, HostTypeOK, CursorOK, Current, InFile, ThorFile, LegacyFile
    <2>3. PartOK'
      BY <1>0, <1>6 DEF BeginSession, PartOK
    <2>4. QED  BY <2>1, <2>2, <2>3
  <1>7. CASE OdinBeginSession
    <2>1. HostTypeOK'
      BY <1>0, <1>7 DEF OdinBeginSession, HostTypeOK, Locations, ExitCodes
    <2>2. CursorOK'
      BY <1>0, <1>7 DEF OdinBeginSession, HostTypeOK, CursorOK, Current, InFile, ThorFile, LegacyFile
    <2>3. PartOK'
      BY <1>0, <1>7 DEF OdinBeginSession, PartOK
    <2>4. QED  BY <2>1, <2>2, <2>3
  <1>8. CASE OdinFilePartSize
    <2>1. HostTypeOK'
      BY <1>0, <1>8 DEF OdinFilePartSize, HostTypeOK, Locations, ExitCodes
    <2>2. CursorOK'
      BY <1>0, <1>8 DEF OdinFilePartSize, HostTypeOK, CursorOK, Current, InFile, ThorFile, LegacyFile
    <2>3. PartOK'
      BY <1>0, <1>8 DEF OdinFilePartSize, PartOK
    <2>4. QED  BY <2>1, <2>2, <2>3
  <1>9. CASE RequestPit
    <2>1. HostTypeOK'
      BY <1>0, <1>9 DEF RequestPit, HostTypeOK, Locations, ExitCodes
    <2>2. CursorOK'
      BY <1>0, <1>9 DEF RequestPit, HostTypeOK, CursorOK, Current, InFile, ThorFile, LegacyFile
    <2>3. PartOK'
      BY <1>0, <1>9 DEF RequestPit, PartOK
    <2>4. QED  BY <2>1, <2>2, <2>3
  <1>10. CASE ReceivePitTable
    <2>1. HostTypeOK'
      BY <1>0, <1>10 DEF ReceivePitTable, ParsePit, HostTypeOK, Locations, ExitCodes
    <2>2. CursorOK'
      BY <1>0, <1>10 DEF ReceivePitTable, ParsePit, HostTypeOK, CursorOK, Current, InFile, ThorFile, LegacyFile
    <2>3. PartOK'
      BY <1>0, <1>10 DEF ReceivePitTable, ParsePit, PartOK
    <2>4. QED  BY <2>1, <2>2, <2>3
  <1>11. CASE OdinDumpPit
    <2>1. HostTypeOK'
      BY <1>0, <1>11 DEF OdinDumpPit, HostTypeOK, Locations, ExitCodes
    <2>2. CursorOK'
      BY <1>0, <1>11 DEF OdinDumpPit, HostTypeOK, CursorOK, Current, InFile, ThorFile, LegacyFile
    <2>3. PartOK'
      BY <1>0, <1>11 DEF OdinDumpPit, PartOK
    <2>4. QED  BY <2>1, <2>2, <2>3
  <1>12. CASE OdinPitBlock
    <2>1. HostTypeOK'
      BY <1>0, <1>12 DEF OdinPitBlock, HostTypeOK, Locations, ExitCodes
    <2>2. CursorOK'
      BY <1>0, <1>12 DEF OdinPitBlock, HostTypeOK, CursorOK, Current, InFile, ThorFile, LegacyFile
    <2>3. PartOK'
      BY <1>0, <1>12 DEF OdinPitBlock, PartOK
    <2>4. QED  BY <2>1, <2>2, <2>3
  <1>13. CASE OdinPitData
    <2>1. HostTypeOK'
      <3>1. part' \in Nat /\ entry' \in Nat \ {0}
        BY <1>13, <1>n DEF OdinPitData
      <3>2. pc' \in Locations /\ rc' \in ExitCodes /\ trouble' \in BOOLEAN
        BY <1>13 DEF OdinPitData, HostTypeOK, Locations, ExitCodes
      <3>3. QED  BY <1>0, <1>13, <3>1, <3>2 DEF OdinPitData, HostTypeOK
    <2>2. CursorOK'
      BY <1>0, <1>13 DEF OdinPitData, HostTypeOK, CursorOK, Current, InFile, ThorFile, LegacyFile
    <2>3. PartOK'
      BY <1>0, <1>13 DEF OdinPitData, PartOK
    <2>4. QED  BY <2>1, <2>2, <2>3
  <1>14. CASE OdinEndPit
    <2>1. HostTypeOK'
      BY <1>0, <1>14 DEF OdinEndPit, ParsePit, HostTypeOK, Locations, ExitCodes
    <2>2. CursorOK'
      BY <1>0, <1>14 DEF OdinEndPit, ParsePit, HostTypeOK, CursorOK, Current, InFile, ThorFile, LegacyFile
    <2>3. PartOK'
      BY <1>0, <1>14 DEF OdinEndPit, ParsePit, PartOK
    <2>4. QED  BY <2>1, <2>2, <2>3
  <1>15. CASE ProcessTarFile
    <2>1. HostTypeOK'
      BY <1>0, <1>15 DEF ProcessTarFile, HostTypeOK, Locations, ExitCodes
    <2>2. CursorOK'
      BY <1>0, <1>15 DEF ProcessTarFile, HostTypeOK, CursorOK, Current, InFile, ThorFile, LegacyFile
    <2>3. PartOK'
      BY <1>0, <1>15 DEF ProcessTarFile, PartOK
    <2>4. QED  BY <2>1, <2>2, <2>3
  <1>16. CASE ArchivesDone
    <2>1. HostTypeOK'
      BY <1>0, <1>16 DEF ArchivesDone, HostTypeOK, Locations, ExitCodes
    <2>2. CursorOK'
      BY <1>0, <1>16 DEF ArchivesDone, HostTypeOK, CursorOK, Current, InFile, ThorFile, LegacyFile
    <2>3. PartOK'
      BY <1>0, <1>16 DEF ArchivesDone, PartOK
    <2>4. QED  BY <2>1, <2>2, <2>3
  <1>17. CASE EndOfArchive
    <2>1. HostTypeOK'
      BY <1>0, <1>17 DEF EndOfArchive, HostTypeOK, Locations, ExitCodes
    <2>2. CursorOK'
      BY <1>0, <1>17 DEF EndOfArchive, HostTypeOK, CursorOK, Current, InFile, ThorFile, LegacyFile
    <2>3. PartOK'
      BY <1>0, <1>17 DEF EndOfArchive, PartOK
    <2>4. QED  BY <2>1, <2>2, <2>3
  <1>18. CASE BadEntry
    <2>1. HostTypeOK'
      BY <1>0, <1>18 DEF BadEntry, AtEntry, HostTypeOK, Locations, ExitCodes
    <2>2. CursorOK'
      BY <1>0, <1>18 DEF BadEntry, AtEntry, HostTypeOK, CursorOK, Current, InFile, ThorFile, LegacyFile
    <2>3. PartOK'
      BY <1>0, <1>18 DEF BadEntry, AtEntry, PartOK
    <2>4. QED  BY <2>1, <2>2, <2>3
  <1>19. CASE SkipEntry
    <2>1. HostTypeOK'
      BY <1>0, <1>19 DEF SkipEntry, AtEntry, NextEntry, HostTypeOK, Locations, ExitCodes
    <2>2. CursorOK'
      BY <1>0, <1>19 DEF SkipEntry, AtEntry, NextEntry, HostTypeOK, CursorOK, Current, InFile, ThorFile, LegacyFile
    <2>3. PartOK'
      BY <1>0, <1>19 DEF SkipEntry, AtEntry, NextEntry, PartOK
    <2>4. QED  BY <2>1, <2>2, <2>3
  <1>20. CASE RejectEntry
    <2>1. HostTypeOK'
      BY <1>0, <1>20 DEF RejectEntry, AtEntry, HostTypeOK, Locations, ExitCodes
    <2>2. CursorOK'
      BY <1>0, <1>20 DEF RejectEntry, AtEntry, HostTypeOK, CursorOK, Current, InFile, ThorFile, LegacyFile
    <2>3. PartOK'
      BY <1>0, <1>20 DEF RejectEntry, AtEntry, PartOK
    <2>4. QED  BY <2>1, <2>2, <2>3
  <1>21. CASE CheckEntry
    <2>1. HostTypeOK'
      <3>1. Current \in Entries
        BY <1>21, CurrentTyped DEF CheckEntry, Fresh, AtEntry, CursorOK
      <3>2. Current.part \in Nat
        BY <3>1 DEF Entries
      <3>3. used' \subseteq Nat
        BY <1>21, <3>2 DEF CheckEntry, HostTypeOK
      <3>4. pc' \in Locations /\ rc' \in ExitCodes /\ trouble' \in BOOLEAN
        BY <1>21 DEF CheckEntry, HostTypeOK, Locations, ExitCodes
      <3>5. entry' \in Nat \ {0} /\ part' \in Nat
        BY <1>21, <1>n DEF CheckEntry, NextEntry
      <3>6. QED  BY <1>0, <1>21, <3>3, <3>4, <3>5 DEF CheckEntry, NextEntry, HostTypeOK
    <2>2. CursorOK'
      BY <1>0, <1>21 DEF CheckEntry, Fresh, AtEntry, NextEntry, HostTypeOK, CursorOK, Current, InFile, ThorFile, LegacyFile
    <2>3. PartOK'
      BY <1>0, <1>21 DEF CheckEntry, Fresh, AtEntry, NextEntry, PartOK
    <2>4. QED  BY <2>1, <2>2, <2>3
  <1>22. CASE FlashEntry
    <2>1. HostTypeOK'
      <3>1. Current \in Entries
        BY <1>22, CurrentTyped DEF FlashEntry, Fresh, AtEntry, CursorOK
      <3>2. Current.part \in Nat
        BY <3>1 DEF Entries
      <3>3. used' \subseteq Nat
        BY <1>22, <3>2 DEF FlashEntry, HostTypeOK
      <3>4. pc' \in Locations /\ rc' \in ExitCodes /\ trouble' \in BOOLEAN
        BY <1>22 DEF FlashEntry, HostTypeOK, Locations, ExitCodes
      <3>5. entry' \in Nat \ {0} /\ part' \in Nat
        BY <1>22, <1>n DEF FlashEntry
      <3>6. QED  BY <1>0, <1>22, <3>3, <3>4, <3>5 DEF FlashEntry, HostTypeOK
    <2>2. CursorOK'
      BY <1>0, <1>22 DEF FlashEntry, Fresh, AtEntry, HostTypeOK, CursorOK, Current, InFile, ThorFile, LegacyFile
    <2>3. PartOK'
      BY <1>0, <1>22 DEF FlashEntry, Fresh, AtEntry, PartOK
    <2>4. QED  BY <2>1, <2>2, <2>3
  <1>23. CASE SendFilePartHeader
    <2>1. HostTypeOK'
      BY <1>0, <1>23 DEF SendFilePartHeader, HostTypeOK, Locations, ExitCodes
    <2>2. CursorOK'
      BY <1>0, <1>23 DEF SendFilePartHeader, HostTypeOK, CursorOK, Current, InFile, ThorFile, LegacyFile
    <2>3. Current' = Current \/ pc' = "tar_entry"
      BY <1>0, <1>23 DEF SendFilePartHeader, Current
    <2>4. PartOK'
      BY <1>0, <1>c, <1>23, <2>3, SendPhase, ReceivePhase, FailsPhase DEF SendFilePartHeader, HostTypeOK, PartOK, CursorOK, InFile, ThorFile, LegacyFile
    <2>5. QED  BY <2>1, <2>2, <2>4
  <1>24. CASE SendFilePartChunk
    <2>1. HostTypeOK'
      BY <1>0, <1>24 DEF SendFilePartChunk, HostTypeOK, Locations, ExitCodes
    <2>2. CursorOK'
      BY <1>0, <1>24 DEF SendFilePartChunk, HostTypeOK, CursorOK, Current, InFile, ThorFile, LegacyFile
    <2>3. Current' = Current \/ pc' = "tar_entry"
      BY <1>0, <1>24 DEF SendFilePartChunk, Current
    <2>4. PartOK'
      BY <1>0, <1>c, <1>24, <2>3, SendPhase, ReceivePhase, FailsPhase DEF SendFilePartChunk, HostTypeOK, PartOK, CursorOK, InFile, ThorFile, LegacyFile
    <2>5. QED  BY <2>1, <2>2, <2>4
  <1>25. CASE FilePartData
    <2>1. HostTypeOK'
      <3>1. part' \in Nat /\ entry' \in Nat \ {0}
        BY <1>25, <1>n DEF FilePartData
      <3>2. pc' \in Locations /\ rc' \in ExitCodes /\ trouble' \in BOOLEAN
        BY <1>25 DEF FilePartData, HostTypeOK, Locations, ExitCodes
      <3>3. QED  BY <1>0, <1>25, <3>1, <3>2 DEF FilePartData, HostTypeOK
    <2>2. CursorOK'
      BY <1>0, <1>25 DEF FilePartData, HostTypeOK, CursorOK, Current, InFile, ThorFile, LegacyFile
    <2>3. Current' = Current \/ pc' = "tar_entry"
      BY <1>0, <1>25 DEF FilePartData, Current
    <2>4. PartOK'
      BY <1>0, <1>c, <1>25, <2>3, SendPhase, ReceivePhase, FailsPhase DEF FilePartData, HostTypeOK, PartOK, CursorOK, InFile, ThorFile, LegacyFile
    <2>5. QED  BY <2>1, <2>2, <2>4
  <1>26. CASE ChunksDone
    <2>1. HostTypeOK'
      BY <1>0, <1>26 DEF ChunksDone, HostTypeOK, Locations, ExitCodes
    <2>2. CursorOK'
      BY <1>0, <1>26 DEF ChunksDone, HostTypeOK, CursorOK, Current, InFile, ThorFile, LegacyFile
    <2>3. Current' = Current \/ pc' = "tar_entry"
      BY <1>0, <1>26 DEF ChunksDone, Current
    <2>4. PartOK'
      BY <1>0, <1>c, <1>26, <2>3, SendPhase, ReceivePhase, FailsPhase DEF ChunksDone, HostTypeOK, PartOK, CursorOK, InFile, ThorFile, LegacyFile
    <2>5. QED  BY <2>1, <2>2, <2>4
  <1>27. CASE EndFileTransfer
    <2>1. HostTypeOK'
      <3>1. part' \in Nat /\ entry' \in Nat \ {0}
        BY <1>27, <1>n DEF EndFileTransfer
      <3>2. pc' \in Locations /\ rc' \in ExitCodes /\ trouble' \in BOOLEAN
        BY <1>27 DEF EndFileTransfer, HostTypeOK, Locations, ExitCodes
      <3>3. QED  BY <1>0, <1>27, <3>1, <3>2 DEF EndFileTransfer, HostTypeOK
    <2>2. CursorOK'
      BY <1>0, <1>27 DEF EndFileTransfer, HostTypeOK, CursorOK, Current, InFile, ThorFile, LegacyFile
    <2>3. Current' = Current \/ pc' = "tar_entry"
      BY <1>0, <1>27 DEF EndFileTransfer, Current
    <2>4. PartOK'
      BY <1>0, <1>c, <1>27, <2>3, SendPhase, ReceivePhase, FailsPhase DEF EndFileTransfer, HostTypeOK, PartOK, CursorOK, InFile, ThorFile, LegacyFile
    <2>5. QED  BY <2>1, <2>2, <2>4
  <1>28. CASE OdinRequestFileFlash
    <2>1. HostTypeOK'
      BY <1>0, <1>28 DEF OdinRequestFileFlash, HostTypeOK, Locations, ExitCodes
    <2>2. CursorOK'
      BY <1>0, <1>28 DEF OdinRequestFileFlash, HostTypeOK, CursorOK, Current, InFile, ThorFile, LegacyFile
    <2>3. Current' = Current \/ pc' = "tar_entry"
      BY <1>0, <1>28 DEF OdinRequestFileFlash, Current
    <2>4. PartOK'
      BY <1>0, <1>c, <1>28, <2>3, SendPhase, ReceivePhase, FailsPhase DEF OdinRequestFileFlash, HostTypeOK, PartOK, CursorOK, InFile, ThorFile, LegacyFile
    <2>5. QED  BY <2>1, <2>2, <2>4
  <1>29. CASE OdinRequestSequenceFlash
    <2>1. HostTypeOK'
      <3>1. seqend' \in Nat
        BY <1>29, <1>n, <1>c, SeqPartsAssumption
        DEF OdinRequestSequenceFlash, SequenceEnd, MinOf, InFile, LegacyFile, HostTypeOK
      <3>2. pc' \in Locations /\ rc' \in ExitCodes /\ trouble' \in BOOLEAN
        BY <1>29 DEF OdinRequestSequenceFlash, HostTypeOK, Locations, ExitCodes
      <3>3. QED  BY <1>0, <1>29, <3>1, <3>2 DEF OdinRequestSequenceFlash, HostTypeOK
    <2>2. CursorOK'
      BY <1>0, <1>29 DEF OdinRequestSequenceFlash, HostTypeOK, CursorOK, Current, InFile, ThorFile, LegacyFile
    <2>3. Current' = Current \/ pc' = "tar_entry"
      BY <1>0, <1>29 DEF OdinRequestSequenceFlash, Current
    <2>4. PartOK'
      BY <1>0, <1>c, <1>29, <2>3, SeqPartsAssumption, SendPhase, ReceivePhase, FailsPhase DEF OdinRequestSequenceFlash, SequenceEnd, MinOf, HostTypeOK, PartOK, CursorOK, InFile, ThorFile, LegacyFile
    <2>5. QED  BY <2>1, <2>2, <2>4
  <1>30. CASE OdinSendFilePart
    <2>1. HostTypeOK'
      <3>1. part' \in Nat /\ entry' \in Nat \ {0}
        BY <1>30, <1>n DEF OdinSendFilePart
      <3>2. pc' \in Locations /\ rc' \in ExitCodes /\ trouble' \in BOOLEAN
        BY <1>30 DEF OdinSendFilePart, HostTypeOK, Locations, ExitCodes
      <3>3. QED  BY <1>0, <1>30, <3>1, <3>2 DEF OdinSendFilePart, HostTypeOK
    <2>2. CursorOK'
      BY <1>0, <1>30 DEF OdinSendFilePart, HostTypeOK, CursorOK, Current, InFile, ThorFile, LegacyFile
    <2>3. Current' = Current \/ pc' = "tar_entry"
      BY <1>0, <1>30 DEF OdinSendFilePart, Current
    <2>4. PartOK'
      BY <1>0, <1>c, <1>30, <2>3, SendPhase, ReceivePhase, FailsPhase DEF OdinSendFilePart, HostTypeOK, PartOK, CursorOK, InFile, ThorFile, LegacyFile
    <2>5. QED  BY <2>1, <2>2, <2>4
  <1>31. CASE OdinReadFails
    <2>1. HostTypeOK'
      BY <1>0, <1>31 DEF OdinReadFails, HostTypeOK, Locations, ExitCodes
    <2>2. CursorOK'
      BY <1>0, <1>31 DEF OdinReadFails, HostTypeOK, CursorOK, Current, InFile, ThorFile, LegacyFile
    <2>3. Current' = Current \/ pc' = "tar_entry"
      BY <1>0, <1>31 DEF OdinReadFails, Current
    <2>4. PartOK'
      BY <1>0, <1>c, <1>31, <2>3, SendPhase, ReceivePhase, FailsPhase DEF OdinReadFails, HostTypeOK, PartOK, CursorOK, InFile, ThorFile, LegacyFile
    <2>5. QED  BY <2>1, <2>2, <2>4
  <1>32. CASE OdinEndSequenceFlash
    <2>1. HostTypeOK'
      BY <1>0, <1>32 DEF OdinEndSequenceFlash, HostTypeOK, Locations, ExitCodes
    <2>2. CursorOK'
      BY <1>0, <1>32 DEF OdinEndSequenceFlash, HostTypeOK, CursorOK, Current, InFile, ThorFile, LegacyFile
    <2>3. Current' = Current \/ pc' = "tar_entry"
      BY <1>0, <1>32 DEF OdinEndSequenceFlash, Current
    <2>4. PartOK'
      BY <1>0, <1>c, <1>32, <2>3, SendPhase, ReceivePhase, FailsPhase DEF OdinEndSequenceFlash, IsLast, HostTypeOK, PartOK, CursorOK, InFile, ThorFile, LegacyFile
    <2>5. QED  BY <2>1, <2>2, <2>4
  <1>33. CASE OdinResetFlashCount
    <2>1. HostTypeOK'
      <3>1. part' \in Nat /\ entry' \in Nat \ {0}
        BY <1>33, <1>n DEF OdinResetFlashCount
      <3>2. pc' \in Locations /\ rc' \in ExitCodes /\ trouble' \in BOOLEAN
        BY <1>33 DEF OdinResetFlashCount, HostTypeOK, Locations, ExitCodes
      <3>3. QED  BY <1>0, <1>33, <3>1, <3>2 DEF OdinResetFlashCount, HostTypeOK
    <2>2. CursorOK'
      BY <1>0, <1>33 DEF OdinResetFlashCount, HostTypeOK, CursorOK, Current, InFile, ThorFile, LegacyFile
    <2>3. Current' = Current \/ pc' = "tar_entry"
      BY <1>0, <1>33 DEF OdinResetFlashCount, Current
    <2>4. PartOK'
      BY <1>0, <1>c, <1>33, <2>3, SendPhase, ReceivePhase, FailsPhase DEF OdinResetFlashCount, HostTypeOK, PartOK, CursorOK, InFile, ThorFile, LegacyFile
    <2>5. QED  BY <2>1, <2>2, <2>4
  <1>34. CASE SendReboot
    <2>1. HostTypeOK'
      BY <1>0, <1>34 DEF SendReboot, HostTypeOK, Locations, ExitCodes
    <2>2. CursorOK'
      BY <1>0, <1>34 DEF SendReboot, HostTypeOK, CursorOK, Current, InFile, ThorFile, LegacyFile
    <2>3. PartOK'
      BY <1>0, <1>34 DEF SendReboot, PartOK
    <2>4. QED  BY <2>1, <2>2, <2>3
  <1>35. CASE SendRedownload
    <2>1. HostTypeOK'
      BY <1>0, <1>35 DEF SendRedownload, HostTypeOK, Locations, ExitCodes
    <2>2. CursorOK'
      BY <1>0, <1>35 DEF SendRedownload, HostTypeOK, CursorOK, Current, InFile, ThorFile, LegacyFile
    <2>3. PartOK'
      BY <1>0, <1>35 DEF SendRedownload, PartOK
    <2>4. QED  BY <2>1, <2>2, <2>3
  <1>36. CASE EndSession
    <2>1. HostTypeOK'
      BY <1>0, <1>36 DEF EndSession, HostTypeOK, Locations, ExitCodes
    <2>2. CursorOK'
      BY <1>0, <1>36 DEF EndSession, HostTypeOK, CursorOK, Current, InFile, ThorFile, LegacyFile
    <2>3. PartOK'
      BY <1>0, <1>36 DEF EndSession, PartOK
    <2>4. QED  BY <2>1, <2>2, <2>3
  <1>q. QED
    BY <1>1, <1>2, <1>3, <1>4, <1>5, <1>6, <1>7, <1>8, <1>9, <1>10, <1>11, <1>12, <1>13, <1>14, <1>15, <1>16, <1>17, <1>18, <1>19, <1>20, <1>21, <1>22, <1>23, <1>24, <1>25, <1>26, <1>27, <1>28, <1>29, <1>30, <1>31, <1>32, <1>33, <1>34, <1>35, <1>36 DEF HostNext

-----------------------------------------------------------------------------
(* The pipes and the device keep their types.                              *)

LEMMA TailTyped ==
    ASSUME NEW S, NEW q \in Seq(S), q # <<>>
    PROVE  Head(q) \in S /\ Tail(q) \in Seq(S)
  OBVIOUS

LEMMA HostPipesTyped ==
    ASSUME ChannelTypeOK(Ops), UNCHANGED chan \/ Took \/ Gave \/ Wrote
    PROVE  ChannelTypeOK(Ops)' /\ (OperandsOK => OperandsOK')
  <1>1. CASE UNCHANGED chan
    BY <1>1 DEF ChannelTypeOK, OperandsOK, chan
  <1>2. CASE Took
    BY <1>2, TailTyped DEF ChannelTypeOK, OperandsOK, Took
  <1>3. CASE Gave
    BY <1>3 DEF ChannelTypeOK, OperandsOK, Gave
  <1>4. CASE Wrote
    <2> PICK op \in Ops, arg \in Seq(Nat) : Operands(op, arg) /\ Send(op, arg)
      BY <1>4 DEF Wrote
    <2> DEFINE q == [n |-> sent + 1, op |-> op, arg |-> arg]
    <2>1. q \in Request(Ops) /\ q.op = op /\ q.arg = arg
      BY DEF ChannelTypeOK, Request
    <2>2. outq \in Seq(Request(Ops)) /\ outq' = Append(outq, q)
      BY DEF ChannelTypeOK, Send
    <2> HIDE DEF q
    <2>3. ChannelTypeOK(Ops)'
      BY <2>1, <2>2 DEF ChannelTypeOK, Send
    <2>4. ASSUME OperandsOK, NEW i \in 1..Len(outq')
          PROVE  Operands(outq'[i].op, outq'[i].arg)
      <3>1. CASE i = Len(outq) + 1
        <4>1. outq'[i] = q  BY <2>1, <2>2, <3>1
        <4>2. QED  BY <2>1, <4>1
      <3>2. CASE i # Len(outq) + 1
        <4>1. i \in 1..Len(outq) /\ outq'[i] = outq[i]  BY <2>1, <2>2, <2>4, <3>2
        <4>2. QED  BY <2>4, <4>1 DEF OperandsOK
      <3>3. QED  BY <3>1, <3>2
    <2>5. QED
      BY <2>3, <2>4 DEF OperandsOK
  <1>5. QED
    BY <1>1, <1>2, <1>3, <1>4

\* The head of the pipe to the device, once the device has something to do.
LEMMA HeadTyped ==
    ASSUME ChannelTypeOK(Ops), outq # <<>>
    PROVE  /\ Head(outq).n \in Nat
           /\ Head(outq).op \in Ops
           /\ Head(outq).arg \in Seq(Nat)
           /\ Tail(outq) \in Seq(Request(Ops))
  <1>1. Head(outq) \in Request(Ops) /\ Tail(outq) \in Seq(Request(Ops))
    BY TailTyped DEF ChannelTypeOK
  <1>2. QED
    BY <1>1 DEF Request

\* The operands of the head are there, and those behind it stay.
LEMMA HeadOperands ==
    ASSUME ChannelTypeOK(Ops), OperandsOK, outq # <<>>
    PROVE  /\ Operands(Head(outq).op, Head(outq).arg)
           /\ outq' = Tail(outq) => OperandsOK'
  <1>1. outq \in Seq(Request(Ops)) /\ Len(outq) \in Nat \ {0} /\ Head(outq) = outq[1]
    BY DEF ChannelTypeOK
  <1>2. Operands(outq[1].op, outq[1].arg)
    BY <1>1 DEF OperandsOK
  <1>3. ASSUME outq' = Tail(outq), NEW i \in 1..Len(outq')
        PROVE  Operands(outq'[i].op, outq'[i].arg)
    <2>1. i + 1 \in 1..Len(outq) /\ outq'[i] = outq[i + 1]
      BY <1>1, <1>3
    <2>2. QED
      BY <2>1 DEF OperandsOK
  <1>4. QED
    BY <1>1, <1>2, <1>3 DEF OperandsOK

LEMMA AnswerTyped ==
    ASSUME ChannelTypeOK(Ops), outq # <<>>,
           NEW kind \in Kinds, NEW code \in Codes, NEW val \in Nat
    PROVE  Answer(kind, code, val) \in Reply
  BY HeadTyped DEF Answer, Reply

LEMMA ServeTyped ==
    ASSUME ChannelTypeOK(Ops), outq # <<>>, NEW replies \in Seq(Reply), Serve(replies)
    PROVE  ChannelTypeOK(Ops)'
  BY HeadTyped DEF ChannelTypeOK, Serve

LEMMA AckTyped ==
    ASSUME ChannelTypeOK(Ops), outq # <<>>, NEW val \in Nat
    PROVE  Ack(val) \in Seq(Reply)
  <1>1. Answer(IF profile.proto = "Thor" THEN "RESPONSE" ELSE "RSP8", "ok", val) \in Reply
    BY AnswerTyped DEF Kinds, Codes
  <1>2. QED
    BY <1>1 DEF Ack

LEMMA DeviceStep ==
    ASSUME ChannelTypeOK(Ops), OperandsOK, DeviceTypeOK, DeviceNext
    PROVE  ChannelTypeOK(Ops)' /\ DeviceTypeOK'
  <1>p. profile.type \in Nat /\ profile.version \in Nat
    <2>1. profile.type \in DeviceTypes \cup {NoType} /\ profile.version \in {1, 2}
      BY DEF DeviceTypeOK, Profiles
    <2>2. profile.type \in DeviceTypes \/ profile.type = 0
      BY <2>1 DEF NoType
    <2>3. profile.type \in Nat
      <3>1. \A t \in DeviceTypes : t \in Nat  BY DeviceTypesAssumption
      <3>2. QED  BY <2>2, <3>1
    <2>4. profile.version \in Nat
      BY <2>1
    <2>5. QED  BY <2>3, <2>4
  <1>1. CASE DeviceInform
    <2>1. ChannelTypeOK(Ops)'
      <3>1. CASE Pending({"HANDSHAKE", "SendFilePartSize", "RequestPitDump",
                          "EndPitDump", "ResetFlashCount"}) /\ Serve(Ack(0))
        BY <3>1, AckTyped, ServeTyped DEF Pending
      <3>2. CASE Pending({"ODIN"}) /\ Serve(<<Answer("LOKE", "ok", 0)>>)
        <4>1. outq # <<>>  BY <3>2 DEF Pending
        <4>2. Answer("LOKE", "ok", 0) \in Reply  BY <4>1, AnswerTyped DEF Kinds, Codes
        <4>3. <<Answer("LOKE", "ok", 0)>> \in Seq(Reply)  BY <4>2
        <4>4. QED  BY <3>2, <4>1, <4>3, ServeTyped
      <3>3. CASE Pending({"DEVICE_TYPE"})
                 /\ Serve(<<Answer("DEVICE_TYPE", "ok", profile.type)>>)
        <4>1. outq # <<>>  BY <3>3 DEF Pending
        <4>2. Answer("DEVICE_TYPE", "ok", profile.type) \in Reply
          BY <1>p, <4>1, AnswerTyped DEF Kinds, Codes
        <4>3. <<Answer("DEVICE_TYPE", "ok", profile.type)>> \in Seq(Reply)  BY <4>2
        <4>4. QED  BY <3>3, <4>1, <4>3, ServeTyped
      <3>4. ASSUME NEW size \in {"ok", "fail"}, Pending({"PIT_FILE"}),
                   Serve(<<Answer("PIT_SIZE", size, 0), Answer("PIT_DATA", "ok", 0)>>)
            PROVE  ChannelTypeOK(Ops)'
        <4>1. outq # <<>>  BY <3>4 DEF Pending
        <4>2. Answer("PIT_SIZE", size, 0) \in Reply /\ Answer("PIT_DATA", "ok", 0) \in Reply
          BY <4>1, AnswerTyped DEF Kinds, Codes
        <4>3. <<Answer("PIT_SIZE", size, 0), Answer("PIT_DATA", "ok", 0)>> \in Seq(Reply)
          BY <4>2
        <4>4. QED  BY <3>4, <4>1, <4>3, ServeTyped
      <3>5. CASE Pending({"PitDumpBlock"})
                 /\ Serve(<<Answer("RSP8", "ok", 0), Answer("PIT_DATA", "ok", 0)>>)
        <4>1. outq # <<>>  BY <3>5 DEF Pending
        <4>2. Answer("RSP8", "ok", 0) \in Reply /\ Answer("PIT_DATA", "ok", 0) \in Reply
          BY <4>1, AnswerTyped DEF Kinds, Codes
        <4>3. <<Answer("RSP8", "ok", 0), Answer("PIT_DATA", "ok", 0)>> \in Seq(Reply)
          BY <4>2
        <4>4. QED  BY <3>5, <4>1, <4>3, ServeTyped
      <3>6. QED
        BY <1>1, <3>1, <3>2, <3>3, <3>4, <3>5 DEF DeviceInform
    <2>2. DeviceTypeOK'
      BY <1>1 DEF DeviceInform, DeviceTypeOK, device
    <2>3. QED  BY <2>1, <2>2
  <1>2. CASE DeviceBegin
    <2>1. ChannelTypeOK(Ops)'
      BY <1>2, <1>p, AckTyped, ServeTyped DEF DeviceBegin, Pending
    <2>2. DeviceTypeOK'
      BY <1>2 DEF DeviceBegin, DeviceTypeOK
    <2>3. QED  BY <2>1, <2>2
  <1>3. CASE DeviceEnd
    <2>1. ChannelTypeOK(Ops)'
      BY <1>3, AckTyped, ServeTyped DEF DeviceEnd, Pending
    <2>2. DeviceTypeOK'
      BY <1>3 DEF DeviceEnd, DeviceTypeOK
    <2>3. QED  BY <2>1, <2>2
  <1>4. CASE DeviceStartFile
    <2>1. ChannelTypeOK(Ops)'
      BY <1>4, AckTyped, ServeTyped DEF DeviceStartFile, Pending
    <2>2. DeviceTypeOK'
      BY <1>4 DEF DeviceStartFile, DeviceTypeOK
    <2>3. QED  BY <2>1, <2>2
  <1>5. CASE DeviceStartPart
    <2>1. ChannelTypeOK(Ops)'
      BY <1>5, AckTyped, ServeTyped DEF DeviceStartPart, Pending
    <2>2. Arg \in Seq(Nat) /\ Len(Arg) >= 1
      BY <1>5, HeadTyped, HeadOperands DEF DeviceStartPart, Pending, Arg, Operands
    <2>3. Arg[1] \in Nat
      BY <2>2
    <2>4. DeviceTypeOK'
      BY <1>5, <2>3 DEF DeviceStartPart, DeviceTypeOK
    <2>5. QED  BY <2>1, <2>4
  <1>6. CASE DeviceTakeData
    <2>1. ChannelTypeOK(Ops)'
      BY <1>6, AckTyped, ServeTyped DEF DeviceTakeData, Pending, DeviceTypeOK
    <2>2. Arg \in Seq(Nat)
      BY <1>6, HeadTyped DEF DeviceTakeData, Pending, Arg
    <2>3. DeviceTypeOK'
      BY <1>6, <2>2 DEF DeviceTakeData, DeviceTypeOK
    <2>4. QED  BY <2>1, <2>3
  <1>7. CASE DeviceFinalise
    <2>1. ChannelTypeOK(Ops)'
      BY <1>7, AckTyped, ServeTyped DEF DeviceFinalise, Pending
    <2>2. Arg \in Seq(Nat) /\ Len(Arg) = 2
      BY <1>7, HeadTyped, HeadOperands DEF DeviceFinalise, Pending, Arg, Operands
    <2> DEFINE Image0 == [part |-> Arg[1], data |-> xfer]
               Images == [part : Nat, data : Seq(Seq(Nat))]
    <2>a. xfer \in Seq(Seq(Nat))
      BY DEF DeviceTypeOK
    <2>b. Arg[1] \in Nat
      BY <2>2
    <2>3. Arg[1] \in Nat /\ xfer \in Seq(Seq(Nat))
      BY <2>a, <2>b
    <2>4. Image0 \in Images
      BY <2>3
    <2>5. flashed \in Seq(Images) /\ <<>> \in Seq(Seq(Nat))
      BY DEF DeviceTypeOK
    <2>6. flashed' = Append(flashed, Image0) \/ flashed' = flashed
      BY <1>7 DEF DeviceFinalise
    <2> HIDE DEF Image0, Images
    <2>7. flashed' \in Seq(Images)
      BY <2>4, <2>5, <2>6
    <2>8. xfer' \in Seq(Seq(Nat)) /\ stage' \in {"idle", "session", "file", "part"}
      BY <1>7, <2>3, <2>5 DEF DeviceFinalise
    <2>9. profile' = profile /\ due' = due /\ busy' \in BOOLEAN
      BY <1>7 DEF DeviceFinalise
    <2>10. DeviceTypeOK'
      BY <2>7, <2>8, <2>9 DEF DeviceTypeOK, Images
    <2>11. QED  BY <2>1, <2>10
  <1>8. CASE DeviceRefuse
    <2> DEFINE kind == IF profile.proto = "Thor" THEN "RESPONSE" ELSE "RSP8"
    <2>1. Answer(kind, "fail", 0) \in Reply
      BY <1>8, AnswerTyped DEF DeviceRefuse, Kinds, Codes
    <2>2. <<Answer(kind, "fail", 0)>> \in Seq(Reply)  BY <2>1
    <2>3. ChannelTypeOK(Ops)'
      BY <1>8, <2>2, ServeTyped DEF DeviceRefuse
    <2>4. DeviceTypeOK'
      BY <1>8 DEF DeviceRefuse, DeviceTypeOK
    <2>5. QED  BY <2>3, <2>4
  <1>9. CASE DeviceIgnore
    <2>1. ChannelTypeOK(Ops)'
      <3>1. <<>> \in Seq(Reply)  OBVIOUS
      <3>2. QED  BY <1>9, <3>1, ServeTyped DEF DeviceIgnore
    <2>2. DeviceTypeOK'
      BY <1>9 DEF DeviceIgnore, DeviceTypeOK, device
    <2>3. QED  BY <2>1, <2>2
  <1>10. CASE DeviceProgress
    <2>1. Answer("RSP8", "progress", 0) \in Reply
      BY <1>10, AnswerTyped DEF DeviceProgress, Pending, Kinds, Codes
    <2>2. ChannelTypeOK(Ops)'
      BY <1>10, <2>1 DEF DeviceProgress, ChannelTypeOK
    <2>3. DeviceTypeOK'
      BY <1>10 DEF DeviceProgress, DeviceTypeOK
    <2>4. QED  BY <2>2, <2>3
  <1>11. QED
    BY <1>1, <1>2, <1>3, <1>4, <1>5, <1>6, <1>7, <1>8, <1>9, <1>10 DEF DeviceNext

-----------------------------------------------------------------------------
(* Type correctness.                                                       *)

LEMMA TypeInvInit ==
    ASSUME Init
    PROVE  TypeInv
  <1>1. ChannelTypeOK(Ops)
    BY DEF Init, ChannelInit, ChannelTypeOK
  <1>2. DeviceTypeOK
    <2>1. <<>> \in Seq(Seq(Nat)) /\ <<>> \in Seq([part : Nat, data : Seq(Seq(Nat))])
      OBVIOUS
    <2>2. QED  BY <2>1 DEF Init, DeviceInit, DeviceTypeOK
  <1>3. HostTypeOK
    <2>1. NoType \in Nat /\ {} \subseteq Nat  BY DEF NoType
    <2>2. pc \in Locations /\ rc \in ExitCodes  BY DEF Init, Locations, ExitCodes
    <2>3. arch \in Nat \ {0} /\ entry \in Nat \ {0} /\ part \in Nat /\ seqend \in Nat
      BY DEF Init
    <2>4. QED  BY <2>1, <2>2, <2>3 DEF Init, HostTypeOK
  <1>4. CursorOK /\ PartOK /\ OperandsOK
    BY DEF Init, ChannelInit, CursorOK, PartOK, OperandsOK, InFile, ThorFile, LegacyFile
  <1>5. QED
    BY <1>1, <1>2, <1>3, <1>4, TypeParts DEF TypeInv

LEMMA TypeInvNext ==
    ASSUME TypeInv, [Next]_vars
    PROVE  TypeInv'
  <1>0. ChannelTypeOK(Ops) /\ OperandsOK /\ DeviceTypeOK /\ HostTypeOK /\ CursorOK /\ PartOK
    BY TypeParts DEF TypeInv
  <1>1. CASE HostNext
    <2>1. HostTypeOK' /\ CursorOK' /\ PartOK'
      BY <1>0, <1>1, HostStep
    <2>2. ChannelTypeOK(Ops)' /\ OperandsOK'
      BY <1>0, <1>1, WireStep, HostPipesTyped
    <2>3. DeviceTypeOK'
      BY <1>0, <1>1 DEF HostNext, device, DeviceTypeOK
    <2>4. TypeOK'
      BY <2>1, <2>2, <2>3 DEF TypeOK, HostTypeOK
    <2>5. QED
      BY <2>1, <2>2, <2>4 DEF TypeInv
  <1>2. CASE DeviceNext /\ UNCHANGED host
    <2>1. ChannelTypeOK(Ops)' /\ DeviceTypeOK'
      BY <1>0, <1>2, DeviceStep
    <2>2. HostTypeOK'
      BY <1>0, <1>2 DEF HostTypeOK, host, link, cursor
    <2>3. CursorOK'
      BY <1>0, <1>2 DEF CursorOK, Current, host, link, cursor
    <2>4. phase' = phase /\ (outq' = outq \/ (outq # <<>> /\ outq' = Tail(outq)))
      BY <1>2 DEF DeviceNext, DeviceInform, DeviceBegin, DeviceEnd, DeviceStartFile,
                  DeviceStartPart, DeviceTakeData, DeviceFinalise, DeviceRefuse,
                  DeviceIgnore, DeviceProgress, Serve, Pending
    <2>5. PartOK'
      BY <1>0, <1>2, <2>4 DEF PartOK, Current, host, link, cursor
    <2>6. OperandsOK'
      BY <1>0, <2>4, HeadOperands DEF OperandsOK
    <2>7. QED
      BY <2>1, <2>2, <2>3, <2>5, <2>6 DEF TypeInv, TypeOK, HostTypeOK
  <1>3. CASE UNCHANGED vars
    BY <1>3, <1>0 DEF TypeInv, TypeOK, ChannelTypeOK, DeviceTypeOK, CursorOK, PartOK,
                OperandsOK, Current, vars, chan, device, host, link, cursor
  <1>4. QED
    BY <1>1, <1>2, <1>3 DEF Next

\* In every reachable state every variable has its type, the cursor of
\* process_tar_file points into the archives, and the chunk counters stay
\* within the image, whatever the device replies and whatever fails.
THEOREM TypeCorrect == Spec => []TypeInv
  <1>1. Init => TypeInv
    BY TypeInvInit
  <1>2. TypeInv /\ [Next]_vars => TypeInv'
    BY TypeInvNext
  <1>3. QED
    BY <1>1, <1>2, PTL DEF Spec

\* The type invariant the runs check.
THEOREM TypesHold == Spec => []TypeOK
  <1>1. TypeInv => TypeOK
    BY DEF TypeInv
  <1>2. QED
    BY <1>1, TypeCorrect, PTL

-----------------------------------------------------------------------------
(***************************************************************************)
(* FlashSession keeps request and reply in step, and no device finalises   *)
(* an incomplete image, for every invocation, every archive and every      *)
(* length of sequence, as long as the replies of the device are final      *)
(* (~ProgressReplies).  The argument is the invariant FlashInv.            *)
(***************************************************************************)

(* The forms a step of the host can take on the pipes.                     *)

Stays == UNCHANGED <<cfg, pc, trouble, arch, entry, part, seqend>>

\* What the request made at pc says.
AskedBy(op, arg) ==
    /\ <<pc, op>> \in Asks
    /\ op \in {"FILE_DATA", "SendFilePart"} => arg = <<arch, entry, part + 1>>
    /\ op \in {"END_FILE_TRANSFER", "EndSequenceFlash"} => arg[1] = Current.part
    /\ op = "EndSequenceFlash" => arg[2] = IF IsLast THEN 1 ELSE 0

HostAsks == \E op \in Ops, arg \in Seq(Nat) : Send(op, arg) /\ AskedBy(op, arg) /\ Stays

Read(next) ==
    phase = "recv" /\ inq # <<>> /\ inq' = Tail(inq) /\ phase' = next /\ UNCHANGED <<sent, outq>>

HostReads ==
    /\ Read("send")
    /\ pc = "handshake" => Passes(Head(inq))
    /\ pc \notin TwoPackets /\ pc' # "handshake"

HostReadsOn ==
    /\ Read("recv")
    /\ Head(inq).code = "ok"
    /\ pc \in TwoPackets /\ pc' \in {"receive_pit_table", "odin_pit_data"}

HostTurns ==
    /\ pc = "odin_legacy_handshake" /\ pc' = "handshake"
    /\ \/ phase' = "send" /\ UNCHANGED <<sent, outq, inq>> /\ (phase = "send" \/ inq = <<>>)
       \/ Read("send")

HostGivesUp == trouble' /\ outq' = outq

HostWorks ==
    phase = "send" /\ UNCHANGED chan /\ pc # "handshake" /\ pc' # "handshake"

LEMMA HostAsksIntro ==
    ASSUME NEW op \in Ops, NEW arg \in Seq(Nat), Send(op, arg), AskedBy(op, arg), Stays
    PROVE  HostAsks
  BY DEF HostAsks

LEMMA ReadIntro ==
    ASSUME NEW good, NEW next, Receive(good, next)
    PROVE  Read(next) /\ good
  BY DEF Receive, Read

LEMMA FailsForm ==
    ASSUME NEW good, Fails(good)
    PROVE  \/ phase' = "send" /\ UNCHANGED <<sent, outq, inq>> /\ (phase = "send" \/ inq = <<>>)
           \/ Read("send")
  BY DEF Fails, Read

LEMMA FailsOut ==
    ASSUME NEW good, Fails(good)
    PROVE  outq' = outq
  BY DEF Fails

LEMMA HostShape ==
    ASSUME HostTypeOK, CursorOK, PartOK, HostNext
    PROVE  HostGivesUp \/ HostAsks \/ HostReads \/ HostReadsOn \/ HostTurns \/ HostWorks
  <1> USE DEF Goto, Wait, Stop, Abort, AbortExchange, link, cursor
  <1>0. cfg' = cfg
    BY DEF HostNext
  <1>n. arch \in Nat /\ entry \in Nat /\ part \in Nat
    BY DEF HostTypeOK
  <1>1. CASE OpenDevice
    BY <1>1 DEF OpenDevice, Local, HostWorks, chan
  <1>2. CASE OdinLegacyHandshake
    <2> DEFINE op == "ODIN"
               arg == <<>>
    <2>1. ASSUME Send(op, arg), Wait, UNCHANGED cursor
          PROVE  HostAsks
      <3>1. op \in Ops /\ arg \in Seq(Nat)  BY OpsFacts DEF ThorOps, LegacyOps
      <3>2. AskedBy(op, arg)
        BY <1>2, <2>1 DEF OdinLegacyHandshake, AskedBy, Asks
      <3>3. Stays
        BY <1>0, <2>1 DEF Stays
      <3> HIDE DEF op, arg
      <3>4. QED  BY <2>1, <3>1, <3>2, <3>3, HostAsksIntro
    <2> HIDE DEF HostAsks
    <2>2. QED  BY <1>2, <2>1, ReadIntro, FailsForm, FailsOut DEF HostGivesUp, OdinLegacyHandshake, TwoPackets, HostReads, HostTurns
  <1>3. CASE Handshake
    <2> DEFINE op == "HANDSHAKE"
               arg == <<>>
    <2>1. ASSUME Send(op, arg), Wait, UNCHANGED cursor
          PROVE  HostAsks
      <3>1. op \in Ops /\ arg \in Seq(Nat)  BY OpsFacts DEF ThorOps, LegacyOps
      <3>2. AskedBy(op, arg)
        BY <1>3, <2>1 DEF Handshake, AskedBy, Asks
      <3>3. Stays
        BY <1>0, <2>1 DEF Stays
      <3> HIDE DEF op, arg
      <3>4. QED  BY <2>1, <3>1, <3>2, <3>3, HostAsksIntro
    <2> HIDE DEF HostAsks
    <2>2. QED  BY <1>3, <2>1, ReadIntro, FailsOut DEF HostGivesUp, Handshake, TwoPackets, IsOk, Passes, HostReads
  <1>4. CASE RequestDeviceType
    <2> DEFINE op == "DEVICE_TYPE"
               arg == <<>>
    <2>1. ASSUME Send(op, arg), Wait, UNCHANGED cursor
          PROVE  HostAsks
      <3>1. op \in Ops /\ arg \in Seq(Nat)  BY OpsFacts DEF ThorOps, LegacyOps
      <3>2. AskedBy(op, arg)
        BY <1>4, <2>1 DEF RequestDeviceType, AskedBy, Asks
      <3>3. Stays
        BY <1>0, <2>1 DEF Stays
      <3> HIDE DEF op, arg
      <3>4. QED  BY <2>1, <3>1, <3>2, <3>3, HostAsksIntro
    <2> HIDE DEF HostAsks
    <2>2. QED  BY <1>4, <2>1, ReadIntro, FailsOut DEF HostGivesUp, RequestDeviceType, Local, TwoPackets, HostReads, HostWorks
  <1>5. CASE VerifyFirmwareCompatibility
    BY <1>5 DEF VerifyFirmwareCompatibility, Local, HostWorks
  <1>6. CASE BeginSession
    <2> DEFINE op == "BEGIN_SESSION"
               arg == <<>>
    <2>1. ASSUME Send(op, arg), Wait, UNCHANGED cursor
          PROVE  HostAsks
      <3>1. op \in Ops /\ arg \in Seq(Nat)  BY OpsFacts DEF ThorOps, LegacyOps
      <3>2. AskedBy(op, arg)
        BY <1>6, <2>1 DEF BeginSession, AskedBy, Asks
      <3>3. Stays
        BY <1>0, <2>1 DEF Stays
      <3> HIDE DEF op, arg
      <3>4. QED  BY <2>1, <3>1, <3>2, <3>3, HostAsksIntro
    <2> HIDE DEF HostAsks
    <2>2. QED  BY <1>6, <2>1, ReadIntro, FailsOut DEF HostGivesUp, BeginSession, TwoPackets, HostReads
  <1>7. CASE OdinBeginSession
    <2> DEFINE op == "BeginSession"
               arg == <<>>
    <2>1. ASSUME Send(op, arg), Wait, UNCHANGED cursor
          PROVE  HostAsks
      <3>1. op \in Ops /\ arg \in Seq(Nat)  BY OpsFacts DEF ThorOps, LegacyOps
      <3>2. AskedBy(op, arg)
        BY <1>7, <2>1 DEF OdinBeginSession, AskedBy, Asks
      <3>3. Stays
        BY <1>0, <2>1 DEF Stays
      <3> HIDE DEF op, arg
      <3>4. QED  BY <2>1, <3>1, <3>2, <3>3, HostAsksIntro
    <2> HIDE DEF HostAsks
    <2>2. QED  BY <1>7, <2>1, ReadIntro, FailsOut DEF HostGivesUp, OdinBeginSession, TwoPackets, HostReads
  <1>8. CASE OdinFilePartSize
    <2> DEFINE op == "SendFilePartSize"
               arg == <<>>
    <2>1. ASSUME Send(op, arg), Wait, UNCHANGED cursor
          PROVE  HostAsks
      <3>1. op \in Ops /\ arg \in Seq(Nat)  BY OpsFacts DEF ThorOps, LegacyOps
      <3>2. AskedBy(op, arg)
        BY <1>8, <2>1 DEF OdinFilePartSize, AskedBy, Asks
      <3>3. Stays
        BY <1>0, <2>1 DEF Stays
      <3> HIDE DEF op, arg
      <3>4. QED  BY <2>1, <3>1, <3>2, <3>3, HostAsksIntro
    <2> HIDE DEF HostAsks
    <2>2. QED  BY <1>8, <2>1, ReadIntro, FailsOut DEF HostGivesUp, OdinFilePartSize, TwoPackets, HostReads
  <1>9. CASE RequestPit
    <2> DEFINE op == "PIT_FILE"
               arg == <<>>
    <2>1. ASSUME Send(op, arg), Wait, UNCHANGED cursor
          PROVE  HostAsks
      <3>1. op \in Ops /\ arg \in Seq(Nat)  BY OpsFacts DEF ThorOps, LegacyOps
      <3>2. AskedBy(op, arg)
        BY <1>9, <2>1 DEF RequestPit, AskedBy, Asks
      <3>3. Stays
        BY <1>0, <2>1 DEF Stays
      <3> HIDE DEF op, arg
      <3>4. QED  BY <2>1, <3>1, <3>2, <3>3, HostAsksIntro
    <2> HIDE DEF HostAsks
    <2>2. QED  BY <1>9, <2>1, ReadIntro, FailsOut DEF HostGivesUp, RequestPit, TwoPackets, IsOk, HostReadsOn
  <1>10. CASE ReceivePitTable
    BY <1>10, ReadIntro, FailsOut DEF HostGivesUp, ReceivePitTable, ParsePit, TwoPackets, HostReads
  <1>11. CASE OdinDumpPit
    <2> DEFINE op == "RequestPitDump"
               arg == <<>>
    <2>1. ASSUME Send(op, arg), Wait, UNCHANGED cursor
          PROVE  HostAsks
      <3>1. op \in Ops /\ arg \in Seq(Nat)  BY OpsFacts DEF ThorOps, LegacyOps
      <3>2. AskedBy(op, arg)
        BY <1>11, <2>1 DEF OdinDumpPit, AskedBy, Asks
      <3>3. Stays
        BY <1>0, <2>1 DEF Stays
      <3> HIDE DEF op, arg
      <3>4. QED  BY <2>1, <3>1, <3>2, <3>3, HostAsksIntro
    <2> HIDE DEF HostAsks
    <2>2. QED  BY <1>11, <2>1, ReadIntro, FailsOut DEF HostGivesUp, OdinDumpPit, TwoPackets, HostReads
  <1>12. CASE OdinPitBlock
    <2> DEFINE op == "PitDumpBlock"
               arg == <<part>>
    <2>1. ASSUME Send(op, arg), Wait, UNCHANGED cursor
          PROVE  HostAsks
      <3>1. op \in Ops /\ arg \in Seq(Nat)
        BY <1>n, OpsFacts DEF ThorOps, LegacyOps
      <3>2. AskedBy(op, arg)
        BY <1>12, <2>1 DEF OdinPitBlock, AskedBy, Asks
      <3>3. Stays
        BY <1>0, <2>1 DEF Stays
      <3> HIDE DEF op, arg
      <3>4. QED  BY <2>1, <3>1, <3>2, <3>3, HostAsksIntro
    <2> HIDE DEF HostAsks
    <2>2. QED  BY <1>12, <2>1, ReadIntro, FailsOut DEF HostGivesUp, OdinPitBlock, TwoPackets, IsOk, HostReadsOn
  <1>13. CASE OdinPitData
    BY <1>13, ReadIntro, FailsOut DEF HostGivesUp, OdinPitData, TwoPackets, HostReads
  <1>14. CASE OdinEndPit
    <2> DEFINE op == "EndPitDump"
               arg == <<>>
    <2>1. ASSUME Send(op, arg), Wait, UNCHANGED cursor
          PROVE  HostAsks
      <3>1. op \in Ops /\ arg \in Seq(Nat)  BY OpsFacts DEF ThorOps, LegacyOps
      <3>2. AskedBy(op, arg)
        BY <1>14, <2>1 DEF OdinEndPit, AskedBy, Asks
      <3>3. Stays
        BY <1>0, <2>1 DEF Stays
      <3> HIDE DEF op, arg
      <3>4. QED  BY <2>1, <3>1, <3>2, <3>3, HostAsksIntro
    <2> HIDE DEF HostAsks
    <2>2. QED  BY <1>14, <2>1, ReadIntro, FailsOut DEF HostGivesUp, OdinEndPit, ParsePit, TwoPackets, HostReads
  <1>15. CASE ProcessTarFile
    BY <1>15 DEF ProcessTarFile, Local, HostWorks
  <1>16. CASE ArchivesDone
    BY <1>16 DEF ArchivesDone, Local, HostWorks
  <1>17. CASE EndOfArchive
    BY <1>17 DEF EndOfArchive, Local, HostWorks
  <1>18. CASE BadEntry
    BY <1>18 DEF BadEntry, AtEntry, Local, HostWorks
  <1>19. CASE SkipEntry
    BY <1>19 DEF SkipEntry, AtEntry, Local, HostWorks
  <1>20. CASE RejectEntry
    BY <1>20 DEF RejectEntry, AtEntry, Local, HostWorks
  <1>21. CASE CheckEntry
    BY <1>21 DEF CheckEntry, Fresh, AtEntry, Local, HostWorks
  <1>22. CASE FlashEntry
    BY <1>22 DEF FlashEntry, Fresh, AtEntry, Local, HostWorks
  <1>23. CASE SendFilePartHeader
    <2> DEFINE op == "FILE_PART_SIZE"
               arg == <<Current.announced>>
    <2>1. ASSUME Send(op, arg), Wait, UNCHANGED cursor
          PROVE  HostAsks
      <3>1. op \in Ops /\ arg \in Seq(Nat)
        <4>1. op \in Ops  BY OpsFacts DEF ThorOps, LegacyOps
        <4>2. Current.announced \in Nat /\ Current.part \in Nat /\ (pc = "odin_request_sequence_flash" => part < Current.announced)
          BY <1>23, CurrentTyped DEF SendFilePartHeader, CursorOK, PartOK, InFile, ThorFile, LegacyFile, Entries
        <4>3. QED  BY <4>1, <4>2
      <3>2. AskedBy(op, arg)
        BY <1>23, <2>1 DEF SendFilePartHeader, AskedBy, Asks
      <3>3. Stays
        BY <1>0, <2>1 DEF Stays
      <3> HIDE DEF op, arg
      <3>4. QED  BY <2>1, <3>1, <3>2, <3>3, HostAsksIntro
    <2> HIDE DEF HostAsks
    <2>2. QED  BY <1>23, <2>1, ReadIntro, FailsOut DEF HostGivesUp, SendFilePartHeader, TwoPackets, HostReads
  <1>24. CASE SendFilePartChunk
    <2> DEFINE op == "FILE_PART"
               arg == <<1, part>>
    <2>1. ASSUME Send(op, arg), Wait, UNCHANGED cursor
          PROVE  HostAsks
      <3>1. op \in Ops /\ arg \in Seq(Nat)
        BY <1>n, OpsFacts DEF ThorOps, LegacyOps
      <3>2. AskedBy(op, arg)
        BY <1>24, <2>1 DEF SendFilePartChunk, AskedBy, Asks
      <3>3. Stays
        BY <1>0, <2>1 DEF Stays
      <3> HIDE DEF op, arg
      <3>4. QED  BY <2>1, <3>1, <3>2, <3>3, HostAsksIntro
    <2> HIDE DEF HostAsks
    <2>2. QED  BY <1>24, <2>1, ReadIntro, FailsOut DEF HostGivesUp, SendFilePartChunk, TwoPackets, HostReads
  <1>25. CASE FilePartData
    <2> DEFINE op == "FILE_DATA"
               arg == <<arch, entry, part + 1>>
    <2>1. ASSUME Send(op, arg), Wait, UNCHANGED cursor
          PROVE  HostAsks
      <3>1. op \in Ops /\ arg \in Seq(Nat)
        BY <1>n, OpsFacts DEF ThorOps, LegacyOps
      <3>2. AskedBy(op, arg)
        BY <1>25, <2>1 DEF FilePartData, AskedBy, Asks
      <3>3. Stays
        BY <1>0, <2>1 DEF Stays
      <3> HIDE DEF op, arg
      <3>4. QED  BY <2>1, <3>1, <3>2, <3>3, HostAsksIntro
    <2> HIDE DEF HostAsks
    <2>2. QED  BY <1>25, <2>1, ReadIntro, FailsOut DEF HostGivesUp, FilePartData, TwoPackets, HostReads
  <1>26. CASE ChunksDone
    BY <1>26 DEF ChunksDone, Local, HostWorks
  <1>27. CASE EndFileTransfer
    <2> DEFINE op == "END_FILE_TRANSFER"
               arg == <<Current.part, 1>>
    <2>1. ASSUME Send(op, arg), Wait, UNCHANGED cursor
          PROVE  HostAsks
      <3>1. op \in Ops /\ arg \in Seq(Nat)
        <4>1. op \in Ops  BY OpsFacts DEF ThorOps, LegacyOps
        <4>2. Current.announced \in Nat /\ Current.part \in Nat /\ (pc = "odin_request_sequence_flash" => part < Current.announced)
          BY <1>27, CurrentTyped DEF EndFileTransfer, CursorOK, PartOK, InFile, ThorFile, LegacyFile, Entries
        <4>3. QED  BY <4>1, <4>2
      <3>2. AskedBy(op, arg)
        BY <1>27, <2>1 DEF EndFileTransfer, AskedBy, Asks
      <3>3. Stays
        BY <1>0, <2>1 DEF Stays
      <3> HIDE DEF op, arg
      <3>4. QED  BY <2>1, <3>1, <3>2, <3>3, HostAsksIntro
    <2> HIDE DEF HostAsks
    <2>2. QED  BY <1>27, <2>1, ReadIntro, FailsOut DEF HostGivesUp, EndFileTransfer, TwoPackets, HostReads
  <1>28. CASE OdinRequestFileFlash
    <2> DEFINE op == "RequestFileFlash"
               arg == <<>>
    <2>1. ASSUME Send(op, arg), Wait, UNCHANGED cursor
          PROVE  HostAsks
      <3>1. op \in Ops /\ arg \in Seq(Nat)  BY OpsFacts DEF ThorOps, LegacyOps
      <3>2. AskedBy(op, arg)
        BY <1>28, <2>1 DEF OdinRequestFileFlash, AskedBy, Asks
      <3>3. Stays
        BY <1>0, <2>1 DEF Stays
      <3> HIDE DEF op, arg
      <3>4. QED  BY <2>1, <3>1, <3>2, <3>3, HostAsksIntro
    <2> HIDE DEF HostAsks
    <2>2. QED  BY <1>28, <2>1, ReadIntro, FailsOut DEF HostGivesUp, OdinRequestFileFlash, TwoPackets, HostReads
  <1>29. CASE OdinRequestSequenceFlash
    <2> DEFINE op == "RequestSequenceFlash"
               arg == <<SequenceEnd - part>>
    <2>1. ASSUME Send(op, arg), Wait, UNCHANGED cursor
          PROVE  HostAsks
      <3>1. op \in Ops /\ arg \in Seq(Nat)
        <4>1. op \in Ops  BY OpsFacts DEF ThorOps, LegacyOps
        <4>2. Current.announced \in Nat /\ Current.part \in Nat /\ (pc = "odin_request_sequence_flash" => part < Current.announced)
          BY <1>29, CurrentTyped DEF OdinRequestSequenceFlash, CursorOK, PartOK, InFile, ThorFile, LegacyFile, Entries
        <4>3. SequenceEnd - part \in Nat
          BY <1>29, <4>2, <1>n, SeqPartsAssumption DEF OdinRequestSequenceFlash, SequenceEnd, MinOf
        <4>4. QED  BY <4>1, <4>3
      <3>2. AskedBy(op, arg)
        BY <1>29, <2>1 DEF OdinRequestSequenceFlash, AskedBy, Asks
      <3>3. Stays
        BY <1>0, <2>1 DEF Stays
      <3> HIDE DEF op, arg
      <3>4. QED  BY <2>1, <3>1, <3>2, <3>3, HostAsksIntro
    <2> HIDE DEF HostAsks
    <2>2. QED  BY <1>29, <2>1, ReadIntro, FailsOut DEF HostGivesUp, OdinRequestSequenceFlash, TwoPackets, HostReads
  <1>30. CASE OdinSendFilePart
    <2> DEFINE op == "SendFilePart"
               arg == <<arch, entry, part + 1>>
    <2>1. ASSUME Send(op, arg), Wait, UNCHANGED cursor
          PROVE  HostAsks
      <3>1. op \in Ops /\ arg \in Seq(Nat)
        BY <1>n, OpsFacts DEF ThorOps, LegacyOps
      <3>2. AskedBy(op, arg)
        BY <1>30, <2>1 DEF OdinSendFilePart, AskedBy, Asks
      <3>3. Stays
        BY <1>0, <2>1 DEF Stays
      <3> HIDE DEF op, arg
      <3>4. QED  BY <2>1, <3>1, <3>2, <3>3, HostAsksIntro
    <2> HIDE DEF HostAsks
    <2>2. QED  BY <1>30, <2>1, ReadIntro, FailsOut DEF HostGivesUp, OdinSendFilePart, TwoPackets, HostReads
  <1>31. CASE OdinReadFails
    BY <1>31 DEF OdinReadFails, Local, HostWorks
  <1>32. CASE OdinEndSequenceFlash
    <2> DEFINE op == "EndSequenceFlash"
               arg == <<Current.part, IF IsLast THEN 1 ELSE 0>>
    <2>1. ASSUME Send(op, arg), Wait, UNCHANGED cursor
          PROVE  HostAsks
      <3>1. op \in Ops /\ arg \in Seq(Nat)
        <4>1. op \in Ops  BY OpsFacts DEF ThorOps, LegacyOps
        <4>2. Current.announced \in Nat /\ Current.part \in Nat /\ (pc = "odin_request_sequence_flash" => part < Current.announced)
          BY <1>32, CurrentTyped DEF OdinEndSequenceFlash, CursorOK, PartOK, InFile, ThorFile, LegacyFile, Entries
        <4>3. QED  BY <4>1, <4>2
      <3>2. AskedBy(op, arg)
        BY <1>32, <2>1 DEF OdinEndSequenceFlash, AskedBy, Asks
      <3>3. Stays
        BY <1>0, <2>1 DEF Stays
      <3> HIDE DEF op, arg
      <3>4. QED  BY <2>1, <3>1, <3>2, <3>3, HostAsksIntro
    <2> HIDE DEF HostAsks
    <2>2. QED  BY <1>32, <2>1, ReadIntro, FailsOut DEF HostGivesUp, OdinEndSequenceFlash, TwoPackets, HostReads
  <1>33. CASE OdinResetFlashCount
    <2> DEFINE op == "ResetFlashCount"
               arg == <<>>
    <2>1. ASSUME Send(op, arg), Wait, UNCHANGED cursor
          PROVE  HostAsks
      <3>1. op \in Ops /\ arg \in Seq(Nat)  BY OpsFacts DEF ThorOps, LegacyOps
      <3>2. AskedBy(op, arg)
        BY <1>33, <2>1 DEF OdinResetFlashCount, AskedBy, Asks
      <3>3. Stays
        BY <1>0, <2>1 DEF Stays
      <3> HIDE DEF op, arg
      <3>4. QED  BY <2>1, <3>1, <3>2, <3>3, HostAsksIntro
    <2> HIDE DEF HostAsks
    <2>2. QED  BY <1>33, <2>1, ReadIntro, FailsOut DEF HostGivesUp, OdinResetFlashCount, TwoPackets, HostReads
  <1>34. CASE SendReboot
    <2> DEFINE op == IF mode = "Thor" THEN "CONTROL_REBOOT" ELSE "Reboot"
               arg == <<>>
    <2>1. ASSUME Send(op, arg), Wait, UNCHANGED cursor
          PROVE  HostAsks
      <3>1. op \in Ops /\ arg \in Seq(Nat)  BY OpsFacts DEF ThorOps, LegacyOps
      <3>2. AskedBy(op, arg)
        BY <1>34, <2>1 DEF SendReboot, AskedBy, Asks
      <3>3. Stays
        BY <1>0, <2>1 DEF Stays
      <3> HIDE DEF op, arg
      <3>4. QED  BY <2>1, <3>1, <3>2, <3>3, HostAsksIntro
    <2> HIDE DEF HostAsks
    <2>2. QED  BY <1>34, <2>1, ReadIntro, FailsOut DEF HostGivesUp, SendReboot, Local, TwoPackets, HostReads, HostWorks
  <1>35. CASE SendRedownload
    <2> DEFINE op == "CONTROL_REDOWNLOAD"
               arg == <<>>
    <2>1. ASSUME Send(op, arg), Wait, UNCHANGED cursor
          PROVE  HostAsks
      <3>1. op \in Ops /\ arg \in Seq(Nat)  BY OpsFacts DEF ThorOps, LegacyOps
      <3>2. AskedBy(op, arg)
        BY <1>35, <2>1 DEF SendRedownload, AskedBy, Asks
      <3>3. Stays
        BY <1>0, <2>1 DEF Stays
      <3> HIDE DEF op, arg
      <3>4. QED  BY <2>1, <3>1, <3>2, <3>3, HostAsksIntro
    <2> HIDE DEF HostAsks
    <2>2. QED  BY <1>35, <2>1, ReadIntro, FailsOut DEF HostGivesUp, SendRedownload, Local, TwoPackets, HostReads, HostWorks
  <1>36. CASE EndSession
    <2> DEFINE op == IF mode = "Thor" THEN "END_SESSION" ELSE "EndSession"
               arg == <<>>
    <2>1. ASSUME Send(op, arg), Wait, UNCHANGED cursor
          PROVE  HostAsks
      <3>1. op \in Ops /\ arg \in Seq(Nat)  BY OpsFacts DEF ThorOps, LegacyOps
      <3>2. AskedBy(op, arg)
        BY <1>36, <2>1 DEF EndSession, AskedBy, Asks
      <3>3. Stays
        BY <1>0, <2>1 DEF Stays
      <3> HIDE DEF op, arg
      <3>4. QED  BY <2>1, <3>1, <3>2, <3>3, HostAsksIntro
    <2> HIDE DEF HostAsks
    <2>2. QED  BY <1>36, <2>1, ReadIntro, FailsOut DEF HostGivesUp, EndSession, TwoPackets, HostReads
  <1>q. QED
    BY <1>1, <1>2, <1>3, <1>4, <1>5, <1>6, <1>7, <1>8, <1>9, <1>10, <1>11, <1>12, <1>13, <1>14, <1>15, <1>16, <1>17, <1>18, <1>19, <1>20, <1>21, <1>22, <1>23, <1>24, <1>25, <1>26, <1>27, <1>28, <1>29, <1>30, <1>31, <1>32, <1>33, <1>34, <1>35, <1>36 DEF HostNext

\* A failed exchange sends the host to end_session or out.
LEMMA TroubleEndsKept ==
    ASSUME TroubleEnds, HostNext
    PROVE  TroubleEnds' /\ (trouble => trouble')
  <1> USE DEF TroubleEnds, Goto, Wait, Stop, Abort, AbortExchange
  <1>1. CASE OpenDevice
    BY <1>1 DEF OpenDevice
  <1>2. CASE OdinLegacyHandshake
    BY <1>2 DEF OdinLegacyHandshake
  <1>3. CASE Handshake
    BY <1>3 DEF Handshake
  <1>4. CASE RequestDeviceType
    BY <1>4 DEF RequestDeviceType
  <1>5. CASE VerifyFirmwareCompatibility
    BY <1>5 DEF VerifyFirmwareCompatibility
  <1>6. CASE BeginSession
    BY <1>6 DEF BeginSession
  <1>7. CASE OdinBeginSession
    BY <1>7 DEF OdinBeginSession
  <1>8. CASE OdinFilePartSize
    BY <1>8 DEF OdinFilePartSize
  <1>9. CASE RequestPit
    BY <1>9 DEF RequestPit
  <1>10. CASE ReceivePitTable
    BY <1>10 DEF ReceivePitTable, ParsePit
  <1>11. CASE OdinDumpPit
    BY <1>11 DEF OdinDumpPit
  <1>12. CASE OdinPitBlock
    BY <1>12 DEF OdinPitBlock
  <1>13. CASE OdinPitData
    BY <1>13 DEF OdinPitData
  <1>14. CASE OdinEndPit
    BY <1>14 DEF OdinEndPit, ParsePit
  <1>15. CASE ProcessTarFile
    BY <1>15 DEF ProcessTarFile
  <1>16. CASE ArchivesDone
    BY <1>16 DEF ArchivesDone
  <1>17. CASE EndOfArchive
    BY <1>17 DEF EndOfArchive
  <1>18. CASE BadEntry
    BY <1>18 DEF BadEntry, AtEntry
  <1>19. CASE SkipEntry
    BY <1>19 DEF SkipEntry, AtEntry
  <1>20. CASE RejectEntry
    BY <1>20 DEF RejectEntry, AtEntry
  <1>21. CASE CheckEntry
    BY <1>21 DEF CheckEntry, Fresh, AtEntry
  <1>22. CASE FlashEntry
    BY <1>22 DEF FlashEntry, Fresh, AtEntry
  <1>23. CASE SendFilePartHeader
    BY <1>23 DEF SendFilePartHeader
  <1>24. CASE SendFilePartChunk
    BY <1>24 DEF SendFilePartChunk
  <1>25. CASE FilePartData
    BY <1>25 DEF FilePartData
  <1>26. CASE ChunksDone
    BY <1>26 DEF ChunksDone
  <1>27. CASE EndFileTransfer
    BY <1>27 DEF EndFileTransfer
  <1>28. CASE OdinRequestFileFlash
    BY <1>28 DEF OdinRequestFileFlash
  <1>29. CASE OdinRequestSequenceFlash
    BY <1>29 DEF OdinRequestSequenceFlash
  <1>30. CASE OdinSendFilePart
    BY <1>30 DEF OdinSendFilePart
  <1>31. CASE OdinReadFails
    BY <1>31 DEF OdinReadFails
  <1>32. CASE OdinEndSequenceFlash
    BY <1>32 DEF OdinEndSequenceFlash
  <1>33. CASE OdinResetFlashCount
    BY <1>33 DEF OdinResetFlashCount
  <1>34. CASE SendReboot
    BY <1>34 DEF SendReboot
  <1>35. CASE SendRedownload
    BY <1>35 DEF SendRedownload
  <1>36. CASE EndSession
    BY <1>36 DEF EndSession
  <1>q. QED
    BY <1>1, <1>2, <1>3, <1>4, <1>5, <1>6, <1>7, <1>8, <1>9, <1>10, <1>11, <1>12, <1>13, <1>14, <1>15, <1>16, <1>17, <1>18, <1>19, <1>20, <1>21, <1>22, <1>23, <1>24, <1>25, <1>26, <1>27, <1>28, <1>29, <1>30, <1>31, <1>32, <1>33, <1>34, <1>35, <1>36 DEF HostNext

-----------------------------------------------------------------------------
(* Request and reply stay in step.                                         *)

\* While the host waits at a place other than handshake, what it reads is the
\* whole answer to its request.
LEMMA ReadsAnswer ==
    ASSUME ChannelTypeOK(Ops), InStep, phase = "recv", inq # <<>>
    PROVE  /\ outq = <<>>
           /\ Head(inq).to = sent
           /\ pc \notin TwoPackets => Tail(inq) = <<>>
           /\ pc \in TwoPackets /\ Head(inq).code = "ok" =>
                 Len(Tail(inq)) <= 1 /\ \A i \in 1..Len(Tail(inq)) : Tail(inq)[i].to = sent
  <1>1. Answered
    BY DEF InStep, Asked
  <1>2. inq \in Seq(Reply) /\ Len(inq) \in Nat \ {0} /\ Head(inq) = inq[1]
    BY DEF ChannelTypeOK
  <1>3. outq = <<>> /\ inq[1].to = sent
    BY <1>1, <1>2 DEF Answered
  <1>4. ASSUME pc \notin TwoPackets
        PROVE  Tail(inq) = <<>>
    BY <1>1, <1>2, <1>4 DEF Answered
  <1>5. ASSUME pc \in TwoPackets
        PROVE  Len(Tail(inq)) <= 1 /\ \A i \in 1..Len(Tail(inq)) : Tail(inq)[i].to = sent
    <2>1. Len(inq) <= 2 /\ \A i \in 1..Len(inq) : inq[i].to = sent
      BY <1>1, <1>5 DEF Answered
    <2>2. Len(Tail(inq)) = Len(inq) - 1
      BY <1>2
    <2>3. \A i \in 1..Len(Tail(inq)) : i + 1 \in 1..Len(inq) /\ Tail(inq)[i] = inq[i + 1]
      BY <1>2, <2>2
    <2>4. QED
      BY <1>2, <2>1, <2>2, <2>3
  <1>6. QED
    BY <1>2, <1>3, <1>4, <1>5

LEMMA OneTail ==
    ASSUME NEW S, NEW q \in Seq(S), Len(q) = 1
    PROVE  Tail(q) = <<>>
  <1>1. q # <<>> /\ Tail(q) \in Seq(S) /\ Len(Tail(q)) = 0
    OBVIOUS
  <1>2. QED
    BY <1>1, EmptySeq

LEMMA LockstepHost ==
    ASSUME ChannelTypeOK(Ops), HostTypeOK, CursorOK, PartOK, TroubleEnds, Lockstep, HostNext
    PROVE  Lockstep'
  <1> SUFFICES ASSUME ~trouble'
               PROVE  (IF pc = "handshake" THEN Greeting ELSE InStep)'
    BY DEF Lockstep
  <1>0. ~trouble
    BY TroubleEndsKept
  <1>1. IF pc = "handshake" THEN Greeting ELSE InStep
    BY <1>0 DEF Lockstep
  <1>2. inq \in Seq(Reply) /\ outq \in Seq(Request(Ops)) /\ sent \in Nat
    BY DEF ChannelTypeOK
  <1>3. CASE HostAsks
    <2> PICK op \in Ops, arg \in Seq(Nat) : Send(op, arg) /\ AskedBy(op, arg) /\ Stays
      BY <1>3 DEF HostAsks
    <2> DEFINE q == [n |-> sent + 1, op |-> op, arg |-> arg]
    <2>1. /\ phase = "send" /\ phase' = "recv" /\ sent' = sent + 1
          /\ outq' = Append(outq, q) /\ inq' = inq
      BY DEF Send
    <2>2. q.n = sent' /\ q.op = op /\ q.arg = arg
      BY <2>1
    <2>q. q \in Request(Ops)
      BY <1>2 DEF Request
    <2> HIDE DEF q
    <2>3. CASE pc = "handshake"
      <3>1. Greeting
        BY <1>1, <2>3
      <3>2. op = "HANDSHAKE" /\ pc' = "handshake"
        BY <2>3 DEF AskedBy, Asks, Stays
      <3>3. ASSUME NEW i \in 1..Len(outq')
            PROVE  outq'[i].op = "ODIN" \/ (outq'[i].op = "HANDSHAKE" /\ phase' = "recv"
                                  /\ outq'[i].n = sent' /\ i = Len(outq'))
        <4>1. CASE i = Len(outq) + 1
          <5>1. outq'[i] = q /\ i = Len(outq')  BY <1>2, <2>1, <2>q, <4>1
          <5>2. QED  BY <2>1, <2>2, <3>2, <5>1
        <4>2. CASE i # Len(outq) + 1
          <5>1. i \in 1..Len(outq) /\ outq'[i] = outq[i]  BY <1>2, <2>1, <2>q, <3>3, <4>2
          <5>2. outq[i].op = "ODIN"  BY <2>1, <3>1, <5>1 DEF Greeting
          <5>3. QED  BY <5>1, <5>2
        <4>3. QED  BY <4>1, <4>2
      <3>4. \A i \in 1..Len(inq') : ~Passes(inq'[i])
        BY <2>1, <3>1 DEF Greeting
      <3>5. Len(outq') \in 1..Len(outq') /\ outq'[Len(outq')] = q
        BY <1>2, <2>1, <2>q
      <3>6. outq'[Len(outq')].op = "HANDSHAKE"
        BY <2>2, <3>2, <3>5
      <3>7. Greeting'
        BY <3>3, <3>4, <3>6 DEF Greeting, Passes
      <3>8. QED  BY <3>2, <3>7
    <2>4. CASE pc # "handshake"
      <3>1. outq = <<>> /\ inq = <<>>
        BY <1>1, <2>1, <2>4 DEF InStep
      <3>2. Len(outq') = 1 /\ outq'[1] = q /\ inq' = <<>>
        BY <2>1, <2>q, <3>1
      <3>3. Asked'
        BY <2>2, <3>2 DEF Asked, AskedBy, Stays, IsLast, Current
      <3>4. QED  BY <2>1, <2>4, <3>3 DEF InStep, Stays
    <2>5. QED  BY <2>3, <2>4
  <1>4. CASE HostReads
    <2>1. phase' = "send" /\ inq' = Tail(inq) /\ outq' = outq /\ phase = "recv" /\ inq # <<>>
      BY <1>4 DEF HostReads, Read
    <2>2. outq = <<>> /\ Tail(inq) = <<>>
      <3>1. CASE pc = "handshake"
        <4>1. Greeting /\ Passes(Head(inq))
          BY <1>1, <1>4, <3>1 DEF HostReads
        <4>2. Head(inq) = inq[1] /\ 1 \in 1..Len(inq)
          BY <1>2, <2>1
        <4>3. outq = <<>> /\ 1 = Len(inq)
          BY <4>1, <4>2 DEF Greeting
        <4>4. QED  BY <1>2, <4>3, OneTail
      <3>2. CASE pc # "handshake"
        BY <1>1, <1>4, <2>1, <3>2, ReadsAnswer DEF HostReads
      <3>3. QED  BY <3>1, <3>2
    <2>3. QED  BY <1>4, <2>1, <2>2 DEF HostReads, InStep
  <1>5. CASE HostReadsOn
    <2>1. /\ phase' = "recv" /\ inq' = Tail(inq) /\ outq' = outq /\ phase = "recv"
          /\ inq # <<>> /\ sent' = sent
      BY <1>5 DEF HostReadsOn, Read
    <2>2. pc # "handshake" /\ pc' # "handshake" /\ pc' \notin TwoPackets
      BY <1>5 DEF HostReadsOn, TwoPackets
    <2>3. /\ outq = <<>> /\ Len(Tail(inq)) <= 1
          /\ \A i \in 1..Len(Tail(inq)) : Tail(inq)[i].to = sent
      BY <1>1, <1>5, <2>1, <2>2, ReadsAnswer DEF HostReadsOn
    <2>4. Answered'
      BY <2>1, <2>2, <2>3 DEF Answered
    <2>5. QED  BY <2>1, <2>2, <2>4 DEF InStep
  <1>6. CASE HostTurns
    <2>1. pc = "odin_legacy_handshake" /\ pc' = "handshake" /\ phase' = "send" /\ outq' = outq
      BY <1>6 DEF HostTurns, Read
    <2>2. InStep /\ pc \notin TwoPackets
      BY <1>1, <2>1 DEF TwoPackets
    <2>3. inq' = <<>>
      <3>1. CASE Read("send")
        BY <2>2, <3>1, ReadsAnswer DEF Read
      <3>2. CASE UNCHANGED <<sent, outq, inq>> /\ (phase = "send" \/ inq = <<>>)
        BY <2>2, <3>2 DEF InStep
      <3>3. QED  BY <1>6, <3>1, <3>2 DEF HostTurns
    <2>4. \A i \in 1..Len(outq) : outq[i].op = "ODIN"
      <3>1. outq = <<>> \/ Asked
        BY <2>2 DEF InStep, Answered
      <3>2. CASE outq = <<>>
        BY <3>2
      <3>3. CASE Asked
        <4>1. Len(outq) = 1 /\ <<pc, outq[1].op>> \in Asks
          BY <3>3 DEF Asked
        <4>2. outq[1].op = "ODIN"
          BY <2>1, <4>1 DEF Asks
        <4>3. \A i \in 1..Len(outq) : i = 1
          BY <4>1
        <4>4. QED  BY <4>2, <4>3
      <3>4. QED  BY <3>1, <3>2, <3>3
    <2>5. Greeting'
      BY <2>1, <2>3, <2>4 DEF Greeting
    <2>6. QED  BY <2>1, <2>5
  <1>7. CASE HostWorks
    BY <1>1, <1>7 DEF HostWorks, InStep, chan
  <1>8. QED
    BY <1>3, <1>4, <1>5, <1>6, <1>7, HostShape DEF HostGivesUp
-----------------------------------------------------------------------------
(* What the device puts on the pipe when it handles a request.             *)

PitOps == {"PIT_FILE", "PitDumpBlock"}

Fits(replies) ==
    /\ Len(replies) <= 2
    /\ \A i \in 1..Len(replies) : replies[i].to = Head(outq).n
    /\ Head(outq).op \notin PitOps => Len(replies) <= 1
    /\ Head(outq).op \in PitOps /\ Len(replies) = 1 => replies[1].code # "ok"
    /\ Head(outq).op = "ODIN" => \A i \in 1..Len(replies) : ~Passes(replies[i])

LEMMA OneFits ==
    ASSUME ChannelTypeOK(Ops), outq # <<>>,
           NEW kind \in Kinds, NEW code \in Codes, NEW val \in Nat,
           Head(outq).op \in PitOps => code # "ok",
           Head(outq).op = "ODIN" => kind # "RESPONSE" \/ code # "ok"
    PROVE  /\ <<Answer(kind, code, val)>> \in Seq(Reply)
           /\ Fits(<<Answer(kind, code, val)>>)
  <1> DEFINE r == Answer(kind, code, val)
  <1>1. r \in Reply /\ r.to = Head(outq).n /\ r.kind = kind /\ r.code = code
    BY AnswerTyped DEF Answer
  <1> HIDE DEF r
  <1>2. <<r>> \in Seq(Reply) /\ Len(<<r>>) = 1 /\ <<r>>[1] = r
    BY <1>1
  <1>3. \A i \in 1..Len(<<r>>) : <<r>>[i] = r
    BY <1>2
  <1>4. Fits(<<r>>)
    BY <1>1, <1>2, <1>3 DEF Fits, Passes
  <1>5. QED
    BY <1>2, <1>4 DEF r

LEMMA AckFits ==
    ASSUME ChannelTypeOK(Ops), NEW val \in Nat, NEW ops,
           Pending(ops), ops \cap (PitOps \cup {"ODIN"}) = {}
    PROVE  Ack(val) \in Seq(Reply) /\ Fits(Ack(val))
  <1>1. outq # <<>> /\ Head(outq).op \notin PitOps /\ Head(outq).op # "ODIN"
    BY DEF Pending
  <1>2. CASE profile.proto = "Thor"
    BY <1>1, <1>2, OneFits DEF Ack, Kinds, Codes
  <1>3. CASE profile.proto # "Thor"
    BY <1>1, <1>3, OneFits DEF Ack, Kinds, Codes
  <1>4. QED
    BY <1>2, <1>3

LEMMA PitFits ==
    ASSUME ChannelTypeOK(Ops), outq # <<>>, Head(outq).op \in PitOps,
           NEW k1 \in Kinds, NEW k2 \in Kinds, NEW code \in Codes
    PROVE  /\ <<Answer(k1, code, 0), Answer(k2, "ok", 0)>> \in Seq(Reply)
           /\ Fits(<<Answer(k1, code, 0), Answer(k2, "ok", 0)>>)
  <1> DEFINE r == Answer(k1, code, 0)
             s == Answer(k2, "ok", 0)
  <1>1. r \in Reply /\ r.to = Head(outq).n /\ s \in Reply /\ s.to = Head(outq).n
    BY AnswerTyped DEF Answer, Codes
  <1> HIDE DEF r, s
  <1>2. /\ <<r, s>> \in Seq(Reply) /\ Len(<<r, s>>) = 2
        /\ <<r, s>>[1] = r /\ <<r, s>>[2] = s
    BY <1>1
  <1>3. \A i \in 1..Len(<<r, s>>) : <<r, s>>[i].to = Head(outq).n
    BY <1>1, <1>2
  <1>4. Head(outq).op # "ODIN"
    BY DEF PitOps
  <1>5. Fits(<<r, s>>)
    BY <1>2, <1>3, <1>4 DEF Fits
  <1>6. QED
    BY <1>2, <1>5 DEF r, s

Answers == outq # <<>> /\ \E replies \in Seq(Reply) : Serve(replies) /\ Fits(replies)

LEMMA AnswersIntro ==
    ASSUME outq # <<>>, NEW replies \in Seq(Reply), Serve(replies), Fits(replies)
    PROVE  Answers
  BY DEF Answers

LEMMA DeviceShape ==
    ASSUME ~ProgressReplies, ChannelTypeOK(Ops), DeviceTypeOK, DeviceNext
    PROVE  Answers
  <1>p. profile.type \in Nat /\ profile.version \in Nat
    <2>1. profile.type \in DeviceTypes \cup {NoType} /\ profile.version \in {1, 2}
      BY DEF DeviceTypeOK, Profiles
    <2>2. \A t \in DeviceTypes : t \in Nat
      BY DeviceTypesAssumption
    <2>3. profile.type \in DeviceTypes \/ profile.type = 0
      BY <2>1 DEF NoType
    <2>4. QED  BY <2>1, <2>2, <2>3
  <1>1. CASE DeviceInform
    <2>1. CASE Pending({"HANDSHAKE", "SendFilePartSize", "RequestPitDump",
                        "EndPitDump", "ResetFlashCount"}) /\ Serve(Ack(0))
      <3>1. {"HANDSHAKE", "SendFilePartSize", "RequestPitDump",
             "EndPitDump", "ResetFlashCount"} \cap (PitOps \cup {"ODIN"}) = {}
        BY DEF PitOps
      <3>2. outq # <<>>  BY <2>1 DEF Pending
      <3>3. QED  BY <2>1, <3>1, <3>2, AckFits, AnswersIntro
    <2>2. CASE Pending({"ODIN"}) /\ Serve(<<Answer("LOKE", "ok", 0)>>)
      <3>1. outq # <<>> /\ Head(outq).op = "ODIN"  BY <2>2 DEF Pending
      <3>2. QED  BY <2>2, <3>1, OneFits, AnswersIntro DEF Kinds, Codes, PitOps
    <2>3. CASE Pending({"DEVICE_TYPE"})
               /\ Serve(<<Answer("DEVICE_TYPE", "ok", profile.type)>>)
      <3>1. outq # <<>> /\ Head(outq).op = "DEVICE_TYPE"  BY <2>3 DEF Pending
      <3>2. QED  BY <1>p, <2>3, <3>1, OneFits, AnswersIntro DEF Kinds, Codes, PitOps
    <2>4. ASSUME NEW size \in {"ok", "fail"}, Pending({"PIT_FILE"}),
                 Serve(<<Answer("PIT_SIZE", size, 0), Answer("PIT_DATA", "ok", 0)>>)
          PROVE  Answers
      <3>1. outq # <<>> /\ Head(outq).op \in PitOps  BY <2>4 DEF Pending, PitOps
      <3>2. QED  BY <2>4, <3>1, PitFits, AnswersIntro DEF Kinds, Codes
    <2>5. CASE Pending({"PitDumpBlock"})
               /\ Serve(<<Answer("RSP8", "ok", 0), Answer("PIT_DATA", "ok", 0)>>)
      <3>1. outq # <<>> /\ Head(outq).op \in PitOps  BY <2>5 DEF Pending, PitOps
      <3>2. QED  BY <2>5, <3>1, PitFits, AnswersIntro DEF Kinds, Codes
    <2>6. QED  BY <1>1, <2>1, <2>2, <2>3, <2>4, <2>5 DEF DeviceInform
  <1>2. CASE DeviceBegin
    <2>1. {"BEGIN_SESSION", "BeginSession"} \cap (PitOps \cup {"ODIN"}) = {}
      BY DEF PitOps
    <2>2. outq # <<>>  BY <1>2 DEF DeviceBegin, Pending
    <2>3. QED  BY <1>2, <1>p, <2>1, <2>2, AckFits, AnswersIntro DEF DeviceBegin
  <1>3. CASE DeviceEnd
    <2>1. {"END_SESSION", "EndSession", "CONTROL_REBOOT", "CONTROL_REDOWNLOAD",
           "Reboot"} \cap (PitOps \cup {"ODIN"}) = {}
      BY DEF PitOps
    <2>2. outq # <<>>  BY <1>3 DEF DeviceEnd, Pending
    <2>3. QED  BY <1>3, <2>1, <2>2, AckFits, AnswersIntro DEF DeviceEnd
  <1>4. CASE DeviceStartFile
    <2>1. {"FILE_PART_SIZE", "RequestFileFlash"} \cap (PitOps \cup {"ODIN"}) = {}
      BY DEF PitOps
    <2>2. outq # <<>>  BY <1>4 DEF DeviceStartFile, Pending
    <2>3. QED  BY <1>4, <2>1, <2>2, AckFits, AnswersIntro DEF DeviceStartFile
  <1>5. CASE DeviceStartPart
    <2>1. {"FILE_PART", "RequestSequenceFlash"} \cap (PitOps \cup {"ODIN"}) = {}
      BY DEF PitOps
    <2>2. outq # <<>>  BY <1>5 DEF DeviceStartPart, Pending
    <2>3. QED  BY <1>5, <2>1, <2>2, AckFits, AnswersIntro DEF DeviceStartPart
  <1>6. CASE DeviceTakeData
    <2>1. {"FILE_DATA", "SendFilePart"} \cap (PitOps \cup {"ODIN"}) = {}
      BY DEF PitOps
    <2>2. outq # <<>>  BY <1>6 DEF DeviceTakeData, Pending
    <2>3. Len(xfer) \in Nat  BY DEF DeviceTypeOK
    <2>4. QED  BY <1>6, <2>1, <2>2, <2>3, AckFits, AnswersIntro DEF DeviceTakeData
  <1>7. CASE DeviceFinalise
    <2>1. {"END_FILE_TRANSFER", "EndSequenceFlash"} \cap (PitOps \cup {"ODIN"}) = {}
      BY DEF PitOps
    <2>2. outq # <<>>  BY <1>7 DEF DeviceFinalise, Pending
    <2>3. QED  BY <1>7, <2>1, <2>2, AckFits, AnswersIntro DEF DeviceFinalise
  <1>8. CASE DeviceRefuse
    <2>1. outq # <<>>  BY <1>8 DEF DeviceRefuse
    <2>2. CASE profile.proto = "Thor"
      BY <1>8, <2>1, <2>2, OneFits, AnswersIntro DEF DeviceRefuse, Kinds, Codes
    <2>3. CASE profile.proto # "Thor"
      BY <1>8, <2>1, <2>3, OneFits, AnswersIntro DEF DeviceRefuse, Kinds, Codes
    <2>4. QED  BY <2>2, <2>3
  <1>9. CASE DeviceIgnore
    <2>1. outq # <<>> /\ Serve(<<>>)  BY <1>9 DEF DeviceIgnore
    <2>2. <<>> \in Seq(Reply) /\ Len(<<>>) = 0  OBVIOUS
    <2>3. Fits(<<>>)  BY <2>2 DEF Fits
    <2>4. QED  BY <2>1, <2>2, <2>3, AnswersIntro
  <1>10. CASE DeviceProgress
    BY <1>10 DEF DeviceProgress
  <1>11. QED
    BY <1>1, <1>2, <1>3, <1>4, <1>5, <1>6, <1>7, <1>8, <1>9, <1>10 DEF DeviceNext

\* The pipes after the device has handled the oldest request.
LEMMA ServeFacts ==
    ASSUME ChannelTypeOK(Ops), outq # <<>>, NEW replies \in Seq(Reply), Serve(replies)
    PROVE  /\ phase' = phase /\ sent' = sent
           /\ Len(outq') = Len(outq) - 1
           /\ \A i \in 1..Len(outq') : i + 1 \in 1..Len(outq) /\ outq'[i] = outq[i + 1]
           /\ Len(inq') = Len(inq) + Len(replies)
           /\ \A i \in 1..Len(inq') :
                 inq'[i] = IF i <= Len(inq) THEN inq[i] ELSE replies[i - Len(inq)]
           /\ Head(outq) = outq[1] /\ Len(outq) \in Nat \ {0}
  <1>1. outq \in Seq(Request(Ops)) /\ inq \in Seq(Reply)
    BY DEF ChannelTypeOK
  <1>2. outq' = Tail(outq) /\ inq' = inq \o replies /\ phase' = phase /\ sent' = sent
    BY DEF Serve
  <1>3. QED
    BY <1>1, <1>2

LEMMA LockstepDevice ==
    ASSUME ~ProgressReplies, ChannelTypeOK(Ops), DeviceTypeOK, Lockstep,
           DeviceNext, UNCHANGED host
    PROVE  Lockstep'
  <1>h. /\ pc' = pc /\ trouble' = trouble /\ arch' = arch /\ entry' = entry
        /\ part' = part /\ cfg' = cfg
    BY DEF host, cursor
  <1> SUFFICES ASSUME ~trouble
               PROVE  (IF pc = "handshake" THEN Greeting ELSE InStep)'
    BY <1>h DEF Lockstep
  <1>0. IF pc = "handshake" THEN Greeting ELSE InStep
    BY DEF Lockstep
  <1>1. PICK replies \in Seq(Reply) : Serve(replies) /\ Fits(replies)
    BY DeviceShape DEF Answers
  <1>2. outq # <<>>
    BY DeviceShape DEF Answers
  <1>3. /\ phase' = phase /\ sent' = sent
        /\ Len(outq') = Len(outq) - 1
        /\ \A i \in 1..Len(outq') : i + 1 \in 1..Len(outq) /\ outq'[i] = outq[i + 1]
        /\ Len(inq') = Len(inq) + Len(replies)
        /\ \A i \in 1..Len(inq') :
              inq'[i] = IF i <= Len(inq) THEN inq[i] ELSE replies[i - Len(inq)]
        /\ Head(outq) = outq[1] /\ Len(outq) \in Nat \ {0}
    BY <1>1, <1>2, ServeFacts
  <1>4. Len(inq) \in Nat /\ Len(replies) \in Nat /\ outq' = Tail(outq)
        /\ outq \in Seq(Request(Ops))
    BY <1>1 DEF ChannelTypeOK, Serve
  <1>5. CASE pc = "handshake"
    <2>1. Greeting
      BY <1>0, <1>5
    <2>2. ASSUME NEW i \in 1..Len(outq')
          PROVE  outq'[i].op = "ODIN" \/ (outq'[i].op = "HANDSHAKE" /\ phase' = "recv"
                                /\ outq'[i].n = sent' /\ i = Len(outq'))
      BY <1>3, <2>1 DEF Greeting
    <2>3. \A i \in 1..Len(inq) : ~Passes(inq[i])
      BY <1>2, <2>1 DEF Greeting
    <2>4. outq[1].op = "ODIN" \/ (outq[1].op = "HANDSHAKE" /\ phase = "recv"
                                 /\ outq[1].n = sent /\ 1 = Len(outq))
      <3>1. 1 \in 1..Len(outq)  BY <1>3
      <3>2. QED  BY <2>1, <3>1 DEF Greeting
    <2>5. outq' # <<>> => Len(outq') >= 1
      BY <1>3, <1>4, EmptySeq
    <2>6. CASE outq[1].op = "ODIN"
      <3>1. \A i \in 1..Len(replies) : ~Passes(replies[i])
        BY <1>1, <1>3, <2>6 DEF Fits
      <3>2. \A i \in 1..Len(inq') : ~Passes(inq'[i])
        <4>1. ASSUME NEW i \in 1..Len(inq')
              PROVE  ~Passes(inq'[i])
          <5>1. CASE i <= Len(inq)
            BY <1>3, <1>4, <2>3, <5>1
          <5>2. CASE ~(i <= Len(inq))
            <6>1. i - Len(inq) \in 1..Len(replies) /\ inq'[i] = replies[i - Len(inq)]
              BY <1>3, <1>4, <5>2
            <6>2. QED  BY <3>1, <6>1
          <5>3. QED  BY <5>1, <5>2
        <4>2. QED  BY <4>1
      <3>3. phase' = "recv" /\ outq' # <<>> => outq'[Len(outq')].op = "HANDSHAKE"
        <4>1. SUFFICES ASSUME phase = "recv", outq' # <<>>
                       PROVE  outq'[Len(outq')].op = "HANDSHAKE"
          BY <1>3
        <4>2. Len(outq') \in 1..Len(outq') /\ Len(outq') + 1 = Len(outq)
          BY <1>3, <2>5, <4>1
        <4>3. outq'[Len(outq')] = outq[Len(outq)]
          BY <1>3, <4>2
        <4>4. QED  BY <1>2, <2>1, <4>1, <4>3 DEF Greeting
      <3>4. QED  BY <1>h, <1>5, <2>2, <3>2, <3>3 DEF Greeting, Passes
    <2>7. CASE outq[1].op = "HANDSHAKE" /\ phase = "recv" /\ outq[1].n = sent /\ 1 = Len(outq)
      <3>1. outq' = <<>> /\ Len(outq') = 0
        BY <1>3, <1>4, <2>7, OneTail
      <3>2. Len(replies) <= 1 /\ \A i \in 1..Len(replies) : replies[i].to = sent
        BY <1>1, <1>3, <2>7 DEF Fits, PitOps
      <3>3. ASSUME NEW i \in 1..Len(inq'), Passes(inq'[i])
            PROVE  i = Len(inq') /\ inq'[i].to = sent'
        <4>1. ~(i <= Len(inq))
          BY <1>3, <1>4, <2>3, <3>3
        <4>2. i - Len(inq) \in 1..Len(replies) /\ inq'[i] = replies[i - Len(inq)]
          BY <1>3, <1>4, <4>1
        <4>3. i = Len(inq')
          BY <1>3, <1>4, <3>2, <3>3, <4>1
        <4>4. inq'[i].to = sent'
          BY <1>3, <3>2, <4>2
        <4>5. QED  BY <4>3, <4>4
      <3>4. QED  BY <1>h, <1>3, <1>5, <2>2, <2>7, <3>1, <3>3 DEF Greeting, Passes
    <2>8. QED  BY <2>4, <2>6, <2>7
  <1>6. CASE pc # "handshake"
    <2>1. phase = "recv" /\ Asked
      <3>1. InStep /\ phase \in {"send", "recv"}
        BY <1>0, <1>6 DEF ChannelTypeOK
      <3>2. QED  BY <1>2, <3>1 DEF InStep, Answered
    <2>2. Len(outq) = 1 /\ inq = <<>> /\ outq[1].n = sent /\ <<pc, outq[1].op>> \in Asks
      BY <2>1 DEF Asked
    <2>3. outq' = <<>>
      BY <1>4, <2>2, OneTail
    <2>4. Len(inq') = Len(replies) /\ \A i \in 1..Len(inq') : inq'[i] = replies[i]
      BY <1>3, <1>4, <2>2
    <2>5. \A i \in 1..Len(inq') : inq'[i].to = sent
      BY <1>1, <1>3, <2>2, <2>4 DEF Fits
    <2>6. outq[1].op \in PitOps <=> pc \in TwoPackets
      BY <2>2 DEF Asks, PitOps, TwoPackets
    <2>7. /\ pc \in TwoPackets => Len(inq') <= 2
          /\ pc \notin TwoPackets => Len(inq') <= 1
      BY <1>1, <1>3, <2>4, <2>6 DEF Fits
    <2>8. ASSUME pc \in TwoPackets, Len(inq') = 1
          PROVE  inq'[1].code # "ok"
      BY <1>1, <1>3, <2>4, <2>6, <2>8 DEF Fits
    <2>9. Answered'
      BY <1>h, <1>3, <2>3, <2>5, <2>7, <2>8 DEF Answered
    <2>10. QED  BY <1>h, <1>3, <1>6, <2>1, <2>9 DEF InStep
  <1>7. QED
    BY <1>5, <1>6

-----------------------------------------------------------------------------
InStepInv == TypeInv /\ TroubleEnds /\ Lockstep

LEMMA InStepInit ==
    ASSUME Init
    PROVE  InStepInv
  <1>1. TypeInv
    BY TypeInvInit
  <1>2. TroubleEnds /\ Lockstep
    BY DEF Init, ChannelInit, TroubleEnds, Lockstep, InStep
  <1>3. QED
    BY <1>1, <1>2 DEF InStepInv

LEMMA InStepNext ==
    ASSUME ~ProgressReplies, InStepInv, [Next]_vars
    PROVE  InStepInv'
  <1>0. /\ ChannelTypeOK(Ops) /\ DeviceTypeOK /\ HostTypeOK /\ CursorOK /\ PartOK
        /\ TypeInv /\ TroubleEnds /\ Lockstep
    BY TypeParts DEF InStepInv, TypeInv
  <1>1. TypeInv'
    BY <1>0, TypeInvNext
  <1>2. TroubleEnds'
    <2>1. CASE HostNext
      BY <1>0, <2>1, TroubleEndsKept
    <2>2. CASE UNCHANGED host
      BY <1>0, <2>2 DEF host, TroubleEnds
    <2>3. QED  BY <2>1, <2>2 DEF Next, vars
  <1>3. Lockstep'
    <2>1. CASE HostNext
      BY <1>0, <2>1, LockstepHost
    <2>2. CASE DeviceNext /\ UNCHANGED host
      BY <1>0, <2>2, LockstepDevice
    <2>3. CASE UNCHANGED vars
      BY <1>0, <2>3 DEF vars, chan, host, cursor, Lockstep, Greeting, Passes, InStep, Asked,
                        Answered, IsLast, Current
    <2>4. QED  BY <2>1, <2>2, <2>3 DEF Next
  <1>4. QED
    BY <1>1, <1>2, <1>3 DEF InStepInv

\* The property of AcceptsOwnReply, for one step.
LEMMA ReadsOwnReply ==
    ASSUME ~ProgressReplies, InStepInv, [Next]_vars,
           phase = "recv", inq # <<>>, inq' = Tail(inq), ~trouble'
    PROVE  Head(inq).to = sent
  <1>0. /\ ChannelTypeOK(Ops) /\ DeviceTypeOK /\ HostTypeOK /\ CursorOK /\ PartOK
        /\ TypeInv /\ TroubleEnds /\ Lockstep
    BY TypeParts DEF InStepInv, TypeInv
  <1>1. inq \in Seq(Reply) /\ Len(inq') = Len(inq) - 1 /\ Len(inq) \in Nat \ {0}
    BY <1>0 DEF ChannelTypeOK
  <1>2. CASE HostNext
    <2>1. ~trouble
      BY <1>0, <1>2, TroubleEndsKept
    <2>2. CASE pc = "handshake"
      <3>1. ~HostAsks
        BY DEF HostAsks, Send
      <3>2. HostReads
        BY <1>0, <1>2, <2>2, <3>1, HostShape DEF HostGivesUp, HostReadsOn, HostTurns, HostWorks, TwoPackets
      <3>3. Passes(Head(inq)) /\ Greeting
        BY <1>0, <2>1, <2>2, <3>2 DEF HostReads, Lockstep
      <3>4. Head(inq) = inq[1] /\ 1 \in 1..Len(inq)
        BY <1>1
      <3>5. QED  BY <3>3, <3>4 DEF Greeting
    <2>3. CASE pc # "handshake"
      BY <1>0, <2>1, <2>3, ReadsAnswer DEF Lockstep
    <2>4. QED  BY <2>2, <2>3
  <1>3. CASE DeviceNext /\ UNCHANGED host
    <2>1. outq # <<>>
      BY <1>0, <1>3, DeviceShape DEF Answers
    <2>2. PICK replies \in Seq(Reply) : Serve(replies)
      BY <1>0, <1>3, DeviceShape DEF Answers
    <2>3. Len(inq') = Len(inq) + Len(replies)
      BY <1>0, <2>1, <2>2, ServeFacts
    <2>4. Len(replies) \in Nat
      BY <2>2
    <2>5. QED  BY <1>1, <2>3, <2>4
  <1>4. CASE UNCHANGED vars
    <2>1. inq' = inq
      BY <1>4 DEF vars, chan
    <2>2. QED  BY <1>1, <2>1
  <1>5. QED
    BY <1>2, <1>3, <1>4 DEF Next

\* Whatever is lost, late or refused, no reply is ever taken for the answer to
\* another request than the one just sent (receive_packet, bulk_read_once and
\* the callers that check what they return).
THEOREM OwnReplies ==
    ASSUME ~ProgressReplies
    PROVE  Spec => AcceptsOwnReply
  <1>1. Init => InStepInv
    BY InStepInit
  <1>2. InStepInv /\ [Next]_vars => InStepInv'
    BY InStepNext
  <1>3. InStepInv /\ [Next]_vars =>
            [phase = "recv" /\ inq # <<>> /\ inq' = Tail(inq) /\ ~trouble' => Head(inq).to = sent]_vars
    BY ReadsOwnReply
  <1>4. QED
    BY <1>1, <1>2, <1>3, PTL DEF Spec, AcceptsOwnReply
-----------------------------------------------------------------------------
(* What the device has of the image under way.                             *)

LEMMA EmptyPrefix == Prefix(0) = <<>>
  BY DEF Prefix

LEMMA ReceivedHost ==
    ASSUME InStepInv, ReceivedOK, HostNext
    PROVE  ReceivedOK'
  <1> SUFFICES ASSUME ~trouble'
               PROVE  Received'
    BY DEF ReceivedOK
  <1>0. /\ ChannelTypeOK(Ops) /\ DeviceTypeOK /\ HostTypeOK /\ CursorOK /\ PartOK
        /\ TroubleEnds /\ Lockstep
    BY TypeParts DEF InStepInv, TypeInv
  <1>t. ~trouble
    BY <1>0, TroubleEndsKept
  <1>r. Received
    BY <1>t DEF ReceivedOK
  <1>x. xfer' = xfer /\ cfg' = cfg
    BY DEF HostNext, device
  <1>a. CASE HostAsks
    <2> PICK op \in Ops, arg \in Seq(Nat) : Send(op, arg) /\ Stays
      BY <1>a DEF HostAsks
    <2>1. phase = "send" /\ phase' = "recv"
      BY DEF Send
    <2>2. outq' # <<>>
      <3> DEFINE q == [n |-> sent + 1, op |-> op, arg |-> arg]
      <3>1. q \in Request(Ops) /\ outq \in Seq(Request(Ops)) /\ outq' = Append(outq, q)
        BY <1>0 DEF ChannelTypeOK, Request, Send
      <3> HIDE DEF q
      <3>2. QED  BY <3>1
    <2>3. ~Done /\ ~Done'
      BY <2>1, <2>2 DEF Done
    <2>4. pc' = pc /\ part' = part /\ arch' = arch /\ entry' = entry /\ IsLast' = IsLast
      BY <1>x DEF Stays, IsLast, Current
    <2> HIDE DEF Done
    <2>5. QED  BY <1>r, <1>x, <2>3, <2>4 DEF Received, Prefix
  <1>b. CASE HostReadsOn
    BY <1>b DEF HostReadsOn, Received
  <1>c. CASE HostTurns
    BY <1>c DEF HostTurns, Received
  <1>d. CASE HostReads \/ HostWorks
    <2>s. phase' = "send"
      BY <1>d DEF HostReads, HostWorks, Read, chan
    <2>d. ~Done'
      BY <2>s DEF Done
    <2>o. phase = "recv" => outq = <<>>
      <3>1. CASE HostReads /\ pc # "handshake"
        BY <1>0, <1>t, <3>1, ReadsAnswer DEF HostReads, Read, Lockstep
      <3>2. CASE HostReads /\ pc = "handshake"
        <4>1. Greeting /\ Passes(Head(inq)) /\ inq # <<>>
          BY <1>0, <1>t, <3>2 DEF HostReads, Read, Lockstep
        <4>2. Head(inq) = inq[1] /\ 1 \in 1..Len(inq)
          BY <1>0, <4>1 DEF ChannelTypeOK
        <4>3. QED  BY <4>1, <4>2 DEF Greeting
      <3>3. CASE HostWorks
        BY <3>3 DEF HostWorks
      <3>4. QED  BY <1>d, <3>1, <3>2, <3>3
    <2> USE DEF Goto, Wait, Stop, Abort, AbortExchange, link, cursor
    <2>1. CASE OpenDevice
      BY <2>1, <2>d DEF OpenDevice, Received
    <2>2. CASE OdinLegacyHandshake
      BY <2>2, <2>d DEF OdinLegacyHandshake, Received
    <2>3. CASE Handshake
      BY <2>3, <2>d DEF Handshake, Received
    <2>4. CASE RequestDeviceType
      BY <2>4, <2>d DEF RequestDeviceType, Received
    <2>5. CASE VerifyFirmwareCompatibility
      BY <2>5, <2>d DEF VerifyFirmwareCompatibility, Received
    <2>6. CASE BeginSession
      BY <2>6, <2>d DEF BeginSession, Received
    <2>7. CASE OdinBeginSession
      BY <2>7, <2>d DEF OdinBeginSession, Received
    <2>8. CASE OdinFilePartSize
      BY <2>8, <2>d DEF OdinFilePartSize, Received
    <2>9. CASE RequestPit
      BY <2>9, <2>d DEF RequestPit, Received
    <2>10. CASE ReceivePitTable
      BY <2>10, <2>d DEF ReceivePitTable, ParsePit, Received
    <2>11. CASE OdinDumpPit
      BY <2>11, <2>d DEF OdinDumpPit, Received
    <2>12. CASE OdinPitBlock
      BY <2>12, <2>d DEF OdinPitBlock, Received
    <2>13. CASE OdinPitData
      BY <2>13, <2>d DEF OdinPitData, Received
    <2>14. CASE OdinEndPit
      BY <2>14, <2>d DEF OdinEndPit, ParsePit, Received
    <2>15. CASE ProcessTarFile
      BY <2>15, <2>d DEF ProcessTarFile, Received
    <2>16. CASE ArchivesDone
      BY <2>16, <2>d DEF ArchivesDone, Received
    <2>17. CASE EndOfArchive
      BY <2>17, <2>d DEF EndOfArchive, Received
    <2>18. CASE BadEntry
      BY <2>18, <2>d DEF BadEntry, AtEntry, Received
    <2>19. CASE SkipEntry
      BY <2>19, <2>d DEF SkipEntry, AtEntry, Received
    <2>20. CASE RejectEntry
      BY <2>20, <2>d DEF RejectEntry, AtEntry, Received
    <2>21. CASE CheckEntry
      BY <2>21, <2>d DEF CheckEntry, Fresh, AtEntry, Received
    <2>22. CASE FlashEntry
      BY <2>22, <2>d DEF FlashEntry, Fresh, AtEntry, Received
    <2>23. CASE SendFilePartHeader
      <3>1. pc = "send_file_part_header" /\ arch' = arch /\ entry' = entry
        BY <2>23 DEF SendFilePartHeader
      <3>2. Done
        BY <2>23, <2>s, <2>o, SendPhase, ReadIntro DEF SendFilePartHeader, Read, Done, IsOk
      <3>3. QED  BY <1>0, <1>r, <1>x, <2>23, <2>d, <2>s, <3>1, <3>2, SendPhase, EmptyPrefix DEF SendFilePartHeader, Received, Prefix, PartOK
    <2>24. CASE SendFilePartChunk
      <3>1. pc = "send_file_part_chunk" /\ arch' = arch /\ entry' = entry
        BY <2>24 DEF SendFilePartChunk
      <3>2. Done
        BY <2>24, <2>s, <2>o, SendPhase, ReadIntro DEF SendFilePartChunk, Read, Done, IsOk
      <3>3. QED  BY <1>0, <1>r, <1>x, <2>24, <2>d, <2>s, <3>1, <3>2, SendPhase, EmptyPrefix DEF SendFilePartChunk, Received, Prefix, PartOK
    <2>25. CASE FilePartData
      <3>1. pc = "file_part_data" /\ arch' = arch /\ entry' = entry
        BY <2>25 DEF FilePartData
      <3>2. Done
        BY <2>25, <2>s, <2>o, SendPhase, ReadIntro DEF FilePartData, Read, Done, IsOk
      <3>3. QED  BY <1>0, <1>r, <1>x, <2>25, <2>d, <2>s, <3>1, <3>2, SendPhase, EmptyPrefix DEF FilePartData, Received, Prefix, PartOK
    <2>26. CASE ChunksDone
      BY <1>r, <1>x, <2>26, <2>d DEF ChunksDone, Received, Prefix
    <2>27. CASE EndFileTransfer
      BY <2>27, <2>d, <2>s, SendPhase DEF EndFileTransfer, Received
    <2>28. CASE OdinRequestFileFlash
      <3>1. pc = "odin_request_file_flash" /\ arch' = arch /\ entry' = entry
        BY <2>28 DEF OdinRequestFileFlash
      <3>2. Done
        BY <2>28, <2>s, <2>o, SendPhase, ReadIntro DEF OdinRequestFileFlash, Read, Done, IsOk
      <3>3. QED  BY <1>0, <1>r, <1>x, <2>28, <2>d, <2>s, <3>1, <3>2, SendPhase, EmptyPrefix DEF OdinRequestFileFlash, Received, Prefix, PartOK
    <2>29. CASE OdinRequestSequenceFlash
      <3>1. pc = "odin_request_sequence_flash" /\ arch' = arch /\ entry' = entry
        BY <2>29 DEF OdinRequestSequenceFlash
      <3>2. Done
        BY <2>29, <2>s, <2>o, SendPhase, ReadIntro DEF OdinRequestSequenceFlash, Read, Done, IsOk
      <3>3. QED  BY <1>0, <1>r, <1>x, <2>29, <2>d, <2>s, <3>1, <3>2, SendPhase, EmptyPrefix DEF OdinRequestSequenceFlash, Received, Prefix, PartOK
    <2>30. CASE OdinSendFilePart
      <3>1. pc = "odin_send_file_part" /\ arch' = arch /\ entry' = entry
        BY <2>30 DEF OdinSendFilePart
      <3>2. Done
        BY <2>30, <2>s, <2>o, SendPhase, ReadIntro DEF OdinSendFilePart, Read, Done, PartAcked, IsOk
      <3>3. QED  BY <1>0, <1>r, <1>x, <2>30, <2>d, <2>s, <3>1, <3>2, SendPhase, EmptyPrefix DEF OdinSendFilePart, Received, Prefix, PartOK
    <2>31. CASE OdinReadFails
      BY <2>31, <2>d DEF OdinReadFails, Received
    <2>32. CASE OdinEndSequenceFlash
      <3>1. pc = "odin_end_sequence_flash" /\ arch' = arch /\ entry' = entry
        BY <2>32 DEF OdinEndSequenceFlash
      <3>2. IsLast => pc' = "odin_reset_flash_count"
        BY <2>32, <2>s, SendPhase DEF OdinEndSequenceFlash
      <3>3. QED  BY <1>0, <1>r, <1>x, <2>32, <2>d, <2>s, <3>1, <3>2, SendPhase, EmptyPrefix DEF OdinEndSequenceFlash, Received, Prefix, PartOK
    <2>33. CASE OdinResetFlashCount
      BY <2>33, <2>d DEF OdinResetFlashCount, Received
    <2>34. CASE SendReboot
      BY <2>34, <2>d DEF SendReboot, Received
    <2>35. CASE SendRedownload
      BY <2>35, <2>d DEF SendRedownload, Received
    <2>36. CASE EndSession
      BY <2>36, <2>d DEF EndSession, Received
    <2>q. QED
      BY <2>1, <2>2, <2>3, <2>4, <2>5, <2>6, <2>7, <2>8, <2>9, <2>10, <2>11, <2>12, <2>13, <2>14, <2>15, <2>16, <2>17, <2>18, <2>19, <2>20, <2>21, <2>22, <2>23, <2>24, <2>25, <2>26, <2>27, <2>28, <2>29, <2>30, <2>31, <2>32, <2>33, <2>34, <2>35, <2>36 DEF HostNext
  <1>q. QED
    BY <1>0, <1>a, <1>b, <1>c, <1>d, HostShape DEF HostGivesUp

LEMMA NextPrefix ==
    ASSUME NEW n \in Nat
    PROVE  Append(Prefix(n), <<arch, entry, n + 1>>) = Prefix(n + 1)
  <1> DEFINE T == {<<arch, entry, k>> : k \in 1..(n + 1)}
  <1>1. Prefix(n) \in Seq(T) /\ Len(Prefix(n)) = n
    BY DEF Prefix
  <1>2. Prefix(n + 1) \in Seq(T) /\ Len(Prefix(n + 1)) = n + 1
    BY DEF Prefix
  <1>3. <<arch, entry, n + 1>> \in T
    OBVIOUS
  <1> HIDE DEF T
  <1>4. /\ Append(Prefix(n), <<arch, entry, n + 1>>) \in Seq(T)
        /\ Len(Append(Prefix(n), <<arch, entry, n + 1>>)) = n + 1
    BY <1>1, <1>3
  <1>5. ASSUME NEW k \in 1..(n + 1)
        PROVE  Append(Prefix(n), <<arch, entry, n + 1>>)[k] = Prefix(n + 1)[k]
    <2>1. CASE k = n + 1
      BY <1>1, <1>3, <2>1 DEF Prefix
    <2>2. CASE k # n + 1
      <3>1. k \in 1..n  BY <2>2
      <3>2. Append(Prefix(n), <<arch, entry, n + 1>>)[k] = Prefix(n)[k]
        BY <1>1, <1>3, <3>1
      <3>3. QED  BY <3>1, <3>2 DEF Prefix
    <2>3. QED  BY <2>1, <2>2
  <1>6. QED
    BY <1>2, <1>4, <1>5, SeqEqual

\* What a device step does to the image under way, by the request it handles.
LEMMA DeviceImage ==
    ASSUME ~ProgressReplies, ChannelTypeOK(Ops), DeviceNext, inq = <<>>
    PROVE  LET op == Head(outq).op
               ok == inq' # <<>> /\ Head(inq').code = "ok"
           IN  /\ op \in {"FILE_PART_SIZE", "RequestFileFlash"} /\ ok => xfer' = <<>>
               /\ op \in {"FILE_PART", "RequestSequenceFlash"} => xfer' = xfer
               /\ op \in {"FILE_DATA", "SendFilePart"} =>
                     xfer' = IF ok THEN Append(xfer, Head(outq).arg) ELSE xfer
               /\ op = "END_FILE_TRANSFER" /\ ~ok => xfer' = xfer
               /\ op = "EndSequenceFlash" /\ ~(ok /\ Head(outq).arg[2] = 1) => xfer' = xfer
  <1> DEFINE ok == inq' # <<>> /\ Head(inq').code = "ok"
  <1>1. ASSUME NEW kind, NEW code, NEW val, Serve(<<Answer(kind, code, val)>>)
        PROVE  ok <=> code = "ok"
    <2> DEFINE r == Answer(kind, code, val)
    <2>1. r.code = code  BY DEF Answer
    <2> HIDE DEF r
    <2>2. inq' = <<r>>  BY <1>1 DEF Serve, r
    <2>3. QED  BY <2>1, <2>2
  <1>2. ASSUME NEW val, Serve(Ack(val))
        PROVE  ok
    BY <1>1, <1>2 DEF Ack
  <1>3. CASE DeviceInform
    BY <1>3 DEF DeviceInform, Pending, device
  <1>4. CASE DeviceBegin
    BY <1>4 DEF DeviceBegin, Pending
  <1>5. CASE DeviceEnd
    BY <1>5 DEF DeviceEnd, Pending
  <1>6. CASE DeviceStartFile
    BY <1>6 DEF DeviceStartFile, Pending
  <1>7. CASE DeviceStartPart
    BY <1>7 DEF DeviceStartPart, Pending
  <1>8. CASE DeviceTakeData
    <2>1. ok  BY <1>2, <1>8 DEF DeviceTakeData
    <2>2. QED  BY <1>8, <2>1 DEF DeviceTakeData, Pending, Arg
  <1>9. CASE DeviceFinalise
    <2>1. ok  BY <1>2, <1>9 DEF DeviceFinalise
    <2>2. QED  BY <1>9, <2>1 DEF DeviceFinalise, Pending, Arg
  <1>10. CASE DeviceRefuse
    <2>1. ~ok
      BY <1>1, <1>10 DEF DeviceRefuse
    <2>2. QED  BY <1>10, <2>1 DEF DeviceRefuse
  <1>11. CASE DeviceIgnore
    <2>1. inq' = <<>>  BY <1>11 DEF DeviceIgnore, Serve
    <2>2. QED  BY <1>11, <2>1 DEF DeviceIgnore, device
  <1>12. CASE DeviceProgress
    BY <1>12 DEF DeviceProgress
  <1>13. QED
    BY <1>3, <1>4, <1>5, <1>6, <1>7, <1>8, <1>9, <1>10, <1>11, <1>12 DEF DeviceNext

LEMMA ReceivedDevice ==
    ASSUME ~ProgressReplies, InStepInv, ReceivedOK, DeviceNext, UNCHANGED host
    PROVE  ReceivedOK'
  <1>h. /\ pc' = pc /\ trouble' = trouble /\ arch' = arch /\ entry' = entry
        /\ part' = part /\ cfg' = cfg
    BY DEF host, cursor
  <1> SUFFICES ASSUME ~trouble
               PROVE  Received'
    BY <1>h DEF ReceivedOK
  <1>0. /\ ChannelTypeOK(Ops) /\ DeviceTypeOK /\ HostTypeOK /\ Lockstep /\ Received
    BY TypeParts DEF InStepInv, TypeInv, ReceivedOK
  <1>1. outq # <<>> /\ phase \in {"send", "recv"} /\ part \in Nat
    BY <1>0, DeviceShape DEF Answers, ChannelTypeOK, HostTypeOK
  <1>2. CASE pc = "handshake"
    BY <1>h, <1>2 DEF Received
  <1>3. CASE pc # "handshake"
    <2>1. phase = "recv" /\ Asked
      BY <1>0, <1>1, <1>3 DEF Lockstep, InStep, Answered
    <2>2. /\ inq = <<>> /\ Head(outq) = outq[1] /\ Tail(outq) = <<>>
          /\ <<pc, Head(outq).op>> \in Asks
          /\ Head(outq).op \in {"FILE_DATA", "SendFilePart"} =>
                Head(outq).arg = <<arch, entry, part + 1>>
          /\ Head(outq).op = "EndSequenceFlash" =>
                Head(outq).arg[2] = IF IsLast THEN 1 ELSE 0
      <3>1. outq \in Seq(Request(Ops)) /\ Len(outq) = 1
        BY <1>0, <2>1 DEF ChannelTypeOK, Asked
      <3>2. Head(outq) = outq[1] /\ Tail(outq) = <<>>
        BY <3>1, OneTail
      <3>3. QED  BY <2>1, <3>2 DEF Asked
    <2>3. phase' = "recv" /\ outq' = <<>>
      <3>1. PICK replies \in Seq(Reply) : Serve(replies)
        BY <1>0, DeviceShape DEF Answers
      <3>2. QED  BY <2>1, <2>2, <3>1 DEF Serve
    <2>4. ~Done
      BY <1>1 DEF Done
    <2> DEFINE ok == inq' # <<>> /\ Head(inq').code = "ok"
    <2>5. Done' <=> ok
      BY <2>3 DEF Done
    <2>6. IsLast' = IsLast
      BY <1>h DEF IsLast, Current
    <2>7. ASSUME NEW n
          PROVE  Prefix(n)' = Prefix(n)
      BY <1>h DEF Prefix
    <2>8. /\ Head(outq).op \in {"FILE_PART_SIZE", "RequestFileFlash"} /\ ok => xfer' = <<>>
          /\ Head(outq).op \in {"FILE_PART", "RequestSequenceFlash"} => xfer' = xfer
          /\ Head(outq).op \in {"FILE_DATA", "SendFilePart"} =>
                xfer' = IF ok THEN Append(xfer, Head(outq).arg) ELSE xfer
          /\ Head(outq).op = "END_FILE_TRANSFER" /\ ~ok => xfer' = xfer
          /\ Head(outq).op = "EndSequenceFlash" /\ ~(ok /\ Head(outq).arg[2] = 1) => xfer' = xfer
      BY <1>0, <2>2, DeviceImage
    <2> HIDE DEF ok
    <2>9. pc \in {"send_file_part_header", "odin_request_file_flash"} /\ Done' => xfer' = <<>>
      BY <2>2, <2>5, <2>8 DEF Asks
    <2>10. pc \in {"send_file_part_chunk", "odin_request_sequence_flash"} =>
              xfer' = Prefix(part)
      BY <1>0, <2>2, <2>8 DEF Asks, Received
    <2>11. ASSUME pc \in {"file_part_data", "odin_send_file_part"}
           PROVE  xfer' = Prefix(IF Done' THEN part + 1 ELSE part)
      <3>1. xfer = Prefix(part)
        BY <1>0, <2>4, <2>11 DEF Received
      <3>2. Head(outq).op \in {"FILE_DATA", "SendFilePart"}
        BY <2>2, <2>11 DEF Asks
      <3>3. xfer' = IF ok THEN Append(Prefix(part), <<arch, entry, part + 1>>) ELSE Prefix(part)
        BY <2>2, <2>8, <3>1, <3>2
      <3>4. QED  BY <1>1, <2>5, <3>3, NextPrefix
    <2>12. pc = "end_file_transfer" /\ ~Done' => xfer' = Prefix(part)
      BY <1>0, <2>2, <2>4, <2>5, <2>8 DEF Asks, Received
    <2>13. pc = "odin_end_sequence_flash" /\ ~(Done' /\ IsLast) => xfer' = Prefix(part)
      BY <1>0, <2>2, <2>4, <2>5, <2>8 DEF Asks, Received
    <2>14. QED
      BY <1>h, <2>6, <2>7, <2>9, <2>10, <2>11, <2>12, <2>13 DEF Received
  <1>4. QED
    BY <1>2, <1>3

-----------------------------------------------------------------------------
(* A request to finalise finds the whole image at the device.              *)

\* Prefix(n) is the image at the cursor when n is its size.
LEMMA CurrentImage ==
    ASSUME HostTypeOK, CursorOK, pc \in InFile
    PROVE  \E w \in Work :
              [part |-> Current.part, data |-> Prefix(Current.announced)] = Image(w)
  <1> DEFINE w == <<arch, entry>>
  <1>1. /\ arch \in 1..Len(cfg.archives) /\ entry \in 1..Len(cfg.archives[arch].entries)
        /\ Current.kind = "file" /\ Current.part # 0
    <2>1. cfg.archives \in Seq(Archives)
      BY ConfigsAssumption DEF HostTypeOK, Invocations
    <2>2. arch \in 1..Len(cfg.archives)
      BY <2>1 DEF HostTypeOK, CursorOK
    <2>3. cfg.archives[arch].entries \in Seq(Entries)
      <3>1. cfg.archives[arch] \in Archives  BY <2>1, <2>2
      <3>2. QED  BY <3>1 DEF Archives
    <2>4. entry \in 1..Len(cfg.archives[arch].entries)
      BY <2>3 DEF HostTypeOK, CursorOK
    <2>5. QED  BY <2>2, <2>4 DEF CursorOK
  <1>2. w \in Positions
    BY <1>1 DEF Positions
  <1>3. w[1] = arch /\ w[2] = entry /\ EntryAt(w[1], w[2]) = Current
    BY DEF EntryAt, Current
  <1>4. w \in Work
    BY <1>1, <1>2, <1>3 DEF Work
  <1>5. [part |-> Current.part, data |-> Prefix(Current.announced)] = Image(w)
    BY <1>3 DEF Image, Prefix
  <1>6. QED
    BY <1>4, <1>5

LEMMA WorkFixed ==
    ASSUME cfg' = cfg
    PROVE  /\ Work' = Work
           /\ \A w : Image(w)' = Image(w)
  BY DEF Work, Positions, Image, EntryAt

Complete(q, data) == \E w \in Work : [part |-> q.arg[1], data |-> data] = Image(w)

LEMMA FinalHost ==
    ASSUME InStepInv, ReceivedOK, FinalReady, HostNext
    PROVE  FinalReady'
  <1>0. /\ ChannelTypeOK(Ops) /\ DeviceTypeOK /\ HostTypeOK /\ CursorOK /\ PartOK
        /\ TroubleEnds /\ Lockstep
    BY TypeParts DEF InStepInv, TypeInv
  <1>x. xfer' = xfer /\ cfg' = cfg
    BY DEF HostNext, device
  <1>w. Work' = Work /\ \A w : Image(w)' = Image(w)
    BY <1>x, WorkFixed
  <1>1. CASE outq' = outq
    BY <1>1, <1>x, <1>w DEF FinalReady, Finalises
  <1>2. CASE HostAsks
    <2> PICK op \in Ops, arg \in Seq(Nat) : Send(op, arg) /\ AskedBy(op, arg) /\ Stays
      BY <1>2 DEF HostAsks
    <2> DEFINE q == [n |-> sent + 1, op |-> op, arg |-> arg]
    <2>1. outq' = Append(outq, q) /\ phase = "send"
      BY DEF Send
    <2>2. q \in Request(Ops) /\ q.op = op /\ q.arg = arg /\ outq \in Seq(Request(Ops))
      BY <1>0 DEF ChannelTypeOK, Request
    <2>3. <<pc, op>> \in Asks
      BY DEF AskedBy
    <2> HIDE DEF q
    <2>4. ASSUME Finalises(q)
          PROVE  outq = <<>> /\ Complete(q, xfer)
      <3>1. \/ op = "END_FILE_TRANSFER" /\ pc = "end_file_transfer"
            \/ op = "EndSequenceFlash" /\ pc = "odin_end_sequence_flash" /\ arg[2] = 1
        BY <2>2, <2>3, <2>4 DEF Finalises, Asks
      <3>2. ~trouble /\ pc # "handshake"
        BY <1>0, <3>1 DEF TroubleEnds
      <3>3. outq = <<>>
        BY <1>0, <2>1, <3>2 DEF Lockstep, InStep
      <3>4. xfer = Prefix(part)
        BY <2>1, <3>1, <3>2 DEF ReceivedOK, Received, Done
      <3>5. part = Current.announced
        BY <1>0, <3>1 DEF AskedBy, IsLast, PartOK
      <3>6. q.arg[1] = Current.part
        BY <2>2, <3>1 DEF AskedBy
      <3>7. pc \in InFile
        BY <3>1 DEF InFile, ThorFile, LegacyFile
      <3>8. QED  BY <1>0, <3>3, <3>4, <3>5, <3>6, <3>7, CurrentImage DEF Complete
    <2>5. ASSUME NEW i \in 1..Len(outq'), Finalises(outq'[i])
          PROVE  i = 1 /\ \E w \in Work : [part |-> outq'[i].arg[1], data |-> xfer] = Image(w)
      <3>1. CASE i = Len(outq) + 1
        <4>1. outq'[i] = q
          BY <2>1, <2>2, <3>1
        <4>2. outq = <<>> /\ Complete(q, xfer)
          BY <2>4, <2>5, <4>1
        <4>3. i = 1
          BY <3>1, <4>2
        <4>4. QED  BY <4>1, <4>2, <4>3 DEF Complete
      <3>2. CASE i # Len(outq) + 1
        <4>1. i \in 1..Len(outq) /\ outq'[i] = outq[i]
          BY <2>1, <2>2, <2>5, <3>2
        <4>2. QED  BY <2>5, <4>1 DEF FinalReady
      <3>3. QED  BY <3>1, <3>2
    <2>6. QED  BY <1>x, <1>w, <2>5 DEF FinalReady, Finalises
  <1>3. QED
    BY <1>0, <1>1, <1>2, HostShape DEF HostGivesUp, HostReads, HostReadsOn, HostTurns,
       HostWorks, Read, chan

LEMMA FinalDevice ==
    ASSUME ~ProgressReplies, ChannelTypeOK(Ops), DeviceTypeOK, FinalReady,
           DeviceNext, UNCHANGED host
    PROVE  FinalReady'
  <1>1. PICK replies \in Seq(Reply) : Serve(replies)
    BY DeviceShape DEF Answers
  <1>2. outq # <<>>
    BY DeviceShape DEF Answers
  <1>3. \A i \in 1..Len(outq') : i + 1 \in 1..Len(outq) /\ outq'[i] = outq[i + 1]
    BY <1>1, <1>2, ServeFacts
  <1>4. ASSUME NEW i \in 1..Len(outq')
        PROVE  ~Finalises(outq'[i])
    <2>1. i + 1 \in 1..Len(outq) /\ i + 1 # 1 /\ outq'[i] = outq[i + 1]
      BY <1>3
    <2>2. QED  BY <2>1 DEF FinalReady
  <1>5. QED
    BY <1>4 DEF FinalReady, Finalises

LEMMA CompleteDevice ==
    ASSUME ChannelTypeOK(Ops), DeviceTypeOK, FinalReady, FinalisedComplete,
           DeviceNext, UNCHANGED host
    PROVE  FinalisedComplete'
  <1>h. cfg' = cfg
    BY DEF host
  <1>w. Work' = Work /\ \A w : Image(w)' = Image(w)
    BY <1>h, WorkFixed
  <1>1. CASE flashed' = flashed
    BY <1>1, <1>w DEF FinalisedComplete
  <1>2. CASE flashed' # flashed
    <2>1. DeviceFinalise /\ Arg[2] = 1 /\ flashed' = Append(flashed, [part |-> Arg[1], data |-> xfer])
      BY <1>2 DEF DeviceNext, DeviceInform, DeviceBegin, DeviceEnd, DeviceStartFile,
                  DeviceStartPart, DeviceTakeData, DeviceFinalise, DeviceRefuse,
                  DeviceIgnore, DeviceProgress, device
    <2>2. outq # <<>> /\ Head(outq).op \in {"END_FILE_TRANSFER", "EndSequenceFlash"}
      BY <2>1 DEF DeviceFinalise, Pending
    <2>3. Head(outq) = outq[1] /\ 1 \in 1..Len(outq)
      BY <2>2 DEF ChannelTypeOK
    <2>4. Finalises(outq[1])
      BY <2>1, <2>2, <2>3 DEF Finalises, Arg
    <2>5. PICK w \in Work : [part |-> outq[1].arg[1], data |-> xfer] = Image(w)
      BY <2>3, <2>4 DEF FinalReady
    <2> DEFINE f == [part |-> Arg[1], data |-> xfer]
               S == {flashed[i] : i \in 1..Len(flashed)} \cup {f}
    <2>6. f = Image(w)
      BY <2>3, <2>5 DEF Arg
    <2>7. flashed \in Seq(S) /\ flashed' = Append(flashed, f) /\ f \in S
      <3>1. flashed \in Seq([part : Nat, data : Seq(Seq(Nat))])
        BY DEF DeviceTypeOK
      <3>2. flashed \in [1..Len(flashed) -> S] /\ Len(flashed) \in Nat
        BY <3>1, LenProperties
      <3>3. flashed \in Seq(S)
        BY <3>2
      <3>4. QED  BY <2>1, <3>3
    <2> HIDE DEF f, S
    <2>8. ASSUME NEW i \in 1..Len(flashed')
          PROVE  \E v \in Work : flashed'[i] = Image(v)
      <3>1. CASE i = Len(flashed) + 1
        <4>1. flashed'[i] = f  BY <2>7, <3>1
        <4>2. QED  BY <2>6, <4>1
      <3>2. CASE i # Len(flashed) + 1
        <4>1. i \in 1..Len(flashed) /\ flashed'[i] = flashed[i]  BY <2>7, <2>8, <3>2
        <4>2. QED  BY <4>1 DEF FinalisedComplete
      <3>3. QED  BY <3>1, <3>2
    <2>9. QED  BY <1>w, <2>8 DEF FinalisedComplete
  <1>3. QED
    BY <1>1, <1>2

-----------------------------------------------------------------------------
LEMMA FlashInvInit ==
    ASSUME Init
    PROVE  FlashInv
  <1>1. InStepInv
    BY InStepInit
  <1>2. ReceivedOK /\ FinalReady /\ FinalisedComplete
    BY DEF Init, ChannelInit, DeviceInit, ReceivedOK, Received, FinalReady, FinalisedComplete
  <1>3. QED
    BY <1>1, <1>2 DEF InStepInv, FlashInv

LEMMA FlashInvNext ==
    ASSUME ~ProgressReplies, FlashInv, [Next]_vars
    PROVE  FlashInv'
  <1>0. /\ ChannelTypeOK(Ops) /\ DeviceTypeOK /\ InStepInv
        /\ ReceivedOK /\ FinalReady /\ FinalisedComplete
    BY TypeParts DEF FlashInv, InStepInv, TypeInv
  <1>1. InStepInv'
    BY <1>0, InStepNext
  <1>2. CASE HostNext
    <2>1. ReceivedOK' /\ FinalReady'
      BY <1>0, <1>2, ReceivedHost, FinalHost
    <2>2. FinalisedComplete'
      <3>1. cfg' = cfg /\ flashed' = flashed
        BY <1>2 DEF HostNext, device
      <3>2. Work' = Work /\ \A w : Image(w)' = Image(w)
        BY <3>1, WorkFixed
      <3>3. QED  BY <1>0, <3>1, <3>2 DEF FinalisedComplete
    <2>3. QED  BY <1>1, <2>1, <2>2 DEF InStepInv, FlashInv
  <1>3. CASE DeviceNext /\ UNCHANGED host
    <2>1. ReceivedOK' /\ FinalReady' /\ FinalisedComplete'
      BY <1>0, <1>3, ReceivedDevice, FinalDevice, CompleteDevice
    <2>2. QED  BY <1>1, <2>1 DEF InStepInv, FlashInv
  <1>4. CASE UNCHANGED vars
    <2>1. /\ pc' = pc /\ trouble' = trouble /\ arch' = arch /\ entry' = entry
          /\ part' = part /\ cfg' = cfg /\ xfer' = xfer /\ flashed' = flashed
          /\ phase' = phase /\ outq' = outq /\ inq' = inq
      BY <1>4 DEF vars, host, cursor, device, chan
    <2>2. Work' = Work /\ \A w : Image(w)' = Image(w)
      BY <2>1, WorkFixed
    <2>3. ReceivedOK'
      BY <1>0, <2>1 DEF ReceivedOK, Received, Done, Prefix, IsLast, Current
    <2>4. FinalReady' /\ FinalisedComplete'
      BY <1>0, <2>1, <2>2 DEF FinalReady, Finalises, FinalisedComplete
    <2>5. QED  BY <1>1, <2>3, <2>4 DEF InStepInv, FlashInv
  <1>5. QED
    BY <1>2, <1>3, <1>4 DEF Next

\* The inductive invariant of the conversation; the run flash_session checks it
\* as a part of SessionInv.
THEOREM FlashInvariant ==
    ASSUME ~ProgressReplies
    PROVE  Spec => []FlashInv
  <1>1. Init => FlashInv
    BY FlashInvInit
  <1>2. FlashInv /\ [Next]_vars => FlashInv'
    BY FlashInvNext
  <1>3. QED
    BY <1>1, <1>2, PTL DEF Spec

\* No partition is ever finalised with anything but the complete image of a
\* tar entry that maps to it, at whatever point of flash_partition_stream or
\* process_lz4_streaming the run fails and however late the device is.
THEOREM OnlyCompleteImages ==
    ASSUME ~ProgressReplies
    PROVE  Spec => []FinalisedComplete
  <1>1. FlashInv => FinalisedComplete
    BY DEF FlashInv
  <1>2. QED
    BY <1>1, FlashInvariant, PTL

-----------------------------------------------------------------------------
(* A check-only run.                                                       *)

\* What the host may write on the pipe in one step.
HostKeepsOut == outq' = outq
HostAdds == \E op \in Ops \ WriteOps, arg \in Seq(Nat) : Send(op, arg)

LEMMA AddsIntro ==
    ASSUME NEW op \in Ops \ WriteOps, NEW arg \in Seq(Nat), Send(op, arg)
    PROVE  HostAdds
  BY DEF HostAdds

LEMMA ReadsKeepOut ==
    ASSUME NEW good, NEW next, Receive(good, next) \/ Fails(good)
    PROVE  HostKeepsOut
  BY DEF Receive, Fails, HostKeepsOut

\* In a check-only run the host is never where it writes.
LEMMA DryHost ==
    ASSUME HostTypeOK, cfg.dry_run, pc \notin WriteLocations, HostNext
    PROVE  pc' \notin WriteLocations /\ (HostKeepsOut \/ HostAdds)
  <1> USE DEF Goto, Wait, Stop, Abort, AbortExchange, WriteLocations, InFile, ThorFile, LegacyFile
  <1>n. part \in Nat
    BY DEF HostTypeOK
  <1>o. /\ {"ODIN", "HANDSHAKE", "DEVICE_TYPE", "BEGIN_SESSION", "BeginSession",
            "SendFilePartSize", "PIT_FILE", "RequestPitDump", "PitDumpBlock", "EndPitDump",
            "END_SESSION", "EndSession"} \subseteq Ops \ WriteOps
        /\ <<>> \in Seq(Nat) /\ <<part>> \in Seq(Nat)
    BY <1>n, ArgFacts DEF Ops, ThorOps, LegacyOps, WriteOps
  <1> USE <1>o, AddsIntro, ReadsKeepOut
  <1>1. CASE OpenDevice \/ VerifyFirmwareCompatibility \/ ProcessTarFile \/ ArchivesDone
             \/ EndOfArchive \/ BadEntry \/ SkipEntry \/ RejectEntry \/ CheckEntry \/ FlashEntry
    BY <1>1 DEF OpenDevice, VerifyFirmwareCompatibility, ProcessTarFile, ArchivesDone,
        EndOfArchive, BadEntry, SkipEntry, RejectEntry, CheckEntry, FlashEntry, Flashing,
        AtEntry, Fresh, Local, chan, HostKeepsOut
  <1>2. CASE OdinLegacyHandshake
    BY <1>2 DEF OdinLegacyHandshake
  <1>3. CASE Handshake
    BY <1>3 DEF Handshake
  <1>4. CASE RequestDeviceType
    BY <1>4 DEF RequestDeviceType, Local, chan, HostKeepsOut
  <1>5. CASE BeginSession
    BY <1>5 DEF BeginSession
  <1>6. CASE OdinBeginSession
    BY <1>6 DEF OdinBeginSession
  <1>7. CASE OdinFilePartSize
    BY <1>7 DEF OdinFilePartSize
  <1>8. CASE RequestPit
    BY <1>8 DEF RequestPit
  <1>9. CASE ReceivePitTable
    BY <1>9 DEF ReceivePitTable, ParsePit
  <1>10. CASE OdinDumpPit
    BY <1>10 DEF OdinDumpPit
  <1>11. CASE OdinPitBlock
    BY <1>11 DEF OdinPitBlock
  <1>12. CASE OdinPitData
    BY <1>12 DEF OdinPitData
  <1>13. CASE OdinEndPit
    BY <1>13 DEF OdinEndPit, ParsePit
  <1>14. CASE EndSession
    BY <1>14 DEF EndSession
  <1>15. CASE \/ SendFilePartHeader \/ SendFilePartChunk \/ FilePartData \/ ChunksDone
              \/ EndFileTransfer \/ OdinRequestFileFlash \/ OdinRequestSequenceFlash
              \/ OdinSendFilePart \/ OdinReadFails \/ OdinEndSequenceFlash
              \/ OdinResetFlashCount \/ SendReboot \/ SendRedownload
    BY <1>15 DEF SendFilePartHeader, SendFilePartChunk, FilePartData, ChunksDone,
        EndFileTransfer, OdinRequestFileFlash, OdinRequestSequenceFlash, OdinSendFilePart,
        OdinReadFails, OdinEndSequenceFlash, OdinResetFlashCount, SendReboot, SendRedownload
  <1>16. QED
    BY <1>1, <1>2, <1>3, <1>4, <1>5, <1>6, <1>7, <1>8, <1>9, <1>10, <1>11, <1>12, <1>13,
       <1>14, <1>15 DEF HostNext

\* The device only starts, fills or finalises a file when it is asked to.
LEMMA DryDevice ==
    ASSUME ChannelTypeOK(Ops), DryRunTouchesNothing, cfg.dry_run, DeviceNext, UNCHANGED host
    PROVE  DryRunTouchesNothing'
  <1>1. outq' = outq \/ (outq # <<>> /\ outq' = Tail(outq))
    BY DEF DeviceNext, DeviceInform, DeviceBegin, DeviceEnd, DeviceStartFile, DeviceStartPart,
        DeviceTakeData, DeviceFinalise, DeviceRefuse, DeviceIgnore, DeviceProgress, Pending, Serve
  <1>2. \A i \in 1..Len(outq') : outq'[i].op \notin WriteOps
    <2>1. outq \in Seq(Request(Ops))
      BY DEF ChannelTypeOK
    <2>2. \A i \in 1..Len(outq) : outq[i].op \notin WriteOps
      BY DEF DryRunTouchesNothing
    <2>3. CASE outq # <<>> /\ outq' = Tail(outq)
      <3>1. \A i \in 1..Len(outq') : i + 1 \in 1..Len(outq) /\ outq'[i] = outq[i + 1]
        BY <2>1, <2>3
      <3>2. QED  BY <2>2, <3>1
    <2>4. QED  BY <1>1, <2>2, <2>3
  <1>3. flashed' = flashed /\ xfer' = xfer
    <2>1. outq # <<>> => Head(outq).op \notin WriteOps
      <3>1. outq # <<>> => 1 \in 1..Len(outq) /\ Head(outq) = outq[1]
        BY DEF ChannelTypeOK
      <3>2. QED  BY <3>1 DEF DryRunTouchesNothing
    <2>2. ~DeviceStartFile /\ ~DeviceTakeData /\ ~DeviceFinalise
      BY <2>1 DEF DeviceStartFile, DeviceTakeData, DeviceFinalise, Pending, WriteOps
    <2>3. QED
      BY <2>2 DEF DeviceNext, DeviceInform, DeviceBegin, DeviceEnd, DeviceStartPart,
          DeviceRefuse, DeviceIgnore, DeviceProgress, device
  <1>4. QED
    BY <1>2, <1>3 DEF DryRunTouchesNothing

DryInv == TypeInv /\ DryOK

LEMMA DryInit ==
    ASSUME Init
    PROVE  DryInv
  <1>1. pc \notin WriteLocations
    BY DEF Init, WriteLocations, InFile, ThorFile, LegacyFile
  <1>2. DryRunTouchesNothing
    BY DEF Init, ChannelInit, DeviceInit, DryRunTouchesNothing
  <1>3. QED
    BY <1>1, <1>2, TypeInvInit DEF DryInv, DryOK

LEMMA DryNext ==
    ASSUME DryInv, [Next]_vars
    PROVE  DryInv'
  <1>0. TypeInv /\ TypeInv' /\ ChannelTypeOK(Ops) /\ HostTypeOK
    BY TypeInvNext, TypeParts DEF DryInv, TypeInv
  <1>1. ASSUME HostNext, cfg'.dry_run
        PROVE  pc' \notin WriteLocations /\ DryRunTouchesNothing'
    <2>1. cfg' = cfg /\ flashed' = flashed /\ xfer' = xfer
      BY <1>1 DEF HostNext, device
    <2>2. pc \notin WriteLocations /\ DryRunTouchesNothing
      BY <1>1, <2>1 DEF DryInv, DryOK
    <2>3. pc' \notin WriteLocations /\ (HostKeepsOut \/ HostAdds)
      BY <1>0, <1>1, <2>1, <2>2, DryHost
    <2>4. \A i \in 1..Len(outq') : outq'[i].op \notin WriteOps
      <3>1. CASE HostKeepsOut
        BY <2>1, <2>2, <3>1, <1>1 DEF HostKeepsOut, DryRunTouchesNothing
      <3>2. CASE HostAdds
        <4>1. PICK op \in Ops \ WriteOps, arg \in Seq(Nat) : Send(op, arg)
          BY <3>2 DEF HostAdds
        <4>2. outq \in Seq(Request(Ops))
          BY <1>0 DEF ChannelTypeOK
        <4>3. \A i \in 1..Len(outq') : \/ i \in 1..Len(outq) /\ outq'[i] = outq[i]
                                       \/ outq'[i].op = op
          BY <4>1, <4>2 DEF Send
        <4>4. QED  BY <2>1, <2>2, <4>3, <1>1 DEF DryRunTouchesNothing
      <3>3. QED  BY <2>3, <3>1, <3>2
    <2>5. QED
      BY <2>1, <2>2, <2>3, <2>4, <1>1 DEF DryRunTouchesNothing
  <1>2. ASSUME DeviceNext, UNCHANGED host, cfg'.dry_run
        PROVE  pc' \notin WriteLocations /\ DryRunTouchesNothing'
    <2>1. cfg' = cfg /\ pc' = pc
      BY <1>2 DEF host
    <2>2. QED
      BY <1>0, <1>2, <2>1, DryDevice DEF DryInv, DryOK
  <1>3. CASE UNCHANGED vars
    BY <1>0, <1>3 DEF vars, host, chan, device, DryInv, DryOK, DryRunTouchesNothing
  <1>4. QED
    BY <1>0, <1>1, <1>2, <1>3 DEF Next, DryInv, DryOK

\* A check-only run never puts a request on the pipe that writes, finalises or
\* reboots, and the device holds nothing it sent (process_arguments_and_run,
\* process_tar_file with dry_run): for every invocation and every device,
\* also one that reports progress.
THEOREM DryRunsTouchNothing == Spec => []DryRunTouchesNothing
  <1>1. Init => DryInv
    BY DryInit
  <1>2. DryInv /\ [Next]_vars => DryInv'
    BY DryNext
  <1>3. DryInv => DryRunTouchesNothing
    BY DEF DryInv, DryOK, DryRunTouchesNothing
  <1>4. QED
    BY <1>1, <1>2, <1>3, PTL DEF Spec

-----------------------------------------------------------------------------
(* Positions, and what lies behind the cursor.                             *)

LEMMA PositionFacts ==
    ASSUME HostTypeOK, NEW w \in Positions
    PROVE  /\ w[1] \in 1..Len(cfg.archives)
           /\ w[2] \in 1..Len(cfg.archives[w[1]].entries)
           /\ w[1] \in Nat /\ w[2] \in Nat
           /\ w = <<w[1], w[2]>>
           /\ EntryAt(w[1], w[2]) \in Entries
  <1>1. PICK a \in 1..Len(cfg.archives) : w \in {a} \X (1..Len(cfg.archives[a].entries))
    BY DEF Positions
  <1>2. PICK i \in 1..Len(cfg.archives[a].entries) : w = <<a, i>>
    BY <1>1
  <1>3. cfg.archives \in Seq(Archives)
    BY ConfigsAssumption DEF HostTypeOK, Invocations
  <1>4. cfg.archives[a].entries \in Seq(Entries)
    <2>1. cfg.archives[a] \in Archives
      BY <1>3
    <2>2. QED  BY <2>1 DEF Archives
  <1>5. a \in Nat /\ i \in Nat /\ cfg.archives[a].entries[i] \in Entries
    BY <1>3, <1>4
  <1>6. QED
    BY <1>2, <1>5 DEF EntryAt

\* The lengths the cursor is compared with.
LEMMA Lengths ==
    ASSUME HostTypeOK
    PROVE  /\ Len(cfg.archives) \in Nat
           /\ arch <= Len(cfg.archives) =>
                /\ arch \in 1..Len(cfg.archives)
                /\ Len(cfg.archives[arch].entries) \in Nat
                /\ entry <= Len(cfg.archives[arch].entries) =>
                     entry \in 1..Len(cfg.archives[arch].entries)
  <1>1. cfg.archives \in Seq(Archives)
    BY ConfigsAssumption DEF HostTypeOK, Invocations
  <1>2. arch <= Len(cfg.archives) => arch \in 1..Len(cfg.archives)
    BY <1>1 DEF HostTypeOK
  <1>3. arch <= Len(cfg.archives) => cfg.archives[arch].entries \in Seq(Entries)
    <2>1. arch <= Len(cfg.archives) => cfg.archives[arch] \in Archives
      BY <1>1, <1>2
    <2>2. QED  BY <2>1 DEF Archives
  <1>4. QED
    BY <1>1, <1>2, <1>3 DEF HostTypeOK

LEMMA CursorPlace ==
    ASSUME HostTypeOK, arch <= Len(cfg.archives), entry <= Len(cfg.archives[arch].entries)
    PROVE  /\ Cursor \in Positions
           /\ Cursor[1] = arch /\ Cursor[2] = entry
           /\ EntryAt(Cursor[1], Cursor[2]) = Current
           /\ Current.kind = "file" /\ Current.part # 0 => Cursor \in Work
           /\ ~(Current.kind = "file" /\ Current.part # 0) => Cursor \notin Work
  <1>1. arch \in 1..Len(cfg.archives) /\ entry \in 1..Len(cfg.archives[arch].entries)
    BY Lengths
  <1>2. Cursor \in Positions
    BY <1>1 DEF Positions, Cursor
  <1>3. Cursor[1] = arch /\ Cursor[2] = entry /\ EntryAt(Cursor[1], Cursor[2]) = Current
    BY DEF Cursor, EntryAt, Current
  <1>4. QED
    BY <1>2, <1>3 DEF Work

\* The cursor stays, or moves within the headers, or nothing more is looked at.
LEMMA BehindStays ==
    ASSUME cfg' = cfg, arch' = arch,
           \/ pc \in AtArchive /\ pc' \in AtArchive /\ entry' = entry
           \/ pc \notin AtArchive /\ pc' \notin AtArchive
    PROVE  Behind' = Behind /\ Positions' = Positions /\ Work' = Work
  <1>1. Positions' = Positions
    BY DEF Positions
  <1>2. Work' = Work
    BY <1>1 DEF Work, EntryAt
  <1>3. QED
    BY <1>1, <1>2 DEF Behind, Precedes, Cursor

\* The next header: one more entry is behind the cursor.
LEMMA BehindNext ==
    ASSUME HostTypeOK, cfg' = cfg, arch' = arch, entry' = entry + 1,
           pc \in AtArchive, pc' \in AtArchive,
           arch <= Len(cfg.archives), entry <= Len(cfg.archives[arch].entries)
    PROVE  /\ Behind' = Behind \cup {Cursor}
           /\ Cursor \notin Behind
           /\ Positions' = Positions /\ Work' = Work
  <1>1. Positions' = Positions
    BY DEF Positions
  <1>2. Work' = Work
    BY <1>1 DEF Work, EntryAt
  <1>3. arch \in Nat /\ entry \in Nat
    BY DEF HostTypeOK
  <1>4. Cursor \in Positions /\ Cursor[1] = arch /\ Cursor[2] = entry
    BY CursorPlace
  <1>5. Cursor \notin Behind
    BY <1>3, <1>4 DEF Behind, Precedes
  <1>6. \A w \in Positions : Precedes(w, Cursor)' <=> Precedes(w, Cursor) \/ w = Cursor
    <2> TAKE w \in Positions
    <2>1. w[1] \in Nat /\ w[2] \in Nat /\ w = <<w[1], w[2]>>
      BY PositionFacts
    <2>2. w = Cursor <=> w[1] = arch /\ w[2] = entry
      BY <2>1 DEF Cursor
    <2>3. QED
      BY <1>3, <2>1, <2>2 DEF Precedes, Cursor
  <1>7. QED
    BY <1>1, <1>2, <1>4, <1>5, <1>6 DEF Behind

\* The first header of an archive: only the archives before it are behind.
LEMMA BehindFirst ==
    ASSUME HostTypeOK, cfg' = cfg, arch' = arch, entry' = 1, pc \notin AtArchive, pc' \in AtArchive
    PROVE  /\ Behind' = Behind /\ Positions' = Positions /\ Work' = Work
           /\ \A w \in Behind : w[1] # arch
  <1>1. Positions' = Positions
    BY DEF Positions
  <1>2. Work' = Work
    BY <1>1 DEF Work, EntryAt
  <1>3. \A w \in Positions : w[1] \in Nat /\ w[2] \in Nat /\ w[2] >= 1
    BY PositionFacts
  <1>4. \A w \in Positions : Precedes(w, Cursor)' <=> w[1] < arch
    BY <1>3 DEF Precedes, Cursor
  <1>5. arch \in Nat
    BY DEF HostTypeOK
  <1>6. QED
    BY <1>1, <1>2, <1>3, <1>4, <1>5 DEF Behind

\* The end of an archive: everything in it is behind.
LEMMA BehindLast ==
    ASSUME HostTypeOK, cfg' = cfg, arch' = arch + 1, pc \in AtArchive, pc' \notin AtArchive,
           entry > Len(cfg.archives[arch].entries)
    PROVE  Behind' = Behind /\ Positions' = Positions /\ Work' = Work
  <1>1. Positions' = Positions
    BY DEF Positions
  <1>2. Work' = Work
    BY <1>1 DEF Work, EntryAt
  <1>3. \A w \in Positions : /\ w[1] \in Nat /\ w[2] \in Nat
                             /\ w[2] <= Len(cfg.archives[w[1]].entries)
    BY PositionFacts
  <1>4. arch \in Nat /\ entry \in Nat
    BY DEF HostTypeOK
  <1>5. arch \in 1..Len(cfg.archives) => Len(cfg.archives[arch].entries) \in Nat
    BY Lengths
  <1>6. \A w \in Positions : w[1] < arch + 1 <=> Precedes(w, Cursor)
    <2> TAKE w \in Positions
    <2>1. /\ w[1] \in 1..Len(cfg.archives) /\ w[1] \in Nat
          /\ w[2] \in Nat /\ w[2] \in 1..Len(cfg.archives[w[1]].entries)
      BY PositionFacts
    <2>2. w[1] = arch => w[2] < entry
      BY <1>4, <1>5, <2>1
    <2>3. QED
      BY <1>4, <2>1, <2>2 DEF Precedes, Cursor
  <1>7. QED
    BY <1>1, <1>2, <1>6 DEF Behind

\* After the last archive everything is behind.
LEMMA BehindAll ==
    ASSUME HostTypeOK, pc \notin AtArchive, arch > Len(cfg.archives)
    PROVE  Behind = Positions
  <1>1. arch \in Nat /\ Len(cfg.archives) \in Nat
    BY Lengths DEF HostTypeOK
  <1>2. \A w \in Positions : w[1] \in 1..Len(cfg.archives)
    BY PositionFacts
  <1>3. QED
    BY <1>1, <1>2 DEF Behind

-----------------------------------------------------------------------------
(* What is known of the image under way.                                   *)

LEMMA ImageHost ==
    ASSUME HostTypeOK, CursorOK, PartOK, ImageOK, HostNext
    PROVE  ImageOK'
  <1> USE DEF Goto, Wait, Stop, Abort, AbortExchange, link, cursor, ThorFile, LegacyFile, InFile
  <1>0. cfg' = cfg
    BY DEF HostNext
  <1>a. arch' = arch /\ entry' = entry => Current' = Current
    BY <1>0 DEF Current
  <1>n. /\ pc \in InFile => Current.announced \in Nat /\ Current.available \in Nat
        /\ Fresh => Current.announced \in Nat /\ Current.available \in Nat
        /\ part \in Nat /\ seqend \in Nat /\ mode \in {"Thor", "OdinLegacy"}
    <2>1. pc \in InFile => Current \in Entries
      BY CurrentTyped DEF CursorOK
    <2>2. Fresh => Current \in Entries
      BY CurrentTyped DEF Fresh, AtEntry, CursorOK
    <2>3. QED
      BY <2>1, <2>2 DEF HostTypeOK, Entries
  <1>1. CASE \/ OpenDevice \/ OdinLegacyHandshake \/ Handshake \/ RequestDeviceType
             \/ VerifyFirmwareCompatibility \/ BeginSession \/ OdinBeginSession
             \/ OdinFilePartSize
    BY <1>1 DEF ImageOK, OpenDevice, OdinLegacyHandshake, Handshake, RequestDeviceType,
        VerifyFirmwareCompatibility, BeginSession, OdinBeginSession, OdinFilePartSize
  <1>2. CASE \/ RequestPit \/ ReceivePitTable \/ OdinDumpPit \/ OdinPitBlock \/ OdinPitData
             \/ OdinEndPit \/ SendReboot \/ SendRedownload \/ EndSession
    BY <1>2 DEF ImageOK, RequestPit, ReceivePitTable, OdinDumpPit, OdinPitBlock, OdinPitData,
        OdinEndPit, ParsePit, SendReboot, SendRedownload, EndSession
  <1>3. CASE \/ ProcessTarFile \/ ArchivesDone \/ EndOfArchive \/ BadEntry \/ SkipEntry
             \/ RejectEntry \/ CheckEntry
    BY <1>3 DEF ImageOK, ProcessTarFile, ArchivesDone, EndOfArchive, BadEntry, SkipEntry,
        RejectEntry, CheckEntry, AtEntry, Fresh
  <1>4. CASE FlashEntry
    BY <1>4, <1>a, <1>n DEF ImageOK, FlashEntry, Fresh, AtEntry
  <1>5. CASE SendFilePartHeader
    BY <1>5, <1>a DEF ImageOK, SendFilePartHeader
  <1>6. CASE SendFilePartChunk
    BY <1>6, <1>a DEF ImageOK, SendFilePartChunk
  <1>7. CASE FilePartData
    BY <1>7, <1>a DEF ImageOK, FilePartData
  <1>8. CASE ChunksDone
    BY <1>8, <1>a DEF ImageOK, ChunksDone
  <1>9. CASE EndFileTransfer
    BY <1>9, <1>a DEF ImageOK, EndFileTransfer
  <1>10. CASE OdinRequestFileFlash
    BY <1>10, <1>a, <1>n DEF ImageOK, PartOK, OdinRequestFileFlash
  <1>11. CASE OdinRequestSequenceFlash
    BY <1>11, <1>a, <1>n DEF ImageOK, OdinRequestSequenceFlash, Send, Receive
  <1>12. CASE OdinSendFilePart
    BY <1>12, <1>a, <1>n DEF ImageOK, OdinSendFilePart, Send, Receive
  <1>13. CASE OdinReadFails
    BY <1>13 DEF ImageOK, OdinReadFails
  <1>14. CASE OdinEndSequenceFlash
    BY <1>14, <1>a, <1>n DEF ImageOK, OdinEndSequenceFlash, IsLast
  <1>15. CASE OdinResetFlashCount
    BY <1>15, <1>a DEF ImageOK, OdinResetFlashCount
  <1>16. QED
    BY <1>1, <1>2, <1>3, <1>4, <1>5, <1>6, <1>7, <1>8, <1>9, <1>10, <1>11, <1>12, <1>13,
       <1>14, <1>15 DEF HostNext

-----------------------------------------------------------------------------
(* Failing has a reason.                                                   *)

\* What Acceptable says of the run does not change once mode and type stand.
LEMMA AcceptableStays ==
    ASSUME cfg' = cfg, mode' = mode, devtype' = devtype
    PROVE  /\ profile' = profile => (Acceptable(cfg.dry_run)' <=> Acceptable(cfg.dry_run))
           /\ Compatible' <=> Compatible
           /\ \A w : EntryAcceptable(EntryAt(w[1], w[2]), cfg.dry_run)'
                       <=> EntryAcceptable(EntryAt(w[1], w[2]), cfg.dry_run)
  <1>1. \A w : EntryAt(w[1], w[2])' = EntryAt(w[1], w[2])
    BY DEF EntryAt
  <1>2. Positions' = Positions /\ Work' = Work
    BY DEF Positions, Work, EntryAt
  <1>3. Compatible' <=> Compatible
    BY DEF Compatible
  <1>4. \A w : EntryAcceptable(EntryAt(w[1], w[2]), cfg.dry_run)'
                 <=> EntryAcceptable(EntryAt(w[1], w[2]), cfg.dry_run)
    BY <1>1 DEF EntryAcceptable, ImageAcceptable, Decodes
  <1>5. QED
    BY <1>2, <1>3, <1>4 DEF Acceptable, EntryAt

LEMMA EntryDecides ==
    ASSUME HostTypeOK, arch <= Len(cfg.archives), entry <= Len(cfg.archives[arch].entries),
           ~EntryAcceptable(Current, cfg.dry_run)
    PROVE  ~Acceptable(cfg.dry_run)
  BY CursorPlace DEF Acceptable

\* Two entries of an archive for one partition: the second one is rejected.
LEMMA RepeatDecides ==
    ASSUME HostTypeOK, UsedOK, AtEntry, arch <= Len(cfg.archives),
           Current.kind = "file", Current.part \in used
    PROVE  ~Acceptable(cfg.dry_run)
  <1>1. pc = "tar_entry" /\ entry <= Len(cfg.archives[arch].entries)
    BY DEF AtEntry
  <1>2. PICK v \in Behind \cap Work : v[1] = arch /\ EntryAt(v[1], v[2]).part = Current.part
    BY <1>1 DEF UsedOK, Met, AtArchive, InFile, ThorFile, LegacyFile
  <1>3. Current.part # 0
    BY <1>2 DEF Work
  <1>4. /\ Cursor \in Work /\ Cursor[1] = arch /\ Cursor[2] = entry
        /\ EntryAt(Cursor[1], Cursor[2]) = Current
    BY <1>1, <1>3, CursorPlace
  <1>5. v # Cursor
    <2>1. entry \in Nat /\ arch \in Nat
      BY DEF HostTypeOK
    <2>2. Precedes(v, Cursor)
      BY <1>1, <1>2 DEF Behind, AtArchive
    <2>3. QED
      BY <1>4, <2>1, <2>2 DEF Precedes
  <1>6. QED
    BY <1>2, <1>4, <1>5 DEF Acceptable

LEMMA FaultHost ==
    ASSUME HostTypeOK, CursorOK, PartOK, DryOK, ImageOK, UsedOK, CodeOK, FaultOK, HostNext
    PROVE  CodeOK' /\ FaultOK'
  <1> USE DEF Goto, Wait, Stop, Abort, AbortExchange, link, cursor
  <1>0. cfg' = cfg /\ profile' = profile
    BY DEF HostNext, device
  <1>n. /\ arch \in Nat /\ Len(cfg.archives) \in Nat /\ mode \in {"Thor", "OdinLegacy"}
        /\ trouble \in BOOLEAN
        /\ pc \in InFile => Current.announced \in Nat /\ Current.available \in Nat
        /\ part \in Nat /\ seqend \in Nat
    BY Lengths, CurrentTyped DEF HostTypeOK, CursorOK, Entries
  <1>t. ASSUME trouble'  PROVE FaultOK'
    BY <1>t DEF FaultOK
  <1>g. ASSUME rc' = "Success"  PROVE FaultOK'
    BY <1>g DEF FaultOK
  <1>f. ASSUME ~Acceptable(cfg.dry_run), mode' = mode, devtype' = devtype
        PROVE  FaultOK'
    BY <1>0, <1>f, AcceptableStays DEF FaultOK
  <1>w. pc \in InFile => ~cfg.dry_run
    BY DEF DryOK, WriteLocations
  <1>1. CASE OpenDevice \/ OdinLegacyHandshake \/ Handshake \/ RequestDeviceType
    <2> USE DEF OpenDevice, OdinLegacyHandshake, Handshake, RequestDeviceType, CodeOK,
                Unopened, Closing
    <2>1. CodeOK'
      BY <1>1, <1>0
    <2>2. trouble' \/ rc' = "Success"
      BY <1>1
    <2>3. QED  BY <2>1, <2>2, <1>t, <1>g
  <1>2. CASE VerifyFirmwareCompatibility
    <2> USE DEF VerifyFirmwareCompatibility, CodeOK, Unopened, Closing
    <2>1. CodeOK'
      BY <1>2, <1>0
    <2>2. rc' = "Success" \/ (~Acceptable(cfg.dry_run) /\ mode' = mode /\ devtype' = devtype)
      BY <1>2 DEF Acceptable
    <2>3. QED  BY <2>1, <2>2, <1>f, <1>g
  <1>3. CASE \/ BeginSession \/ OdinBeginSession \/ OdinFilePartSize \/ RequestPit
             \/ ReceivePitTable \/ OdinDumpPit \/ OdinPitBlock \/ OdinPitData \/ OdinEndPit
    <2> USE DEF BeginSession, OdinBeginSession, OdinFilePartSize, RequestPit, ReceivePitTable,
                OdinDumpPit, OdinPitBlock, OdinPitData, OdinEndPit, ParsePit, CodeOK, Unopened,
                Closing
    <2>1. CodeOK'
      BY <1>3, <1>0
    <2>2. \/ trouble' \/ rc' = "Success"
          \/ ~profile.pit /\ mode' = mode /\ devtype' = devtype
      BY <1>3
    <2>3. ~profile.pit => ~Acceptable(cfg.dry_run)
      BY DEF Acceptable
    <2>4. QED  BY <2>1, <2>2, <2>3, <1>t, <1>g, <1>f
  <1>4. CASE ProcessTarFile
    <2> USE DEF ProcessTarFile, CodeOK, Unopened, Closing
    <2>1. CodeOK'
      BY <1>4, <1>0
    <2>2. rc' = "Success" \/ ~cfg.archives[arch].intact
      BY <1>4
    <2>3. arch \in 1..Len(cfg.archives)
      BY <1>4, Lengths
    <2>4. QED  BY <1>4, <2>1, <2>2, <2>3, <1>f, <1>g DEF Acceptable
  <1>5. CASE ArchivesDone \/ EndOfArchive \/ SkipEntry
    <2> USE DEF ArchivesDone, EndOfArchive, SkipEntry, AtEntry, NextEntry, CodeOK, Unopened, Closing
    <2>1. CodeOK'
      BY <1>5, <1>0, <1>n
    <2>2. rc' = "Success"
      BY <1>5
    <2>3. QED  BY <2>1, <2>2, <1>g
  <1>6. CASE BadEntry \/ RejectEntry \/ CheckEntry \/ FlashEntry
    <2> USE DEF BadEntry, RejectEntry, CheckEntry, FlashEntry, AtEntry, Fresh, NextEntry
    <2>1. CodeOK'
      BY <1>6, <1>0 DEF CodeOK, Unopened, Closing
    <2>2. arch <= Len(cfg.archives) /\ entry <= Len(cfg.archives[arch].entries)
      BY <1>6 DEF CursorOK
    <2>3. \/ rc' = "Success"
          \/ ~EntryAcceptable(Current, cfg.dry_run)
          \/ AtEntry /\ Current.kind = "file" /\ Current.part \in used
      BY <1>6, <1>n DEF EntryAcceptable, ImageAcceptable, Flashing, CodeOK
    <2>4. mode' = mode /\ devtype' = devtype
      BY <1>6
    <2>5. QED  BY <2>1, <2>2, <2>3, <2>4, <1>f, <1>g, EntryDecides, RepeatDecides
  <1>7. CASE \/ SendFilePartHeader \/ SendFilePartChunk \/ FilePartData \/ EndFileTransfer
             \/ OdinRequestSequenceFlash \/ OdinSendFilePart \/ OdinEndSequenceFlash
             \/ OdinResetFlashCount
    <2> USE DEF SendFilePartHeader, SendFilePartChunk, FilePartData, EndFileTransfer,
                OdinRequestSequenceFlash, OdinSendFilePart, OdinEndSequenceFlash,
                OdinResetFlashCount, CodeOK, Unopened, Closing
    <2>1. CodeOK'
      BY <1>7, <1>0
    <2>2. trouble' \/ rc' = "Success"
      BY <1>7
    <2>3. QED  BY <2>1, <2>2, <1>t, <1>g
  <1>8. CASE ChunksDone \/ OdinRequestFileFlash \/ OdinReadFails
    <2> USE DEF ChunksDone, OdinRequestFileFlash, OdinReadFails
    <2>1. CodeOK'
      BY <1>8, <1>0 DEF CodeOK, Unopened, Closing
    <2>2. /\ pc \in InFile /\ arch <= Len(cfg.archives) /\ entry <= Len(cfg.archives[arch].entries)
          /\ Current.kind = "file" /\ Current.part # 0
      BY <1>8 DEF CursorOK, InFile, ThorFile, LegacyFile
    <2>3. \/ rc' = "Success" \/ trouble' \/ ~ImageAcceptable(Current, cfg.dry_run)
      <3>1. CASE ChunksDone
        BY <1>n, <1>w, <2>2, <3>1 DEF ImageAcceptable, CodeOK
      <3>2. CASE OdinRequestFileFlash
        BY <1>n, <1>w, <2>2, <3>2 DEF ImageAcceptable, CodeOK, ImageOK, LegacyFile
      <3>3. CASE OdinReadFails
        BY <1>n, <1>w, <2>2, <3>3 DEF ImageAcceptable, PartOK
      <3>4. QED  BY <1>8, <3>1, <3>2, <3>3
    <2>4. ~ImageAcceptable(Current, cfg.dry_run) => ~EntryAcceptable(Current, cfg.dry_run)
      BY <2>2 DEF EntryAcceptable
    <2>5. mode' = mode /\ devtype' = devtype
      BY <1>8
    <2>6. QED  BY <2>1, <2>2, <2>3, <2>4, <2>5, <1>f, <1>g, <1>t, EntryDecides
  <1>9. CASE SendReboot \/ SendRedownload
    <2> USE DEF SendReboot, SendRedownload, CodeOK, Unopened, Closing
    <2>1. CodeOK'
      BY <1>9, <1>0
    <2>2. trouble' \/ rc' = "Success"
      BY <1>9
    <2>3. QED  BY <2>1, <2>2, <1>t, <1>g
  <1>10. CASE EndSession
    <2>1. CodeOK'
      BY <1>10, <1>0 DEF EndSession, CodeOK, Unopened, Closing
    <2>2. \/ trouble'
          \/ rc' = rc /\ trouble' = trouble /\ mode' = mode /\ devtype' = devtype
      BY <1>10 DEF EndSession
    <2>3. QED  BY <2>1, <2>2, <1>0, <1>t, AcceptableStays DEF FaultOK
  <1>11. QED
    BY <1>1, <1>2, <1>3, <1>4, <1>5, <1>6, <1>7, <1>8, <1>9, <1>10 DEF HostNext

-----------------------------------------------------------------------------
(* What the host has looked at.                                            *)

\* Control moves on within an archive or outside one.
LEMMA SeenStays ==
    ASSUME SeenOK, UsedOK, pc \notin Unopened, cfg' = cfg, mode' = mode, devtype' = devtype,
           arch' = arch, rc = "Success",
           pc \in AtArchive => entry' = entry /\ used' = used,
           pc \in AtArchive <=> pc' \in AtArchive,
           pc \in InFile <=> pc' \in InFile
    PROVE  SeenOK' /\ UsedOK'
  <1>1. Behind' = Behind /\ Positions' = Positions /\ Work' = Work
    BY BehindStays
  <1>2. \A w : EntryAt(w[1], w[2])' = EntryAt(w[1], w[2])
    BY DEF EntryAt
  <1>3. SeenOK'
    <2>1. Compatible'
      BY AcceptableStays DEF SeenOK
    <2>2. \A w \in Behind' : EntryAcceptable(EntryAt(w[1], w[2]), cfg.dry_run)'
      BY <1>1, AcceptableStays DEF SeenOK
    <2>3. \A v, w \in Behind' \cap Work' : SamePartition(v, w)' => v = w
      BY <1>1, <1>2 DEF SeenOK, SamePartition
    <2>4. \A a \in 1..Len(cfg'.archives) :
             a < arch' \/ (a = arch' /\ pc' \in AtArchive) => cfg'.archives[a].intact
      BY DEF SeenOK
    <2>5. QED  BY <2>1, <2>2, <2>3, <2>4 DEF SeenOK
  <1>4. UsedOK'
    <2>1. Met' = Met
      BY <1>1, <1>2 DEF Met
    <2>2. pc' \in InFile => Current' = Current
      BY DEF Current, AtArchive
    <2>3. QED  BY <2>1, <2>2 DEF UsedOK
  <1>5. QED  BY <1>3, <1>4

\* Nothing is behind the cursor before the first archive.
LEMMA SeenEarly ==
    ASSUME HostTypeOK, cfg' = cfg, arch = 1, arch' = arch, pc' \notin AtArchive,
           pc' \notin Unopened => Compatible'
    PROVE  SeenOK' /\ UsedOK'
  <1>1. Positions' = Positions
    BY DEF Positions
  <1>2. \A w \in Positions : ~(w[1] < 1)
    BY PositionFacts
  <1>3. Behind' = {}
    BY <1>1, <1>2 DEF Behind
  <1>4. \A a \in 1..Len(cfg'.archives) : ~(a < arch')
    BY Lengths
  <1>5. QED
    BY <1>3, <1>4 DEF SeenOK, UsedOK

\* A new archive passed the checks made before its first header.
LEMMA SeenFirst ==
    ASSUME HostTypeOK, SeenOK, cfg' = cfg, mode' = mode, devtype' = devtype, arch' = arch,
           entry' = 1, used' = {}, rc = "Success", pc = "process_tar_file", pc' = "tar_entry",
           cfg.archives[arch].intact
    PROVE  SeenOK' /\ UsedOK'
  <1>1. /\ Behind' = Behind /\ Positions' = Positions /\ Work' = Work
        /\ \A w \in Behind : w[1] # arch
    BY BehindFirst DEF AtArchive, InFile, ThorFile, LegacyFile
  <1>2. \A w : EntryAt(w[1], w[2])' = EntryAt(w[1], w[2])
    BY DEF EntryAt
  <1>3. SeenOK'
    <2>1. Compatible'
      BY AcceptableStays DEF SeenOK, Unopened
    <2>2. \A w \in Behind' : EntryAcceptable(EntryAt(w[1], w[2]), cfg.dry_run)'
      BY <1>1, AcceptableStays DEF SeenOK
    <2>3. \A v, w \in Behind' \cap Work' : SamePartition(v, w)' => v = w
      BY <1>1, <1>2 DEF SeenOK, SamePartition
    <2>4. \A a \in 1..Len(cfg'.archives) :
             a < arch' \/ (a = arch' /\ pc' \in AtArchive) => cfg'.archives[a].intact
      BY DEF SeenOK
    <2>5. QED  BY <2>1, <2>2, <2>3, <2>4 DEF SeenOK
  <1>4. Met' = {}
    BY <1>1 DEF Met
  <1>5. UsedOK'
    BY <1>4 DEF UsedOK, InFile, ThorFile, LegacyFile
  <1>6. QED  BY <1>3, <1>5

\* One more entry is behind the cursor and was no reason to fail.
LEMMA SeenNext ==
    ASSUME HostTypeOK, SeenOK, cfg' = cfg, mode' = mode, devtype' = devtype, arch' = arch,
           entry' = entry + 1, rc = "Success", pc \in AtArchive, pc' = "tar_entry",
           arch <= Len(cfg.archives), entry <= Len(cfg.archives[arch].entries),
           EntryAcceptable(Current, cfg.dry_run),
           Cursor \in Work => Current.part \notin Met,
           used' = Met \cup (IF Cursor \in Work THEN {Current.part} ELSE {})
    PROVE  SeenOK' /\ UsedOK'
  <1>1. /\ Behind' = Behind \cup {Cursor} /\ Cursor \notin Behind
        /\ Positions' = Positions /\ Work' = Work
    BY BehindNext DEF AtArchive
  <1>2. \A w : EntryAt(w[1], w[2])' = EntryAt(w[1], w[2])
    BY DEF EntryAt
  <1>3. Cursor[1] = arch /\ EntryAt(Cursor[1], Cursor[2]) = Current
    BY CursorPlace
  <1>4. SeenOK'
    <2>1. Compatible'
      BY AcceptableStays DEF SeenOK, Unopened, AtArchive, InFile, ThorFile, LegacyFile
    <2>2. \A w \in Behind' : EntryAcceptable(EntryAt(w[1], w[2]), cfg.dry_run)'
      BY <1>1, <1>3, AcceptableStays DEF SeenOK
    <2>3. \A v, w \in Behind' \cap Work' : SamePartition(v, w)' => v = w
      <3>1. \A v \in Behind \cap Work : Cursor \in Work => ~SamePartition(v, Cursor)
        BY <1>3 DEF SamePartition, Met
      <3>2. \A v \in Behind \cap Work : Cursor \in Work => ~SamePartition(Cursor, v)
        BY <3>1 DEF SamePartition
      <3>3. \A v, w \in Behind' \cap Work' : SamePartition(v, w)' <=> SamePartition(v, w)
        BY <1>2 DEF SamePartition
      <3>4. QED  BY <1>1, <3>1, <3>2, <3>3 DEF SeenOK
    <2>4. \A a \in 1..Len(cfg'.archives) :
             a < arch' \/ (a = arch' /\ pc' \in AtArchive) => cfg'.archives[a].intact
      BY DEF SeenOK
    <2>5. QED  BY <2>1, <2>2, <2>3, <2>4 DEF SeenOK
  <1>5. Met' = Met \cup (IF Cursor \in Work THEN {Current.part} ELSE {})
    BY <1>1, <1>2, <1>3 DEF Met
  <1>6. UsedOK'
    BY <1>5 DEF UsedOK, InFile, ThorFile, LegacyFile
  <1>7. QED  BY <1>4, <1>6

\* The end of an archive.
LEMMA SeenLast ==
    ASSUME HostTypeOK, SeenOK, cfg' = cfg, mode' = mode, devtype' = devtype, arch' = arch + 1,
           rc = "Success", pc = "tar_entry", pc' = "process_tar_file",
           entry > Len(cfg.archives[arch].entries)
    PROVE  SeenOK' /\ UsedOK'
  <1>1. Behind' = Behind /\ Positions' = Positions /\ Work' = Work
    BY BehindLast DEF AtArchive, InFile, ThorFile, LegacyFile
  <1>2. \A w : EntryAt(w[1], w[2])' = EntryAt(w[1], w[2])
    BY DEF EntryAt
  <1>3. arch \in Nat
    BY DEF HostTypeOK
  <1>4. SeenOK'
    <2>1. Compatible'
      BY AcceptableStays DEF SeenOK, Unopened
    <2>2. \A w \in Behind' : EntryAcceptable(EntryAt(w[1], w[2]), cfg.dry_run)'
      BY <1>1, AcceptableStays DEF SeenOK
    <2>3. \A v, w \in Behind' \cap Work' : SamePartition(v, w)' => v = w
      BY <1>1, <1>2 DEF SeenOK, SamePartition
    <2>4. \A a \in 1..Len(cfg'.archives) :
             a < arch' \/ (a = arch' /\ pc' \in AtArchive) => cfg'.archives[a].intact
      BY <1>3 DEF SeenOK, AtArchive, InFile, ThorFile, LegacyFile
    <2>5. QED  BY <2>1, <2>2, <2>3, <2>4 DEF SeenOK
  <1>5. UsedOK'
    BY DEF UsedOK, AtArchive, InFile, ThorFile, LegacyFile
  <1>6. QED  BY <1>4, <1>5

\* An image is begun: its partition joins the used ones.
LEMMA SeenEntered ==
    ASSUME HostTypeOK, SeenOK, cfg' = cfg, mode' = mode, devtype' = devtype, arch' = arch,
           entry' = entry, rc = "Success", pc = "tar_entry", pc' \in InFile,
           used' = Met \cup {Current.part}, Current.part \notin Met
    PROVE  SeenOK' /\ UsedOK'
  <1>1. Behind' = Behind /\ Positions' = Positions /\ Work' = Work
    BY BehindStays DEF AtArchive
  <1>2. \A w : EntryAt(w[1], w[2])' = EntryAt(w[1], w[2])
    BY DEF EntryAt
  <1>3. SeenOK'
    <2>1. Compatible'
      BY AcceptableStays DEF SeenOK, Unopened
    <2>2. \A w \in Behind' : EntryAcceptable(EntryAt(w[1], w[2]), cfg.dry_run)'
      BY <1>1, AcceptableStays DEF SeenOK
    <2>3. \A v, w \in Behind' \cap Work' : SamePartition(v, w)' => v = w
      BY <1>1, <1>2 DEF SeenOK, SamePartition
    <2>4. \A a \in 1..Len(cfg'.archives) :
             a < arch' \/ (a = arch' /\ pc' \in AtArchive) => cfg'.archives[a].intact
      BY DEF SeenOK, AtArchive
    <2>5. QED  BY <2>1, <2>2, <2>3, <2>4 DEF SeenOK
  <1>4. Met' = Met
    BY <1>1, <1>2 DEF Met
  <1>5. Current' = Current
    BY DEF Current
  <1>6. UsedOK'
    BY <1>4, <1>5 DEF UsedOK
  <1>7. QED  BY <1>3, <1>6

\* A raw entry holds no more than its header says.
LEMMA CurrentPlausible ==
    ASSUME HostTypeOK, arch <= Len(cfg.archives), entry <= Len(cfg.archives[arch].entries)
    PROVE  Plausible(Current)
  <1>1. arch \in 1..Len(cfg.archives) /\ entry \in 1..Len(cfg.archives[arch].entries)
    BY Lengths
  <1>2. QED
    BY <1>1, ConfigsAssumption DEF HostTypeOK, Current

LEMMA SeenHost ==
    ASSUME HostTypeOK, CursorOK, PartOK, DryOK, CodeOK, SeenOK, UsedOK, ImageOK, HostNext
    PROVE  SeenOK' /\ UsedOK'
  <1> USE DEF Goto, Wait, Stop, Abort, AbortExchange, link, cursor
  <1>0. cfg' = cfg
    BY DEF HostNext
  \* A run that has failed looks at nothing more.
  <1>x. ASSUME rc' # "Success", pc' \notin AtArchive  PROVE SeenOK' /\ UsedOK'
    BY <1>x DEF SeenOK, UsedOK
  <1>s. ASSUME pc \notin Unopened, mode' = mode, devtype' = devtype, arch' = arch, rc = "Success",
               pc \in AtArchive => entry' = entry /\ used' = used,
               pc \in AtArchive <=> pc' \in AtArchive, pc \in InFile <=> pc' \in InFile
        PROVE  SeenOK' /\ UsedOK'
    BY <1>0, <1>s, SeenStays
  <1>e. pc \in InFile \cup {"tar_entry"} => arch <= Len(cfg.archives)
    BY DEF CursorOK
  <1> USE DEF AtArchive, InFile, ThorFile, LegacyFile, Unopened
  <1>1. CASE OpenDevice \/ OdinLegacyHandshake \/ Handshake \/ RequestDeviceType
             \/ VerifyFirmwareCompatibility
    <2> USE DEF OpenDevice, OdinLegacyHandshake, Handshake, RequestDeviceType,
                VerifyFirmwareCompatibility
    <2>1. arch = 1 /\ arch' = arch /\ pc' \notin AtArchive
      BY <1>1 DEF CodeOK
    <2>2. pc' \notin Unopened => rc' # "Success" \/ Compatible'
      BY <1>0, <1>1 DEF CodeOK, Compatible
    <2>3. QED  BY <1>0, <1>x, <2>1, <2>2, SeenEarly
  <1>2. CASE BeginSession \/ OdinBeginSession \/ OdinFilePartSize
    <2>1. rc = "Success" /\ pc \notin Unopened /\ arch' = arch /\ mode' = mode /\ devtype' = devtype
      BY <1>2 DEF CodeOK, BeginSession, OdinBeginSession, OdinFilePartSize
    <2>2. pc \notin AtArchive /\ pc' \notin AtArchive
      BY <1>2 DEF BeginSession, OdinBeginSession, OdinFilePartSize
    <2>3. QED  BY <1>s, <2>1, <2>2
  <1>3. CASE RequestPit \/ ReceivePitTable \/ OdinDumpPit \/ OdinPitBlock \/ OdinPitData
             \/ OdinEndPit
    <2> USE DEF RequestPit, ReceivePitTable, OdinDumpPit, OdinPitBlock, OdinPitData, OdinEndPit,
                ParsePit
    <2>1. rc = "Success" /\ pc \notin Unopened /\ arch' = arch /\ mode' = mode /\ devtype' = devtype
      BY <1>3 DEF CodeOK
    <2>2. pc \notin AtArchive /\ pc' \notin AtArchive
      BY <1>3
    <2>3. QED  BY <1>s, <2>1, <2>2
  <1>4. CASE ProcessTarFile
    <2>1. CASE cfg.archives[arch].intact
      BY <1>0, <1>4, <2>1, SeenFirst DEF ProcessTarFile, CodeOK
    <2>2. CASE ~cfg.archives[arch].intact
      BY <1>4, <1>x, <2>2 DEF ProcessTarFile
    <2>3. QED  BY <2>1, <2>2
  <1>5. CASE ArchivesDone
    BY <1>5, <1>s DEF ArchivesDone, CodeOK
  <1>6. CASE EndOfArchive
    BY <1>0, <1>6, SeenLast DEF EndOfArchive, CodeOK
  <1>7. CASE BadEntry \/ RejectEntry
    BY <1>7, <1>x DEF BadEntry, RejectEntry
  <1>8. CASE SkipEntry
    <2>1. /\ pc = "tar_entry" /\ pc' = "tar_entry" /\ rc = "Success"
          /\ arch <= Len(cfg.archives) /\ entry <= Len(cfg.archives[arch].entries)
          /\ entry' = entry + 1 /\ arch' = arch /\ mode' = mode /\ devtype' = devtype
          /\ used' = Met
      BY <1>8, <1>e DEF SkipEntry, AtEntry, NextEntry, CodeOK, UsedOK
    <2>2. EntryAcceptable(Current, cfg.dry_run) /\ ~(Current.kind = "file" /\ Current.part # 0)
      BY <1>8 DEF SkipEntry, EntryAcceptable
    <2>3. Cursor \notin Work
      BY <2>1, <2>2, CursorPlace
    <2>4. QED  BY <1>0, <2>1, <2>2, <2>3, SeenNext
  <1>9. CASE CheckEntry
    <2>1. /\ pc = "tar_entry" /\ rc = "Success"
          /\ arch <= Len(cfg.archives) /\ entry <= Len(cfg.archives[arch].entries)
          /\ arch' = arch /\ mode' = mode /\ devtype' = devtype
          /\ used = Met /\ used' = Met \cup {Current.part} /\ Current.part \notin Met
      BY <1>9, <1>e DEF CheckEntry, Fresh, AtEntry, NextEntry, CodeOK, UsedOK
    <2>2. CASE Current.lz4 /\ ~Decodes(Current)
      BY <1>9, <1>x, <2>2 DEF CheckEntry
    <2>3. CASE ~(Current.lz4 /\ ~Decodes(Current))
      <3>1. EntryAcceptable(Current, cfg.dry_run)
        BY <1>9, <2>3 DEF CheckEntry, Fresh, EntryAcceptable, ImageAcceptable
      <3>2. Cursor \in Work
        BY <1>9, <2>1, CursorPlace DEF CheckEntry, Fresh
      <3>3. entry' = entry + 1 /\ pc' = "tar_entry"
        BY <1>9, <2>3 DEF CheckEntry, NextEntry
      <3>4. QED  BY <1>0, <2>1, <3>1, <3>2, <3>3, SeenNext
    <2>4. QED  BY <2>2, <2>3
  <1>10. CASE FlashEntry
    <2>1. CASE Current.lz4 /\ (mode = "OdinLegacy" \/ ~Current.readable)
      BY <1>10, <1>x, <2>1 DEF FlashEntry
    <2>2. CASE ~(Current.lz4 /\ (mode = "OdinLegacy" \/ ~Current.readable))
      <3>1. /\ pc = "tar_entry" /\ rc = "Success" /\ pc' \in InFile
            /\ arch' = arch /\ entry' = entry /\ mode' = mode /\ devtype' = devtype
            /\ used = Met /\ used' = Met \cup {Current.part} /\ Current.part \notin Met
        BY <1>10, <2>2 DEF FlashEntry, Fresh, AtEntry, CodeOK, UsedOK
      <3>2. SeenOK'
        BY <1>0, <3>1, SeenEntered
      <3>3. UsedOK'
        BY <1>0, <3>1, SeenEntered
      <3>4. QED  BY <3>2, <3>3
    <2>3. QED  BY <2>1, <2>2
  <1>11. CASE \/ SendFilePartHeader \/ SendFilePartChunk \/ FilePartData \/ ChunksDone
              \/ OdinRequestFileFlash \/ OdinRequestSequenceFlash \/ OdinSendFilePart
              \/ OdinReadFails \/ OdinEndSequenceFlash
    <2> USE DEF SendFilePartHeader, SendFilePartChunk, FilePartData, ChunksDone,
                OdinRequestFileFlash, OdinRequestSequenceFlash, OdinSendFilePart,
                OdinReadFails, OdinEndSequenceFlash
    <2>1. /\ rc = "Success" /\ pc \in InFile /\ arch' = arch /\ entry' = entry /\ used' = used
          /\ mode' = mode /\ devtype' = devtype
      BY <1>11 DEF CodeOK
    <2>2. pc' \in InFile \/ (rc' # "Success" /\ pc' = "end_session")
      BY <1>11
    <2>3. QED  BY <1>s, <1>x, <2>1, <2>2
  <1>12. CASE EndFileTransfer \/ OdinResetFlashCount
    <2> USE DEF EndFileTransfer, OdinResetFlashCount
    <2>1. /\ rc = "Success" /\ pc \in InFile /\ arch' = arch /\ used' = used
          /\ mode' = mode /\ devtype' = devtype
      BY <1>12 DEF CodeOK
    <2>2. \/ pc' = pc /\ entry' = entry
          \/ pc' = "tar_entry" /\ entry' = entry + 1
          \/ rc' # "Success" /\ pc' = "end_session"
      BY <1>12
    <2>3. CASE pc' = "tar_entry" /\ entry' = entry + 1
      <3>1. /\ arch <= Len(cfg.archives) /\ entry <= Len(cfg.archives[arch].entries)
            /\ Current.kind = "file" /\ Current.part # 0
        BY <1>12 DEF CursorOK
      <3>2. Cursor \in Work
        BY <3>1, CursorPlace
      <3>3. EntryAcceptable(Current, cfg.dry_run)
        <4>1. ~cfg.dry_run
          BY <2>1 DEF DryOK, WriteLocations
        <4>2. /\ Current.announced \in Nat /\ Current.available \in Nat
              /\ ~Current.lz4 => Current.available <= Current.announced
          BY <3>1, CurrentTyped, CurrentPlausible DEF Entries, Plausible
        <4>3. CASE EndFileTransfer
          <5>1. /\ mode = "Thor" /\ (Current.lz4 => Current.readable)
                /\ Current.available = Current.announced
            BY <4>3 DEF ImageOK, PartOK
          <5>2. QED  BY <3>1, <4>1, <5>1 DEF EntryAcceptable, ImageAcceptable
        <4>4. CASE OdinResetFlashCount
          <5>1. /\ mode = "OdinLegacy" /\ ~Current.lz4
                /\ Current.announced > 0 /\ Current.announced <= Current.available
            BY <4>4 DEF ImageOK
          <5>2. QED  BY <3>1, <4>1, <4>2, <5>1 DEF EntryAcceptable, ImageAcceptable
        <4>5. QED  BY <1>12, <4>3, <4>4
      <3>4. used' = Met \cup {Current.part} /\ Current.part \notin Met
        BY <2>1 DEF UsedOK
      <3>5. QED  BY <1>0, <2>1, <2>3, <3>1, <3>2, <3>3, <3>4, SeenNext
    <2>4. CASE pc' = pc /\ entry' = entry
      BY <1>s, <2>1, <2>4
    <2>5. QED  BY <1>x, <2>2, <2>3, <2>4
  <1>13. CASE SendReboot \/ SendRedownload
    <2>1. rc = "Success" /\ arch' = arch /\ mode' = mode /\ devtype' = devtype
      BY <1>13 DEF CodeOK, SendReboot, SendRedownload
    <2>2. pc \notin AtArchive /\ pc' \notin AtArchive /\ pc \notin Unopened
      BY <1>13 DEF SendReboot, SendRedownload
    <2>3. QED  BY <1>s, <2>1, <2>2
  <1>14. CASE EndSession
    <2>1. /\ arch' = arch /\ mode' = mode /\ devtype' = devtype
          /\ pc \notin AtArchive /\ pc' \notin AtArchive /\ pc \notin Unopened
          /\ rc' = "Success" => rc = "Success"
      BY <1>14 DEF EndSession
    <2>2. QED  BY <1>s, <1>x, <2>1
  <1>15. QED
    BY <1>1, <1>2, <1>3, <1>4, <1>5, <1>6, <1>7, <1>8, <1>9, <1>10, <1>11, <1>12, <1>13,
       <1>14 DEF HostNext

\* A PIT that cannot be used stops the run before the archives.
LEMMA PitHost ==
    ASSUME HostTypeOK, CodeOK, PitOK, HostNext
    PROVE  PitOK'
  <1> USE DEF Goto, Wait, Stop, Abort, AbortExchange
  <1> USE DEF PitOK, AtArchive, InFile, ThorFile, LegacyFile, Closing
  <1>0. profile' = profile
    BY DEF HostNext, device
  <1>1. CASE OpenDevice \/ OdinLegacyHandshake \/ Handshake \/ RequestDeviceType
             \/ VerifyFirmwareCompatibility \/ BeginSession \/ OdinBeginSession
             \/ OdinFilePartSize
    BY <1>1 DEF OpenDevice, OdinLegacyHandshake, Handshake, RequestDeviceType,
        VerifyFirmwareCompatibility, BeginSession, OdinBeginSession, OdinFilePartSize
  <1>2. CASE RequestPit \/ ReceivePitTable \/ OdinDumpPit \/ OdinPitBlock \/ OdinPitData
             \/ OdinEndPit
    BY <1>0, <1>2 DEF RequestPit, ReceivePitTable, OdinDumpPit, OdinPitBlock, OdinPitData,
        OdinEndPit, ParsePit
  <1>3. CASE ProcessTarFile \/ ArchivesDone \/ EndOfArchive \/ BadEntry \/ SkipEntry
             \/ RejectEntry \/ CheckEntry \/ FlashEntry
    <2>1. pc \in {"process_tar_file", "tar_entry"} /\ rc = "Success"
      BY <1>3 DEF ProcessTarFile, ArchivesDone, EndOfArchive, BadEntry, SkipEntry, RejectEntry,
          CheckEntry, FlashEntry, Fresh, AtEntry, CodeOK
    <2>2. QED  BY <1>0, <2>1
  <1>4. CASE \/ SendFilePartHeader \/ SendFilePartChunk \/ FilePartData \/ ChunksDone
             \/ EndFileTransfer \/ OdinRequestFileFlash \/ OdinRequestSequenceFlash
             \/ OdinSendFilePart \/ OdinReadFails \/ OdinEndSequenceFlash
             \/ OdinResetFlashCount
    <2>1. pc \in InFile /\ rc = "Success"
      BY <1>4 DEF SendFilePartHeader, SendFilePartChunk, FilePartData, ChunksDone,
          EndFileTransfer, OdinRequestFileFlash, OdinRequestSequenceFlash, OdinSendFilePart,
          OdinReadFails, OdinEndSequenceFlash, OdinResetFlashCount, CodeOK
    <2>2. QED  BY <1>0, <2>1
  <1>5. CASE SendReboot \/ SendRedownload \/ EndSession
    <2>1. pc \in Closing /\ (rc' = "Success" => rc = "Success")
      BY <1>5 DEF SendReboot, SendRedownload, EndSession, CodeOK
    <2>2. QED  BY <1>0, <2>1
  <1>6. QED
    BY <1>1, <1>2, <1>3, <1>4, <1>5 DEF HostNext

-----------------------------------------------------------------------------
(* The verdict.                                                            *)

VerdictIInv == TypeInv /\ DryOK /\ VerdictInv

LEMMA VerdictInit ==
    ASSUME Init
    PROVE  VerdictIInv
  <1>1. TypeInv /\ DryOK
    BY DryInit DEF DryInv
  <1>2. HostTypeOK
    BY <1>1, TypeParts DEF TypeInv
  <1>3. Behind = {}
    <2>1. \A w \in Positions : ~(w[1] < 1)
      BY <1>2, PositionFacts
    <2>2. QED  BY <2>1 DEF Init, Behind, AtArchive, InFile, ThorFile, LegacyFile
  <1>4. SeenOK /\ UsedOK
    <2>1. \A a \in 1..Len(cfg.archives) : ~(a < arch)
      BY <1>2, Lengths DEF Init
    <2>2. QED
      BY <1>3, <2>1 DEF Init, SeenOK, UsedOK, AtArchive, InFile, ThorFile, LegacyFile, Unopened
  <1>5. CodeOK /\ PitOK /\ ImageOK /\ FaultOK
    BY DEF Init, CodeOK, PitOK, ImageOK, FaultOK, Unopened, AtArchive, Closing, InFile, ThorFile,
        LegacyFile
  <1>6. QED  BY <1>1, <1>4, <1>5 DEF VerdictIInv, VerdictInv

LEMMA VerdictStays ==
    ASSUME VerdictInv, UNCHANGED host, phase' = phase, profile' = profile
    PROVE  VerdictInv'
  <1>1. /\ cfg' = cfg /\ pc' = pc /\ rc' = rc /\ trouble' = trouble /\ mode' = mode
        /\ devtype' = devtype /\ arch' = arch /\ entry' = entry /\ part' = part
        /\ used' = used
    BY DEF host, link, cursor
  <1>2. Behind' = Behind /\ Positions' = Positions /\ Work' = Work
    BY <1>1, BehindStays
  <1>3. \A w : EntryAt(w[1], w[2])' = EntryAt(w[1], w[2])
    BY <1>1 DEF EntryAt
  <1>4. Current' = Current
    BY <1>1 DEF Current
  <1>5. CodeOK' /\ PitOK' /\ FaultOK' /\ ImageOK'
    BY <1>1, <1>4, AcceptableStays DEF VerdictInv, CodeOK, PitOK, FaultOK, ImageOK
  <1>6. SeenOK'
    <2>1. Compatible' <=> Compatible
      BY <1>1, AcceptableStays
    <2>2. \A w : EntryAcceptable(EntryAt(w[1], w[2]), cfg.dry_run)'
                   <=> EntryAcceptable(EntryAt(w[1], w[2]), cfg.dry_run)
      BY <1>1, AcceptableStays
    <2>3. \A v, w : SamePartition(v, w)' <=> SamePartition(v, w)
      BY <1>3 DEF SamePartition
    <2>4. QED  BY <1>1, <1>2, <2>1, <2>2, <2>3 DEF VerdictInv, SeenOK
  <1>7. UsedOK'
    <2>1. Met' = Met
      BY <1>1, <1>2, <1>3 DEF Met
    <2>2. QED  BY <1>1, <1>4, <2>1 DEF VerdictInv, UsedOK
  <1>8. QED  BY <1>5, <1>6, <1>7 DEF VerdictInv

LEMMA VerdictNext ==
    ASSUME VerdictIInv, [Next]_vars
    PROVE  VerdictIInv'
  <1>0. /\ TypeInv /\ HostTypeOK /\ CursorOK /\ PartOK /\ DryOK
        /\ CodeOK /\ SeenOK /\ PitOK /\ UsedOK /\ ImageOK /\ FaultOK
    BY TypeParts DEF VerdictIInv, VerdictInv, TypeInv
  <1>1. TypeInv' /\ DryOK'
    BY DryNext DEF VerdictIInv, DryInv
  <1>2. CASE HostNext
    BY <1>0, <1>1, <1>2, ImageHost, FaultHost, SeenHost, PitHost DEF VerdictIInv, VerdictInv
  <1>3. CASE DeviceNext /\ UNCHANGED host
    <2>1. phase' = phase /\ profile' = profile
      BY <1>3 DEF DeviceNext, DeviceInform, DeviceBegin, DeviceEnd, DeviceStartFile,
          DeviceStartPart, DeviceTakeData, DeviceFinalise, DeviceRefuse, DeviceIgnore,
          DeviceProgress, Serve, device
    <2>2. QED  BY <1>1, <1>3, <2>1, VerdictStays DEF VerdictIInv
  <1>4. CASE UNCHANGED vars
    BY <1>1, <1>4, VerdictStays DEF VerdictIInv, vars, chan, device
  <1>5. QED  BY <1>2, <1>3, <1>4 DEF Next

\* What the verdict rests on: the exit code is still Success exactly while
\* nothing behind the cursor is a reason to fail.
THEOREM VerdictInvariant == Spec => []VerdictInv
  <1>1. Init => VerdictIInv
    BY VerdictInit
  <1>2. VerdictIInv /\ [Next]_vars => VerdictIInv'
    BY VerdictNext
  <1>3. VerdictIInv => VerdictInv
    BY DEF VerdictIInv
  <1>4. QED
    BY <1>1, <1>2, <1>3, PTL DEF Spec

\* run_for_device returns Success exactly when no exchange with the device
\* failed and every archive passes every check that process_tar_file and
\* verify_firmware_compatibility make: no path through them loses an error
\* and none invents one, for every invocation and whatever the device does.
THEOREM VerdictsAreExact == Spec => []VerdictExact
  <1>1. Init => VerdictIInv
    BY VerdictInit
  <1>2. VerdictIInv /\ [Next]_vars => VerdictIInv'
    BY VerdictNext
  <1>3. VerdictIInv => VerdictExact
    <2> SUFFICES ASSUME VerdictIInv, pc = "exit"
                 PROVE  rc = "Success" <=> Acceptable(cfg.dry_run) /\ ~trouble
      BY DEF VerdictExact
    <2>1. HostTypeOK /\ CodeOK /\ SeenOK /\ PitOK /\ FaultOK
      BY TypeParts DEF VerdictIInv, VerdictInv, TypeInv
    <2>2. ASSUME rc = "Success"
          PROVE  Acceptable(cfg.dry_run) /\ ~trouble
      <3>1. arch > Len(cfg.archives) /\ ~trouble /\ pc \notin AtArchive /\ pc \notin Unopened
        BY <2>1, <2>2 DEF CodeOK, Closing, AtArchive, InFile, ThorFile, LegacyFile, Unopened
      <3>2. Behind = Positions
        BY <2>1, <3>1, BehindAll
      <3>3. Work \subseteq Positions
        BY DEF Work
      <3>4. \A a \in 1..Len(cfg.archives) : a < arch
        BY <2>1, <3>1, Lengths DEF HostTypeOK
      <3>5. profile.pit
        BY <2>1, <2>2 DEF PitOK, Closing
      <3>6. QED
        BY <2>1, <2>2, <3>1, <3>2, <3>3, <3>4, <3>5 DEF SeenOK, SamePartition, Acceptable
    <2>3. QED  BY <2>1, <2>2 DEF FaultOK
  <1>4. QED
    BY <1>1, <1>2, <1>3, PTL DEF Spec

-----------------------------------------------------------------------------
(* No progress replies.                                                    *)

LEMMA FinalHostReplies ==
    ASSUME ChannelTypeOK(Ops), HostTypeOK, CursorOK, PartOK, RepliesFinal, HostNext
    PROVE  RepliesFinal'
  <1>1. UNCHANGED chan \/ Took \/ Gave \/ Wrote
    BY WireStep
  <1>2. inq \in Seq(Reply)
    BY DEF ChannelTypeOK
  <1>3. inq' = inq \/ (inq # <<>> /\ inq' = Tail(inq))
    BY <1>1 DEF chan, Took, Gave, Wrote, Send
  <1>4. CASE inq' = inq
    BY <1>4 DEF RepliesFinal
  <1>5. CASE inq # <<>> /\ inq' = Tail(inq)
    <2>1. \A i \in 1..Len(inq') : i + 1 \in 1..Len(inq) /\ inq'[i] = inq[i + 1]
      BY <1>2, <1>5
    <2>2. QED  BY <2>1 DEF RepliesFinal
  <1>6. QED  BY <1>3, <1>4, <1>5

\* The device settles the oldest request: what it says is final.
Settles == \E replies \in Seq(Reply) :
    Serve(replies) /\ \A i \in 1..Len(replies) : replies[i].code # "progress"

LEMMA OneSettles ==
    ASSUME ChannelTypeOK(Ops), outq # <<>>,
           NEW kind \in Kinds, NEW code \in {"ok", "fail"}, NEW val \in Nat,
           Serve(<<Answer(kind, code, val)>>)
    PROVE  Settles
  <1> DEFINE r == Answer(kind, code, val)
  <1>1. r \in Reply /\ r.code = code
    BY AnswerTyped DEF Answer, Codes
  <1>2. Serve(<<r>>)
    OBVIOUS
  <1> HIDE DEF r
  <1>3. <<r>> \in Seq(Reply) /\ \A i \in 1..Len(<<r>>) : <<r>>[i].code # "progress"
    BY <1>1
  <1>4. QED  BY <1>2, <1>3 DEF Settles

LEMMA TwoSettle ==
    ASSUME ChannelTypeOK(Ops), outq # <<>>, NEW k1 \in Kinds, NEW k2 \in Kinds,
           NEW code \in {"ok", "fail"}, Serve(<<Answer(k1, code, 0), Answer(k2, "ok", 0)>>)
    PROVE  Settles
  <1> DEFINE r == Answer(k1, code, 0)
             s == Answer(k2, "ok", 0)
  <1>1. r \in Reply /\ r.code = code /\ s \in Reply /\ s.code = "ok"
    BY AnswerTyped DEF Answer, Codes
  <1>2. Serve(<<r, s>>)
    OBVIOUS
  <1> HIDE DEF r, s
  <1>3. <<r, s>> \in Seq(Reply) /\ \A i \in 1..Len(<<r, s>>) : <<r, s>>[i].code # "progress"
    BY <1>1
  <1>4. QED  BY <1>2, <1>3 DEF Settles

LEMMA AckSettles ==
    ASSUME ChannelTypeOK(Ops), outq # <<>>, NEW val \in Nat, Serve(Ack(val))
    PROVE  Settles
  <1> DEFINE kind == IF profile.proto = "Thor" THEN "RESPONSE" ELSE "RSP8"
  <1>1. kind \in Kinds /\ Serve(<<Answer(kind, "ok", val)>>)
    BY DEF Kinds, Ack
  <1> HIDE DEF kind
  <1>2. QED  BY <1>1, OneSettles

LEMMA DeviceSettles ==
    ASSUME ~ProgressReplies, ChannelTypeOK(Ops), DeviceTypeOK, DeviceNext
    PROVE  Settles
  <1>p. profile.type \in Nat /\ profile.version \in Nat /\ 0 \in Nat /\ Len(xfer) \in Nat
    <2>1. profile.type \in DeviceTypes \cup {0} /\ profile.version \in {1, 2}
      BY DEF DeviceTypeOK, Profiles, NoType
    <2>2. \A t \in DeviceTypes : t \in Nat
      BY DeviceTypesAssumption
    <2>3. QED  BY <2>1, <2>2 DEF DeviceTypeOK
  <1>o. outq # <<>>
    BY DeviceShape DEF Answers
  <1>1. CASE DeviceInform
    BY <1>1, <1>p, <1>o, AckSettles, OneSettles, TwoSettle DEF DeviceInform, Kinds
  <1>2. CASE DeviceBegin
    BY <1>2, <1>p, <1>o, AckSettles DEF DeviceBegin
  <1>3. CASE DeviceEnd
    BY <1>3, <1>p, <1>o, AckSettles DEF DeviceEnd
  <1>4. CASE DeviceStartFile
    BY <1>4, <1>p, <1>o, AckSettles DEF DeviceStartFile
  <1>5. CASE DeviceStartPart
    BY <1>5, <1>p, <1>o, AckSettles DEF DeviceStartPart
  <1>6. CASE DeviceTakeData
    BY <1>6, <1>p, <1>o, AckSettles DEF DeviceTakeData
  <1>7. CASE DeviceFinalise
    BY <1>7, <1>p, <1>o, AckSettles DEF DeviceFinalise
  <1>8. CASE DeviceRefuse
    <2> DEFINE kind == IF profile.proto = "Thor" THEN "RESPONSE" ELSE "RSP8"
    <2>1. kind \in Kinds /\ Serve(<<Answer(kind, "fail", 0)>>)
      BY <1>8 DEF Kinds, DeviceRefuse
    <2> HIDE DEF kind
    <2>2. QED  BY <1>o, <1>p, <2>1, OneSettles
  <1>9. CASE DeviceIgnore
    <2> DEFINE none == <<>>
    <2>1. none \in Seq(Reply) /\ Len(none) = 0 /\ Serve(none)
      BY <1>9 DEF DeviceIgnore
    <2> HIDE DEF none
    <2>2. \A i \in 1..Len(none) : none[i].code # "progress"
      BY <2>1
    <2>3. QED  BY <2>1, <2>2 DEF Settles
  <1>10. CASE DeviceProgress
    BY <1>10 DEF DeviceProgress
  <1>11. QED
    BY <1>1, <1>2, <1>3, <1>4, <1>5, <1>6, <1>7, <1>8, <1>9, <1>10 DEF DeviceNext

LEMMA FinalDeviceReplies ==
    ASSUME ~ProgressReplies, ChannelTypeOK(Ops), DeviceTypeOK, RepliesFinal, DeviceNext
    PROVE  RepliesFinal'
  <1>1. PICK replies \in Seq(Reply) :
            Serve(replies) /\ \A i \in 1..Len(replies) : replies[i].code # "progress"
    BY DeviceSettles DEF Settles
  <1>2. outq # <<>>
    BY DeviceShape DEF Answers
  <1>3. /\ Len(inq') = Len(inq) + Len(replies)
        /\ \A i \in 1..Len(inq') :
              inq'[i] = IF i <= Len(inq) THEN inq[i] ELSE replies[i - Len(inq)]
        /\ Len(inq) \in Nat /\ Len(replies) \in Nat
    BY <1>1, <1>2, ServeFacts DEF ChannelTypeOK
  <1>4. ASSUME NEW i \in 1..Len(inq')
        PROVE  inq'[i].code # "progress"
    <2>1. CASE i <= Len(inq)
      BY <1>3, <2>1 DEF RepliesFinal
    <2>2. CASE ~(i <= Len(inq))
      <3>1. i - Len(inq) \in 1..Len(replies) /\ inq'[i] = replies[i - Len(inq)]
        BY <1>3, <2>2
      <3>2. QED  BY <1>1, <3>1
    <2>3. QED  BY <2>1, <2>2
  <1>5. QED  BY <1>4 DEF RepliesFinal

-----------------------------------------------------------------------------
(* The stage of the device.                                                *)

\* What a device step does to the stage, by the request it handles.
LEMMA DeviceStages ==
    ASSUME ~ProgressReplies, ChannelTypeOK(Ops), DeviceNext, inq = <<>>
    PROVE  LET op == Head(outq).op
               arg == Head(outq).arg
               ok == inq' # <<>> /\ Head(inq').code = "ok"
           IN  /\ op \in {"BEGIN_SESSION", "BeginSession"} =>
                     stage' = IF ok THEN "session" ELSE stage
               /\ op \in {"END_SESSION", "EndSession", "CONTROL_REBOOT", "CONTROL_REDOWNLOAD",
                          "Reboot"} =>
                     stage' = IF ok THEN "idle" ELSE stage
               /\ op \in {"FILE_PART_SIZE", "RequestFileFlash"} =>
                     stage' = IF ok THEN "file" ELSE stage
               /\ op \in {"FILE_PART", "RequestSequenceFlash"} =>
                     stage' = (IF ok THEN "part" ELSE stage) /\ (ok => due' = arg[1])
               /\ op = "FILE_DATA" => stage' = IF ok THEN "file" ELSE stage
               /\ op = "SendFilePart" =>
                     /\ stage' = IF ok THEN "part" ELSE stage
                     /\ due' = IF ok THEN due - 1 ELSE due
               /\ op \in {"END_FILE_TRANSFER", "EndSequenceFlash"} =>
                     /\ stage' = IF ok THEN (IF arg[2] = 1 THEN "session" ELSE "file") ELSE stage
                     /\ due' = due
               /\ op \in {"ODIN", "HANDSHAKE", "DEVICE_TYPE", "SendFilePartSize", "PIT_FILE",
                          "RequestPitDump", "PitDumpBlock", "EndPitDump", "ResetFlashCount"} =>
                     stage' = stage
               /\ flashed' = IF ok /\ op \in {"END_FILE_TRANSFER", "EndSequenceFlash"} /\ arg[2] = 1
                             THEN Append(flashed, [part |-> arg[1], data |-> xfer])
                             ELSE flashed
  <1> DEFINE ok == inq' # <<>> /\ Head(inq').code = "ok"
  <1>1. ASSUME NEW kind, NEW code, NEW val, Serve(<<Answer(kind, code, val)>>)
        PROVE  ok <=> code = "ok"
    <2> DEFINE r == Answer(kind, code, val)
    <2>1. r.code = code  BY DEF Answer
    <2> HIDE DEF r
    <2>2. inq' = <<r>>  BY <1>1 DEF Serve, r
    <2>3. QED  BY <2>1, <2>2
  <1>2. ASSUME NEW val, Serve(Ack(val))
        PROVE  ok
    BY <1>1, <1>2 DEF Ack
  <1> HIDE DEF ok
  <1> USE DEF Pending
  <1>3. CASE DeviceInform
    BY <1>3 DEF DeviceInform, device, ok
  <1>4. CASE DeviceBegin
    BY <1>2, <1>4 DEF DeviceBegin, ok
  <1>5. CASE DeviceEnd
    BY <1>2, <1>5 DEF DeviceEnd, ok
  <1>6. CASE DeviceStartFile
    BY <1>2, <1>6 DEF DeviceStartFile, ok
  <1>7. CASE DeviceStartPart
    BY <1>2, <1>7 DEF DeviceStartPart, Arg, ok
  <1>8. CASE DeviceTakeData
    BY <1>2, <1>8 DEF DeviceTakeData, OpsOf, ThorOps, LegacyOps, ok
  <1>9. CASE DeviceFinalise
    BY <1>2, <1>9 DEF DeviceFinalise, Arg, ok
  <1>10. CASE DeviceRefuse
    <2>1. ~ok
      BY <1>1, <1>10 DEF DeviceRefuse
    <2>2. QED  BY <1>10, <2>1 DEF DeviceRefuse, ok
  <1>11. CASE DeviceIgnore
    <2>1. inq' = <<>>  BY <1>11 DEF DeviceIgnore, Serve
    <2>2. QED  BY <1>11, <2>1 DEF DeviceIgnore, device
  <1>12. CASE DeviceProgress
    BY <1>12 DEF DeviceProgress
  <1>13. QED
    BY <1>3, <1>4, <1>5, <1>6, <1>7, <1>8, <1>9, <1>10, <1>11, <1>12 DEF DeviceNext

\* The request the host makes for one image.
LEMMA AtEndFile ==
    ASSUME HostNext, pc = "end_file_transfer"
    PROVE  EndFileTransfer
  BY DEF HostNext, OpenDevice, OdinLegacyHandshake, Handshake, RequestDeviceType,
     VerifyFirmwareCompatibility, BeginSession, OdinBeginSession, OdinFilePartSize,
     RequestPit, ReceivePitTable, OdinDumpPit, OdinPitBlock, OdinPitData, OdinEndPit,
     ProcessTarFile, ArchivesDone, EndOfArchive, BadEntry, SkipEntry, RejectEntry,
     CheckEntry, FlashEntry, Fresh, AtEntry, SendFilePartHeader, SendFilePartChunk,
     FilePartData, ChunksDone, OdinRequestFileFlash, OdinRequestSequenceFlash,
     OdinSendFilePart, OdinReadFails, OdinEndSequenceFlash, OdinResetFlashCount,
     SendReboot, SendRedownload, EndSession

LEMMA AtSequence ==
    ASSUME HostNext, pc = "odin_request_sequence_flash"
    PROVE  OdinRequestSequenceFlash
  BY DEF HostNext, OpenDevice, OdinLegacyHandshake, Handshake, RequestDeviceType,
     VerifyFirmwareCompatibility, BeginSession, OdinBeginSession, OdinFilePartSize,
     RequestPit, ReceivePitTable, OdinDumpPit, OdinPitBlock, OdinPitData, OdinEndPit,
     ProcessTarFile, ArchivesDone, EndOfArchive, BadEntry, SkipEntry, RejectEntry,
     CheckEntry, FlashEntry, Fresh, AtEntry, SendFilePartHeader, SendFilePartChunk,
     FilePartData, ChunksDone, EndFileTransfer, OdinRequestFileFlash, OdinSendFilePart,
     OdinReadFails, OdinEndSequenceFlash, OdinResetFlashCount, SendReboot,
     SendRedownload, EndSession

LEMMA OperatedHost ==
    ASSUME ChannelTypeOK(Ops), HostTypeOK, CursorOK, PartOK, TroubleEnds, Lockstep,
           ~trouble', HostNext
    PROVE  Operated'
  <1>1. ~trouble /\ Lockstep'
    BY TroubleEndsKept, LockstepHost
  <1>2. CASE HostAsks
    <2> PICK op \in Ops, arg \in Seq(Nat) : Send(op, arg) /\ Stays
      BY <1>2 DEF HostAsks
    <2>1. pc' = pc /\ part' = part /\ SequenceEnd' = SequenceEnd /\ phase = "send" /\ phase' = "recv"
      <3>1. cfg' = cfg /\ Stays
        BY DEF HostNext
      <3>2. QED  BY <3>1 DEF Stays, Send, SequenceEnd, MinOf, Current
    <2>2. ASSUME pc = "odin_request_sequence_flash"
          PROVE  outq'[1].arg[1] = SequenceEnd - part
      <3> DEFINE q == [n |-> sent + 1, op |-> "RequestSequenceFlash", arg |-> <<SequenceEnd - part>>]
      <3>1. outq' = Append(outq, q)
        <4>1. OdinRequestSequenceFlash
          BY <2>2, AtSequence
        <4>2. QED  BY <2>1, <4>1, ReceivePhase, FailsPhase DEF OdinRequestSequenceFlash, Send
      <3>2. outq = <<>>
        BY <1>1, <2>1, <2>2 DEF Lockstep, InStep
      <3>3. q.arg[1] = SequenceEnd - part
        OBVIOUS
      <3> HIDE DEF q
      <3>4. QED  BY <3>1, <3>2, <3>3
    <2>3. ASSUME pc = "end_file_transfer"
          PROVE  outq'[1].arg[2] = 1
      <3> DEFINE q == [n |-> sent + 1, op |-> "END_FILE_TRANSFER", arg |-> <<Current.part, 1>>]
      <3>1. outq' = Append(outq, q)
        <4>1. EndFileTransfer
          BY <2>3, AtEndFile
        <4>2. QED  BY <2>1, <4>1, ReceivePhase, FailsPhase DEF EndFileTransfer, Send
      <3>2. outq = <<>>
        BY <1>1, <2>1, <2>3 DEF Lockstep, InStep
      <3>3. q.arg[2] = 1
        OBVIOUS
      <3> HIDE DEF q
      <3>4. QED  BY <3>1, <3>2, <3>3
    <2>4. QED  BY <2>1, <2>2, <2>3 DEF Operated
  <1>3. CASE HostReads \/ HostWorks \/ HostTurns
    <2>1. phase' = "send"
      BY <1>3 DEF HostReads, HostWorks, HostTurns, Read, chan
    <2>2. pc' # "handshake" => outq' = <<>>
      BY <1>1, <2>1 DEF Lockstep, InStep
    <2>3. QED  BY <2>2 DEF Operated
  <1>4. CASE HostReadsOn
    BY <1>4 DEF HostReadsOn, Operated
  <1>5. QED
    BY <1>2, <1>3, <1>4, HostShape DEF HostGivesUp

LEMMA StagedHost ==
    ASSUME InStepInv, RepliesFinal, Staged, ~trouble', HostNext
    PROVE  Staged'
  <1>0. /\ ChannelTypeOK(Ops) /\ DeviceTypeOK /\ HostTypeOK /\ CursorOK /\ PartOK
        /\ TroubleEnds /\ Lockstep
    BY TypeParts DEF InStepInv, TypeInv
  <1>t. ~trouble
    BY <1>0, TroubleEndsKept
  <1>x. stage' = stage /\ due' = due /\ cfg' = cfg
    BY DEF HostNext, device
  <1>n. /\ part \in Nat /\ seqend \in Nat
        /\ pc = "odin_send_file_part" => part < seqend
    BY <1>0 DEF HostTypeOK, PartOK
  <1>a. CASE HostAsks
    <2> PICK op \in Ops, arg \in Seq(Nat) : Send(op, arg) /\ Stays
      BY <1>a DEF HostAsks
    <2>1. phase = "send" /\ phase' = "recv"
      BY DEF Send
    <2>2. outq' # <<>>
      <3> DEFINE q == [n |-> sent + 1, op |-> op, arg |-> arg]
      <3>1. q \in Request(Ops) /\ outq \in Seq(Request(Ops)) /\ outq' = Append(outq, q)
        BY <1>0 DEF ChannelTypeOK, Request, Send
      <3> HIDE DEF q
      <3>2. QED  BY <3>1
    <2>3. ~Done /\ ~Done'
      BY <2>1, <2>2 DEF Done
    <2>4. pc' = pc /\ part' = part /\ seqend' = seqend /\ IsLast' = IsLast
          /\ SequenceEnd' = SequenceEnd
      BY <1>x DEF Stays, IsLast, SequenceEnd, MinOf, Current
    <2> HIDE DEF Done
    <2>5. QED  BY <1>x, <2>3, <2>4 DEF Staged, Moves
  <1>b. CASE HostReadsOn
    <2>1. pc' \in {"receive_pit_table", "odin_pit_data"} /\ pc \in {"request_pit", "odin_pit_block"}
      BY <1>b DEF HostReadsOn, TwoPackets
    <2>2. QED  BY <1>x, <2>1 DEF Staged, InSession, Unopened
  <1>c. CASE HostTurns
    BY <1>c, <1>x DEF HostTurns, Staged, InSession, Unopened
  <1>d. CASE HostReads \/ HostWorks
    <2>s. phase' = "send"
      BY <1>d DEF HostReads, HostWorks, Read, chan
    <2>d. ~Done'
      BY <2>s DEF Done
    <2>w. phase = "send" => ~Done
      BY DEF Done
    <2>o. phase = "recv" /\ pc # "handshake" => outq = <<>>
      BY <1>0, <1>d, <1>t, ReadsAnswer DEF HostReads, HostWorks, Read, Lockstep
    <2>f. inq # <<>> => Head(inq).code # "progress"
      <3>1. inq # <<>> => Head(inq) = inq[1] /\ 1 \in 1..Len(inq)
        BY <1>0 DEF ChannelTypeOK
      <3>2. QED  BY <3>1 DEF RepliesFinal
    <2> USE DEF Goto, Wait, Stop, Abort, AbortExchange, link, cursor
    <2>1. CASE OpenDevice \/ OdinLegacyHandshake \/ Handshake \/ RequestDeviceType \/ VerifyFirmwareCompatibility
      BY <1>x, <2>1, <2>d, <2>s, <2>w DEF OpenDevice, OdinLegacyHandshake, Handshake, RequestDeviceType, VerifyFirmwareCompatibility, Staged, Moves, InSession, Unopened
    <2>2. CASE BeginSession
      <3>1. Done
        BY <2>2, <2>s, <2>o, <2>f, SendPhase, ReadIntro DEF BeginSession, Read, Done, IsOk
      <3>2. QED  BY <1>x, <2>2, <2>d, <2>s, <3>1, SendPhase DEF BeginSession, Staged, Moves, InSession, Unopened
    <2>3. CASE OdinBeginSession
      <3>1. Done
        BY <2>3, <2>s, <2>o, <2>f, SendPhase, ReadIntro DEF OdinBeginSession, Read, Done, IsOk
      <3>2. QED  BY <1>x, <2>3, <2>d, <2>s, <3>1, SendPhase DEF OdinBeginSession, Staged, Moves, InSession, Unopened
    <2>4. CASE OdinFilePartSize \/ RequestPit \/ ReceivePitTable
      BY <1>x, <2>4, <2>d, <2>s, <2>w, SendPhase DEF OdinFilePartSize, RequestPit, ReceivePitTable, ParsePit, Staged, Moves, InSession, Unopened
    <2>5. CASE OdinDumpPit \/ OdinPitBlock \/ OdinPitData \/ OdinEndPit
      BY <1>x, <2>5, <2>d, <2>s, <2>w, SendPhase DEF OdinDumpPit, OdinPitBlock, OdinPitData, OdinEndPit, ParsePit, Staged, Moves, InSession, Unopened
    <2>6. CASE ProcessTarFile \/ ArchivesDone \/ EndOfArchive
      BY <1>x, <2>6, <2>d, <2>s, <2>w DEF ProcessTarFile, ArchivesDone, EndOfArchive, Staged, Moves, InSession, Unopened
    <2>7. CASE BadEntry \/ SkipEntry \/ RejectEntry \/ CheckEntry \/ FlashEntry
      BY <1>x, <2>7, <2>d, <2>s, <2>w DEF BadEntry, SkipEntry, RejectEntry, CheckEntry, FlashEntry, Fresh, AtEntry, Staged, Moves, InSession, Unopened
    <2>8. CASE SendFilePartHeader
      <3>1. Done
        BY <2>8, <2>s, <2>o, <2>f, SendPhase, ReadIntro DEF SendFilePartHeader, Read, Done, IsOk
      <3>2. QED  BY <1>x, <2>8, <2>d, <2>s, <3>1, SendPhase DEF SendFilePartHeader, Staged, Moves, InSession, Unopened
    <2>9. CASE SendFilePartChunk
      <3>1. Done
        BY <2>9, <2>s, <2>o, <2>f, SendPhase, ReadIntro DEF SendFilePartChunk, Read, Done, IsOk
      <3>2. QED  BY <1>x, <2>9, <2>d, <2>s, <3>1, SendPhase DEF SendFilePartChunk, Staged, Moves, InSession, Unopened
    <2>10. CASE FilePartData
      <3>1. Done
        BY <2>10, <2>s, <2>o, <2>f, SendPhase, ReadIntro DEF FilePartData, Read, Done, IsOk
      <3>2. QED  BY <1>x, <2>10, <2>d, <2>s, <3>1, SendPhase DEF FilePartData, Staged, Moves, InSession, Unopened
    <2>11. CASE ChunksDone
      BY <1>x, <2>11, <2>d, <2>s, <2>w DEF ChunksDone, Local, Staged, Moves, InSession, Unopened
    <2>12. CASE EndFileTransfer
      <3>1. Done
        BY <2>12, <2>s, <2>o, <2>f, SendPhase, ReadIntro DEF EndFileTransfer, Read, Done, IsOk
      <3>2. QED  BY <1>x, <2>12, <2>d, <2>s, <3>1, SendPhase DEF EndFileTransfer, Staged, Moves, InSession, Unopened
    <2>13. CASE OdinRequestFileFlash
      <3>1. Done
        BY <2>13, <2>s, <2>o, <2>f, SendPhase, ReadIntro DEF OdinRequestFileFlash, Read, Done, IsOk
      <3>2. QED  BY <1>x, <2>13, <2>d, <2>s, <3>1, SendPhase DEF OdinRequestFileFlash, Staged, Moves, InSession, Unopened
    <2>14. CASE OdinRequestSequenceFlash
      <3>1. Done
        BY <2>14, <2>s, <2>o, <2>f, SendPhase, ReadIntro DEF OdinRequestSequenceFlash, Read, Done, IsOk
      <3>2. QED  BY <1>x, <2>14, <2>d, <2>s, <3>1, SendPhase DEF OdinRequestSequenceFlash, Staged, Moves, InSession, Unopened
    <2>15. CASE OdinSendFilePart
      <3>1. Done
        BY <2>15, <2>s, <2>o, <2>f, SendPhase, ReadIntro DEF OdinSendFilePart, Read, Done, IsOk, PartAcked
      <3>2. QED  BY <1>x, <2>15, <2>d, <2>s, <3>1, SendPhase, <1>n DEF OdinSendFilePart, Staged, Moves, InSession, Unopened
    <2>16. CASE OdinReadFails
      BY <1>x, <2>16, <2>d, <2>s, <2>w DEF OdinReadFails, Local, Staged, Moves, InSession, Unopened
    <2>17. CASE OdinEndSequenceFlash
      <3>1. Done
        BY <2>17, <2>s, <2>o, <2>f, SendPhase, ReadIntro DEF OdinEndSequenceFlash, Read, Done, IsOk, SequenceAcked
      <3>2. QED  BY <1>x, <2>17, <2>d, <2>s, <3>1, SendPhase DEF OdinEndSequenceFlash, Staged, Moves, InSession, Unopened
    <2>18. CASE OdinResetFlashCount
      BY <1>x, <2>18, <2>d, <2>s, <2>w, SendPhase DEF OdinResetFlashCount, Staged, Moves, InSession, Unopened
    <2>19. CASE SendReboot \/ SendRedownload
      BY <1>x, <2>19, <2>d, <2>s, <2>w DEF SendReboot, SendRedownload, Staged, Moves, InSession, Unopened
    <2>20. CASE EndSession
      <3>1. Done
        BY <2>20, <2>s, <2>o, <2>f, SendPhase, ReadIntro DEF EndSession, Read, Done, IsOk, OkKind
      <3>2. QED  BY <1>x, <2>20, <2>d, <2>s, <3>1, SendPhase DEF EndSession, Staged, Moves, InSession, Unopened
    <2>q. QED
      BY <2>1, <2>2, <2>3, <2>4, <2>5, <2>6, <2>7, <2>8, <2>9, <2>10, <2>11, <2>12, <2>13, <2>14, <2>15, <2>16, <2>17, <2>18, <2>19, <2>20 DEF HostNext
  <1>q. QED
    BY <1>0, <1>a, <1>b, <1>c, <1>d, HostShape DEF HostGivesUp

\* While no exchange has failed, the device is handed the request made at pc.
LEMMA UnderWay ==
    ASSUME ~ProgressReplies, ChannelTypeOK(Ops), DeviceTypeOK, Lockstep, DeviceNext,
           ~trouble, pc # "handshake"
    PROVE  /\ phase = "recv" /\ phase' = "recv" /\ outq' = <<>> /\ inq = <<>>
           /\ outq # <<>> /\ Head(outq) = outq[1] /\ 1 \in 1..Len(outq)
           /\ <<pc, Head(outq).op>> \in Asks
           /\ Head(outq).op = "EndSequenceFlash" =>
                 Head(outq).arg[2] = IF IsLast THEN 1 ELSE 0
  <1>1. outq # <<>> /\ phase \in {"send", "recv"}
    BY DeviceShape DEF Answers, ChannelTypeOK
  <1>2. phase = "recv" /\ Asked
    BY <1>1 DEF Lockstep, InStep, Answered
  <1>3. outq \in Seq(Request(Ops)) /\ Len(outq) = 1
    BY <1>2 DEF ChannelTypeOK, Asked
  <1>4. Head(outq) = outq[1] /\ Tail(outq) = <<>> /\ 1 \in 1..Len(outq)
    BY <1>3, OneTail
  <1>5. phase' = "recv" /\ outq' = <<>>
    <2>1. PICK replies \in Seq(Reply) : Serve(replies)
      BY DeviceShape DEF Answers
    <2>2. QED  BY <1>2, <1>4, <2>1 DEF Serve
  <1>6. QED
    BY <1>1, <1>2, <1>4, <1>5 DEF Asked

LEMMA StageDevice ==
    ASSUME ~ProgressReplies, InStepInv, StageOK, DeviceNext, UNCHANGED host
    PROVE  StageOK'
  <1>h. /\ pc' = pc /\ trouble' = trouble /\ arch' = arch /\ entry' = entry
        /\ part' = part /\ seqend' = seqend /\ cfg' = cfg
    BY DEF host, cursor
  <1> SUFFICES ASSUME ~trouble
               PROVE  Staged' /\ Operated'
    BY <1>h DEF StageOK
  <1>0. /\ ChannelTypeOK(Ops) /\ DeviceTypeOK /\ HostTypeOK /\ PartOK /\ Lockstep
        /\ Staged /\ Operated
    BY TypeParts DEF InStepInv, TypeInv, StageOK
  <1>n. /\ part \in Nat /\ seqend \in Nat
        /\ pc = "odin_send_file_part" => part < seqend
    BY <1>0 DEF HostTypeOK, PartOK
  <1>1. CASE pc = "handshake"
    <2>1. stage' = stage
      <3>1. outq # <<>> /\ Head(outq) = outq[1] /\ 1 \in 1..Len(outq)
        BY <1>0, DeviceShape DEF Answers, ChannelTypeOK
      <3>2. Head(outq).op \in {"ODIN", "HANDSHAKE"}
        BY <1>0, <1>1, <3>1 DEF Lockstep, Greeting
      <3>3. QED
        BY <3>2 DEF DeviceNext, DeviceInform, DeviceBegin, DeviceEnd, DeviceStartFile,
          DeviceStartPart, DeviceTakeData, DeviceFinalise, DeviceRefuse, DeviceIgnore,
          DeviceProgress, Pending, device
    <2>2. QED  BY <1>0, <1>1, <1>h, <2>1 DEF Staged, Operated, Unopened, InSession
  <1>2. CASE pc # "handshake"
    <2> DEFINE ok == inq' # <<>> /\ Head(inq').code = "ok"
               op == Head(outq).op
               arg == Head(outq).arg
    <2>1. /\ phase' = "recv" /\ outq' = <<>> /\ inq = <<>> /\ outq # <<>> /\ Head(outq) = outq[1]
          /\ <<pc, op>> \in Asks
          /\ op = "EndSequenceFlash" => arg[2] = IF IsLast THEN 1 ELSE 0
      BY <1>0, <1>2, UnderWay
    <2>2. ~Done
      BY <2>1 DEF Done
    <2>3. Done' <=> ok
      BY <2>1 DEF Done
    <2>4. IsLast' = IsLast /\ SequenceEnd' = SequenceEnd
      BY <1>h DEF IsLast, SequenceEnd, MinOf, Current
    <2>5. Operated'
      BY <2>1 DEF Operated
    <2>6. /\ pc = "odin_request_sequence_flash" => arg[1] = SequenceEnd - part
          /\ pc = "end_file_transfer" => arg[2] = 1
      BY <1>0, <2>1 DEF Operated
    <2>7. /\ op \in {"BEGIN_SESSION", "BeginSession"} =>
                     stage' = IF ok THEN "session" ELSE stage
          /\ op \in {"END_SESSION", "EndSession", "CONTROL_REBOOT", "CONTROL_REDOWNLOAD",
                     "Reboot"} => stage' = IF ok THEN "idle" ELSE stage
          /\ op \in {"FILE_PART_SIZE", "RequestFileFlash"} => stage' = IF ok THEN "file" ELSE stage
          /\ op \in {"FILE_PART", "RequestSequenceFlash"} =>
                stage' = (IF ok THEN "part" ELSE stage) /\ (ok => due' = arg[1])
          /\ op = "FILE_DATA" => stage' = IF ok THEN "file" ELSE stage
          /\ op = "SendFilePart" => /\ stage' = IF ok THEN "part" ELSE stage
                                    /\ due' = IF ok THEN due - 1 ELSE due
          /\ op \in {"END_FILE_TRANSFER", "EndSequenceFlash"} =>
                /\ stage' = IF ok THEN (IF arg[2] = 1 THEN "session" ELSE "file") ELSE stage
                /\ due' = due
          /\ op \in {"ODIN", "HANDSHAKE", "DEVICE_TYPE", "SendFilePartSize", "PIT_FILE",
                     "RequestPitDump", "PitDumpBlock", "EndPitDump", "ResetFlashCount"} =>
                stage' = stage
      BY <1>0, <2>1, DeviceStages
    <2> HIDE DEF ok, op, arg
    <2>8. ASSUME pc \in Unopened \cup InSession \cup {"begin_session", "odin_begin_session", "exit"}
          PROVE  Staged'
      BY <1>0, <1>h, <2>1, <2>2, <2>3, <2>7, <2>8 DEF Staged, Moves, Asks, Unopened, InSession
    <2>9. ASSUME pc \in {"send_file_part_header", "odin_request_file_flash",
                         "send_file_part_chunk", "file_part_data", "end_file_transfer"}
          PROVE  Staged'
      BY <1>0, <1>h, <2>1, <2>2, <2>3, <2>6, <2>7, <2>9 DEF Staged, Moves, Asks, Unopened, InSession
    <2>10. ASSUME pc \in {"odin_request_sequence_flash", "odin_send_file_part",
                          "odin_end_sequence_flash"}
           PROVE  Staged'
      BY <1>0, <1>h, <1>n, <2>1, <2>2, <2>3, <2>4, <2>6, <2>7, <2>10
         DEF Staged, Moves, Asks, Unopened, InSession
    <2>11. ASSUME pc \in {"send_reboot", "send_redownload", "end_session"}
           PROVE  Staged'
      BY <1>0, <1>h, <2>1, <2>2, <2>3, <2>7, <2>11 DEF Staged, Moves, Asks, Unopened, InSession
    <2>12. QED
      BY <1>0, <2>5, <2>8, <2>9, <2>10, <2>11 DEF HostTypeOK, Locations, Unopened, InSession
  <1>3. QED
    BY <1>1, <1>2

LEMMA QueueHost ==
    ASSUME InStepInv, StageOK, QueueOK, HostNext
    PROVE  QueueOK'
  <1>0. /\ ChannelTypeOK(Ops) /\ DeviceTypeOK /\ HostTypeOK /\ CursorOK /\ PartOK
        /\ TroubleEnds /\ Lockstep
    BY TypeParts DEF InStepInv, TypeInv
  <1>x. stage' = stage /\ due' = due
    BY DEF HostNext, device
  <1>1. CASE outq' = outq
    BY <1>1, <1>x DEF QueueOK, Legal
  <1>2. CASE HostAsks
    <2> PICK op \in Ops, arg \in Seq(Nat) : Send(op, arg) /\ AskedBy(op, arg) /\ Stays
      BY <1>2 DEF HostAsks
    <2> DEFINE q == [n |-> sent + 1, op |-> op, arg |-> arg]
    <2>1. outq' = Append(outq, q) /\ phase = "send"
      BY DEF Send
    <2>2. q \in Request(Ops) /\ q.op = op /\ q.arg = arg /\ outq \in Seq(Request(Ops))
      BY <1>0 DEF ChannelTypeOK, Request
    <2>3. <<pc, op>> \in Asks
      BY DEF AskedBy
    <2>d. ~Done
      BY <2>1 DEF Done
    <2> HIDE DEF q
    <2>4. ASSUME op \notin AnyStage
          PROVE  outq = <<>> /\ Legal(q)
      <3>1. ~trouble /\ pc # "handshake"
        BY <1>0, <2>3, <2>4 DEF TroubleEnds, Asks, AnyStage
      <3>2. outq = <<>>
        BY <1>0, <2>1, <3>1 DEF Lockstep, InStep
      <3>3. Staged
        BY <3>1 DEF StageOK
      <3>4. part \in Nat /\ seqend \in Nat /\ (pc = "odin_send_file_part" => part < seqend)
        BY <1>0 DEF HostTypeOK, PartOK
      <3>5. Legal(q)
        BY <2>2, <2>3, <2>4, <2>d, <3>3, <3>4 DEF Legal, Asks, AnyStage, Staged, Moves, InSession
      <3>6. QED  BY <3>2, <3>5
    <2>5. ASSUME NEW i \in 1..Len(outq'), outq'[i].op \notin AnyStage
          PROVE  i = 1 /\ Legal(outq'[i])
      <3>1. CASE i = Len(outq) + 1
        <4>1. outq'[i] = q
          BY <2>1, <2>2, <3>1
        <4>2. outq = <<>> /\ Legal(q)
          BY <2>2, <2>4, <2>5, <4>1
        <4>3. i = 1
          BY <3>1, <4>2
        <4>4. QED  BY <4>1, <4>2, <4>3
      <3>2. CASE i # Len(outq) + 1
        <4>1. i \in 1..Len(outq) /\ outq'[i] = outq[i]
          BY <2>1, <2>2, <2>5, <3>2
        <4>2. QED  BY <2>5, <4>1 DEF QueueOK
      <3>3. QED  BY <3>1, <3>2
    <2>6. QED  BY <1>x, <2>5 DEF QueueOK, Legal
  <1>3. QED
    BY <1>0, <1>1, <1>2, HostShape DEF HostGivesUp, HostReads, HostReadsOn, HostTurns,
       HostWorks, Read, chan

LEMMA QueueDevice ==
    ASSUME ~ProgressReplies, ChannelTypeOK(Ops), DeviceTypeOK, QueueOK, DeviceNext
    PROVE  QueueOK'
  <1>1. outq # <<>> /\ \E replies \in Seq(Reply) : Serve(replies)
    BY DeviceShape DEF Answers
  <1>2. \A i \in 1..Len(outq') : i + 1 \in 1..Len(outq) /\ outq'[i] = outq[i + 1]
    BY <1>1, ServeFacts
  <1>3. ASSUME NEW i \in 1..Len(outq')
        PROVE  outq'[i].op \in AnyStage
    <2>1. i + 1 \in 1..Len(outq) /\ i + 1 # 1 /\ outq'[i] = outq[i + 1]
      BY <1>2
    <2>2. QED  BY <2>1 DEF QueueOK
  <1>4. QED
    BY <1>3 DEF QueueOK

OrderIInv == InStepInv /\ OrderInv

LEMMA OrderInit ==
    ASSUME Init
    PROVE  OrderIInv
  <1>1. InStepInv
    BY InStepInit
  <1>2. pc = "open_device" /\ stage = "idle" /\ outq = <<>> /\ inq = <<>>
    BY DEF Init, ChannelInit, DeviceInit
  <1>3. Staged /\ Operated
    BY <1>2 DEF Staged, Operated, Unopened, InSession
  <1>4. RepliesFinal /\ QueueOK
    BY <1>2 DEF RepliesFinal, QueueOK
  <1>5. QED
    BY <1>1, <1>3, <1>4 DEF OrderIInv, OrderInv, StageOK

LEMMA OrderNext ==
    ASSUME ~ProgressReplies, OrderIInv, [Next]_vars
    PROVE  OrderIInv'
  <1>0. /\ InStepInv /\ RepliesFinal /\ StageOK /\ QueueOK
        /\ ChannelTypeOK(Ops) /\ DeviceTypeOK /\ HostTypeOK /\ CursorOK /\ PartOK
        /\ TroubleEnds /\ Lockstep
    BY TypeParts DEF OrderIInv, OrderInv, InStepInv, TypeInv
  <1>1. InStepInv'
    BY <1>0, InStepNext
  <1>2. CASE HostNext
    <2>1. RepliesFinal' /\ QueueOK'
      BY <1>0, <1>2, FinalHostReplies, QueueHost
    <2>2. ASSUME ~trouble'
          PROVE  Staged' /\ Operated'
      <3>1. Staged
        BY <1>0, <1>2, <2>2, TroubleEndsKept DEF StageOK
      <3>2. QED  BY <1>0, <1>2, <2>2, <3>1, StagedHost, OperatedHost
    <2>3. QED  BY <1>1, <2>1, <2>2 DEF OrderIInv, OrderInv, StageOK
  <1>3. CASE DeviceNext /\ UNCHANGED host
    BY <1>0, <1>1, <1>3, FinalDeviceReplies, StageDevice, QueueDevice DEF OrderIInv, OrderInv
  <1>4. CASE UNCHANGED vars
    <2>1. /\ pc' = pc /\ trouble' = trouble /\ arch' = arch /\ entry' = entry
          /\ part' = part /\ seqend' = seqend /\ cfg' = cfg /\ stage' = stage /\ due' = due
          /\ phase' = phase /\ outq' = outq /\ inq' = inq
      BY <1>4 DEF vars, host, cursor, device, chan
    <2>2. IsLast' = IsLast /\ SequenceEnd' = SequenceEnd
      BY <2>1 DEF IsLast, SequenceEnd, MinOf, Current
    <2>3. Done' = Done
      BY <2>1 DEF Done
    <2>4. StageOK'
      BY <1>0, <2>1, <2>2, <2>3 DEF StageOK, Staged, Operated, Moves
    <2>5. RepliesFinal' /\ QueueOK'
      BY <1>0, <2>1 DEF RepliesFinal, QueueOK, Legal
    <2>6. QED  BY <1>1, <2>4, <2>5 DEF OrderIInv, OrderInv
  <1>5. QED
    BY <1>2, <1>3, <1>4 DEF Next

\* The device meets every request in the stage the protocol wants it in, also
\* when it comes to it only after the host has given up on it and sent
\* END_SESSION behind it (flash_partition_stream, process_lz4_streaming).
THEOREM RequestsInOrder ==
    ASSUME ~ProgressReplies
    PROVE  Spec => []DeviceInOrder
  <1>1. Init => OrderIInv
    BY OrderInit
  <1>2. OrderIInv /\ [Next]_vars => OrderIInv'
    BY OrderNext
  <1>3. OrderIInv => DeviceInOrder
    <2> SUFFICES ASSUME OrderIInv, outq # <<>>
                 PROVE  Legal(Head(outq))
      BY DEF DeviceInOrder
    <2>1. ChannelTypeOK(Ops) /\ QueueOK
      BY TypeParts DEF OrderIInv, OrderInv, InStepInv, TypeInv
    <2>2. Head(outq) = outq[1] /\ 1 \in 1..Len(outq)
      BY <2>1 DEF ChannelTypeOK
    <2>3. Head(outq).op \in AnyStage => Legal(Head(outq))
      BY DEF AnyStage, Legal
    <2>4. QED  BY <2>1, <2>2, <2>3 DEF QueueOK
  <1>4. QED
    BY <1>1, <1>2, <1>3, PTL DEF Spec

\* Each error path of run_for_device that follows a check, not a failed
\* exchange, ends the session: the device is out of it when odin4 exits.
THEOREM CleanExitsRelease ==
    ASSUME ~ProgressReplies
    PROVE  Spec => []CleanExitReleases
  <1>1. Init => OrderIInv
    BY OrderInit
  <1>2. OrderIInv /\ [Next]_vars => OrderIInv'
    BY OrderNext
  <1>3. OrderIInv => CleanExitReleases
    BY DEF OrderIInv, OrderInv, StageOK, Staged, CleanExitReleases
  <1>4. QED
    BY <1>1, <1>2, <1>3, PTL DEF Spec

-----------------------------------------------------------------------------
(* The order of the images.                                                *)

LEMMA PositionsFinite ==
    ASSUME HostTypeOK
    PROVE  IsFiniteSet(Positions) /\ IsFiniteSet(Work) /\ Work \subseteq Positions
  <1> DEFINE A == 1..Len(cfg.archives)
             E(a) == {a} \X (1..Len(cfg.archives[a].entries))
             f == [a \in A |-> E(a)]
             T == {E(a) : a \in A}
  <1>1. cfg.archives \in Seq(Archives)
    BY ConfigsAssumption DEF HostTypeOK, Invocations
  <1>2. ASSUME NEW a \in A
        PROVE  IsFiniteSet(E(a))
    <2>1. cfg.archives[a].entries \in Seq(Entries)
      <3>1. cfg.archives[a] \in Archives
        BY <1>1, <1>2
      <3>2. QED  BY <3>1 DEF Archives
    <2> DEFINE n == Len(cfg.archives[a].entries)
    <2>2. n \in Int /\ 1 \in Int
      BY <2>1
    <2> HIDE DEF n
    <2>3. IsFiniteSet(1..n)
      BY <2>2, FS_Interval
    <2>4. IsFiniteSet({a})
      BY FS_Singleton
    <2>5. IsFiniteSet({a} \X (1..n))
      BY <2>3, <2>4, FS_Product
    <2>6. QED  BY <2>5 DEF n
  <1>3. IsFiniteSet(A)
    <2>1. Len(cfg.archives) \in Int
      BY <1>1
    <2>2. QED  BY <2>1, FS_Interval
  <1>4. f \in Surjection(A, T)
    BY DEF Surjection
  <1>5. IsFiniteSet(T)
    <2> HIDE DEF f, T
    <2>1. QED  BY <1>3, <1>4, FS_Surjection
  <1>6. \A t \in T : IsFiniteSet(t)
    BY <1>2
  <1>7. IsFiniteSet(UNION T)
    <2> HIDE DEF T
    <2>1. QED  BY <1>5, <1>6, FS_UNION
  <1>8. Positions = UNION T
    BY DEF Positions
  <1>9. Work \subseteq Positions
    BY DEF Work
  <1>10. QED
    BY <1>7, <1>8, <1>9, FS_Subset

\* Archives in turn and entries in tar order: a strict total order.
LEMMA PrecedesOrders ==
    ASSUME HostTypeOK, NEW v \in Positions, NEW w \in Positions
    PROVE  /\ ~Precedes(w, w)
           /\ Precedes(v, w) \/ Precedes(w, v) \/ v = w
           /\ \A u \in Positions : Precedes(u, v) /\ Precedes(v, w) => Precedes(u, w)
  <1>1. \A u \in Positions : u[1] \in Nat /\ u[2] \in Nat /\ u = <<u[1], u[2]>>
    BY PositionFacts
  <1>2. v[1] \in Nat /\ v[2] \in Nat /\ v = <<v[1], v[2]>>
    BY <1>1
  <1>3. w[1] \in Nat /\ w[2] \in Nat /\ w = <<w[1], w[2]>>
    BY <1>1
  <1>4. ~Precedes(w, w)
    BY <1>3 DEF Precedes
  <1>5. v[1] = w[1] /\ v[2] = w[2] => v = w
    BY <1>2, <1>3
  <1>6. Precedes(v, w) \/ Precedes(w, v) \/ v = w
    BY <1>2, <1>3, <1>5 DEF Precedes
  <1>7. ASSUME NEW u \in Positions, Precedes(u, v), Precedes(v, w)
        PROVE  Precedes(u, w)
    <2>1. u[1] \in Nat /\ u[2] \in Nat
      BY <1>1
    <2>2. QED  BY <1>2, <1>3, <1>7, <2>1 DEF Precedes
  <1>8. QED  BY <1>4, <1>6, <1>7

\* A later image has a higher place, and every place up to the last is taken.
LEMMA PlaceGrows ==
    ASSUME HostTypeOK, NEW v \in Work, NEW w \in Work, Precedes(v, w)
    PROVE  Place(v) < Place(w)
  <1> DEFINE B(x) == {u \in Work : Precedes(u, x)}
  <1>1. IsFiniteSet(Work) /\ Work \subseteq Positions
    BY PositionsFinite
  <1>2. IsFiniteSet(B(v)) /\ IsFiniteSet(B(w))
    <2>1. B(v) \in SUBSET Work /\ B(w) \in SUBSET Work
      OBVIOUS
    <2> HIDE DEF B
    <2>2. QED  BY <1>1, <2>1, FS_Subset
  <1>3. v \notin B(v)
    BY <1>1, PrecedesOrders
  <1>4. B(v) \cup {v} \subseteq B(w)
    BY <1>1, PrecedesOrders
  <1>5. Place(v) = 1 + Cardinality(B(v)) /\ Place(w) = 1 + Cardinality(B(w))
    BY DEF Place
  <1> HIDE DEF B
  <1>6. Cardinality(B(v)) \in Nat /\ Cardinality(B(w)) \in Nat
    BY <1>2, FS_CardinalityType
  <1>7. Cardinality(B(v) \cup {v}) = Cardinality(B(v)) + 1
    BY <1>2, <1>3, FS_AddElement
  <1>8. Cardinality(B(v) \cup {v}) <= Cardinality(B(w))
    BY <1>2, <1>4, FS_Subset
  <1>9. QED
    BY <1>5, <1>6, <1>7, <1>8

LEMMA PlaceBound ==
    ASSUME HostTypeOK, NEW w \in Work
    PROVE  Place(w) \in 1..Cardinality(Work) /\ Cardinality(Work) \in Nat
  <1> DEFINE B == {u \in Work : Precedes(u, w)}
             R == Work \ {w}
  <1>1. IsFiniteSet(Work) /\ Work \subseteq Positions
    BY PositionsFinite
  <1>2. B \subseteq R
    BY <1>1, PrecedesOrders
  <1>3. Place(w) = 1 + Cardinality(B)
    BY DEF Place
  <1>4. IsFiniteSet(R) /\ Cardinality(R) = Cardinality(Work) - 1
    BY <1>1, FS_RemoveElement
  <1> HIDE DEF B, R
  <1>5. IsFiniteSet(B) /\ Cardinality(B) <= Cardinality(R)
    BY <1>2, <1>4, FS_Subset
  <1>6. Cardinality(B) \in Nat /\ Cardinality(Work) \in Nat
    BY <1>1, <1>5, FS_CardinalityType
  <1>7. QED
    BY <1>3, <1>4, <1>5, <1>6

LEMMA PlaceInjective ==
    ASSUME HostTypeOK, NEW v \in Work, NEW w \in Work, Place(v) = Place(w)
    PROVE  v = w
  <1>1. v \in Positions /\ w \in Positions
    BY PositionsFinite
  <1>2. Precedes(v, w) \/ Precedes(w, v) \/ v = w
    BY <1>1, PrecedesOrders
  <1>3. Place(v) \in Int /\ Place(w) \in Int
    BY PlaceBound
  <1>4. QED
    BY <1>2, <1>3, PlaceGrows

LEMMA PlaceOnto ==
    ASSUME HostTypeOK, NEW i \in 1..Cardinality(Work)
    PROVE  WorkAt(i) \in Work /\ Place(WorkAt(i)) = i
  <1> DEFINE N == Cardinality(Work)
             f == [w \in Work |-> Place(w)]
  <1>1. IsFiniteSet(Work) /\ N \in Nat
    BY PositionsFinite, FS_CardinalityType
  <1>2. f \in [Work -> 1..N]
    BY PlaceBound
  <1>3. \A v, w \in Work : f[v] = f[w] => v = w
    BY PlaceInjective
  <1>4. f \in Injection(Work, 1..N)
    <2> HIDE DEF f
    <2>1. QED  BY <1>2, <1>3 DEF Injection, IsInjective
  <1>5. IsFiniteSet(1..N) /\ Cardinality(1..N) = N
    BY <1>1, FS_Interval
  <1>6. f \in Surjection(Work, 1..N)
    <2> HIDE DEF f
    <2>1. QED  BY <1>4, <1>5, FS_Injection
  <1>7. \E w \in Work : f[w] = i
    BY <1>6 DEF Surjection
  <1>8. \E w \in Work : Place(w) = i
    BY <1>7
  <1>9. QED
    BY <1>8 DEF WorkAt

-----------------------------------------------------------------------------
(* The images the device holds.                                            *)

LEMMA OrderFixed ==
    ASSUME cfg' = cfg
    PROVE  /\ Work' = Work
           /\ \A w : Image(w)' = Image(w)
           /\ \A w : Place(w)' = Place(w)
  <1>1. Work' = Work /\ \A w : Image(w)' = Image(w)
    BY WorkFixed
  <1>2. \A w : Place(w)' = Place(w)
    BY <1>1 DEF Place, Precedes
  <1>3. QED  BY <1>1, <1>2

LEMMA SuccessStays ==
    ASSUME CodeOK, HostNext, rc' = "Success"
    PROVE  rc = "Success"
  <1>1. CASE pc \notin {"end_session", "exit"}
    BY <1>1 DEF CodeOK
  <1>2. CASE pc \in {"end_session", "exit"}
    <2>1. EndSession
      BY <1>2 DEF HostNext, OpenDevice, OdinLegacyHandshake, Handshake, RequestDeviceType,
         VerifyFirmwareCompatibility, BeginSession, OdinBeginSession, OdinFilePartSize,
         RequestPit, ReceivePitTable, OdinDumpPit, OdinPitBlock, OdinPitData, OdinEndPit,
         ProcessTarFile, ArchivesDone, EndOfArchive, BadEntry, SkipEntry, RejectEntry,
         CheckEntry, FlashEntry, Fresh, AtEntry, SendFilePartHeader, SendFilePartChunk,
         FilePartData, ChunksDone, EndFileTransfer, OdinRequestFileFlash,
         OdinRequestSequenceFlash, OdinSendFilePart, OdinReadFails, OdinEndSequenceFlash,
         OdinResetFlashCount, SendReboot, SendRedownload
    <2>2. QED  BY <2>1 DEF EndSession, Goto, Wait, Stop
  <1>3. QED  BY <1>1, <1>2

\* The device has accepted the answer the host reads at pc.
LEMMA ReadsDone ==
    ASSUME ChannelTypeOK(Ops), RepliesFinal, InStep, NEW kind,
           Receive(IsOk(kind) \/ Head(inq).code = "progress", "send")
    PROVE  Done
  <1>1. phase = "recv" /\ inq # <<>> /\ (Head(inq).code = "ok" \/ Head(inq).code = "progress")
    BY DEF Receive, IsOk
  <1>2. Head(inq) = inq[1] /\ 1 \in 1..Len(inq)
    BY <1>1 DEF ChannelTypeOK
  <1>3. outq = <<>>
    BY <1>1, ReadsAnswer
  <1>4. QED
    BY <1>1, <1>2, <1>3 DEF Done, RepliesFinal

\* A step of the host leaves the images that were passed as they are.
LEMMA PassedHost ==
    ASSUME InStepInv, RepliesFinal, CodeOK, Flashing, rc' = "Success", ~trouble', HostNext
    PROVE  Passed' = Passed
  <1>0. /\ ChannelTypeOK(Ops) /\ DeviceTypeOK /\ HostTypeOK /\ CursorOK /\ PartOK
        /\ TroubleEnds /\ Lockstep
    BY TypeParts DEF InStepInv, TypeInv
  <1>t. ~trouble
    BY <1>0, TroubleEndsKept
  <1>x. cfg' = cfg
    BY DEF HostNext
  <1>e. pc \in AtArchive => arch <= Len(cfg.archives)
    BY <1>0 DEF CursorOK, AtArchive
  \* Most steps change neither what is behind the cursor nor what is finalised.
  <1>s. ASSUME arch' = arch,
               pc \in AtArchive => entry' = entry,
               pc \in AtArchive <=> pc' \in AtArchive,
               Finalised <=> Finalised'
        PROVE  Passed' = Passed
    <2>1. Behind' = Behind /\ Work' = Work
      BY <1>x, <1>s, BehindStays
    <2>2. Finalised => pc \in AtArchive
      BY DEF Finalised, AtArchive, InFile, ThorFile, LegacyFile
    <2>3. Finalised => Cursor' = Cursor
      BY <1>s, <2>2 DEF Cursor
    <2>4. QED  BY <1>s, <2>1, <2>3 DEF Passed
  <1>a. CASE HostAsks
    <2> PICK op \in Ops, arg \in Seq(Nat) : Send(op, arg) /\ Stays
      BY <1>a DEF HostAsks
    <2>1. phase = "send" /\ phase' = "recv"
      BY DEF Send
    <2>2. outq' # <<>>
      <3> DEFINE q == [n |-> sent + 1, op |-> op, arg |-> arg]
      <3>1. q \in Request(Ops) /\ outq \in Seq(Request(Ops)) /\ outq' = Append(outq, q)
        BY <1>0 DEF ChannelTypeOK, Request, Send
      <3> HIDE DEF q
      <3>2. QED  BY <3>1
    <2>3. ~Done /\ ~Done'
      BY <2>1, <2>2 DEF Done
    <2>4. pc' = pc /\ arch' = arch /\ entry' = entry
      BY DEF Stays
    <2>5. Finalised <=> Finalised'
      BY <2>3, <2>4 DEF Finalised
    <2>6. QED  BY <1>s, <2>4, <2>5
  <1>d. CASE HostReads \/ HostWorks \/ HostTurns \/ HostReadsOn
    <2>s. phase' = "send" \/ pc' \in {"receive_pit_table", "odin_pit_data"}
      BY <1>d DEF HostReads, HostReadsOn, HostWorks, HostTurns, Read, chan
    <2>d. ~Done' \/ pc' \in {"receive_pit_table", "odin_pit_data"}
      BY <2>s DEF Done
    <2>f. Finalised' <=> pc' = "odin_reset_flash_count"
      BY <2>d DEF Finalised
    <2>o. pc \in InFile => InStep
      BY <1>0, <1>t DEF Lockstep, InFile, ThorFile, LegacyFile
    <2> USE DEF Goto, Wait, Stop, Abort, AbortExchange, link, cursor
    <2> USE DEF AtArchive, InFile, ThorFile, LegacyFile
    <2>1. CASE OpenDevice \/ OdinLegacyHandshake \/ Handshake \/ RequestDeviceType
               \/ VerifyFirmwareCompatibility \/ BeginSession \/ OdinBeginSession
               \/ OdinFilePartSize
      <3>1. /\ arch' = arch /\ pc \notin AtArchive /\ pc' \notin AtArchive
            /\ pc' # "odin_reset_flash_count" /\ ~Finalised
        BY <2>1 DEF OpenDevice, OdinLegacyHandshake, Handshake, RequestDeviceType,
           VerifyFirmwareCompatibility, BeginSession, OdinBeginSession, OdinFilePartSize,
           Finalised
      <3>2. QED  BY <1>s, <2>f, <3>1
    <2>2. CASE RequestPit \/ ReceivePitTable \/ OdinDumpPit \/ OdinPitBlock \/ OdinPitData
               \/ OdinEndPit
      <3>1. /\ arch' = arch /\ pc \notin AtArchive /\ pc' \notin AtArchive
            /\ pc' # "odin_reset_flash_count" /\ ~Finalised
        BY <2>2 DEF RequestPit, ReceivePitTable, OdinDumpPit, OdinPitBlock, OdinPitData,
           OdinEndPit, ParsePit, Finalised
      <3>2. QED  BY <1>s, <2>f, <3>1
    <2>3. CASE ArchivesDone \/ SendReboot \/ SendRedownload \/ EndSession
      <3>1. /\ arch' = arch /\ pc \notin AtArchive /\ pc' \notin AtArchive
            /\ pc' # "odin_reset_flash_count" /\ ~Finalised
        BY <2>3 DEF ArchivesDone, SendReboot, SendRedownload, EndSession, Finalised
      <3>2. QED  BY <1>s, <2>f, <3>1
    <2>4. CASE ProcessTarFile
      <3>1. /\ arch' = arch /\ entry' = 1 /\ pc = "process_tar_file" /\ pc' = "tar_entry"
        BY <2>4 DEF ProcessTarFile
      <3>2. Behind' = Behind /\ Work' = Work
        BY <1>0, <1>x, <3>1, BehindFirst
      <3>3. QED  BY <2>f, <3>1, <3>2 DEF Passed, Finalised
    <2>5. CASE EndOfArchive
      <3>1. /\ arch' = arch + 1 /\ pc = "tar_entry" /\ pc' = "process_tar_file"
            /\ entry > Len(cfg.archives[arch].entries)
        BY <2>5 DEF EndOfArchive
      <3>2. Behind' = Behind /\ Work' = Work
        BY <1>0, <1>x, <3>1, BehindLast
      <3>3. QED  BY <2>f, <3>1, <3>2 DEF Passed, Finalised
    <2>6. CASE BadEntry \/ RejectEntry \/ CheckEntry
      BY <2>6 DEF BadEntry, RejectEntry, CheckEntry, Flashing
    <2>7. CASE SkipEntry
      <3>1. /\ pc = "tar_entry" /\ pc' = "tar_entry" /\ arch' = arch /\ entry' = entry + 1
            /\ arch <= Len(cfg.archives) /\ entry <= Len(cfg.archives[arch].entries)
            /\ ~(Current.kind = "file" /\ Current.part # 0)
        BY <1>e, <2>7 DEF SkipEntry, AtEntry, NextEntry
      <3>2. Behind' = Behind \cup {Cursor} /\ Work' = Work /\ Cursor \notin Work
        BY <1>0, <1>x, <3>1, BehindNext, CursorPlace
      <3>3. QED  BY <2>f, <3>1, <3>2 DEF Passed, Finalised
    <2>8. CASE FlashEntry
      <3>1. /\ pc = "tar_entry" /\ arch' = arch /\ entry' = entry
            /\ pc' \in {"send_file_part_header", "odin_request_file_flash"}
        BY <2>8 DEF FlashEntry, Fresh, AtEntry
      <3>2. QED  BY <1>s, <2>f, <3>1 DEF Finalised
    <2>9. CASE SendFilePartHeader \/ SendFilePartChunk \/ FilePartData \/ ChunksDone
      <3>1. /\ pc \in {"send_file_part_header", "send_file_part_chunk", "file_part_data"}
            /\ pc' \in ThorFile /\ arch' = arch /\ entry' = entry
        BY <2>9 DEF SendFilePartHeader, SendFilePartChunk, FilePartData, ChunksDone
      <3>2. QED  BY <1>s, <2>f, <3>1 DEF Finalised
    <2>10. CASE \/ OdinRequestFileFlash \/ OdinRequestSequenceFlash \/ OdinSendFilePart
                \/ OdinReadFails
      <3>1. /\ pc \in {"odin_request_file_flash", "odin_request_sequence_flash",
                       "odin_send_file_part"}
            /\ pc' \in LegacyFile /\ pc' # "odin_reset_flash_count"
            /\ arch' = arch /\ entry' = entry
        BY <2>10 DEF OdinRequestFileFlash, OdinRequestSequenceFlash, OdinSendFilePart,
           OdinReadFails
      <3>2. QED  BY <1>s, <2>f, <3>1 DEF Finalised
    <2>11. CASE OdinEndSequenceFlash
      <3>1. pc = "odin_end_sequence_flash" /\ arch' = arch /\ entry' = entry
        BY <2>11 DEF OdinEndSequenceFlash
      <3>2. /\ Receive(SequenceAcked, "send")
            /\ pc' = IF IsLast THEN "odin_reset_flash_count" ELSE "odin_request_sequence_flash"
        BY <2>s, <2>11, SendPhase DEF OdinEndSequenceFlash
      <3>3. Receive(IsOk("RSP8") \/ Head(inq).code = "progress", "send")
        BY <3>2 DEF Receive, SequenceAcked
      <3>4. Done
        BY <1>0, <2>o, <3>1, <3>3, ReadsDone
      <3>5. Finalised <=> IsLast
        BY <3>1, <3>4 DEF Finalised
      <3>6. Finalised <=> Finalised'
        BY <2>f, <3>2, <3>5
      <3>7. QED  BY <1>s, <3>1, <3>2, <3>6
    <2>12. CASE EndFileTransfer \/ OdinResetFlashCount
      <3>1. /\ pc \in {"end_file_transfer", "odin_reset_flash_count"}
            /\ pc' = "tar_entry" /\ arch' = arch /\ entry' = entry + 1
        BY <2>s, <2>12, SendPhase DEF EndFileTransfer, OdinResetFlashCount
      <3>2. Finalised
        <4>1. CASE EndFileTransfer
          <5>1. Receive(IsOk("RESPONSE"), "send") /\ pc = "end_file_transfer"
            BY <2>s, <4>1, SendPhase DEF EndFileTransfer
          <5>2. Receive(IsOk("RESPONSE") \/ Head(inq).code = "progress", "send")
            BY <5>1 DEF Receive
          <5>3. Done
            BY <1>0, <2>o, <5>1, <5>2, ReadsDone
          <5>4. QED  BY <5>1, <5>3 DEF Finalised
        <4>2. CASE OdinResetFlashCount
          BY <4>2 DEF OdinResetFlashCount, Finalised
        <4>3. QED  BY <2>12, <4>1, <4>2
      <3>3. /\ arch <= Len(cfg.archives) /\ entry <= Len(cfg.archives[arch].entries)
            /\ Current.kind = "file" /\ Current.part # 0
        BY <1>0, <3>1 DEF CursorOK
      <3>4. Behind' = Behind \cup {Cursor} /\ Work' = Work /\ Cursor \in Work
        BY <1>0, <1>x, <3>1, <3>3, BehindNext, CursorPlace
      <3>5. QED  BY <2>f, <3>1, <3>2, <3>4 DEF Passed
    <2>13. QED
      BY <2>1, <2>2, <2>3, <2>4, <2>5, <2>6, <2>7, <2>8, <2>9, <2>10, <2>11, <2>12 DEF HostNext
  <1>q. QED
    BY <1>0, <1>a, <1>d, HostShape DEF HostGivesUp

LEMMA CountHost ==
    ASSUME InStepInv, RepliesFinal, CodeOK, CountOK, HostNext
    PROVE  CountOK'
  <1> SUFFICES ASSUME Flashing', rc' = "Success"
               PROVE  Len(flashed') = Cardinality(Passed')
    BY DEF CountOK
  <1>1. flashed' = flashed /\ Flashing
    BY DEF HostNext, device, Flashing
  <1>2. rc = "Success"
    BY SuccessStays
  <1>3. CASE ~trouble'
    <2>1. Passed' = Passed
      BY <1>1, <1>3, PassedHost
    <2>2. QED  BY <1>1, <1>2, <2>1 DEF CountOK
  <1>4. CASE trouble'
    <2>1. ~trouble
      BY <1>2 DEF CodeOK
    <2>2. rc' # "Success"
      BY <1>4, <2>1 DEF HostNext, OpenDevice, OdinLegacyHandshake, Handshake, RequestDeviceType,
         VerifyFirmwareCompatibility, BeginSession, OdinBeginSession, OdinFilePartSize,
         RequestPit, ReceivePitTable, OdinDumpPit, OdinPitBlock, OdinPitData, OdinEndPit, ParsePit,
         ProcessTarFile, ArchivesDone, EndOfArchive, BadEntry, SkipEntry, RejectEntry,
         CheckEntry, FlashEntry, SendFilePartHeader, SendFilePartChunk,
         FilePartData, ChunksDone, EndFileTransfer, OdinRequestFileFlash,
         OdinRequestSequenceFlash, OdinSendFilePart, OdinReadFails, OdinEndSequenceFlash,
         OdinResetFlashCount, SendReboot, SendRedownload, EndSession,
         Goto, Wait, Stop, Abort, AbortExchange
    <2>3. QED  BY <2>2
  <1>5. QED  BY <1>3, <1>4

\* The cursor is never behind itself.
LEMMA BehindOnly ==
    ASSUME HostTypeOK, pc \in AtArchive
    PROVE  Cursor \notin Behind
  <1>1. arch \in Nat /\ entry \in Nat /\ Cursor[1] = arch /\ Cursor[2] = entry
    BY DEF HostTypeOK, Cursor
  <1>2. QED
    BY <1>1 DEF Behind, Precedes

LEMMA BehindFinite ==
    ASSUME HostTypeOK
    PROVE  IsFiniteSet(Behind \cap Work) /\ Cardinality(Behind \cap Work) \in Nat
  <1>1. IsFiniteSet(Work)
    BY PositionsFinite
  <1>2. IsFiniteSet(Behind \cap Work)
    BY <1>1, FS_Intersection
  <1>3. QED  BY <1>2, FS_CardinalityType

LEMMA CountDevice ==
    ASSUME ~ProgressReplies, InStepInv, StageOK, CodeOK, CountOK, DeviceNext, UNCHANGED host
    PROVE  CountOK'
  <1>h. /\ pc' = pc /\ trouble' = trouble /\ rc' = rc /\ arch' = arch /\ entry' = entry
        /\ part' = part /\ cfg' = cfg
    BY DEF host, cursor
  <1> SUFFICES ASSUME Flashing, rc = "Success"
               PROVE  Len(flashed') = Cardinality(Passed')
    BY <1>h DEF CountOK, Flashing
  <1>0. /\ ChannelTypeOK(Ops) /\ DeviceTypeOK /\ HostTypeOK /\ PartOK /\ CursorOK /\ Lockstep
        /\ ~trouble /\ Operated /\ Len(flashed) = Cardinality(Passed)
    BY TypeParts DEF InStepInv, TypeInv, StageOK, CodeOK, CountOK
  <1>b. Behind' = Behind /\ Work' = Work /\ Cursor' = Cursor /\ IsLast' = IsLast
    BY <1>h, BehindStays DEF Cursor, IsLast, Current
  <1>1. CASE pc = "handshake"
    <2>1. flashed' = flashed
      <3>1. outq # <<>> /\ Head(outq) = outq[1] /\ 1 \in 1..Len(outq)
        BY <1>0, DeviceShape DEF Answers, ChannelTypeOK
      <3>2. Head(outq).op \in {"ODIN", "HANDSHAKE"}
        BY <1>0, <1>1, <3>1 DEF Lockstep, Greeting
      <3>3. QED
        BY <3>2 DEF DeviceNext, DeviceInform, DeviceBegin, DeviceEnd, DeviceStartFile,
          DeviceStartPart, DeviceTakeData, DeviceFinalise, DeviceRefuse, DeviceIgnore,
          DeviceProgress, Pending, device
    <2>2. ~Finalised /\ ~Finalised'
      BY <1>1, <1>h DEF Finalised
    <2>3. QED  BY <1>0, <1>b, <2>1, <2>2 DEF Passed
  <1>2. CASE pc # "handshake"
    <2> DEFINE ok == inq' # <<>> /\ Head(inq').code = "ok"
               op == Head(outq).op
               arg == Head(outq).arg
               final == ok /\ op \in {"END_FILE_TRANSFER", "EndSequenceFlash"} /\ arg[2] = 1
    <2>1. /\ phase' = "recv" /\ outq' = <<>> /\ inq = <<>> /\ outq # <<>> /\ Head(outq) = outq[1]
          /\ <<pc, op>> \in Asks
          /\ op = "EndSequenceFlash" => arg[2] = IF IsLast THEN 1 ELSE 0
      BY <1>0, <1>2, UnderWay
    <2>2. ~Done /\ (Done' <=> ok)
      BY <2>1 DEF Done
    <2>3. flashed' = IF final THEN Append(flashed, [part |-> arg[1], data |-> xfer]) ELSE flashed
      BY <1>0, <2>1, DeviceStages
    <2>4. pc = "end_file_transfer" => arg[2] = 1
      BY <1>0, <2>1 DEF Operated
    <2> HIDE DEF ok, op, arg
    <2>5. CASE final
      <3>1. /\ pc \in {"end_file_transfer", "odin_end_sequence_flash"}
            /\ pc = "odin_end_sequence_flash" => IsLast
        BY <2>1, <2>5 DEF Asks
      <3>2. ~Finalised /\ Finalised'
        BY <1>b, <1>h, <2>2, <2>5, <3>1 DEF Finalised
      <3>3. Passed = Behind \cap Work /\ Passed' = (Behind \cap Work) \cup {Cursor}
        BY <1>b, <3>2 DEF Passed
      <3>4. Cursor \notin Behind \cap Work
        BY <1>0, <3>1, BehindOnly DEF AtArchive, InFile, ThorFile, LegacyFile
      <3>5. Cardinality(Passed') = Cardinality(Passed) + 1
        BY <1>0, <3>3, <3>4, BehindFinite, FS_AddElement
      <3>6. Len(flashed') = Len(flashed) + 1
        BY <1>0, <2>3, <2>5 DEF DeviceTypeOK
      <3>7. QED  BY <1>0, <3>5, <3>6
    <2>6. CASE ~final
      <3>1. Finalised <=> Finalised'
        BY <1>b, <1>h, <2>1, <2>2, <2>4, <2>6 DEF Finalised, Asks
      <3>2. QED  BY <1>0, <1>b, <2>3, <2>6, <3>1 DEF Passed
    <2>7. QED  BY <2>5, <2>6
  <1>3. QED
    BY <1>1, <1>2

\* A device that finalises comes to hold the image that is due.
LEMMA Finalising ==
    ASSUME ChannelTypeOK(Ops), DeviceTypeOK, NextOK, DeviceNext, flashed' # flashed
    PROVE  /\ Finalises(outq[1]) /\ 1 \in 1..Len(outq)
           /\ outq[1].op \in {"END_FILE_TRANSFER", "EndSequenceFlash"}
           /\ \E w \in Work : /\ Place(w) = Len(flashed) + 1
                              /\ flashed' = Append(flashed, Image(w))
  <1>1. DeviceFinalise /\ Arg[2] = 1 /\ flashed' = Append(flashed, [part |-> Arg[1], data |-> xfer])
    BY DEF DeviceNext, DeviceInform, DeviceBegin, DeviceEnd, DeviceStartFile,
           DeviceStartPart, DeviceTakeData, DeviceFinalise, DeviceRefuse,
           DeviceIgnore, DeviceProgress, device
  <1>2. outq # <<>> /\ Head(outq).op \in {"END_FILE_TRANSFER", "EndSequenceFlash"}
    BY <1>1 DEF DeviceFinalise, Pending
  <1>3. Head(outq) = outq[1] /\ 1 \in 1..Len(outq)
    BY <1>2 DEF ChannelTypeOK
  <1>4. Finalises(outq[1])
    BY <1>1, <1>2, <1>3 DEF Finalises, Arg
  <1>5. PICK w \in Work : Place(w) = Len(flashed) + 1
                          /\ [part |-> outq[1].arg[1], data |-> xfer] = Image(w)
    BY <1>3, <1>4 DEF NextOK
  <1>6. QED
    BY <1>1, <1>2, <1>3, <1>4, <1>5 DEF Arg

\* A finalised image is one more, and those held before stay.
LEMMA FlashedGrows ==
    ASSUME DeviceTypeOK, NEW f, flashed' = Append(flashed, f)
    PROVE  /\ Len(flashed) \in Nat /\ Len(flashed') = Len(flashed) + 1
           /\ \A i \in 1..Len(flashed) : flashed'[i] = flashed[i]
           /\ flashed'[Len(flashed) + 1] = f
  <1> DEFINE S == {flashed[i] : i \in 1..Len(flashed)} \cup {f}
  <1>1. flashed \in Seq([part : Nat, data : Seq(Seq(Nat))])
    BY DEF DeviceTypeOK
  <1>2. flashed \in [1..Len(flashed) -> S] /\ Len(flashed) \in Nat
    BY <1>1, LenProperties
  <1>3. flashed \in Seq(S) /\ f \in S
    BY <1>2
  <1> HIDE DEF S
  <1>4. QED
    BY <1>3

LEMMA HeldDevice ==
    ASSUME ChannelTypeOK(Ops), DeviceTypeOK, HostTypeOK, NextOK, HeldOK, DeviceNext,
           UNCHANGED host
    PROVE  HeldOK'
  <1>h. cfg' = cfg
    BY DEF host
  <1>w. Work' = Work /\ (\A w : Image(w)' = Image(w)) /\ (\A w : Place(w)' = Place(w))
    BY <1>h, OrderFixed
  <1>1. CASE flashed' = flashed
    BY <1>1, <1>w DEF HeldOK
  <1>2. CASE flashed' # flashed
    <2>1. PICK w \in Work : Place(w) = Len(flashed) + 1 /\ flashed' = Append(flashed, Image(w))
      BY <1>2, Finalising
    <2>2. /\ Len(flashed) \in Nat /\ Len(flashed') = Len(flashed) + 1
          /\ \A i \in 1..Len(flashed) : flashed'[i] = flashed[i]
          /\ flashed'[Len(flashed) + 1] = Image(w)
      BY <2>1, FlashedGrows
    <2>3. Len(flashed') <= Cardinality(Work)
      BY <2>1, <2>2, PlaceBound
    <2>4. ASSUME NEW v \in Work, Place(v) <= Len(flashed')
          PROVE  flashed'[Place(v)] = Image(v)
      <3>1. Place(v) \in Nat \ {0}
        BY PlaceBound
      <3>2. CASE Place(v) = Len(flashed) + 1
        <4>1. v = w
          BY <2>1, <3>2, PlaceInjective
        <4>2. QED  BY <2>2, <3>2, <4>1
      <3>3. CASE Place(v) # Len(flashed) + 1
        <4>1. Place(v) \in 1..Len(flashed)
          BY <2>2, <2>4, <3>1, <3>3
        <4>2. QED  BY <2>2, <4>1 DEF HeldOK
      <3>4. QED  BY <3>2, <3>3
    <2>5. QED  BY <1>w, <2>3, <2>4 DEF HeldOK
  <1>3. QED  BY <1>1, <1>2

\* The image at the cursor is the one that is due.
LEMMA CursorDue ==
    ASSUME HostTypeOK, CursorOK, CodeOK, DryOK, CountOK, pc \in InFile, ~Finalised
    PROVE  /\ Cursor \in Work /\ Place(Cursor) = Len(flashed) + 1
           /\ [part |-> Current.part, data |-> Prefix(Current.announced)] = Image(Cursor)
  <1>1. pc \in AtArchive /\ Flashing /\ rc = "Success"
    BY DEF AtArchive, InFile, ThorFile, LegacyFile, DryOK, WriteLocations, Flashing, CodeOK
  <1>2. /\ arch <= Len(cfg.archives) /\ entry <= Len(cfg.archives[arch].entries)
        /\ Current.kind = "file" /\ Current.part # 0
    BY DEF CursorOK
  <1>3. Cursor \in Work /\ Cursor[1] = arch /\ Cursor[2] = entry
        /\ EntryAt(Cursor[1], Cursor[2]) = Current
    BY <1>2, CursorPlace
  <1>4. Passed = {v \in Work : Precedes(v, Cursor)}
    <2>1. Work \subseteq Positions
      BY PositionsFinite
    <2>2. QED  BY <1>1, <2>1 DEF Passed, Behind
  <1>5. Cardinality(Passed) \in Nat
    <2>1. Passed = Behind \cap Work
      BY DEF Passed
    <2>2. QED  BY <2>1, BehindFinite
  <1>6. Place(Cursor) = Len(flashed) + 1
    BY <1>1, <1>4, <1>5 DEF CountOK, Place
  <1>7. QED
    BY <1>3, <1>6 DEF Image, Prefix

LEMMA NextHost ==
    ASSUME InStepInv, ReceivedOK, DryOK, CodeOK, CountOK, NextOK, HostNext
    PROVE  NextOK'
  <1>0. /\ ChannelTypeOK(Ops) /\ DeviceTypeOK /\ HostTypeOK /\ CursorOK /\ PartOK
        /\ TroubleEnds /\ Lockstep
    BY TypeParts DEF InStepInv, TypeInv
  <1>x. xfer' = xfer /\ flashed' = flashed /\ cfg' = cfg
    BY DEF HostNext, device
  <1>w. Work' = Work /\ (\A w : Image(w)' = Image(w)) /\ (\A w : Place(w)' = Place(w))
    BY <1>x, OrderFixed
  <1>1. CASE outq' = outq
    BY <1>1, <1>x, <1>w DEF NextOK, Finalises
  <1>2. CASE HostAsks
    <2> PICK op \in Ops, arg \in Seq(Nat) : Send(op, arg) /\ AskedBy(op, arg) /\ Stays
      BY <1>2 DEF HostAsks
    <2> DEFINE q == [n |-> sent + 1, op |-> op, arg |-> arg]
    <2>1. outq' = Append(outq, q) /\ phase = "send"
      BY DEF Send
    <2>2. q \in Request(Ops) /\ q.op = op /\ q.arg = arg /\ outq \in Seq(Request(Ops))
      BY <1>0 DEF ChannelTypeOK, Request
    <2>3. <<pc, op>> \in Asks
      BY DEF AskedBy
    <2> HIDE DEF q
    <2>4. ASSUME Finalises(q)
          PROVE  outq = <<>> /\ \E w \in Work : /\ Place(w) = Len(flashed) + 1
                                                /\ [part |-> q.arg[1], data |-> xfer] = Image(w)
      <3>1. \/ op = "END_FILE_TRANSFER" /\ pc = "end_file_transfer"
            \/ op = "EndSequenceFlash" /\ pc = "odin_end_sequence_flash" /\ arg[2] = 1
        BY <2>2, <2>3, <2>4 DEF Finalises, Asks
      <3>2. ~trouble /\ pc # "handshake"
        BY <1>0, <3>1 DEF TroubleEnds
      <3>3. outq = <<>>
        BY <1>0, <2>1, <3>2 DEF Lockstep, InStep
      <3>4. xfer = Prefix(part) /\ ~Finalised
        BY <2>1, <3>1, <3>2 DEF ReceivedOK, Received, Done, Finalised
      <3>5. part = Current.announced
        BY <1>0, <3>1 DEF AskedBy, IsLast, PartOK
      <3>6. q.arg[1] = Current.part
        BY <2>2, <3>1 DEF AskedBy
      <3>7. pc \in InFile
        BY <3>1 DEF InFile, ThorFile, LegacyFile
      <3>8. /\ Cursor \in Work /\ Place(Cursor) = Len(flashed) + 1
            /\ [part |-> Current.part, data |-> Prefix(Current.announced)] = Image(Cursor)
        BY <1>0, <3>4, <3>7, CursorDue
      <3>9. QED  BY <3>3, <3>4, <3>5, <3>6, <3>8
    <2>5. ASSUME NEW i \in 1..Len(outq'), Finalises(outq'[i])
          PROVE  i = 1 /\ \E w \in Work :
                     /\ Place(w) = Len(flashed) + 1
                     /\ [part |-> outq'[i].arg[1], data |-> xfer] = Image(w)
      <3>1. CASE i = Len(outq) + 1
        <4>1. outq'[i] = q
          BY <2>1, <2>2, <3>1
        <4>2. Finalises(q)
          BY <2>5, <4>1
        <4>3. i = 1
          BY <2>4, <3>1, <4>2
        <4>4. QED  BY <2>4, <4>1, <4>2, <4>3
      <3>2. CASE i # Len(outq) + 1
        <4>1. i \in 1..Len(outq) /\ outq'[i] = outq[i]
          BY <2>1, <2>2, <2>5, <3>2
        <4>2. QED  BY <2>5, <4>1 DEF NextOK
      <3>3. QED  BY <3>1, <3>2
    <2>6. QED  BY <1>x, <1>w, <2>5 DEF NextOK, Finalises
  <1>3. QED
    BY <1>0, <1>1, <1>2, HostShape DEF HostGivesUp, HostReads, HostReadsOn, HostTurns,
       HostWorks, Read, chan

LEMMA NextDevice ==
    ASSUME ~ProgressReplies, ChannelTypeOK(Ops), DeviceTypeOK, NextOK, DeviceNext
    PROVE  NextOK'
  <1>1. outq # <<>> /\ \E replies \in Seq(Reply) : Serve(replies)
    BY DeviceShape DEF Answers
  <1>2. \A i \in 1..Len(outq') : i + 1 \in 1..Len(outq) /\ outq'[i] = outq[i + 1]
    BY <1>1, ServeFacts
  <1>3. ASSUME NEW i \in 1..Len(outq')
        PROVE  ~Finalises(outq'[i])
    <2>1. i + 1 \in 1..Len(outq) /\ i + 1 # 1 /\ outq'[i] = outq[i + 1]
      BY <1>2
    <2>2. QED  BY <2>1 DEF NextOK
  <1>4. QED
    BY <1>3 DEF NextOK, Finalises

-----------------------------------------------------------------------------
(* The whole invariant.                                                    *)

LEMMA SessionInit ==
    ASSUME Init
    PROVE  SessionInv
  <1>1. FlashInv /\ OrderIInv /\ VerdictIInv
    BY FlashInvInit, OrderInit, VerdictInit
  <1>2. HostTypeOK
    BY <1>1, TypeParts DEF FlashInv, TypeInv
  <1>3. /\ outq = <<>> /\ flashed = <<>> /\ pc = "open_device" /\ arch = 1
    BY DEF Init, ChannelInit, DeviceInit
  <1>4. Passed = {}
    <2>1. pc \notin AtArchive /\ ~Finalised
      BY <1>3 DEF AtArchive, InFile, ThorFile, LegacyFile, Finalised
    <2>2. \A w \in Positions : ~(w[1] < 1)
      BY <1>2, PositionFacts
    <2>3. QED  BY <1>3, <2>1, <2>2 DEF Passed, Behind
  <1>5. CountOK
    BY <1>3, <1>4, FS_EmptySet DEF CountOK
  <1>6. HeldOK
    <2>1. Cardinality(Work) \in Nat
      BY <1>2, PositionsFinite, FS_CardinalityType
    <2>2. \A w \in Work : Place(w) > 0
      BY <1>2, PlaceBound
    <2>3. \A w \in Work : ~(Place(w) <= 0)
      BY <1>2, <2>2, PlaceBound
    <2>4. Len(flashed) = 0
      BY <1>3
    <2>5. QED  BY <2>1, <2>3, <2>4 DEF HeldOK
  <1>7. NextOK
    BY <1>3 DEF NextOK
  <1>8. QED
    BY <1>1, <1>5, <1>6, <1>7 DEF SessionInv, HoldInv, OrderIInv, VerdictIInv

LEMMA SessionNext ==
    ASSUME ~ProgressReplies, SessionInv, [Next]_vars
    PROVE  SessionInv'
  <1>0. /\ FlashInv /\ OrderIInv /\ VerdictIInv /\ InStepInv /\ ReceivedOK
        /\ RepliesFinal /\ StageOK /\ DryOK /\ CodeOK /\ CountOK /\ HeldOK /\ NextOK
        /\ ChannelTypeOK(Ops) /\ DeviceTypeOK /\ HostTypeOK
    BY TypeParts DEF SessionInv, FlashInv, OrderIInv, OrderInv, VerdictIInv, VerdictInv,
       InStepInv, HoldInv, TypeInv
  <1>1. FlashInv' /\ OrderIInv' /\ VerdictIInv'
    BY <1>0, FlashInvNext, OrderNext, VerdictNext
  <1>2. HoldInv'
    <2>1. CASE HostNext
      <3>1. CountOK' /\ NextOK'
        BY <1>0, <2>1, CountHost, NextHost
      <3>2. HeldOK'
        <4>1. cfg' = cfg /\ flashed' = flashed
          BY <2>1 DEF HostNext, device
        <4>2. Work' = Work /\ (\A w : Image(w)' = Image(w)) /\ (\A w : Place(w)' = Place(w))
          BY <4>1, OrderFixed
        <4>3. QED  BY <1>0, <4>1, <4>2 DEF HeldOK
      <3>3. QED  BY <3>1, <3>2 DEF HoldInv
    <2>2. CASE DeviceNext /\ UNCHANGED host
      BY <1>0, <2>2, CountDevice, HeldDevice, NextDevice DEF HoldInv
    <2>3. CASE UNCHANGED vars
      <3>1. /\ pc' = pc /\ rc' = rc /\ arch' = arch /\ entry' = entry
            /\ part' = part /\ cfg' = cfg /\ xfer' = xfer /\ flashed' = flashed
            /\ phase' = phase /\ outq' = outq /\ inq' = inq
        BY <2>3 DEF vars, host, cursor, device, chan
      <3>2. Work' = Work /\ (\A w : Image(w)' = Image(w)) /\ (\A w : Place(w)' = Place(w))
        BY <3>1, OrderFixed
      <3>3. Behind' = Behind
        BY <3>1, BehindStays
      <3>4. Passed' = Passed
        BY <3>1, <3>2, <3>3 DEF Passed, Finalised, Done, IsLast, Current, Cursor
      <3>5. QED  BY <1>0, <3>1, <3>2, <3>4 DEF HoldInv, CountOK, HeldOK, NextOK, Flashing, Finalises
    <2>4. QED  BY <2>1, <2>2, <2>3 DEF Next
  <1>3. QED
    BY <1>1, <1>2 DEF SessionInv, OrderIInv, VerdictIInv

\* The inductive invariant of a session, which the run flash_session checks.
THEOREM SessionInvariant ==
    ASSUME ~ProgressReplies
    PROVE  Spec => []SessionInv
  <1>1. Init => SessionInv
    BY SessionInit
  <1>2. SessionInv /\ [Next]_vars => SessionInv'
    BY SessionNext
  <1>3. QED
    BY <1>1, <1>2, PTL DEF Spec

LEMMA SuccessHolds ==
    ASSUME SessionInv
    PROVE  SuccessMeansFlashed
  <1> SUFFICES ASSUME pc = "exit", rc = "Success", Flashing
               PROVE  /\ Len(flashed) = Cardinality(Work)
                      /\ \A w \in Work : flashed[Place(w)] = Image(w)
                      /\ stage = "idle"
    BY DEF SuccessMeansFlashed
  <1>1. HostTypeOK /\ CodeOK /\ CountOK /\ HeldOK /\ StageOK
    BY TypeParts DEF SessionInv, FlashInv, VerdictInv, HoldInv, OrderInv, TypeInv
  <1>2. ~trouble /\ arch > Len(cfg.archives)
    BY <1>1 DEF CodeOK, Closing
  <1>3. pc \notin AtArchive /\ ~Finalised
    BY DEF AtArchive, InFile, ThorFile, LegacyFile, Finalised
  <1>4. Behind = Positions /\ Work \subseteq Positions
    BY <1>1, <1>2, <1>3, BehindAll, PositionsFinite
  <1>5. Passed = Work
    BY <1>3, <1>4 DEF Passed
  <1>6. Len(flashed) = Cardinality(Work)
    BY <1>1, <1>5 DEF CountOK
  <1>7. \A w \in Work : flashed[Place(w)] = Image(w)
    BY <1>1, <1>6, PlaceBound DEF HeldOK
  <1>8. stage = "idle"
    BY <1>1, <1>2 DEF StageOK, Staged
  <1>9. QED  BY <1>6, <1>7, <1>8

\* Exit code Success of a flashing run: every tar entry with a PIT match has
\* been finalised exactly once and in order, with all its chunks, nothing else
\* has, and the device is out of the session - for every list of archives.
THEOREM SuccessIsFlashed ==
    ASSUME ~ProgressReplies
    PROVE  Spec => []SuccessMeansFlashed
  <1>1. SessionInv => SuccessMeansFlashed
    BY SuccessHolds
  <1>2. QED
    BY <1>1, SessionInvariant, PTL

-----------------------------------------------------------------------------
(* FlashSession implements FlashPromise.                                   *)

\* Goal lists the images by their places.
GoalOK ==
    /\ \A i \in 1..Cardinality(Work) : WorkAt(i) \in Work /\ Place(WorkAt(i)) = i
    /\ Goal \in Seq([part : Nat, data : Seq(Seq(Nat))])
    /\ Flashing => /\ Len(Goal) = Cardinality(Work)
                   /\ \A w \in Work : Goal[Place(w)] = Image(w)

LEMMA ImageTyped ==
    ASSUME HostTypeOK, NEW w \in Work
    PROVE  Image(w) \in [part : Nat, data : Seq(Seq(Nat))]
  <1> DEFINE e == EntryAt(w[1], w[2])
             data == [k \in 1..e.announced |-> <<w[1], w[2], k>>]
  <1>1. w \in Positions
    BY PositionsFinite
  <1>2. e \in Entries /\ w[1] \in Nat /\ w[2] \in Nat
    BY <1>1, PositionFacts
  <1>3. e.part \in Nat /\ e.announced \in Nat
    BY <1>2 DEF Entries
  <1> HIDE DEF e
  <1>4. \A k \in 1..e.announced : <<w[1], w[2], k>> \in Seq(Nat)
    BY <1>2, <1>3, ArgFacts
  <1>5. data \in Seq(Seq(Nat))
    <2> DEFINE SN == Seq(Nat)
               n == e.announced
               d(k) == <<w[1], w[2], k>>
    <2>1. n \in Nat /\ \A k \in 1..n : d(k) \in SN
      BY <1>3, <1>4
    <2> HIDE DEF SN, n, d
    <2>2. [k \in 1..n |-> d(k)] \in Seq(SN)
      BY <2>1
    <2>3. QED  BY <2>2 DEF SN, n, d
  <1> HIDE DEF data
  <1>6. [part |-> e.part, data |-> data] \in [part : Nat, data : Seq(Seq(Nat))]
    BY <1>3, <1>5
  <1>7. Image(w) = [part |-> e.part, data |-> data]
    BY DEF Image, e, data
  <1>8. QED  BY <1>6, <1>7

LEMMA GoalHolds ==
    ASSUME HostTypeOK
    PROVE  GoalOK
  <1> DEFINE N == Cardinality(Work)
             I == [part : Nat, data : Seq(Seq(Nat))]
             g == [i \in 1..N |-> Image(WorkAt(i))]
  <1>1. \A i \in 1..N : WorkAt(i) \in Work /\ Place(WorkAt(i)) = i
    BY PlaceOnto
  <1>2. N \in Nat
    BY PositionsFinite, FS_CardinalityType
  <1> HIDE DEF N
  <1>3. g \in Seq(I) /\ Len(g) = N
    <2>1. \A i \in 1..N : Image(WorkAt(i)) \in I
      BY <1>1, ImageTyped
    <2> HIDE DEF I
    <2>2. QED  BY <1>2, <2>1
  <1>4. \A w \in Work : g[Place(w)] = Image(w)
    <2> TAKE w \in Work
    <2>1. Place(w) \in 1..N
      BY PlaceBound DEF N
    <2>2. WorkAt(Place(w)) = w
      BY <1>1, <2>1, PlaceInjective
    <2>3. QED  BY <2>1, <2>2
  <1>5. CASE Flashing
    <2>1. Goal = g
      BY <1>5 DEF Goal, N
    <2> HIDE DEF g
    <2>2. QED  BY <1>1, <1>3, <1>4, <2>1 DEF GoalOK, N
  <1>6. CASE ~Flashing
    <2>1. Goal = <<>>
      BY <1>6 DEF Goal
    <2>2. <<>> \in Seq(I)
      OBVIOUS
    <2> HIDE DEF g
    <2>3. QED  BY <1>1, <1>6, <2>1, <2>2 DEF GoalOK, N
  <1>7. QED  BY <1>5, <1>6

LEMMA GoalFixed ==
    ASSUME HostTypeOK, GoalOK, GoalOK', cfg' = cfg
    PROVE  Goal' = Goal
  <1>1. Work' = Work /\ (\A w : Image(w)' = Image(w)) /\ (\A w : Place(w)' = Place(w))
    BY OrderFixed
  <1>2. CASE ~Flashing
    <2>1. ~Flashing'
      BY <1>2 DEF Flashing
    <2>2. QED  BY <1>2, <2>1 DEF Goal
  <1>3. CASE Flashing
    <2>1. Flashing'
      BY <1>3 DEF Flashing
    <2>2. /\ Goal \in Seq([part : Nat, data : Seq(Seq(Nat))]) /\ Len(Goal) = Cardinality(Work)
          /\ \A w \in Work : Goal[Place(w)] = Image(w)
          /\ \A i \in 1..Cardinality(Work) : WorkAt(i) \in Work /\ Place(WorkAt(i)) = i
      BY <1>3 DEF GoalOK
    <2>3. /\ Goal' \in Seq([part : Nat, data : Seq(Seq(Nat))])
          /\ Len(Goal') = Cardinality(Work)
          /\ \A w \in Work : Goal'[Place(w)] = Image(w)
      BY <1>1, <2>1 DEF GoalOK
    <2>4. \A i \in 1..Cardinality(Work) : Goal'[i] = Goal[i]
      BY <2>2, <2>3
    <2>5. QED  BY <2>2, <2>3, <2>4, SeqEqual
  <1>4. QED  BY <1>2, <1>3

Verdict == IF pc = "exit" THEN rc ELSE "none"

LEMMA PromiseInit ==
    ASSUME Init
    PROVE  Promise!Init
  <1>1. HostTypeOK
    BY TypeInvInit, TypeParts DEF TypeInv
  <1>2. GoalOK
    BY <1>1, GoalHolds
  <1>3. flashed = <<>> /\ pc # "exit"
    BY DEF Init, DeviceInit
  <1>4. QED
    BY <1>2, <1>3 DEF GoalOK, Promise!Init

\* A device step holds the next image, or is none of the promise's business.
LEMMA PromiseDevice ==
    ASSUME ~ProgressReplies, SessionInv, GoalOK, GoalOK', DeviceNext, UNCHANGED host
    PROVE  Promise!HoldNext \/ UNCHANGED <<Goal, flashed, Verdict>>
  <1>0. /\ ChannelTypeOK(Ops) /\ DeviceTypeOK /\ HostTypeOK /\ NextOK /\ DryOK /\ CodeOK
        /\ Lockstep
    BY TypeParts DEF SessionInv, FlashInv, VerdictInv, HoldInv, TypeInv
  <1>h. cfg' = cfg /\ pc' = pc /\ rc' = rc
    BY DEF host
  <1>1. Goal' = Goal
    BY <1>0, <1>h, GoalFixed
  <1>2. Verdict' = Verdict
    BY <1>h DEF Verdict
  <1>3. CASE flashed' = flashed
    BY <1>1, <1>2, <1>3
  <1>4. CASE flashed' # flashed
    <2>1. /\ 1 \in 1..Len(outq) /\ outq[1].op \in {"END_FILE_TRANSFER", "EndSequenceFlash"}
          /\ \E w \in Work : /\ Place(w) = Len(flashed) + 1
                             /\ flashed' = Append(flashed, Image(w))
      BY <1>0, <1>4, Finalising
    <2>2. PICK w \in Work : Place(w) = Len(flashed) + 1 /\ flashed' = Append(flashed, Image(w))
      BY <2>1
    <2>3. Flashing
      BY <1>0, <2>1 DEF DryOK, DryRunTouchesNothing, WriteOps, Flashing
    <2>4. Place(w) \in 1..Cardinality(Work) /\ Cardinality(Work) \in Nat
      BY <1>0, PlaceBound
    <2>5. /\ Len(Goal) = Cardinality(Work) /\ Goal[Len(flashed) + 1] = Image(w)
      BY <2>2, <2>3 DEF GoalOK
    <2>6. Len(flashed) \in Nat
      BY <1>0 DEF DeviceTypeOK
    <2>7. Len(flashed) < Len(Goal)
      BY <2>2, <2>4, <2>5, <2>6
    <2>8. Verdict # "Success"
      <3>1. SUFFICES ASSUME pc = "exit", rc = "Success"
                     PROVE  FALSE
        BY DEF Verdict
      <3>2. InStep
        BY <1>0, <3>1 DEF CodeOK, Lockstep
      <3>3. outq # <<>> /\ phase \in {"send", "recv"}
        BY <1>0, DeviceShape DEF Answers, ChannelTypeOK
      <3>4. Asked
        BY <3>2, <3>3 DEF InStep, Answered
      <3>5. QED  BY <3>1, <3>4 DEF Asked, Asks
    <2>9. QED  BY <1>1, <1>2, <2>2, <2>5, <2>7, <2>8 DEF Promise!HoldNext, Verdict
  <1>5. QED  BY <1>3, <1>4

\* A host step gives the exit code, or is none of the promise's business.
LEMMA PromiseHost ==
    ASSUME SessionInv, SessionInv', GoalOK, GoalOK', SuccessMeansFlashed', HostNext
    PROVE  Promise!Decide \/ UNCHANGED <<Goal, flashed, Verdict>>
  <1>0. HostTypeOK /\ DeviceTypeOK
    BY TypeParts DEF SessionInv, FlashInv, TypeInv
  <1>x. cfg' = cfg /\ flashed' = flashed
    BY DEF HostNext, device
  <1>1. Goal' = Goal
    BY <1>0, <1>x, GoalFixed
  <1>2. pc # "exit"
    BY DEF HostNext, OpenDevice, OdinLegacyHandshake, Handshake, RequestDeviceType,
       VerifyFirmwareCompatibility, BeginSession, OdinBeginSession, OdinFilePartSize,
       RequestPit, ReceivePitTable, OdinDumpPit, OdinPitBlock, OdinPitData, OdinEndPit,
       ProcessTarFile, ArchivesDone, EndOfArchive, BadEntry, SkipEntry, RejectEntry,
       CheckEntry, FlashEntry, Fresh, AtEntry, SendFilePartHeader, SendFilePartChunk,
       FilePartData, ChunksDone, EndFileTransfer, OdinRequestFileFlash,
       OdinRequestSequenceFlash, OdinSendFilePart, OdinReadFails, OdinEndSequenceFlash,
       OdinResetFlashCount, SendReboot, SendRedownload, EndSession
  <1>3. CASE pc' # "exit"
    BY <1>1, <1>2, <1>3, <1>x DEF Verdict
  <1>4. CASE pc' = "exit"
    <2>1. Verdict = "none" /\ Verdict' = rc' /\ rc' \in ExitCodes
      <3>1. rc' \in ExitCodes
        BY DEF SessionInv, FlashInv, TypeInv, TypeOK
      <3>2. QED  BY <1>2, <1>4, <3>1 DEF Verdict
    <2>2. ASSUME rc' = "Success"
          PROVE  flashed = Goal
      <3>1. CASE ~Flashing
        <4>1. cfg.dry_run /\ DryOK
          BY <3>1 DEF Flashing, SessionInv
        <4>2. QED  BY <3>1, <4>1 DEF DryOK, DryRunTouchesNothing, Goal
      <3>2. CASE Flashing
        <4>1. Flashing'
          BY <1>x, <3>2 DEF Flashing
        <4>w. Work' = Work /\ (\A w : Image(w)' = Image(w)) /\ (\A w : Place(w)' = Place(w))
          BY <1>x, OrderFixed
        <4>3. /\ Len(flashed) = Cardinality(Work)
              /\ \A w \in Work : flashed[Place(w)] = Image(w)
          BY <1>x, <1>4, <2>2, <4>1, <4>w DEF SuccessMeansFlashed
        <4>4. /\ Goal \in Seq([part : Nat, data : Seq(Seq(Nat))]) /\ Len(Goal) = Cardinality(Work)
              /\ \A w \in Work : Goal[Place(w)] = Image(w)
              /\ \A i \in 1..Cardinality(Work) : WorkAt(i) \in Work /\ Place(WorkAt(i)) = i
          BY <3>2 DEF GoalOK
        <4>5. \A i \in 1..Cardinality(Work) : flashed[i] = Goal[i]
          BY <4>3, <4>4
        <4>6. flashed \in Seq([part : Nat, data : Seq(Seq(Nat))])
          BY <1>0 DEF DeviceTypeOK
        <4>7. QED  BY <4>3, <4>4, <4>5, <4>6, SeqEqual
      <3>3. QED  BY <3>1, <3>2
    <2>3. QED  BY <1>1, <1>x, <2>1, <2>2 DEF Promise!Decide, Verdict
  <1>5. QED  BY <1>3, <1>4

\* Every run of odin4 is one that FlashPromise allows: seen from outside, the
\* images appear at the device whole, one at a time, in order and none left
\* out, the exit code is given once, Success only after the last image, and
\* nothing is flashed after Success.
THEOREM PromiseKept ==
    ASSUME ~ProgressReplies
    PROVE  Spec => KeepsPromise
  <1> DEFINE Inv == SessionInv /\ GoalOK /\ SuccessMeansFlashed
  <1>1. Init => Inv /\ Promise!Init
    <2> SUFFICES ASSUME Init
                 PROVE  Inv /\ Promise!Init
      OBVIOUS
    <2>1. SessionInv
      BY SessionInit
    <2>2. GoalOK
      BY <2>1, GoalHolds, TypeParts DEF SessionInv, FlashInv, TypeInv
    <2>3. QED  BY <2>1, <2>2, PromiseInit, SuccessHolds
  <1>2. SessionInv => GoalOK /\ SuccessMeansFlashed
    BY GoalHolds, SuccessHolds, TypeParts DEF SessionInv, FlashInv, TypeInv
  <1>3. Inv /\ Inv' /\ [Next]_vars => [Promise!Next]_(Promise!vars)
    <2> SUFFICES ASSUME Inv, Inv', [Next]_vars
                 PROVE  [Promise!Next]_(Promise!vars)
      OBVIOUS
    <2>1. CASE HostNext
      <3>1. Promise!Decide \/ UNCHANGED <<Goal, flashed, Verdict>>
        BY <2>1, PromiseHost
      <3>2. QED  BY <3>1 DEF Promise!Next, Promise!vars, Verdict
    <2>2. CASE DeviceNext /\ UNCHANGED host
      <3>1. Promise!HoldNext \/ UNCHANGED <<Goal, flashed, Verdict>>
        BY <2>2, PromiseDevice
      <3>2. QED  BY <3>1 DEF Promise!Next, Promise!vars, Verdict
    <2>3. CASE UNCHANGED vars
      <3>1. cfg' = cfg /\ pc' = pc /\ rc' = rc /\ flashed' = flashed
        BY <2>3 DEF vars, host, device
      <3>2. Goal' = Goal
        BY <3>1, GoalFixed, TypeParts DEF SessionInv, FlashInv, TypeInv
      <3>3. QED  BY <3>1, <3>2 DEF Promise!vars
    <2>4. QED  BY <2>1, <2>2, <2>3 DEF Next
  <1>4. Spec => []SessionInv
    BY SessionInvariant
  <1>5. QED
    BY <1>1, <1>2, <1>3, <1>4, PTL DEF Spec, KeepsPromise
===============================================================================
