# A verification project for odin4

odin4 writes Samsung firmware archives to a device in Download Mode over USB.
This directory holds TLA+ models of the program in `src/src`, configurations
that check them with TLC on small instances, and proofs checked with TLAPS that
hold for every instance. Line numbers below are those of `src/src`.

What can go wrong here is not concurrency inside the program (it has one
thread) but the conversation with a device: two byte pipes that are never
flushed, requests and replies without numbers, timeouts that do not take a
request back, retries inside single transfers, and some thirty places where a
run can fail half way through writing a phone.

## 1. Inventory

| Component | Code | State | Operations |
|---|---|---|---|
| Run control | `main.cpp` 191-288 | `cfg`, the exit code | `run_for_device`: open, handshake, type check, session, PIT, archives, reboot, end of session |
| Session protocols | `usb_device.cpp` 387-1351, `thor_protocol.h` | `protocol_mode`, `device_type_str`, the legacy packet size, sequence count and timeout | the Thor packets and the legacy `odin_*` commands; each sends one request and reads its reply |
| Bulk transfers | `usb_device.cpp` 73-135, 387-451 | `max_chunk_bytes`, `endpoint_out_max_packet` | `bulk_write_all`, `send_zlp`, `bulk_read_once`, `receive_packet` |
| Raw images | `usb_device.cpp` 1258-1351 | stream position, sequence and part counters | `flash_partition_stream` |
| USB discovery | `usb_device.cpp` 20-71, 137-385, 533-585 | `handle`, `device_list`, `kernel_driver_detached`, `last_open_error` | `open_device`, `find_best_interface`, `list_download_devices`, the destructor |
| PIT transfer and parsing | `usb_device.cpp` 653-840, 1204-1256 | `PitTable`, the raw PIT | `receive_pit_table`, `odin_dump_pit`, `parse_pit_bytes` |
| Archive traversal | `firmware_package.cpp` 617-925 | file position, pending long name and PAX path, `used_partition_ids` | `process_tar_file` |
| MD5 trailer | `firmware_package.cpp` 95-240 | `TarMd5Info` | `detect_tar_md5_info`, `verify_tar_md5` |
| LZ4 decoding | `firmware_package.cpp` 313-615 | decompression context, input buffer, chunk index, totals | `process_lz4_streaming` |
| Command line | `main.cpp` 290-476, `odin_types.h` | `OdinConfig` | `process_arguments_and_run` |
| Logging | `logger.cpp` | level, log stream | output only |
| Vendored LZ4 | `lib/lz4`: `lz4frame.c`, `lz4.c`, `xxhash.c` | `LZ4F_dctx_s`: stage, history, `tmpOut`; `XXH32_state_t` | `LZ4F_decompress`, `LZ4F_getFrameInfo`, `LZ4_decompress_safe_usingDict`, `XXH32_update` |
| External | libusb, Crypto++, the bootloader | | used by the above |

How they interact. `main` builds an `OdinConfig` and calls `run_for_device`,
which owns one `UsbDevice`. It calls the session operations in a fixed order and
`process_tar_file` for each archive (BL, AP, CP, CSC, UMS). `process_tar_file`
walks the entries and, for an entry the PIT knows, has its bytes sent by
`flash_partition_stream` or by `process_lz4_streaming`, which call back into
`UsbDevice` chunk by chunk. All of these report by return value only;
`run_for_device` turns them into an exit code and calls `end_session` on the way
out. The only other party is the bootloader, which handles requests in the order
of the pipe, at its own pace.

Hard behaviour, and what makes each part correct:

- *Late replies.* A read that times out leaves its reply in the pipe. Every
  reply acted on must answer the request just made.
- *Late requests.* The host may give up and send `END_SESSION` behind requests
  the device has not handled. The device must still meet them in legal order.
- *Partial images.* Whatever fails, the device must not be told to finalise a
  partition whose data are incomplete, reordered or foreign.
- *Verdicts.* Exit code 0 must mean that everything was flashed, exactly once;
  other codes must not be lost or invented between four layers of return values.
- *Check-only* must write nothing, and should predict the flashing run.
- *Termination* against a device that answers nothing.
- *Partial transfers and retries.* A retry may neither repeat nor skip a byte,
  and the tail of a half-read reply must never count as the reply.
- *Things held.* A handle, a claimed interface, a detached kernel driver and the
  enumeration must be given back on every path, with devices that come and go.
- *Streams in pieces.* The LZ4 decoder may stop at every byte of input or output;
  its history lives partly in a buffer the caller overwrites. Content must not
  depend on where the pieces end.
- *Boundaries.* Sequences and parts of a legacy image, zero-length packets at
  multiples of the packet size, tar sizes and padding, PIT bounds, the distances
  the block decoder keeps from the ends of its buffers.

`hazards` in `PROJECT.json` lists these with the line where each one bites and
the properties that cover it; some have no property yet and say why.

## 2. The modules

```
UsbChannel            two FIFO pipes of whole requests and replies
  DownloadDevice      the bootloader (external), both protocols
    FlashSession      run_for_device, process_tar_file, UsbDevice operations
      FlashSessionRefinement  FlashSession implements FlashPromise
      FlashSessionInv         the inductive invariant of the conversation
        FlashOutcomeInv       the inductive invariant of a run's outcome
          FlashSessionProofs    all theorems about a session
FlashPromise          what a run promises, seen from outside
DeviceWrites          one of two:                      DeviceWritesProofs
  BulkWrite             bulk_write_all, send_zlp
  ImageTransfer         flash_partition_stream, in bytes
DeviceReads           one of two:                      DeviceReadsProofs
  BulkRead              receive_packet, bulk_read_once
  PitTransfer           request_pit, parse_pit_bytes
ArchiveReading        one of four:                     ArchiveProofs
  TarArchive            process_tar_file, in bytes
    PitMatch              which PIT entry a file name gets
  TarMd5                detect_tar_md5_info, verify_tar_md5
  ParseOctal            parse_octal_u64
  TarChecksum           tar_header_checksum_valid
Lz4Images             one of four:                     Lz4Proofs, Lz4FrameProofs
  Lz4Stream             process_lz4_streaming
  Lz4Frame              LZ4F_decompress
  Lz4Block              LZ4_decompress_generic
  Xxh32                 streaming XXH32
Opening               one of three:                    OpeningProofs
  UsbOpen               list_download_devices, open_device
  CommandLine           process_arguments_and_run
  ModelMatch            verify_firmware_compatibility
Inductions            induction over numbers and along a sequence, division, sums
```

Where one module holds several components, these share no state in the code
either: a variable `part` chooses in the initial state which of them runs, and
the others keep their initial values. The properties of a run and the theorems
are about that module. Instances for TLC are in six MC modules, which only give
the constants their values.

The components meet in these ways. `FlashSession` composes host, pipes and
device. The other modules each stand for one thing `FlashSession` takes as given,
and justify it:

| FlashSession takes as given | shown by |
|---|---|
| `Send` and `Receive` are all or nothing | `BulkWrite`, `BulkRead` |
| the PIT arrives whole or the request fails | `PitTransfer` |
| an image is its chunks, in order; a short file fails | `ImageTransfer` |
| an entry is a name, an announced and an available length | `TarArchive`, `ParseOctal`, `TarChecksum` |
| an archive's sum is right or wrong (`intact`) | `TarMd5` |
| an LZ4 entry gives its content or fails | `Lz4Stream`, which takes the decoder by its contract; `Lz4Frame`, `Lz4Block`, `Xxh32` |
| the file names match a set of device types (`matches`) | `ModelMatch` |
| the invocation is a sensible one; the device is open | `CommandLine`, `UsbOpen` |

**UsbChannel.** `outq` and `inq` are the two pipes. `Send`, `Receive` and `Fails`
are what an operation of `UsbDevice` can do with them. `Fails` covers every way
an operation returns false: the write failed (nothing was delivered), the read
timed out, or the reply read is not the expected one, which takes it off the
pipe. A timeout has no length, so a reply may arrive at any moment after it. An
unplugged device is the case in which every exchange fails from then on. A reply
carries a field `to`, the request it answers, which exists for the properties
only: no operation looks at it. Contents are reduced to what the host tests:
packet kind, code, and one number (device type, protocol version, part index).

**DownloadDevice** is external and modelled from the way `usb_device.cpp` uses
it. It handles requests in order, may refuse any of them, may stay silent for
ever and may answer late. It tracks the session (`stage`), the parts it still
expects (`due`), the chunks received (`xfer`) and the images it finalised
(`flashed`). A chunk is `<<archive, entry, index>>`, so a lost, repeated, or
foreign chunk is visible. Its PIT is one that the parser takes or not (`profile.pit`),
and the size it tells for it is within the limits or not. It begins outside a session: a device left in one by
an earlier, failed run is not considered. With `ProgressReplies` it may answer
`EndSequenceFlash` with a progress code before the verdict (comment at
`usb_device.cpp` 1057).

**FlashSession** is the core: 36 actions of the host. `pc` is the function that
runs, and an action is named after it; the source lines of each are in `map` of
`PROJECT.json`. An operation that exchanges packets is one action with three
disjuncts (ask, read an acceptable reply, fail). `Abort` is the error path
through `end_session`, `Stop` the one that returns directly. An archive is what
`process_tar_file` can learn about it: which device types its file name matches,
whether the checks before the first header succeed, and its entries. An entry
has its kind, the PIT entry it maps to, and how many chunks it announces and how
many can really be read from it, which covers truncated files, LZ4 frames that
end early or run over, and frames without a content size. Steps inside one
function that touch nothing shared (formatting, logging, header fields) are part
of the action that calls them.

**FlashPromise** has three variables: the images the invocation asks for, those
the device holds, the verdict. An image comes whole, as the next one of the
goal; the verdict is given once and is Success only when everything is held.
`FlashSessionRefinement` maps `flashed` to `held`, the exit code at
`pc = "exit"` to the verdict, and the entries with a PIT match to the goal.

**BulkWrite** and **BulkRead** are one message: packets, partial transfers,
errors, attempts. **ImageTransfer** cuts an image as `flash_partition_stream`
does, Thor chunks or legacy sequences of padded parts with aligned and real
sizes; the device puts together what it was told is data. **PitTransfer** brings
the PIT over in blocks or in one piece and parses it entry by entry; bytes the
device did not send are `Unset`.

**TarArchive** keeps the file position, the two pending names and the used
partitions. An archive is given twice: as a list of members, which the
properties speak of, and as positions of headers, data and end, which is all the
actions see. **TarMd5** searches the tail backwards one byte at a time and
hashes the content in buffers. **ParseOctal** has an accumulator of `Top`
values (2^64 in the code), **TarChecksum** a header one byte of which is changed on the way.

**Lz4Stream** feeds the decoder from `in_buf`, twice if the frame does not tell
its size. The decoder may use any part of what it gets and hold back output, or
use blocks only whole (`lazy`). **Lz4Frame** is `LZ4F_decompress` with one action
per stage of its switch, called with every combination of the given input and
output sizes, the output buffer overwritten or continued between calls; the
history is kept as the content positions its bytes hold, in `dict` and `tmpOut`.
**Lz4Block** steps through the sequences of one block with the memory it writes
told byte by byte, the strides included. **Xxh32** keeps what is mixed into the
hash, not the arithmetic. These three model what odin4 calls of the vendored
library.

**UsbOpen** makes one step of each libusb call that may fail, or that the bus may
change around, from `list_download_devices` to the destructor and the exit
handler. **CommandLine** is one action per kind of argument, then the checks and
the choice of a device. **ModelMatch** works on characters: the NUL, the spaces,
upper case, the SM prefix, and the search in each file name.

## 3. The runs

| Run | Question | Result |
|---|---|---|
| `flash_session` | both protocols, a device that may refuse, delay or stay silent, every kind of entry and archive, flashing and check-only | all hold (281620 states) |
| `flash_progress` | a legacy device with progress replies: can an incomplete image be finalised? | no (12240 states) |
| `bulk_write` | two messages of any size around the boundaries, every outcome of every transfer; images of any size in both protocols | all hold (10223 states) |
| `bulk_read` | every reply up to three packets, late, partial or missing; every PIT around block and entry boundaries | all hold (330989 states) |
| `archive` | tar walk, signed files, number fields, header sums | all hold (163867 states) |
| `lz4` | LZ4 images in pieces, from `process_lz4_streaming` down to one block and the hash | all hold (192984 states) |
| `usb_open` | opening a device while the bus changes; every short command line; every short device type | all hold (1443360 states) |
| `progress_taken_as_verdict` | does exit code 0 mean flashed and the session ended if progress replies exist? | **no** |
| `checks_after_writes` | are all checks made before any write (README line 91)? | **no** |
| `model_unchecked` | is the device model always checked (README line 95)? | **no** |
| `newline_hides_sum` | is every intact `.tar.md5` accepted (README line 79)? | **no** |
| `several_devices` | are several devices flashed one after another if none is named (README line 86)? | **no** |

`flash_session`:

- `AcceptsOwnReply`: a reply the host goes on with answers its last request. It
  rests on giving up at the first failed exchange, and on the handshake, the one
  place where a failure is not final: a late answer to the legacy greeting must
  not pass for the Thor one.
- `SuccessMeansFlashed`: exit code 0 means every image of every archive, once,
  in order, and nothing else.
- `DeviceInOrder`: every request reaches the device in the state the protocol
  wants, including those handled after the host gave up.
- `DryRunTouchesNothing`, `VerdictExact` (exit code 0 exactly when no exchange
  failed, the PIT can be used and every check of every archive passes),
  `CleanExitReleases` (without a failed exchange the session is ended whichever
  check stopped the run, that of the PIT included), `Terminates`.
- `SessionInv`, the invariant of the proofs, with `TypeOK` and `FinalisedComplete`
  (what the device finalises is the whole image of one entry) among its parts;
  and `KeepsPromise`, the refinement.

`flash_progress` checks `FinalisedComplete` where `SessionInv` does not hold.

In the other runs some properties put together what a module says of one matter;
the parts have names of their own in that module.

`bulk_write`: `InOrderOnce`, `TrueMeansDelivered`, `OneTransferPerMessage`,
`WriteReturns`; `ImageArrives`: no byte of an image is lost, doubled or taken
from the padding, the end is told with the last one, each sequence has what was
announced, and true is returned exactly for whole images the protocol can carry.

`bulk_read`: `TrueMeansReply`, `ReadReturns`; `PitInUse`: the PIT is whole, its
table is the device's and without fault, and no identifier stands for two
partitions; `Judged`: a PIT is refused exactly if something is wrong with it.

`archive`: `ImagesOfTheList` (the images handed on are those a reader of the list
of members finds, at most one for a partition); `FirstFaultDecides`: the result
is that of the first member out of order, and an archive that was cut and is
accepted all the same has lost whole members at its end, never a part of one (the
walk takes a header it cannot read in full for the end, `firmware_package.cpp`
673, so that much cannot be told from a shorter archive; only the sum can);
`InsideContent`; `AcceptedIsSigned` and `GoodIsAccepted`, whose precondition
leaves out archives with a newline where the line of the sum is looked for, the
case of `newline_hides_sum`; `HeaderExact`: numbers keep their value or are
refused, and no single changed byte gets past the header sum; `BothEnd`: the walk
and the search end.

`lz4`: `StreamExact`: every byte of the entry is fed once and in order, what is
sent is the whole image, and no sound image is refused; `StreamEnds`.
`FrameContent`: the decoder gives out the content whatever the sizes of the calls
and whatever the caller overwrites in between, and a frame leaves nothing to the
next; `InsideTmp`; `CallsReturn`, with progress in each call that has input and
room. `BlockInside`: no stride leaves the buffers, in damaged blocks neither;
`BlockContent`: the output is what the sequences say. `DigestIsTheHash`: the hash
of the pieces is that of the whole.

`usb_open`: `DriversGivenBack`, `NothingOutlivesLibusb`, `OpenedIsWanted`,
`ListedIsFound` (the two filters of enumeration and opening agree: on an unchanged
bus a listed device is missed only if its descriptors cannot be read, and the
error says which);
`RunIsTheArguments`: what is run is what the arguments ask for; `ModelCompared`:
archives are accepted if they name the model, and only then.

Bounds, and why they are enough.

- *Session.* `DeviceTypes = {1}`: a type is only compared with file names, so one
  type with matching and foreign archives and a device that reports none give
  all outcomes. `PitBlocks = 2` and `SeqParts = 2`: first and last block, and
  images of 1, 2 and 3 parts, which are less than a sequence, exactly one, and
  one and a part. (`flash_progress` has one part per sequence, so that up to
  three sequences are shifted.) Archives: one with a good entry and each of
  twelve kinds of second entry, or two archives with the odd one first or second,
  which puts each failure before and after writes; unknown entries tolerated;
  reboot and redownload alone, separately and together; each also as a check-only
  run. The PIT of a device can be used or is refused, by its size or by the
  parser. The number of requests is bounded by the run itself, so neither pipe needs
  a bound.
- *Transfers.* Packets of two bytes, chunks of three packets and two after a
  fault, sizes 0 to 13, three attempts instead of five; reads of up to three
  packets. Images up to 25 bytes with parts of four bytes, two to a sequence,
  chunks of five: up to three whole sequences and one too many for
  `MaxSequences = 3`. PIT: header 2, entries 3, blocks 4 bytes, at most 12, which
  are pairwise out of step, so that sizes end everywhere.
- *Archives.* Blocks of two bytes: sizes 0 to 4 are empty, partial, exact and
  more. Up to three members, since a pending name is taken by the next header and
  a third sees what is left. Sums of two digits and a tail of seven bytes:
  contents of up to five bytes make files shorter and longer than the tail.
  Accumulators of seven bits, so that numbers of three and four digits overflow
  (the callers of `parse_octal_u64` pass 8 or 12 digits to 64 bits, which never
  do; the function checks all the same, and so does the model).
  Sums of headers: two bytes with values around the sign bit, which is the only
  thing the two conventions differ in.
- *LZ4.* A window of three bytes and blocks of up to three, so that the history
  is shorter than, equal to and longer than a block, and five blocks turn
  `tmpOut` over; headers with and without a told size, which may be 0, and a
  dictionary name; calls with 1, 3 and 9 bytes of input and 1, 3 and 8 of room. A
  block decoder with its real constants, except the largest offset (75): lengths
  lie on both sides of 5, 8, 12, 15, 16, 18, 32, 64 and 270. A length counter
  that comes round at 32.
- *Opening.* Two places on the bus, four kinds of device, two changes of the bus,
  two calls of `open_device`: one change between any two steps and one that
  undoes it. Reading the descriptors of a device may fail at either call. Command
  lines of up to three words out of 26 and four out of seven:
  an option, a value that is an option, and something before or behind. Types of
  four and five characters.

Deadlock checking is off: each model ends where its function returns.

Fairness. `FlashSession` assumes `WF_vars(HostNext)` and nothing of the device:
each wait of the host is a libusb transfer with a timeout, so the host can
always move on. `BulkRead` assumes weak fairness of the host only, for the same
reason, `BulkWrite` of its steps. `PitTransfer`, `TarArchive`, `TarMd5`,
`Lz4Stream` and the stages of `Lz4Frame` are sequential code that waits for
nothing but files or such transfers, so weak fairness of the next step is what
running it means. Nothing is assumed of callers, of the bus or of a device that
should answer.

## 4. What the violated runs show

- **Progress replies.** `odin_fail_check` turns 0xFF with -7..-2 into success
  for `EndSequenceFlash`. If that reply is intermediate, as its comment says, the
  verdict is still to come and is read as the answer to `ResetFlashCount`, whose
  answer is read as the next one's. A refused verdict still fails the run, one
  command late. But the last reply, that to `EndSession`, is never read: in the
  trace the image is whole and finalised, and odin4 returns 0 while the device is
  in its session. `FinalisedComplete` still holds, because a shifted reply fails
  the part index.
- **Checks after writes.** Archives are verified one at a time, right before each
  is flashed, and entries are matched as they come: a damaged second archive or
  an unknown entry stops the run after partitions were written.
- **Model unchecked.** A legacy device reports no type, and an empty type
  switches the file name check off.
- **Newline in the tail.** The content of a signed file is taken to end where the
  line with the digits begins. `md5sum` puts the digits directly behind the tar
  archive, so a newline byte in the last 64 KiB of the archive moves that end
  back and the intact file fails its check.

- **Several devices.** With more than one device in Download Mode and no `-d`,
  `process_arguments_and_run` prints them and returns the USB error (`main.cpp`
  458). README line 86 promises to flash them one after another.

Three more differences between README and code were read, and have no run of
their own: check-only decodes and accepts LZ4 images for a legacy device, which
the flashing run refuses, as that check is made in flashing mode only (README
line 97, `firmware_package.cpp` 889; `VerdictExact` gives both conditions, see
`ImageAcceptable`); no log file is written, because nothing calls `set_log_file`
(README line 85, `logger.cpp` 88); and the device type is looked for as a part of
the file name, so that a device of a type which is the beginning of another
accepts the other's archives (README line 95, `main.cpp` 169).

## 5. What is proved

| Theorem | Module | Statement |
|---|---|---|
| `TypesHold`, `TypeCorrect` | FlashSessionProofs | `Spec => []TypeOK`, `Spec => []TypeInv` |
| `OwnReplies` | FlashSessionProofs | `Spec => AcceptsOwnReply` |
| `FlashInvariant` | FlashSessionProofs | `Spec => []FlashInv` |
| `OnlyCompleteImages` | FlashSessionProofs | `Spec => []FinalisedComplete` |
| `DryRunsTouchNothing` | FlashSessionProofs | `Spec => []DryRunTouchesNothing` |
| `VerdictInvariant` | FlashSessionProofs | `Spec => []VerdictInv` |
| `VerdictsAreExact` | FlashSessionProofs | `Spec => []VerdictExact` |
| `RequestsInOrder` | FlashSessionProofs | `Spec => []DeviceInOrder` |
| `CleanExitsRelease` | FlashSessionProofs | `Spec => []CleanExitReleases` |
| `SessionInvariant` | FlashSessionProofs | `Spec => []SessionInv` |
| `SuccessIsFlashed` | FlashSessionProofs | `Spec => []SuccessMeansFlashed` |
| `PromiseKept` | FlashSessionProofs | `Spec => KeepsPromise` (its safety; `FlashPromise` states no fairness) |
| `DeliveredInOrder` | DeviceWritesProofs | `AnySpec => []InOrderOnce` |
| `TrueOnlyWhenDelivered` | DeviceWritesProofs | `AnySpec => []TrueMeansDelivered` |
| `OneTransferEach` | DeviceWritesProofs | `AnySpec => []OneTransferPerMessage` |
| `WriteTypes`, `ImageTypes` | DeviceWritesProofs | the types of both parts |
| `PrefixFlashed`, `LastIsWhole` | DeviceWritesProofs | `FlashedIsPrefix`, `LastMeansWhole` |
| `AnnouncedArrives`, `ResultsAreExact` | DeviceWritesProofs | `AnnouncedIsSent`, `ResultExact` |
| `ImagesArrive` | DeviceWritesProofs | `AnySpec => ImageArrives`, all of these |
| `RepliesAreWhole`, `ReadTypes` | DeviceReadsProofs | `AnySpec => []TrueMeansReply`, types |
| `PitIsWhole`, `TableIsTheDevices` | DeviceReadsProofs | `WholePit`, `TableOfTheDevice` |
| `IdentifiersDiffer`, `FaultyIsNotUsed` | DeviceReadsProofs | `IdentifiersAreUnique`, `UsedIsSound` |
| `PitIsInOrder` | DeviceReadsProofs | `AnySpec => []PitInUse`, all of these |
| `SoundIsUsed` | DeviceReadsProofs | `AnySpec => RefusedIsFaulty` |
| `WalkIsTheList` | ArchiveProofs | `Spec => []ImagesOfTheList` |
| `FirstFault`, `WalkStaysInside` | ArchiveProofs | `Spec => []FirstFaultDecides`, `Spec => []InsideContent` |
| `AcceptedFilesAreSigned` | ArchiveProofs | `Spec => []AcceptedIsSigned` |
| `GoodFilesAreAccepted` | ArchiveProofs | `Spec => []GoodIsAccepted` |
| `NumbersAreExact` | ArchiveProofs | `ParseOctal` accepts exactly the numbers that fit |
| `ChangedBytesAreFound` | ArchiveProofs | `TarChecksum` refuses exactly the changed headers |
| `HeadersAreExact` | ArchiveProofs | `Spec => []HeaderExact`, both |
| `StreamsAreExact` | Lz4Proofs | `Spec => []StreamExact` |
| `DigestsAreTheHash` | Lz4Proofs | `Spec => []DigestIsTheHash` |
| `BlocksStayInside` | Lz4Proofs | `Spec => []BlockInside` |
| `FramesKeepContent` | Lz4FrameProofs | `Spec => []FrameContent` |
| `HistoryStaysInside` | Lz4FrameProofs | `Spec => []InsideTmp` |
| `UsbTypes`, `OpenInvariant` | OpeningProofs | `AnySpec => []TypeOK`, `AnySpec => []OpenInv` |
| `DriversAreGivenBack` | OpeningProofs | `AnySpec => []DriversGivenBack` |
| `NothingIsLeftOpen` | OpeningProofs | `AnySpec => []NothingOutlivesLibusb` |
| `OpenedAsWanted` | OpeningProofs | `AnySpec => []OpenedIsWanted` |
| `ListedAreFound` | OpeningProofs | `AnySpec => []ListedIsFound` |
| `RunsAreTheArguments` | OpeningProofs | `AnySpec => []RunIsTheArguments` |
| `ModelsAreCompared` | OpeningProofs | `AnySpec => []ModelCompared` |

They hold for all archives and lists of members, types, PIT sizes and sequence
lengths, all message, packet and chunk sizes and retry counts, all signed files,
headers and number fields, all LZ4 images, blocks and lengths, all devices,
buses, criteria and command lines that meet the named assumptions of the modules.
These say only what the types of constants are, that `process_arguments_and_run`
let the invocation through, that a raw entry cannot hold more than its header
announces, that chunk sizes are whole packets, that a reply fits the buffer of
its read, that a device has an entry wherever the size it announces leaves room
for one, that the blocks of an archive have at least one byte, that the digits of
a sum fit the tail that is searched, that an accumulator has at least three bits,
that a block refers no further back than the format allows, that a frame header
fits its buffer and a window is no longer than a block,
and that the length
counter of the hash does not come round below 32. (The last was `> 16` before the
proof, which is too little: `large_len` is set from the first length of 16 that
the counter shows, and a counter that comes round earlier can miss it.)
`OwnReplies`, `FlashInvariant`, `OnlyCompleteImages`, `RequestsInOrder`,
`CleanExitsRelease`, `SessionInvariant`, `SuccessIsFlashed` and `PromiseKept`
assume `~ProgressReplies`. That is not a convenience: with progress replies
`AcceptsOwnReply` and `SuccessMeansFlashed` are false. `DryRunsTouchNothing`,
`VerdictInvariant` and `VerdictsAreExact` hold with progress replies as well:
odin4 judges what it saw correctly, and what it saw is the problem.

*FlashSession.* Types alone are not inductive: `Current` is an element of the
archives only while the cursor is inside them, and a device that takes operands
from a request needs them to be there. `TypeInv` adds that (`CursorOK`, `PartOK`,
`OperandsOK`). The safety argument is *lockstep*: while no exchange has failed
(`~trouble`), the pipes hold the request made at `pc` or its answer and nothing
else (`InStep`), except in the handshake, where the legacy greeting may still be
about (`Greeting`). `OwnReplies` follows at once. With lockstep the device's
`xfer` is known exactly from the host's `part` (`Received`). After a failed
exchange lockstep is gone, but then only `end_session` remains (`TroubleEnds`)
and it finalises nothing; what may still be in the pipe is the request that
failed, and if that one finalises, the image was complete when it was sent and
no request in front of it can change it (`FinalReady`). The conjunction,
`FlashInv`, is inductive; `FlashSessionInv` defines it and the run
`flash_session` checks it. The proofs treat the host first (one lemma for
the shape of a step at the pipes, then one case per action) and the device
second.

*Outcome.* `VerdictExact` compares the exit code with what the archives are, so
its invariant says what has been looked at when the cursor stands where it does
(`VerdictInv`): all entries behind it are acceptable and no two of them in one
archive share a partition (`SeenOK`), `used_partition_ids` is the set of
partitions met (`UsedOK`), the PIT could be used once archives are looked at
(`PitOK`), and any other exit code has a reason (`FaultOK`). Two
facts that were not obvious: the partition of the image under way is in `used`
already but not among those behind the cursor, and before the session is open the
cursor stands at the first archive.

*Order of requests.* `DeviceInOrder` needs the stage the device is in for each
place of the host (`Staged`), which the device has reached exactly when the
request under way has been performed (`Moves`). Stages alone are not inductive:
the device takes from a request how many parts follow and whether an image ends,
so the request under way must carry the host's own numbers (`Operated`). Behind
requests of a failed exchange there are only requests that are in order in every
stage (`QueueOK`), which is why giving up in the middle is safe.

*What is held.* The images of an invocation have places (`Place`: how many come
before, by archive and entry), and the device holds those with the first places
(`HeldOK`), as many as the cursor has passed while nothing went wrong
(`CountOK`); a request to finalise that is still in the pipe is for the next
place (`NextOK`). At Success the cursor has passed all of them, which gives
`SuccessMeansFlashed`. That the places of a finite set are exactly 1 to its size
is a lemma about finite sets (`PlaceOnto`), as the order of images is not given
by a list in the code but by two nested loops.

*Refinement.* With `SessionInv`, the list of images at their places is a sequence
that never changes (`GoalOK`, `GoalFixed`), a finalising step of the device
appends the next of them (`PromiseDevice`), the step to the exit gives the
verdict (`PromiseHost`), and everything else is invisible.

*PIT.* `BytesOK` says which bytes have come: those before the next block, and
all of them afterwards, since the blocks cover the size and each but the last is
inside it (`BlocksCover`). Then every entry the header counts lies within the
bytes received (`EntryReceived`), so that what is parsed is what the device has
(`EntriesOK`). `FaultyIsNotUsed` and `SoundIsUsed` are the safety of `Judged`.
The first proof attempt showed that the assumption on the device's memory allowed
it to lack one entry; `DevicesAssumption` now says what the model meant.

*BulkWrite.* `InOrderOnce` is inductive with the offset bounded by the size;
`Counted` adds where the offset has reached the size, which is what a return of
true means. For `OneTransferPerMessage`, `Framed` says that a packet that is not
full has been sent only as the last of a message, where it ended the transfer;
this rests on every chunk but the last being whole packets, and on remainders
(`WholePackets`).

*ImageTransfer.* `ImageInv` says for the legacy protocol where every sequence
begins (`Start`) and what the device holds of the sequence under way: the parts
sent, as bytes of the image up to the real size and padding only behind it
(`SequenceOK`). That the last of the sequences has at least one byte and ends with
the image (`SequenceFacts`), and that parts of whole packets make up the aligned
size exactly (`PartFacts`), is arithmetic of division; that adding a padded part,
or cutting the padding off a finished sequence, gives the next bytes of the image
(`PartAppended`, `SequenceAppended`) is about sequences.

*BulkRead.* What is in the buffer is a window of the reply: it ends where the
device's packets were taken up to (`Window`). A reply that may be shorter than
the buffer comes in one packet (`OnePacket`), so a retry that begins in the
middle of a reply has less left than it may accept (`Returned`).

*UsbOpen.* `OpenInv` says of each point of the control what is held
(`HeldInv`), which single driver may be missing and why (`DriverInv`), that the
selection satisfied the criteria when it was made (`ChosenInv`), and how old the
list is (`ListedInv`). The four properties are read off it.

*Induction.* What a function defined along a sequence computes is proved with
the first-order form of induction: a set that holds 0 and with each number the
next holds them all (`SetInduction`), and values that follow one another along
1 to N exist as a function (`Recursion`). The module `Inductions` derives both
from the library, and the facts on quotients and remainders from them. All
walks below are compared with their definitions this way, for inputs of any
length.

*TarArchive.* The actions see positions, the properties a list. The invariant of
the walk (`WalkInv`) says that the walk stands behind some member: the position
is where the next one starts, the pending names are what the member just left
carries, no member behind has a fault, and the log holds the images among them,
each at the place that counting them gives (`LogOK`). What ends the walk is the
fault of the next member or the lack of one (`Over`). *TarMd5*: an accepted file
is intact whatever the search found. That a good file is accepted needs the
reverse: the search meets the sum before it could meet anything else that looks
like one, and the way back to the start of its line meets no newline of the
content (`FittingInv`). *ParseOctal*: the accumulator is the value of the digits
read, and a digit that does not fit is met before it is lost. *TarChecksum*: the
two sums of a header differ by a multiple of 256, and so does what may be
written in it; a changed byte alters both by less, so a damaged header reaches a
written sum by neither (`Congruent`).

*CommandLine.* Whether an argument is read as an option depends on how many
options with a value stand directly in front of it: it is one exactly if that
number is even (`Stands`). With this the invariant of the loop (`LineInv`) says of
what was read so far which use of each option was the last.

*Lz4Stream.* What was given to the decoder and what waits in `in_buf` is the
file up to the read position (`FedOK`); the decoder stands between two units of
the frame or inside one, after sums along the frame (`Totals`). In the first pass
the size is being counted, in the second it is known, from the header or from
that count, and compared (`CountOK`). A sound image can then be stopped by
nothing but the missing bytes of its file.

*Xxh32.* What is mixed in so far are whole stripes of 16 bytes of the input, the
buffer holds the rest, and `large_len` is set exactly when there was a stripe,
although the length itself is only known modulo 2^32. Stripes may be cut anywhere
because mixing in two runs of them is mixing in their concatenation.

*Lz4Block.* At each label the invariant says how much room is left: 64 bytes of
output and input on the fast path, 32 and 12 behind it, and the exact ends in the
safe loops, at least a byte of input before each token. A stride of 8, 16 or 32
bytes is a sequence of memories; what it may touch is bounded by where it stops,
by induction along it.

*Lz4Frame.* The invariant has three parts. `PlaceOf` says for every stage where in
the frame the decoder stands: the bytes used, the block headers read and the
content given out are sums along the blocks (`EndsOf`, `GivenOf`) plus what the
stage has in hand. `MemoryOf` says what the buffers hold. Between blocks the
dictionary, in the buffer of the caller or in `tmp`, ends with the content that a
match of the next block may refer to (`HistoryHere`). While a block is given out
of `tmp`, the block itself stands there, and in front of it as much history as the
rest of it will push out (`HistoryInBlock`). `CallsOf` says what a call finds and
leaves: at its end no history is left in the buffer of the caller, which may then
be overwritten. Most steps leave the buffers alone and are proved by `PlaceOf`
only. Those that give output go through `LZ4F_updateDict`, each case of which is
a lemma about where bytes of the content come to lie (`UpdatedHere`,
`UpdatedInBlock`, `PreservedHere`, `PreservedInBlock`). TLC checked `FrameInv` on
the frames of the run before it was proved.

*ModelMatch.* What dropping characters leaves of a name is a function along it.
A type that occurs in what is left occurs, spelled in its own way, in one piece of
the name itself (`OccursInPiece`), which is one half of `ModelCompared`; the other
half is that dropping and lowering a name that contains the type leaves the type.

Only model-checked: everything temporal under fairness (`Terminates`,
`WriteReturns`, `ReadReturns`, `BothEnd`, `CallsReturn`, `StreamEnds`, and of
`Judged` that a result comes; `SoundIsUsed` and `FaultyIsNotUsed` are its safety).
`BlockContent` is left to TLC too: that the bytes of a decoded block are what
its sequences say. A block decoder step does not write one match but strides that
overrun it and copies that overlap their own output, and a proof needs, for each
kind of copy, what is in memory up to every byte. `BlocksStayInside` proves
that none of them leaves the buffers.

## 6. What is not modelled

- The length of timeouts and of the back-off, formatting, time stamps, hex dumps,
  progress bars. Of the logger only the level is modelled.
- Packet layouts beyond the fields the host tests; `odin_set_total_bytes`, which
  is not reachable, since LZ4 is refused in the legacy protocol.
- Bytes of a message below a chunk in `FlashSession`: a write that fails half way
  delivers nothing. `BulkWrite` shows what may have been delivered; what a
  bootloader does with half a message followed by `END_SESSION`, or with a
  transfer left open because its zero-length packet failed (`usb_device.cpp` 102),
  is unknown.
- `find_best_interface` may choose endpoints of an alternate setting other than 0
  and nothing selects it (`usb_device.cpp` 206). What the kernel makes of that is
  outside the code; the transfers that fail are those of `FlashSession`.
- MD5 itself, and the arithmetic of XXH32: both are taken to tell different
  inputs apart. XXH64.
- LZ4 compression (`lz4hc.c`, most of `lz4.c`, the first half of `lz4frame.c`),
  partial and fast decoding, streaming decoding of blocks: linked in, never
  called by odin4.
- Files that change while they are read, and failures of `seekg`.
- libusb, Crypto++, the build, the udev rule.

## 7. What is left

`BlockContent` as a theorem. Devices left in a session by an earlier run, and
transfers left open by a lost zero-length packet, once it is known what a
bootloader makes of them.
