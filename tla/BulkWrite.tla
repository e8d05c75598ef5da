------------------------------- MODULE BulkWrite -------------------------------
(***************************************************************************)
(* UsbDevice::bulk_write_all and send_zlp: messages written to the bulk    *)
(* OUT endpoint in chunks, with retries and a smaller chunk size after a   *)
(* stall or a timeout.  libusb_bulk_transfer is modelled by what it may    *)
(* return: a transfer that fails may have moved whole packets before.      *)
(* Bytes are numbered from 1 within their message.                         *)
(***************************************************************************)
EXTENDS Naturals, Sequences

CONSTANTS
    Sizes,       \* the messages to choose from, by size
    Messages,    \* how many are written
    MaxPacket,   \* endpoint_out_max_packet
    FirstChunk,  \* initial max_chunk_bytes
    Fallback,    \* its value after a stall or a timeout
    Retries      \* USB_RETRY_COUNT

ASSUME SizesAssumption == Sizes \subseteq Nat
ASSUME MessagesAssumption == Messages \in Nat
\* 1 MiB and 16 KiB are multiples of every packet size a bulk endpoint has.
ASSUME ChunksAssumption ==
    /\ MaxPacket \in Nat \ {0}
    /\ FirstChunk \in Nat \ {0} /\ FirstChunk % MaxPacket = 0
    /\ Fallback \in Nat \ {0} /\ Fallback % MaxPacket = 0
ASSUME RetriesAssumption == Retries \in Nat \ {0}

VARIABLES
    pc,         \* "caller", "transfer", "attempt", "zlp" or "stop"
    size,       \* of the message being written
    offset,     \* bytes of it the host counts as sent
    attempt,
    max_chunk,  \* max_chunk_bytes, which outlives the call
    written,    \* messages for which bulk_write_all returned true
    stream,     \* bytes of the message the device received, in arrival order
    open,       \* the device is in the middle of a transfer
    frames,     \* transfers the device saw the end of
    zlplost     \* a zero-length packet was not delivered

host == <<size, offset, attempt, max_chunk, written>>
device == <<stream, open, frames, zlplost>>
vars == <<pc, host, device>>

TypeOK ==
    /\ pc \in {"caller", "transfer", "attempt", "zlp", "stop"}
    /\ size \in Nat /\ offset \in Nat
    /\ attempt \in 0..(Retries - 1)
    /\ max_chunk \in {FirstChunk, Fallback}
    /\ written \in 0..Messages
    /\ stream \in Seq(Nat)
    /\ open \in BOOLEAN /\ zlplost \in BOOLEAN
    /\ frames \in Nat

Init ==
    /\ pc = "caller"
    /\ size = 0 /\ offset = 0 /\ attempt = 0
    /\ max_chunk = FirstChunk
    /\ written = 0
    /\ stream = <<>> /\ open = FALSE /\ frames = 0 /\ zlplost = FALSE

Call ==
    /\ pc = "caller"
    /\ written < Messages
    /\ pc' = "transfer"
    /\ size' \in Sizes
    /\ offset' = 0
    /\ attempt' = 0
    /\ stream' = <<>>
    /\ UNCHANGED <<max_chunk, written, open, frames, zlplost>>

MinOf(x, y) == IF x < y THEN x ELSE y

\* Bytes of one libusb transfer.
Chunk == MinOf(size - offset, max_chunk)

Errors == {"PIPE", "TIMEOUT", "NO_DEVICE", "OTHER"}

\* What a transfer of Chunk bytes may have moved when it returns: whole
\* packets, or everything.
Moved == {Chunk} \cup {n \in 0..Chunk : n % MaxPacket = 0}

\* The device gets n bytes from offset on; a packet that is not full ends the
\* transfer.
Deliver(n) ==
    /\ stream' = stream \o [k \in 1..n |-> offset + k]
    /\ IF n % MaxPacket # 0
       THEN open' = FALSE /\ frames' = frames + 1
       ELSE open' = (open \/ n > 0) /\ UNCHANGED frames
    /\ UNCHANGED zlplost

\* Mutant of Sent: the bytes of a failed transfer are sent again.
SentIfComplete(n) == offset' = IF n = Chunk THEN offset + n ELSE offset

Sent(n) == offset' = offset + n

\* libusb_bulk_transfer succeeded; nothing moved counts as a failed attempt.
TransferOk ==
    /\ pc = "transfer" /\ offset < size
    /\ \E n \in Moved :
          /\ Deliver(n) /\ Sent(n)
          /\ pc' = IF n > 0 THEN "transfer" ELSE "attempt"
    /\ UNCHANGED <<size, attempt, max_chunk, written>>

TransferFails(err) ==
    /\ pc = "transfer" /\ offset < size
    /\ \E n \in Moved : Deliver(n) /\ Sent(n)
    /\ pc' = IF err = "NO_DEVICE" THEN "stop" ELSE "attempt"
    /\ max_chunk' = IF err \in {"PIPE", "TIMEOUT"} THEN Fallback ELSE max_chunk
    /\ UNCHANGED <<size, attempt, written>>

AllSent == pc \in {"transfer", "attempt"} /\ offset = size

\* Mutant of NeedsZlp: the zero-length packet depends on the last chunk alone.
NeedsZlpOfChunk == size % max_chunk = 0

NeedsZlp == size % MaxPacket = 0

Finish ==
    /\ AllSent
    /\ IF NeedsZlp THEN pc' = "zlp" /\ UNCHANGED written
                   ELSE pc' = "caller" /\ written' = written + 1
    /\ UNCHANGED <<size, offset, attempt, max_chunk, device>>

\* send_zlp: its result is ignored.
SendZlp ==
    /\ pc = "zlp"
    /\ \/ open' = FALSE /\ frames' = frames + 1 /\ UNCHANGED zlplost
       \/ zlplost' = TRUE /\ UNCHANGED <<open, frames>>
    /\ pc' = "caller"
    /\ written' = written + 1
    /\ UNCHANGED <<size, offset, attempt, max_chunk, stream>>

\* Mutant of Retry: bulk_write_all returns true when the attempts are used up.
RetryThenTrue ==
    /\ pc = "attempt" /\ offset < size
    /\ IF attempt < Retries - 1
       THEN pc' = "transfer" /\ attempt' = attempt + 1 /\ UNCHANGED written
       ELSE pc' = "caller" /\ written' = written + 1 /\ UNCHANGED attempt
    /\ UNCHANGED <<size, offset, max_chunk, device>>

\* Mutant of Retry: every retry is taken for the first one.
RetryForever ==
    /\ pc = "attempt" /\ offset < size
    /\ pc' = "transfer"
    /\ UNCHANGED <<host, device>>

\* The next attempt goes on where this one stopped; after the last one
\* bulk_write_all returns false and the session is given up.
Retry ==
    /\ pc = "attempt" /\ offset < size
    /\ IF attempt < Retries - 1
       THEN pc' = "transfer" /\ attempt' = attempt + 1
       ELSE pc' = "stop" /\ UNCHANGED attempt
    /\ UNCHANGED <<size, offset, max_chunk, written, device>>

Next ==
    \/ Call \/ TransferOk \/ (\E err \in Errors : TransferFails(err))
    \/ Finish \/ SendZlp \/ Retry

\* libusb_bulk_transfer returns, at the latest when its timeout expires.
Spec == Init /\ [][Next]_vars /\ WF_vars(Next)

-----------------------------------------------------------------------------
\* The device receives every byte of a message once and in order, over retries
\* after partial transfers and changes of the chunk size.
InOrderOnce == stream = [k \in 1..offset |-> k]

\* bulk_write_all returns true only after the device has the whole message.
TrueMeansDelivered ==
    pc = "caller" /\ written > 0 => stream = [k \in 1..size |-> k]

\* The transfers the device sees are the messages: a message whose size is a
\* multiple of the packet size is closed by the zero-length packet, no chunk
\* boundary or retry closes one early, and none is closed twice.
OneTransferPerMessage ==
    ~zlplost =>
        /\ offset < size => frames = written
        /\ pc = "caller" => frames = written /\ ~open

\* bulk_write_all returns for every message: the retries are bounded.
Returns == <>(pc = "stop" \/ (pc = "caller" /\ written = Messages))
=============================================================================
