------------------------------- MODULE BulkRead --------------------------------
(***************************************************************************)
(* UsbDevice::receive_packet, one reply read from the bulk IN endpoint by  *)
(* several transfers and several attempts, and bulk_read_once, by a single *)
(* transfer that counts whatever it brings.  The reply is a sequence of    *)
(* bytes numbered from 1, which the device sends in packets, at any time   *)
(* or only in part.  libusb_bulk_transfer is modelled by what it may       *)
(* return: it ends when its buffer is full, at a packet that is not full,  *)
(* or with an error, and the packets it took before an error stay taken.   *)
(***************************************************************************)
EXTENDS Naturals, Sequences

CONSTANTS
    Reads,       \* [size, min, override, once, length]: the read and its reply
    MaxPacket,   \* packet size of the endpoint
    Retries      \* USB_RETRY_COUNT

ASSUME PacketAssumption == MaxPacket \in Nat \ {0}
ASSUME RetriesAssumption == Retries \in Nat \ {0}

\* A reply is never longer than the buffer the caller has for it, and only a
\* reply that fits in one packet has a minimum below the size of the buffer
\* (THOR responses of 12 bytes; PIT data are read with min_size = size).  The
\* replies of 8 bytes that bulk_read_once reads fit in one packet.
ASSUME ReadsAssumption ==
    /\ Reads \subseteq [size : Nat \ {0}, min : Nat \ {0}, override : BOOLEAN, once : BOOLEAN, length : Nat]
    /\ \A r \in Reads :
        /\ r.min <= r.size /\ r.length <= r.size
        /\ r.min < r.size \/ r.once => r.size <= MaxPacket
        /\ r.once => r.min = r.size /\ ~r.override

VARIABLES
    call,       \* the read, from Reads
    pc,         \* "transfer", "attempt", "true" or "false"
    attempt,
    received,   \* bytes of this attempt
    data,       \* the caller's buffer
    arrived,    \* bytes of the reply the device has sent
    taken       \* bytes of the reply transfers have taken

vars == <<call, pc, attempt, received, data, arrived, taken>>

TypeOK ==
    /\ call \in Reads
    /\ pc \in {"transfer", "attempt", "true", "false"}
    /\ attempt \in 0..(Retries - 1)
    /\ received \in 0..call.size
    /\ data \in [1..call.size -> Nat]
    /\ arrived \in 0..call.length /\ taken \in 0..arrived

Init ==
    /\ call \in Reads
    /\ pc = "transfer"
    /\ attempt = 0 /\ received = 0
    /\ data = [k \in 1..call.size |-> 0]
    /\ arrived = 0 /\ taken = 0

MinOf(x, y) == IF x < y THEN x ELSE y

\* The device sends its next packet.
DeviceSends ==
    /\ arrived < call.length
    /\ arrived' = MinOf(arrived + MaxPacket, call.length)
    /\ UNCHANGED <<call, pc, attempt, received, data, taken>>

-----------------------------------------------------------------------------
Errors == {"PIPE", "TIMEOUT", "NO_DEVICE", "OTHER"}

\* Bytes the transfer in progress has room for.
Remaining == call.size - received

\* What it may have taken when it ends: whole packets, the last one perhaps short.
Chunks == {n \in 0..MinOf(Remaining, arrived - taken) :
              n % MaxPacket = 0 \/ taken + n = call.length}

\* Of these, what ends it without an error; an empty packet may follow a
\* reply of full packets.
Complete(n) == n = Remaining \/ taken + n = call.length

\* n bytes are stored behind those this attempt already has.
Store(n) ==
    /\ data' = [k \in 1..call.size |->
                   IF k \in (received + 1)..(received + n) THEN taken + k - received ELSE data[k]]
    /\ received' = received + n
    /\ taken' = taken + n

\* Mutant of Enough: whatever came counts.
EnoughAny(n) == n > 0 /\ ~call.once

\* bulk_read_once does not ask what a failed transfer has brought.
Enough(n) == n >= call.min /\ ~call.once

Reading == pc = "transfer" /\ received < call.min

TransferOk ==
    /\ Reading /\ ~call.once
    /\ \E n \in Chunks :
        /\ Complete(n)
        /\ Store(n)
        /\ pc' = IF n = 0 \/ Enough(received + n) THEN "attempt" ELSE "transfer"
    /\ UNCHANGED <<call, attempt, arrived>>

\* In bulk_read_once, of whatever size.
OnceOk ==
    /\ Reading /\ call.once
    /\ \E n \in Chunks : Complete(n) /\ Store(n)
    /\ pc' = "true"
    /\ UNCHANGED <<call, attempt, arrived>>

\* A timeout of the caller's own ends the call, any other error the attempt.
TransferFails(err) ==
    /\ Reading
    /\ \E n \in Chunks : Store(n)
    /\ pc' = IF err = "NO_DEVICE" \/ (err = "TIMEOUT" /\ call.override)
             THEN "false" ELSE "attempt"
    /\ UNCHANGED <<call, attempt, arrived>>

Accept ==
    /\ pc = "attempt"
    /\ Enough(received)
    /\ pc' = "true"
    /\ UNCHANGED <<call, attempt, received, data, arrived, taken>>

\* Mutant of Retry: every retry is taken for the first one.
RetryForever ==
    /\ pc = "attempt"
    /\ ~Enough(received)
    /\ pc' = "transfer" /\ received' = 0
    /\ UNCHANGED <<call, attempt, data, arrived, taken>>

\* The next attempt starts at the beginning of the buffer: what the last one
\* has taken from the pipe is lost.
Retry ==
    /\ pc = "attempt"
    /\ ~Enough(received)
    /\ IF attempt < Retries - 1
       THEN pc' = "transfer" /\ attempt' = attempt + 1 /\ received' = 0
       ELSE pc' = "false" /\ UNCHANGED <<attempt, received>>
    /\ UNCHANGED <<call, data, arrived, taken>>

Host == TransferOk \/ OnceOk \/ (\E err \in Errors : TransferFails(err)) \/ Accept \/ Retry
Next == Host \/ DeviceSends

\* Every transfer has a timeout; the device may stop sending.
Spec == Init /\ [][Next]_vars /\ WF_vars(Host)

-----------------------------------------------------------------------------
\* When a read returns true the buffer holds the reply from its first byte on,
\* and at least min_size of it after receive_packet: the rest of a reply whose
\* beginning a failed attempt has thrown away is never taken for the reply.
TrueMeansReply ==
    pc = "true" =>
        /\ call.min <= received \/ call.once
        /\ received <= call.length
        /\ \A k \in 1..received : data[k] = k

\* Both reads return, also when the device never sends anything.
Returns == <>(pc \in {"true", "false"})
=============================================================================
