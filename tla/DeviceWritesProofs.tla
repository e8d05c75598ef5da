---------------------------- MODULE DeviceWritesProofs --------------------------
(***************************************************************************)
(* bulk_write_all delivers a message once and in order, as one transfer of *)
(* the bus, for every size of message, packet and chunk and every number   *)
(* of retries.  flash_partition_stream brings an image over whole and in   *)
(* order, for every size of the image and of the file, and every size of   *)
(* packets, sequences and chunks.                                          *)
(***************************************************************************)
EXTENDS DeviceWrites, SequenceTheorems, Inductions, TLAPS

-----------------------------------------------------------------------------
(* Single messages: the inductive invariant of BulkWrite.                  *)

(***************************************************************************)
(* Counted says where the offset may stand: the device has exactly the     *)
(* bytes the host counts as sent, and between calls the last message is    *)
(* complete.  InOrderOnce alone is not enough: it does not say that the    *)
(* offset has reached the size when bulk_write_all returns true.           *)
(***************************************************************************)
Counted ==
    /\ offset <= size
    /\ pc = "zlp" => offset = size
    /\ pc = "caller" => offset = size
    /\ pc \in {"transfer", "attempt", "zlp"} => written < Messages

BulkInv == TypeOK /\ InOrderOnce /\ Counted

\* What a transfer may move fits behind the offset.
LEMMA MovedFits ==
    ASSUME TypeOK, Counted, NEW n \in Moved
    PROVE  n \in Nat /\ offset + n \in Nat /\ offset + n <= size
<1>1. FirstChunk \in Nat /\ Fallback \in Nat
    BY ChunksAssumption
<1>2. max_chunk \in Nat /\ size \in Nat /\ offset \in Nat /\ offset <= size
    BY <1>1 DEF TypeOK, Counted
<1>3. Chunk \in Nat /\ Chunk <= size - offset
    BY <1>2 DEF Chunk, MinOf
<1>4. n \in Nat /\ n <= Chunk
    BY <1>3 DEF Moved
<1> QED
    BY <1>2, <1>3, <1>4

\* The bytes of a transfer go behind those the device already has.
LEMMA Extends ==
    ASSUME NEW o \in Nat, NEW n \in Nat
    PROVE  [k \in 1..o |-> k] \o [k \in 1..n |-> o + k] = [k \in 1..(o + n) |-> k]
<1> DEFINE a == [k \in 1..o |-> k]
           b == [k \in 1..n |-> o + k]
           c == [k \in 1..(o + n) |-> k]
<1>1. a \in Seq(Nat) /\ Len(a) = o
    OBVIOUS
<1>2. b \in Seq(Nat) /\ Len(b) = n
    OBVIOUS
<1>3. c \in Seq(Nat) /\ Len(c) = o + n
    OBVIOUS
<1>4. a \o b \in Seq(Nat) /\ Len(a \o b) = o + n
    BY <1>1, <1>2, ConcatProperties
<1>5. ASSUME NEW k \in 1..(o + n) PROVE (a \o b)[k] = c[k]
    <2>1. CASE k <= o
        <3>1. (a \o b)[k] = a[k]
            BY <1>1, <1>2, <2>1, ConcatProperties
        <3>2. a[k] = k /\ c[k] = k
            BY <2>1
        <3> QED
            BY <3>1, <3>2
    <2>2. CASE k > o
        <3>1. (a \o b)[k] = b[k - o]
            BY <1>1, <1>2, <2>2, ConcatProperties
        <3>2. b[k - o] = k /\ c[k] = k
            BY <2>2
        <3> QED
            BY <3>1, <3>2
    <2> QED
        BY <2>1, <2>2
<1> HIDE DEF a, b, c
<1>6. a \o b = c
    BY <1>3, <1>4, <1>5, SeqEqual
<1> QED
    BY <1>6 DEF a, b, c

\* A transfer, successful or not, keeps host and device in agreement.
LEMMA TransferKeepsOrder ==
    ASSUME TypeOK, InOrderOnce, Counted, NEW n \in Moved, Deliver(n), Sent(n),
           size' = size
    PROVE  /\ stream' \in Seq(Nat) /\ open' \in BOOLEAN /\ frames' \in Nat
           /\ zlplost' \in BOOLEAN
           /\ offset' \in Nat /\ offset' <= size'
           /\ InOrderOnce'
<1>1. n \in Nat /\ offset \in Nat /\ offset + n \in Nat /\ offset + n <= size
    BY MovedFits DEF TypeOK
<1>2. offset' = offset + n
    BY DEF Sent
<1>3. stream' = [k \in 1..(offset + n) |-> k]
    <2>1. stream' = [k \in 1..offset |-> k] \o [k \in 1..n |-> offset + k]
        BY DEF Deliver, InOrderOnce
    <2> QED
        BY <1>1, <2>1, Extends
<1>4. InOrderOnce'
    BY <1>2, <1>3 DEF InOrderOnce
<1>5. stream' \in Seq(Nat)
    BY <1>1, <1>3
<1>6. open' \in BOOLEAN /\ zlplost' \in BOOLEAN
    <2>1. open' = FALSE \/ open' = (open \/ n > 0)
        BY Zenon DEF Deliver
    <2>2. zlplost' = zlplost
        BY DEF Deliver
    <2> QED
        BY <2>1, <2>2, Zenon DEF TypeOK
<1>7. frames' \in Nat
    BY DEF Deliver, TypeOK
<1> QED
    BY <1>1, <1>2, <1>4, <1>5, <1>6, <1>7

-----------------------------------------------------------------------------
LEMMA BulkInit == Init => BulkInv
<1> SUFFICES ASSUME Init PROVE BulkInv
    OBVIOUS
<1>1. TypeOK
    <2>1. open \in BOOLEAN /\ zlplost \in BOOLEAN
        BY Zenon DEF Init
    <2>2. /\ size \in Nat /\ offset \in Nat /\ frames \in Nat
          /\ attempt \in 0..(Retries - 1) /\ written \in 0..Messages
        BY RetriesAssumption, MessagesAssumption DEF Init
    <2>3. stream \in Seq(Nat) /\ max_chunk \in {FirstChunk, Fallback}
        BY DEF Init
    <2>4. pc \in {"caller", "transfer", "attempt", "zlp", "stop"}
        BY DEF Init
    <2> QED
        BY <2>1, <2>2, <2>3, <2>4, Zenon DEF TypeOK
<1>2. stream = [k \in 1..0 |-> k]
    BY DEF Init
<1> QED
    BY <1>1, <1>2 DEF Init, BulkInv, InOrderOnce, Counted

LEMMA BulkStep == BulkInv /\ [Next]_vars => BulkInv'
<1> SUFFICES ASSUME BulkInv, [Next]_vars PROVE BulkInv'
    OBVIOUS
<1> USE DEF BulkInv, host, device
<1>1. CASE Call
    <2>1. size' \in Nat
        BY <1>1, SizesAssumption DEF Call
    <2>2. stream' = [k \in 1..0 |-> k] /\ offset' = 0
        BY <1>1 DEF Call
    <2>3. TypeOK'
        BY <1>1, <2>1, RetriesAssumption DEF Call, TypeOK
    <2> QED
        BY <1>1, <2>1, <2>2, <2>3 DEF Call, InOrderOnce, Counted
<1>2. CASE TransferOk
    <2>1. PICK n \in Moved : Deliver(n) /\ Sent(n) /\ pc' = IF n > 0 THEN "transfer" ELSE "attempt"
        BY <1>2 DEF TransferOk
    <2>2. size' = size /\ attempt' = attempt /\ max_chunk' = max_chunk /\ written' = written
        BY <1>2 DEF TransferOk
    <2>3. pc' \in {"transfer", "attempt"} /\ pc = "transfer"
        BY <1>2, <2>1 DEF TransferOk
    <2>4. /\ stream' \in Seq(Nat) /\ open' \in BOOLEAN /\ frames' \in Nat
          /\ zlplost' \in BOOLEAN /\ offset' \in Nat /\ offset' <= size'
          /\ InOrderOnce'
        BY <2>1, <2>2, TransferKeepsOrder
    <2>5. TypeOK'
        BY <2>2, <2>3, <2>4 DEF TypeOK
    <2>6. Counted'
        BY <2>2, <2>3, <2>4 DEF Counted
    <2> QED
        BY <2>4, <2>5, <2>6
<1>3. ASSUME NEW err \in Errors, TransferFails(err) PROVE BulkInv'
    <2>1. PICK n \in Moved : Deliver(n) /\ Sent(n)
        BY <1>3 DEF TransferFails
    <2>2. size' = size /\ attempt' = attempt /\ written' = written
        BY <1>3 DEF TransferFails
    <2>3. /\ pc' \in {"stop", "attempt"} /\ pc = "transfer"
          /\ max_chunk' \in {FirstChunk, Fallback}
        BY <1>3 DEF TransferFails, TypeOK
    <2>4. /\ stream' \in Seq(Nat) /\ open' \in BOOLEAN /\ frames' \in Nat
          /\ zlplost' \in BOOLEAN /\ offset' \in Nat /\ offset' <= size'
          /\ InOrderOnce'
        BY <2>1, <2>2, TransferKeepsOrder
    <2>5. TypeOK'
        BY <2>2, <2>3, <2>4 DEF TypeOK
    <2>6. Counted'
        BY <2>2, <2>3, <2>4 DEF Counted
    <2> QED
        BY <2>4, <2>5, <2>6
<1>4. CASE Finish
    <2>1. offset = size /\ UNCHANGED <<size, offset, attempt, max_chunk, device>>
        BY <1>4 DEF Finish, AllSent
    <2>2. pc' \in {"zlp", "caller"}
        BY <1>4 DEF Finish
    <2>3. written' \in 0..Messages
        BY <1>4, MessagesAssumption DEF Finish, AllSent, TypeOK, Counted
    <2>4. pc' = "zlp" => written' = written
        BY <1>4 DEF Finish
    <2>5. written < Messages
        BY <1>4 DEF Finish, AllSent, Counted
    <2> QED
        BY <2>1, <2>2, <2>3, <2>4, <2>5 DEF TypeOK, InOrderOnce, Counted
<1>5. CASE SendZlp
    <2>1. /\ pc' = "caller" /\ offset = size
          /\ UNCHANGED <<size, offset, attempt, max_chunk, stream>>
        BY <1>5 DEF SendZlp, Counted
    <2>2. written' \in 0..Messages
        BY <1>5, MessagesAssumption DEF SendZlp, TypeOK, Counted
    <2>3. open' \in BOOLEAN /\ zlplost' \in BOOLEAN
        BY <1>5, Zenon DEF SendZlp, TypeOK
    <2>4. frames' \in Nat
        BY <1>5 DEF SendZlp, TypeOK
    <2> QED
        BY <2>1, <2>2, <2>3, <2>4 DEF TypeOK, InOrderOnce, Counted
<1>6. CASE Retry
    <2>1. UNCHANGED <<size, offset, max_chunk, written, device>>
        BY <1>6 DEF Retry
    <2>2. pc' \in {"transfer", "stop"} /\ attempt' \in 0..(Retries - 1)
        BY <1>6, RetriesAssumption DEF Retry, TypeOK
    <2>3. written < Messages
        BY <1>6 DEF Retry, Counted
    <2> QED
        BY <2>1, <2>2, <2>3 DEF TypeOK, InOrderOnce, Counted
<1>7. CASE UNCHANGED vars
    BY <1>7 DEF vars, TypeOK, InOrderOnce, Counted
<1> QED
    BY <1>1, <1>2, <1>3, <1>4, <1>5, <1>6, <1>7 DEF Next

\* A run is a message or an image; the other stands still.
LEMMA PartSteps ==
    ASSUME [AnyNext]_all
    PROVE  [Next]_vars /\ [Img!Next]_(Img!vars)
BY DEF AnyNext, all, vars, image_vars, Img!vars

LEMMA BulkInvariant == AnySpec => []BulkInv
<1>1. AnyInit => BulkInv
    BY BulkInit DEF AnyInit
<1> QED
    BY <1>1, BulkStep, PartSteps, PTL DEF AnySpec

\* The device receives every byte of a message once and in order, whatever
\* bulk_write_all does about partial and failed transfers.
THEOREM DeliveredInOrder == AnySpec => []InOrderOnce
<1>1. BulkInv => InOrderOnce
    BY DEF BulkInv
<1> QED
    BY BulkInvariant, <1>1, PTL

\* bulk_write_all returns true only when the device has the whole message.
THEOREM TrueOnlyWhenDelivered == AnySpec => []TrueMeansDelivered
<1>1. BulkInv => TrueMeansDelivered
    BY DEF BulkInv, InOrderOnce, Counted, TrueMeansDelivered
<1> QED
    BY BulkInvariant, <1>1, PTL
-----------------------------------------------------------------------------
(* Transfers of the bus: the messages as the device sees them end.         *)

(***************************************************************************)
(* Framed: a packet that is not full has been sent only at the end of a    *)
(* message, and it has ended the device's transfer; before it, and behind  *)
(* a message of full packets, the transfer is open.  OneTransferPerMessage *)
(* is not inductive: it does not know whether the end of a message was     *)
(* seen while bulk_write_all still runs.                                   *)
(***************************************************************************)
Aligned == offset % MaxPacket = 0

Framed ==
    /\ Aligned \/ offset = size
    /\ pc = "zlp" => Aligned
    /\ ~zlplost =>
          /\ pc \in {"transfer", "attempt", "zlp"} =>
                IF Aligned THEN frames = written /\ (open <=> offset > 0)
                           ELSE frames = written + 1 /\ ~open
          /\ pc = "caller" => frames = written /\ ~open
          /\ pc = "stop" /\ offset < size => frames = written

\* Whole packets do not change what is left over.
LEMMA WholePackets ==
    ASSUME NEW a \in Nat, NEW b \in Nat, NEW m \in Nat \ {0}, a % m = 0
    PROVE  (a + b) % m = b % m
<1> DEFINE p == a \div m
           q == b \div m
           r == b % m
<1>1. a = m * p /\ p \in Nat
    BY Division
<1>2. b = m * q + r /\ q \in Nat /\ r \in Nat /\ r < m
    BY Division
<1> HIDE DEF p, q, r
<1>3. a + b = m * (p + q) + r
    BY <1>1, <1>2
<1>4. (m * (p + q) + r) % m = r
    BY <1>1, <1>2, Remainder
<1> QED
    BY <1>3, <1>4 DEF r

\* A transfer moves whole packets, or what is left of the message.
LEMMA MovedPackets ==
    ASSUME TypeOK, Counted, NEW n \in Moved
    PROVE  n % MaxPacket = 0 \/ offset + n = size
<1>1. FirstChunk \in Nat /\ Fallback \in Nat
    BY ChunksAssumption
<1>2. /\ max_chunk \in Nat /\ max_chunk % MaxPacket = 0
      /\ size \in Nat /\ offset \in Nat /\ offset <= size
    BY <1>1, ChunksAssumption DEF TypeOK, Counted
<1>3. CASE n = Chunk /\ Chunk = max_chunk
    BY <1>2, <1>3
<1>4. CASE n = Chunk /\ Chunk = size - offset
    BY <1>2, <1>4
<1>5. CASE n \in {k \in 0..Chunk : k % MaxPacket = 0}
    BY <1>5
<1> QED
    BY <1>3, <1>4, <1>5 DEF Moved, Chunk, MinOf

\* What a transfer does to the transfer of the bus it is a part of.
LEMMA TransferKeepsFrame ==
    ASSUME TypeOK, Counted, Framed, pc = "transfer", offset < size,
           NEW n \in Moved, Deliver(n), Sent(n), size' = size, written' = written
    PROVE  /\ Aligned' \/ offset' = size'
           /\ ~zlplost' => IF Aligned' THEN frames' = written' /\ (open' <=> offset' > 0)
                                       ELSE frames' = written' + 1 /\ ~open'
<1>1. /\ n \in Nat /\ offset \in Nat /\ size \in Nat /\ offset + n <= size
      /\ MaxPacket \in Nat \ {0}
    BY MovedFits, ChunksAssumption DEF TypeOK
<1>2. Aligned
    BY <1>1 DEF Framed
<1>3. offset' = offset + n /\ zlplost' = zlplost
    BY DEF Sent, Deliver
<1>4. offset' % MaxPacket = n % MaxPacket
    BY <1>1, <1>2, <1>3, WholePackets DEF Aligned
<1>5. Aligned' \/ offset' = size'
    BY <1>3, <1>4, MovedPackets DEF Aligned
<1>6. ASSUME ~zlplost PROVE frames = written /\ (open <=> offset > 0)
    BY <1>2, <1>6 DEF Framed
<1>7. CASE n % MaxPacket # 0
    <2>1. open' = FALSE /\ frames' = frames + 1
        BY <1>7 DEF Deliver
    <2>2. ~Aligned'
        BY <1>4, <1>7 DEF Aligned
    <2> QED
        BY <1>3, <1>5, <1>6, <2>1, <2>2
<1>8. CASE n % MaxPacket = 0
    <2>1. open' = (open \/ n > 0) /\ frames' = frames
        BY <1>8 DEF Deliver
    <2>2. Aligned'
        BY <1>4, <1>8 DEF Aligned
    <2>3. offset' > 0 <=> offset > 0 \/ n > 0
        BY <1>1, <1>3
    <2>4. ~zlplost => (open' <=> offset' > 0)
        BY <1>6, <2>1, <2>3, Zenon
    <2> QED
        BY <1>3, <1>6, <2>1, <2>2, <2>4
<1> QED
    BY <1>7, <1>8

LEMMA FrameInit == Init => Framed
<1> SUFFICES ASSUME Init PROVE Framed
    OBVIOUS
<1> QED
    BY DEF Init, Framed

LEMMA FrameStep == BulkInv /\ Framed /\ [Next]_vars => Framed'
<1> SUFFICES ASSUME TypeOK, Counted, Framed, [Next]_vars PROVE Framed'
    BY DEF BulkInv
<1> USE DEF host, device
<1>0. MaxPacket \in Nat \ {0} /\ 0 % MaxPacket = 0
    <2>1. MaxPacket \in Nat \ {0}
        BY ChunksAssumption
    <2>2. (MaxPacket * 0 + 0) % MaxPacket = 0
        BY <2>1, Remainder
    <2> QED
        BY <2>1, <2>2
<1>1. CASE Call
    <2>1. /\ pc = "caller" /\ pc' = "transfer" /\ offset' = 0
          /\ UNCHANGED <<written, open, frames, zlplost>>
        BY <1>1 DEF Call
    <2>2. Aligned' /\ ~(offset' > 0)
        BY <1>0, <2>1 DEF Aligned
    <2> QED
        BY <2>1, <2>2 DEF Framed
<1>2. CASE TransferOk
    <2>1. PICK n \in Moved : /\ Deliver(n) /\ Sent(n)
                             /\ pc' = IF n > 0 THEN "transfer" ELSE "attempt"
        BY <1>2 DEF TransferOk
    <2>2. pc = "transfer" /\ offset < size /\ size' = size /\ written' = written
        BY <1>2 DEF TransferOk
    <2>3. /\ Aligned' \/ offset' = size'
          /\ ~zlplost' => IF Aligned' THEN frames' = written' /\ (open' <=> offset' > 0)
                                      ELSE frames' = written' + 1 /\ ~open'
        BY <2>1, <2>2, TransferKeepsFrame
    <2> QED
        BY <2>1, <2>3 DEF Framed
<1>3. ASSUME NEW err \in Errors, TransferFails(err) PROVE Framed'
    <2>1. PICK n \in Moved : Deliver(n) /\ Sent(n)
        BY <1>3 DEF TransferFails
    <2>2. /\ pc = "transfer" /\ offset < size /\ size' = size /\ written' = written
          /\ pc' \in {"stop", "attempt"}
        BY <1>3 DEF TransferFails
    <2>3. /\ Aligned' \/ offset' = size'
          /\ ~zlplost' => IF Aligned' THEN frames' = written' /\ (open' <=> offset' > 0)
                                      ELSE frames' = written' + 1 /\ ~open'
        BY <2>1, <2>2, TransferKeepsFrame
    <2>4. offset' \in Nat /\ size' \in Nat /\ (offset' < size' => offset' # size')
        BY <2>1, <2>2, MovedFits DEF Sent, TypeOK
    <2> QED
        BY <2>2, <2>3, <2>4 DEF Framed
<1>4. CASE Finish
    <2>1. /\ pc \in {"transfer", "attempt"} /\ offset = size
          /\ UNCHANGED <<size, offset, open, frames, zlplost>>
        BY <1>4 DEF Finish, AllSent
    <2>2. offset \in Nat
        BY DEF TypeOK
    <2>3. CASE NeedsZlp
        <3>1. pc' = "zlp" /\ written' = written /\ Aligned /\ (Aligned' <=> Aligned)
            BY <1>4, <2>1, <2>3 DEF Finish, NeedsZlp, Aligned
        <3> QED
            BY <2>1, <3>1 DEF Framed
    <2>4. CASE ~NeedsZlp
        <3>1. pc' = "caller" /\ written' = written + 1 /\ ~Aligned
            BY <1>4, <2>1, <2>4 DEF Finish, NeedsZlp, Aligned
        <3> QED
            BY <2>1, <3>1 DEF Framed
    <2> QED
        BY <2>3, <2>4
<1>5. CASE SendZlp
    <2>1. /\ pc = "zlp" /\ pc' = "caller" /\ written' = written + 1
          /\ UNCHANGED <<size, offset>>
          /\ (open' = FALSE /\ frames' = frames + 1 /\ zlplost' = zlplost) \/ zlplost' = TRUE
        BY <1>5 DEF SendZlp
    <2>2. Aligned /\ (Aligned' <=> Aligned)
        BY <2>1 DEF Framed, Aligned
    <2> QED
        BY <2>1, <2>2 DEF Framed
<1>6. CASE Retry
    <2>1. /\ pc = "attempt" /\ pc' \in {"transfer", "stop"} /\ offset < size
          /\ UNCHANGED <<size, offset, written, open, frames, zlplost>>
        BY <1>6 DEF Retry
    <2>2. Aligned /\ Aligned'
        BY <2>1 DEF Framed, Aligned, TypeOK
    <2> QED
        BY <2>1, <2>2 DEF Framed
<1>7. CASE UNCHANGED vars
    BY <1>7 DEF vars, Framed, Aligned
<1> QED
    BY <1>1, <1>2, <1>3, <1>4, <1>5, <1>6, <1>7 DEF Next

\* The transfers the device sees are the messages: each is closed once, at its
\* end, by a packet that is not full or by the zero-length packet, whatever the
\* chunks and the retries; only the loss of a zero-length packet can change it.
THEOREM OneTransferEach == AnySpec => []OneTransferPerMessage
<1>1. BulkInv /\ Framed => OneTransferPerMessage
    <2> SUFFICES ASSUME TypeOK, Counted, Framed, ~zlplost
                 PROVE  /\ offset < size => frames = written
                        /\ pc = "caller" => frames = written /\ ~open
        BY DEF BulkInv, OneTransferPerMessage
    <2>1. offset < size => Aligned
        BY DEF Framed, TypeOK
    <2> QED
        BY <2>1 DEF Framed, TypeOK
<1>2. Init => Framed
    BY FrameInit
<1>3. BulkInv /\ Framed /\ [Next]_vars => Framed'
    BY FrameStep
<1>4. AnyInit => Init
    BY DEF AnyInit
<1>5. AnySpec => []Framed
    BY <1>2, <1>3, <1>4, PartSteps, BulkInvariant, PTL DEF AnySpec
<1> QED
    BY <1>1, <1>5, BulkInvariant, PTL

\* The variables of a write keep their types: the offset never passes the size
\* and the attempts stay below the retry count.
THEOREM WriteTypes == AnySpec => []TypeOK
<1>1. BulkInv => TypeOK
    BY DEF BulkInv
<1> QED
    BY BulkInvariant, <1>1, PTL

-----------------------------------------------------------------------------
(* Images: the inductive invariant of ImageTransfer.                       *)

Done == step \in {"reset", "true"}

\* Thor: what was sent is what the device has.
ThorInv ==
    /\ step \in {"header", "chunk", "true", "false", "refused"}
    /\ i = 0 /\ j = 0 /\ announced = 0 /\ buffer = <<>> /\ last = FALSE
    /\ flashed = Img!Span(0, total_sent)
    /\ step = "true" => total_sent = image.size

\* Where the sequence under way begins in the image.
Start == i * Img!SequenceBytes

Smaller(x, y) == IF x < y THEN x ELSE y

\* What the device has of the sequence under way: the parts sent, padding only
\* behind the real size.
SequenceOK ==
    /\ announced = Img!Aligned(Img!RealSize)
    /\ j <= Img!Parts
    /\ total_sent = Start + Smaller(j * Packet, Img!RealSize)
    /\ buffer = [k \in 1..(j * Packet) |-> IF k <= Img!RealSize THEN Start + k - 1 ELSE Img!Pad]

(***************************************************************************)
(* Legacy: before the end is told the device has the sequences finished.   *)
(* FlashedIsPrefix alone does not say where the next sequence goes on.     *)
(***************************************************************************)
LegacyInv ==
    /\ step \in {"request", "sequence", "part", "reset", "true", "false", "refused"}
    /\ flashed = Img!Span(0, IF last THEN image.size ELSE Start)
    /\ last \in BOOLEAN
    /\ last => i > 0 /\ total_sent = image.size
    /\ ~last /\ i > 0 => i < Img!Sequences64
    /\ step \in {"request", "sequence", "part"} => ~last
    /\ step = "request" => i = 0 /\ total_sent = 0
    /\ step \in {"sequence", "part"} => i < Img!Sequences64
    /\ step = "sequence" => total_sent = Start
    /\ step = "part" => SequenceOK
    /\ Done => last

\* What a refusal was for.
RefusedOK == step = "refused" =>
    \/ image.stream < image.size
    \/ ~image.thor /\ (image.size = 0 \/ image.size > MaxSequences * Img!SequenceBytes)

Numbers ==
    /\ total_sent \in 0..image.stream
    /\ i \in Nat /\ j \in Nat /\ index \in Nat
    /\ announced \in Nat /\ announced % Packet = 0 /\ announced <= Packet * Count
    /\ buffer \in Seq(Int) /\ Len(buffer) <= announced

ImageInv ==
    /\ image \in Images
    /\ Numbers
    /\ IF image.thor THEN ThorInv ELSE LegacyInv
    /\ RefusedOK

-----------------------------------------------------------------------------
(* Arithmetic of packets and sequences.                                    *)

LEMMA Product == ASSUME NEW a \in Nat, NEW b \in Nat PROVE a * b \in Nat
  OBVIOUS

LEMMA ProductGrows ==
    ASSUME NEW a \in Nat, NEW b \in Nat, NEW c \in Nat, a <= b
    PROVE  a * c <= b * c
  <1>1. b = a + (b - a) /\ b - a \in Nat
    OBVIOUS
  <1>2. b * c = a * c + (b - a) * c
    BY <1>1
  <1>3. QED  BY <1>1, <1>2, Product

LEMMA Multiple ==
    ASSUME NEW q \in Nat, NEW b \in Nat \ {0}
    PROVE  (b * q) % b = 0 /\ (b * q) \div b = q
  BY SMT

\* What the limits of the protocol are.
LEMMA Cuts ==
    ASSUME Img!CutAssumption
    PROVE  /\ Packet \in Nat \ {0} /\ Count \in Nat \ {0} /\ ImageChunk \in Nat \ {0}
           /\ MaxSequences \in Nat
           /\ Img!SequenceBytes \in Nat \ {0} /\ Img!SequenceBytes % Packet = 0
  <1>1. Packet \in Nat \ {0} /\ Count \in Nat \ {0} /\ ImageChunk \in Nat \ {0} /\ MaxSequences \in Nat
    BY DEF Img!CutAssumption
  <1>2. Packet * Count \in Nat \ {0}
    BY <1>1
  <1>3. (Packet * Count) % Packet = 0
    BY <1>1, Multiple
  <1>4. QED  BY <1>1, <1>2, <1>3 DEF Img!SequenceBytes

LEMMA ImageType ==
    ASSUME Img!ImagesAssumption, image \in Images
    PROVE  /\ image.thor \in BOOLEAN
           /\ image.size \in Nat /\ image.stream \in Nat /\ image.stream <= image.size
  BY DEF Img!ImagesAssumption

\* The sequences cover the image, and each begins inside it.
LEMMA SequencesCover ==
    ASSUME Img!CutAssumption, image.size \in Nat
    PROVE  /\ Img!Sequences64 \in Nat
           /\ image.size <= Img!Sequences64 * Img!SequenceBytes
           /\ \A b \in Nat : b < Img!Sequences64 => b * Img!SequenceBytes < image.size
  <1> DEFINE n == image.size
             s == Img!SequenceBytes
             a == n + s - 1
             q == a \div s
             r == a % s
  <1>1. s \in Nat \ {0} /\ n \in Nat
    BY Cuts
  <1> HIDE DEF n, s
  <1>2. a \in Nat
    BY <1>1
  <1>3. q \in Nat /\ r \in 0..(s - 1) /\ a = s * q + r
    BY <1>1, <1>2, Division
  <1>4. Img!Sequences64 = q /\ a = n + s - 1
    BY DEF Img!Sequences64, n, s
  <1> HIDE DEF a, q, r
  <1>5. q * s \in Nat /\ s * q = q * s
    BY <1>1, <1>3
  <1>6. n <= q * s /\ q * s <= n + s - 1
    BY <1>1, <1>3, <1>4, <1>5
  <1>7. ASSUME NEW b \in Nat, b < q PROVE b * s < n
    <2>1. (b + 1) * s <= q * s
      BY <1>1, <1>3, <1>7, ProductGrows
    <2>2. (b + 1) * s = b * s + s /\ b * s \in Nat
      BY <1>1, <1>7
    <2>3. QED  BY <1>1, <1>5, <1>6, <2>1, <2>2
  <1>8. QED  BY <1>3, <1>4, <1>6, <1>7 DEF n, s

\* Aligned rounds up to whole packets.
LEMMA AlignedUp ==
    ASSUME Img!CutAssumption, NEW x \in Nat
    PROVE  \E q \in Nat : /\ Img!Aligned(x) = Packet * q /\ x <= Packet * q /\ Packet * q < x + Packet
                          /\ x % Packet = 0 => Packet * q = x
  <1> DEFINE p == Packet
             q == x \div p
             r == x % p
  <1>1. p \in Nat \ {0}
    BY Cuts
  <1>2. x = p * q + r /\ q \in Nat /\ r \in 0..(p - 1)
    BY <1>1, Division
  <1>3. Img!Aligned(x) = IF r = 0 THEN x ELSE x + p - r
    BY DEF Img!Aligned
  <1> HIDE DEF p, q, r
  <1>4. p * (q + 1) = p * q + p /\ p * q \in Nat
    BY <1>1, <1>2
  <1>5. CASE r = 0
    <2>1. Img!Aligned(x) = p * q /\ x <= p * q /\ p * q < x + p /\ p * q = x
      BY <1>1, <1>2, <1>3, <1>4, <1>5
    <2>2. QED  BY <1>2, <2>1 DEF p
  <1>6. CASE r # 0
    <2>1. Img!Aligned(x) = p * (q + 1) /\ x <= p * (q + 1) /\ p * (q + 1) < x + p
      BY <1>1, <1>2, <1>3, <1>4, <1>6
    <2>2. x % p # 0
      BY <1>6 DEF r
    <2>3. QED  BY <1>2, <2>1, <2>2 DEF p
  <1>7. QED  BY <1>5, <1>6

\* The sequence that begins at Start, and its parts.
LEMMA SequenceFacts ==
    ASSUME Img!CutAssumption, image.size \in Nat, i \in Nat, i < Img!Sequences64
    PROVE  /\ Start \in Nat /\ Img!RealSize \in Nat \ {0} /\ Img!RealSize <= Img!SequenceBytes
           /\ Img!IsLast => Start + Img!RealSize = image.size
           /\ ~Img!IsLast => /\ Img!RealSize = Img!SequenceBytes /\ i + 1 < Img!Sequences64
                             /\ Start + Img!RealSize = (i + 1) * Img!SequenceBytes
                             /\ Start + Img!RealSize < image.size
  <1> DEFINE n == image.size
             s == Img!SequenceBytes
             c == Img!Sequences64
  <1>1. s \in Nat \ {0} /\ n \in Nat /\ i \in Nat
    BY Cuts
  <1>2. c \in Nat /\ n <= c * s /\ i * s < n /\ (i + 1 < c => (i + 1) * s < n) /\ i + 1 <= c
    BY <1>1, SequencesCover
  <1>3. i * s \in Nat /\ (i + 1) * s = i * s + s
    BY <1>1
  <1>4. CASE Img!IsLast
    <2>1. i = c - 1 /\ c = i + 1
      BY <1>1, <1>2, <1>4 DEF Img!IsLast
    <2>2. Img!RealSize = n - i * s
      BY <1>4, <2>1 DEF Img!RealSize, Img!LastSequence
    <2> HIDE DEF n, s, c
    <2>3. c * s = i * s + s
      BY <1>3, <2>1
    <2>4. Img!RealSize \in Nat \ {0} /\ Img!RealSize <= s /\ i * s + Img!RealSize = n
      BY <1>1, <1>2, <1>3, <2>2, <2>3
    <2>5. QED  BY <1>3, <1>4, <2>4 DEF Start, n, s
  <1>5. CASE ~Img!IsLast
    <2>1. Img!RealSize = s /\ i + 1 < c
      BY <1>1, <1>2, <1>5 DEF Img!IsLast, Img!RealSize
    <2> HIDE DEF n, s, c
    <2>2. i * s + Img!RealSize = (i + 1) * s /\ i * s + Img!RealSize < n
      BY <1>1, <1>2, <1>3, <2>1
    <2>3. QED  BY <1>1, <1>3, <1>5, <2>1, <2>2 DEF Start, n, s, c
  <1>6. QED  BY <1>4, <1>5

\* Its parts are what is announced for it, each but the last one full of data.
LEMMA PartFacts ==
    ASSUME Img!CutAssumption, image.size \in Nat, i \in Nat, i < Img!Sequences64,
           NEW a, a = Img!Aligned(Img!RealSize)
    PROVE  /\ a \in Nat /\ a % Packet = 0 /\ a <= Packet * Count
           /\ Img!RealSize <= a /\ a \div Packet \in Nat /\ (a \div Packet) * Packet = a
           /\ Img!RealSize % Packet = 0 => a = Img!RealSize
           /\ \A k \in Nat : k < a \div Packet => k * Packet < Img!RealSize /\ (k + 1) * Packet <= a
  <1> DEFINE p == Packet
             x == Img!RealSize
             s == Img!SequenceBytes
  <1>1. p \in Nat \ {0} /\ x \in Nat \ {0} /\ x <= s /\ s = p * Count /\ Count \in Nat \ {0}
    BY Cuts, SequenceFacts DEF Img!SequenceBytes
  <1>2. PICK q \in Nat : /\ a = p * q /\ x <= p * q /\ p * q < x + p
                         /\ x % p = 0 => p * q = x
    BY <1>1, AlignedUp
  <1>3. a % p = 0 /\ a \div p = q
    BY <1>1, <1>2, Multiple
  <1> HIDE DEF p, x, s
  <1>4. p * q = q * p /\ q * p \in Nat /\ p * Count = Count * p /\ Count * p \in Nat
    BY <1>1, <1>2
  <1>5. q <= Count
    <2>1. SUFFICES ASSUME Count + 1 <= q PROVE FALSE
      BY <1>1, <1>2
    <2>2. (Count + 1) * p <= q * p
      BY <1>1, <1>2, <2>1, ProductGrows
    <2>3. (Count + 1) * p = Count * p + p
      BY <1>1
    <2>4. QED  BY <1>1, <1>2, <1>4, <2>2, <2>3
  <1>6. q * p <= Count * p
    BY <1>1, <1>2, <1>5, ProductGrows
  <1>7. ASSUME NEW k \in Nat, k < q PROVE k * p < x /\ (k + 1) * p <= a
    <2>1. (k + 1) * p <= q * p
      BY <1>1, <1>2, <1>7, ProductGrows
    <2>2. (k + 1) * p = k * p + p /\ k * p \in Nat
      BY <1>1, <1>7
    <2>3. QED  BY <1>1, <1>2, <1>4, <2>1, <2>2
  <1>8. a \in Nat /\ a <= p * Count /\ x <= a /\ q * p = a
    BY <1>2, <1>4, <1>6
  <1>9. x % p = 0 => a = x
    BY <1>2
  <1>10. QED  BY <1>2, <1>3, <1>7, <1>8, <1>9 DEF p, x

-----------------------------------------------------------------------------
(* Spans of bytes.                                                         *)

LEMMA SpanType ==
    ASSUME NEW from \in Nat, NEW len \in Nat
    PROVE  /\ Img!Span(from, len) \in Seq(Int) /\ Len(Img!Span(from, len)) = len
           /\ \A k \in 1..len : Img!Span(from, len)[k] = from + k - 1
  BY DEF Img!Span

LEMMA ZeroSpan ==
    ASSUME NEW len \in Nat
    PROVE  Len(Img!Span(0, len)) = len
  BY SpanType

LEMMA Joined ==
    ASSUME NEW a \in Seq(Int), NEW b \in Seq(Int)
    PROVE  /\ a \o b \in Seq(Int) /\ Len(a \o b) = Len(a) + Len(b)
           /\ \A k \in 1..(Len(a) + Len(b)) :
                 (a \o b)[k] = IF k <= Len(a) THEN a[k] ELSE b[k - Len(a)]
  BY ConcatProperties

LEMMA SpanAppended ==
    ASSUME NEW o \in Nat, NEW n \in Nat
    PROVE  Img!Span(0, o) \o Img!Span(o, n) = Img!Span(0, o + n)
  <1> DEFINE a == Img!Span(0, o)
             b == Img!Span(o, n)
             c == Img!Span(0, o + n)
  <1>1. /\ a \in Seq(Int) /\ Len(a) = o /\ \A k \in 1..o : a[k] = 0 + k - 1
        /\ b \in Seq(Int) /\ Len(b) = n /\ \A k \in 1..n : b[k] = o + k - 1
        /\ c \in Seq(Int) /\ Len(c) = o + n /\ \A k \in 1..(o + n) : c[k] = 0 + k - 1
    <2>1. o + n \in Nat
      OBVIOUS
    <2>2. QED  BY <2>1, SpanType
  <1> HIDE DEF a, b, c
  <1>2. /\ a \o b \in Seq(Int) /\ Len(a \o b) = o + n
        /\ \A k \in 1..(o + n) : (a \o b)[k] = IF k <= o THEN a[k] ELSE b[k - o]
    BY <1>1, Joined
  <1>3. \A k \in 1..(o + n) : (a \o b)[k] = c[k]
    BY <1>1, <1>2
  <1>4. a \o b = c
    BY <1>1, <1>2, <1>3, SeqEqual
  <1>5. QED  BY <1>4 DEF a, b, c

\* A sequence of bytes of which the first `real' are those from `from' on.
Padded(from, real, len) == [k \in 1..len |-> IF k <= real THEN from + k - 1 ELSE Img!Pad]

LEMMA PaddedType ==
    ASSUME NEW from \in Nat, NEW real \in Nat, NEW len \in Nat
    PROVE  /\ Padded(from, real, len) \in Seq(Int) /\ Len(Padded(from, real, len)) = len
           /\ \A k \in 1..len : Padded(from, real, len)[k] = IF k <= real THEN from + k - 1 ELSE Img!Pad
  <1> DEFINE f(k) == IF k <= real THEN from + k - 1 ELSE Img!Pad
  <1>1. \A k \in 1..len : f(k) \in Int
    BY DEF Img!Pad
  <1>2. Padded(from, real, len) = [k \in 1..len |-> f(k)]
    BY DEF Padded
  <1> HIDE DEF f
  <1>3. /\ Padded(from, real, len) \in Seq(Int) /\ Len(Padded(from, real, len)) = len
        /\ \A k \in 1..len : Padded(from, real, len)[k] = f(k)
    BY <1>1, <1>2
  <1>4. QED  BY <1>3 DEF f

\* One more part: t bytes of the image, filled up to p.
LEMMA PartAppended ==
    ASSUME NEW from \in Nat, NEW real \in Nat, NEW m \in Nat, NEW t \in Nat, Packet \in Nat,
           t <= Packet, m + t <= real, t < Packet => m + t = real
    PROVE  Padded(from, real, m) \o Img!Span(from + m, t) \o Img!Filler(t) = Padded(from, real, m + Packet)
  <1> DEFINE p == Packet
             a == Padded(from, real, m)
             b == Img!Span(from + m, t)
             d == Img!Filler(t)
             c == Padded(from, real, m + p)
             n == p - t
  <1>0. n \in Nat /\ m + p \in Nat /\ from + m \in Nat /\ Img!Pad \in Int
    BY DEF Img!Pad
  <1>1. /\ a \in Seq(Int) /\ Len(a) = m
        /\ \A k \in 1..m : a[k] = IF k <= real THEN from + k - 1 ELSE Img!Pad
    BY PaddedType
  <1>2. b \in Seq(Int) /\ Len(b) = t /\ \A k \in 1..t : b[k] = (from + m) + k - 1
    BY <1>0, SpanType
  <1>3. d \in Seq(Int) /\ Len(d) = n /\ \A k \in 1..n : d[k] = Img!Pad
    BY <1>0 DEF Img!Filler
  <1>4. /\ c \in Seq(Int) /\ Len(c) = m + p
        /\ \A k \in 1..(m + p) : c[k] = IF k <= real THEN from + k - 1 ELSE Img!Pad
    BY <1>0, PaddedType
  <1> HIDE DEF a, b, c, d
  <1>5. /\ a \o b \in Seq(Int) /\ Len(a \o b) = m + t
        /\ \A k \in 1..(m + t) : (a \o b)[k] = IF k <= m THEN a[k] ELSE b[k - m]
    BY <1>1, <1>2, Joined
  <1>6. /\ (a \o b) \o d \in Seq(Int) /\ Len((a \o b) \o d) = m + t + n
        /\ \A k \in 1..(m + t + n) :
              ((a \o b) \o d)[k] = IF k <= m + t THEN (a \o b)[k] ELSE d[k - (m + t)]
    <2> DEFINE ab == a \o b
               l == m + t
    <2>1. ab \in Seq(Int) /\ Len(ab) = l /\ l \in Nat
      BY <1>5
    <2> HIDE DEF ab, l
    <2>2. /\ ab \o d \in Seq(Int) /\ Len(ab \o d) = l + n
          /\ \A k \in 1..(l + n) : (ab \o d)[k] = IF k <= l THEN ab[k] ELSE d[k - l]
      BY <1>0, <1>3, <2>1, Joined
    <2>3. QED  BY <2>2 DEF ab, l
  <1>x. m + t + n = m + p
    OBVIOUS
  <1>7. ASSUME NEW k \in 1..(m + p) PROVE ((a \o b) \o d)[k] = c[k]
    <2>1. CASE k <= m
      BY <1>0, <1>1, <1>4, <1>5, <1>6, <2>1
    <2>2. CASE k > m /\ k <= m + t
      <3>1. k - m \in 1..t /\ k \in 1..(m + t) /\ k \in 1..(m + t + n) /\ k <= real /\ ~(k <= m)
            /\ k <= m + t
        BY <1>0, <2>2
      <3>2. ((a \o b) \o d)[k] = (a \o b)[k]
        BY <1>6, <3>1, Zenon
      <3>3. (a \o b)[k] = b[k - m]
        BY <1>5, <3>1
      <3>4. b[k - m] = from + k - 1
        <4>1. b[k - m] = (from + m) + (k - m) - 1
          BY <1>2, <3>1
        <4>2. QED  BY <3>1, <4>1
      <3>5. c[k] = from + k - 1
        BY <1>4, <3>1
      <3>6. QED  BY <3>2, <3>3, <3>4, <3>5
    <2>3. CASE k > m + t
      <3>1. k - (m + t) \in 1..n /\ k \in 1..(m + t + n) /\ ~(k <= real) /\ ~(k <= m + t)
        BY <2>3
      <3>2. ((a \o b) \o d)[k] = Img!Pad
        BY <1>3, <1>6, <3>1
      <3>3. c[k] = Img!Pad
        BY <1>4, <3>1
      <3>4. QED  BY <3>2, <3>3
    <2>4. k <= m \/ (k > m /\ k <= m + t) \/ k > m + t
      OBVIOUS
    <2>5. QED  BY <2>1, <2>2, <2>3, <2>4, Zenon
  <1>8. (a \o b) \o d = c
    BY <1>4, <1>6, <1>7, <1>x, SeqEqual
  <1>9. QED  BY <1>8 DEF a, b, c, d

\* The data of a sequence follow the sequences before it.
LEMMA SequenceAppended ==
    ASSUME NEW from \in Nat, NEW real \in Nat, NEW len \in Nat, real <= len
    PROVE  Img!Span(0, from) \o SubSeq(Padded(from, real, len), 1, real) = Img!Span(0, from + real)
  <1> DEFINE a == Padded(from, real, len)
             b == SubSeq(a, 1, real)
             c == Img!Span(from, real)
  <1>1. /\ a \in Seq(Int) /\ Len(a) = len
        /\ \A k \in 1..len : a[k] = IF k <= real THEN from + k - 1 ELSE Img!Pad
    BY PaddedType
  <1>2. c \in Seq(Int) /\ Len(c) = real /\ \A k \in 1..real : c[k] = from + k - 1
    BY SpanType
  <1> HIDE DEF a, c
  <1>3. b \in Seq(Int) /\ Len(b) = real /\ \A k \in 1..real : b[k] = a[k]
    BY <1>1
  <1>4. b = c
    BY <1>1, <1>2, <1>3, SeqEqual
  <1>5. QED  BY <1>4, SpanAppended DEF a, c

-----------------------------------------------------------------------------
(* The invariant.                                                          *)

LEMMA InitImage ==
    ASSUME Img!CutAssumption, Img!ImagesAssumption, Img!Init
    PROVE  ImageInv
  <1>1. /\ image \in Images /\ i = 0 /\ j = 0 /\ total_sent = 0 /\ index = 0 /\ announced = 0
        /\ buffer = <<>> /\ flashed = <<>> /\ last = FALSE
        /\ step = IF image.thor THEN "header" ELSE "request"
    BY DEF Img!Init
  <1>2. Packet \in Nat \ {0} /\ Count \in Nat \ {0} /\ Img!SequenceBytes \in Nat \ {0}
    BY Cuts
  <1>3. 0 % Packet = 0 /\ 0 <= Packet * Count /\ Start = 0
    <2>1. Packet * 0 = 0 /\ (Packet * 0) % Packet = 0
      BY <1>2, Multiple
    <2>2. Packet * Count \in Nat
      BY <1>2, Product
    <2>3. 0 * Img!SequenceBytes = 0
      BY <1>2
    <2>4. QED  BY <1>1, <2>1, <2>2, <2>3 DEF Start
  <1>4. Numbers
    BY <1>1, <1>3, ImageType DEF Numbers
  <1>5. flashed = Img!Span(0, 0)
    BY <1>1 DEF Img!Span
  <1>6. image.thor => ThorInv
    BY <1>1, <1>5 DEF ThorInv
  <1>7. ASSUME ~image.thor PROVE LegacyInv
    <2>1. step = "request" /\ ~last /\ last \in BOOLEAN
      BY <1>1, <1>7
    <2>2. (IF last THEN image.size ELSE Start) = 0
      BY <1>3, <2>1
    <2>3. flashed = Img!Span(0, IF last THEN image.size ELSE Start)
      BY <1>5, <2>2
    <2>4. QED  BY <1>1, <1>3, <2>1, <2>3 DEF LegacyInv, Done
  <1>8. RefusedOK
    BY <1>1 DEF RefusedOK
  <1>9. QED  BY <1>1, <1>4, <1>6, <1>7, <1>8 DEF ImageInv

\* Steps that only go on, or end.
LEMMA Onwards ==
    ASSUME ImageInv, UNCHANGED <<image, Img!host, Img!dev>>,
           step' \in {"false", "refused"} \/ step' = step, step' = "refused" => RefusedOK'
    PROVE  ImageInv'
  <1>1. Numbers'
    BY DEF ImageInv, Numbers, Img!host, Img!dev
  <1>2. image.thor => ThorInv'
    BY DEF ImageInv, ThorInv, Img!host, Img!dev, Img!Span
  <1>3. ~image.thor => LegacyInv'
    BY DEF ImageInv, LegacyInv, Img!host, Img!dev, Img!Span, Start, Img!SequenceBytes, Img!Sequences64, Done,
           SequenceOK, Img!RealSize, Img!IsLast, Img!LastSequence, Img!Aligned, Img!Parts, Smaller
  <1>4. RefusedOK'
    BY DEF RefusedOK
  <1>5. QED  BY <1>1, <1>2, <1>3, <1>4 DEF ImageInv, Img!host, Img!dev

\* What is read next is there, or the file is too short.
LEMMA ShortFile ==
    ASSUME Img!CutAssumption, Img!ImagesAssumption, ImageInv, Img!StreamEnds
    PROVE  image.stream < image.size
  <1>1. /\ image.size \in Nat /\ image.stream \in Nat /\ total_sent \in Nat
        /\ total_sent <= image.stream /\ image.stream <= image.size
        /\ Packet \in Nat \ {0} /\ ImageChunk \in Nat \ {0}
    BY ImageType, Cuts DEF ImageInv, Numbers
  <1>2. Img!ToRead \in Nat /\ total_sent + Img!ToRead <= image.size
    BY <1>1 DEF Img!ToRead
  <1>3. Img!ChunkLen \in Nat /\ total_sent + Img!ChunkLen <= image.size
    BY <1>1 DEF Img!ChunkLen
  <1>4. QED  BY <1>1, <1>2, <1>3 DEF Img!StreamEnds, Img!StreamHas

LEMMA ThorStep ==
    ASSUME Img!CutAssumption, Img!ImagesAssumption, ImageInv, image.thor,
           Img!SendFilePartHeader \/ Img!SendFilePartChunk \/ Img!ChunksDone
    PROVE  ImageInv'
  <1>0. /\ image \in Images /\ image.size \in Nat /\ image.stream \in Nat
        /\ image.stream <= image.size /\ total_sent \in Nat /\ total_sent <= image.stream
        /\ Numbers /\ ThorInv /\ RefusedOK
    BY ImageType DEF ImageInv, Numbers
  <1>1. CASE Img!SendFilePartHeader
    BY <1>0, <1>1 DEF Img!SendFilePartHeader, ImageInv, Numbers, ThorInv, RefusedOK, Img!host, Img!dev
  <1>2. CASE Img!ChunksDone
    BY <1>0, <1>2 DEF Img!ChunksDone, ImageInv, Numbers, ThorInv, RefusedOK, Img!host, Img!dev
  <1>3. CASE Img!SendFilePartChunk
    <2>1. /\ step = "chunk" /\ total_sent + Img!ChunkLen <= image.stream
          /\ flashed' = flashed \o Img!Span(total_sent, Img!ChunkLen)
          /\ total_sent' = total_sent + Img!ChunkLen /\ index' = index + 1
          /\ UNCHANGED <<image, step, i, j, announced, buffer, last>>
      BY <1>3 DEF Img!SendFilePartChunk, Img!StreamHas
    <2>2. Img!ChunkLen \in Nat
      BY <1>0, Cuts DEF Img!ChunkLen
    <2>3. flashed' = Img!Span(0, total_sent')
      BY <1>0, <2>1, <2>2, SpanAppended DEF ThorInv
    <2>4. Numbers'
      BY <1>0, <2>1, <2>2 DEF Numbers
    <2>5. ThorInv'
      BY <1>0, <2>1, <2>3 DEF ThorInv
    <2>6. QED  BY <1>0, <2>1, <2>4, <2>5 DEF ImageInv, RefusedOK
  <1>4. QED  BY <1>1, <1>2, <1>3

LEMMA RequestStep ==
    ASSUME Img!CutAssumption, Img!ImagesAssumption, ImageInv, ~image.thor, Img!RequestFileFlash
    PROVE  ImageInv'
  <1>0. /\ image.size \in Nat /\ LegacyInv /\ step = "request" /\ UNCHANGED <<image, Img!host, Img!dev>>
        /\ step' = IF Img!Sequences64 \in 1..MaxSequences THEN "sequence" ELSE "refused"
    BY ImageType DEF ImageInv, Img!RequestFileFlash
  <1>1. Img!Sequences64 \in Nat /\ MaxSequences \in Nat /\ Img!SequenceBytes \in Nat \ {0}
    BY <1>0, SequencesCover, Cuts
  <1>2. i = 0 /\ total_sent = 0 /\ ~last
    BY <1>0 DEF LegacyInv
  <1>3. CASE Img!Sequences64 \in 1..MaxSequences
    <2>1. step' = "sequence"
      BY <1>0, <1>3
    <2>2. Start = 0
      BY <1>1, <1>2 DEF Start
    <2>3. UNCHANGED <<Start, Img!Sequences64>>
      BY <1>0 DEF Start, Img!SequenceBytes, Img!Sequences64, Img!host
    <2>4. LegacyInv'
      BY <1>0, <1>1, <1>2, <1>3, <2>1, <2>2, <2>3 DEF LegacyInv, Img!host, Img!dev, Done, Img!Span
    <2>5. QED  BY <1>0, <2>1, <2>4 DEF ImageInv, Numbers, RefusedOK, Img!host, Img!dev
  <1>4. CASE Img!Sequences64 \notin 1..MaxSequences
    <2>1. image.size = 0 \/ image.size > MaxSequences * Img!SequenceBytes
      <3>1. CASE Img!Sequences64 = 0
        <4>1. 0 * Img!SequenceBytes = 0
          BY <1>1
        <4>2. QED  BY <1>0, <3>1, <4>1, SequencesCover
      <3>2. CASE Img!Sequences64 > MaxSequences
        <4>1. MaxSequences * Img!SequenceBytes < image.size
          BY <1>0, <1>1, <3>2, SequencesCover
        <4>2. MaxSequences * Img!SequenceBytes \in Nat
          BY <1>1, Product
        <4>3. QED  BY <1>0, <4>1, <4>2
      <3>3. QED  BY <1>1, <1>4, <3>1, <3>2
    <2>2. RefusedOK'
      BY <1>0, <2>1 DEF RefusedOK, Img!SequenceBytes
    <2>3. QED  BY <1>0, <1>4, <2>2, Onwards
  <1>5. QED  BY <1>3, <1>4

LEMMA SequenceStep ==
    ASSUME Img!CutAssumption, Img!ImagesAssumption, ImageInv, ~image.thor, Img!RequestSequenceFlash
    PROVE  ImageInv'
  <1>0. /\ image \in Images /\ image.size \in Nat /\ LegacyInv /\ Numbers /\ i \in Nat
        /\ step = "sequence" /\ step' = "part" /\ j' = 0
        /\ announced' = Img!Aligned(Img!RealSize) /\ buffer' = <<>>
        /\ UNCHANGED <<image, i, total_sent, index, flashed, last>>
    BY ImageType DEF ImageInv, Img!RequestSequenceFlash, Numbers
  <1>1. i < Img!Sequences64 /\ total_sent = Start /\ ~last
    BY <1>0 DEF LegacyInv
  <1>2. UNCHANGED <<Start, Img!Sequences64, Img!RealSize>>
    BY <1>0 DEF Start, Img!SequenceBytes, Img!Sequences64, Img!RealSize, Img!IsLast, Img!LastSequence
  <1>3. announced' = Img!Aligned(Img!RealSize)'
    BY <1>0, <1>2 DEF Img!Aligned
  <1>5. /\ announced' \in Nat /\ announced' % Packet = 0 /\ announced' <= Packet * Count
        /\ Img!Parts' \in Nat
    BY <1>0, <1>1, PartFacts DEF Img!Parts
  <1>6. 0 * Packet = 0 /\ Packet \in Nat \ {0}
    BY Cuts
  <1>7. Start \in Nat /\ Img!RealSize \in Nat \ {0}
    BY <1>0, <1>1, SequenceFacts
  <1>8. SequenceOK'
    <2>1. total_sent' = Start' + Smaller(j' * Packet, Img!RealSize')
      BY <1>0, <1>1, <1>2, <1>6, <1>7 DEF Smaller
    <2>2. buffer' = [k \in 1..(j' * Packet) |-> IF k <= Img!RealSize' THEN Start' + k - 1 ELSE Img!Pad]
      BY <1>0, <1>6
    <2>3. j' <= Img!Parts'
      BY <1>0, <1>5
    <2>4. QED  BY <1>3, <2>1, <2>2, <2>3 DEF SequenceOK
  <1>9. Numbers'
    BY <1>0, <1>5 DEF Numbers
  <1>10. LegacyInv'
    BY <1>0, <1>1, <1>2, <1>8 DEF LegacyInv, Done, Img!Span
  <1>11. QED  BY <1>0, <1>9, <1>10 DEF ImageInv, RefusedOK

LEMMA PartStep ==
    ASSUME Img!CutAssumption, Img!ImagesAssumption, ImageInv, ~image.thor, Img!SendFilePart
    PROVE  ImageInv'
  <1> DEFINE m == j * Packet
             t == Img!ToRead
             R == Img!RealSize
             st == Start
  <1>0. /\ image \in Images /\ image.size \in Nat /\ image.stream \in Nat
        /\ LegacyInv /\ Numbers /\ RefusedOK /\ i \in Nat /\ j \in Nat /\ index \in Nat
        /\ step = "part" /\ j < Img!Parts /\ total_sent + t <= image.stream
        /\ buffer' = buffer \o Img!Span(total_sent, t) \o Img!Filler(t)
        /\ total_sent' = total_sent + t /\ j' = j + 1 /\ index' = index + 1
        /\ UNCHANGED <<image, step, i, announced, flashed, last>>
    BY ImageType DEF ImageInv, Img!SendFilePart, Numbers, Img!StreamHas
  <1>1. i < Img!Sequences64 /\ SequenceOK /\ ~last
    BY <1>0 DEF LegacyInv
  <1>2. UNCHANGED <<Start, Img!Sequences64, Img!RealSize, Img!Parts>> /\ Img!Aligned(Img!RealSize)' = Img!Aligned(Img!RealSize)
    BY <1>0 DEF Start, Img!SequenceBytes, Img!Sequences64, Img!RealSize, Img!IsLast, Img!LastSequence, Img!Parts, Img!Aligned
  <1>3. /\ st \in Nat /\ R \in Nat /\ Packet \in Nat \ {0}
        /\ Img!IsLast => st + R = image.size
        /\ ~Img!IsLast => R % Packet = 0 /\ st + R <= image.size
    BY <1>0, <1>1, SequenceFacts, Cuts
  <1>4. /\ m < R /\ m \in Nat /\ (j + 1) * Packet <= announced /\ (j + 1) * Packet = m + Packet
        /\ R % Packet = 0 => announced = R
        /\ announced \in Nat /\ Img!Parts \in Nat
    <2>1. m < R /\ (j + 1) * Packet <= announced /\ (R % Packet = 0 => announced = R)
          /\ announced \in Nat /\ Img!Parts \in Nat
      BY <1>0, <1>1, PartFacts DEF SequenceOK, Img!Parts
    <2>2. m \in Nat /\ (j + 1) * Packet = m + Packet
      BY <1>0, <1>3
    <2>3. QED  BY <2>1, <2>2
  <1>5. total_sent = st + m /\ buffer = Padded(st, R, m)
    <2>1. Smaller(m, R) = m
      BY <1>3, <1>4 DEF Smaller
    <2>2. QED  BY <1>1, <2>1 DEF SequenceOK, Padded
  <1>6. t = (IF image.size - total_sent < Packet THEN image.size - total_sent ELSE Packet)
    BY DEF Img!ToRead
  <1>x. R % Packet = 0 => m + Packet <= R
    BY <1>4
  <1>y. m < R /\ m \in Nat /\ st \in Nat /\ R \in Nat /\ Packet \in Nat \ {0}
    BY <1>3, <1>4
  <1> HIDE DEF m, t, R, st
  <1>7. t \in Nat /\ t <= Packet /\ m + t <= R /\ (t < Packet => m + t = R)
    <2>1. CASE Img!IsLast
      <3>1. image.size - total_sent = R - m
        BY <1>0, <1>3, <1>5, <1>y, <2>1
      <3>2. QED  BY <1>6, <1>y, <3>1
    <2>2. CASE ~Img!IsLast
      <3>1. image.size - total_sent >= Packet
        BY <1>0, <1>3, <1>5, <1>x, <1>y, <2>2
      <3>2. t = Packet
        BY <1>0, <1>5, <1>6, <1>y, <3>1
      <3>3. QED  BY <1>3, <1>x, <1>y, <2>2, <3>2
    <2>3. QED  BY <2>1, <2>2
  <1>8. buffer' = Padded(st, R, m + Packet)
    <2>1. buffer' = Padded(st, R, m) \o Img!Span(st + m, t) \o Img!Filler(t)
      BY <1>0, <1>5
    <2>2. /\ Packet \in Nat /\ t \in Nat /\ t <= Packet
          /\ m + t <= R /\ (t < Packet => m + t = R)
      BY <1>7, <1>y
    <2>3. Padded(st, R, m) \o Img!Span(st + m, t) \o Img!Filler(t) = Padded(st, R, m + Packet)
      BY <1>y, <2>2, PartAppended
    <2>4. QED  BY <2>1, <2>3
  <1>9. total_sent' = st + Smaller(m + Packet, R)
    BY <1>0, <1>3, <1>4, <1>5, <1>7 DEF Smaller
  <1>10. j' * Packet = m + Packet /\ j' \in Nat /\ j' <= Img!Parts
    BY <1>0, <1>4
  <1>11. SequenceOK'
    <2>1. announced' = Img!Aligned(Img!RealSize)' /\ Start' = st /\ Img!RealSize' = R /\ Img!Parts' = Img!Parts
      BY <1>0, <1>1, <1>2 DEF SequenceOK, st, R
    <2>2. buffer' = [k \in 1..(j' * Packet) |-> IF k <= R THEN st + k - 1 ELSE Img!Pad]
      BY <1>8, <1>10 DEF Padded
    <2>3. QED  BY <1>9, <1>10, <2>1, <2>2 DEF SequenceOK
  <1>12. Numbers'
    <2>1. buffer' \in Seq(Int) /\ Len(buffer') = m + Packet
      BY <1>3, <1>4, <1>8, PaddedType
    <2>2. total_sent \in Nat
      BY <1>0 DEF Numbers
    <2>3. QED  BY <1>0, <1>4, <1>7, <1>10, <2>1, <2>2 DEF Numbers
  <1>13. LegacyInv'
    BY <1>0, <1>1, <1>2, <1>11 DEF LegacyInv, Done, Img!Span
  <1>14. QED  BY <1>0, <1>12, <1>13 DEF ImageInv, RefusedOK

LEMMA EndStep ==
    ASSUME Img!CutAssumption, Img!ImagesAssumption, ImageInv, ~image.thor, Img!EndSequenceFlash
    PROVE  ImageInv' /\ Len(buffer) = announced /\ announced = j * Packet
  <1> DEFINE R == Img!RealSize
             st == Start
  <1>0. /\ image \in Images /\ image.size \in Nat
        /\ LegacyInv /\ Numbers /\ RefusedOK /\ i \in Nat
        /\ step = "part" /\ j = Img!Parts
        /\ flashed' = flashed \o SubSeq(buffer, 1, R)
        /\ last' = Img!IsLast /\ i' = i + 1 /\ step' = (IF Img!IsLast THEN "reset" ELSE "sequence")
        /\ UNCHANGED <<image, j, total_sent, index, announced, buffer>>
    BY ImageType DEF ImageInv, Img!EndSequenceFlash, Numbers
  <1>1. i < Img!Sequences64 /\ SequenceOK /\ ~last
    BY <1>0 DEF LegacyInv
  <1>2. /\ st \in Nat /\ R \in Nat
        /\ Img!IsLast => st + R = image.size
        /\ ~Img!IsLast => st + R = (i + 1) * Img!SequenceBytes /\ i + 1 < Img!Sequences64
    BY <1>0, <1>1, SequenceFacts
  <1>3. announced \in Nat /\ R <= announced /\ j * Packet = announced
    BY <1>0, <1>1, PartFacts DEF SequenceOK, Img!Parts
  <1>4. buffer = Padded(st, R, announced)
    BY <1>1, <1>3 DEF SequenceOK, Padded
  <1>5. Smaller(j * Packet, R) = R
    BY <1>2, <1>3 DEF Smaller
  <1>6. total_sent = st + R
    BY <1>1, <1>5 DEF SequenceOK
  <1> HIDE DEF R, st
  <1>7. Len(buffer) = announced
    BY <1>2, <1>3, <1>4, PaddedType
  <1>8. flashed = Img!Span(0, st)
    BY <1>0, <1>1 DEF LegacyInv, st
  <1>9. flashed' = Img!Span(0, st + R)
    BY <1>0, <1>2, <1>3, <1>4, <1>8, SequenceAppended
  <1>10. UNCHANGED <<Img!Sequences64, Img!SequenceBytes>> /\ Start' = (i + 1) * Img!SequenceBytes
    BY <1>0 DEF Start, Img!SequenceBytes, Img!Sequences64
  <1>11. LegacyInv'
    <2>1. CASE Img!IsLast
      <3>1. last' /\ last' \in BOOLEAN /\ step' = "reset" /\ i' > 0 /\ total_sent' = image'.size
        <4>1. last' = (i + 1 = Img!Sequences64) /\ i + 1 = Img!Sequences64
          BY <1>0, <2>1 DEF Img!IsLast
        <4>2. last' = TRUE
          BY <4>1
        <4>3. step' = "reset" /\ i' > 0 /\ total_sent' = image'.size
          BY <1>0, <1>2, <1>6, <2>1
        <4>4. QED  BY <4>2, <4>3
      <3>2. flashed' = Img!Span(0, image'.size)
        BY <1>0, <1>2, <1>9, <2>1
      <3>3. (IF last' THEN image'.size ELSE Start') = image'.size
        BY <3>1
      <3>4. flashed' = Img!Span(0, IF last THEN image.size ELSE Start)'
        BY <3>2, <3>3 DEF Img!Span
      <3>5. QED  BY <3>1, <3>4 DEF LegacyInv, Done
    <2>2. CASE ~Img!IsLast
      <3>1. ~last' /\ last' \in BOOLEAN /\ step' = "sequence" /\ i' = i + 1
        BY <1>0, <2>2 DEF Img!IsLast
      <3>2. st + R = Start' /\ i + 1 < Img!Sequences64' /\ total_sent' = Start'
        BY <1>0, <1>2, <1>6, <1>10, <2>2
      <3>3. (IF last' THEN image'.size ELSE Start') = Start'
        BY <3>1
      <3>4. flashed' = Img!Span(0, IF last THEN image.size ELSE Start)'
        BY <1>9, <3>2, <3>3 DEF Img!Span
      <3>5. QED  BY <3>1, <3>2, <3>4 DEF LegacyInv, Done
    <2>3. QED  BY <2>1, <2>2
  <1>12. Numbers'
    BY <1>0 DEF Numbers
  <1>13. RefusedOK'
    BY <1>0 DEF RefusedOK
  <1>14. QED  BY <1>0, <1>3, <1>7, <1>11, <1>12, <1>13 DEF ImageInv

LEMMA ResetStep ==
    ASSUME ImageInv, ~image.thor, Img!ResetFlashCount
    PROVE  ImageInv'
  <1>0. LegacyInv /\ Numbers /\ step = "reset" /\ step' = "true" /\ UNCHANGED <<image, Img!host, Img!dev>>
    BY DEF ImageInv, Img!ResetFlashCount
  <1>1. LegacyInv'
    BY <1>0 DEF LegacyInv, Done, Img!host, Img!dev, Img!Span, Start, Img!SequenceBytes, Img!Sequences64
  <1>2. Numbers' /\ RefusedOK'
    BY <1>0 DEF Numbers, RefusedOK, Img!host, Img!dev
  <1>3. QED  BY <1>0, <1>1, <1>2 DEF ImageInv

\* Which protocol a step is of.
LEMMA OfThor ==
    ASSUME ImageInv, image.thor
    PROVE  ~(Img!RequestFileFlash \/ Img!RequestSequenceFlash \/ Img!SendFilePart \/ Img!EndSequenceFlash \/ Img!ResetFlashCount)
  BY DEF ImageInv, ThorInv, Img!RequestFileFlash, Img!RequestSequenceFlash, Img!SendFilePart,
     Img!EndSequenceFlash, Img!ResetFlashCount

LEMMA OfLegacy ==
    ASSUME ImageInv, ~image.thor
    PROVE  ~(Img!SendFilePartHeader \/ Img!SendFilePartChunk \/ Img!ChunksDone)
  BY DEF ImageInv, LegacyInv, Img!SendFilePartHeader, Img!SendFilePartChunk, Img!ChunksDone

LEMMA ImageStep ==
    ASSUME Img!CutAssumption, Img!ImagesAssumption, ImageInv, [Img!Next]_(Img!vars)
    PROVE  /\ ImageInv'
           /\ i' = i + 1 => Len(buffer) = announced /\ announced = j * Packet
  <1>0. i \in Nat /\ i # i + 1
    BY DEF ImageInv, Numbers
  <1>1. CASE Img!ExchangeFails
    BY <1>0, <1>1, Onwards DEF Img!ExchangeFails, Img!host
  <1>2. CASE Img!StreamEnds
    <2>1. step' = "refused" /\ UNCHANGED <<image, Img!host, Img!dev>>
      BY <1>2 DEF Img!StreamEnds
    <2>2. RefusedOK'
      BY <1>2, <2>1, ShortFile DEF RefusedOK
    <2>3. QED  BY <1>0, <2>1, <2>2, Onwards DEF Img!host
  <1>3. CASE UNCHANGED Img!vars
    BY <1>0, <1>3, Onwards DEF Img!vars, Img!host, Img!dev, ImageInv, RefusedOK, Img!SequenceBytes
  <1>4. CASE image.thor /\ (Img!SendFilePartHeader \/ Img!SendFilePartChunk \/ Img!ChunksDone)
    BY <1>0, <1>4, ThorStep DEF Img!SendFilePartHeader, Img!SendFilePartChunk, Img!ChunksDone, Img!host
  <1>5. CASE ~image.thor /\ Img!RequestFileFlash
    BY <1>0, <1>5, RequestStep DEF Img!RequestFileFlash, Img!host
  <1>6. CASE ~image.thor /\ Img!RequestSequenceFlash
    BY <1>0, <1>6, SequenceStep DEF Img!RequestSequenceFlash
  <1>7. CASE ~image.thor /\ Img!SendFilePart
    BY <1>0, <1>7, PartStep DEF Img!SendFilePart
  <1>8. CASE ~image.thor /\ Img!EndSequenceFlash
    BY <1>8, EndStep
  <1>9. CASE ~image.thor /\ Img!ResetFlashCount
    BY <1>0, <1>9, ResetStep DEF Img!ResetFlashCount, Img!host
  <1>10. QED
    BY <1>1, <1>2, <1>3, <1>4, <1>5, <1>6, <1>7, <1>8, <1>9, OfThor, OfLegacy DEF Img!Next

\* The inductive invariant holds, whatever the image and however it is cut.
LEMMA ImageInvariant ==
    ASSUME Img!CutAssumption, Img!ImagesAssumption
    PROVE  AnySpec => []ImageInv
  <1>1. AnyInit => ImageInv
    BY InitImage DEF AnyInit
  <1>2. ImageInv /\ [Img!Next]_(Img!vars) => ImageInv'
    BY ImageStep
  <1>3. QED  BY <1>1, <1>2, PartSteps, PTL DEF AnySpec

-----------------------------------------------------------------------------
(* What it is good for.                                                    *)

\* How much of the image the device has.
LEMMA HowMuch ==
    ASSUME Img!CutAssumption, Img!ImagesAssumption, ImageInv
    PROVE  \E n \in 0..image.size :
              /\ flashed = Img!Span(0, n) /\ Len(flashed) = n
              /\ step = "true" => n = image.size
              /\ last <=> ~image.thor /\ n = image.size /\ i > 0
  <1>0. /\ image.size \in Nat /\ image.stream \in Nat /\ image.stream <= image.size
        /\ image.thor \in BOOLEAN /\ total_sent \in 0..image.stream /\ i \in Nat
        /\ Img!SequenceBytes \in Nat
    BY ImageType, Cuts DEF ImageInv, Numbers
  <1>1. CASE image.thor
    <2>1. /\ flashed = Img!Span(0, total_sent) /\ ~last /\ (step = "true" => total_sent = image.size)
      BY <1>1 DEF ImageInv, ThorInv
    <2>2. total_sent \in 0..image.size /\ Len(flashed) = total_sent
      <3>1. total_sent \in Nat /\ total_sent \in 0..image.size
        BY <1>0
      <3>2. QED  BY <2>1, <3>1, ZeroSpan
    <2>3. QED  BY <1>1, <2>1, <2>2
  <1>2. CASE ~image.thor
    <2>1. LegacyInv
      BY <1>2 DEF ImageInv
    <2>2. CASE last
      <3>1. flashed = Img!Span(0, image.size) /\ i > 0
        BY <2>1, <2>2 DEF LegacyInv
      <3>2. Len(flashed) = image.size /\ image.size \in 0..image.size
        BY <1>0, <3>1, ZeroSpan
      <3>3. QED  BY <1>2, <2>2, <3>1, <3>2
    <2>3. CASE ~last
      <3>1. flashed = Img!Span(0, Start) /\ step # "true" /\ (i > 0 => i < Img!Sequences64)
        BY <2>1, <2>3 DEF LegacyInv, Done
      <3>2. Start \in Nat
        BY <1>0, Product DEF Start
      <3>3. i > 0 => Start < image.size
        BY <1>0, <3>1, SequencesCover DEF Start
      <3>4. i = 0 => Start = 0
        BY <1>0 DEF Start
      <3>5. Start \in 0..image.size /\ Len(flashed) = Start
        BY <1>0, <3>1, <3>2, <3>3, <3>4, ZeroSpan
      <3>6. QED  BY <1>0, <2>3, <3>1, <3>2, <3>3, <3>5
    <2>4. QED  BY <2>2, <2>3
  <1>3. QED  BY <1>1, <1>2

\* What the device has put together is the beginning of the image, wherever
\* sequences and parts are cut.
THEOREM PrefixFlashed ==
    ASSUME Img!CutAssumption, Img!ImagesAssumption
    PROVE  AnySpec => []Img!FlashedIsPrefix
  <1>1. ImageInv => Img!FlashedIsPrefix
    BY HowMuch DEF Img!FlashedIsPrefix
  <1>2. QED  BY <1>1, ImageInvariant, PTL

\* The device is told of the end of an image exactly when it holds all of it.
THEOREM LastIsWhole ==
    ASSUME Img!CutAssumption, Img!ImagesAssumption
    PROVE  AnySpec => []Img!LastMeansWhole
  <1>1. ImageInv => Img!LastMeansWhole
    BY HowMuch DEF Img!LastMeansWhole
  <1>2. QED  BY <1>1, ImageInvariant, PTL

\* A sequence is ended with what was announced for it, in whole packets.
THEOREM AnnouncedArrives ==
    ASSUME Img!CutAssumption, Img!ImagesAssumption
    PROVE  AnySpec => Img!AnnouncedIsSent
  <1>1. ImageInv /\ [Img!Next]_(Img!vars) =>
            [i' = i + 1 => Len(buffer) = announced /\ announced = j * Packet]_(Img!vars)
    BY ImageStep
  <1>2. QED  BY <1>1, ImageInvariant, PartSteps, PTL DEF AnySpec, Img!AnnouncedIsSent

\* True is returned for whole images only, and an image is refused without a
\* failing exchange only if its file is too short or the protocol cannot carry it.
THEOREM ResultsAreExact ==
    ASSUME Img!CutAssumption, Img!ImagesAssumption
    PROVE  AnySpec => []Img!ResultExact
  <1>1. ImageInv => Img!ResultExact
    BY HowMuch DEF Img!ResultExact, ImageInv, RefusedOK
  <1>2. QED  BY <1>1, ImageInvariant, PTL

\* The counters of a transfer keep their ranges.
THEOREM ImageTypes ==
    ASSUME Img!CutAssumption, Img!ImagesAssumption
    PROVE  AnySpec => []Img!TypeOK
  <1>1. ImageInv => Img!TypeOK
    <2> SUFFICES ASSUME ImageInv PROVE Img!TypeOK
      OBVIOUS
    <2>1. Len(flashed) <= image.size
      BY HowMuch, ImageType DEF ImageInv
    <2>2. step \in {"request", "sequence", "part", "reset", "header", "chunk", "true", "false", "refused"}
      BY DEF ImageInv, ThorInv, LegacyInv
    <2>3. QED  BY <2>1, <2>2 DEF ImageInv, Numbers, Img!TypeOK
  <1>2. QED  BY <1>1, ImageInvariant, PTL

\* What the device puts together is the beginning of the image and, once the end is
\* told, all of it; each sequence has what was announced; true means the whole image.
THEOREM ImagesArrive ==
    ASSUME Img!CutAssumption, Img!ImagesAssumption
    PROVE  AnySpec => ImageArrives
  BY PrefixFlashed, LastIsWhole, AnnouncedArrives, ResultsAreExact, ImageTypes, PTL DEF ImageArrives
=============================================================================
