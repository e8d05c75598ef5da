---------------------------- MODULE DeviceReadsProofs ---------------------------
(***************************************************************************)
(* receive_packet and bulk_read_once return a reply from its first byte on,*)
(* for every size of read, reply and packet and every number of retries.   *)
(* request_pit brings the PIT whole and parse_pit_bytes uses it only when  *)
(* it is in order, for every size of the PIT, of its blocks and entries,   *)
(* and whatever the table says of itself.                                  *)
(***************************************************************************)
EXTENDS DeviceReads, SequenceTheorems, TLAPS

-----------------------------------------------------------------------------
(* Single replies: the inductive invariant of BulkRead.                    *)

\* The buffer holds the bytes taken last; what lies before them is lost.
Window ==
    /\ received <= taken
    /\ \A m \in 1..received : data[m] = taken - received + m

\* A reply of one packet is taken whole or not at all.
OnePacket ==
    call.size <= MaxPacket =>
        /\ taken = 0 \/ taken = call.length
        /\ received = 0 \/ received = taken

\* What a read that returned true has.
Returned == pc = "true" => call.min <= received \/ call.once

ReadInv == TypeOK /\ Window /\ OnePacket /\ Returned

-----------------------------------------------------------------------------

\* What the reads are.
LEMMA CallType ==
    ASSUME call \in Reads
    PROVE  /\ call.size \in Nat \ {0} /\ call.min \in Nat \ {0} /\ call.length \in Nat
           /\ call.override \in BOOLEAN /\ call.once \in BOOLEAN
           /\ call.min <= call.size /\ call.length <= call.size
           /\ call.min < call.size \/ call.once => call.size <= MaxPacket
  BY ReadsAssumption

\* Up to one packet there are no full packets but that one.
LEMMA OneOrNone ==
    ASSUME NEW n \in Nat, n <= MaxPacket, n % MaxPacket = 0
    PROVE  n = 0 \/ n = MaxPacket
  <1>1. MaxPacket \in Nat \ {0}
    BY PacketAssumption
  <1>2. CASE n = MaxPacket
    BY <1>2
  <1>3. CASE n < MaxPacket
    <2>1. n % MaxPacket = n
      BY <1>1, <1>3
    <2> QED
      BY <2>1
  <1> QED
    BY <1>1, <1>2, <1>3

LEMMA InitRead == Init => ReadInv
  <1> SUFFICES ASSUME Init PROVE ReadInv
    OBVIOUS
  <1>1. call \in Reads /\ pc = "transfer" /\ attempt = 0 /\ received = 0 /\ arrived = 0 /\ taken = 0
        /\ data = [m \in 1..call.size |-> 0]
    BY DEF Init
  <1>2. call.size \in Nat \ {0} /\ call.length \in Nat
    BY <1>1, CallType
  <1>3. TypeOK
    BY <1>1, <1>2, RetriesAssumption DEF TypeOK
  <1> QED
    BY <1>1, <1>3 DEF ReadInv, Window, OnePacket, Returned

\* Bytes are stored behind those this attempt has.
LEMMA StoreKeeps ==
    ASSUME ReadInv, NEW n \in Chunks, Store(n), UNCHANGED <<call, attempt, arrived>>
    PROVE  /\ received' = received + n /\ received' \in 0..call.size
           /\ taken' \in 0..arrived
           /\ data' \in [1..call.size -> Nat]
           /\ Window' /\ OnePacket'
  <1>1. /\ call.size \in Nat \ {0} /\ call.length \in Nat /\ call.length <= call.size
        /\ received \in 0..call.size /\ arrived \in 0..call.length /\ taken \in 0..arrived
        /\ data \in [1..call.size -> Nat]
    BY CallType DEF ReadInv, TypeOK
  <1>2. n \in Nat /\ n <= call.size - received /\ n <= arrived - taken
        /\ (n % MaxPacket = 0 \/ taken + n = call.length)
    BY <1>1 DEF Chunks, MinOf, Remaining
  <1>3. received' = received + n /\ taken' = taken + n
        /\ data' = [m \in 1..call.size |->
                       IF m \in (received + 1)..(received + n) THEN taken + m - received ELSE data[m]]
    BY DEF Store
  <1>4. received' \in 0..call.size /\ taken' \in 0..arrived
    BY <1>1, <1>2, <1>3
  <1>5. data' \in [1..call.size -> Nat]
    <2>1. \A m \in 1..call.size : data'[m] \in Nat
      BY <1>1, <1>2, <1>3
    <2> QED
      BY <1>3, <2>1
  <1>6. Window'
    <2>1. received <= taken /\ \A m \in 1..received : data[m] = taken - received + m
      BY DEF ReadInv, Window
    <2>2. ASSUME NEW m \in 1..received' PROVE data'[m] = taken' - received' + m
      <3>1. m \in 1..call.size
        BY <1>1, <1>4
      <3>2. CASE m \in (received + 1)..(received + n)
        BY <1>1, <1>2, <1>3, <3>1, <3>2
      <3>3. CASE m \in 1..received
        BY <1>1, <1>2, <1>3, <2>1, <3>1, <3>3
      <3> QED
        BY <1>1, <1>2, <1>3, <3>2, <3>3
    <2> QED
      BY <1>1, <1>2, <1>3, <2>1, <2>2 DEF Window
  <1>7. OnePacket'
    <2> SUFFICES ASSUME call.size <= MaxPacket
                 PROVE  /\ taken' = 0 \/ taken' = call.length
                        /\ received' = 0 \/ received' = taken'
      BY DEF OnePacket
    <2>0. MaxPacket \in Nat \ {0}
      BY PacketAssumption
    <2>1. taken = 0 \/ taken = call.length
      BY DEF ReadInv, OnePacket
    <2>2. received = 0 \/ received = taken
      BY DEF ReadInv, OnePacket
    <2>3. n = 0 \/ taken + n = call.length
      <3>1. CASE n % MaxPacket = 0
        <4>1. n = 0 \/ n = MaxPacket
          BY <1>1, <1>2, <2>0, <3>1, OneOrNone
        <4> QED
          BY <1>1, <1>2, <2>0, <4>1
      <3> QED
        BY <1>2, <3>1
    <2> QED
      BY <1>1, <1>2, <1>3, <2>1, <2>2, <2>3
  <1> QED
    BY <1>3, <1>4, <1>5, <1>6, <1>7

LEMMA StepRead == ReadInv /\ [Next]_vars => ReadInv'
  <1> SUFFICES ASSUME ReadInv, [Next]_vars PROVE ReadInv'
    OBVIOUS
  <1>0. /\ call \in Reads /\ call.size \in Nat \ {0} /\ call.length \in Nat
        /\ pc \in {"transfer", "attempt", "true", "false"}
        /\ received \in 0..call.size /\ arrived \in 0..call.length /\ taken \in 0..arrived
        /\ data \in [1..call.size -> Nat] /\ attempt \in 0..(Retries - 1)
        /\ Retries \in Nat \ {0}
    BY CallType, RetriesAssumption DEF ReadInv, TypeOK
  <1>1. CASE TransferOk
    <2>1. PICK n \in Chunks :
            /\ Store(n)
            /\ pc' = IF n = 0 \/ Enough(received + n) THEN "attempt" ELSE "transfer"
      BY <1>1 DEF TransferOk
    <2>2. UNCHANGED <<call, attempt, arrived>> /\ pc' \in {"attempt", "transfer"}
      BY <1>1, <2>1 DEF TransferOk
    <2>3. /\ received' \in 0..call.size /\ taken' \in 0..arrived
          /\ data' \in [1..call.size -> Nat] /\ Window' /\ OnePacket'
      BY <2>1, <2>2, StoreKeeps
    <2> QED
      BY <1>0, <2>2, <2>3 DEF ReadInv, TypeOK, Returned
  <1>2. CASE OnceOk
    <2>1. PICK n \in Chunks : Store(n)
      BY <1>2 DEF OnceOk
    <2>2. UNCHANGED <<call, attempt, arrived>> /\ pc' = "true" /\ call.once
      BY <1>2 DEF OnceOk
    <2>3. /\ received' \in 0..call.size /\ taken' \in 0..arrived
          /\ data' \in [1..call.size -> Nat] /\ Window' /\ OnePacket'
      BY <2>1, <2>2, StoreKeeps
    <2> QED
      BY <1>0, <2>2, <2>3 DEF ReadInv, TypeOK, Returned
  <1>3. ASSUME NEW err \in Errors, TransferFails(err) PROVE ReadInv'
    <2>1. PICK n \in Chunks : Store(n)
      BY <1>3 DEF TransferFails
    <2>2. UNCHANGED <<call, attempt, arrived>> /\ pc' \in {"attempt", "false"}
      BY <1>3 DEF TransferFails
    <2>3. /\ received' \in 0..call.size /\ taken' \in 0..arrived
          /\ data' \in [1..call.size -> Nat] /\ Window' /\ OnePacket'
      BY <2>1, <2>2, StoreKeeps
    <2> QED
      BY <1>0, <2>2, <2>3 DEF ReadInv, TypeOK, Returned
  <1>4. CASE Accept
    <2>1. call.min <= received
      BY <1>0, <1>4, CallType DEF Accept, Enough
    <2>2. pc' = "true" /\ UNCHANGED <<call, attempt, received, data, arrived, taken>>
      BY <1>4 DEF Accept
    <2> QED
      BY <1>0, <2>1, <2>2 DEF ReadInv, TypeOK, Window, OnePacket, Returned
  <1>5. CASE Retry
    <2>1. UNCHANGED <<call, data, arrived, taken>>
      BY <1>5 DEF Retry
    <2>2. CASE pc' = "transfer" /\ attempt' = attempt + 1 /\ received' = 0 /\ attempt < Retries - 1
      BY <1>0, <2>1, <2>2 DEF ReadInv, TypeOK, Window, OnePacket, Returned
    <2>3. CASE pc' = "false" /\ UNCHANGED <<attempt, received>>
      BY <1>0, <2>1, <2>3 DEF ReadInv, TypeOK, Window, OnePacket, Returned
    <2> QED
      BY <1>5, <2>2, <2>3 DEF Retry
  <1>6. CASE DeviceSends
    <2>1. UNCHANGED <<call, pc, attempt, received, data, taken>>
          /\ arrived < call.length /\ arrived' = MinOf(arrived + MaxPacket, call.length)
      BY <1>6 DEF DeviceSends
    <2>2. arrived' \in 0..call.length /\ arrived <= arrived'
      BY <1>0, <2>1, PacketAssumption DEF MinOf
    <2>3. taken \in 0..arrived'
      BY <1>0, <2>2
    <2> QED
      BY <1>0, <2>1, <2>2, <2>3 DEF ReadInv, TypeOK, Window, OnePacket, Returned
  <1>7. CASE UNCHANGED vars
    BY <1>7 DEF vars, ReadInv, TypeOK, Window, OnePacket, Returned
  <1> QED
    BY <1>1, <1>2, <1>3, <1>4, <1>5, <1>6, <1>7 DEF Next, Host

\* A run is a read or a transfer of the PIT; the other stands still.
LEMMA PartSteps ==
    ASSUME [AnyNext]_all
    PROVE  [Next]_vars /\ [Pit!Next]_(Pit!vars)
  BY DEF AnyNext, Read, RequestPit, all, vars, pit_vars, Pit!vars

LEMMA ReadInvariant == AnySpec => []ReadInv
  <1>1. AnyInit => ReadInv
    BY InitRead DEF AnyInit
  <1> QED
    BY <1>1, StepRead, PartSteps, PTL DEF AnySpec

\* The variables of a read keep their types.
THEOREM ReadTypes == AnySpec => []TypeOK
  BY ReadInvariant, PTL DEF ReadInv

\* A read that returns true has the reply from its first byte on: what an attempt has
\* thrown away was the whole reply, or leaves too little for a later one to accept.
THEOREM RepliesAreWhole == AnySpec => []TrueMeansReply
  <1>1. ReadInv => TrueMeansReply
    <2> SUFFICES ASSUME ReadInv, pc = "true"
                 PROVE  /\ call.min <= received \/ call.once
                        /\ received <= call.length
                        /\ \A m \in 1..received : data[m] = m
      BY DEF TrueMeansReply
    <2>1. /\ call.size \in Nat /\ call.min \in Nat /\ call.length \in Nat
          /\ call.min <= call.size /\ call.length <= call.size
          /\ call.min < call.size \/ call.once => call.size <= MaxPacket
          /\ received \in 0..call.size /\ arrived \in 0..call.length /\ taken \in 0..arrived
      BY CallType DEF ReadInv, TypeOK
    <2>2. call.min <= received \/ call.once
      BY DEF ReadInv, Returned
    <2>3. received <= taken /\ \A m \in 1..received : data[m] = taken - received + m
      BY DEF ReadInv, Window
    <2>4. received = 0 \/ received = taken
      <3>1. CASE call.size <= MaxPacket
        BY <3>1 DEF ReadInv, OnePacket
      <3>2. CASE ~(call.size <= MaxPacket)
        BY <2>1, <2>2, <2>3, <3>2, PacketAssumption
      <3> QED
        BY <3>1, <3>2
    <2> QED
      BY <2>1, <2>2, <2>3, <2>4
  <1> QED
    BY ReadInvariant, <1>1, PTL

-----------------------------------------------------------------------------
(* The PIT: the inductive invariant of PitTransfer.                        *)

\* Every byte is at its place.
Whole == \A k \in 1..Pit!Size : pit[k] = k - 1

(***************************************************************************)
(* What has come of the bytes: by blocks, everything before the next one.  *)
(* WholePit is not inductive: it says nothing of a PIT under way.          *)
(***************************************************************************)
BytesOK ==
    /\ pit \in Seq(Int)
    /\ Pit!Size = device.size \/ (Pit!Size = 0 /\ step \in {"size", "false"})
    /\ \A k \in 1..Pit!Size : pit[k] \in {Pit!Unset, k - 1}
    /\ i \in Nat
    /\ step \notin {"size", "false"} => Pit!SizeOk
    /\ step = "size" => i = 0
    /\ step = "blocks" => i <= Pit!Blocks /\ \A k \in 1..Pit!Size : k <= i * BlockLen => pit[k] = k - 1
    /\ step \in {"end", "header", "entries", "true"} => Whole

HeaderOk == device.magic /\ device.count \in 1..MaxEntries /\ Pit!Size >= Pit!Required

\* The entries parsed are the first of the device, each in order and none with
\* the identifier of another.
EntriesOK ==
    /\ entries \in Seq(Pit!Entry)
    /\ Len(entries) <= MaxEntries
    /\ step \notin {"entries", "true", "false"} => entries = <<>>
    /\ step \in {"entries", "true"} =>
          /\ HeaderOk
          /\ Len(entries) = i /\ i <= device.count
          /\ \A k \in 1..Len(entries) :
                /\ entries[k] = device.entries[k]
                /\ entries[k].name = "ok" /\ entries[k].file # "bad" /\ entries[k].identifier # 0
    /\ step = "true" => i = device.count
    /\ Pit!IdentifiersAreUnique

Steps == {"size", "blocks", "end", "data", "header", "entries", "true", "false"}

PitInv == device \in Devices /\ step \in Steps /\ BytesOK /\ EntriesOK

USE DEF Pit!Size

-----------------------------------------------------------------------------
(* Arithmetic of blocks and entries.                                       *)

LEMMA Product == ASSUME NEW a \in Nat, NEW b \in Nat PROVE a * b \in Nat
  OBVIOUS

LEMMA ProductGrows ==
    ASSUME NEW a \in Nat, NEW b \in Nat, NEW c \in Nat, a <= b
    PROVE  a * c <= b * c
  <1>1. b = a + (b - a) /\ b - a \in Nat
    OBVIOUS
  <1>2. b * c = a * c + (b - a) * c
    BY <1>1
  <1>3. QED  BY <1>1, <1>2, Product

LEMMA ProductCancels ==
    ASSUME NEW a \in Nat, NEW b \in Nat, NEW c \in Nat, a * c < b * c
    PROVE  a < b
  <1>1. SUFFICES ASSUME b <= a PROVE FALSE
    OBVIOUS
  <1>2. QED  BY <1>1, ProductGrows, Product

LEMMA Division ==
    ASSUME NEW a \in Nat, NEW b \in Nat \ {0}
    PROVE  a = b * (a \div b) + (a % b) /\ a \div b \in Nat /\ a % b \in 0..(b - 1)
  BY SMT

\* The blocks cover the PIT, and all but the last one begin inside it.
LEMMA BlocksCover ==
    ASSUME Pit!SizesAssumption, pit \in Seq(Int)
    PROVE  /\ Pit!Blocks \in Nat
           /\ Pit!Size <= Pit!Blocks * BlockLen
           /\ \A b \in Nat : b < Pit!Blocks => b * BlockLen < Pit!Size
  <1>1. BlockLen \in Nat \ {0} /\ Pit!Size \in Nat
    BY DEF Pit!SizesAssumption
  <1> DEFINE a == Pit!Size + BlockLen - 1
             q == a \div BlockLen
             r == a % BlockLen
  <1>2. a \in Nat
    BY <1>1
  <1>3. q \in Nat /\ r \in 0..(BlockLen - 1) /\ a = BlockLen * q + r
    BY <1>1, <1>2, Division
  <1>4. Pit!Blocks = q /\ a = Pit!Size + BlockLen - 1
    BY DEF Pit!Blocks
  <1> HIDE DEF a, q, r
  <1>5. q * BlockLen \in Nat /\ BlockLen * q = q * BlockLen
    BY <1>1, <1>3
  <1>6. Pit!Size <= q * BlockLen /\ q * BlockLen <= Pit!Size + BlockLen - 1
    BY <1>1, <1>3, <1>4, <1>5
  <1>7. ASSUME NEW b \in Nat, b < q PROVE b * BlockLen < Pit!Size
    <2>1. (b + 1) * BlockLen <= q * BlockLen
      BY <1>1, <1>3, <1>7, ProductGrows
    <2>2. (b + 1) * BlockLen = b * BlockLen + BlockLen /\ b * BlockLen \in Nat
      BY <1>1, <1>7
    <2>3. QED  BY <1>1, <1>5, <1>6, <2>1, <2>2
  <1>8. QED  BY <1>3, <1>4, <1>6, <1>7

\* What the device holds.
LEMMA DeviceType ==
    ASSUME Pit!DevicesAssumption, device \in Devices
    PROVE  /\ device.thor \in BOOLEAN /\ device.magic \in BOOLEAN
           /\ device.size \in Nat /\ device.count \in Nat
           /\ device.entries \in Seq(Pit!Entry)
           /\ HeaderLen + (Len(device.entries) + 1) * EntryLen > device.size
  BY DEF Pit!DevicesAssumption

\* The bytes of an entry that the header counts have been received, so that it
\* is an entry of the device that is parsed.
LEMMA EntryReceived ==
    ASSUME Pit!SizesAssumption, Pit!DevicesAssumption, device \in Devices,
           pit \in Seq(Int), Pit!Size = device.size, Whole, HeaderOk,
           NEW k \in 1..device.count
    PROVE  /\ Pit!EntryAt(k) = device.entries[k]
           /\ k \in 1..Len(device.entries)
           /\ device.entries[k] \in Pit!Entry
  <1>1. /\ HeaderLen \in Nat /\ EntryLen \in Nat \ {0}
        /\ Pit!Size \in Nat /\ device.count \in Nat /\ k \in Nat /\ k <= device.count
    BY DeviceType DEF Pit!SizesAssumption
  <1>2. k * EntryLen <= device.count * EntryLen
    BY <1>1, ProductGrows
  <1>3. HeaderLen + device.count * EntryLen <= Pit!Size
    BY DEF HeaderOk, Pit!Required
  <1>4. (k - 1) * EntryLen \in Nat /\ k * EntryLen \in Nat /\ device.count * EntryLen \in Nat
    BY <1>1, Product
  <1>5. \A p \in (HeaderLen + (k - 1) * EntryLen)..(HeaderLen + k * EntryLen - 1) :
            p < Pit!Size /\ pit[p + 1] = p
    <2> DEFINE a == (k - 1) * EntryLen
               b == k * EntryLen
               c == device.count * EntryLen
    <2>1. a \in Nat /\ b \in Nat /\ c \in Nat /\ b <= c /\ HeaderLen + c <= Pit!Size
      BY <1>2, <1>3, <1>4
    <2> HIDE DEF a, b, c
    <2>2. \A p \in (HeaderLen + a)..(HeaderLen + b - 1) : p \in Nat /\ p < Pit!Size
      BY <1>1, <2>1
    <2>3. \A p \in (HeaderLen + a)..(HeaderLen + b - 1) : p < Pit!Size /\ pit[p + 1] = p
      BY <1>1, <2>2 DEF Whole
    <2>4. QED  BY <2>3 DEF a, b
  <1>6. Pit!EntryAt(k) = device.entries[k]
    BY <1>5 DEF Pit!EntryAt
  <1>7. k \in 1..Len(device.entries)
    <2>1. Len(device.entries) \in Nat
      BY DeviceType
    <2>2. (Len(device.entries) + 1) * EntryLen \in Nat
      BY <1>1, <2>1, Product
    <2>3. k * EntryLen < (Len(device.entries) + 1) * EntryLen
      <3> DEFINE b == k * EntryLen
                 c == device.count * EntryLen
                 d == (Len(device.entries) + 1) * EntryLen
      <3>1. /\ b \in Nat /\ c \in Nat /\ d \in Nat /\ b <= c
            /\ HeaderLen + c <= device.size /\ HeaderLen + d > device.size
        BY <1>2, <1>3, <1>4, <2>2, DeviceType
      <3> HIDE DEF b, c, d
      <3>2. b < d
        BY <1>1, <3>1
      <3>3. QED  BY <3>2 DEF b, d
    <2>4. k < Len(device.entries) + 1
      BY <1>1, <2>1, <2>3, ProductCancels
    <2>5. QED  BY <1>1, <2>1, <2>4
  <1>8. QED  BY <1>6, <1>7, DeviceType

-----------------------------------------------------------------------------
(* The invariant.                                                          *)

LEMMA PitInit ==
    ASSUME Pit!SizesAssumption, Pit!Init
    PROVE  PitInv
  <1>1. /\ device \in Devices /\ step = "size" /\ pit = <<>> /\ i = 0 /\ entries = <<>>
    BY DEF Pit!Init
  <1>2. BytesOK
    BY <1>1 DEF BytesOK
  <1>3. EntriesOK
    BY <1>1 DEF EntriesOK, Pit!IdentifiersAreUnique, Pit!SizesAssumption
  <1>4. QED  BY <1>1, <1>2, <1>3 DEF PitInv, Steps

\* Nothing received says that much of a PIT that was given up.
LEMMA GivenUp ==
    ASSUME PitInv, step' = "false", UNCHANGED <<device, pit, entries>>, i' \in Nat
    PROVE  PitInv'
  <1>1. BytesOK'
    BY DEF PitInv, BytesOK
  <1>2. EntriesOK'
    BY DEF PitInv, EntriesOK, Pit!IdentifiersAreUnique
  <1>3. QED  BY <1>1, <1>2 DEF PitInv, Steps

LEMMA BytesStep ==
    ASSUME Pit!SizesAssumption, Pit!DevicesAssumption, PitInv, [Pit!Next]_(Pit!vars)
    PROVE  device' = device /\ step' \in Steps /\ BytesOK'
  <1>0. /\ device \in Devices /\ step \in Steps /\ BytesOK
        /\ device.size \in Nat /\ Pit!Size \in Nat
    BY DeviceType DEF PitInv, BytesOK
  <1>1. CASE Pit!Fail
    BY <1>0, <1>1 DEF Pit!Fail, BytesOK, Steps
  <1>2. CASE Pit!ReceiveSize
    <2>1. CASE ~Pit!SizeOk
      BY <1>0, <1>2, <2>1 DEF Pit!ReceiveSize, BytesOK, Steps
    <2>2. CASE Pit!SizeOk
      <3> DEFINE n == device.size
      <3>1. /\ device' = device /\ i' = i /\ i = 0 /\ step' \in {"data", "blocks"}
            /\ pit' = [k \in 1..n |-> Pit!Unset]
        BY <1>0, <1>2, <2>2 DEF Pit!ReceiveSize, BytesOK
      <3>2. pit' \in Seq(Int) /\ Len(pit') = n /\ \A k \in 1..n : pit'[k] = Pit!Unset
        BY <1>0, <3>1 DEF Pit!Unset
      <3>3. Pit!SizeOk'
        BY <2>2, <3>1 DEF Pit!SizeOk, Pit!SmallestSize
      <3>4. 0 * BlockLen = 0 /\ 0 <= Pit!Blocks'
        <4>1. Pit!Blocks' \in Nat
          <5>1. BlockLen \in Nat \ {0} /\ n + BlockLen - 1 \in Nat
            BY <1>0 DEF Pit!SizesAssumption
          <5>2. QED  BY <3>2, <5>1, Division DEF Pit!Blocks
        <4>2. QED  BY <4>1 DEF Pit!SizesAssumption
      <3>5. QED  BY <1>0, <3>1, <3>2, <3>3, <3>4 DEF BytesOK, Steps
    <2>3. QED  BY <2>1, <2>2
  <1>3. CASE Pit!ReceiveData
    <2> DEFINE n == Pit!Size
    <2>1. /\ device' = device /\ i' = i /\ step = "data" /\ step' = "header"
          /\ pit' = [k \in 1..n |-> k - 1]
      BY <1>3 DEF Pit!ReceiveData
    <2>2. pit' \in Seq(Int) /\ Len(pit') = n /\ \A k \in 1..n : pit'[k] = k - 1
      BY <1>0, <2>1
    <2>3. Pit!SizeOk'
      BY <1>0, <2>1 DEF Pit!SizeOk, Pit!SmallestSize, BytesOK
    <2>4. QED  BY <1>0, <2>1, <2>2, <2>3 DEF BytesOK, Steps, Whole
  <1>4. CASE Pit!DumpBlock
    <2> DEFINE n == Pit!Size
               off == i * BlockLen
               placed == (off + 1)..(off + Pit!Copied(off))
               f(k) == IF k \in placed THEN k - 1 ELSE pit[k]
    <2>1. /\ device' = device /\ i' = i + 1 /\ step = "blocks" /\ step' = "blocks" /\ i < Pit!Blocks
          /\ pit' = [k \in 1..n \cup placed |-> f(k)]
      BY <1>4 DEF Pit!DumpBlock
    <2>2. /\ i \in Nat /\ pit \in Seq(Int) /\ BlockLen \in Nat \ {0} /\ off \in Nat /\ off < n
          /\ (i + 1) * BlockLen = off + BlockLen
      BY <1>0, <2>1, BlocksCover DEF BytesOK, Pit!SizesAssumption
    <2> HIDE DEF off
    <2>3. /\ Pit!Copied(off) \in Nat /\ off + Pit!Copied(off) <= n
          /\ Pit!Copied(off) = BlockLen \/ off + Pit!Copied(off) = n
      BY <1>0, <2>2 DEF Pit!Copied
    <2>4. 1..n \cup placed = 1..n
      BY <1>0, <2>2, <2>3
    <2>5. pit' = [k \in 1..n |-> f(k)]
      BY <2>1, <2>4
    <2>6. \A k \in 1..n : f(k) \in Int /\ f(k) \in {Pit!Unset, k - 1}
      BY <1>0 DEF BytesOK, Pit!Unset
    <2>7. pit' \in Seq(Int) /\ Len(pit') = n /\ \A k \in 1..n : pit'[k] = f(k)
      <3> HIDE DEF f, n
      <3>1. QED  BY <1>0, <2>5, <2>6 DEF n
    <2>8. \A k \in 1..n : k <= off + BlockLen => f(k) = k - 1
      <3>1. TAKE k \in 1..n
      <3>2. CASE k <= off
        BY <1>0, <2>1, <3>2 DEF BytesOK, off
      <3>3. CASE k > off /\ k <= off + BlockLen
        BY <1>0, <2>2, <2>3, <3>3
      <3>4. QED  BY <1>0, <2>2, <3>2, <3>3
    <2>9. Pit!SizeOk' /\ Pit!Blocks' = Pit!Blocks /\ i' <= Pit!Blocks'
      <3>1. Pit!SizeOk'
        BY <1>0, <2>1 DEF Pit!SizeOk, Pit!SmallestSize, BytesOK
      <3>2. Pit!Blocks' = Pit!Blocks
        BY <2>7 DEF Pit!Blocks
      <3>3. Pit!Blocks \in Nat
        BY <2>2, BlocksCover
      <3>4. QED  BY <2>1, <2>2, <3>1, <3>2, <3>3
    <2>10. \A k \in 1..n : k <= i' * BlockLen => pit'[k] = k - 1
      <3>1. i' * BlockLen = off + BlockLen
        BY <2>1, <2>2
      <3>2. QED  BY <2>7, <2>8, <3>1
    <2>11. \A k \in 1..n : pit'[k] \in {Pit!Unset, k - 1}
      BY <2>6, <2>7
    <2>12. n = device.size
      BY <1>0, <2>1 DEF BytesOK
    <2> HIDE DEF n, placed, f
    <2>13. /\ pit' \in Seq(Int) /\ Pit!Size' = device.size' /\ i' \in Nat
           /\ \A k \in 1..Pit!Size' : pit'[k] \in {Pit!Unset, k - 1}
      <3>1. pit' \in Seq(Int) /\ Pit!Size' = n /\ device.size' = n
        BY <2>1, <2>7, <2>12
      <3>2. i' \in Nat
        BY <2>1, <2>2
      <3>3. \A k \in 1..Pit!Size' : pit'[k] \in {Pit!Unset, k - 1}
        BY <2>11, <3>1
      <3>4. QED  BY <3>1, <3>2, <3>3
    <2>14. \A k \in 1..Pit!Size' : k <= i' * BlockLen => pit'[k] = k - 1
      BY <2>7, <2>10
    <2>15. QED  BY <2>1, <2>9, <2>13, <2>14 DEF BytesOK, Steps
  <1>5. CASE Pit!BlocksDone
    <2>1. UNCHANGED <<device, pit, i, entries>> /\ step = "blocks" /\ i = Pit!Blocks /\ step' = "end"
      BY <1>5 DEF Pit!BlocksDone
    <2>2. Whole
      <3>1. Pit!Size <= i * BlockLen
        BY <1>0, <2>1, BlocksCover DEF BytesOK
      <3>2. i * BlockLen \in Nat
        BY <1>0, Product DEF BytesOK, Pit!SizesAssumption
      <3>3. QED  BY <1>0, <2>1, <3>1, <3>2 DEF BytesOK, Whole
    <2>3. QED  BY <1>0, <2>1, <2>2 DEF BytesOK, Steps, Whole, Pit!SizeOk, Pit!SmallestSize
  <1>6. CASE Pit!EndDump
    BY <1>0, <1>6 DEF Pit!EndDump, BytesOK, Steps, Whole, Pit!SizeOk, Pit!SmallestSize
  <1>7. CASE Pit!ParseHeader
    BY <1>0, <1>7 DEF Pit!ParseHeader, BytesOK, Steps, Whole, Pit!SizeOk, Pit!SmallestSize
  <1>8. CASE Pit!ParseEntry
    BY <1>0, <1>8 DEF Pit!ParseEntry, BytesOK, Steps, Whole, Pit!SizeOk, Pit!SmallestSize
  <1>9. CASE Pit!ParseDone
    BY <1>0, <1>9 DEF Pit!ParseDone, BytesOK, Steps, Whole, Pit!SizeOk, Pit!SmallestSize
  <1>10. CASE UNCHANGED Pit!vars
    BY <1>0, <1>10 DEF Pit!vars, BytesOK, Steps, Whole, Pit!SizeOk, Pit!SmallestSize, Pit!Blocks
  <1>11. QED
    BY <1>1, <1>2, <1>3, <1>4, <1>5, <1>6, <1>7, <1>8, <1>9, <1>10 DEF Pit!Next

LEMMA EntriesStep ==
    ASSUME Pit!SizesAssumption, Pit!DevicesAssumption, PitInv, [Pit!Next]_(Pit!vars)
    PROVE  EntriesOK'
  <1>0. /\ device \in Devices /\ step \in Steps /\ BytesOK /\ EntriesOK
        /\ device.size \in Nat /\ device.count \in Nat /\ MaxEntries \in Nat
        /\ entries \in Seq(Pit!Entry) /\ Pit!IdentifiersAreUnique
    BY DeviceType DEF PitInv, EntriesOK, Pit!SizesAssumption
  <1>1. CASE step' \notin {"entries", "true"} /\ entries' = entries /\ (step' = "false" \/ step \notin {"entries", "true", "false"})
    BY <1>0, <1>1 DEF EntriesOK, Pit!IdentifiersAreUnique
  <1>2. CASE Pit!Fail \/ Pit!ReceiveSize \/ Pit!ReceiveData \/ Pit!DumpBlock \/ Pit!BlocksDone \/ Pit!EndDump
    BY <1>1, <1>2 DEF Pit!Fail, Pit!ReceiveSize, Pit!ReceiveData, Pit!DumpBlock, Pit!BlocksDone, Pit!EndDump
  <1>3. CASE Pit!ParseHeader
    <2>1. /\ step = "header" /\ i' = 0 /\ UNCHANGED <<device, pit, entries>> /\ entries = <<>>
          /\ step' \in {"entries", "false"}
      BY <1>0, <1>3 DEF Pit!ParseHeader, EntriesOK
    <2>2. CASE step' = "false"
      BY <1>1, <2>1, <2>2
    <2>3. CASE step' = "entries"
      <3>1. HeaderOk
        BY <1>3, <2>3 DEF Pit!ParseHeader, HeaderOk
      <3>2. HeaderOk'
        BY <2>1, <3>1 DEF HeaderOk, Pit!Required
      <3>3. QED  BY <1>0, <2>1, <2>3, <3>2 DEF EntriesOK, Pit!IdentifiersAreUnique
    <2>4. QED  BY <2>1, <2>2, <2>3
  <1>4. CASE Pit!ParseEntry
    <2> DEFINE e == Pit!EntryAt(i + 1)
    <2>1. step = "entries" /\ i < device.count /\ UNCHANGED <<device, pit>>
      BY <1>4 DEF Pit!ParseEntry
    <2>2. CASE ~Pit!EntryOk(e)
      BY <1>1, <1>4, <2>2 DEF Pit!ParseEntry
    <2>3. CASE Pit!EntryOk(e)
      <3>1. entries' = Append(entries, e) /\ i' = i + 1 /\ step' = "entries"
        BY <1>4, <2>1, <2>3 DEF Pit!ParseEntry
      <3>2. /\ i \in Nat /\ pit \in Seq(Int) /\ Pit!Size = device.size /\ Whole /\ HeaderOk
            /\ Len(entries) = i
        BY <1>0, <2>1 DEF BytesOK, EntriesOK
      <3>3. e = device.entries[i + 1] /\ e \in Pit!Entry
        <4>1. i + 1 \in 1..device.count
          BY <1>0, <2>1, <3>2
        <4> HIDE DEF Pit!Size
        <4>2. QED  BY <1>0, <3>2, <4>1, EntryReceived
      <3>4. /\ e.name = "ok" /\ e.file # "bad" /\ e.identifier # 0
            /\ \A k \in 1..i : entries[k].identifier # e.identifier
        BY <2>3, <3>2 DEF Pit!EntryOk, Pit!FreshIdentifier
      <3> HIDE DEF e
      <3>5. /\ entries' \in Seq(Pit!Entry) /\ Len(entries') = i + 1
            /\ entries'[i + 1] = e /\ \A k \in 1..i : entries'[k] = entries[k]
        BY <1>0, <3>1, <3>2, <3>3
      <3>6. Pit!IdentifiersAreUnique'
        BY <1>0, <3>2, <3>4, <3>5 DEF Pit!IdentifiersAreUnique
      <3>7. HeaderOk'
        BY <2>1, <3>2 DEF HeaderOk, Pit!Required
      <3>8. \A k \in 1..(i + 1) :
                /\ entries'[k] = device.entries[k]
                /\ entries'[k].name = "ok" /\ entries'[k].file # "bad" /\ entries'[k].identifier # 0
        BY <1>0, <2>1, <3>2, <3>3, <3>4, <3>5 DEF EntriesOK
      <3>9. i + 1 <= device.count /\ i + 1 <= MaxEntries
        BY <1>0, <2>1, <3>2 DEF HeaderOk
      <3>10. QED  BY <1>0, <2>1, <3>1, <3>2, <3>5, <3>6, <3>7, <3>8, <3>9 DEF EntriesOK
    <2>4. QED  BY <2>2, <2>3
  <1>5. CASE Pit!ParseDone
    <2>1. step = "entries" /\ i = device.count /\ step' = "true" /\ UNCHANGED <<device, pit, i, entries>>
      BY <1>5 DEF Pit!ParseDone
    <2>2. QED  BY <1>0, <2>1 DEF EntriesOK, Pit!IdentifiersAreUnique, HeaderOk, Pit!Required
  <1>6. CASE UNCHANGED Pit!vars
    BY <1>0, <1>6 DEF Pit!vars, EntriesOK, Pit!IdentifiersAreUnique, HeaderOk, Pit!Required
  <1>7. QED  BY <1>2, <1>3, <1>4, <1>5, <1>6 DEF Pit!Next

\* The inductive invariant of request_pit holds for every PIT.
LEMMA PitInvariant ==
    ASSUME Pit!SizesAssumption, Pit!DevicesAssumption
    PROVE  AnySpec => []PitInv
  <1>1. AnyInit => PitInv
    BY PitInit DEF AnyInit
  <1>2. PitInv /\ [Pit!Next]_(Pit!vars) => PitInv'
    BY BytesStep, EntriesStep DEF PitInv
  <1>3. QED  BY <1>1, <1>2, PartSteps, PTL DEF AnySpec

-----------------------------------------------------------------------------
(* What it is good for.                                                    *)

\* A PIT taken as complete has every byte of the announced size at its place,
\* whether or not the last block is full.
THEOREM PitIsWhole ==
    ASSUME Pit!SizesAssumption, Pit!DevicesAssumption
    PROVE  AnySpec => []Pit!WholePit
  <1>1. PitInv => Pit!WholePit
    BY DEF PitInv, BytesOK, Pit!WholePit, Whole
  <1>2. QED  BY <1>1, PitInvariant, PTL

\* The table in use holds the device's entries, all that its header counts, and
\* none from beyond the bytes received.
THEOREM TableIsTheDevices ==
    ASSUME Pit!SizesAssumption, Pit!DevicesAssumption
    PROVE  AnySpec => []Pit!TableOfTheDevice
  <1>1. PitInv => Pit!TableOfTheDevice
    <2> SUFFICES ASSUME PitInv, step = "true"
                 PROVE  /\ entries = SubSeq(device.entries, 1, device.count)
                        /\ HeaderLen + Len(entries) * EntryLen <= device.size
      BY DEF Pit!TableOfTheDevice
    <2>1. /\ device \in Devices /\ pit \in Seq(Int) /\ Pit!Size = device.size /\ Whole /\ HeaderOk
          /\ entries \in Seq(Pit!Entry) /\ Len(entries) = device.count
          /\ \A k \in 1..Len(entries) : entries[k] = device.entries[k]
      BY DEF PitInv, BytesOK, EntriesOK
    <2>2. device.entries \in Seq(Pit!Entry) /\ device.count \in Nat
      BY <2>1, DeviceType
    <2>3. \A k \in 1..device.count : k \in 1..Len(device.entries)
      BY <2>1, EntryReceived
    <2>4. device.count <= Len(device.entries)
      BY <2>1, <2>2, <2>3 DEF HeaderOk
    <2>5. /\ SubSeq(device.entries, 1, device.count) \in Seq(Pit!Entry)
          /\ Len(SubSeq(device.entries, 1, device.count)) = device.count
          /\ \A k \in 1..device.count :
                SubSeq(device.entries, 1, device.count)[k] = device.entries[k]
      BY <2>2, <2>4
    <2>6. entries = SubSeq(device.entries, 1, device.count)
      BY <2>1, <2>5, SeqEqual
    <2>7. QED  BY <2>1, <2>6 DEF HeaderOk, Pit!Required
  <1>2. QED  BY <1>1, PitInvariant, PTL

\* An identifier names one partition of the table.
THEOREM IdentifiersDiffer ==
    ASSUME Pit!SizesAssumption, Pit!DevicesAssumption
    PROVE  AnySpec => []Pit!IdentifiersAreUnique
  <1>1. PitInv => Pit!IdentifiersAreUnique
    BY DEF PitInv, EntriesOK
  <1>2. QED  BY <1>1, PitInvariant, PTL

\* A PIT with a fault is never used.
THEOREM FaultyIsNotUsed ==
    ASSUME Pit!SizesAssumption, Pit!DevicesAssumption
    PROVE  AnySpec => []Pit!UsedIsSound
  <1>1. PitInv => Pit!UsedIsSound
    <2> SUFFICES ASSUME PitInv, step = "true", Pit!Faulty(device)
                 PROVE  FALSE
      BY DEF Pit!UsedIsSound
    <2>1. /\ device \in Devices /\ Pit!Size = device.size /\ Pit!SizeOk /\ HeaderOk
          /\ Len(entries) = device.count /\ Pit!IdentifiersAreUnique
          /\ \A k \in 1..device.count :
                /\ entries[k] = device.entries[k]
                /\ entries[k].name = "ok" /\ entries[k].file # "bad" /\ entries[k].identifier # 0
      BY DEF PitInv, BytesOK, EntriesOK
    <2>2. device.count \in Nat /\ device.size \in Nat /\ MaxSize \in Nat
          /\ HeaderLen \in Nat /\ device.count * EntryLen \in Nat
      BY <2>1, DeviceType, Product DEF Pit!SizesAssumption
    <2>3. /\ ~(device.size < HeaderLen) /\ ~(device.size > MaxSize) /\ device.magic
          /\ device.count \in 1..MaxEntries /\ ~(device.size < HeaderLen + device.count * EntryLen)
      BY <2>1, <2>2 DEF Pit!SizeOk, HeaderOk, Pit!Required
    <2>4. \A k \in 1..device.count :
            /\ device.entries[k].name = "ok" /\ device.entries[k].file # "bad"
            /\ device.entries[k].identifier # 0
            /\ \A j \in 1..(k - 1) : device.entries[j].identifier # device.entries[k].identifier
      BY <2>1, <2>2 DEF Pit!IdentifiersAreUnique
    <2>5. QED  BY <2>3, <2>4 DEF Pit!Faulty
  <1>2. QED  BY <1>1, PitInvariant, PTL

\* The table in use is whole, the device's, without fault and unambiguous.
THEOREM PitIsInOrder ==
    ASSUME Pit!SizesAssumption, Pit!DevicesAssumption
    PROVE  AnySpec => []PitInUse
  <1>1. PitInv => Pit!TypeOK
    BY DEF PitInv, BytesOK, EntriesOK, Steps, Pit!TypeOK
  <1>2. AnySpec => []Pit!TypeOK
    BY <1>1, PitInvariant, PTL
  <1>3. QED
    BY <1>2, PitIsWhole, TableIsTheDevices, IdentifiersDiffer, FaultyIsNotUsed, PTL DEF PitInUse

\* A PIT that has come whole is refused only for a fault in it.
RefusedIsFaulty == [][step' = "false" /\ step \in {"header", "entries"} => Pit!Faulty(device)]_(Pit!vars)

\* Together with FaultyIsNotUsed, the safety of Judged: what parse_pit_bytes
\* decides is right, whether or not it gets that far.
THEOREM SoundIsUsed ==
    ASSUME Pit!SizesAssumption, Pit!DevicesAssumption
    PROVE  AnySpec => RefusedIsFaulty
  <1>1. ASSUME PitInv, Pit!Next, step \in {"header", "entries"}, step' = "false"
        PROVE  Pit!Faulty(device)
    <2>0. /\ device \in Devices /\ BytesOK /\ EntriesOK /\ device.count \in Nat
          /\ pit \in Seq(Int) /\ Pit!Size = device.size /\ Whole
      BY <1>1, DeviceType DEF PitInv, BytesOK
    <2>1. CASE Pit!ParseHeader
      BY <2>0, <2>1, <1>1 DEF Pit!ParseHeader, Pit!Faulty, Pit!Required, Pit!SizesAssumption
    <2>2. CASE Pit!ParseEntry
      <3> DEFINE e == Pit!EntryAt(i + 1)
      <3>1. i < device.count /\ ~Pit!EntryOk(e) /\ step = "entries"
        BY <1>1, <2>2 DEF Pit!ParseEntry
      <3>2. /\ i \in Nat /\ HeaderOk /\ Len(entries) = i
            /\ \A k \in 1..i : entries[k] = device.entries[k]
        BY <2>0, <3>1 DEF BytesOK, EntriesOK
      <3>3. i + 1 \in 1..device.count
        BY <2>0, <3>1, <3>2
      <3>4. e = device.entries[i + 1]
        BY <2>0, <3>2, <3>3, EntryReceived
      <3> HIDE DEF e
      <3>5. \/ e.name # "ok" \/ e.file = "bad" \/ e.identifier = 0
            \/ \E j \in 1..i : device.entries[j].identifier = e.identifier
        BY <3>1, <3>2 DEF Pit!EntryOk, Pit!FreshIdentifier
      <3>6. (i + 1) - 1 = i
        BY <3>2
      <3>7. QED  BY <3>3, <3>4, <3>5, <3>6 DEF Pit!Faulty
    <2>3. QED
      BY <1>1, <2>1, <2>2 DEF Pit!Next, Pit!Fail, Pit!ReceiveSize, Pit!ReceiveData, Pit!DumpBlock, Pit!BlocksDone,
         Pit!EndDump, Pit!ParseDone
  <1>2. PitInv /\ [Pit!Next]_(Pit!vars) => [step' = "false" /\ step \in {"header", "entries"} => Pit!Faulty(device)]_(Pit!vars)
    BY <1>1
  <1>3. QED  BY <1>2, PitInvariant, PartSteps, PTL DEF AnySpec, RefusedIsFaulty
=============================================================================
