----------------------------- MODULE ArchiveProofs -----------------------------
(***************************************************************************)
(* What is read of an archive before anything is flashed, for every        *)
(* archive, PIT, header and signed file, and every size of block, name,    *)
(* sum, tail, number and checksum field.                                   *)
(*                                                                         *)
(* The walk (Tar) hands on the images of the list of members, and the      *)
(* first fault decides its result.  The search for the sum (Md5) finds     *)
(* where the content ends; numbers (Octal) and checksums (Sum) are exact.  *)
(***************************************************************************)
EXTENDS ArchiveReading, Integers, SequenceTheorems, FiniteSetTheorems, Inductions, TLAPS

-----------------------------------------------------------------------------
\* A run is one of the parts; the others stand still.
LEMMA PartSteps ==
    ASSUME [Next]_all
    PROVE  /\ [Tar!Next]_(Tar!vars)
           /\ [Md5!Next]_(Md5!vars)
           /\ [Octal!Next]_(Octal!vars)
           /\ [Sum!Next]_(Sum!vars)
  <1>1. CASE Next
    BY <1>1 DEF Next, walk_vars, sum_vars, number_vars, header_vars, Tar!vars, Md5!vars, Octal!vars, Sum!vars
  <1>2. CASE UNCHANGED all
    BY <1>2 DEF all, walk_vars, sum_vars, number_vars, header_vars, Tar!vars, Md5!vars, Octal!vars, Sum!vars
  <1>3. QED  BY <1>1, <1>2

\* The size of a set is the same in TarArchive as here.
LEMMA SameCardinality == \A S : Tar!Cardinality(S) = Cardinality(S)
  BY DEF Tar!Cardinality, Cardinality

-----------------------------------------------------------------------------
(* Where the members stand.                                                *)

Count == Len(Tar!Members)

LEMMA Layout ==
    ASSUME Tar!ArchivesAssumption, Tar!BlockAssumption, archive \in Archives
    PROVE  /\ archive.end \in Nat /\ Count \in Nat /\ Block \in Nat \ {0} /\ NameLimit \in Nat
           /\ Tar!Start[1] = 0
           /\ \A k \in 1..Count : /\ Tar!Start[k + 1] = Tar!Start[k] + Block + Tar!RoundUp(Tar!Members[k].size)
                                  /\ Tar!Members[k].size \in Nat /\ Tar!Members[k].type \in Tar!Types
  BY DEF Tar!ArchivesAssumption, Tar!BlockAssumption, Count, Tar!Members, Tar!Start

LEMMA Rounded ==
    ASSUME Tar!BlockAssumption, NEW n \in Nat
    PROVE  /\ Tar!RoundUp(n) \in Nat /\ Tar!RoundUp(n) >= n
           /\ Tar!RoundUp(n) = n + Tar!PadTo(n)
  <1> DEFINE r == n % Block
  <1>1. Block \in Nat \ {0} /\ r \in 0..(Block - 1)
    BY DEF Tar!BlockAssumption
  <1> HIDE DEF r
  <1>2. CASE r = 0
    <2>1. Tar!RoundUp(n) = n
      BY <1>2 DEF Tar!RoundUp, r
    <2>2. Tar!PadTo(n) = Block % Block
      BY <1>1, <1>2 DEF Tar!PadTo, r
    <2>3. Block % Block = 0
      BY <1>1
    <2>4. QED  BY <2>1, <2>2, <2>3
  <1>3. CASE r # 0
    <2>1. Tar!RoundUp(n) = n + Block - r
      BY <1>3 DEF Tar!RoundUp, r
    <2>2. Tar!PadTo(n) = (Block - r) % Block
      BY DEF Tar!PadTo, r
    <2>3. (Block - r) % Block = Block - r
      BY <1>1, <1>3
    <2>4. QED  BY <1>1, <2>1, <2>2, <2>3
  <1>4. QED  BY <1>2, <1>3

\* Members stand behind each other, with at least a header's room between them.
LEMMA StartsGrow ==
    ASSUME Tar!ArchivesAssumption, Tar!BlockAssumption, archive \in Archives
    PROVE  \A k \in 1..(Count + 1) :
              /\ Tar!Start[k] \in Nat
              /\ \A j \in 1..(k - 1) : Tar!Start[j] \in Nat /\ Tar!Start[j] + Block <= Tar!Start[k]
  <1> DEFINE Good(k) == /\ Tar!Start[k] \in Nat
                        /\ \A j \in 1..(k - 1) : Tar!Start[j] \in Nat /\ Tar!Start[j] + Block <= Tar!Start[k]
             T == {n \in Nat : n <= Count => Good(n + 1)}
  <1>0. Count \in Nat /\ Block \in Nat \ {0}
    BY Layout
  <1>1. 0 \in T
    BY Layout
  <1>2. ASSUME NEW n \in Nat, n \in T PROVE n + 1 \in T
    <2> SUFFICES ASSUME n + 1 <= Count PROVE Good(n + 2)
      OBVIOUS
    <2>1. Good(n + 1) /\ n + 1 \in 1..Count
      BY <1>0, <1>2
    <2> DEFINE s == Tar!Start[n + 1]
               r == Tar!RoundUp(Tar!Members[n + 1].size)
    <2>2. Tar!Start[n + 2] = s + Block + r /\ r \in Nat
      <3>1. Tar!Start[(n + 1) + 1] = s + Block + r /\ Tar!Members[n + 1].size \in Nat
        BY <2>1, Layout
      <3>2. (n + 1) + 1 = n + 2
        OBVIOUS
      <3>3. QED  BY <3>1, <3>2, Rounded
    <2> HIDE DEF r
    <2>3. ASSUME NEW j \in 1..(n + 1) PROVE Tar!Start[j] \in Nat /\ Tar!Start[j] + Block <= Tar!Start[n + 2]
      <3>1. CASE j = n + 1
        BY <1>0, <2>1, <2>2, <3>1
      <3>2. CASE j \in 1..n
        <4>1. Tar!Start[j] \in Nat /\ Tar!Start[j] + Block <= s /\ s \in Nat
          BY <2>1, <3>2
        <4>2. QED  BY <1>0, <2>2, <4>1
      <3>3. QED  BY <3>1, <3>2
    <2>4. Tar!Start[n + 2] \in Nat
      BY <1>0, <2>1, <2>2
    <2>5. QED  BY <2>3, <2>4
  <1>3. \A n \in Nat : n \in T
    <2> HIDE DEF T
    <2>1. QED  BY <1>1, <1>2, SetInduction
  <1>4. ASSUME NEW k \in 1..(Count + 1) PROVE Good(k)
    <2>1. k - 1 \in Nat /\ k - 1 <= Count /\ (k - 1) + 1 = k
      BY <1>0
    <2>2. Good((k - 1) + 1)
      BY <1>3, <2>1
    <2>3. QED  BY <2>1, <2>2
  <1>5. QED  BY <1>4

-----------------------------------------------------------------------------
(* The images up to a member.                                              *)

Upto(n) == {j \in Tar!Images : j <= n}
Handed(k) == [name |-> Tar!NameOf(k), entry |-> Tar!EntryOf(k),
              start |-> Tar!Start[k] + Block, size |-> Tar!Members[k].size]
Id(k) == Pit[Tar!EntryOf(k)].identifier

LEMMA UptoNext ==
    ASSUME Tar!ArchivesAssumption, Tar!BlockAssumption, archive \in Archives, NEW k \in 1..Count
    PROVE  /\ IsFiniteSet(Upto(k)) /\ Cardinality(Upto(k)) \in Nat
           /\ Cardinality(Upto(k - 1)) \in Nat
           /\ k \in Tar!Images => /\ Upto(k) = Upto(k - 1) \cup {k}
                                  /\ Cardinality(Upto(k)) = Cardinality(Upto(k - 1)) + 1
           /\ k \notin Tar!Images => Upto(k) = Upto(k - 1)
  <1>1. Tar!Images \subseteq 1..Count /\ Count \in Nat
    BY Layout DEF Tar!Images, Tar!Files, Tar!Visible, Count
  <1>2. ASSUME NEW n \in Int PROVE IsFiniteSet(Upto(n)) /\ Cardinality(Upto(n)) \in Nat
    <2>1. IsFiniteSet(1..Count)
      BY <1>1, FS_Interval
    <2>2. Upto(n) \in SUBSET (1..Count)
      BY <1>1 DEF Upto
    <2>3. QED  BY <2>1, <2>2, FS_Subset, FS_CardinalityType
  <1>x. \A j \in Tar!Images : j \in Nat /\ (j <= k <=> j <= k - 1 \/ j = k)
    BY <1>1
  <1>3. k \in Tar!Images => Upto(k) = Upto(k - 1) \cup {k}
    BY <1>x DEF Upto
  <1>4. k \notin Tar!Images => Upto(k) = Upto(k - 1)
    BY <1>x DEF Upto
  <1>5. k \notin Upto(k - 1)
    BY DEF Upto
  <1>6. ASSUME k \in Tar!Images PROVE Cardinality(Upto(k)) = Cardinality(Upto(k - 1)) + 1
    <2>1. IsFiniteSet(Upto(k - 1))
      BY <1>2
    <2>2. QED  BY <1>3, <1>5, <1>6, <2>1, FS_AddElement
  <1>7. QED  BY <1>2, <1>3, <1>4, <1>6

\* The log holds the images up to member n, each at its place, and the partitions
\* met are theirs; none of them had a reason not to be handed on.
LogOK(n) ==
    /\ log \in Seq({Handed(k) : k \in Tar!Images})
    /\ Len(log) = Cardinality(Upto(n))
    /\ \A i \in 1..Len(log) : \E k \in Upto(n) : log[i] = Handed(k) /\ Cardinality(Upto(k)) = i
    /\ used = {Id(k) : k \in Upto(n)}
    /\ \A k \in Upto(n) : /\ ~Tar!Broken(k) /\ ~Tar!Repeated(k)
                         /\ \E i \in 1..Len(log) : log[i] = Handed(k)

\* Member n is the last the walk has left behind, all in order.
Behind(n) == \A j \in 1..n : j \in Tar!Visible /\ Tar!Fault(j) = "none"

Carried(n, type) == IF n >= 1 /\ Tar!Members[n].type = type THEN Tar!Members[n].carries ELSE <<>>

\* The walk stands behind member n.
At(n) ==
    /\ pos = Tar!Start[n + 1]
    /\ Behind(n) /\ LogOK(n)
    /\ gnu = Carried(n, "L") /\ pax = Carried(n, "x")

\* The walk has ended at member n + 1.
Over(n) ==
    /\ Behind(n)
    /\ rc = "Success" => Tar!Visible = 1..n /\ LogOK(n)
    /\ rc \in {"Firmware", "Pit", "Protocol"} =>
          /\ n + 1 \in Tar!Visible /\ Tar!Fault(n + 1) = rc
          /\ LogOK(n) \/ LogOK(n + 1)

WalkInv ==
    /\ archive \in Archives
    /\ rc \in {"none", "Success", "Firmware", "Pit", "Protocol"}
    /\ gnu = <<>> \/ pax = <<>>
    /\ pos \in Nat
    /\ \E n \in 0..Count : IF rc = "none" THEN At(n) ELSE Over(n)

-----------------------------------------------------------------------------
(* The member the walk stands at.                                          *)

LEMMA ArchiveFixed ==
    ASSUME archive' = archive
    PROVE  /\ Tar!Members' = Tar!Members /\ Tar!Start' = Tar!Start /\ Count' = Count
           /\ Tar!Visible' = Tar!Visible /\ Tar!Files' = Tar!Files /\ Tar!Images' = Tar!Images
           /\ \A k : /\ Tar!NameOf(k)' = Tar!NameOf(k) /\ Handed(k)' = Handed(k) /\ Id(k)' = Id(k)
                    /\ Tar!Broken(k)' = Tar!Broken(k) /\ Tar!Repeated(k)' = Tar!Repeated(k)
                    /\ Tar!Fault(k)' = Tar!Fault(k)
           /\ \A n : Upto(n)' = Upto(n) /\ Behind(n)' = Behind(n)
           /\ \A n, t : Carried(n, t)' = Carried(n, t)
  <1>1. Tar!Members' = Tar!Members /\ Tar!Start' = Tar!Start /\ Count' = Count
    BY DEF Tar!Members, Tar!Start, Count
  <1>2. Tar!Visible' = Tar!Visible
    BY <1>1 DEF Tar!Visible
  <1>3. Tar!Files' = Tar!Files
    BY <1>1, <1>2 DEF Tar!Files
  <1>4. \A k : Tar!NameOf(k)' = Tar!NameOf(k)
    BY <1>1 DEF Tar!NameOf
  <1>5. \A k : Tar!EntryOf(k)' = Tar!EntryOf(k)
    BY <1>4 DEF Tar!EntryOf, Tar!Entry
  <1>6. Tar!Images' = Tar!Images
    BY <1>3, <1>4, <1>5 DEF Tar!Images
  <1>7. \A k : Tar!Repeated(k)' = Tar!Repeated(k)
    BY <1>5, <1>6 DEF Tar!Repeated
  <1>8. \A k : Tar!Broken(k)' = Tar!Broken(k)
    BY <1>1, <1>3, <1>4 DEF Tar!Broken
  <1>9. \A k : Tar!Fault(k)' = Tar!Fault(k)
    <2>1. \A k : Tar!Unplaced(k)' = Tar!Unplaced(k)
      BY <1>3, <1>6, <1>7 DEF Tar!Unplaced
    <2>2. \A k : Tar!Spoiled(k)' = Tar!Spoiled(k)
      BY <1>1, <1>4, <1>6 DEF Tar!Spoiled
    <2>3. QED  BY <1>8, <2>1, <2>2 DEF Tar!Fault
  <1>10. \A k : Handed(k)' = Handed(k) /\ Id(k)' = Id(k)
    BY <1>1, <1>4, <1>5 DEF Handed, Id
  <1>11. \A n : Upto(n)' = Upto(n) /\ Behind(n)' = Behind(n)
    BY <1>2, <1>6, <1>9 DEF Upto, Behind
  <1>12. \A n, t : Carried(n, t)' = Carried(n, t)
    BY <1>1 DEF Carried
  <1>13. QED
    BY <1>1, <1>2, <1>3, <1>4, <1>6, <1>7, <1>8, <1>9, <1>10, <1>11, <1>12

LEMMA LogFixed ==
    ASSUME UNCHANGED <<archive, log, used>>, NEW n
    PROVE  LogOK(n)' = LogOK(n)
  <1>1. /\ Tar!Images' = Tar!Images /\ Upto(n)' = Upto(n) /\ log' = log /\ used' = used
        /\ \A k : Handed(k)' = Handed(k) /\ Id(k)' = Id(k)
        /\ \A k : Tar!Broken(k)' = Tar!Broken(k) /\ Tar!Repeated(k)' = Tar!Repeated(k)
    BY ArchiveFixed
  <1>2. {Handed(k) : k \in Tar!Images}' = {Handed(k) : k \in Tar!Images}
    BY <1>1
  <1>3. {Id(k) : k \in Upto(n)}' = {Id(k) : k \in Upto(n)}
    BY <1>1
  <1>4. (\A i \in 1..Len(log) : \E k \in Upto(n) : log[i] = Handed(k) /\ Cardinality(Upto(k)) = i)'
        = \A i \in 1..Len(log) : \E k \in Upto(n) : log[i] = Handed(k) /\ Cardinality(Upto(k)) = i
    BY ArchiveFixed
  <1>5. (\A k \in Upto(n) : /\ ~Tar!Broken(k) /\ ~Tar!Repeated(k)
                           /\ \E i \in 1..Len(log) : log[i] = Handed(k))'
        = \A k \in Upto(n) : /\ ~Tar!Broken(k) /\ ~Tar!Repeated(k)
                           /\ \E i \in 1..Len(log) : log[i] = Handed(k)
    BY <1>1
  <1>6. QED  BY <1>1, <1>2, <1>3, <1>4, <1>5 DEF LogOK

\* Before the end of the content the position is that of a member, or behind all.
LEMMA Standing ==
    ASSUME Tar!ArchivesAssumption, Tar!BlockAssumption, archive \in Archives,
           NEW n \in 0..Count, pos = Tar!Start[n + 1]
    PROVE  /\ Tar!AtZeros <=> n = Count
           /\ Tar!AtMember <=> n < Count
           /\ n < Count => Tar!Here = Tar!Members[n + 1] /\ n + 1 \in 1..Count
  <1>1. Count \in Nat /\ Block \in Nat \ {0}
    BY Layout
  <1>2. n + 1 \in 1..(Count + 1) /\ Count + 1 \in 1..(Count + 1)
    BY <1>1
  <1>3. Tar!Start[n + 1] \in Nat /\ Tar!Start[Count + 1] \in Nat
    BY <1>2, StartsGrow
  <1>4. n < Count => Tar!Start[n + 1] < Tar!Start[Count + 1]
    <2> SUFFICES ASSUME n < Count PROVE Tar!Start[n + 1] < Tar!Start[Count + 1]
      OBVIOUS
    <2>1. n + 1 \in 1..((Count + 1) - 1)
      BY <1>1
    <2>2. Tar!Start[n + 1] + Block <= Tar!Start[Count + 1]
      BY <1>2, <2>1, StartsGrow
    <2>3. QED  BY <1>1, <1>3, <2>2
  <1>5. ASSUME NEW k \in 1..Count, Tar!Start[k] = pos PROVE k = n + 1
    <2>1. k \in 1..(Count + 1) /\ Tar!Start[k] \in Nat
      BY <1>1, StartsGrow
    <2>2. CASE k < n + 1
      <3>1. k \in 1..((n + 1) - 1)
        BY <2>2
      <3>2. Tar!Start[k] + Block <= Tar!Start[n + 1]
        BY <1>2, <3>1, StartsGrow
      <3>3. QED  BY <1>1, <1>3, <1>5, <2>1, <3>2
    <2>3. CASE k > n + 1
      <3>1. n + 1 \in 1..(k - 1)
        BY <1>1, <2>3
      <3>2. Tar!Start[n + 1] + Block <= Tar!Start[k]
        BY <2>1, <3>1, StartsGrow
      <3>3. QED  BY <1>1, <1>3, <1>5, <2>1, <3>2
    <2>4. QED  BY <1>1, <2>2, <2>3
  <1>6. Tar!AtZeros <=> n = Count
    <2>1. Tar!AtZeros <=> pos >= Tar!Start[Count + 1]
      BY DEF Tar!AtZeros, Count
    <2>2. QED  BY <1>1, <1>3, <1>4, <2>1
  <1>7. n < Count => n + 1 \in 1..Count
    BY <1>1
  <1>8. Tar!AtMember <=> n < Count
    <2>1. Tar!AtMember <=> \E k \in 1..Count : Tar!Start[k] = pos
      BY DEF Tar!AtMember, Count
    <2>2. QED  BY <1>1, <1>5, <1>7, <2>1
  <1>9. n < Count => Tar!Here = Tar!Members[n + 1]
    <2> SUFFICES ASSUME n < Count PROVE Tar!Here = Tar!Members[n + 1]
      OBVIOUS
    <2>1. (CHOOSE k \in 1..Count : Tar!Start[k] = pos) = n + 1
      BY <1>5, <1>7
    <2>2. QED  BY <2>1 DEF Tar!Here, Count
  <1>10. QED  BY <1>6, <1>7, <1>8, <1>9

\* The name of the header is that of the list, and nothing old is left pending.
LEMMA Named ==
    ASSUME Tar!ArchivesAssumption, Tar!BlockAssumption, WalkInv, NEW n \in 0..Count, At(n), n < Count
    PROVE  Tar!Name = Tar!NameOf(n + 1) /\ Tar!PaxLeft = <<>>
  <1>1. Tar!Here = Tar!Members[n + 1]
    BY Standing DEF WalkInv, At
  <1>2. gnu = Carried(n, "L") /\ pax = Carried(n, "x") /\ (gnu = <<>> \/ pax = <<>>)
    BY DEF WalkInv, At
  <1>3. (n + 1) - 1 = n /\ (n + 1 > 1 <=> n >= 1)
    OBVIOUS
  <1>4. Tar!Name = Tar!NameOf(n + 1)
    BY <1>1, <1>2, <1>3 DEF Tar!Name, Tar!NameOf, Carried
  <1>5. QED  BY <1>2, <1>4 DEF Tar!PaxLeft

\* What a header that can be read tells of the member the walk stands at.
LEMMA HeaderRead ==
    ASSUME Tar!ArchivesAssumption, Tar!BlockAssumption, WalkInv, NEW n \in 0..Count, At(n),
           NEW types, Tar!Header(types)
    PROVE  /\ n < Count /\ n + 1 \in Tar!Visible /\ Tar!Here = Tar!Members[n + 1]
           /\ Tar!Members[n + 1].type \in types /\ Tar!Members[n + 1].size \in Nat
           /\ Tar!Name = Tar!NameOf(n + 1) /\ Tar!PaxLeft = <<>> /\ Tar!DataStart = Tar!Start[n + 1] + Block
           /\ rc = "none"
           /\ Tar!Broken(n + 1) <=> \/ Tar!Members[n + 1].type \in {"L", "x"} /\ Tar!Members[n + 1].size > NameLimit
                                    \/ Tar!Members[n + 1].type = "0" /\ Tar!Name = <<>>
  <1>1. /\ Tar!Running /\ Tar!AtMember /\ Tar!Here.valid /\ Tar!Fits(Tar!Here.size) /\ Tar!Here.type \in types
        /\ archive \in Archives /\ pos = Tar!Start[n + 1] /\ rc = "none"
    BY DEF Tar!Header, WalkInv, At, Tar!Running
  <1>2. n < Count /\ Tar!Here = Tar!Members[n + 1] /\ n + 1 \in 1..Count
    BY <1>1, Standing
  <1>3. Tar!Name = Tar!NameOf(n + 1) /\ Tar!PaxLeft = <<>>
    BY <1>2, Named
  <1>4. n + 1 \in Tar!Visible
    BY <1>1, <1>2 DEF Tar!Visible, Tar!Running, Count
  <1>5. archive.end \in Nat /\ Block \in Nat /\ Tar!Members[n + 1].size \in Nat /\ Tar!Start[n + 1] \in Nat
    <2>1. n + 1 \in 1..(Count + 1)
      BY <1>2, Layout, <1>1
    <2>2. QED  BY <1>1, <1>2, <2>1, Layout, StartsGrow
  <1>6. ~(Tar!Members[n + 1].size > archive.end - Tar!Start[n + 1] - Block)
    BY <1>1, <1>2, <1>5 DEF Tar!Fits, Tar!DataStart
  <1>7. n + 1 \in Tar!Files <=> Tar!Members[n + 1].type = "0"
    BY <1>4 DEF Tar!Files
  <1>8. Tar!Broken(n + 1) <=> \/ Tar!Members[n + 1].type \in {"L", "x"} /\ Tar!Members[n + 1].size > NameLimit
                              \/ Tar!Members[n + 1].type = "0" /\ Tar!Name = <<>>
    <2>1. Tar!Members[n + 1].valid
      BY <1>1, <1>2
    <2>2. n + 1 \in Tar!Files /\ Tar!NameOf(n + 1) = <<>> <=> Tar!Members[n + 1].type = "0" /\ Tar!Name = <<>>
      BY <1>3, <1>7
    <2>3. Tar!Broken(n + 1) <=>
              \/ ~Tar!Members[n + 1].valid \/ Tar!Members[n + 1].size > archive.end - Tar!Start[n + 1] - Block
              \/ Tar!Members[n + 1].type \in {"L", "x"} /\ Tar!Members[n + 1].size > NameLimit
              \/ n + 1 \in Tar!Files /\ Tar!NameOf(n + 1) = <<>>
      BY Zenon DEF Tar!Broken
    <2>4. Tar!Broken(n + 1) <=>
              \/ Tar!Members[n + 1].type \in {"L", "x"} /\ Tar!Members[n + 1].size > NameLimit
              \/ n + 1 \in Tar!Files /\ Tar!NameOf(n + 1) = <<>>
      BY <1>6, <2>1, <2>3
    <2>5. QED  BY <2>2, <2>4
  <1>9. QED  BY <1>1, <1>2, <1>3, <1>4, <1>5, <1>8 DEF Tar!DataStart

-----------------------------------------------------------------------------
(* Steps behind a member.                                                  *)

LEMMA LogStays ==
    ASSUME Tar!ArchivesAssumption, Tar!BlockAssumption, archive \in Archives, NEW n \in 0..Count,
           n < Count, n + 1 \notin Tar!Images, LogOK(n), UNCHANGED <<archive, log, used>>
    PROVE  LogOK(n + 1)'
  <1>1. n + 1 \in 1..Count /\ (n + 1) - 1 = n
    BY Layout
  <1>2. Upto(n + 1) = Upto(n)
    BY <1>1, UptoNext
  <1>3. LogOK(n + 1) = LogOK(n)
    BY <1>2 DEF LogOK
  <1>4. QED  BY <1>3, LogFixed

LEMMA LogGrows ==
    ASSUME Tar!ArchivesAssumption, Tar!BlockAssumption, archive \in Archives, NEW n \in 0..Count,
           n < Count, n + 1 \in Tar!Images, LogOK(n), ~Tar!Broken(n + 1), ~Tar!Repeated(n + 1),
           UNCHANGED archive, log' = Append(log, Handed(n + 1)), used' = used \cup {Id(n + 1)}
    PROVE  LogOK(n + 1)'
  <1> DEFINE k == n + 1
             S == {Handed(j) : j \in Tar!Images}
             C(j) == Cardinality(Upto(j))
  <1>1. k \in 1..Count /\ k - 1 = n
    BY Layout
  <1>2. /\ Upto(k) = Upto(n) \cup {k} /\ C(k) = C(n) + 1 /\ C(n) \in Nat
    BY <1>1, UptoNext
  <1>3. /\ log \in Seq(S) /\ Len(log) = C(n)
        /\ \A i \in 1..Len(log) : \E j \in Upto(n) : log[i] = Handed(j) /\ C(j) = i
        /\ used = {Id(j) : j \in Upto(n)}
        /\ \A j \in Upto(n) : /\ ~Tar!Broken(j) /\ ~Tar!Repeated(j)
                             /\ \E i \in 1..Len(log) : log[i] = Handed(j)
    BY DEF LogOK
  <1>4. Handed(k) \in S
    OBVIOUS
  <1> HIDE DEF S, k, C
  <1>5. log' \in Seq(S) /\ Len(log') = C(k)
    BY <1>2, <1>3, <1>4 DEF k
  <1>6. ASSUME NEW i \in 1..Len(log') PROVE \E j \in Upto(k) : log'[i] = Handed(j) /\ C(j) = i
    <2>1. CASE i = Len(log')
      <3>1. log'[i] = Handed(k)
        BY <1>2, <1>3, <1>4, <1>5, <2>1 DEF k
      <3>2. QED  BY <1>2, <1>5, <2>1, <3>1
    <2>2. CASE i # Len(log')
      <3>1. i \in 1..Len(log)
        BY <1>2, <1>3, <1>5, <2>2
      <3>2. log'[i] = log[i]
        BY <1>3, <1>4, <3>1 DEF k
      <3>3. QED  BY <1>2, <1>3, <3>1, <3>2
    <2>3. QED  BY <2>1, <2>2
  <1>7. used' = {Id(j) : j \in Upto(k)}
    BY <1>2, <1>3 DEF k
  <1>a. log'[Len(log')] = Handed(k) /\ Len(log') \in 1..Len(log')
    BY <1>2, <1>3, <1>4, <1>5 DEF k
  <1>b. \A i \in 1..Len(log) : i \in 1..Len(log') /\ log'[i] = log[i]
    BY <1>2, <1>3, <1>4, <1>5 DEF k
  <1>8. ASSUME NEW j \in Upto(k)
        PROVE  ~Tar!Broken(j) /\ ~Tar!Repeated(j) /\ \E i \in 1..Len(log') : log'[i] = Handed(j)
    <2>1. CASE j = k
      BY <1>a, <2>1 DEF k
    <2>2. CASE j \in Upto(n)
      BY <1>3, <1>b, <2>2
    <2>3. QED  BY <1>2, <2>1, <2>2
  <1>9. /\ \A j : Upto(j)' = Upto(j) /\ Handed(j)' = Handed(j) /\ Id(j)' = Id(j)
        /\ \A j : Tar!Broken(j)' = Tar!Broken(j) /\ Tar!Repeated(j)' = Tar!Repeated(j)
        /\ Tar!Images' = Tar!Images
    BY ArchiveFixed
  <1>10. S = {Handed(j) : j \in Tar!Images}' /\ \A j : C(j) = Cardinality(Upto(j))'
    BY <1>9 DEF S, C
  <1>11. LogOK(k)'
    BY <1>5, <1>6, <1>7, <1>8, <1>9, <1>10 DEF LogOK
  <1>12. QED  BY <1>11 DEF k

\* The walk goes on behind member n + 1, which is in order.
LEMMA Passed ==
    ASSUME Tar!ArchivesAssumption, Tar!BlockAssumption, WalkInv, NEW n \in 0..Count, At(n), n < Count,
           n + 1 \in Tar!Visible, Tar!Fault(n + 1) = "none", Tar!Here = Tar!Members[n + 1], Tar!Advance,
           UNCHANGED <<archive, rc>>, rc = "none", LogOK(n + 1)',
           gnu' = Carried(n + 1, "L"), pax' = Carried(n + 1, "x")
    PROVE  WalkInv'
  <1>1. archive \in Archives /\ pos = Tar!Start[n + 1] /\ Behind(n) /\ Count \in Nat
    BY Layout DEF WalkInv, At
  <1>2. n + 1 \in 1..Count /\ n + 1 \in 0..Count
    BY <1>1
  <1>3. Tar!Start[(n + 1) + 1] = Tar!Start[n + 1] + Block + Tar!RoundUp(Tar!Members[n + 1].size)
    BY <1>1, <1>2, Layout
  <1>4. Tar!RoundUp(Tar!Members[n + 1].size) = Tar!Members[n + 1].size + Tar!PadTo(Tar!Members[n + 1].size)
        /\ Tar!RoundUp(Tar!Members[n + 1].size) \in Nat /\ Tar!Members[n + 1].size \in Nat
        /\ Block \in Nat
    BY <1>1, <1>2, Layout, Rounded
  <1>5. (n + 1) + 1 \in 1..(Count + 1) /\ n + 1 \in 1..(Count + 1)
    BY <1>1, <1>2
  <1>6. Tar!Start[(n + 1) + 1] \in Nat /\ Tar!Start[n + 1] \in Nat
    BY <1>1, <1>5, StartsGrow
  <1>7. Tar!PadTo(Tar!Members[n + 1].size) \in Int
    <2>1. Block \in Nat \ {0} /\ Tar!Members[n + 1].size % Block \in Int
      BY <1>4 DEF Tar!BlockAssumption
    <2>2. QED  BY <2>1 DEF Tar!PadTo
  <1>8. pos' = Tar!Start[(n + 1) + 1]
    BY <1>1, <1>3, <1>4, <1>6, <1>7 DEF Tar!Advance, Tar!DataStart
  <1>9. Behind(n + 1)
    BY <1>1 DEF Behind
  <1>10. At(n + 1)'
    BY <1>8, <1>9, ArchiveFixed DEF At
  <1>11. gnu' = <<>> \/ pax' = <<>>
    BY DEF Carried
  <1>12. (n + 1 \in 0..Count)'
    BY <1>2, ArchiveFixed
  <1>13. QED  BY <1>1, <1>6, <1>8, <1>10, <1>11, <1>12 DEF WalkInv

\* The walk ends.
LEMMA Finished ==
    ASSUME Tar!ArchivesAssumption, Tar!BlockAssumption, WalkInv, NEW n \in 0..Count, At(n),
           NEW code \in {"Success", "Firmware", "Pit", "Protocol"}, Tar!Return(code),
           code = "Success" => Tar!Visible = 1..n,
           code # "Success" => n + 1 \in Tar!Visible /\ Tar!Fault(n + 1) = code
    PROVE  WalkInv'
  <1>1. rc' = code /\ UNCHANGED <<archive, pos, gnu, pax, used, log>>
    BY DEF Tar!Return
  <1>2. Behind(n) /\ LogOK(n)
    BY DEF At
  <1>3. Over(n)'
    <2>1. LogOK(n)' /\ Behind(n)' /\ Tar!Visible' = Tar!Visible /\ Tar!Fault(n + 1)' = Tar!Fault(n + 1)
      BY <1>1, <1>2, ArchiveFixed, LogFixed
    <2>2. QED  BY <1>1, <2>1 DEF Over
  <1>4. rc' # "none" /\ (n \in 0..Count)'
    BY <1>1, ArchiveFixed
  <1>5. QED  BY <1>1, <1>3, <1>4 DEF WalkInv

-----------------------------------------------------------------------------
(* One step of the walk.                                                   *)

LEMMA NoneYet ==
    ASSUME Tar!ArchivesAssumption, Tar!BlockAssumption, archive \in Archives
    PROVE  Upto(0) = {} /\ Tar!Images \subseteq 1..Count
  <1>1. Tar!Images \subseteq 1..Count /\ Count \in Nat
    BY Layout DEF Tar!Images, Tar!Files, Tar!Visible, Count
  <1>2. \A j \in Tar!Images : ~(j <= 0)
    BY <1>1
  <1>3. QED  BY <1>1, <1>2 DEF Upto

LEMMA WalkInit ==
    ASSUME Tar!ArchivesAssumption, Tar!BlockAssumption, Tar!Init
    PROVE  WalkInv
  <1>1. /\ archive \in Archives /\ pos = 0 /\ gnu = <<>> /\ pax = <<>>
        /\ used = {} /\ log = <<>> /\ rc = "none"
    BY DEF Tar!Init
  <1>2. Upto(0) = {} /\ Cardinality({}) = 0 /\ Count \in Nat /\ Tar!Start[0 + 1] = 0
    BY <1>1, NoneYet, Layout, FS_EmptySet
  <1>3. LogOK(0)
    <2>1. log \in Seq({Handed(k) : k \in Tar!Images}) /\ Len(log) = 0
      BY <1>1
    <2>2. used = {Id(k) : k \in Upto(0)}
      BY <1>1, <1>2
    <2>3. \A i \in 1..Len(log) : FALSE
      BY <2>1
    <2>4. \A k \in Upto(0) : FALSE
      BY <1>2
    <2>5. Len(log) = Cardinality(Upto(0))
      BY <1>2, <2>1
    <2>6. QED  BY <2>1, <2>2, <2>3, <2>4, <2>5 DEF LogOK
  <1>4. At(0)
    BY <1>1, <1>2, <1>3 DEF At, Behind, Carried
  <1>5. 0 \in 0..Count
    BY <1>2
  <1>6. QED  BY <1>1, <1>4, <1>5 DEF WalkInv

\* The header of the next member is not there any more.
LEMMA CutOff ==
    ASSUME Tar!ArchivesAssumption, Tar!BlockAssumption, archive \in Archives, NEW n \in 0..Count,
           pos = Tar!Start[n + 1], Behind(n), pos + Block > archive.end \/ n = Count
    PROVE  Tar!Visible = 1..n
  <1>1. Count \in Nat /\ Block \in Nat \ {0} /\ archive.end \in Nat
    BY Layout
  <1>2. ASSUME NEW j \in Tar!Visible PROVE j \in 1..n
    <2>1. j \in 1..Count /\ Tar!Start[j] + Block <= archive.end
      BY DEF Tar!Visible, Count
    <2>2. SUFFICES ASSUME j > n PROVE FALSE
      BY <1>1, <2>1
    <2>3. pos + Block > archive.end /\ n + 1 \in 1..(Count + 1) /\ j \in 1..(Count + 1)
      BY <1>1, <2>1, <2>2
    <2>4. Tar!Start[n + 1] \in Nat /\ Tar!Start[j] \in Nat
      BY <2>3, StartsGrow
    <2>5. CASE j = n + 1
      BY <1>1, <2>1, <2>3, <2>4, <2>5
    <2>6. CASE j # n + 1
      <3>1. n + 1 \in 1..(j - 1)
        BY <1>1, <2>1, <2>2, <2>6
      <3>2. Tar!Start[n + 1] + Block <= Tar!Start[j]
        BY <2>3, <3>1, StartsGrow
      <3>3. QED  BY <1>1, <2>1, <2>3, <2>4, <3>2
    <2>7. QED  BY <2>5, <2>6
  <1>3. 1..n \subseteq Tar!Visible
    BY DEF Behind
  <1>4. QED  BY <1>2, <1>3

LEMMA EndStep ==
    ASSUME Tar!ArchivesAssumption, Tar!BlockAssumption, WalkInv, NEW n \in 0..Count, At(n),
           Tar!EndOfContent \/ Tar!ZeroBlock
    PROVE  WalkInv'
  <1>1. Tar!Return("Success") /\ archive \in Archives /\ pos = Tar!Start[n + 1] /\ Behind(n)
    BY DEF Tar!EndOfContent, Tar!ZeroBlock, WalkInv, At
  <1>2. pos + Block > archive.end \/ n = Count
    BY <1>1, Standing DEF Tar!EndOfContent, Tar!ZeroBlock
  <1>3. Tar!Visible = 1..n
    BY <1>1, <1>2, CutOff
  <1>4. QED  BY <1>1, <1>3, Finished

LEMMA InvalidStep ==
    ASSUME Tar!ArchivesAssumption, Tar!BlockAssumption, WalkInv, NEW n \in 0..Count, At(n), Tar!InvalidHeader
    PROVE  WalkInv'
  <1>1. /\ Tar!Return("Firmware") /\ archive \in Archives /\ pos = Tar!Start[n + 1]
        /\ pos + Block <= archive.end /\ ~Tar!AtZeros
        /\ ~Tar!AtMember \/ ~Tar!Here.valid \/ ~Tar!Fits(Tar!Here.size)
    BY DEF Tar!InvalidHeader, Tar!Running, WalkInv, At
  <1>2. n + 1 \in 1..Count /\ Tar!AtMember /\ Tar!Here = Tar!Members[n + 1]
    <2>1. Count \in Nat /\ n # Count
      BY <1>1, Standing, Layout
    <2>2. n < Count
      BY <2>1
    <2>3. QED  BY <1>1, <2>2, Standing
  <1>3. n + 1 \in Tar!Visible
    BY <1>1, <1>2 DEF Tar!Visible, Count
  <1>4. archive.end \in Nat /\ Block \in Nat /\ Tar!Members[n + 1].size \in Nat /\ Tar!Start[n + 1] \in Nat
    <2>1. n + 1 \in 1..(Count + 1)
      BY <1>1, <1>2, Layout
    <2>2. QED  BY <1>1, <1>2, <2>1, Layout, StartsGrow
  <1>5. Tar!Members[n + 1].valid => Tar!Members[n + 1].size > archive.end - Tar!Start[n + 1] - Block
    BY <1>1, <1>2, <1>4 DEF Tar!Fits, Tar!DataStart
  <1>6. Tar!Broken(n + 1)
    BY <1>5 DEF Tar!Broken
  <1>7. Tar!Fault(n + 1) = "Firmware"
    BY <1>6 DEF Tar!Fault
  <1>8. QED  BY <1>1, <1>3, <1>7, Finished

\* Records that carry a name, and what is passed over.
LEMMA SkipStep ==
    ASSUME Tar!ArchivesAssumption, Tar!BlockAssumption, WalkInv, NEW n \in 0..Count, At(n),
           Tar!GnuLongName \/ Tar!PaxHeader \/ Tar!SkipEntryData
    PROVE  WalkInv'
  <1> DEFINE m == Tar!Members[n + 1]
  <1>1. PICK types \in {{"L"}, {"x"}, {"5"}, {"0"}} : Tar!Header(types)
    BY DEF Tar!GnuLongName, Tar!PaxHeader, Tar!SkipEntryData
  <1>2. /\ n < Count /\ n + 1 \in Tar!Visible /\ Tar!Here = m /\ m.type \in types
        /\ Tar!Name = Tar!NameOf(n + 1) /\ Tar!PaxLeft = <<>> /\ rc = "none" /\ m.size \in Nat
        /\ Tar!Broken(n + 1) <=> \/ m.type \in {"L", "x"} /\ m.size > NameLimit
                                 \/ m.type = "0" /\ Tar!Name = <<>>
    BY <1>1, HeaderRead
  <1>3. archive \in Archives /\ LogOK(n) /\ n \in Int /\ NameLimit \in Nat
    BY Layout DEF WalkInv, At
  <1>4. UNCHANGED <<archive, used, log, rc>> /\ Tar!Advance
    BY DEF Tar!GnuLongName, Tar!PaxHeader, Tar!SkipEntryData
  <1>5. /\ ~Tar!Broken(n + 1) /\ n + 1 \notin Tar!Images
        /\ n + 1 \in Tar!Files => archive.allow_unknown
    <2>1. CASE Tar!GnuLongName \/ Tar!PaxHeader
      <3>1. m.type \in {"L", "x"} /\ m.size <= NameLimit
        BY <1>2, <2>1, HeaderRead DEF Tar!GnuLongName, Tar!PaxHeader
      <3>2. QED  BY <1>2, <1>3, <3>1 DEF Tar!Images, Tar!Files
    <2>2. CASE Tar!SkipEntryData
      <3>1. CASE Tar!Header({"5"})
        <4>1. m.type = "5"
          BY <3>1, HeaderRead
        <4>2. QED  BY <1>2, <4>1 DEF Tar!Images, Tar!Files
      <3>2. CASE Tar!Header({"0"}) /\ Tar!Name # <<>> /\ Tar!Entry(Tar!Name) = 0 /\ archive.allow_unknown
        <4>1. m.type = "0"
          BY <3>2, HeaderRead
        <4>2. Tar!EntryOf(n + 1) = 0
          BY <1>2, <3>2 DEF Tar!EntryOf
        <4>3. QED  BY <1>2, <3>2, <4>1, <4>2 DEF Tar!Images
      <3>3. QED  BY <2>2, <3>1, <3>2 DEF Tar!SkipEntryData
    <2>3. QED  BY <2>1, <2>2
  <1>6. Tar!Fault(n + 1) = "none"
    BY <1>5 DEF Tar!Fault, Tar!Unplaced, Tar!Spoiled
  <1>7. gnu' = Carried(n + 1, "L") /\ pax' = Carried(n + 1, "x")
    <2>0. n + 1 >= 1
      BY <1>3
    <2>1. CASE Tar!GnuLongName
      <3>1. m.type = "L" /\ gnu' = m.carries /\ pax' = <<>>
        BY <1>2, <2>1, HeaderRead DEF Tar!GnuLongName
      <3>2. QED  BY <2>0, <3>1 DEF Carried
    <2>2. CASE Tar!PaxHeader
      <3>1. m.type = "x" /\ gnu' = <<>> /\ pax' = m.carries
        BY <1>2, <2>2, HeaderRead DEF Tar!PaxHeader
      <3>2. QED  BY <2>0, <3>1 DEF Carried
    <2>3. CASE Tar!SkipEntryData
      <3>1. m.type \in {"0", "5"} /\ gnu' = <<>> /\ pax' = <<>>
        BY <1>2, <2>3, HeaderRead DEF Tar!SkipEntryData, Tar!TakeName
      <3>2. QED  BY <3>1 DEF Carried
    <2>4. QED  BY <2>1, <2>2, <2>3
  <1>8. LogOK(n + 1)'
    BY <1>2, <1>3, <1>4, <1>5, LogStays
  <1>9. QED  BY <1>2, <1>4, <1>6, <1>7, <1>8, Passed

LEMMA RefuseStep ==
    ASSUME Tar!ArchivesAssumption, Tar!BlockAssumption, WalkInv, NEW n \in 0..Count, At(n),
           Tar!NameTooLong \/ Tar!EmptyName
    PROVE  WalkInv'
  <1>1. PICK types \in {{"L", "x"}, {"0"}} : Tar!Header(types)
    BY DEF Tar!NameTooLong, Tar!EmptyName
  <1>2. n + 1 \in Tar!Visible /\ Tar!Broken(n + 1)
    <2>1. CASE Tar!NameTooLong
      BY <2>1, HeaderRead DEF Tar!NameTooLong
    <2>2. CASE Tar!EmptyName
      <3>1. Tar!Header({"0"}) /\ Tar!Name = <<>>
        BY <2>2 DEF Tar!EmptyName
      <3>2. QED  BY <3>1, HeaderRead
    <2>3. QED  BY <2>1, <2>2
  <1>3. Tar!Fault(n + 1) = "Firmware" /\ Tar!Return("Firmware")
    BY <1>2 DEF Tar!Fault, Tar!NameTooLong, Tar!EmptyName
  <1>4. QED  BY <1>2, <1>3, Finished

\* The partition of an image was met before.
LEMMA Met ==
    ASSUME Tar!ArchivesAssumption, Tar!BlockAssumption, archive \in Archives, NEW n \in 0..Count,
           LogOK(n), Tar!Name = Tar!NameOf(n + 1)
    PROVE  Tar!Identifier = Id(n + 1) /\ (Tar!Identifier \in used <=> Tar!Repeated(n + 1))
  <1>1. Tar!Identifier = Id(n + 1)
    BY DEF Tar!Identifier, Id, Tar!EntryOf
  <1>2. \A j \in Tar!Images : j \in Nat /\ (j < n + 1 <=> j <= n)
    BY NoneYet
  <1>3. Tar!Repeated(n + 1) <=> \E j \in Upto(n) : Id(j) = Id(n + 1)
    BY <1>2 DEF Tar!Repeated, Upto, Id
  <1>4. QED  BY <1>1, <1>3 DEF LogOK

LEMMA RejectStep ==
    ASSUME Tar!ArchivesAssumption, Tar!BlockAssumption, WalkInv, NEW n \in 0..Count, At(n), Tar!Reject
    PROVE  WalkInv'
  <1>1. Tar!Header({"0"}) /\ Tar!Name # <<>> /\ Tar!Return("Pit")
    BY DEF Tar!Reject
  <1>2. /\ n + 1 \in Tar!Visible /\ Tar!Members[n + 1].type = "0" /\ Tar!Name = Tar!NameOf(n + 1)
        /\ ~Tar!Broken(n + 1)
    BY <1>1, HeaderRead
  <1>3. archive \in Archives /\ LogOK(n)
    BY DEF WalkInv, At
  <1>4. n + 1 \in Tar!Files /\ Tar!Entry(Tar!Name) = Tar!EntryOf(n + 1)
    BY <1>2 DEF Tar!Files, Tar!EntryOf
  <1>5. Tar!Unplaced(n + 1)
    <2>1. CASE Tar!Entry(Tar!Name) = 0 /\ ~archive.allow_unknown
      BY <1>4, <2>1 DEF Tar!Unplaced, Tar!Images
    <2>2. CASE Tar!Entry(Tar!Name) # 0 /\ Tar!Identifier \in used
      <3>1. n + 1 \in Tar!Images
        BY <1>1, <1>2, <1>4, <2>2 DEF Tar!Images
      <3>2. Tar!Repeated(n + 1)
        BY <1>2, <1>3, <2>2, Met
      <3>3. QED  BY <3>1, <3>2 DEF Tar!Unplaced
    <2>3. QED  BY <2>1, <2>2 DEF Tar!Reject
  <1>6. Tar!Fault(n + 1) = "Pit"
    BY <1>2, <1>5 DEF Tar!Fault
  <1>7. QED  BY <1>1, <1>2, <1>6, Finished

LEMMA ImageStep ==
    ASSUME Tar!ArchivesAssumption, Tar!BlockAssumption, WalkInv, NEW n \in 0..Count, At(n), Tar!Image
    PROVE  WalkInv'
  <1> DEFINE k == n + 1
  <1>1. Tar!Header({"0"}) /\ Tar!Name # <<>> /\ Tar!FreshPartition /\ UNCHANGED archive
    BY DEF Tar!Image
  <1>2. /\ n < Count /\ k \in Tar!Visible /\ Tar!Members[k].type = "0" /\ Tar!Here = Tar!Members[k]
        /\ Tar!Name = Tar!NameOf(k) /\ ~Tar!Broken(k) /\ Tar!PaxLeft = <<>> /\ rc = "none"
        /\ Tar!DataStart = Tar!Start[k] + Block
    BY <1>1, HeaderRead
  <1>3. archive \in Archives /\ LogOK(n) /\ Behind(n)
    BY DEF WalkInv, At
  <1>4. Tar!Entry(Tar!Name) = Tar!EntryOf(k) /\ k \in Tar!Images
    BY <1>1, <1>2 DEF Tar!Files, Tar!EntryOf, Tar!Images, Tar!FreshPartition
  <1>5. Tar!Identifier = Id(k) /\ ~Tar!Repeated(k)
    BY <1>1, <1>2, <1>3, Met DEF Tar!FreshPartition
  <1>6. ~Tar!Unplaced(k)
    BY <1>4, <1>5 DEF Tar!Unplaced
  <1>7. log' = Append(log, Handed(k)) /\ used' = used \cup {Id(k)}
    BY <1>2, <1>4, <1>5 DEF Tar!Image, Handed
  <1>8. LogOK(k)'
    BY <1>1, <1>2, <1>3, <1>4, <1>5, <1>7, LogGrows
  <1>9. gnu' = Carried(k, "L") /\ pax' = Carried(k, "x") /\ gnu' = <<>>
    BY <1>2 DEF Tar!Image, Tar!TakeName, Carried
  <1>10. Tar!Spoiled(k) <=> Tar!Noticed
    BY <1>2, <1>4 DEF Tar!Spoiled, Tar!Noticed
  <1>11. CASE Tar!Noticed
    <2>1. UNCHANGED pos /\ rc' = IF archive.flash THEN "Protocol" ELSE "Firmware"
      BY <1>11 DEF Tar!Image
    <2>2. Tar!Fault(k) = rc'
      BY <1>2, <1>6, <1>10, <1>11, <2>1 DEF Tar!Fault
    <2>3. Tar!Fault(k)' = Tar!Fault(k) /\ Tar!Visible' = Tar!Visible /\ Behind(n)' = Behind(n)
          /\ (n \in 0..Count)'
      BY <1>1, ArchiveFixed
    <2>4. Over(n)'
      BY <1>2, <1>3, <1>8, <2>1, <2>2, <2>3 DEF Over
    <2>5. QED  BY <1>1, <1>3, <1>9, <2>1, <2>3, <2>4 DEF WalkInv
  <1>12. CASE ~Tar!Noticed
    <2>1. Tar!Advance /\ UNCHANGED rc
      BY <1>12 DEF Tar!Image
    <2>2. Tar!Fault(k) = "none"
      BY <1>2, <1>6, <1>10, <1>12 DEF Tar!Fault
    <2>3. QED  BY <1>1, <1>2, <1>8, <1>9, <2>1, <2>2, Passed
  <1>13. QED  BY <1>11, <1>12

LEMMA WalkStep ==
    ASSUME Tar!ArchivesAssumption, Tar!BlockAssumption, WalkInv, [Tar!Next]_(Tar!vars)
    PROVE  WalkInv'
  <1>1. CASE UNCHANGED Tar!vars
    <2>1. UNCHANGED <<archive, pos, gnu, pax, used, log, rc>>
      BY <1>1 DEF Tar!vars
    <2>2. /\ Count' = Count /\ Tar!Start' = Tar!Start /\ Tar!Visible' = Tar!Visible
          /\ \A k : Tar!Fault(k)' = Tar!Fault(k) /\ Behind(k)' = Behind(k) /\ LogOK(k)' = LogOK(k)
          /\ \A k, t : Carried(k, t)' = Carried(k, t)
      BY <2>1, ArchiveFixed, LogFixed
    <2>3. PICK n \in 0..Count : IF rc = "none" THEN At(n) ELSE Over(n)
      BY DEF WalkInv
    <2>4. (IF rc = "none" THEN At(n) ELSE Over(n))'
      BY <2>1, <2>2, <2>3 DEF At, Over
    <2>5. (n \in 0..Count)'
      BY <2>2
    <2>6. QED  BY <2>1, <2>4, <2>5 DEF WalkInv
  <1>2. CASE Tar!Next
    <2>1. rc = "none"
      BY <1>2 DEF Tar!Next, Tar!EndOfContent, Tar!ZeroBlock, Tar!InvalidHeader, Tar!GnuLongName, Tar!PaxHeader,
         Tar!NameTooLong, Tar!SkipEntryData, Tar!EmptyName, Tar!Reject, Tar!Image, Tar!Header, Tar!Running
    <2>2. PICK n \in 0..Count : At(n)
      BY <2>1 DEF WalkInv
    <2>3. QED
      BY <1>2, <2>2, EndStep, InvalidStep, SkipStep, RefuseStep, RejectStep, ImageStep DEF Tar!Next
  <1>3. QED  BY <1>1, <1>2

LEMMA WalkInvariant ==
    ASSUME Tar!ArchivesAssumption, Tar!BlockAssumption
    PROVE  Spec => []WalkInv
  <1>1. Init => WalkInv
    BY WalkInit DEF Init
  <1>2. WalkInv /\ [Next]_all => WalkInv'
    BY WalkStep, PartSteps
  <1>3. QED  BY <1>1, <1>2, PTL DEF Spec

-----------------------------------------------------------------------------
(* What the walk promises.                                                 *)

\* What the log holds, wherever the walk stands or has ended.
LEMMA LogThere ==
    ASSUME Tar!ArchivesAssumption, Tar!BlockAssumption, WalkInv
    PROVE  \E n \in Nat : LogOK(n)
  <1>1. PICK n \in 0..Count : IF rc = "none" THEN At(n) ELSE Over(n)
    BY DEF WalkInv
  <1>2. n \in Nat /\ n + 1 \in Nat
    OBVIOUS
  <1>3. rc \in {"none", "Success", "Firmware", "Pit", "Protocol"}
    BY DEF WalkInv
  <1>4. QED  BY <1>1, <1>2, <1>3 DEF At, Over

\* The images handed on are those of the list, each with its own name and bytes,
\* and no partition is given two of them.
THEOREM WalkIsTheList ==
    ASSUME Tar!ArchivesAssumption, Tar!BlockAssumption
    PROVE  Spec => []ImagesOfTheList
  <1>1. ASSUME WalkInv PROVE ImagesOfTheList
    <2>1. PICK n \in Nat : LogOK(n)
      BY <1>1, LogThere
    <2>2. \A i \in 1..Len(log) : \E k \in Upto(n) : log[i] = Handed(k) /\ Cardinality(Upto(k)) = i
      BY <2>1 DEF LogOK
    <2>3. Tar!ImagesOfTheList
      BY <2>2, SameCardinality DEF Tar!ImagesOfTheList, Upto, Handed
    <2>4. ASSUME NEW i \in 1..Len(log), NEW j \in 1..Len(log),
                 Pit[log[i].entry].identifier = Pit[log[j].entry].identifier
          PROVE  i = j
      <3>1. PICK k \in Upto(n) : log[i] = Handed(k) /\ Cardinality(Upto(k)) = i
        BY <2>2
      <3>2. PICK l \in Upto(n) : log[j] = Handed(l) /\ Cardinality(Upto(l)) = j
        BY <2>2
      <3>3. Id(k) = Id(l)
        BY <2>4, <3>1, <3>2 DEF Handed, Id
      <3>4. ~Tar!Repeated(k) /\ ~Tar!Repeated(l) /\ k \in Tar!Images /\ l \in Tar!Images
        BY <2>1 DEF LogOK, Upto
      <3>5. k \in Int /\ l \in Int
        BY <1>1, <3>4, NoneYet DEF WalkInv
      <3>6. ~(k < l) /\ ~(l < k)
        BY <3>3, <3>4 DEF Tar!Repeated, Id
      <3>7. k = l
        BY <3>5, <3>6
      <3>8. QED  BY <3>1, <3>2, <3>7
    <2>5. Tar!OneImagePerPartition
      BY <2>4 DEF Tar!OneImagePerPartition
    <2>6. QED  BY <2>3, <2>5 DEF ImagesOfTheList
  <1>2. QED  BY <1>1, WalkInvariant, PTL

\* An archive that is accepted has lost whole members at its end, if any.
LEMMA CutIsBetween ==
    ASSUME Tar!ArchivesAssumption, Tar!BlockAssumption, WalkInv
    PROVE  Tar!CutBetweenMembers
  <1> SUFFICES ASSUME rc = "Success", NEW k \in 1..Len(Tar!Members)
               PROVE  \/ Tar!Start[k] + Block + Tar!Members[k].size <= archive.end
                      \/ \A j \in k..Len(Tar!Members) : Tar!Start[j] + Block > archive.end
    BY DEF Tar!CutBetweenMembers
  <1>1. archive \in Archives /\ archive.end \in Nat /\ Block \in Nat /\ Count \in Nat /\ k \in 1..Count
    BY Layout DEF WalkInv, Count
  <1>2. PICK n \in 0..Count : Behind(n) /\ Tar!Visible = 1..n
    BY DEF WalkInv, Over
  <1>3. \A j \in 1..Count : Tar!Start[j] \in Nat
    <2>1. \A j \in 1..Count : j \in 1..(Count + 1)
      BY <1>1
    <2>2. QED  BY <1>1, <2>1, StartsGrow
  <1>4. CASE k \in 1..n
    <2>1. ~Tar!Broken(k)
      BY <1>2, <1>4 DEF Behind, Tar!Fault
    <2>2. ~(Tar!Members[k].size > archive.end - Tar!Start[k] - Block)
      BY <2>1 DEF Tar!Broken
    <2>3. Tar!Members[k].size \in Nat /\ Tar!Start[k] \in Nat
      BY <1>1, <1>3, Layout
    <2>4. QED  BY <1>1, <2>2, <2>3
  <1>5. CASE k \notin 1..n
    <2>1. ASSUME NEW j \in k..Len(Tar!Members) PROVE Tar!Start[j] + Block > archive.end
      <3>1. j \in 1..Count /\ j \notin 1..n
        BY <1>1, <1>2, <1>5 DEF Count
      <3>2. ~(Tar!Start[j] + Block <= archive.end)
        BY <1>2, <3>1 DEF Tar!Visible, Count
      <3>3. QED  BY <1>1, <1>3, <3>1, <3>2
    <2>2. QED  BY <2>1
  <1>6. QED  BY <1>4, <1>5

\* The first member that is not in order decides the result, and an archive that
\* is accepted was cut between two members, if it was cut.
THEOREM FirstFault ==
    ASSUME Tar!ArchivesAssumption, Tar!BlockAssumption
    PROVE  Spec => []FirstFaultDecides
  <1>1. ASSUME WalkInv PROVE Tar!FirstFaultDecides
    <2>1. CASE rc = "none"
      BY <2>1 DEF Tar!FirstFaultDecides
    <2>2. CASE rc = "Success"
      <3>1. PICK n \in 0..Count : Behind(n) /\ Tar!Visible = 1..n /\ LogOK(n)
        BY <1>1, <2>2 DEF WalkInv, Over
      <3>2. \A k \in Tar!Visible : Tar!Fault(k) = "none"
        BY <3>1 DEF Behind
      <3>3. Upto(n) = Tar!Images
        <4>1. \A j \in Tar!Images : j \in 1..n
          BY <3>1 DEF Tar!Images, Tar!Files
        <4>2. QED  BY <4>1 DEF Upto
      <3>4. QED  BY <2>2, <3>1, <3>2, <3>3, SameCardinality DEF Tar!FirstFaultDecides, LogOK
    <2>3. CASE rc \in {"Firmware", "Pit", "Protocol"}
      <3>1. PICK n \in 0..Count : Behind(n) /\ n + 1 \in Tar!Visible /\ Tar!Fault(n + 1) = rc
        BY <1>1, <2>3 DEF WalkInv, Over
      <3>2. Tar!Sound((n + 1) - 1)
        <4>1. (n + 1) - 1 = n
          OBVIOUS
        <4>2. QED  BY <3>1, <4>1 DEF Tar!Sound, Behind
      <3>3. QED  BY <2>3, <3>1, <3>2 DEF Tar!FirstFaultDecides
    <2>4. QED  BY <1>1, <2>1, <2>2, <2>3 DEF WalkInv
  <1>2. ASSUME WalkInv PROVE FirstFaultDecides
    BY <1>1, <1>2, CutIsBetween DEF FirstFaultDecides
  <1>3. QED  BY <1>2, WalkInvariant, PTL

\* No image reaches beyond the end of the content, nothing but a header is read as
\* one, and every variable of the walk has its type.
THEOREM WalkStaysInside ==
    ASSUME Tar!ArchivesAssumption, Tar!BlockAssumption
    PROVE  Spec => []InsideContent
  <1>1. ASSUME WalkInv PROVE InsideContent
    <2>1. PICK n \in Nat : LogOK(n)
      BY <1>1, LogThere
    <2>2. archive \in Archives /\ archive.end \in Nat
      BY <1>1, Layout DEF WalkInv
    <2>3. \A i \in 1..Len(log) : \E k \in Upto(n) : log[i] = Handed(k) /\ Cardinality(Upto(k)) = i
      BY <2>1 DEF LogOK
    <2>4. Tar!InsideContent
      <3> SUFFICES ASSUME NEW i \in 1..Len(log)
                   PROVE  log[i].start + log[i].size <= archive.end
        BY DEF Tar!InsideContent
      <3>1. PICK k \in Upto(n) : log[i] = Handed(k)
        BY <2>3
      <3>2. k \in 1..Count /\ ~Tar!Broken(k) /\ Block \in Nat
        BY <2>1, <2>2, NoneYet, Layout DEF LogOK, Upto
      <3>3. Tar!Start[k] \in Nat /\ Tar!Members[k].size \in Nat
        <4>1. k \in 1..(Count + 1)
          BY <2>2, <3>2, Layout
        <4>2. QED  BY <2>2, <3>2, <4>1, Layout, StartsGrow
      <3>4. Tar!Members[k].size <= archive.end - Tar!Start[k] - Block
        BY <2>2, <3>2, <3>3 DEF Tar!Broken
      <3>5. log[i].start = Tar!Start[k] + Block /\ log[i].size = Tar!Members[k].size
        BY <3>1 DEF Handed
      <3>6. QED  BY <2>2, <3>2, <3>3, <3>4, <3>5
    <2>5. Tar!HeadersOnly
      <3> SUFFICES ASSUME Tar!Running PROVE Tar!AtMember \/ pos = Tar!Start[Len(Tar!Members) + 1]
        BY DEF Tar!HeadersOnly
      <3>1. PICK m \in 0..Count : At(m)
        BY <1>1 DEF WalkInv, Tar!Running
      <3>2. pos = Tar!Start[m + 1] /\ Count \in Nat
        BY <2>2, <3>1, Layout DEF At
      <3>3. Tar!AtMember \/ m = Count
        BY <2>2, <3>2, Standing
      <3>4. QED  BY <3>2, <3>3 DEF Count
    <2>6. used = {Pit[log[i].entry].identifier : i \in 1..Len(log)}
      <3>1. used = {Id(k) : k \in Upto(n)}
        BY <2>1 DEF LogOK
      <3>2. ASSUME NEW i \in 1..Len(log)
            PROVE  \E k \in Upto(n) : Pit[log[i].entry].identifier = Id(k)
        <4>1. PICK k \in Upto(n) : log[i] = Handed(k)
          BY <2>3
        <4>2. QED  BY <4>1 DEF Handed, Id
      <3>3. ASSUME NEW k \in Upto(n)
            PROVE  \E i \in 1..Len(log) : Pit[log[i].entry].identifier = Id(k)
        <4>1. PICK i \in 1..Len(log) : log[i] = Handed(k)
          BY <2>1 DEF LogOK
        <4>2. QED  BY <4>1 DEF Handed, Id
      <3>4. QED  BY <3>1, <3>2, <3>3
    <2>7. QED  BY <1>1, <2>2, <2>4, <2>5, <2>6 DEF InsideContent, Tar!TypeOK, WalkInv
  <1>2. QED  BY <1>1, WalkInvariant, PTL

-----------------------------------------------------------------------------
\* Where the digits of the sum stand in the tail.
SumAt == Md5!TrueStart - Md5!Skipped

LEMMA Sizes ==
    ASSUME Md5!FilesAssumption, Md5!SizesAssumption, file \in SignedFiles
    PROVE  /\ file.content \in Seq(Md5!Kinds) /\ file.suffix \in Seq(Md5!Kinds)
           /\ file.intact \in BOOLEAN
           /\ Md5!Bytes \in Seq(Md5!Kinds)
           /\ Len(file.content) \in Nat /\ Len(file.suffix) \in Nat
           /\ Md5!Size = Len(file.content) + SumLen + Len(file.suffix)
           /\ Md5!Skipped \in 0..(Md5!Size - SumLen) /\ Md5!Tail1 \in Seq(Md5!Kinds)
           /\ Len(Md5!Tail1) = Md5!Size - Md5!Skipped
           /\ Md5!Size <= TailLen => Md5!Skipped = 0
           /\ Md5!Size > TailLen => Md5!Skipped = Md5!Size - TailLen
           /\ SumAt = Len(file.content) + 1 - Md5!Skipped
           /\ SumLen \in Nat \ {0} /\ TailLen \in Nat
           /\ Md5!Size \in Nat /\ Md5!Skipped \in Nat /\ Len(Md5!Tail1) \in Nat /\ SumAt \in Int
           /\ SumLen \in 1..Len(Md5!Tail1)
           /\ \A k \in 1..Len(Md5!Tail1) : Md5!Tail1[k] = Md5!Bytes[k + Md5!Skipped]
  <1> DEFINE digits == [k \in 1..SumLen |-> "hex"]
             front == file.content \o digits
             C == Len(file.content)
             S == Len(file.suffix)
  <1>1. /\ file.content \in Seq(Md5!Kinds) /\ file.suffix \in Seq(Md5!Kinds)
        /\ file.intact \in BOOLEAN
        /\ SumLen \in Nat \ {0} /\ TailLen \in Nat /\ TailLen >= SumLen
    BY DEF Md5!FilesAssumption, Md5!SizesAssumption
  <1>2. digits \in Seq(Md5!Kinds) /\ Len(digits) = SumLen /\ C \in Nat /\ S \in Nat
    BY <1>1 DEF Md5!Kinds
  <1> HIDE DEF digits
  <1>3. front \in Seq(Md5!Kinds) /\ Len(front) = C + SumLen
    BY <1>1, <1>2, ConcatProperties
  <1>4. Md5!Bytes = front \o file.suffix
    BY DEF Md5!Bytes, digits
  <1> HIDE DEF front
  <1>5. Md5!Bytes \in Seq(Md5!Kinds) /\ Md5!Size = Len(front) + S
    BY <1>1, <1>3, <1>4, ConcatProperties DEF Md5!Size
  <1> HIDE DEF C, S
  <1>6. Md5!Size = C + SumLen + S /\ Md5!Size \in Nat
    BY <1>1, <1>2, <1>3, <1>5
  <1>7. /\ Md5!Skipped \in 0..(Md5!Size - SumLen)
        /\ Md5!Size <= TailLen => Md5!Skipped = 0
        /\ Md5!Size > TailLen => Md5!Skipped = Md5!Size - TailLen
    BY <1>1, <1>2, <1>6 DEF Md5!Skipped
  <1>8. SumAt = C + 1 - Md5!Skipped
    BY <1>2, <1>7, <1>6, <1>1 DEF SumAt, Md5!TrueStart, C
  <1>9. /\ Md5!Tail1 \in Seq(Md5!Kinds) /\ Len(Md5!Tail1) = Md5!Size - Md5!Skipped
        /\ \A k \in 1..Len(Md5!Tail1) : Md5!Tail1[k] = Md5!Bytes[k + Md5!Skipped]
    <2> DEFINE from == Md5!Skipped + 1
    <2>1. /\ from \in 1..(Md5!Size + 1) /\ from \in Int /\ Md5!Size \in Int
          /\ Len(Md5!Bytes) = Md5!Size
      BY <1>1, <1>6, <1>7 DEF Md5!Size
    <2>2. \A k \in from..Md5!Size : Md5!Bytes[k] \in Md5!Kinds
      BY <1>5, <2>1
    <2>3. Md5!Tail1 = SubSeq(Md5!Bytes, from, Md5!Size)
      BY DEF Md5!Tail1
    <2>4. from <= Md5!Size
      BY <1>1, <1>6, <1>7
    <2> HIDE DEF from
    <2>5. /\ Md5!Tail1 \in Seq(Md5!Kinds) /\ Len(Md5!Tail1) = Md5!Size - from + 1
          /\ \A k \in 1..(Md5!Size - from + 1) : Md5!Tail1[k] = Md5!Bytes[from + k - 1]
      BY <2>1, <2>2, <2>3, <2>4, SubSeqProperties
    <2>6. /\ Md5!Size - from + 1 = Md5!Size - Md5!Skipped
          /\ \A k \in 1..(Md5!Size - Md5!Skipped) : from + k - 1 = k + Md5!Skipped
      BY <1>6, <1>7 DEF from
    <2>7. QED  BY <2>5, <2>6
  <1>10. /\ Md5!Skipped \in Nat /\ Len(Md5!Tail1) \in Nat /\ SumAt \in Int
         /\ SumLen \in 1..Len(Md5!Tail1)
    BY <1>1, <1>2, <1>6, <1>7, <1>8, <1>9
  <1>11. QED  BY <1>1, <1>2, <1>5, <1>6, <1>7, <1>8, <1>9, <1>10 DEF C, S

\* What stands at a place of the tail.
LEMMA TailByte ==
    ASSUME Md5!FilesAssumption, Md5!SizesAssumption, file \in SignedFiles, NEW k \in 1..Len(Md5!Tail1)
    PROVE  /\ k < SumAt => /\ k + Md5!Skipped \in 1..Len(file.content)
                           /\ Md5!Tail1[k] = file.content[k + Md5!Skipped]
           /\ k >= SumAt /\ k < SumAt + SumLen => Md5!Tail1[k] = "hex"
           /\ k >= SumAt + SumLen => /\ k - SumAt - SumLen + 1 \in 1..Len(file.suffix)
                                     /\ Md5!Tail1[k] = file.suffix[k - SumAt - SumLen + 1]
  <1> DEFINE digits == [j \in 1..SumLen |-> "hex"]
             front == file.content \o digits
             C == Len(file.content)
             p == k + Md5!Skipped
             S == Len(file.suffix)
  <1>1. /\ file.content \in Seq(Md5!Kinds) /\ file.suffix \in Seq(Md5!Kinds)
        /\ C \in Nat /\ S \in Nat /\ Md5!Skipped \in Nat /\ SumLen \in Nat \ {0} /\ Md5!Size \in Nat
        /\ Md5!Size = C + SumLen + S /\ Md5!Skipped \in 0..(Md5!Size - SumLen)
        /\ Len(Md5!Tail1) = Md5!Size - Md5!Skipped /\ SumAt = C + 1 - Md5!Skipped
        /\ Md5!Tail1[k] = Md5!Bytes[p]
    <2>1. SumLen \in Nat \ {0} /\ C \in Nat /\ S \in Nat /\ Md5!Size = C + SumLen + S
      BY Sizes
    <2>2. Md5!Skipped \in 0..(Md5!Size - SumLen)
      BY Sizes
    <2>3. Md5!Skipped \in Nat /\ Md5!Size \in Nat
      BY Sizes
    <2>4. /\ Md5!Tail1[k] = Md5!Bytes[p] /\ Len(Md5!Tail1) = Md5!Size - Md5!Skipped
          /\ SumAt = C + 1 - Md5!Skipped
      BY Sizes
    <2>5. file.content \in Seq(Md5!Kinds) /\ file.suffix \in Seq(Md5!Kinds)
      BY Sizes
    <2>6. QED  BY <2>1, <2>2, <2>3, <2>4, <2>5
  <1>2. digits \in Seq(Md5!Kinds) /\ Len(digits) = SumLen /\ \A j \in 1..SumLen : digits[j] = "hex"
    BY <1>1 DEF Md5!Kinds
  <1>3. Md5!Bytes = front \o file.suffix
    BY DEF Md5!Bytes
  <1> HIDE DEF digits
  <1>4. /\ front \in Seq(Md5!Kinds) /\ Len(front) = C + SumLen
        /\ \A j \in 1..(C + SumLen) : front[j] = IF j <= C THEN file.content[j] ELSE digits[j - C]
    <2>1. file.content \in Seq(Md5!Kinds) /\ digits \in Seq(Md5!Kinds)
      BY <1>1, <1>2
    <2>2. /\ front \in Seq(Md5!Kinds) /\ Len(front) = C + Len(digits)
          /\ \A j \in 1..(C + Len(digits)) : front[j] = IF j <= C THEN file.content[j] ELSE digits[j - C]
      BY <2>1, ConcatProperties
    <2>3. QED  BY <1>2, <2>2
  <1> HIDE DEF front
  <1>5. \A j \in 1..(Len(front) + S) :
           Md5!Bytes[j] = IF j <= Len(front) THEN front[j] ELSE file.suffix[j - Len(front)]
    BY <1>1, <1>3, <1>4, ConcatProperties
  <1> HIDE DEF C, S
  <1>6. p \in 1..(C + SumLen + S) /\ C + SumLen + S = Len(front) + S
    BY <1>1, <1>4
  <1>7. Md5!Tail1[k] = IF p <= C + SumLen THEN front[p] ELSE file.suffix[p - (C + SumLen)]
    BY <1>1, <1>4, <1>5, <1>6
  <1> HIDE DEF p
  <1>p. p = k + Md5!Skipped /\ p \in Nat
    BY <1>6, <1>1 DEF p
  <1>8. CASE k < SumAt
    <2>1. p \in 1..C /\ p \in 1..(C + SumLen)
      BY <1>1, <1>p, <1>6, <1>8
    <2>2. p <= C /\ p <= C + SumLen
      BY <1>1, <2>1
    <2>3. Md5!Tail1[k] = file.content[p]
      BY <1>4, <1>7, <2>1, <2>2
    <2>4. ~(k >= SumAt)
      BY <1>1, <1>8
    <2>5. ~(k >= SumAt + SumLen)
      BY <1>1, <1>8
    <2>6. QED  BY <2>1, <2>3, <2>4, <2>5 DEF C, p
  <1>9. CASE k >= SumAt /\ k < SumAt + SumLen
    <2>1. p \in 1..(C + SumLen) /\ ~(p <= C) /\ p - C \in 1..SumLen /\ p <= C + SumLen
      BY <1>1, <1>p, <1>6, <1>9
    <2>2. Md5!Tail1[k] = "hex"
      BY <1>2, <1>4, <1>7, <2>1
    <2>3. ~(k < SumAt) /\ ~(k >= SumAt + SumLen)
      BY <1>1, <1>9
    <2>4. QED  BY <2>2, <2>3
  <1>10. CASE k >= SumAt + SumLen
    <2>1. /\ ~(p <= C + SumLen) /\ p - (C + SumLen) = k - SumAt - SumLen + 1
          /\ p - (C + SumLen) \in 1..S
      <3>1. /\ C \in Int /\ SumLen \in Int /\ S \in Int /\ Md5!Skipped \in Int /\ k \in Int
            /\ SumAt = C + 1 - Md5!Skipped /\ p = k + Md5!Skipped
        BY <1>1, <1>p
      <3>2. SumAt \in Int /\ p = C + 1 + (k - SumAt)
        BY <3>1
      <3>3. p \in Int /\ p > C + SumLen
        BY <1>10, <3>1, <3>2
      <3>4. p <= C + SumLen + S
        BY <1>6, <3>1
      <3>5. QED  BY <3>1, <3>2, <3>3, <3>4
    <2>2. ~(k < SumAt) /\ ~(k < SumAt + SumLen)
      BY <1>1, <1>10
    <2>3. QED  BY <1>7, <2>1, <2>2 DEF S
  <1>11. k \in Int /\ SumAt \in Int
    BY <1>1
  <1>12. QED  BY <1>1, <1>8, <1>9, <1>10, <1>11

-----------------------------------------------------------------------------
(* What the search may find.                                               *)

Fitting == Md5!Plain(file) /\ SumLen + Len(file.suffix) <= TailLen /\ Md5!NewlineOk(file)

\* The digits stand alone in the tail and nothing behind them does.
LEMMA Alone ==
    ASSUME Md5!FilesAssumption, Md5!SizesAssumption, file \in SignedFiles, Fitting
    PROVE  /\ SumAt \in 1..(Len(Md5!Tail1) - SumLen + 1)
           /\ Md5!Isolated(SumAt)
           /\ \A p \in (SumAt + 1)..(Len(Md5!Tail1) - SumLen + 1) : ~Md5!Isolated(p)
  <1> DEFINE C == Len(file.content)
             S == Len(file.suffix)
             last == Len(Md5!Tail1) - SumLen + 1
  <1>1. /\ C \in Nat /\ S \in Nat /\ SumLen \in Nat \ {0} /\ TailLen \in Nat
        /\ Md5!Size = C + SumLen + S /\ Len(Md5!Tail1) = Md5!Size - Md5!Skipped
        /\ Md5!Skipped \in Nat
        /\ Md5!Size <= TailLen => Md5!Skipped = 0
        /\ Md5!Size > TailLen => Md5!Skipped = Md5!Size - TailLen
        /\ SumAt = C + 1 - Md5!Skipped
    BY Sizes
  <1>2. SumLen + S <= TailLen
    BY DEF Fitting
  <1>3. /\ file.content \in Seq(Md5!Kinds) /\ file.content # <<>>
        /\ file.content[C] # "hex"
        /\ file.suffix = <<>> \/ file.suffix[1] # "hex"
        /\ \A p \in 1..(S - SumLen + 1) : ~(\A k \in p..(p + SumLen - 1) : file.suffix[k] = "hex")
        /\ file.suffix \in Seq(Md5!Kinds)
    BY Sizes DEF Fitting, Md5!Plain
  <1> HIDE DEF C, S
  <1>s. Md5!Skipped <= C
    BY <1>1, <1>2
  <1>t. SumAt \in Nat /\ SumAt >= 1 /\ Len(Md5!Tail1) = SumAt + SumLen - 1 + S
    BY <1>1, <1>s
  <1>4. /\ SumAt \in 1..last /\ SumAt \in Int /\ Len(Md5!Tail1) = SumAt + SumLen - 1 + S
        /\ last = SumAt + S
    BY <1>1, <1>t
  <1> HIDE DEF last
  <1>5. \A k \in SumAt..(SumAt + SumLen - 1) : Md5!Hex(k)
    <2> SUFFICES ASSUME NEW k \in SumAt..(SumAt + SumLen - 1) PROVE Md5!Hex(k)
      OBVIOUS
    <2>1. k \in 1..Len(Md5!Tail1) /\ k >= SumAt /\ k < SumAt + SumLen
      BY <1>1, <1>4
    <2>2. QED  BY <2>1, TailByte DEF Md5!Hex
  <1>6. ~Md5!Hex(SumAt - 1)
    <2> SUFFICES ASSUME SumAt - 1 \in 1..Len(Md5!Tail1) PROVE Md5!Tail1[SumAt - 1] # "hex"
      BY DEF Md5!Hex
    <2>1. Md5!Tail1[SumAt - 1] = file.content[(SumAt - 1) + Md5!Skipped]
      BY <1>4, TailByte
    <2>2. (SumAt - 1) + Md5!Skipped = C
      BY <1>1
    <2>3. QED  BY <1>3, <2>1, <2>2
  <1>7. ~Md5!Hex(SumAt + SumLen)
    <2> SUFFICES ASSUME SumAt + SumLen \in 1..Len(Md5!Tail1) PROVE Md5!Tail1[SumAt + SumLen] # "hex"
      BY DEF Md5!Hex
    <2> DEFINE q == SumAt + SumLen
    <2>1. q >= SumAt + SumLen /\ q - SumAt - SumLen + 1 = 1
      BY <1>1, <1>4
    <2>2. 1 \in 1..Len(file.suffix) /\ Md5!Tail1[q] = file.suffix[1]
      BY <2>1, TailByte
    <2>3. QED  BY <1>3, <2>2
  <1>8. ASSUME NEW p \in (SumAt + 1)..last PROVE ~Md5!Isolated(p)
    <2>1. CASE p <= SumAt + SumLen
      <3>1. Md5!Hex(p - 1)
        BY <1>1, <1>4, <1>5, <2>1
      <3>2. QED  BY <3>1 DEF Md5!Isolated
    <2>2. CASE p > SumAt + SumLen
      <3> DEFINE q == p - SumAt - SumLen + 1
      <3>1. q \in 1..(S - SumLen + 1)
        BY <1>1, <1>4, <2>2
      <3>2. PICK k \in q..(q + SumLen - 1) : file.suffix[k] # "hex"
        BY <1>3, <3>1
      <3> DEFINE t == k + SumAt + SumLen - 1
      <3>3. /\ t \in p..(p + SumLen - 1) /\ t \in 1..Len(Md5!Tail1)
            /\ t >= SumAt + SumLen /\ t - SumAt - SumLen + 1 = k
        BY <1>1, <1>4, <2>2, <3>1, <3>2
      <3> HIDE DEF t
      <3>4. Md5!Tail1[t] = file.suffix[k]
        BY <3>3, TailByte
      <3>5. QED  BY <3>2, <3>3, <3>4 DEF Md5!Isolated, Md5!Hex
    <2>3. QED  BY <1>1, <1>4, <2>1, <2>2
  <1>9. Md5!Isolated(SumAt)
    BY <1>5, <1>6, <1>7 DEF Md5!Isolated
  <1>10. QED  BY <1>4, <1>8, <1>9 DEF last

\* Between a newline of the content and the digits there is nothing.
LEMMA NoNewline ==
    ASSUME Md5!FilesAssumption, Md5!SizesAssumption, file \in SignedFiles, Fitting
    PROVE  \/ SumAt > 1 => Md5!Tail1[SumAt - 1] = "nl"
           \/ \A k \in 1..(SumAt - 1) : Md5!Tail1[k] # "nl"
  <1> DEFINE C == Len(file.content)
             S == Len(file.suffix)
  <1>1. /\ C \in Nat /\ S \in Nat /\ SumLen \in Nat \ {0} /\ TailLen \in Nat
        /\ Md5!Size = C + SumLen + S /\ Len(Md5!Tail1) = Md5!Size - Md5!Skipped
        /\ Md5!Skipped \in Nat
        /\ Md5!Size <= TailLen => Md5!Skipped = 0
        /\ Md5!Size > TailLen => Md5!Skipped = Md5!Size - TailLen
        /\ SumAt = C + 1 - Md5!Skipped
    BY Sizes
  <1> HIDE DEF C, S
  <1>2. \A k \in 1..(SumAt - 1) : k \in 1..Len(Md5!Tail1) /\ k < SumAt /\ k + Md5!Skipped \in 1..C
        /\ k + Md5!Skipped > C + SumLen + S - TailLen
    BY <1>1
  <1>3. \A k \in 1..(SumAt - 1) : Md5!Tail1[k] = file.content[k + Md5!Skipped]
    BY <1>2, TailByte DEF C
  <1>4. CASE file.content[C] = "nl"
    <2> SUFFICES ASSUME SumAt > 1 PROVE Md5!Tail1[SumAt - 1] = "nl"
      OBVIOUS
    <2>1. SumAt - 1 \in 1..(SumAt - 1) /\ (SumAt - 1) + Md5!Skipped = C
      BY <1>1
    <2>2. QED  BY <1>3, <1>4, <2>1
  <1>5. CASE \A k \in 1..C : k > C + SumLen + S - TailLen => file.content[k] # "nl"
    BY <1>2, <1>3, <1>5
  <1>6. QED  BY <1>4, <1>5 DEF Fitting, Md5!NewlineOk, C, S

-----------------------------------------------------------------------------
(* The search and the sum.                                                 *)

SearchInv ==
    /\ file \in SignedFiles
    /\ search \in {"scan", "line", "hash", "Success", "Firmware"}
    /\ at \in 0..Len(Md5!Tail1) /\ best \in 0..Len(Md5!Tail1)
    /\ content_end \in 0..Md5!Size /\ hashed \in 0..content_end
    /\ search \in {"scan", "line"} => hashed = 0
    /\ search = "line" => best >= 1 /\ at < best
    /\ search = "Success" => file.intact /\ content_end = Len(file.content) /\ content_end > 0

\* A file that fits what the search relies on is on its way to be accepted: what
\* is found is the sum, and the way to the start of its line meets no newline of
\* the content.
FittingInv ==
    Fitting =>
        /\ search = "scan" => at >= SumAt
        /\ search = "line" => /\ best = SumAt
                          /\ \/ at = SumAt - 1
                             \/ \A k \in 1..(SumAt - 1) : Md5!Tail1[k] # "nl"
        /\ search = "hash" => best = SumAt /\ content_end = Len(file.content)
        /\ search # "Firmware"

LEMMA FileFixed ==
    ASSUME file' = file
    PROVE  /\ Md5!Bytes' = Md5!Bytes /\ Md5!Size' = Md5!Size /\ Md5!Skipped' = Md5!Skipped
           /\ Md5!Tail1' = Md5!Tail1
           /\ Md5!TrueStart' = Md5!TrueStart /\ SumAt' = SumAt /\ Fitting' = Fitting
  <1>1. Md5!Bytes' = Md5!Bytes /\ Md5!TrueStart' = Md5!TrueStart
    BY DEF Md5!Bytes, Md5!TrueStart
  <1>2. Md5!Size' = Md5!Size
    BY <1>1 DEF Md5!Size
  <1>3. Md5!Skipped' = Md5!Skipped
    BY <1>2 DEF Md5!Skipped
  <1>4. Md5!Tail1' = Md5!Tail1
    BY <1>1, <1>2, <1>3 DEF Md5!Tail1
  <1>5. Fitting' = Fitting
    BY DEF Fitting, Md5!Plain, Md5!NewlineOk
  <1>6. QED  BY <1>1, <1>2, <1>3, <1>4, <1>5 DEF SumAt

LEMMA SearchInit ==
    ASSUME Md5!FilesAssumption, Md5!SizesAssumption, Md5!Init
    PROVE  SearchInv /\ FittingInv
  <1>1. /\ file \in SignedFiles /\ search = "scan" /\ at = Len(Md5!Tail1) - SumLen + 1
        /\ best = 0 /\ content_end = Md5!Size /\ hashed = 0
    BY DEF Md5!Init
  <1>2. /\ SumLen \in Nat \ {0} /\ Md5!Skipped \in 0..(Md5!Size - SumLen)
        /\ Len(Md5!Tail1) = Md5!Size - Md5!Skipped
        /\ Len(file.content) \in Nat /\ Len(file.suffix) \in Nat
        /\ Md5!Size = Len(file.content) + SumLen + Len(file.suffix)
    BY <1>1, Sizes
  <1>3. /\ Md5!Size \in Nat /\ Md5!Skipped \in Nat /\ Len(Md5!Tail1) \in Nat
        /\ SumLen \in 1..Len(Md5!Tail1)
    BY <1>1, Sizes
  <1>4. at \in 0..Len(Md5!Tail1)
    <2> DEFINE L == Len(Md5!Tail1)
    <2>1. at = L - SumLen + 1 /\ L \in Nat /\ SumLen \in 1..L
      BY <1>1, <1>3
    <2> HIDE DEF L
    <2>2. at \in 0..L
      BY <2>1
    <2>3. QED  BY <2>2 DEF L
  <1>5. SearchInv
    BY <1>1, <1>3, <1>4 DEF SearchInv
  <1>6. FittingInv
    <2> SUFFICES ASSUME Fitting PROVE at >= SumAt
      BY <1>1 DEF FittingInv
    <2>1. SumAt \in 1..(Len(Md5!Tail1) - SumLen + 1)
      BY <1>1, Alone
    <2>2. QED  BY <1>1, <2>1
  <1>7. QED  BY <1>5, <1>6

LEMMA SearchStep ==
    ASSUME Md5!FilesAssumption, Md5!SizesAssumption, SearchInv, FittingInv, [Md5!Next]_(Md5!vars)
    PROVE  SearchInv' /\ FittingInv'
  <1>1. file' = file
    BY DEF Md5!Next, Md5!vars, Md5!ScanBack, Md5!Found, Md5!NotFound, Md5!LineBack,
           Md5!LineFound, Md5!HashBuffer, Md5!Compare
  <1>2. /\ Md5!Size' = Md5!Size /\ Md5!Skipped' = Md5!Skipped /\ Md5!Tail1' = Md5!Tail1
        /\ SumAt' = SumAt /\ Fitting' = Fitting
    BY <1>1, FileFixed
  <1>3. /\ file \in SignedFiles
        /\ search \in {"scan", "line", "hash", "Success", "Firmware"}
        /\ at \in 0..Len(Md5!Tail1) /\ best \in 0..Len(Md5!Tail1)
        /\ content_end \in 0..Md5!Size /\ hashed \in 0..content_end
        /\ search \in {"scan", "line"} => hashed = 0
        /\ search = "line" => best >= 1 /\ at < best
        /\ search = "Success" => file.intact /\ content_end = Len(file.content) /\ content_end > 0
    BY DEF SearchInv
  <1>4. /\ SumLen \in Nat \ {0} /\ Md5!Skipped \in 0..(Md5!Size - SumLen)
        /\ Len(Md5!Tail1) = Md5!Size - Md5!Skipped
        /\ Len(file.content) \in Nat /\ Len(file.suffix) \in Nat
        /\ Md5!Size = Len(file.content) + SumLen + Len(file.suffix)
        /\ SumAt = Len(file.content) + 1 - Md5!Skipped
    BY <1>3, Sizes
  <1>5. /\ Md5!Size \in Nat /\ Md5!Skipped \in Nat /\ Len(Md5!Tail1) \in Nat /\ SumAt \in Int
        /\ hashed \in Nat
        /\ content_end \in Nat /\ at \in Nat /\ best \in Nat /\ SumLen \in 1..Len(Md5!Tail1)
    <2>1. Md5!Size \in Nat /\ Md5!Skipped \in Nat /\ Len(Md5!Tail1) \in Nat /\ SumAt \in Int
          /\ SumLen \in 1..Len(Md5!Tail1)
      BY <1>3, Sizes
    <2>2. QED  BY <1>3, <2>1
  <1>w. Len(Md5!Tail1) = Md5!Size - Md5!Skipped /\ Len(Md5!Tail1) <= Md5!Size
    <2>1. Len(Md5!Tail1) = Md5!Size - Md5!Skipped
      BY <1>4
    <2> DEFINE L == Len(Md5!Tail1)
    <2> HIDE DEF L
    <2>2. L <= Md5!Size
      <3>1. L = Md5!Size - Md5!Skipped
        BY <2>1 DEF L
      <3>2. QED  BY <1>5, <3>1
    <2>3. QED  BY <2>1, <2>2 DEF L
  <1>6. ASSUME Fitting
        PROVE  /\ SumAt \in 1..(Len(Md5!Tail1) - SumLen + 1)
               /\ Md5!Isolated(SumAt)
               /\ \A p \in (SumAt + 1)..(Len(Md5!Tail1) - SumLen + 1) : ~Md5!Isolated(p)
               /\ \/ SumAt > 1 => Md5!Tail1[SumAt - 1] = "nl"
                  \/ \A k \in 1..(SumAt - 1) : Md5!Tail1[k] # "nl"
               /\ file.intact /\ Len(file.content) > 0
    <2>1. file.content # <<>> /\ file.intact
      BY <1>6 DEF Fitting, Md5!Plain
    <2>2. file.content \in Seq(Md5!Kinds)
      BY <1>3, Sizes
    <2>3. Len(file.content) > 0
      BY <1>4, <2>1, <2>2, EmptySeq
    <2>4. QED  BY <1>3, <1>6, <2>1, <2>3, Alone, NoNewline
  <1>7. CASE UNCHANGED Md5!vars
    BY <1>1, <1>2, <1>7 DEF Md5!vars, SearchInv, FittingInv
  <1>8. CASE Md5!ScanBack
    <2>1. search = "scan" /\ at >= 1 /\ ~Md5!Isolated(at) /\ at' = at - 1
          /\ UNCHANGED <<file, search, best, content_end, hashed>>
      BY <1>8 DEF Md5!ScanBack
    <2>2. SearchInv'
      BY <1>2, <1>3, <1>5, <2>1 DEF SearchInv
    <2>3. ASSUME Fitting PROVE at' >= SumAt
      <3>1. at >= SumAt /\ at # SumAt
        BY <1>6, <2>1, <2>3 DEF FittingInv
      <3>2. QED  BY <1>5, <2>1, <3>1
    <2>4. QED  BY <1>2, <2>1, <2>2, <2>3 DEF FittingInv
  <1>9. CASE Md5!Found
    <2>1. /\ search = "scan" /\ at >= 1 /\ Md5!Isolated(at) /\ best' = at /\ at' = at - 1
          /\ search' = "line"
          /\ UNCHANGED <<file, content_end, hashed>>
      BY <1>9 DEF Md5!Found
    <2>2. SearchInv'
      BY <1>2, <1>3, <1>5, <2>1 DEF SearchInv
    <2>3. ASSUME Fitting PROVE at = SumAt
      <3>1. at >= SumAt
        BY <2>1, <2>3 DEF FittingInv
      <3>2. at <= Len(Md5!Tail1) - SumLen + 1
        <4>1. Md5!Hex(at + SumLen - 1)
          <5>1. at + SumLen - 1 \in at..(at + SumLen - 1)
            BY <1>4, <1>5
          <5>2. QED  BY <2>1, <5>1 DEF Md5!Isolated
        <4>2. at + SumLen - 1 <= Len(Md5!Tail1)
          BY <4>1 DEF Md5!Hex
        <4>3. QED  BY <1>5, <4>2
      <3>3. ~(at \in (SumAt + 1)..(Len(Md5!Tail1) - SumLen + 1))
        BY <1>6, <2>1, <2>3
      <3>4. QED  BY <1>5, <3>1, <3>2, <3>3
    <2>4. QED  BY <1>2, <2>1, <2>2, <2>3 DEF FittingInv
  <1>10. CASE Md5!NotFound
    <2> DEFINE last == Len(Md5!Tail1) - SumLen + 1
    <2>1. /\ search = "scan" /\ at = 0 /\ UNCHANGED <<file, at, hashed>>
          /\ \/ best' = last /\ content_end' = Md5!Size - SumLen /\ search' = "hash"
             \/ search' = "Firmware" /\ UNCHANGED <<best, content_end>>
      BY <1>10 DEF Md5!NotFound
    <2>2. last \in 1..Len(Md5!Tail1) /\ hashed = 0
      BY <1>3, <1>5, <2>1
    <2>s. Md5!Size - SumLen \in 0..Md5!Size
      <3>1. QED  BY <1>5, <1>w
    <2> HIDE DEF last
    <2>3. SearchInv'
      BY <1>2, <1>3, <1>5, <2>1, <2>2, <2>s DEF SearchInv
    <2>4. ~Fitting
      <3> SUFFICES ASSUME Fitting PROVE FALSE
        OBVIOUS
      <3>1. at >= SumAt /\ SumAt >= 1
        BY <1>6, <2>1 DEF FittingInv
      <3>2. QED  BY <1>5, <2>1, <3>1
    <2>5. QED  BY <1>2, <2>3, <2>4 DEF FittingInv
  <1>11. CASE Md5!LineBack
    <2>1. /\ search = "line" /\ at >= 1 /\ Md5!Tail1[at] # "nl" /\ at' = at - 1
          /\ UNCHANGED <<file, search, best, content_end, hashed>>
      BY <1>11 DEF Md5!LineBack
    <2>2. SearchInv'
      BY <1>2, <1>3, <1>5, <2>1 DEF SearchInv
    <2>3. ASSUME Fitting PROVE best = SumAt /\ \A k \in 1..(SumAt - 1) : Md5!Tail1[k] # "nl"
      <3>1. /\ best = SumAt
            /\ \/ at = SumAt - 1
               \/ \A k \in 1..(SumAt - 1) : Md5!Tail1[k] # "nl"
        BY <2>1, <2>3 DEF FittingInv
      <3>2. at = SumAt - 1 => SumAt > 1 /\ Md5!Tail1[SumAt - 1] # "nl"
        BY <1>5, <2>1
      <3>3. QED  BY <1>6, <2>3, <3>1, <3>2
    <2>4. QED  BY <1>2, <2>1, <2>2, <2>3 DEF FittingInv
  <1>12. CASE Md5!LineFound
    <2>1. /\ search = "line" /\ (at > 0 => Md5!Tail1[at] = "nl") /\ content_end' = Md5!Skipped + Md5!LineStart - 1
          /\ search' = "hash" /\ UNCHANGED <<file, at, best, hashed>>
      BY <1>12 DEF Md5!LineFound
    <2>2. Md5!LineStart \in 1..Len(Md5!Tail1)
      BY <1>3, <1>5, <2>1 DEF Md5!LineStart
    <2>3. content_end' \in 0..Md5!Size /\ hashed = 0
      <3>1. /\ Md5!LineStart <= Len(Md5!Tail1) /\ Len(Md5!Tail1) = Md5!Size - Md5!Skipped
            /\ Md5!LineStart \in Nat /\ Md5!LineStart >= 1
        BY <1>w, <2>2
      <3>2. Md5!LineStart <= Md5!Size - Md5!Skipped
        BY <3>1
      <3> HIDE DEF Md5!LineStart
      <3>3. Md5!Skipped + Md5!LineStart - 1 \in 0..Md5!Size
        BY <1>5, <3>1, <3>2
      <3>4. QED  BY <1>3, <2>1, <3>3
    <2>4. SearchInv'
      BY <1>2, <1>3, <2>1, <2>3 DEF SearchInv
    <2>5. ASSUME Fitting PROVE best = SumAt /\ content_end' = Len(file.content)
      <3>1. /\ best = SumAt
            /\ \/ at = SumAt - 1
               \/ \A k \in 1..(SumAt - 1) : Md5!Tail1[k] # "nl"
        BY <2>1, <2>5 DEF FittingInv
      <3>2. Md5!LineStart = SumAt
        <4>1. CASE at = 0
          BY <3>1, <4>1 DEF Md5!LineStart
        <4>2. CASE at = SumAt - 1 /\ at # 0
          BY <1>5, <4>2 DEF Md5!LineStart
        <4>3. CASE at # 0 /\ \A k \in 1..(SumAt - 1) : Md5!Tail1[k] # "nl"
          <5>1. at \in 1..(SumAt - 1) /\ Md5!Tail1[at] = "nl"
            BY <1>3, <1>5, <2>1, <3>1, <4>3
          <5>2. QED  BY <4>3, <5>1
        <4>4. QED  BY <3>1, <4>1, <4>2, <4>3
      <3>3. QED  BY <1>4, <1>5, <2>1, <3>1, <3>2
    <2>6. QED  BY <1>1, <1>2, <2>1, <2>4, <2>5 DEF FittingInv
  <1>13. CASE Md5!HashBuffer
    <2>1. /\ search = "hash" /\ hashed < content_end /\ hashed' = hashed + Md5!Chunk
          /\ UNCHANGED <<file, search, at, best, content_end>>
      BY <1>13 DEF Md5!HashBuffer, Md5!HashEnd
    <2>2. Md5!Chunk \in 1..(content_end - hashed)
      BY <1>5, <2>1 DEF Md5!Chunk, Md5!HashEnd, Md5!SizesAssumption
    <2>3. hashed' \in 0..content_end
      BY <1>5, <2>1, <2>2
    <2>4. SearchInv'
      BY <1>2, <1>3, <2>1, <2>3 DEF SearchInv
    <2>5. QED  BY <1>1, <1>2, <2>1, <2>4 DEF FittingInv
  <1>14. CASE Md5!Compare
    <2>1. /\ search = "hash" /\ hashed = content_end
          /\ search' = IF content_end > 0 /\ Md5!SumsAgree THEN "Success" ELSE "Firmware"
          /\ UNCHANGED <<file, at, best, content_end, hashed>>
      BY <1>14 DEF Md5!Compare, Md5!HashEnd
    <2>2. SearchInv'
      BY <1>2, <1>3, <2>1 DEF SearchInv, Md5!SumsAgree
    <2>3. ASSUME Fitting PROVE search' = "Success"
      <3>1. best = SumAt /\ content_end = Len(file.content)
        BY <2>1, <2>3 DEF FittingInv
      <3>2. Md5!Skipped + best = Md5!TrueStart
        BY <1>4, <1>5, <3>1 DEF Md5!TrueStart
      <3>3. QED  BY <1>6, <2>1, <2>3, <3>1, <3>2 DEF Md5!SumsAgree
    <2>4. QED  BY <1>2, <2>2, <2>3 DEF FittingInv
  <1>15. QED
    BY <1>7, <1>8, <1>9, <1>10, <1>11, <1>12, <1>13, <1>14 DEF Md5!Next

LEMMA SearchInvariant ==
    ASSUME Md5!FilesAssumption, Md5!SizesAssumption
    PROVE  Spec => [](SearchInv /\ FittingInv)
  <1>1. Init => SearchInv /\ FittingInv
    BY SearchInit DEF Init
  <1>2. (SearchInv /\ FittingInv) /\ [Next]_all => (SearchInv /\ FittingInv)'
    BY SearchStep, PartSteps
  <1>3. QED  BY <1>1, <1>2, PTL DEF Spec

\* What is walked as the archive after a check that succeeded is exactly what the
\* sum was made of, whatever stands in the file.
THEOREM AcceptedFilesAreSigned ==
    ASSUME Md5!FilesAssumption, Md5!SizesAssumption
    PROVE  Spec => []AcceptedIsSigned
  <1>1. ASSUME SearchInv PROVE AcceptedIsSigned
    <2>1. file.intact \in BOOLEAN
      BY <1>1, Sizes DEF SearchInv
    <2>2. QED  BY <1>1, <2>1 DEF SearchInv, AcceptedIsSigned, Md5!TypeOK, Md5!AcceptedIsSigned
  <1>2. QED  BY <1>1, SearchInvariant, PTL

\* A good file without a newline where the search for the start of the line goes
\* is accepted, wherever the boundary of the tail falls.
THEOREM GoodFilesAreAccepted ==
    ASSUME Md5!FilesAssumption, Md5!SizesAssumption
    PROVE  Spec => []GoodIsAccepted
  <1>1. ASSUME FittingInv PROVE GoodIsAccepted
    BY <1>1 DEF FittingInv, Fitting, GoodIsAccepted, Md5!GoodIsAccepted
  <1>2. QED  BY <1>1, SearchInvariant, PTL

-----------------------------------------------------------------------------
(* A number of a header.                                                   *)

\* Where the number starts, and where it ends.
NumberStarts(k) ==
    /\ k \in 1..(Len(field) + 1)
    /\ \A j \in 1..(k - 1) : field[j] = Octal!Blank
    /\ k <= Len(field) => field[k] # Octal!Blank
NumberEnds(k) ==
    /\ k \in Octal!First..(Len(field) + 1)
    /\ \A j \in Octal!First..(k - 1) : field[j] \notin {Octal!Blank, Octal!Nul}
    /\ k <= Len(field) => field[k] \in {Octal!Blank, Octal!Nul}

LEMMA FieldTyped ==
    ASSUME Octal!FieldsAssumption, field \in Fields
    PROVE  /\ Len(field) \in Nat
           /\ \A k \in 1..Len(field) : field[k] \in Octal!Digits \cup {Octal!Blank, Octal!Nul, Octal!Other}
  BY DEF Octal!FieldsAssumption

LEMMA FirstIs ==
    ASSUME Octal!FieldsAssumption, field \in Fields
    PROVE  NumberStarts(Octal!First) /\ \A k : NumberStarts(k) => k = Octal!First
  <1> DEFINE U == {k \in Nat : k >= 1 /\ (k <= Len(field) => field[k] # Octal!Blank)}
  <1>0. Len(field) \in Nat
    BY FieldTyped
  <1>1. U \in SUBSET Nat /\ U # {}
    <2>1. Len(field) + 1 \in U
      BY <1>0
    <2>2. QED  BY <2>1
  <1>2. PICK x \in U : \A y \in U : x <= y
    <2> HIDE DEF U
    <2>1. QED  BY <1>1, Least
  <1>3. NumberStarts(x)
    <2>1. x <= Len(field) + 1
      BY <1>0, <1>2
    <2>2. ASSUME NEW j \in 1..(x - 1) PROVE field[j] = Octal!Blank
      <3>1. j \in Nat /\ j >= 1 /\ j < x
        OBVIOUS
      <3>2. j \notin U
        BY <1>2, <3>1
      <3>3. QED  BY <3>1, <3>2
    <2>3. QED  BY <1>0, <2>1, <2>2 DEF NumberStarts
  <1>4. ASSUME NEW k, NumberStarts(k), NEW l, NumberStarts(l) PROVE k = l
    <2>1. k \in 1..(Len(field) + 1) /\ l \in 1..(Len(field) + 1)
      BY <1>4 DEF NumberStarts
    <2>2. ~(k < l)
      <3> SUFFICES ASSUME k < l PROVE FALSE
        OBVIOUS
      <3>1. k \in 1..(l - 1) /\ k <= Len(field)
        BY <1>0, <2>1
      <3>2. QED  BY <1>4, <3>1 DEF NumberStarts
    <2>3. ~(l < k)
      <3> SUFFICES ASSUME l < k PROVE FALSE
        OBVIOUS
      <3>1. l \in 1..(k - 1) /\ l <= Len(field)
        BY <1>0, <2>1
      <3>2. QED  BY <1>4, <3>1 DEF NumberStarts
    <2>4. QED  BY <1>0, <2>1, <2>2, <2>3
  <1>5. Octal!First = CHOOSE k \in 1..(Len(field) + 1) :
                   /\ \A j \in 1..(k - 1) : field[j] = Octal!Blank
                   /\ k <= Len(field) => field[k] # Octal!Blank
    BY DEF Octal!First
  <1>6. NumberStarts(Octal!First)
    BY <1>3, <1>5 DEF NumberStarts
  <1>7. QED  BY <1>4, <1>6

LEMMA EndIs ==
    ASSUME Octal!FieldsAssumption, field \in Fields
    PROVE  NumberEnds(Octal!End) /\ \A k : NumberEnds(k) => k = Octal!End
  <1> DEFINE U == {k \in Nat : k >= Octal!First /\ (k <= Len(field) => field[k] \in {Octal!Blank, Octal!Nul})}
  <1>0. Len(field) \in Nat /\ Octal!First \in 1..(Len(field) + 1)
    BY FieldTyped, FirstIs DEF NumberStarts
  <1>1. U \in SUBSET Nat /\ U # {}
    <2>1. Len(field) + 1 \in U
      BY <1>0
    <2>2. QED  BY <2>1
  <1>2. PICK x \in U : \A y \in U : x <= y
    <2> HIDE DEF U
    <2>1. QED  BY <1>1, Least
  <1>3. NumberEnds(x)
    <2>1. x <= Len(field) + 1
      BY <1>0, <1>2
    <2>2. ASSUME NEW j \in Octal!First..(x - 1) PROVE field[j] \notin {Octal!Blank, Octal!Nul}
      <3>1. j \in Nat /\ j >= Octal!First /\ j < x
        BY <1>0
      <3>2. j \notin U
        BY <1>2, <3>1
      <3>3. QED  BY <3>1, <3>2
    <2>3. QED  BY <1>0, <2>1, <2>2 DEF NumberEnds
  <1>4. ASSUME NEW k, NumberEnds(k), NEW l, NumberEnds(l) PROVE k = l
    <2>1. k \in Octal!First..(Len(field) + 1) /\ l \in Octal!First..(Len(field) + 1)
      BY <1>4 DEF NumberEnds
    <2>2. ~(k < l)
      <3> SUFFICES ASSUME k < l PROVE FALSE
        OBVIOUS
      <3>1. k \in Octal!First..(l - 1) /\ k <= Len(field)
        BY <1>0, <2>1
      <3>2. QED  BY <1>4, <3>1 DEF NumberEnds
    <2>3. ~(l < k)
      <3> SUFFICES ASSUME l < k PROVE FALSE
        OBVIOUS
      <3>1. l \in Octal!First..(k - 1) /\ l <= Len(field)
        BY <1>0, <2>1
      <3>2. QED  BY <1>4, <3>1 DEF NumberEnds
    <2>4. QED  BY <1>0, <2>1, <2>2, <2>3
  <1>5. Octal!End = CHOOSE k \in Octal!First..(Len(field) + 1) :
                   /\ \A j \in Octal!First..(k - 1) : field[j] \notin {Octal!Blank, Octal!Nul}
                   /\ k <= Len(field) => field[k] \in {Octal!Blank, Octal!Nul}
    BY DEF Octal!End
  <1>6. NumberEnds(Octal!End)
    BY <1>3, <1>5 DEF NumberEnds
  <1>7. QED  BY <1>4, <1>6

\* The characters count as their value; what is no digit does not matter.
LEMMA UptoIs ==
    ASSUME Octal!FieldsAssumption, field \in Fields
    PROVE  /\ Octal!Upto \in [0..Len(field) -> Nat]
           /\ \A k \in 0..Len(field) :
                 Octal!Upto[k] = IF k < Octal!First THEN 0 ELSE Octal!Upto[k - 1] * 8 + field[k]
  <1> DEFINE N == Len(field)
             G == [p \in (1..N) \X Nat |-> IF p[1] < Octal!First THEN 0 ELSE p[2] * 8 + field[p[1]]]
  <1>1. N \in Nat /\ Octal!First \in 1..(N + 1) /\ \A k \in 1..N : field[k] \in Nat
    BY FieldTyped, FirstIs DEF NumberStarts, Octal!Digits, Octal!Blank, Octal!Nul, Octal!Other
  <1>2. G \in [(1..N) \X Nat -> Nat]
    <2>1. ASSUME NEW p \in (1..N) \X Nat
          PROVE  (IF p[1] < Octal!First THEN 0 ELSE p[2] * 8 + field[p[1]]) \in Nat
      <3>1. p[1] \in 1..N /\ p[2] \in Nat
        OBVIOUS
      <3>2. field[p[1]] \in Nat
        BY <1>1, <3>1
      <3>3. QED  BY <1>1, <3>1, <3>2
    <2>2. QED  BY <2>1
  <1>3. PICK f \in [0..N -> Nat] : f[0] = 0 /\ \A k \in 1..N : f[k] = G[<<k, f[k - 1]>>]
    <2> HIDE DEF G, N
    <2>1. 0 \in Nat
      OBVIOUS
    <2>2. N \in Nat
      BY <1>1
    <2>3. \E f : Follows(f, N, Nat, 0, G)
      BY <1>2, <2>1, <2>2, Recursion
    <2>4. QED  BY <2>3 DEF Follows
  <1>4. ASSUME NEW k \in 0..N
        PROVE  f[k] = IF k < Octal!First THEN 0 ELSE f[k - 1] * 8 + field[k]
    <2>1. CASE k = 0
      BY <1>1, <1>3, <2>1
    <2>2. CASE k # 0
      <3>1. k \in 1..N /\ k - 1 \in 0..N
        BY <1>1, <2>2
      <3>2. f[k - 1] \in Nat
        BY <1>3, <3>1
      <3>3. f[k] = G[<<k, f[k - 1]>>]
        BY <1>3, <3>1
      <3>4. QED  BY <3>1, <3>2, <3>3
    <2>3. QED  BY <2>1, <2>2
  <1>5. f = [k \in 0..N |-> IF k < Octal!First THEN 0 ELSE f[k - 1] * 8 + field[k]]
    BY <1>3, <1>4
  <1>6. Octal!Upto = [k \in 0..N |-> IF k < Octal!First THEN 0 ELSE Octal!Upto[k - 1] * 8 + field[k]]
    BY <1>5 DEF Octal!Upto
  <1>7. \A k \in 0..N : Octal!Upto[k] = IF k < Octal!First THEN 0 ELSE Octal!Upto[k - 1] * 8 + field[k]
    BY <1>6
  <1>8. \A n \in Nat : n \in {k \in Nat : k <= N => Octal!Upto[k] \in Nat}
    <2> DEFINE T == {k \in Nat : k <= N => Octal!Upto[k] \in Nat}
    <2>1. 0 \in T
      BY <1>1, <1>7
    <2>2. ASSUME NEW n \in Nat, n \in T PROVE n + 1 \in T
      <3> SUFFICES ASSUME n + 1 <= N PROVE Octal!Upto[n + 1] \in Nat
        OBVIOUS
      <3>1. n + 1 \in 0..N /\ n + 1 \in 1..N /\ (n + 1) - 1 = n /\ Octal!Upto[n] \in Nat
        BY <1>1, <2>2
      <3>2. Octal!Upto[n + 1] = IF n + 1 < Octal!First THEN 0 ELSE Octal!Upto[n] * 8 + field[n + 1]
        BY <1>7, <3>1
      <3>3. field[n + 1] \in Nat
        BY <1>1, <3>1
      <3>4. QED  BY <3>1, <3>2, <3>3
    <2> HIDE DEF T
    <2>3. \A n \in Nat : n \in T
      BY <2>1, <2>2, SetInduction
    <2>4. QED  BY <2>3 DEF T
  <1>9. \A k \in 0..N : Octal!Upto[k] \in Nat
    BY <1>1, <1>8
  <1>10. Octal!Upto \in [0..N -> Nat]
    BY <1>6, <1>9
  <1>11. QED  BY <1>7, <1>10

\* Another digit never makes a number smaller.
LEMMA UptoGrows ==
    ASSUME Octal!FieldsAssumption, field \in Fields, NEW k \in 0..Len(field),
           Octal!First <= k + 1
    PROVE  \A l \in k..Len(field) : Octal!Upto[l] >= Octal!Upto[k]
  <1> DEFINE T == {n \in Nat : k + n <= Len(field) => Octal!Upto[k + n] >= Octal!Upto[k]}
  <1>0. /\ Len(field) \in Nat /\ Octal!First \in 1..(Len(field) + 1)
        /\ \A j \in 1..Len(field) : field[j] \in Nat
        /\ \A j \in 0..Len(field) : Octal!Upto[j] \in Nat
    <2>1. Len(field) \in Nat /\ Octal!First \in 1..(Len(field) + 1)
      BY FieldTyped, FirstIs DEF NumberStarts
    <2>2. \A j \in 1..Len(field) : field[j] \in Nat
      BY FieldTyped DEF Octal!Digits, Octal!Blank, Octal!Nul, Octal!Other
    <2>3. Octal!Upto \in [0..Len(field) -> Nat]
      BY UptoIs
    <2>4. QED  BY <2>1, <2>2, <2>3
  <1>1. 0 \in T
    BY <1>0
  <1>2. ASSUME NEW n \in Nat, n \in T PROVE n + 1 \in T
    <2> SUFFICES ASSUME k + (n + 1) <= Len(field) PROVE Octal!Upto[k + (n + 1)] >= Octal!Upto[k]
      OBVIOUS
    <2> DEFINE m == k + n
    <2>1. m \in 0..Len(field) /\ m + 1 \in 1..Len(field) /\ m + 1 \in 0..Len(field)
          /\ k + (n + 1) = m + 1 /\ (m + 1) - 1 = m /\ ~(m + 1 < Octal!First)
      BY <1>0
    <2>2. Octal!Upto[m] >= Octal!Upto[k]
      BY <1>0, <1>2, <2>1
    <2> HIDE DEF m
    <2>3. Octal!Upto[m + 1] = Octal!Upto[m] * 8 + field[m + 1]
      BY <2>1, UptoIs
    <2>4. Octal!Upto[m] \in Nat /\ Octal!Upto[k] \in Nat /\ field[m + 1] \in Nat
      BY <1>0, <2>1
    <2>5. Octal!Upto[m + 1] >= Octal!Upto[k]
      BY <2>2, <2>3, <2>4
    <2>6. QED  BY <2>1, <2>5
  <1>3. \A n \in Nat : n \in T
    <2> HIDE DEF T
    <2>1. QED  BY <1>1, <1>2, SetInduction
  <1>4. ASSUME NEW l \in k..Len(field) PROVE Octal!Upto[l] >= Octal!Upto[k]
    <2>1. l - k \in Nat /\ k + (l - k) = l /\ l <= Len(field)
      BY <1>0
    <2>2. Octal!Upto[k + (l - k)] >= Octal!Upto[k]
      BY <1>3, <2>1
    <2>3. QED  BY <2>1, <2>2
  <1>5. QED  BY <1>4

\* A digit is found lost exactly if the number it belongs to does not fit.
LEMMA LostIsLost ==
    ASSUME Octal!TopAssumption, out \in 0..(Top - 1), NEW c \in Octal!Octal
    PROVE  /\ Octal!Lost(c) <=> out * 8 + c >= Top
           /\ ~Octal!Lost(c) => Octal!Shifted(c) = out * 8 + c
  <1> DEFINE x == out * 8
             r == x % Top
  <1>1. Top \in Nat /\ Top > 0 /\ Top % 8 = 0 /\ out \in Nat /\ c \in 0..7 /\ x \in Nat
    BY DEF Octal!TopAssumption, Octal!Octal
  <1>2. Octal!Shifted(c) = r + c /\ (Octal!Lost(c) <=> (r + c) \div 8 # out)
    BY DEF Octal!Shifted, Octal!Lost
  <1>3. CASE x < Top
    <2> HIDE DEF x
    <2>1. r = x
      BY <1>1, <1>3
    <2>2. x + c < Top
      <3>1. x = out * 8
        BY DEF x
      <3>2. QED  BY <1>1, <1>3, <3>1
    <2>3. (x + c) \div 8 = out
      <3>1. x = out * 8
        BY DEF x
      <3>2. QED  BY <1>1, <3>1
    <2> HIDE DEF r
    <2>4. QED  BY <1>1, <1>2, <2>1, <2>2, <2>3 DEF x
  <1>4. CASE x >= Top
    <2>1. r \in Nat /\ r <= x - Top
      <3> HIDE DEF x
      <3> DEFINE q == x \div Top
      <3>1. q \in Nat /\ x = Top * q + r /\ r \in 0..(Top - 1)
        BY <1>1
      <3>2. q # 0
        <4> HIDE DEF q, r
        <4>1. q = 0 => Top * q = 0
          BY <1>1
        <4>2. QED  BY <1>1, <1>4, <3>1, <4>1
      <3> HIDE DEF q, r
      <3>3. Top * q >= Top
        BY <1>1, <3>1, <3>2
      <3>4. Top * q \in Nat
        BY <1>1, <3>1
      <3>5. QED  BY <1>1, <3>1, <3>3, <3>4
    <2> HIDE DEF r
    <2>2. (r + c) \div 8 # out
      BY <1>1, <2>1
    <2>3. out * 8 + c >= Top
      BY <1>1, <1>4
    <2>4. QED  BY <1>2, <2>2, <2>3
  <1>5. QED  BY <1>1, <1>3, <1>4

-----------------------------------------------------------------------------
(* The number that is read.                                                *)

NumberInv ==
    /\ field \in Fields /\ out \in 0..(Top - 1)
    /\ parsing \in {"blanks", "digits", "true", "false"}
    /\ digit \in 1..(Len(field) + 1)
    /\ parsing = "blanks" => out = 0 /\ \A j \in 1..(digit - 1) : field[j] = Octal!Blank
    /\ parsing # "blanks" =>
          /\ digit >= Octal!First /\ out = Octal!Upto[digit - 1]
          /\ \A j \in Octal!First..(digit - 1) : field[j] \in Octal!Octal
    /\ parsing = "true" => NumberEnds(digit)
    /\ parsing = "false" =>
          /\ digit <= Len(field) /\ field[digit] \notin {Octal!Blank, Octal!Nul}
          /\ field[digit] \notin Octal!Octal \/ Octal!Upto[digit] >= Top

LEMMA NumberInit ==
    ASSUME Octal!FieldsAssumption, Octal!TopAssumption, Octal!Init
    PROVE  NumberInv
  <1>1. field \in Fields /\ digit = 1 /\ out = 0 /\ parsing = "blanks"
    BY DEF Octal!Init
  <1>2. Len(field) \in Nat /\ Top \in Nat /\ Top > 0
    BY <1>1, FieldTyped DEF Octal!TopAssumption
  <1>3. QED  BY <1>1, <1>2 DEF NumberInv

LEMMA NumberStep ==
    ASSUME Octal!FieldsAssumption, Octal!TopAssumption, NumberInv, [Octal!Next]_(Octal!vars)
    PROVE  NumberInv'
  <1>1. field' = field
    BY DEF Octal!Next, Octal!vars, Octal!SkipBlanks, Octal!Digit, Octal!Done
  <1>2. Octal!First' = Octal!First /\ Octal!Upto' = Octal!Upto /\ \A k : NumberEnds(k)' = NumberEnds(k)
    BY <1>1 DEF Octal!First, Octal!Upto, NumberEnds
  <1>3. /\ field \in Fields /\ out \in 0..(Top - 1)
        /\ parsing \in {"blanks", "digits", "true", "false"}
        /\ digit \in 1..(Len(field) + 1)
    BY DEF NumberInv
  <1>4. Len(field) \in Nat /\ Octal!First \in 1..(Len(field) + 1) /\ digit \in Nat
    BY <1>3, FieldTyped, FirstIs DEF NumberStarts
  <1>5. CASE UNCHANGED Octal!vars
    BY <1>1, <1>2, <1>5 DEF Octal!vars, NumberInv
  <1>6. CASE Octal!SkipBlanks
    <2>1. parsing = "blanks" /\ UNCHANGED <<field, out>>
      BY <1>6 DEF Octal!SkipBlanks
    <2>2. out = 0 /\ \A j \in 1..(digit - 1) : field[j] = Octal!Blank
      BY <2>1 DEF NumberInv
    <2>3. CASE digit <= Len(field) /\ field[digit] = Octal!Blank
      <3>1. digit' = digit + 1 /\ UNCHANGED parsing
        BY <1>6, <2>3 DEF Octal!SkipBlanks
      <3>2. digit + 1 \in 1..(Len(field) + 1) /\ \A j \in 1..((digit + 1) - 1) : j = digit \/ j \in 1..(digit - 1)
        BY <1>4, <2>3
      <3>3. \A j \in 1..((digit + 1) - 1) : field[j] = Octal!Blank
        BY <2>2, <2>3, <3>2
      <3>4. QED  BY <1>1, <1>2, <1>3, <2>1, <2>2, <3>1, <3>2, <3>3 DEF NumberInv
    <2>4. CASE ~(digit <= Len(field) /\ field[digit] = Octal!Blank)
      <3>1. digit' = digit /\ parsing' = "digits"
        BY <1>6, <2>4 DEF Octal!SkipBlanks
      <3>2. NumberStarts(digit)
        BY <1>3, <2>2, <2>4 DEF NumberStarts
      <3>3. digit = Octal!First
        BY <1>3, <3>2, FirstIs
      <3>4. digit - 1 \in 0..Len(field) /\ digit - 1 < Octal!First
        BY <1>3, <1>4, <3>3
      <3>5. Octal!Upto[digit - 1] = 0
        BY <1>3, <3>4, UptoIs
      <3>6. \A j \in Octal!First..(digit - 1) : FALSE
        BY <1>4, <3>3
      <3>7. digit >= Octal!First
        BY <1>4, <3>3
      <3>8. QED  BY <1>1, <1>2, <1>3, <2>1, <2>2, <3>1, <3>5, <3>6, <3>7 DEF NumberInv
    <2>5. QED  BY <2>3, <2>4
  <1>7. CASE Octal!Digit
    <2>1. parsing = "digits" /\ ~Octal!AtEnd /\ UNCHANGED field
      BY <1>7 DEF Octal!Digit
    <2>2. digit <= Len(field) /\ field[digit] \notin {Octal!Blank, Octal!Nul}
      BY <2>1 DEF Octal!AtEnd
    <2>3. /\ digit >= Octal!First /\ out = Octal!Upto[digit - 1]
          /\ \A j \in Octal!First..(digit - 1) : field[j] \in Octal!Octal
      BY <2>1 DEF NumberInv
    <2>4. digit \in 0..Len(field) /\ digit - 1 \in 0..Len(field) /\ ~(digit < Octal!First)
      BY <1>4, <1>3, <2>2, <2>3
    <2>5. Octal!Upto[digit] = out * 8 + field[digit]
      BY <1>3, <2>3, <2>4, UptoIs
    <2>6. CASE field[digit] \notin Octal!Octal \/ Octal!Lost(field[digit])
      <3>1. parsing' = "false" /\ UNCHANGED <<digit, out>>
        BY <1>7, <2>6 DEF Octal!Digit
      <3>2. field[digit] \notin Octal!Octal \/ Octal!Upto[digit] >= Top
        BY <1>3, <2>5, <2>6, LostIsLost
      <3>3. QED  BY <1>1, <1>2, <1>3, <2>2, <2>3, <3>1, <3>2 DEF NumberInv
    <2>7. CASE ~(field[digit] \notin Octal!Octal \/ Octal!Lost(field[digit]))
      <3>1. out' = Octal!Shifted(field[digit]) /\ digit' = digit + 1 /\ UNCHANGED parsing
        BY <1>7, <2>7 DEF Octal!Digit
      <3>2. /\ Octal!Shifted(field[digit]) = Octal!Upto[digit]
            /\ ~(out * 8 + field[digit] >= Top) /\ field[digit] \in 0..7
        BY <1>3, <2>5, <2>7, LostIsLost DEF Octal!Octal
      <3>3. out' \in 0..(Top - 1)
        <4>1. Top \in Nat /\ out \in Nat
          BY <1>3 DEF Octal!TopAssumption
        <4>2. QED  BY <2>5, <3>1, <3>2, <4>1
      <3>4. (digit + 1) - 1 = digit /\ digit + 1 \in 1..(Len(field) + 1) /\ digit + 1 >= Octal!First
        BY <1>4, <2>2, <2>3
      <3>5. \A j \in Octal!First..((digit + 1) - 1) : field[j] \in Octal!Octal
        <4>1. \A j \in Octal!First..((digit + 1) - 1) : j = digit \/ j \in Octal!First..(digit - 1)
          BY <1>4
        <4>2. QED  BY <2>3, <2>7, <4>1
      <3>6. QED  BY <1>1, <1>2, <1>3, <2>1, <3>1, <3>2, <3>3, <3>4, <3>5 DEF NumberInv
    <2>8. QED  BY <2>6, <2>7
  <1>8. CASE Octal!Done
    <2>1. parsing = "digits" /\ Octal!AtEnd /\ parsing' = "true" /\ UNCHANGED <<field, digit, out>>
      BY <1>8 DEF Octal!Done
    <2>2. /\ digit >= Octal!First /\ out = Octal!Upto[digit - 1]
          /\ \A j \in Octal!First..(digit - 1) : field[j] \in Octal!Octal
      BY <2>1 DEF NumberInv
    <2>3. NumberEnds(digit)
      <3>1. Octal!Blank \notin Octal!Octal /\ Octal!Nul \notin Octal!Octal
        BY DEF Octal!Octal, Octal!Blank, Octal!Nul
      <3>2. digit \in Octal!First..(Len(field) + 1)
        BY <1>3, <1>4, <2>2
      <3>3. QED  BY <2>1, <2>2, <3>1, <3>2 DEF NumberEnds, Octal!AtEnd
    <2>4. QED  BY <1>1, <1>2, <1>3, <2>1, <2>2, <2>3 DEF NumberInv
  <1>9. QED  BY <1>5, <1>6, <1>7, <1>8 DEF Octal!Next

\* A number of a header is taken exactly if it is octal and fits, and then with its
\* value.
THEOREM NumbersAreExact ==
    ASSUME Octal!FieldsAssumption, Octal!TopAssumption
    PROVE  Spec => [](Octal!TypeOK /\ Octal!ExactOrRefused)
  <1>1. ASSUME NumberInv PROVE Octal!TypeOK /\ Octal!ExactOrRefused
    <2>1. field \in Fields /\ digit \in 1..(Len(field) + 1) /\ out \in 0..(Top - 1) /\ Top \in Nat
      BY <1>1 DEF NumberInv, Octal!TopAssumption
    <2>2. Len(field) \in Nat /\ Octal!First \in 1..(Len(field) + 1) /\ NumberEnds(Octal!End)
      BY <2>1, FieldTyped, FirstIs, EndIs DEF NumberStarts
    <2>3. ASSUME parsing = "true" PROVE Octal!WellFormed /\ Octal!Value < Top /\ out = Octal!Value
      <3>1. /\ NumberEnds(digit) /\ out = Octal!Upto[digit - 1]
            /\ \A j \in Octal!First..(digit - 1) : field[j] \in Octal!Octal
        BY <1>1, <2>3 DEF NumberInv
      <3>2. digit = Octal!End
        BY <2>1, <3>1, EndIs
      <3>3. QED  BY <2>1, <3>1, <3>2 DEF Octal!WellFormed, Octal!Value
    <2>4. ASSUME parsing = "false", Octal!WellFormed PROVE Octal!Value >= Top
      <3>1. /\ digit >= Octal!First /\ digit <= Len(field)
            /\ field[digit] \notin {Octal!Blank, Octal!Nul}
            /\ \A j \in Octal!First..(digit - 1) : field[j] \in Octal!Octal
            /\ field[digit] \notin Octal!Octal \/ Octal!Upto[digit] >= Top
        BY <1>1, <2>4 DEF NumberInv
      <3>2. Octal!End \in Octal!First..(Len(field) + 1) /\ (Octal!End <= Len(field) => field[Octal!End] \in {Octal!Blank, Octal!Nul})
        BY <2>2 DEF NumberEnds
      <3>3. digit < Octal!End
        <4>1. Octal!End # digit
          BY <3>1, <3>2
        <4>2. ~(Octal!End < digit)
          <5> SUFFICES ASSUME Octal!End < digit PROVE FALSE
            OBVIOUS
          <5>1. Octal!End \in Octal!First..(digit - 1) /\ Octal!End <= Len(field)
            BY <2>1, <2>2, <3>1, <3>2
          <5>2. field[Octal!End] \in Octal!Octal /\ field[Octal!End] \in {Octal!Blank, Octal!Nul}
            BY <3>1, <3>2, <5>1
          <5>3. QED  BY <5>2 DEF Octal!Octal, Octal!Blank, Octal!Nul
        <4>3. QED  BY <2>1, <2>2, <3>2, <4>1, <4>2
      <3>4. digit \in Octal!First..(Octal!End - 1)
        BY <2>1, <2>2, <3>1, <3>2, <3>3
      <3>5. Octal!Upto[digit] >= Top
        BY <2>4, <3>1, <3>4 DEF Octal!WellFormed
      <3>6. /\ digit \in 0..Len(field) /\ Octal!First <= digit + 1
            /\ Octal!End - 1 \in digit..Len(field) /\ Octal!End - 1 \in 0..Len(field)
        BY <2>1, <2>2, <3>1, <3>2, <3>3
      <3>7. Octal!Upto[Octal!End - 1] >= Octal!Upto[digit]
        BY <2>1, <3>6, UptoGrows
      <3>8. Octal!Upto[digit] \in Nat /\ Octal!Upto[Octal!End - 1] \in Nat
        BY <2>1, <3>6, UptoIs
      <3>9. QED  BY <2>1, <3>5, <3>7, <3>8 DEF Octal!Value
    <2>5. QED  BY <1>1, <2>1, <2>3, <2>4 DEF Octal!TypeOK, Octal!ExactOrRefused, NumberInv
  <1>2. Init => NumberInv
    BY NumberInit DEF Init
  <1>3. NumberInv /\ [Next]_all => NumberInv'
    BY NumberStep, PartSteps
  <1>4. QED  BY <1>1, <1>2, <1>3, PTL DEF Spec

-----------------------------------------------------------------------------
(* The checksum of a header.                                               *)

\* How a byte is read for one of the two sums.
Readings == {Sum!AsUnsigned, Sum!AsSigned}

LEMMA Reading ==
    /\ \A read \in Readings : \A b \in Sum!Byte : read[b] \in Int
    /\ \A b \in Sum!Byte : Sum!AsUnsigned[b] = Sum!AsSigned[b] \/ Sum!AsUnsigned[b] = Sum!AsSigned[b] + 256
  <1>1. \A b \in Sum!Byte : b \in 0..255 /\ Sum!AsUnsigned[b] = b /\ Sum!AsSigned[b] = Sum!Signed(b)
    BY DEF Sum!AsUnsigned, Sum!AsSigned, Sum!Byte
  <1>2. \A b \in 0..255 : Sum!Signed(b) \in Int /\ (b = Sum!Signed(b) \/ b = Sum!Signed(b) + 256)
    BY DEF Sum!Signed
  <1>3. \A b \in Sum!Byte : Sum!AsUnsigned[b] \in Int /\ Sum!AsSigned[b] \in Int
    BY <1>1, <1>2
  <1>4. ASSUME NEW b \in Sum!Byte
        PROVE  Sum!AsUnsigned[b] = Sum!AsSigned[b] \/ Sum!AsUnsigned[b] = Sum!AsSigned[b] + 256
    <2>1. b \in 0..255 /\ Sum!AsUnsigned[b] = b /\ Sum!AsSigned[b] = Sum!Signed(b)
      BY <1>1
    <2>2. b = Sum!Signed(b) \/ b = Sum!Signed(b) + 256
      BY <1>2, <2>1
    <2>3. QED  BY <2>1, <2>2
  <1>5. QED  BY <1>3, <1>4 DEF Readings

\* The sum after each byte.
LEMMA SumsAre ==
    ASSUME Sum!FieldLenAssumption, NEW h \in Seq(Sum!Byte), NEW read \in Readings
    PROVE  /\ Sum!Sums(h, read)[0] = FieldLen * Sum!Blank
           /\ \A k \in 1..Len(h) : Sum!Sums(h, read)[k] = Sum!Sums(h, read)[k - 1] + read[h[k]]
           /\ \A k \in 0..Len(h) : Sum!Sums(h, read)[k] \in Int
  <1> DEFINE N == Len(h)
             c == FieldLen * Sum!Blank
             G == [p \in (1..N) \X Int |-> p[2] + read[h[p[1]]]]
             u == Sum!Sums(h, read)
  <1>1. N \in Nat /\ c \in Int /\ \A k \in 1..N : read[h[k]] \in Int
    <2>1. N \in Nat /\ \A k \in 1..N : h[k] \in Sum!Byte
      OBVIOUS
    <2>2. c \in Int
      BY DEF Sum!FieldLenAssumption, Sum!Blank
    <2>3. QED  BY <2>1, <2>2, Reading
  <1>2. G \in [(1..N) \X Int -> Int]
    <2>1. ASSUME NEW p \in (1..N) \X Int PROVE p[2] + read[h[p[1]]] \in Int
      <3>1. p[1] \in 1..N /\ p[2] \in Int
        OBVIOUS
      <3>2. QED  BY <1>1, <3>1
    <2>2. QED  BY <2>1
  <1>3. PICK f : Follows(f, N, Int, c, G)
    <2> HIDE DEF G, N, c
    <2>1. N \in Nat /\ c \in Int
      BY <1>1
    <2>2. QED  BY <1>2, <2>1, Recursion
  <1>4. /\ f \in [0..N -> Int] /\ f[0] = c
        /\ \A k \in 1..N : f[k] = f[k - 1] + read[h[k]]
    <2>1. f \in [0..N -> Int] /\ f[0] = c /\ \A k \in 1..N : f[k] = G[<<k, f[k - 1]>>]
      BY <1>3 DEF Follows
    <2>2. ASSUME NEW k \in 1..N PROVE f[k] = f[k - 1] + read[h[k]]
      <3>1. k - 1 \in 0..N
        BY <1>1
      <3>2. f[k - 1] \in Int
        BY <2>1, <3>1
      <3>3. QED  BY <2>1, <3>2
    <2>3. QED  BY <2>1, <2>2
  <1>5. f = [k \in 0..N |-> IF k = 0 THEN c ELSE f[k - 1] + read[h[k]]]
    <2>1. \A k \in 0..N : k = 0 \/ k \in 1..N
      BY <1>1
    <2>2. \A k \in 0..N : f[k] = IF k = 0 THEN c ELSE f[k - 1] + read[h[k]]
      BY <1>4, <2>1
    <2>3. QED  BY <1>4, <2>2
  <1>6. u = [k \in 0..N |-> IF k = 0 THEN c ELSE u[k - 1] + read[h[k]]]
    BY <1>5 DEF Sum!Sums
  <1> HIDE DEF u
  <1>7. u[0] = c /\ \A k \in 1..N : u[k] = u[k - 1] + read[h[k]]
    <2>1. 0 \in 0..N /\ \A k \in 1..N : k \in 0..N /\ k # 0
      BY <1>1
    <2>2. QED  BY <1>6, <2>1
  <1>8. \A k \in 0..N : u[k] \in Int
    <2> DEFINE T == {n \in Nat : n <= N => u[n] \in Int}
    <2>1. 0 \in T
      BY <1>1, <1>7
    <2>2. ASSUME NEW n \in Nat, n \in T PROVE n + 1 \in T
      <3> SUFFICES ASSUME n + 1 <= N PROVE u[n + 1] \in Int
        OBVIOUS
      <3>1. n + 1 \in 1..N /\ (n + 1) - 1 = n /\ u[n] \in Int
        BY <1>1, <2>2
      <3>2. QED  BY <1>1, <1>7, <3>1
    <2> HIDE DEF T
    <2>3. \A n \in Nat : n \in T
      BY <2>1, <2>2, SetInduction
    <2>4. QED  BY <1>1, <2>3 DEF T
  <1>9. QED  BY <1>7, <1>8 DEF u

\* Nothing negative is added to the unsigned sum.
LEMMA UnsignedIsNat ==
    ASSUME Sum!FieldLenAssumption, NEW h \in Seq(Sum!Byte), NEW n \in 0..Len(h)
    PROVE  Sum!Sums(h, Sum!AsUnsigned)[n] \in Nat
  <1> DEFINE U == Sum!Sums(h, Sum!AsUnsigned)
             T == {k \in Nat : k <= Len(h) => U[k] \in Nat}
  <1>1. /\ U[0] = FieldLen * Sum!Blank /\ \A k \in 1..Len(h) : U[k] = U[k - 1] + Sum!AsUnsigned[h[k]]
        /\ Len(h) \in Nat
    BY SumsAre DEF Readings
  <1>2. \A k \in 1..Len(h) : Sum!AsUnsigned[h[k]] \in Nat
    <2>1. \A k \in 1..Len(h) : h[k] \in Sum!Byte
      OBVIOUS
    <2>2. \A b \in Sum!Byte : Sum!AsUnsigned[b] \in Nat
      BY DEF Sum!AsUnsigned, Sum!Byte
    <2>3. QED  BY <2>1, <2>2
  <1> HIDE DEF U
  <1>3. 0 \in T
    BY <1>1 DEF Sum!FieldLenAssumption, Sum!Blank
  <1>4. ASSUME NEW k \in Nat, k \in T PROVE k + 1 \in T
    <2> SUFFICES ASSUME k + 1 <= Len(h) PROVE U[k + 1] \in Nat
      OBVIOUS
    <2>1. k + 1 \in 1..Len(h) /\ (k + 1) - 1 = k /\ U[k] \in Nat
      BY <1>1, <1>4
    <2>2. QED  BY <1>1, <1>2, <2>1
  <1>5. \A k \in Nat : k \in T
    <2> HIDE DEF T
    <2>1. QED  BY <1>3, <1>4, SetInduction
  <1>6. QED  BY <1>1, <1>5 DEF U

\* The two sums of a header differ by a multiple of 256.
Congruent(x, y) == \E q \in Nat : x = y + 256 * q

LEMMA SumsCongruent ==
    ASSUME Sum!FieldLenAssumption, NEW h \in Seq(Sum!Byte), NEW n \in 0..Len(h)
    PROVE  Congruent(Sum!Sums(h, Sum!AsUnsigned)[n], Sum!Sums(h, Sum!AsSigned)[n])
  <1> DEFINE U == Sum!Sums(h, Sum!AsUnsigned)
             S == Sum!Sums(h, Sum!AsSigned)
             T == {k \in Nat : k <= Len(h) => Congruent(U[k], S[k])}
  <1>1. Sum!AsUnsigned \in Readings /\ Sum!AsSigned \in Readings /\ Len(h) \in Nat
    BY DEF Readings
  <1>2. /\ U[0] = S[0]
        /\ \A k \in 1..Len(h) : U[k] = U[k - 1] + Sum!AsUnsigned[h[k]] /\ S[k] = S[k - 1] + Sum!AsSigned[h[k]]
        /\ \A k \in 0..Len(h) : U[k] \in Int /\ S[k] \in Int
    BY <1>1, SumsAre
  <1> HIDE DEF U, S
  <1>3. 0 \in T
    <2>1. U[0] = S[0] + 256 * 0
      BY <1>1, <1>2
    <2>2. QED  BY <2>1 DEF Congruent
  <1>4. ASSUME NEW k \in Nat, k \in T PROVE k + 1 \in T
    <2> SUFFICES ASSUME k + 1 <= Len(h) PROVE Congruent(U[k + 1], S[k + 1])
      OBVIOUS
    <2>1. k \in 0..Len(h) /\ k + 1 \in 1..Len(h) /\ (k + 1) - 1 = k
      BY <1>1
    <2>2. PICK q \in Nat : U[k] = S[k] + 256 * q
      BY <1>4, <2>1 DEF Congruent
    <2> DEFINE b == h[k + 1]
    <2>3. b \in Sum!Byte
      BY <2>1
    <2>4. /\ Sum!AsUnsigned[b] \in Int /\ Sum!AsSigned[b] \in Int
          /\ Sum!AsUnsigned[b] = Sum!AsSigned[b] \/ Sum!AsUnsigned[b] = Sum!AsSigned[b] + 256
      BY <1>1, <2>3, Reading
    <2>5. U[k + 1] = U[k] + Sum!AsUnsigned[b] /\ S[k + 1] = S[k] + Sum!AsSigned[b]
      BY <1>2, <2>1
    <2>6. S[k] \in Int
      BY <1>2, <2>1
    <2> HIDE DEF b
    <2>7. U[k + 1] = S[k + 1] + 256 * q \/ U[k + 1] = S[k + 1] + 256 * (q + 1)
      BY <2>2, <2>4, <2>5, <2>6
    <2>8. q + 1 \in Nat
      OBVIOUS
    <2>9. QED  BY <2>7, <2>8 DEF Congruent
  <1>5. \A k \in Nat : k \in T
    <2> HIDE DEF T
    <2>1. QED  BY <1>3, <1>4, SetInduction
  <1>6. QED  BY <1>1, <1>5 DEF U, S

\* One changed byte changes a sum by the difference of what is read.
LEMMA OneByteMatters ==
    ASSUME Sum!FieldLenAssumption, NEW h \in Seq(Sum!Byte), NEW g \in Seq(Sum!Byte), NEW read \in Readings,
           Len(g) = Len(h), NEW spot \in 1..Len(h), \A k \in 1..Len(h) : k # spot => g[k] = h[k]
    PROVE  Sum!SumOf(g, read) - Sum!SumOf(h, read) = read[g[spot]] - read[h[spot]]
  <1> DEFINE A == Sum!Sums(h, read)
             B == Sum!Sums(g, read)
             d == read[g[spot]] - read[h[spot]]
             T == {k \in Nat : k <= Len(h) => B[k] - A[k] = IF k < spot THEN 0 ELSE d}
  <1>1. Len(h) \in Nat /\ spot \in Nat /\ spot >= 1
    OBVIOUS
  <1>2. /\ A[0] = B[0] /\ A[0] \in Int
        /\ \A k \in 1..Len(h) : A[k] = A[k - 1] + read[h[k]] /\ B[k] = B[k - 1] + read[g[k]]
        /\ \A k \in 0..Len(h) : A[k] \in Int /\ B[k] \in Int
    BY <1>1, SumsAre
  <1>3. \A k \in 1..Len(h) : read[h[k]] \in Int /\ read[g[k]] \in Int
    <2>1. \A k \in 1..Len(h) : h[k] \in Sum!Byte /\ g[k] \in Sum!Byte
      OBVIOUS
    <2>2. QED  BY <2>1, Reading
  <1> HIDE DEF A, B
  <1>4. 0 \in T
    BY <1>1, <1>2
  <1>5. ASSUME NEW k \in Nat, k \in T PROVE k + 1 \in T
    <2> SUFFICES ASSUME k + 1 <= Len(h) PROVE B[k + 1] - A[k + 1] = IF k + 1 < spot THEN 0 ELSE d
      OBVIOUS
    <2>1. k \in 0..Len(h) /\ k + 1 \in 1..Len(h) /\ (k + 1) - 1 = k
      BY <1>1
    <2>2. B[k] - A[k] = (IF k < spot THEN 0 ELSE d) /\ A[k] \in Int /\ B[k] \in Int
      BY <1>2, <1>5, <2>1
    <2>3. A[k + 1] = A[k] + read[h[k + 1]] /\ B[k + 1] = B[k] + read[g[k + 1]]
      BY <1>2, <2>1
    <2>4. read[h[k + 1]] \in Int /\ read[g[k + 1]] \in Int /\ d \in Int
      BY <1>3, <2>1
    <2>5. CASE k + 1 = spot
      <3>1. B[k] - A[k] = 0
        BY <1>1, <2>2, <2>5
      <3>2. d = read[g[k + 1]] - read[h[k + 1]]
        BY <2>5
      <3> HIDE DEF d
      <3>3. QED  BY <2>2, <2>3, <2>4, <2>5, <3>1, <3>2
    <2>6. CASE k + 1 # spot
      <3>1. read[g[k + 1]] = read[h[k + 1]]
        BY <2>1, <2>6
      <3>2. (k < spot) = (k + 1 < spot)
        BY <1>1, <2>6
      <3> HIDE DEF d
      <3>3. B[k + 1] - A[k + 1] = B[k] - A[k]
        BY <2>2, <2>3, <2>4, <3>1
      <3>4. QED  BY <2>2, <3>2, <3>3
    <2>7. QED  BY <2>5, <2>6
  <1>6. \A k \in Nat : k \in T
    <2> HIDE DEF T
    <2>1. QED  BY <1>4, <1>5, SetInduction
  <1>7. Len(h) \in T /\ ~(Len(h) < spot)
    BY <1>1, <1>6
  <1>8. B[Len(h)] - A[Len(h)] = d
    BY <1>1, <1>7
  <1>9. QED  BY <1>8 DEF A, B, Sum!SumOf

-----------------------------------------------------------------------------
(* The comparison.                                                         *)

\* The header that is read is the one that was written but for one byte.
Changed(spot) ==
    /\ spot \in 1..Len(original) /\ header[spot] # original[spot]
    /\ \A k \in 1..Len(original) : k # spot => header[k] = original[k]

ChecksumInv ==
    /\ original \in Headers /\ header \in Seq(Sum!Byte) /\ Len(header) = Len(original)
    /\ expected \in Sum!Written(original)
    /\ checking \in {"transit", "sum", "true", "false"}
    /\ checking = "transit" => header = original
    /\ header = original \/ \E spot \in 1..Len(original) : Changed(spot)
    /\ summed \in 0..Len(header) /\ (checking = "transit" => summed = 0)
    /\ sum_unsigned = Sum!Sums(header, Sum!AsUnsigned)[summed]
    /\ sum_signed = Sum!Sums(header, Sum!AsSigned)[summed]
    /\ checking \in {"true", "false"} => summed = Len(header) /\ (checking = "true" <=> Sum!Agrees)

LEMMA HeaderTypes ==
    ASSUME Sum!HeadersAssumption, Sum!FieldLenAssumption, ChecksumInv
    PROVE  /\ original \in Seq(Sum!Byte) /\ header \in Seq(Sum!Byte) /\ Len(original) \in Nat
           /\ Sum!AsUnsigned \in Readings /\ Sum!AsSigned \in Readings
           /\ sum_unsigned \in Int /\ sum_signed \in Int /\ summed \in Nat /\ expected \in Nat
           /\ Congruent(sum_unsigned, sum_signed)
  <1>1. original \in Seq(Sum!Byte) /\ header \in Seq(Sum!Byte) /\ summed \in 0..Len(header)
    BY DEF ChecksumInv, Sum!HeadersAssumption
  <1>2. Sum!AsUnsigned \in Readings /\ Sum!AsSigned \in Readings
    BY DEF Readings
  <1>3. sum_unsigned \in Int /\ sum_signed \in Int
    BY <1>1, <1>2, SumsAre DEF ChecksumInv
  <1>4. Congruent(sum_unsigned, sum_signed)
    BY <1>1, SumsCongruent DEF ChecksumInv
  <1>5. expected \in Nat
    BY DEF ChecksumInv, Sum!Written
  <1>6. QED  BY <1>1, <1>2, <1>3, <1>4, <1>5

LEMMA ChecksumInit ==
    ASSUME Sum!HeadersAssumption, Sum!FieldLenAssumption, Sum!Init
    PROVE  ChecksumInv
  <1>1. /\ original \in Headers /\ header = original /\ expected \in Sum!Written(original)
        /\ summed = 0
        /\ sum_unsigned = FieldLen * Sum!Blank /\ sum_signed = FieldLen * Sum!Blank
        /\ checking = "transit"
    BY DEF Sum!Init
  <1>2. header \in Seq(Sum!Byte) /\ Len(header) \in Nat
    BY <1>1 DEF Sum!HeadersAssumption
  <1>3. /\ Sum!Sums(header, Sum!AsUnsigned)[0] = FieldLen * Sum!Blank
        /\ Sum!Sums(header, Sum!AsSigned)[0] = FieldLen * Sum!Blank
    BY <1>2, SumsAre DEF Readings
  <1>4. QED  BY <1>1, <1>2, <1>3 DEF ChecksumInv

LEMMA ChecksumStep ==
    ASSUME Sum!HeadersAssumption, Sum!FieldLenAssumption, ChecksumInv, [Sum!Next]_(Sum!vars)
    PROVE  ChecksumInv'
  <1>1. /\ original \in Headers /\ header \in Seq(Sum!Byte) /\ Len(header) = Len(original)
        /\ expected \in Sum!Written(original)
        /\ checking \in {"transit", "sum", "true", "false"}
        /\ checking = "transit" => header = original
        /\ header = original \/ \E spot \in 1..Len(original) : Changed(spot)
        /\ summed \in 0..Len(header) /\ (checking = "transit" => summed = 0)
        /\ sum_unsigned = Sum!Sums(header, Sum!AsUnsigned)[summed]
        /\ sum_signed = Sum!Sums(header, Sum!AsSigned)[summed]
    BY DEF ChecksumInv
  <1>2. Len(header) \in Nat /\ original \in Seq(Sum!Byte)
    BY <1>1, HeaderTypes
  <1>3. CASE UNCHANGED Sum!vars
    BY <1>3 DEF Sum!vars, ChecksumInv, Changed, Sum!Agrees, Sum!Sums
  <1>4. CASE Sum!Transit
    <2>1. /\ checking = "transit" /\ checking' = "sum"
          /\ UNCHANGED <<original, expected, summed, sum_unsigned, sum_signed>>
      BY <1>4 DEF Sum!Transit
    <2>2. CASE UNCHANGED header
      <3>1. /\ Sum!Sums(header, Sum!AsUnsigned)' = Sum!Sums(header, Sum!AsUnsigned)
            /\ Sum!Sums(header, Sum!AsSigned)' = Sum!Sums(header, Sum!AsSigned)
        BY <2>2 DEF Sum!Sums, Sum!AsUnsigned, Sum!AsSigned
      <3>2. QED  BY <1>1, <2>1, <2>2, <3>1 DEF ChecksumInv
    <2>3. ASSUME NEW k \in 1..Len(header), NEW b \in Sum!Byte, header' = [header EXCEPT ![k] = b]
          PROVE  ChecksumInv'
      <3>1. /\ header' \in Seq(Sum!Byte) /\ Len(header') = Len(header) /\ header'[k] = b
            /\ \A j \in 1..Len(header) : j # k => header'[j] = header[j]
        BY <1>1, <2>3
      <3>2. header = original /\ summed = 0
        BY <1>1, <2>1
      <3>3. (header = original \/ \E spot \in 1..Len(original) : Changed(spot))'
        <4>1. CASE b = original[k]
          <5>1. \A j \in 1..Len(header) : header'[j] = header[j]
            BY <3>1, <3>2, <4>1
          <5>2. header' = header
            BY <1>1, <3>1, <5>1, SeqEqual
          <5>3. QED  BY <2>1, <3>2, <5>2
        <4>2. CASE b # original[k]
          <5>1. Changed(k)'
            BY <2>1, <3>1, <3>2, <4>2 DEF Changed
          <5>2. QED  BY <2>1, <3>2, <5>1
        <4>3. QED  BY <4>1, <4>2
      <3>4. /\ Sum!Sums(header, Sum!AsUnsigned)[0] = FieldLen * Sum!Blank
            /\ Sum!Sums(header, Sum!AsSigned)[0] = FieldLen * Sum!Blank
            /\ Sum!Sums(header', Sum!AsUnsigned)[0] = FieldLen * Sum!Blank
            /\ Sum!Sums(header', Sum!AsSigned)[0] = FieldLen * Sum!Blank
        BY <1>1, <3>1, SumsAre DEF Readings
      <3>5. QED  BY <1>1, <2>1, <3>1, <3>2, <3>3, <3>4 DEF ChecksumInv
    <2>4. QED  BY <1>4, <2>2, <2>3 DEF Sum!Transit
  <1>5. CASE Sum!SumByte
    <2>1. /\ checking = "sum" /\ summed < Len(header) /\ summed' = summed + 1
          /\ sum_unsigned' = sum_unsigned + header[summed + 1]
          /\ sum_signed' = sum_signed + Sum!Signed(header[summed + 1])
          /\ UNCHANGED <<original, header, expected, checking>>
      BY <1>5 DEF Sum!SumByte, Sum!Add
    <2>2. summed + 1 \in 1..Len(header) /\ (summed + 1) - 1 = summed
      BY <1>1, <1>2, <2>1
    <2>3. header[summed + 1] \in Sum!Byte
      BY <1>1, <2>2
    <2>4. /\ Sum!AsUnsigned[header[summed + 1]] = header[summed + 1]
          /\ Sum!AsSigned[header[summed + 1]] = Sum!Signed(header[summed + 1])
      BY <2>3 DEF Sum!AsUnsigned, Sum!AsSigned
    <2>5. /\ sum_unsigned' = Sum!Sums(header, Sum!AsUnsigned)[summed + 1]
          /\ sum_signed' = Sum!Sums(header, Sum!AsSigned)[summed + 1]
      <3>1. Sum!AsUnsigned \in Readings /\ Sum!AsSigned \in Readings
        BY DEF Readings
      <3>2. QED  BY <1>1, <2>1, <2>2, <2>4, <3>1, SumsAre
    <2>6. Changed(1)' = Changed(1) /\ \A spot : Changed(spot)' = Changed(spot)
      BY <2>1 DEF Changed
    <2>7. summed + 1 \in 0..Len(header)
      BY <2>2
    <2>8. QED  BY <1>1, <2>1, <2>5, <2>6, <2>7 DEF ChecksumInv
  <1>6. CASE Sum!Compare
    <2>1. /\ checking = "sum" /\ summed = Len(header)
          /\ checking' = (IF Sum!Agrees THEN "true" ELSE "false")
          /\ UNCHANGED <<original, header, expected, summed, sum_unsigned, sum_signed>>
      BY <1>6 DEF Sum!Compare
    <2>2. Sum!Agrees' = Sum!Agrees /\ \A spot : Changed(spot)' = Changed(spot)
      BY <2>1 DEF Sum!Agrees, Changed
    <2>3. QED  BY <1>1, <2>1, <2>2 DEF ChecksumInv
  <1>7. QED  BY <1>3, <1>4, <1>5, <1>6 DEF Sum!Next

\* A header is accepted if and only if it is the one that was written, by a writer
\* of either kind, when at most one byte of it has changed.
THEOREM ChangedBytesAreFound ==
    ASSUME Sum!HeadersAssumption, Sum!FieldLenAssumption
    PROVE  Spec => [](Sum!TypeOK /\ Sum!OneChangedByteIsFound)
  <1>1. ASSUME ChecksumInv PROVE Sum!TypeOK /\ Sum!OneChangedByteIsFound
    <2> DEFINE wasU == Sum!SumOf(original, Sum!AsUnsigned)
               wasS == Sum!SumOf(original, Sum!AsSigned)
    <2>1. /\ original \in Seq(Sum!Byte) /\ header \in Seq(Sum!Byte) /\ Len(original) \in Nat
          /\ Sum!AsUnsigned \in Readings /\ Sum!AsSigned \in Readings
          /\ sum_unsigned \in Int /\ sum_signed \in Int /\ summed \in Nat /\ expected \in Nat
          /\ Congruent(sum_unsigned, sum_signed) /\ Len(header) = Len(original)
      BY <1>1, HeaderTypes DEF ChecksumInv
    <2>2. PICK q \in Nat : sum_unsigned = sum_signed + 256 * q
      BY <2>1 DEF Congruent
    <2>3. Sum!TypeOK
      <3>1. Len(header) = Len(original) /\ \A k \in 1..Len(header) : header[k] \in Sum!Byte
        BY <2>1
      <3>2. /\ original \in Headers /\ summed \in 0..Len(header)
            /\ checking \in {"transit", "sum", "true", "false"}
        BY <1>1 DEF ChecksumInv
      <3>3. sum_signed <= sum_unsigned /\ (sum_unsigned - sum_signed) % 256 = 0
        BY <2>1, <2>2
      <3>4. sum_unsigned \in Nat
        BY <1>1, <2>1, UnsignedIsNat DEF ChecksumInv
      <3>5. QED  BY <2>1, <3>1, <3>2, <3>3, <3>4 DEF Sum!TypeOK
    <2>4. (expected = wasU \/ expected = wasS) /\ expected \in Nat
      BY <1>1 DEF ChecksumInv, Sum!Written
    <2>5. wasU \in Int /\ wasS \in Int /\ Congruent(wasU, wasS)
      <3>1. Len(original) \in 0..Len(original)
        BY <2>1
      <3>2. QED  BY <2>1, <3>1, SumsAre, SumsCongruent DEF Sum!SumOf
    <2>6. PICK r \in Nat : wasU = wasS + 256 * r
      BY <2>5 DEF Congruent
    <2>7. ASSUME checking \in {"true", "false"}
          PROVE  /\ sum_unsigned = Sum!SumOf(header, Sum!AsUnsigned)
                 /\ sum_signed = Sum!SumOf(header, Sum!AsSigned)
                 /\ checking = "true" <=> Sum!Agrees
      BY <1>1, <2>7 DEF ChecksumInv, Sum!SumOf
    <2>8. ASSUME checking = "true", header # original PROVE FALSE
      <3>1. PICK spot \in 1..Len(original) : Changed(spot)
        BY <1>1, <2>8 DEF ChecksumInv
      <3> DEFINE b == header[spot]
                 o == original[spot]
      <3>2. b \in Sum!Byte /\ o \in Sum!Byte /\ b # o
        BY <2>1, <3>1 DEF Changed
      <3>3. sum_unsigned - wasU = Sum!AsUnsigned[b] - Sum!AsUnsigned[o]
        BY <2>1, <2>7, <2>8, <3>1, OneByteMatters DEF Changed
      <3>4. Sum!AsUnsigned[b] = b /\ Sum!AsUnsigned[o] = o /\ b \in 0..255 /\ o \in 0..255
        BY <3>2 DEF Sum!AsUnsigned, Sum!Byte
      <3>5. expected = sum_unsigned \/ expected = sum_signed
        BY <2>7, <2>8 DEF Sum!Agrees
      <3> HIDE DEF b, o, wasU, wasS
      <3>6. \E z \in Int : sum_unsigned - wasU = 256 * z
        <4>1. CASE expected = sum_unsigned /\ expected = wasU
          <5>1. sum_unsigned - wasU = 256 * 0
            BY <2>5, <4>1
          <5>2. QED  BY <5>1
        <4>2. CASE expected = sum_unsigned /\ expected = wasS
          <5>1. sum_unsigned - wasU = 256 * (0 - r) /\ 0 - r \in Int
            BY <2>1, <2>5, <2>6, <4>2
          <5>2. QED  BY <5>1
        <4>3. CASE expected = sum_signed /\ expected = wasU
          <5>1. sum_unsigned - wasU = 256 * q
            BY <2>1, <2>2, <2>5, <4>3
          <5>2. QED  BY <5>1
        <4>4. CASE expected = sum_signed /\ expected = wasS
          <5>1. sum_unsigned - wasU = 256 * (q - r)
            BY <2>1, <2>2, <2>5, <2>6, <4>4
          <5>2. q - r \in Int
            OBVIOUS
          <5>3. QED  BY <5>1, <5>2
        <4>5. QED  BY <2>4, <3>5, <4>1, <4>2, <4>3, <4>4
      <3>7. PICK z \in Int : sum_unsigned - wasU = 256 * z
        BY <3>6
      <3>8. b - o = 256 * z
        BY <3>3, <3>4, <3>7
      <3>9. QED  BY <3>2, <3>4, <3>8
    <2>9. ASSUME checking = "false", header = original PROVE FALSE
      <3>1. sum_unsigned = wasU /\ sum_signed = wasS /\ ~Sum!Agrees
        BY <2>7, <2>9
      <3>2. QED  BY <2>1, <2>4, <3>1 DEF Sum!Agrees
    <2>10. QED  BY <2>3, <2>8, <2>9 DEF Sum!OneChangedByteIsFound
  <1>2. Init => ChecksumInv
    BY ChecksumInit DEF Init
  <1>3. ChecksumInv /\ [Next]_all => ChecksumInv'
    BY ChecksumStep, PartSteps
  <1>4. QED  BY <1>1, <1>2, <1>3, PTL DEF Spec

\* Both: a number in a header is taken with its true value or refused, and so is a
\* header one byte of which has changed.
THEOREM HeadersAreExact ==
    ASSUME Octal!FieldsAssumption, Octal!TopAssumption, Sum!HeadersAssumption, Sum!FieldLenAssumption
    PROVE  Spec => []HeaderExact
  <1>1. Spec => [](Octal!TypeOK /\ Octal!ExactOrRefused)
    BY NumbersAreExact
  <1>2. Spec => [](Sum!TypeOK /\ Sum!OneChangedByteIsFound)
    BY ChangedBytesAreFound
  <1>3. QED  BY <1>1, <1>2, PTL DEF HeaderExact
=============================================================================
