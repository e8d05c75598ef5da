-------------------------------- MODULE Xxh32 --------------------------------
(***************************************************************************)
(* The 32-bit hash behind the checksums of LZ4 frames, fed piece by piece. *)
(* What its arithmetic makes of the words is left out: a hash value is the *)
(* record of what was mixed into it and in which order, so that two values *)
(* agree only if the code treats the same bytes in the same way.  A byte   *)
(* of input is its position.                                               *)
(***************************************************************************)
EXTENDS Integers, Sequences

CONSTANTS
    Lengths,   \* lengths of the pieces a caller gives
    MaxGiven,  \* bound on the bytes given in all
    Modulus    \* of the length counter: 2^32

Xxh32Assumption ==
    /\ Lengths \subseteq Nat /\ MaxGiven \in Nat
    /\ Modulus \in Nat /\ Modulus >= 32

VARIABLES
    state,     \* XXH32_state_t
    given      \* bytes given since the reset

vars == <<state, given>>

Bytes(from, n) == [k \in 1..n |-> from + k - 1]

-----------------------------------------------------------------------------
(* XXH32: the hash of input that is there as a whole.                      *)

\* XXH32_round for the four lanes.
Round(v, stripe) == [i \in 1..4 |-> Append(v[i], SubSeq(stripe, 4 * i - 3, 4 * i))]
Seeds == [i \in 1..4 |-> <<>>]

\* n stripes of the input from position p on.
Stripes(v, p, n) ==
    LET after[k \in 0..n] == IF k = 0 THEN v ELSE Round(after[k - 1], Bytes(p + 16 * (k - 1), 16))
    IN  after[n]

\* XXH32_finalize: what is left is taken in words of four and then in bytes.
Finalize(h, rest) ==
    LET words == Len(rest) \div 4
    IN  [h |-> h,
         words |-> [k \in 1..words |-> SubSeq(rest, 4 * k - 3, 4 * k)],
         bytes |-> SubSeq(rest, 4 * words + 1, Len(rest))]

Merged(v, length) == [from |-> "lanes", lanes |-> v, length |-> length]
Short(v3, length) == [from |-> "seed", lanes |-> <<v3>>, length |-> length]

Xxh32(length) ==
    LET whole == 16 * (length \div 16)
        h == IF length >= 16 THEN Merged(Stripes(Seeds, 0, length \div 16), length % Modulus)
             ELSE Short(<<>>, length % Modulus)
    IN  Finalize(h, Bytes(whole, length - whole))

-----------------------------------------------------------------------------
(* The hash fed piece by piece.                                            *)

\* XXH32_reset.
Cleared == [total |-> 0, large |-> FALSE, v |-> Seeds, mem |-> [k \in 1..16 |-> -1], memsize |-> 0]

Init == state = Cleared /\ given = 0
Reset == state' = Cleared /\ given' = 0

\* Mutant of Large: a counter that has come round is short again.
LargeNow(s, n, total) == total >= 16

\* There have been sixteen bytes or more.
Large(s, n, total) == s.large \/ n >= 16 \/ total >= 16

\* bytes put into mem32 behind what it holds.
Filled(s, bytes) == [k \in 1..16 |-> IF k - s.memsize \in 1..Len(bytes) THEN bytes[k - s.memsize] ELSE s.mem[k]]

Fits(s, n) == s.memsize + n < 16

\* Bytes of the piece that complete the buffer.
Taken(s) == IF s.memsize > 0 THEN 16 - s.memsize ELSE 0

\* XXH32_update with a piece of n bytes.
Updated(s, n) ==
    LET total == (s.total + n) % Modulus
        t == [s EXCEPT !.total = total, !.large = Large(s, n, total)]
        first == IF s.memsize > 0 THEN Round(s.v, Filled(s, Bytes(given, 16 - s.memsize))) ELSE s.v
        stripes == (n - Taken(s)) \div 16
        p == given + Taken(s) + 16 * stripes
    IN  IF Fits(s, n)
        THEN [t EXCEPT !.mem = Filled(s, Bytes(given, n)), !.memsize = @ + n]
        ELSE [t EXCEPT !.v = Stripes(first, given + Taken(s), stripes),
                       !.mem = Filled([s EXCEPT !.memsize = 0], Bytes(p, given + n - p)),
                       !.memsize = given + n - p]

Update(n) ==
    /\ given + n <= MaxGiven
    /\ state' = Updated(state, n)
    /\ given' = given + n

\* XXH32_digest.
Digest(s) ==
    Finalize(IF s.large THEN Merged(s.v, s.total) ELSE Short(s.v[3], s.total), SubSeq(s.mem, 1, s.memsize))

Next == Reset \/ \E n \in Lengths : Update(n)
Spec == Init /\ [][Next]_vars

-----------------------------------------------------------------------------
(* Properties.                                                             *)

\* A stripe is hashed as soon as it is there: the buffer never holds all of one,
\* and what it holds is the end of what was given.
BufferIsTheRest ==
    /\ state.memsize = given % 16
    /\ SubSeq(state.mem, 1, state.memsize) = Bytes(given - state.memsize, state.memsize)

\* However the input is cut, and though the counter of 32 bits comes round, the
\* digest is the hash of the input as a whole: a checksum the decoder makes of its
\* pieces equals the one that was made of the content.
DigestIsTheHash == Digest(state) = Xxh32(given)
=============================================================================
