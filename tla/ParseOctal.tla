------------------------------- MODULE ParseOctal -------------------------------
(***************************************************************************)
(* parse_octal_u64: a number of a tar header, one character at a time.  The*)
(* accumulator holds Top values; out << 3 drops the bits that do not fit.  *)
(***************************************************************************)
EXTENDS Naturals, Sequences

CONSTANTS
    Fields,   \* the fields considered: sequences of characters
    Top       \* the number of values of the accumulator, 2^64 in the code

\* A character is a digit, 8 and 9 among them, or one of these.
Digits == 0..9
Blank == 10    \* space or tab
Nul == 11
Other == 12    \* anything else, as in a base-256 field

FieldsAssumption ==
    \A f \in Fields : f \in Seq(Digits \cup {Blank, Nul, Other})
\* The accumulator has three bits at least.
TopAssumption == Top \in Nat \ {0} /\ Top % 8 = 0

VARIABLES field, i, out, pc   \* pc: "blanks", "digits", "true" or "false"

vars == <<field, i, out, pc>>

Octal == 0..7

TypeOK ==
    /\ field \in Fields
    /\ i \in 1..(Len(field) + 1)
    /\ out \in 0..(Top - 1)
    /\ pc \in {"blanks", "digits", "true", "false"}

Init ==
    /\ field \in Fields
    /\ i = 1 /\ out = 0
    /\ pc = "blanks"

SkipBlanks ==
    /\ pc = "blanks"
    /\ IF i <= Len(field) /\ field[i] = Blank
       THEN i' = i + 1 /\ UNCHANGED pc
       ELSE pc' = "digits" /\ UNCHANGED i
    /\ UNCHANGED <<field, out>>

AtEnd == i <= Len(field) => field[i] \in {Nul, Blank}

Shifted(c) == ((out * 8) % Top) + c

\* Mutant of Lost: only a result that got smaller counts as overflow.
LostIfSmaller(c) == Shifted(c) < out

\* The bits shifted out are missed when the result is shifted back.
Lost(c) == Shifted(c) \div 8 # out

Digit ==
    /\ pc = "digits"
    /\ ~AtEnd
    /\ IF field[i] \notin Octal \/ Lost(field[i])
       THEN pc' = "false" /\ UNCHANGED <<i, out>>
       ELSE out' = Shifted(field[i]) /\ i' = i + 1 /\ UNCHANGED pc
    /\ UNCHANGED field

Done ==
    /\ pc = "digits"
    /\ AtEnd
    /\ pc' = "true"
    /\ UNCHANGED <<field, i, out>>

Next == SkipBlanks \/ Digit \/ Done

Spec == Init /\ [][Next]_vars /\ WF_vars(Next)

-----------------------------------------------------------------------------
(* The reference: what a tar number means.                                 *)

\* First character that is not a blank, and the one that ends the number.
First == CHOOSE k \in 1..(Len(field) + 1) :
    /\ \A j \in 1..(k - 1) : field[j] = Blank
    /\ k <= Len(field) => field[k] # Blank
End == CHOOSE k \in First..(Len(field) + 1) :
    /\ \A j \in First..(k - 1) : field[j] \notin {Blank, Nul}
    /\ k <= Len(field) => field[k] \in {Blank, Nul}

WellFormed == \A k \in First..(End - 1) : field[k] \in Octal

\* Unbounded value of the digits from First to k.
Upto[k \in 0..Len(field)] == IF k < First THEN 0 ELSE Upto[k - 1] * 8 + field[k]
Value == Upto[End - 1]

\* A number is accepted exactly if it is octal and fits in the accumulator,
\* and then has its true value: no digit is lost, whatever stands around it.
ExactOrRefused ==
    /\ pc = "true" => WellFormed /\ Value < Top /\ out = Value
    /\ pc = "false" => ~WellFormed \/ Value >= Top
=============================================================================
