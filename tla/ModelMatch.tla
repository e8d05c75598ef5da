------------------------------ MODULE ModelMatch ------------------------------
(***************************************************************************)
(* The device type a device reports and verify_firmware_compatibility,     *)
(* which looks for it in the names of the archives.  FlashSession has the  *)
(* answer as a choice; this is how it comes about, character by character. *)
(***************************************************************************)
EXTENDS Integers, Sequences, SequencesExt

CONSTANTS
    Reported,    \* contents of the device_type field: sequences of characters
    Archives     \* names of archives, sequences of characters

Nul == "0"
Spaces == {" "}
Lower == [c \in {"s", "m", "f"} |-> CASE c = "s" -> "S" [] c = "m" -> "M" [] c = "f" -> "F"]

ModelMatchAssumption ==
    \A t \in Reported \cup Archives : t \in Seq(Range(t)) /\ t # <<>>

VARIABLES
    field,    \* response.device_type, or <<>> for the old protocol
    names,    \* the file names of the archives given, in the order of the slots
    dt,       \* device_type_str, then what is looked for
    k,        \* the next archive
    pc        \* "ask", "strip", "files", "true", "false"

vars == <<field, names, dt, k, pc>>

Upper(c) == IF c \in DOMAIN Lower THEN Lower[c] ELSE c
Without(s, dropped) ==
    LET kept[j \in 0..Len(s)] ==
            IF j = 0 THEN <<>> ELSE IF s[j] \in dropped THEN kept[j - 1] ELSE Append(kept[j - 1], s[j])
    IN  kept[Len(s)]
UpperAll(s) == [j \in 1..Len(s) |-> Upper(s[j])]
Occurs(s, t) == \E a \in 0..(Len(t) - Len(s)) : s = SubSeq(t, a + 1, a + Len(s))

Init ==
    /\ field \in Reported \cup {<<>>}
    /\ names \in SeqOf(Archives, 2) \ {<<>>}
    /\ dt = <<>> /\ k = 1 /\ pc = "ask"

-----------------------------------------------------------------------------

\* The field ends at its first NUL or where it ends.
UpToNul == SelectInSeq(field, LAMBDA c : c = Nul)
RequestDeviceType ==
    /\ pc = "ask"
    /\ dt' = IF UpToNul = 0 THEN field ELSE SubSeq(field, 1, UpToNul - 1)
    /\ pc' = IF dt' = <<>> THEN "true" ELSE "strip"
    /\ UNCHANGED <<field, names, k>>

DropSM(s) == IF IsPrefix(<<"S", "M">>, s) THEN SubSeq(s, 3, Len(s)) ELSE s

StripType ==
    /\ pc = "strip"
    /\ dt' = DropSM(UpperAll(Without(dt, Spaces \cup {"\\", "/", "-"})))
    /\ pc' = "files"
    /\ UNCHANGED <<field, names, k>>

FileMatches(name) == Occurs(dt, UpperAll(Without(name, Spaces \cup {"-"})))

\* Mutant of CheckFile: one match is enough.
CheckFileOnce ==
    /\ pc = "files" /\ k <= Len(names)
    /\ IF FileMatches(names[k]) THEN k' = Len(names) + 1 /\ UNCHANGED pc ELSE pc' = "false" /\ UNCHANGED k
    /\ UNCHANGED <<field, names, dt>>

CheckFile ==
    /\ pc = "files" /\ k <= Len(names)
    /\ IF FileMatches(names[k]) THEN k' = k + 1 /\ UNCHANGED pc ELSE pc' = "false" /\ UNCHANGED k
    /\ UNCHANGED <<field, names, dt>>

AllMatch ==
    /\ pc = "files" /\ k > Len(names)
    /\ pc' = "true"
    /\ UNCHANGED <<field, names, dt, k>>

Next == RequestDeviceType \/ StripType \/ CheckFile \/ AllMatch

Spec == Init /\ [][Next]_vars

-----------------------------------------------------------------------------
(* Properties.                                                             *)

Type == IF UpToNul = 0 THEN field ELSE SubSeq(field, 1, UpToNul - 1)
Folded(s) == UpperAll(Without(s, Spaces \cup {"-"}))

\* An archive whose name has the reported type in it as it is reported is not
\* refused, nor one that writes it in the other case, with more or fewer dashes.
\* Slashes are taken out of the type only, so this is about types without them.
PlainType == \A j \in 1..Len(Type) : Type[j] \notin {"\\", "/"}
SameModelAccepted ==
    pc = "false" /\ PlainType => \E j \in 1..Len(names) : ~Occurs(Folded(Type), Folded(names[j]))

\* What follows "SM" in the reported type.
Number == DropSM(UpperAll(Without(Type, {" ", "\\", "/", "-"})))
Spelled(name) == \E a \in 1..(Len(name) + 1), b \in 0..Len(name) : Folded(SubSeq(name, a, b)) = Number

\* Archives are accepted together: each of them, the last as well as the first, has
\* the number in one piece of its name.
AcceptedNamesTheModel ==
    pc = "true" /\ Type # <<>> => \A j \in 1..Len(names) : Spelled(names[j])
=============================================================================
