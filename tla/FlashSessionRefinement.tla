------------------------ MODULE FlashSessionRefinement ------------------------
(* FlashSession implements FlashPromise: the goal is the images of the tar  *)
(* entries with a PIT match, in the order of archives and entries; nothing  *)
(* is to be held by a device that --check-only runs against.                *)
EXTENDS FlashSession

WorkAt(i) == CHOOSE w \in Work : Place(w) = i

Goal == IF Flashing THEN [i \in 1..Cardinality(Work) |-> Image(WorkAt(i))] ELSE <<>>

Promise == INSTANCE FlashPromise WITH
    Images <- [part : Nat, data : Seq(Seq(Nat))], Codes <- ExitCodes,
    goal <- Goal, held <- flashed, verdict <- IF pc = "exit" THEN rc ELSE "none"

\* odin4 keeps the promise: a skipped, repeated, reordered or partial image,
\* an image finalised after Success, or Success before the last image is held,
\* would be a step the abstract specification does not have.
KeepsPromise == Promise!Init /\ [][Promise!Next]_(Promise!vars)
=============================================================================
