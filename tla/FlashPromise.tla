----------------------------- MODULE FlashPromise -----------------------------
(***************************************************************************)
(* What a run of odin4 promises, seen from outside: the device comes to    *)
(* hold the images of the invocation one whole image at a time, in their   *)
(* order and without skipping one; the exit code is given once, and is     *)
(* Success only when every image is held.  An image whose verdict was late *)
(* may still appear after a failing exit code, never after Success.        *)
(***************************************************************************)
EXTENDS Naturals, Sequences

CONSTANTS
    Images,  \* the images that may be asked for
    Codes    \* exit codes; "Success" is one of them

VARIABLES
    goal,    \* the images this invocation has to bring to the device
    held,    \* the images the device holds
    verdict  \* the exit code, "none" before it is known

vars == <<goal, held, verdict>>

Init ==
    /\ goal \in Seq(Images)
    /\ held = <<>>
    /\ verdict = "none"

HoldNext ==
    /\ Len(held) < Len(goal)
    /\ verdict # "Success"
    /\ held' = Append(held, goal[Len(held) + 1])
    /\ UNCHANGED <<goal, verdict>>

Decide ==
    /\ verdict = "none"
    /\ verdict' \in Codes
    /\ verdict' = "Success" => held = goal
    /\ UNCHANGED <<goal, held>>

Next == HoldNext \/ Decide

Spec == Init /\ [][Next]_vars
=============================================================================
