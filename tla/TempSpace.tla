------------------------------- MODULE TempSpace -------------------------------
(***************************************************************************)
(* What a temporary block manager promises the files that write to its     *)
(* blocks: an allocation is answered with the first of as many consecutive *)
(* LBAs as were asked for, all inside the space and none handed out        *)
(* already, and it is refused only when there is no such run.              *)
(***************************************************************************)
EXTENDS Integers

CONSTANTS
    SpaceLbas,    \* the LBAs of the space
    Sizes         \* how many LBAs a file asks for

VARIABLES
    used,    \* the runs of LBAs that are handed out
    answer   \* of the last allocation

vars == <<used, answer>>

Run(first, lbas) == first .. first + lbas - 1

IsFree(first, lbas) ==
    /\ Run(first, lbas) \subseteq SpaceLbas
    /\ \A run \in used : Run(first, lbas) \cap run = {}

Init == used = {} /\ answer = "none"

Allocate(first, lbas) ==
    /\ IsFree(first, lbas)
    /\ used' = used \cup {Run(first, lbas)}
    /\ answer' = "block"

Refuse(lbas) ==
    /\ \A first \in SpaceLbas : ~IsFree(first, lbas)
    /\ answer' = "No free block available"
    /\ UNCHANGED used

Free(run) ==
    /\ run \in used
    /\ used' = used \ {run}
    /\ answer' = "none"

Next ==
    \/ \E first \in SpaceLbas, lbas \in Sizes : Allocate(first, lbas)
    \/ \E lbas \in Sizes : Refuse(lbas)
    \/ \E run \in used : Free(run)

Spec == Init /\ [][Next]_vars
================================================================================
