----------------------------- MODULE FrameStream -----------------------------
(***************************************************************************)
(* What the bridge promises the game about its pictures, whatever happens  *)
(* between the two devices: every frame handed over is shown, in the order *)
(* handed over, once, with its own picture, and the display is never more  *)
(* than Depth frames behind.                                               *)
(***************************************************************************)
EXTENDS Naturals, Sequences

CONSTANTS
    Pictures, \* what a frame can show
    Depth     \* frames that may be under way

VARIABLES
    pending,  \* pictures handed over and not shown yet, oldest first
    shown     \* pictures shown so far

vars == <<pending, shown>>

Init == pending = <<>> /\ shown = <<>>

HandOver(p) == /\ Len(pending) < Depth
               /\ pending' = Append(pending, p)
               /\ UNCHANGED shown

Show == /\ pending # <<>>
        /\ shown' = Append(shown, Head(pending))
        /\ pending' = Tail(pending)

Next == Show \/ \E p \in Pictures : HandOver(p)

\* What is promised at every step, and that it goes on.
Safety == Init /\ [][Next]_vars
Spec == Safety /\ WF_vars(Show)
=============================================================================
