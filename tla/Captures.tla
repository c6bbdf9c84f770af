------------------------------ MODULE Captures ------------------------------
(***************************************************************************)
(* Render/DrawHook with its two observers, Skylighting and CloudShadows,   *)
(* which surround the engine's draws and repeat them into targets of their *)
(* own.  Surround hands a draw to the first observer that wants it; the    *)
(* two filter on different shader classes, so no draw is wanted twice, and *)
(* neither reads anything the other writes: a behaviour follows the draws  *)
(* of one of them.                                                         *)
(***************************************************************************)
EXTENDS Skylighting, CloudShadows

VARIABLE observer \* whose filter matches the draws the behaviour follows

vars == <<observer, skyVars, cloudVars>>

\* Wants: a repeated draw goes to the engine's own entry and is not seen again.
Wants(o) == observer = o

Init == SkyInit /\ CloudInit /\ observer \in {"Skylighting", "CloudShadows"}

Next ==
    \/ Wants("Skylighting") /\ SkyNext /\ UNCHANGED <<observer, cloudVars>>
    \/ Wants("CloudShadows") /\ CloudNext /\ UNCHANGED <<observer, skyVars>>

Spec == Init /\ [][Next]_vars

-----------------------------------------------------------------------------
\* BeforeDraw takes references to the engine's state one by one and may give up
\* after any of them; AfterDraw saves, sets and restores two lists of states that
\* have to agree.  Whatever way the two are left by, between the draws they
\* surround no reference to the engine's state is kept and nothing of a
\* feature's own is bound.
DrawsLeaveNoTrace == SkyLeavesNoTrace /\ CloudsLeaveNoTrace

\* What is drawn from the clouds is one frame's and complete.
CloudsAreWhole == OneFramesClouds /\ CopiesAreThere

\* What the two gather over several frames is used when it is complete and not
\* before.
GatheredInTime == WholeMapsOnly /\ ReadLateEnough
=============================================================================
