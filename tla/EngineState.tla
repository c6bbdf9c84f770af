----------------------------- MODULE EngineState -----------------------------
(***************************************************************************)
(* The parts of the device context's state that an observer of draws takes *)
(* over while it repeats one: what is bound there, the engine's or the     *)
(* observer's own, and what the observer has asked for and keeps.  Every   *)
(* object a Get hands out comes with a reference; viewports and scissors   *)
(* are plain numbers and come without.                                     *)
(*                                                                         *)
(* The state is two functions on Parts that the modules of the observers   *)
(* declare as variables: what is bound, and what is saved of it.           *)
(***************************************************************************)

Rects   == {"viewports", "scissors"}
Objects == {"targets", "depth", "depthState", "blend", "rasterizer",
            "view", "skyConstants", "geometryConstants"}
Parts   == Rects \cup Objects

EnginesOwn == [p \in Parts |-> "engine"]
Nothing    == [p \in Parts |-> "nothing"]

\* The context's Get of some parts: the observer keeps what is bound there now.
Got(parts, bound, saved) == [p \in Parts |-> IF p \in parts THEN bound[p] ELSE saved[p]]

\* The context's Set of some parts to what is the observer's own, ...
SetToOurs(parts, bound) == [p \in Parts |-> IF p \in parts THEN "ours" ELSE bound[p]]

\* ... and to what was saved.
SetToSaved(parts, bound, saved) == [p \in Parts |-> IF p \in parts THEN saved[p] ELSE bound[p]]

\* Release of some objects.
Released(parts, saved) == [p \in Parts |-> IF p \in parts THEN "nothing" ELSE saved[p]]

\* No reference is kept.
NothingHeld(saved) == \A p \in Objects : saved[p] = "nothing"
=============================================================================
