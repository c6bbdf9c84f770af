----------------------------- MODULE FrameTokens -----------------------------
(***************************************************************************)
(* Bridge/FrameTokenQueue and the token handling of Native/Presenter: the  *)
(* start of a game frame takes a token from Streamline and pushes its      *)
(* index, the rendering of the frame pops it and marks its progress.  In   *)
(* loading screens the two ends run on different threads and not in step;  *)
(* a lock makes Push and Pop atomic.                                       *)
(***************************************************************************)
EXTENDS Naturals, Sequences, SequencesExt

CONSTANTS
    kInFlight, \* FrameTokenQueue::kInFlight, 3 in the code
    MaxIndex   \* bound: tokens Streamline hands out

ASSUME ConstantsAssumption == kInFlight \in Nat \ {0} /\ MaxIndex \in Nat

VARIABLES
    issued,      \* Streamline's frame counter
    starting,    \* the token OnSimulationStart sleeps on, or NoToken
    indices,     \* _indices
    renderToken, \* _renderToken, or NoToken
    stage,       \* the present under way: "none" or the marker it set last
    marks,       \* history: the markers of each token, in order
    rendered     \* history: the tokens taken for rendering, in order

vars == <<issued, starting, indices, renderToken, stage, marks, rendered>>

NoToken == 0
Indices == 1 .. MaxIndex
Markers == <<"SimulationStart", "SimulationEnd", "RenderSubmitStart",
             "RenderSubmitEnd", "PresentStart", "PresentEnd">>

Mark(m, t)     == marks' = [marks EXCEPT ![t] = Append(@, m)]
MarkTwo(m, n, t) == marks' = [marks EXCEPT ![t] = @ \o <<m, n>>]

Init ==
    /\ issued = 0 /\ starting = NoToken
    /\ indices = <<>>
    /\ renderToken = NoToken /\ stage = "none"
    /\ marks = [t \in Indices |-> <<>>]
    /\ rendered = <<>>

-----------------------------------------------------------------------------
(* FrameTokenQueue *)

\* Mutant: a full queue takes nothing more.
Push_DropsNewest(t) ==
    indices' = IF Len(indices) < kInFlight THEN Append(indices, t) ELSE indices

\* Append, then drop the oldest while there are too many.
Push(t) ==
    LET longer == Append(indices, t)
    IN  indices' = IF Len(longer) > kInFlight THEN Tail(longer) ELSE longer

-----------------------------------------------------------------------------
(* OnSimulationStart, on whichever thread polls the input *)

\* Streamline hands out the token; Reflex then holds the thread back.
SimulationStart ==
    /\ starting = NoToken
    /\ issued + 1 \in Indices
    /\ issued' = issued + 1
    /\ starting' = issued + 1
    /\ UNCHANGED <<indices, renderToken, stage, marks, rendered>>

SimulationBegun ==
    /\ starting # NoToken
    /\ Mark("SimulationStart", starting)
    /\ Push(starting)
    /\ starting' = NoToken
    /\ UNCHANGED <<issued, renderToken, stage, rendered>>

-----------------------------------------------------------------------------
(* The presenting thread *)

\* The frame's token, popped once per frame.  Streamline may refuse to give
\* the token back for its index; the index is then lost.
TakeRenderToken ==
    IF renderToken # NoToken \/ indices = <<>>
    THEN UNCHANGED <<indices, renderToken, marks, rendered>>
    ELSE /\ indices' = Tail(indices)
         /\ \/ UNCHANGED <<renderToken, marks, rendered>>
            \/ /\ renderToken' = Head(indices)
               /\ MarkTwo("SimulationEnd", "RenderSubmitStart", Head(indices))
               /\ rendered' = Append(rendered, Head(indices))

OnRenderStart == /\ stage = "none"
                 /\ TakeRenderToken
                 /\ UNCHANGED <<issued, starting, stage>>

PresentBegin == /\ stage = "none"
                /\ TakeRenderToken
                /\ stage' = "taken"
                /\ UNCHANGED <<issued, starting>>

\* A marker, when the frame has a token.
Advance(from, to) ==
    /\ stage = from
    /\ stage' = to
    /\ IF renderToken # NoToken THEN Mark(to, renderToken) ELSE UNCHANGED marks
    /\ UNCHANGED <<issued, starting, indices, rendered, renderToken>>

SubmitEnd == Advance("taken", "RenderSubmitEnd")
ShowStart == Advance("RenderSubmitEnd", "PresentStart")

\* Mutant: the token is kept for the next frame.
PresentEnd_KeepsToken ==
    /\ stage = "PresentStart"
    /\ stage' = "none"
    /\ IF renderToken # NoToken THEN Mark("PresentEnd", renderToken) ELSE UNCHANGED marks
    /\ UNCHANGED <<issued, starting, indices, rendered, renderToken>>

PresentEnd ==
    /\ stage = "PresentStart"
    /\ stage' = "none"
    /\ IF renderToken # NoToken THEN Mark("PresentEnd", renderToken) ELSE UNCHANGED marks
    /\ renderToken' = NoToken
    /\ UNCHANGED <<issued, starting, indices, rendered>>

\* Present while the presenter is unusable: the token, if taken, is dropped.
PresentRefused == /\ stage = "none"
                  /\ renderToken' = NoToken
                  /\ UNCHANGED <<issued, starting, indices, stage, marks, rendered>>

Next == \/ SimulationStart \/ SimulationBegun
        \/ OnRenderStart \/ PresentBegin \/ SubmitEnd \/ ShowStart \/ PresentEnd
        \/ PresentRefused

Spec == Init /\ [][Next]_vars

-----------------------------------------------------------------------------
\* Every variable has its type, and the queue its limit.
TypeOK ==
    /\ issued \in 0 .. MaxIndex /\ starting \in 0 .. MaxIndex
    /\ indices \in Seq(Indices) /\ Len(indices) <= kInFlight
    /\ renderToken \in 0 .. MaxIndex
    /\ stage \in {"none", "taken", "RenderSubmitEnd", "PresentStart"}
    /\ marks \in [Indices -> Seq({Markers[i] : i \in 1 .. Len(Markers)})]
    /\ rendered \in Seq(Indices)

\* Streamline sees every token go through its markers in their one order,
\* whichever thread sets them and however far the two ends drift apart.
MarkersInOrder ==
    \A t \in Indices : IsPrefix(marks[t], Markers)

\* No frame renders with another frame's token or with one older than its
\* predecessor's, although tokens are dropped and lost on the way.
RenderedInOrder ==
    \A i, j \in 1 .. Len(rendered) : i < j => rendered[i] < rendered[j]

\* Frames keep their order on both sides of the queue.
FramesInOrder == MarkersInOrder /\ RenderedInOrder

\* When the simulation has run ahead in a loading screen, the token a frame
\* takes is among the kInFlight + 1 newest issued: the queue sheds the old ones
\* and not the new.
NeverFarBehind ==
    [][\A t \in Indices : renderToken' = t /\ renderToken # t => t + kInFlight >= issued]_vars
=============================================================================
