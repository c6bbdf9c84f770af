---------------------------- MODULE Skylighting ----------------------------
(***************************************************************************)
(* Features/Skylighting: the engine's shadow casters are drawn once more,  *)
(* seen from the sky, into an occlusion map; a map is spread over the      *)
(* kCaptureCycle frames of a cycle, each taking its share of the casters,  *)
(* and once it is whole a compute pass folds it into a grid of probes      *)
(* around the camera.  The grid is a ring: when the camera moves by a      *)
(* cell, the cells that come into view take the places of the ones that    *)
(* left it.  Everything runs on the thread that draws and presents.        *)
(*                                                                         *)
(* Space has one dimension here, and a probe holds the place in the world  *)
(* it was accumulated at.                                                  *)
(***************************************************************************)
EXTENDS Integers, FiniteSets, EngineState

CONSTANTS
    Cycle,    \* kCaptureCycle, 7 in the code
    GridSize, \* kGridSize, 256 and 128
    MaxCell,  \* bound: cells the camera is in, either side of zero
    MaxFrame, \* bound: frames
    MaxOff    \* bound: times the feature is switched off

ASSUME ConstantsAssumption ==
    /\ Cycle \in Nat \ {0} /\ GridSize \in Nat \ {0} /\ GridSize % 2 = 0
    /\ GridSize <= 1000  \* the margin of a grid that starts anew, "wider than the grid"
    /\ MaxCell \in Nat /\ MaxFrame \in Nat /\ MaxOff \in Nat

VARIABLES
    running,      \* set up, and observing draws
    frame,        \* FrameCount
    wasOutdoors,  \* whether the last tick found the sky
    captureFrame, captureReady,  \* the last frame a capture was begun or refused in
    capturePhase, lastCapturedFrame,
    eye,          \* the camera's cell when the cycle began
    map,          \* the occlusion map: the draws it holds
    surrounding,  \* between BeforeDraw and AfterDraw of a draw to be repeated
    saved,        \* what is kept of the engine's state, the _saved members
    bound,        \* what is bound in the context
    gridValid, previousCell, windowCell,
    probes,       \* where the probe at a place of the ring was accumulated
    updated,      \* whether the phase's subscriber ran in this frame
    dispatches,   \* maps folded into the grid
    took,         \* history: the frames that took part in the map
    lost,         \* history: a window was moved and the grid not updated
    offs          \* history: times switched off

skyVars == <<running, frame, wasOutdoors, captureFrame, captureReady, capturePhase,
             lastCapturedFrame, eye, map, surrounding, saved, bound, gridValid, previousCell,
             windowCell, probes, updated, dispatches, took, lost, offs>>

Cells   == -MaxCell .. MaxCell
Ring    == 0 .. GridSize - 1
NoPhase == -1  \* kNoCapturePhase
Nowhere == MaxCell + GridSize + 1
Mixed   == Nowhere + 1

SkyInit ==
    /\ running = FALSE /\ frame = 1 /\ wasOutdoors = FALSE
    /\ captureFrame = 0 /\ captureReady = FALSE
    /\ capturePhase = NoPhase /\ lastCapturedFrame = 0
    /\ eye = 0 /\ map = {} /\ took = {}
    /\ surrounding = FALSE /\ saved = Nothing /\ bound = EnginesOwn
    /\ gridValid = FALSE /\ previousCell = 0 /\ windowCell = 0
    /\ probes = [p \in Ring |-> Nowhere]
    /\ updated = FALSE /\ dispatches = 0 /\ lost = FALSE /\ offs = 0

\* ReleaseSaved gives back every reference that is kept.
ReleaseSaved(taken) ==
    Released({"targets", "depth", "view", "depthState", "rasterizer"}, taken)

-----------------------------------------------------------------------------
(* Setup, Shutdown and the tick *)

\* What Setup resets; that it may give up, and what it holds then, is the
\* business of Effects.
Setup ==
    /\ ~running
    /\ running' = TRUE
    /\ captureFrame' = 0 /\ captureReady' = FALSE
    /\ capturePhase' = NoPhase /\ lastCapturedFrame' = 0
    /\ surrounding' = FALSE
    /\ gridValid' = FALSE /\ wasOutdoors' = FALSE
    /\ probes' = [p \in Ring |-> Nowhere]
    /\ map' = {} /\ took' = {} /\ lost' = FALSE
    /\ UNCHANGED <<frame, eye, saved, bound, previousCell, windowCell, updated, dispatches, offs>>

Shutdown ==
    /\ running /\ captureFrame # frame /\ ~updated /\ offs < MaxOff
    /\ running' = FALSE
    /\ offs' = offs + 1
    /\ saved' = ReleaseSaved(saved)
    /\ UNCHANGED <<frame, wasOutdoors, captureFrame, captureReady, capturePhase, lastCapturedFrame,
                   eye, map, surrounding, bound, gridValid, previousCell, windowCell, probes,
                   updated, dispatches, took, lost>>

\* Frame: stepping outdoors starts the grid anew.
Frame(outdoors) ==
    /\ wasOutdoors' = outdoors
    /\ IF outdoors /\ ~wasOutdoors
       THEN gridValid' = FALSE /\ lost' = FALSE
       ELSE UNCHANGED <<gridValid, lost>>

\* Present counts the frame and ticks the features.
SkyPresent(outdoors) ==
    /\ frame < MaxFrame /\ ~surrounding
    /\ frame' = frame + 1
    /\ updated' = FALSE
    /\ IF running THEN Frame(outdoors) ELSE UNCHANGED <<wasOutdoors, gridValid, lost>>
    /\ UNCHANGED <<running, captureFrame, captureReady, capturePhase, lastCapturedFrame, eye, map,
                   surrounding, saved, bound, previousCell, windowCell, probes, dispatches, took, offs>>

-----------------------------------------------------------------------------
(* The draws of the casters *)

\* Mutant: a frame without a capture does not break the cycle.
NextCapturePhase_NoGap(phase, last, f) ==
    IF phase = NoPhase \/ phase + 1 >= Cycle THEN 0 ELSE phase + 1

NextCapturePhase(phase, last, f) ==
    IF phase = NoPhase \/ f # last + 1 \/ phase + 1 >= Cycle THEN 0 ELSE phase + 1

\* BeginFrameCapture, at the first caster of a frame: it may find no sky, no
\* camera or no room for the engine's view constants.
BeginFrameCapture ==
    \/ /\ captureReady' = FALSE
       /\ UNCHANGED <<capturePhase, lastCapturedFrame, eye, map, took>>
    \/ /\ captureReady' = TRUE
       /\ capturePhase' = NextCapturePhase(capturePhase, lastCapturedFrame, frame)
       /\ lastCapturedFrame' = frame
       /\ IF capturePhase' = 0
          THEN eye' \in Cells /\ map' = {} /\ took' = {frame}
          ELSE UNCHANGED <<eye, map>> /\ took' = took \cup {frame}

\* Surround calls BeforeDraw.  The depth view is asked for first, then, of a
\* caster of a frame that takes part, the view constants: the draw's buffers
\* and arguments make its share of the cycle, and only one of this frame's
\* share is repeated and has the rest of the state saved.  Each way out gives
\* back what was asked for up to there.

\* A draw that does not go to the sun's shadow map.
NoCaster(taken) ==
    /\ surrounding' = FALSE
    /\ saved' = Released({"depth"}, taken)
    /\ UNCHANGED <<captureFrame, captureReady, capturePhase, lastCapturedFrame, eye, map, took>>

\* Mutant: a draw of another frame's share keeps its view constants.
OfShare_KeepsView(bucket, taken) ==
    /\ surrounding' = (bucket = capturePhase')
    /\ saved' = IF surrounding'
                THEN Got({"targets", "depthState", "rasterizer", "viewports", "scissors"}, bound, taken)
                ELSE Released({"depth"}, taken)

OfShare(bucket, taken) ==
    /\ surrounding' = (bucket = capturePhase')
    /\ saved' = IF surrounding'
                THEN Got({"targets", "depthState", "rasterizer", "viewports", "scissors"}, bound, taken)
                ELSE ReleaseSaved(taken)

Caster(bucket, taken) ==
    /\ IF captureFrame = frame
       THEN UNCHANGED <<captureReady, capturePhase, lastCapturedFrame, eye, map, took>>
       ELSE BeginFrameCapture
    /\ captureFrame' = frame
    /\ IF captureReady'
       THEN OfShare(bucket, Got({"view"}, bound, taken))
       ELSE surrounding' = FALSE /\ saved' = Released({"depth"}, taken)

BeforeDraw(bucket) ==
    /\ running /\ ~surrounding
    /\ LET taken == Got({"depth"}, bound, saved)
       IN  NoCaster(taken) \/ Caster(bucket, taken)
    /\ UNCHANGED <<running, frame, wasOutdoors, bound, gridValid, previousCell, windowCell, probes,
                   updated, dispatches, lost, offs>>

\* AfterDraw sets its own state, repeats the draw into the map and sets what was
\* saved.  There may be no rasterizer state without the engine's bias; then the
\* engine's stays.
AfterDraw ==
    /\ surrounding
    /\ surrounding' = FALSE
    /\ \E unbiased \in SUBSET {"rasterizer"} :
          LET repeated == SetToOurs({"targets", "depth", "depthState", "viewports", "scissors", "view"}
                                        \cup unbiased, bound)
          IN  bound' = SetToSaved({"view", "depthState", "rasterizer", "targets", "depth",
                                   "viewports", "scissors"}, repeated, saved)
    /\ map' = map \cup {[frame |-> frame, bucket |-> capturePhase, eye |-> eye]}
    /\ saved' = ReleaseSaved(saved)
    /\ UNCHANGED <<running, frame, wasOutdoors, captureFrame, captureReady, capturePhase,
                   lastCapturedFrame, eye, gridValid, previousCell, windowCell, probes, updated,
                   dispatches, took, lost, offs>>

-----------------------------------------------------------------------------
(* The grid *)

\* Mutant: unsigned, as the template has it: a leap makes every cell valid.
Valid_Unsigned(id, margin) ==
    /\ id >= IF margin > 0 THEN margin ELSE 0
    /\ LET last == GridSize - 1 + (IF margin < 0 THEN margin ELSE 0)
       IN  last < 0 \/ id <= last

\* UpdateProbes.hlsl: whether a cell of the window was in the last one too.
Valid(id, margin) ==
    /\ id >= IF margin > 0 THEN margin ELSE 0
    /\ id <= GridSize - 1 + (IF margin < 0 THEN margin ELSE 0)

\* WindowFor: the place in the world of a cell of the window, its place in
\* the ring, and by how much the window moved.
WorldCell(cell, id)  == cell - GridSize \div 2 + id
ArrayIndex(cell, id) == WorldCell(cell, id) % GridSize
Margin(cell)         == IF gridValid THEN previousCell - cell ELSE 1000

\* The dispatch: a valid cell goes on with its running mean, another starts.
Updated(cell) ==
    [p \in Ring |->
        LET id == CHOOSE i \in Ring : ArrayIndex(cell, i) = p
        IN  IF ~Valid(id, Margin(cell)) \/ probes[p] = WorldCell(cell, id)
            THEN WorldCell(cell, id) ELSE Mixed]

MapWhole == captureReady /\ captureFrame = frame /\ capturePhase = Cycle - 1

\* UpdateProbes, once a frame, after the frame's casters.  The window is
\* moved before FillConstants, which may find no camera, an implausible
\* matrix or no picture; then the move is not carried out.
UpdateProbes ==
    /\ running /\ ~surrounding /\ ~updated
    /\ updated' = TRUE
    /\ IF ~MapWhole
       THEN UNCHANGED <<gridValid, previousCell, windowCell, probes, dispatches, lost>>
       ELSE /\ previousCell' = eye /\ windowCell' = eye
            /\ gridValid' = TRUE
            /\ \/ probes' = Updated(eye) /\ dispatches' = dispatches + 1 /\ UNCHANGED lost
               \/ lost' = TRUE /\ UNCHANGED <<probes, dispatches>>
    /\ UNCHANGED <<running, frame, wasOutdoors, captureFrame, captureReady, capturePhase,
                   lastCapturedFrame, eye, map, surrounding, saved, bound, took, offs>>

SkyNext ==
    \/ Setup \/ Shutdown
    \/ \E o \in BOOLEAN : SkyPresent(o)
    \/ \E b \in 0 .. Cycle - 1 : BeforeDraw(b)
    \/ AfterDraw
    \/ UpdateProbes

-----------------------------------------------------------------------------
\* The probes the pass samples hold the sky of the place they stand for: the
\* camera may leap further than the grid is wide, in either direction, go
\* indoors and come out somewhere else, or the feature may be switched off
\* and on.  The exception is a window that moved without an update.
ProbesAreOwn ==
    gridValid /\ ~lost =>
        \A id \in Ring : probes[ArrayIndex(windowCell, id)] = WorldCell(windowCell, id)

\* Only a whole map goes into the grid: one that every frame of one cycle
\* took part in, without a gap, each with its own share of the casters, all
\* seen around one eye.
WholeMapsOnly ==
    [][dispatches' # dispatches =>
        /\ took = frame - Cycle + 1 .. frame
        /\ \A d \in map : d.eye = eye /\ d.bucket = d.frame - (frame - Cycle + 1)]_skyVars

\* Outside a draw that is being repeated the context is bound to the engine's
\* own and no reference to it is kept, whichever way BeforeDraw was left by.
SkyLeavesNoTrace == ~surrounding => NothingHeld(saved) /\ bound = EnginesOwn

=============================================================================
