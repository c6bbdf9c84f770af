---------------------------- MODULE CloudShadows ----------------------------
(***************************************************************************)
(* Features/CloudShadows: the engine's cloud layers are drawn once more    *)
(* into the faces of a coverage cube, which the lighting then samples as   *)
(* the shadow of the clouds.  To project a layer into a face the engine's  *)
(* own constants are needed, the sky's once a frame and every layer's once *)
(* a draw; they are copied on the GPU and read back kRing - 1 frames       *)
(* later, so that the thread never waits for its own copies.               *)
(*                                                                         *)
(* A copy of constants is the number of the frame it was taken in, 0 when  *)
(* there is none; the faces are written together and count as one.         *)
(***************************************************************************)
EXTENDS Integers, FiniteSets, EngineState

CONSTANTS
    RingSize,     \* kRing, 6 in the code
    MaxLayers,    \* kMaxLayers, 32
    MaxCloudFrame,\* bound: frames
    MaxDraws,     \* bound: cloud draws in a frame
    MaxChanges,   \* bound: times each of the engine's buffers changes its size
    MaxCloudOff   \* bound: times the feature is switched off

ASSUME CloudConstantsAssumption ==
    /\ RingSize \in Nat \ {0} /\ MaxLayers \in Nat /\ MaxCloudFrame \in Nat
    /\ MaxDraws \in Nat /\ MaxChanges \in Nat /\ MaxCloudOff \in Nat

VARIABLES
    on,         \* set up, and observing draws
    now,        \* FrameCount
    bytes,      \* the sizes of the engine's two buffers, each one of two
    sky,        \* the copies of the sky's constants: their buffers and size
    staged,     \* the frame a slot of _staging was written in
    image,      \* the frame of the sky's constants read back last
    geometry,   \* the copies of the layers' constants: their buffers and size
    layerStaged, layerImage, layerReady,
    stagingFrame, layerFrame, layerIndex,
    layer,      \* the layer of the draw in hand
    mainView,   \* BeforeDraw took the draw
    kept,       \* what is kept of the engine's state, the _saved members
    inPlace,    \* what is bound in the context
    facesWritten, coverage,  \* the frame the faces were cleared in, the layers they hold
    draws,      \* cloud draws in this frame, for the bound
    changes, cloudOffs

cloudVars == <<on, now, bytes, sky, staged, image, geometry, layerStaged, layerImage, layerReady,
               stagingFrame, layerFrame, layerIndex, layer, mainView, kept, inPlace,
               facesWritten, coverage, draws, changes, cloudOffs>>

Slots  == 0 .. RingSize - 1
Layers == 0 .. MaxLayers - 1
Made   == {"none", "some", "all"}
Buffers == {"sky", "geometry"}  \* of the engine's, whose constants are copied

WriteSlot(f) == f % RingSize

\* The slot written longest ago, and next to be written again.
ReadSlot(f)  == (f + 1) % RingSize

Unwritten == [s \in Slots |-> 0]

CloudInit ==
    /\ on = FALSE /\ now = 1 /\ bytes = [b \in Buffers |-> 1]
    /\ sky = [made |-> "none", bytes |-> 0] /\ geometry = sky
    /\ staged = Unwritten /\ image = 0
    /\ layerStaged = [l \in Layers |-> Unwritten]
    /\ layerImage = [l \in Layers |-> 0] /\ layerReady = {}
    /\ stagingFrame = 0 /\ layerFrame = 0 /\ layerIndex = 0 /\ layer = 0
    /\ mainView = FALSE /\ kept = Nothing /\ inPlace = EnginesOwn
    /\ facesWritten = 0 /\ coverage = {}
    /\ draws = 0 /\ changes = [b \in Buffers |-> 0] /\ cloudOffs = 0

-----------------------------------------------------------------------------
(* Setup, Shutdown and the tick *)

CloudSetup ==
    /\ ~on /\ draws = 0
    /\ on' = TRUE
    /\ layerReady' = {} /\ image' = 0
    /\ layerIndex' = 0 /\ layerFrame' = 0
    /\ mainView' = FALSE
    /\ coverage' = {}
    /\ UNCHANGED <<now, bytes, sky, staged, geometry, layerStaged, layerImage, stagingFrame, layer,
                   kept, inPlace, facesWritten, draws, changes, cloudOffs>>

\* ReleaseSaved gives back every reference that is kept.
DropKept(taken) ==
    Released({"targets", "depth", "blend", "rasterizer", "skyConstants", "geometryConstants"}, taken)

\* Shutdown gives the copies back; the frames they were written in stay, and
\* are reset when copies are made again.
CloudShutdown ==
    /\ on /\ draws = 0 /\ cloudOffs < MaxCloudOff
    /\ on' = FALSE
    /\ cloudOffs' = cloudOffs + 1
    /\ sky' = [made |-> "none", bytes |-> 0] /\ geometry' = sky'
    /\ kept' = DropKept(kept) /\ image' = 0
    /\ UNCHANGED <<now, bytes, staged, layerStaged, layerImage, layerReady, stagingFrame, layerFrame,
                   layerIndex, layer, mainView, inPlace, facesWritten, coverage, draws, changes>>

\* ReadStagedConstants, from the tick: a map that would wait fails and the
\* image stays what it was.
CloudPresent ==
    /\ ~mainView /\ now < MaxCloudFrame
    /\ now' = now + 1
    /\ draws' = 0
    /\ \/ UNCHANGED image
       \/ /\ on /\ sky.made # "none" /\ staged[ReadSlot(now')] # 0
          /\ image' = staged[ReadSlot(now')]
    /\ UNCHANGED <<on, bytes, sky, staged, geometry, layerStaged, layerImage, layerReady,
                   stagingFrame, layerFrame, layerIndex, layer, mainView, kept, inPlace,
                   facesWritten, coverage, changes, cloudOffs>>

\* The engine's, between two draws, to a buffer of the other size; of the two
\* buffers each has a size of its own.
EngineResizes(b) ==
    /\ ~mainView /\ changes[b] < MaxChanges
    /\ changes' = [changes EXCEPT ![b] = @ + 1]
    /\ bytes' = [bytes EXCEPT ![b] = 3 - @]
    /\ UNCHANGED <<on, now, sky, staged, image, geometry, layerStaged, layerImage, layerReady,
                   stagingFrame, layerFrame, layerIndex, layer, mainView, kept, inPlace,
                   facesWritten, coverage, draws, cloudOffs>>

-----------------------------------------------------------------------------
(* BeforeDraw *)

\* Copies of another size are made anew, and creating them may fail at any
\* of them; the size is noted when all are there.
Remade(copies, size) ==
    {[made |-> m, bytes |-> IF m = "all" THEN size ELSE copies.bytes] : m \in Made}

\* EnsureConstantCopies asks for the first buffer and the size,
\* EnsureGeometryCopies for the size alone.
SkyKept      == sky.made # "none" /\ sky.bytes = bytes["sky"]
GeometryKept == geometry.bytes = bytes["geometry"]

\* The sky's constants are copied once a frame.
CopySky(fresh) ==
    /\ staged' = LET old == IF fresh THEN Unwritten ELSE staged
                 IN  IF stagingFrame = now THEN old ELSE [old EXCEPT ![WriteSlot(now)] = now]
    /\ stagingFrame' = now

\* A layer is known by its place among the frame's draws.
CountLayer ==
    /\ layer' = IF layerFrame = now THEN layerIndex ELSE 0
    /\ layerIndex' = layer' + 1
    /\ layerFrame' = now

\* The layer's constants of kRing - 1 frames ago, if the map does not wait,
\* then this frame's copy; from the first time on it was read it is ready.
CopyLayer(fresh) ==
    LET old == IF fresh THEN [l \in Layers |-> Unwritten] ELSE layerStaged
        read == old[layer'][ReadSlot(now)]
        ready == IF fresh THEN {} ELSE layerReady
    IN  /\ layerStaged' = [old EXCEPT ![layer'][WriteSlot(now)] = now]
        /\ \/ UNCHANGED layerImage /\ layerReady' = ready
           \/ /\ read # 0
              /\ layerImage' = [layerImage EXCEPT ![layer'] = read]
              /\ layerReady' = ready \cup {layer'}

\* A draw into the reflection, not the main view: the target is asked for and
\* given back.
BeforeReflection ==
    /\ on /\ ~mainView
    /\ mainView' = FALSE
    /\ kept' = Released({"targets"}, Got({"targets"}, inPlace, kept))
    /\ UNCHANGED <<on, now, bytes, sky, staged, image, geometry, layerStaged, layerImage, layerReady,
                   stagingFrame, layerFrame, layerIndex, layer, inPlace, facesWritten, coverage,
                   draws, changes, cloudOffs>>

\* A way out of BeforeDraw with something kept already.
GiveUp(taken) == mainView' = FALSE /\ kept' = DropKept(taken)

\* The Get finds a buffer or none.
Asked(part, taken) == {taken, Got({part}, inPlace, taken)}

\* The layer's constants: with no buffer there, one that is too small or no
\* device the copies are left as they are.
TakeLayer(taken) ==
    \/ /\ \E more \in Asked("geometryConstants", taken) : GiveUp(more)
       /\ UNCHANGED <<geometry, layerStaged, layerImage, layerReady>>
    \/ \E g \in IF GeometryKept THEN {geometry} ELSE Remade(geometry, bytes["geometry"]) :
          LET more == Got({"geometryConstants"}, inPlace, taken)
          IN  /\ geometry' = g
              /\ IF g.made # "all" /\ ~GeometryKept
                 THEN /\ GiveUp(more)
                      /\ layerStaged' = [l \in Layers |-> Unwritten]
                      /\ layerReady' = {}
                      /\ UNCHANGED layerImage
                 ELSE /\ mainView' = TRUE /\ kept' = more
                      /\ CopyLayer(~GeometryKept)

\* The sky's constants, then the layer's.
TakeSky(taken) ==
    \E c \in IF SkyKept THEN {sky} ELSE Remade(sky, bytes["sky"]) :
       /\ sky' = c
       /\ image' = IF SkyKept THEN image ELSE 0
       /\ IF c.made # "all" /\ ~SkyKept
          THEN /\ GiveUp(taken)
               /\ staged' = Unwritten
               /\ UNCHANGED <<geometry, layerStaged, layerImage, layerReady, stagingFrame,
                              layerFrame, layerIndex, layer>>
          ELSE /\ CopySky(~SkyKept)
               /\ CountLayer
               /\ IF layer' >= MaxLayers
                  THEN GiveUp(taken) /\ UNCHANGED <<geometry, layerStaged, layerImage, layerReady>>
                  ELSE TakeLayer(taken)

BeforeLayer ==
    /\ on /\ ~mainView /\ draws < MaxDraws
    /\ draws' = draws + 1
    /\ \/ /\ \E taken \in Asked("skyConstants", kept) : GiveUp(taken)
          /\ UNCHANGED <<sky, staged, image, geometry, layerStaged, layerImage, layerReady,
                         stagingFrame, layerFrame, layerIndex, layer>>
       \/ TakeSky(Got({"skyConstants"}, inPlace, kept))
    /\ UNCHANGED <<on, now, bytes, inPlace, facesWritten, coverage, changes, cloudOffs>>

-----------------------------------------------------------------------------
(* AfterDraw *)

\* Mutant: the faces are cleared for the first layer of a frame only.
Cleared_ByFirstLayer == IF layer = 0 THEN {} ELSE coverage

\* The first layer of a frame to be repeated finds the faces cleared.
Cleared == IF facesWritten # now THEN {} ELSE coverage

\* The draw is repeated into the faces: the rest of the engine's state is
\* saved, ours set for each face, and what was saved set again.
RepeatIntoFaces ==
    LET taken    == Got({"targets", "depth", "blend", "rasterizer", "viewports"}, inPlace, kept)
        repeated == SetToOurs({"viewports", "rasterizer", "blend", "targets", "depth",
                               "skyConstants", "geometryConstants"}, inPlace)
    IN  /\ inPlace' = SetToSaved({"skyConstants", "geometryConstants", "targets", "depth", "blend",
                                  "rasterizer", "viewports"}, repeated, taken)
        /\ kept' = DropKept(taken)

AfterCloudDraw ==
    /\ mainView
    /\ mainView' = FALSE
    /\ IF image = 0 \/ layer \notin layerReady
       THEN kept' = DropKept(kept) /\ UNCHANGED <<inPlace, facesWritten, coverage>>
       ELSE /\ facesWritten' = now
            /\ coverage' = Cleared \cup {[frame |-> now, layer |-> layer]}
            /\ RepeatIntoFaces
    /\ UNCHANGED <<on, now, bytes, sky, staged, image, geometry, layerStaged, layerImage, layerReady,
                   stagingFrame, layerFrame, layerIndex, layer, draws, changes, cloudOffs>>

CloudNext ==
    \/ CloudSetup \/ CloudShutdown
    \/ CloudPresent \/ \E b \in Buffers : EngineResizes(b)
    \/ BeforeReflection \/ BeforeLayer \/ AfterCloudDraw

-----------------------------------------------------------------------------
\* The shadow is cast by the clouds of one frame: a layer may be late, or
\* not be ready, and none of an earlier frame stays behind in a face.
OneFramesClouds == \A a, b \in coverage : a.frame = b.frame

\* CloudShadows.h:81: copies "go into a ring and are read kRing - 1 frames
\* later".  Not sooner, whatever was skipped, switched off or made anew in
\* between: a read that comes sooner would fail for the GPU being behind.
ReadLateEnough ==
    [][/\ image' \notin {0, image} => image' + RingSize - 1 <= now'
       /\ \A l \in Layers :
             layerImage'[l] # layerImage[l] => layerImage'[l] + RingSize - 1 <= now']_cloudVars

\* A draw is taken only when every copy it writes to is there, whichever
\* creation failed before.  Only an engine that changes the size of a buffer
\* and changes back can defeat the noted size.
CopiesAreThere ==
    mainView => /\ changes["sky"] < 2 => sky.made = "all"
                /\ changes["geometry"] < 2 => geometry.made = "all"

\* Outside a draw that is taken the context is bound to the engine's own and no
\* reference to it is kept, whichever way BeforeDraw and AfterDraw were left by.
CloudsLeaveNoTrace == ~mainView => NothingHeld(kept) /\ inPlace = EnginesOwn

=============================================================================
