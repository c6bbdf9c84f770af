--------------------------- MODULE CapturesProofs ---------------------------
(***************************************************************************)
(* Theorems about Captures, for every length of the cycle and the ring,    *)
(* every grid up to the code's margin and every number of layers: what the *)
(* two observers gather over the frames is whole when it is used, whatever *)
(* leaps the camera makes, whichever frames are missed and whichever       *)
(* copies cannot be made, and they leave the engine's state as it was.     *)
(***************************************************************************)
EXTENDS Captures, TLAPS

-----------------------------------------------------------------------------
(* The occlusion map and the grid *)

SkyTypeInv ==
    /\ frame \in Nat \ {0} /\ captureFrame \in Nat /\ lastCapturedFrame \in Nat
    /\ capturePhase \in NoPhase .. Cycle - 1
    /\ {eye, previousCell, windowCell} \subseteq Int

\* The frame the cycle in hand began in.
CycleBegan == lastCapturedFrame - capturePhase

\* The map holds what the frames of the cycle in hand have drawn, all of them
\* up to the last captured one; a draw is surrounded only while the frame's
\* capture stands.
CycleInv ==
    /\ lastCapturedFrame <= captureFrame /\ captureFrame <= frame
    /\ capturePhase # NoPhase =>
         /\ took = CycleBegan .. lastCapturedFrame
         /\ \A d \in map : d.eye = eye /\ d.bucket = d.frame - CycleBegan
    /\ captureReady /\ captureFrame = frame =>
         capturePhase # NoPhase /\ lastCapturedFrame = frame
    /\ surrounding => running /\ captureReady /\ captureFrame = frame

\* What BeforeDraw takes of the engine's, and AfterDraw sets again.
SkyTakes == {"targets", "depth", "depthState", "rasterizer", "view", "viewports", "scissors"}

\* Between two calls the context is bound to the engine's own; of a surrounded
\* draw all that is taken is kept, otherwise none of the objects.
SkyTraceInv ==
    /\ bound = EnginesOwn
    /\ saved \in [Parts -> {"engine", "nothing"}]
    /\ ~surrounding => NothingHeld(saved)
    /\ surrounding => \A p \in Parts :
          IF p \in SkyTakes THEN saved[p] = "engine" ELSE saved[p] = "nothing"

\* The window the grid was last filled for is where the next one moves from.
GridInv == (gridValid => windowCell = previousCell) /\ ProbesAreOwn

SkyInv == SkyTypeInv /\ CycleInv /\ SkyTraceInv /\ GridInv

-----------------------------------------------------------------------------
(* The ring of copies and the faces *)

Copies == [made : Made, bytes : 0 .. 2]

CloudTypeInv ==
    /\ now \in Nat \ {0} /\ draws \in Nat
    /\ bytes \in [Buffers -> {1, 2}] /\ changes \in [Buffers -> Nat]
    /\ {sky, geometry} \subseteq Copies
    /\ staged \in [Slots -> Nat] /\ layerStaged \in [Layers -> [Slots -> Nat]]
    /\ image \in Nat /\ layerImage \in [Layers -> Nat]
    /\ {layer, layerIndex} \subseteq Nat

\* A slot holds a copy of a frame whose turn it was.
InSlot(f, s) == f # 0 => f <= now /\ f % RingSize = s

StagedInv ==
    /\ \A s \in Slots : InSlot(staged[s], s)
    /\ \A l \in Layers, s \in Slots : InSlot(layerStaged[l][s], s)

\* The faces hold what was drawn since they were cleared.
FacesInv == \A a \in coverage : a.frame = facesWritten

\* The size is noted only when all copies are there, so what is not complete
\* has another size than the engine's, as long as it has changed once at most.
Sized(copies, b) ==
    /\ changes[b] = 0 => copies.bytes < 2 /\ bytes[b] = 1
    /\ changes[b] = 1 => bytes[b] = 2
    /\ changes[b] < 2 => copies.made = "all" \/ copies.bytes # bytes[b]

CopiesInv ==
    /\ Sized(sky, "sky") /\ Sized(geometry, "geometry")
    /\ mainView => draws # 0
    /\ CopiesAreThere

\* The objects BeforeDraw and AfterDraw may ask for.
CloudTakes == {"targets", "depth", "blend", "rasterizer", "skyConstants", "geometryConstants"}

\* What is kept can be given back by ReleaseSaved.
Droppable(taken) ==
    /\ taken \in [Parts -> {"engine", "nothing"}]
    /\ \A p \in Objects \ CloudTakes : taken[p] = "nothing"

\* Between two calls the context is bound to the engine's own; of a draw that
\* is taken the two buffers are kept, otherwise none of the objects.
CloudTraceInv ==
    /\ inPlace = EnginesOwn
    /\ Droppable(kept)
    /\ ~mainView => NothingHeld(kept)
    /\ mainView => kept["skyConstants"] = "engine" /\ kept["geometryConstants"] = "engine"

CloudInv == CloudTypeInv /\ StagedInv /\ FacesInv /\ CopiesInv /\ CloudTraceInv

IInv == SkyInv /\ CloudInv

-----------------------------------------------------------------------------
(* Rings *)

\* What division leaves, for every number and every length of a ring.
LEMMA Division ==
  ASSUME NEW n \in Nat \ {0}, NEW a \in Int
  PROVE  /\ (a % n) \in 0 .. n - 1 /\ (a \div n) \in Int
         /\ a = n * (a \div n) + (a % n)
OBVIOUS

\* Two numbers with one place in the ring are whole rings apart.
LEMMA RingsApart ==
  ASSUME NEW n \in Nat \ {0}, NEW a \in Int, NEW b \in Int, a % n = b % n
  PROVE  \E q \in Int : a - b = n * q
<1> DEFINE p == a \div n
           q == b \div n
           r == a % n
<1>1. a = n * p + r /\ b = n * q + r /\ p \in Int /\ q \in Int /\ r \in Int
  BY Division
<1> HIDE DEF p, q, r
<1>2. a - b = n * (p - q) /\ p - q \in Int
  BY <1>1
<1> QED
  BY <1>2

\* Two numbers with one place in the ring and less than a ring apart are one.
LEMMA OnePlace ==
  ASSUME NEW n \in Nat \ {0}, NEW a \in Int, NEW b \in Int, a % n = b % n,
         a - b < n, b - a < n
  PROVE  a = b
<1>1. PICK q \in Int : a - b = n * q
  BY RingsApart
<1>2. q = 0
  <2>1. CASE q > 0
    <3>1. n * q >= n
      BY <2>1
    <3> QED
      BY <1>1, <3>1
  <2>2. CASE q < 0
    <3>1. n * q <= -n
      BY <2>2
    <3> QED
      BY <1>1, <3>1
  <2> QED
    BY <2>1, <2>2
<1> QED
  BY <1>1, <1>2

\* Of two numbers with one place in the ring the smaller is a ring behind.
LEMMA ARingBehind ==
  ASSUME NEW n \in Nat \ {0}, NEW a \in Int, NEW b \in Int, a % n = b % n, a < b
  PROVE  a + n <= b
<1>1. PICK q \in Int : b - a = n * q
  BY RingsApart
<1>2. q > 0
  <2>1. ASSUME q <= 0 PROVE n * q <= 0
    BY <2>1
  <2> QED
    BY <1>1, <2>1
<1>3. n * q >= n
  BY <1>2
<1> QED
  BY <1>1, <1>3

-----------------------------------------------------------------------------
(* Skylighting *)

\* A cell of the window that moved with the camera keeps its probe, and every
\* other starts anew: after the dispatch all of them are of their own place.
LEMMA UpdatedIsOwn ==
  ASSUME SkyTypeInv, GridInv, ~lost, NEW id \in Ring
  PROVE  Updated(eye)[ArrayIndex(eye, id)] = WorldCell(eye, id)
<1> DEFINE p == ArrayIndex(eye, id)
<1>1. /\ GridSize \in Nat \ {0} /\ GridSize <= 1000 /\ GridSize \div 2 \in Int
      /\ eye \in Int /\ previousCell \in Int /\ id \in 0 .. GridSize - 1
  BY ConstantsAssumption DEF SkyTypeInv, Ring
<1>2. \A i \in Ring : WorldCell(eye, i) \in Int
  BY <1>1 DEF WorldCell, Ring
<1>3. p \in Ring
  BY <1>1, <1>2, Division DEF ArrayIndex, Ring
<1>4. ASSUME NEW i \in Ring, ArrayIndex(eye, i) = p PROVE i = id
  <2>1. WorldCell(eye, i) = WorldCell(eye, id)
    <3>1. /\ WorldCell(eye, i) - WorldCell(eye, id) < GridSize
          /\ WorldCell(eye, id) - WorldCell(eye, i) < GridSize
      BY <1>1 DEF WorldCell, Ring
    <3> QED
      BY <1>1, <1>2, <1>4, <3>1, OnePlace DEF ArrayIndex
  <2> QED
    BY <1>1, <2>1 DEF WorldCell, Ring
<1>5. (CHOOSE i \in Ring : ArrayIndex(eye, i) = p) = id
  BY <1>4
<1>6. Updated(eye)[p] = IF ~Valid(id, Margin(eye)) \/ probes[p] = WorldCell(eye, id)
                        THEN WorldCell(eye, id) ELSE Mixed
  BY <1>3, <1>5 DEF Updated
<1>7. ASSUME Valid(id, Margin(eye)) PROVE probes[p] = WorldCell(eye, id)
  <2>1. gridValid
    BY <1>1, <1>7 DEF Valid, Margin
  <2> DEFINE j == id - (previousCell - eye)
  <2>2. j \in Ring
    BY <1>1, <1>7, <2>1 DEF Valid, Margin, Ring
  <2>3. WorldCell(windowCell, j) = WorldCell(eye, id)
    BY <1>1, <2>1 DEF WorldCell, GridInv
  <2>4. probes[ArrayIndex(windowCell, j)] = WorldCell(windowCell, j)
    BY <2>1, <2>2 DEF GridInv, ProbesAreOwn
  <2> QED
    BY <2>3, <2>4 DEF ArrayIndex
<1> QED
  BY <1>6, <1>7

\* What is true of Skylighting holds at the start.
LEMMA SkyInitInv == SkyInit => SkyInv
<1> SUFFICES ASSUME SkyInit PROVE SkyInv
  OBVIOUS
<1>1. SkyTypeInv /\ CycleInv /\ GridInv
  BY ConstantsAssumption
     DEF SkyInit, SkyTypeInv, CycleInv, GridInv, ProbesAreOwn, NoPhase
<1>2. SkyTraceInv
  BY DEF SkyInit, SkyTraceInv, NothingHeld, Nothing, Objects, Parts
<1> QED
  BY <1>1, <1>2 DEF SkyInv

\* The first caster of a frame begins its capture, and none is surrounded that
\* is not of a frame that takes part.
LEMMA DrawBegins ==
  ASSUME NEW b \in 0 .. Cycle - 1, BeforeDraw(b)
  PROVE  /\ \/ /\ ~surrounding'
               /\ UNCHANGED <<captureFrame, captureReady, capturePhase, lastCapturedFrame, eye, map, took>>
            \/ /\ captureFrame' = frame
               /\ surrounding' => captureReady'
               /\ IF captureFrame = frame
                  THEN UNCHANGED <<captureReady, capturePhase, lastCapturedFrame, eye, map, took>>
                  ELSE BeginFrameCapture
         /\ running /\ UNCHANGED <<running, frame>>
<1>1. ASSUME NEW taken, NoCaster(taken)
      PROVE  /\ ~surrounding'
             /\ UNCHANGED <<captureFrame, captureReady, capturePhase, lastCapturedFrame, eye, map, took>>
  BY <1>1 DEF NoCaster
<1>2. ASSUME NEW taken, Caster(b, taken)
      PROVE  /\ captureFrame' = frame
             /\ surrounding' => captureReady'
             /\ IF captureFrame = frame
                THEN UNCHANGED <<captureReady, capturePhase, lastCapturedFrame, eye, map, took>>
                ELSE BeginFrameCapture
  BY <1>2 DEF Caster
<1>3. /\ NoCaster(Got({"depth"}, bound, saved)) \/ Caster(b, Got({"depth"}, bound, saved))
      /\ running /\ UNCHANGED <<running, frame>>
  BY DEF BeforeDraw
<1> QED
  BY <1>1, <1>2, <1>3

\* Every step of Skylighting keeps the types.
LEMMA SkyTypeStep == SkyInv /\ SkyNext => SkyTypeInv'
<1> SUFFICES ASSUME SkyInv, SkyNext PROVE SkyTypeInv'
  OBVIOUS
<1> USE DEF SkyInv, SkyTypeInv, NoPhase
<1>1. CASE Setup
  BY <1>1, ConstantsAssumption DEF Setup
<1>2. CASE Shutdown
  BY <1>2 DEF Shutdown
<1>3. ASSUME NEW o \in BOOLEAN, SkyPresent(o) PROVE SkyTypeInv'
  BY <1>3 DEF SkyPresent
<1>4. ASSUME NEW b \in 0 .. Cycle - 1, BeforeDraw(b) PROVE SkyTypeInv'
  <2>1. CASE UNCHANGED <<captureFrame, lastCapturedFrame, capturePhase, eye>>
    BY <1>4, <2>1 DEF BeforeDraw
  <2>2. CASE captureFrame' = frame /\ BeginFrameCapture
    BY <1>4, <2>2, ConstantsAssumption
       DEF BeforeDraw, BeginFrameCapture, NextCapturePhase, Cells
  <2> QED
    BY <1>4, <2>1, <2>2, DrawBegins
<1>5. CASE AfterDraw
  BY <1>5 DEF AfterDraw
<1>6. CASE UpdateProbes
  BY <1>6 DEF UpdateProbes
<1> QED
  BY <1>1, <1>2, <1>3, <1>4, <1>5, <1>6 DEF SkyNext

\* Every step of Skylighting keeps the map a cycle's and the draws surrounded
\* within the frame of their capture.
LEMMA CycleStep == SkyInv /\ SkyNext => CycleInv'
<1> SUFFICES ASSUME SkyInv, SkyNext PROVE CycleInv'
  OBVIOUS
<1> USE DEF SkyInv, SkyTypeInv, CycleInv, CycleBegan, NoPhase
<1>1. CASE Setup
  BY <1>1 DEF Setup
<1>2. CASE Shutdown
  BY <1>2 DEF Shutdown
<1>3. ASSUME NEW o \in BOOLEAN, SkyPresent(o) PROVE CycleInv'
  BY <1>3 DEF SkyPresent
<1>4. ASSUME NEW b \in 0 .. Cycle - 1, BeforeDraw(b) PROVE CycleInv'
  <2>0. running /\ UNCHANGED <<running, frame>>
    BY <1>4, DrawBegins
  <2>1. CASE /\ ~surrounding'
             /\ UNCHANGED <<captureFrame, captureReady, capturePhase, lastCapturedFrame, eye, map, took>>
    BY <2>0, <2>1
  <2>2. CASE /\ captureFrame' = frame /\ captureFrame = frame /\ (surrounding' => captureReady')
             /\ UNCHANGED <<captureReady, capturePhase, lastCapturedFrame, eye, map, took>>
    BY <2>0, <2>2
  <2>3. CASE captureFrame' = frame /\ (surrounding' => captureReady') /\ BeginFrameCapture
    <3>1. CASE ~captureReady'
      <4>1. UNCHANGED <<capturePhase, lastCapturedFrame, eye, map, took>>
        BY <2>3, <3>1 DEF BeginFrameCapture
      <4>2. lastCapturedFrame <= frame
        OBVIOUS
      <4> QED
        BY <2>0, <2>3, <3>1, <4>1, <4>2
    <3>2. CASE captureReady' /\ capturePhase' = 0
      BY <2>0, <2>3, <3>2 DEF BeginFrameCapture
    <3>3. CASE captureReady' /\ capturePhase' # 0
      <4>1. /\ capturePhase # NoPhase /\ frame = lastCapturedFrame + 1
            /\ capturePhase' = capturePhase + 1 /\ lastCapturedFrame' = frame
            /\ UNCHANGED <<eye, map>> /\ took' = took \cup {frame}
        BY <2>3, <3>3 DEF BeginFrameCapture, NextCapturePhase
      <4>2. took' = CycleBegan' .. lastCapturedFrame'
        BY <4>1
      <4>3. \A d \in map' : d.eye = eye' /\ d.bucket = d.frame - CycleBegan'
        BY <4>1
      <4> QED
        BY <2>0, <2>3, <3>3, <4>1, <4>2, <4>3
    <3> QED
      BY <3>1, <3>2, <3>3
  <2> QED
    BY <1>4, <2>1, <2>2, <2>3, DrawBegins
<1>5. CASE AfterDraw
  BY <1>5 DEF AfterDraw
<1>6. CASE UpdateProbes
  BY <1>6 DEF UpdateProbes
<1> QED
  BY <1>1, <1>2, <1>3, <1>4, <1>5, <1>6 DEF SkyNext

\* Whichever way a draw is left by, and a Shutdown that comes between, what was
\* saved is given back.
LEMMA SkyTraceStep == SkyInv /\ SkyNext => SkyTraceInv'
<1> SUFFICES ASSUME SkyInv, SkyNext PROVE SkyTraceInv'
  OBVIOUS
<1> USE DEF SkyInv, CycleInv, SkyTraceInv
<1>1. CASE Setup
  BY <1>1 DEF Setup
<1>2. CASE Shutdown
  BY <1>2 DEF Shutdown, ReleaseSaved, Released, NothingHeld, SkyTakes, Objects, Parts
<1>3. ASSUME NEW o \in BOOLEAN, SkyPresent(o) PROVE SkyTraceInv'
  BY <1>3 DEF SkyPresent
<1>4. ASSUME NEW b \in 0 .. Cycle - 1, BeforeDraw(b) PROVE SkyTraceInv'
  <2> DEFINE first  == Got({"depth"}, bound, saved)
             second == Got({"view"}, bound, first)
             rest   == Got({"targets", "depthState", "rasterizer", "viewports", "scissors"}, bound, second)
  <2>0. ~surrounding /\ bound' = bound /\ (NoCaster(first) \/ Caster(b, first))
    BY <1>4 DEF BeforeDraw
  <2>1. /\ first \in [Parts -> {"engine", "nothing"}]
        /\ \A p \in Objects \ {"depth"} : first[p] = "nothing"
        /\ first["depth"] = "engine"
    BY <2>0 DEF Got, EnginesOwn, NothingHeld, Objects, Parts
  <2>2. /\ second \in [Parts -> {"engine", "nothing"}]
        /\ \A p \in Objects \ {"depth", "view"} : second[p] = "nothing"
        /\ second["depth"] = "engine" /\ second["view"] = "engine"
    <3> HIDE DEF first
    <3> QED
      BY <2>1 DEF Got, EnginesOwn, Objects, Parts
  <2>3. /\ rest \in [Parts -> {"engine", "nothing"}]
        /\ \A p \in Parts : IF p \in SkyTakes THEN rest[p] = "engine" ELSE rest[p] = "nothing"
    <3> HIDE DEF second
    <3> QED
      BY <2>2 DEF Got, EnginesOwn, Objects, Rects, Parts, SkyTakes
  <2>4. \/ ~surrounding' /\ saved' = Released({"depth"}, first)
        \/ ~surrounding' /\ saved' = ReleaseSaved(second)
        \/ surrounding' /\ saved' = rest
    <3> HIDE DEF first, second, rest
    <3>1. CASE NoCaster(first)
      BY <3>1 DEF NoCaster
    <3>2. CASE Caster(b, first) /\ ~captureReady'
      BY <3>2 DEF Caster
    <3>3. CASE Caster(b, first) /\ captureReady'
      <4>1. OfShare(b, second)
        BY <3>3 DEF Caster, second
      <4> QED
        BY <4>1 DEF OfShare, rest
    <3> QED
      BY <2>0, <3>1, <3>2, <3>3
  <2> HIDE DEF first, second, rest
  <2>5. CASE ~surrounding' /\ saved' = Released({"depth"}, first)
    BY <2>0, <2>1, <2>5 DEF Released, NothingHeld, Objects, Parts
  <2>6. CASE ~surrounding' /\ saved' = ReleaseSaved(second)
    BY <2>0, <2>2, <2>6 DEF ReleaseSaved, Released, NothingHeld, Objects, Parts
  <2>7. CASE surrounding' /\ saved' = rest
    BY <2>0, <2>3, <2>7
  <2> QED
    BY <2>4, <2>5, <2>6, <2>7
<1>5. CASE AfterDraw
  <2>1. PICK unbiased \in SUBSET {"rasterizer"} :
          LET repeated == SetToOurs({"targets", "depth", "depthState", "viewports", "scissors", "view"}
                                        \cup unbiased, bound)
          IN  bound' = SetToSaved({"view", "depthState", "rasterizer", "targets", "depth",
                                   "viewports", "scissors"}, repeated, saved)
    BY <1>5 DEF AfterDraw
  <2>2. surrounding /\ ~surrounding' /\ saved' = ReleaseSaved(saved)
    BY <1>5 DEF AfterDraw
  <2>3. \A p \in Parts : p \notin SkyTakes =>
          p \notin {"targets", "depth", "depthState", "viewports", "scissors", "view"} \cup unbiased
    BY DEF SkyTakes
  <2>4. bound' = EnginesOwn
    BY <2>1, <2>2, <2>3 DEF SetToOurs, SetToSaved, EnginesOwn, SkyTakes
  <2>5. saved' \in [Parts -> {"engine", "nothing"}] /\ NothingHeld(saved')
    BY <2>2 DEF ReleaseSaved, Released, NothingHeld, SkyTakes, Objects, Parts
  <2> QED
    BY <2>2, <2>4, <2>5
<1>6. CASE UpdateProbes
  BY <1>6 DEF UpdateProbes
<1> QED
  BY <1>1, <1>2, <1>3, <1>4, <1>5, <1>6 DEF SkyNext

\* The grid is right after every step, whatever the camera did since the last
\* dispatch.
LEMMA GridStep == SkyInv /\ SkyNext => GridInv'
<1> SUFFICES ASSUME SkyInv, SkyNext PROVE GridInv'
  OBVIOUS
<1> USE DEF GridInv, ProbesAreOwn, ArrayIndex, WorldCell
<1>1. CASE Setup
  BY <1>1 DEF Setup
<1>2. CASE Shutdown
  BY <1>2 DEF Shutdown, SkyInv
<1>3. ASSUME NEW o \in BOOLEAN, SkyPresent(o) PROVE GridInv'
  BY <1>3 DEF SkyPresent, Frame, SkyInv
<1>4. ASSUME NEW b \in 0 .. Cycle - 1, BeforeDraw(b) PROVE GridInv'
  BY <1>4 DEF BeforeDraw, SkyInv
<1>5. CASE AfterDraw
  BY <1>5 DEF AfterDraw, SkyInv
<1>6. CASE UpdateProbes
  <2>1. CASE MapWhole /\ ~lost'
    <3>1. probes' = Updated(eye) /\ windowCell' = eye /\ previousCell' = eye /\ ~lost
      BY <1>6, <2>1 DEF UpdateProbes
    <3>2. \A id \in Ring : probes'[ArrayIndex(eye, id)] = WorldCell(eye, id)
      BY <3>1, UpdatedIsOwn DEF SkyInv
    <3> QED
      BY <3>1, <3>2
  <2>2. CASE ~MapWhole
    BY <1>6, <2>2 DEF UpdateProbes, SkyInv
  <2>3. CASE MapWhole /\ lost'
    BY <1>6, <2>3 DEF UpdateProbes
  <2> QED
    BY <2>1, <2>2, <2>3
<1> QED
  BY <1>1, <1>2, <1>3, <1>4, <1>5, <1>6 DEF SkyNext

\* A map that is folded into the grid is a whole cycle's.
LEMMA WholeMap ==
  ASSUME SkyInv, SkyNext, dispatches' # dispatches
  PROVE  /\ took = frame - Cycle + 1 .. frame
         /\ \A d \in map : d.eye = eye /\ d.bucket = d.frame - (frame - Cycle + 1)
<1>1. MapWhole
  BY DEF SkyNext, Setup, Shutdown, SkyPresent, BeforeDraw, AfterDraw, UpdateProbes
<1>2. capturePhase = Cycle - 1 /\ capturePhase # NoPhase /\ lastCapturedFrame = frame
  BY <1>1 DEF MapWhole, SkyInv, CycleInv
<1>3. CycleBegan = frame - Cycle + 1
  BY <1>2, ConstantsAssumption DEF CycleBegan, SkyInv, SkyTypeInv
<1> QED
  BY <1>2, <1>3 DEF SkyInv, CycleInv

-----------------------------------------------------------------------------
(* CloudShadows *)

\* A slot's frame is a frame whose turn it was, also when the next begins.
LEMMA Later == now' = now + 1 /\ now \in Nat =>
    \A f \in Nat, s \in Slots : InSlot(f, s) => InSlot(f, s)'
BY DEF InSlot

\* What the slot to be written next still holds is a whole ring old.
LEMMA ReadIsOld ==
  ASSUME NEW f \in Nat, NEW n \in Nat, f # 0, f <= n, f % RingSize = ReadSlot(n)
  PROVE  f + RingSize - 1 <= n
<1>1. RingSize \in Nat \ {0}
  BY CloudConstantsAssumption
<1>2. f % RingSize = (n + 1) % RingSize
  BY DEF ReadSlot
<1>3. ASSUME NEW m \in Int, m = n + 1 PROVE f + RingSize <= m
  <2>1. f \in Int /\ f < m /\ f % RingSize = m % RingSize
    BY <1>2, <1>3
  <2> QED
    BY <1>1, <1>3, <2>1, ARingBehind
<1>4. f + RingSize <= n + 1
  BY <1>3
<1> QED
  BY <1>1, <1>4

\* The places of a frame's copies in the ring.
LEMMA RingPlaces ==
  ASSUME NEW n \in Nat
  PROVE  WriteSlot(n) \in Slots /\ ReadSlot(n) \in Slots /\ n % RingSize = WriteSlot(n)
BY CloudConstantsAssumption, Division DEF WriteSlot, ReadSlot, Slots

\* What is true of CloudShadows holds at the start.
LEMMA CloudInitInv == CloudInit => CloudInv
<1> SUFFICES ASSUME CloudInit PROVE CloudInv
  OBVIOUS
<1>1. Unwritten \in [Slots -> Nat] /\ \A s \in Slots : Unwritten[s] = 0
  BY DEF Unwritten
<1>2. CloudTypeInv
  BY <1>1 DEF CloudInit, CloudTypeInv, Copies, Made, Buffers
<1>3. StagedInv
  BY <1>1 DEF CloudInit, StagedInv, InSlot
<1>4. FacesInv /\ CopiesInv
  BY DEF CloudInit, FacesInv, CopiesInv, Sized, CopiesAreThere, Buffers
<1>5. CloudTraceInv
  BY DEF CloudInit, CloudTraceInv, Droppable, Nothing, NothingHeld, Objects, Parts
<1> QED
  BY <1>2, <1>3, <1>4, <1>5 DEF CloudInv

\* The sky's copy of this frame goes into this frame's slot.
LEMMA SkyCopied ==
  ASSUME CloudInv, UNCHANGED now, NEW fresh \in BOOLEAN, CopySky(fresh)
  PROVE  staged' \in [Slots -> Nat] /\ \A s \in Slots : InSlot(staged'[s], s)
<1> DEFINE old == IF fresh THEN Unwritten ELSE staged
<1>1. now \in Nat /\ WriteSlot(now) \in Slots /\ now % RingSize = WriteSlot(now)
  BY RingPlaces DEF CloudInv, CloudTypeInv
<1>2. old \in [Slots -> Nat] /\ \A s \in Slots : InSlot(old[s], s)
  BY DEF CloudInv, CloudTypeInv, StagedInv, Unwritten, InSlot
<1>3. staged' = IF stagingFrame = now THEN old ELSE [old EXCEPT ![WriteSlot(now)] = now]
  BY DEF CopySky
<1> HIDE DEF old
<1>4. InSlot(now, WriteSlot(now))
  BY <1>1 DEF InSlot
<1> QED
  BY <1>1, <1>2, <1>3, <1>4

\* A layer's copy of this frame goes into this frame's slot, and what is read
\* was copied a ring ago.
LEMMA LayerCopied ==
  ASSUME CloudInv, UNCHANGED now, NEW fresh \in BOOLEAN, CopyLayer(fresh), layer' \in Layers
  PROVE  /\ layerStaged' \in [Layers -> [Slots -> Nat]]
         /\ \A l \in Layers, s \in Slots : InSlot(layerStaged'[l][s], s)
         /\ layerImage' \in [Layers -> Nat]
         /\ \A l \in Layers : layerImage'[l] # layerImage[l] =>
                                layerImage'[l] + RingSize - 1 <= now
<1> DEFINE old  == IF fresh THEN [l \in Layers |-> Unwritten] ELSE layerStaged
           read == old[layer'][ReadSlot(now)]
<1>1. /\ now \in Nat /\ WriteSlot(now) \in Slots /\ ReadSlot(now) \in Slots
      /\ now % RingSize = WriteSlot(now)
  BY RingPlaces DEF CloudInv, CloudTypeInv
<1>2. /\ old \in [Layers -> [Slots -> Nat]]
      /\ \A l \in Layers, s \in Slots : InSlot(old[l][s], s)
  BY DEF CloudInv, CloudTypeInv, StagedInv, Unwritten, InSlot
<1>3. layerStaged' = [old EXCEPT ![layer'][WriteSlot(now)] = now]
  BY DEF CopyLayer
<1>4. \/ UNCHANGED layerImage
      \/ read # 0 /\ layerImage' = [layerImage EXCEPT ![layer'] = read]
  BY DEF CopyLayer
<1>5. layerImage \in [Layers -> Nat]
  BY DEF CloudInv, CloudTypeInv
<1> HIDE DEF old
<1>6. InSlot(now, WriteSlot(now))
  BY <1>1 DEF InSlot
<1>7. /\ layerStaged' \in [Layers -> [Slots -> Nat]]
      /\ \A l \in Layers, s \in Slots : InSlot(layerStaged'[l][s], s)
  BY <1>1, <1>2, <1>3, <1>6
<1>8. read \in Nat /\ InSlot(read, ReadSlot(now))
  BY <1>1, <1>2
<1> HIDE DEF read
<1>9. read # 0 => read + RingSize - 1 <= now
  BY <1>1, <1>8, ReadIsOld DEF InSlot
<1> QED
  BY <1>4, <1>5, <1>7, <1>8, <1>9

\* Copies that are as they should be are complete, or of another size; made
\* anew, they are complete when the size is noted.
LEMMA RemadeFit ==
  ASSUME CloudInv, NEW b \in Buffers, NEW old \in Copies, Sized(old, b),
         NEW new \in Remade(old, bytes[b])
  PROVE  new \in Copies /\ ((old.made = "none" \/ old.bytes # bytes[b]) => Sized(new, b))
<1>1. PICK m \in Made : new = [made |-> m, bytes |-> IF m = "all" THEN bytes[b] ELSE old.bytes]
  BY DEF Remade
<1>2. bytes[b] \in {1, 2} /\ changes[b] \in Nat
  BY DEF CloudInv, CloudTypeInv
<1> QED
  BY <1>1, <1>2 DEF Copies, Made, Sized

\* Asking for a part of the engine's keeps what can be given back so.
LEMMA GotDroppable ==
  ASSUME inPlace = EnginesOwn, NEW parts, NEW taken, Droppable(taken),
         parts \cap Objects \subseteq CloudTakes
  PROVE  /\ Droppable(Got(parts, inPlace, taken))
         /\ \A p \in parts \cap Parts : Got(parts, inPlace, taken)[p] = "engine"
         /\ \A p \in Parts \ parts : Got(parts, inPlace, taken)[p] = taken[p]
BY DEF Got, EnginesOwn, Droppable, Parts

\* After ReleaseSaved no object is kept.
LEMMA DroppedIsClean ==
  ASSUME NEW taken, Droppable(taken)
  PROVE  Droppable(DropKept(taken)) /\ NothingHeld(DropKept(taken))
BY DEF DropKept, Released, Droppable, NothingHeld, CloudTakes, Parts

\* A draw that is not taken gives back what was asked for up to there.
LEMMA GivenUp ==
  ASSUME CloudInv, UNCHANGED inPlace, NEW taken, Droppable(taken), GiveUp(taken)
  PROVE  CloudTraceInv'
BY DroppedIsClean DEF GiveUp, CloudInv, CloudTraceInv

\* Whichever way BeforeDraw is left by, all that it kept is given back.
LEMMA LayerTrace ==
  ASSUME CloudInv, BeforeLayer
  PROVE  CloudTraceInv'
<1>1. inPlace = EnginesOwn /\ Droppable(kept) /\ UNCHANGED inPlace
  BY DEF BeforeLayer, CloudInv, CloudTraceInv
<1> DEFINE first  == Got({"skyConstants"}, inPlace, kept)
           second == Got({"geometryConstants"}, inPlace, first)
<1>2. Droppable(first) /\ first["skyConstants"] = "engine"
  <2>1. /\ {"skyConstants"} \cap Objects \subseteq CloudTakes
        /\ "skyConstants" \in {"skyConstants"} \cap Parts
    BY DEF CloudTakes, Objects, Parts
  <2> QED
    BY <1>1, <2>1, GotDroppable
<1> HIDE DEF first
<1>3. /\ Droppable(second) /\ second["geometryConstants"] = "engine"
      /\ second["skyConstants"] = "engine"
  <2>1. /\ {"geometryConstants"} \cap Objects \subseteq CloudTakes
        /\ "geometryConstants" \in {"geometryConstants"} \cap Parts
        /\ "skyConstants" \in Parts \ {"geometryConstants"}
    BY DEF CloudTakes, Objects, Parts
  <2> QED
    BY <1>1, <1>2, <2>1, GotDroppable
<1>4. \/ \E taken \in {kept, first, second} : GiveUp(taken)
      \/ mainView' = TRUE /\ kept' = second
  <2>1. CASE \E taken \in Asked("skyConstants", kept) : GiveUp(taken)
    BY <2>1 DEF Asked, first
  <2>2. CASE TakeSky(first)
    <3>1. GiveUp(first) \/ TakeLayer(first)
      BY <2>2 DEF TakeSky
    <3>2. ASSUME TakeLayer(first)
          PROVE  \/ \E taken \in {first, second} : GiveUp(taken)
                 \/ mainView' = TRUE /\ kept' = second
      BY <3>2 DEF TakeLayer, Asked
    <3> QED
      BY <3>1, <3>2
  <2> QED
    BY <2>1, <2>2 DEF BeforeLayer, first
<1> HIDE DEF second
<1>5. CASE \E taken \in {kept, first, second} : GiveUp(taken)
  BY <1>1, <1>2, <1>3, <1>5, GivenUp
<1>6. CASE mainView' = TRUE /\ kept' = second
  BY <1>1, <1>3, <1>6 DEF CloudTraceInv
<1> QED
  BY <1>4, <1>5, <1>6

\* What a draw must leave for the invariant to hold after it.
LEMMA NewDraw ==
  ASSUME CloudInv, draws' = draws + 1, CloudTraceInv',
         UNCHANGED <<on, now, bytes, facesWritten, coverage, changes, cloudOffs>>,
         sky' \in Copies, Sized(sky', "sky"), geometry' \in Copies, Sized(geometry', "geometry"),
         staged' \in [Slots -> Nat], \A s \in Slots : InSlot(staged'[s], s),
         layerStaged' \in [Layers -> [Slots -> Nat]],
         \A l \in Layers, s \in Slots : InSlot(layerStaged'[l][s], s),
         image' \in Nat, layerImage' \in [Layers -> Nat], layer' \in Nat, layerIndex' \in Nat,
         mainView' => /\ changes["sky"] < 2 => sky'.made = "all"
                      /\ changes["geometry"] < 2 => geometry'.made = "all"
  PROVE  CloudInv'
<1>1. CloudTypeInv'
  BY DEF CloudInv, CloudTypeInv
<1>2. StagedInv'
  BY DEF StagedInv, InSlot
<1>3. FacesInv'
  BY DEF CloudInv, FacesInv
<1>4. CopiesInv'
  BY DEF CloudInv, CloudTypeInv, CopiesInv, Sized, CopiesAreThere
<1> QED
  BY <1>1, <1>2, <1>3, <1>4 DEF CloudInv

\* A draw of a layer, whichever creation fails on the way.
LEMMA LayerStep ==
  ASSUME CloudInv, BeforeLayer
  PROVE  CloudInv' /\ \A l \in Layers : layerImage'[l] # layerImage[l] =>
                                          layerImage'[l] + RingSize - 1 <= now'
<1> DEFINE first == Got({"skyConstants"}, inPlace, kept)
<1>1. /\ draws' = draws + 1 /\ ~mainView /\ CloudTraceInv'
      /\ UNCHANGED <<on, now, bytes, facesWritten, coverage, changes, cloudOffs>>
  BY LayerTrace DEF BeforeLayer
<1>2. /\ sky \in Copies /\ geometry \in Copies
      /\ Sized(sky, "sky") /\ Sized(geometry, "geometry")
      /\ now \in Nat /\ image \in Nat /\ "sky" \in Buffers /\ "geometry" \in Buffers
  BY DEF CloudInv, CloudTypeInv, CopiesInv, Buffers
<1>b. /\ bytes["sky"] \in {1, 2} /\ bytes["geometry"] \in {1, 2}
      /\ changes["sky"] \in Nat /\ changes["geometry"] \in Nat
  BY <1>2 DEF CloudInv, CloudTypeInv
<1>3. /\ Unwritten \in [Slots -> Nat] /\ \A s \in Slots : InSlot(Unwritten[s], s)
      /\ staged \in [Slots -> Nat] /\ \A s \in Slots : InSlot(staged[s], s)
  BY DEF Unwritten, InSlot, CloudInv, CloudTypeInv, StagedInv
<1>4. /\ layerStaged \in [Layers -> [Slots -> Nat]] /\ layerImage \in [Layers -> Nat]
      /\ \A l \in Layers, s \in Slots : InSlot(layerStaged[l][s], s)
      /\ layer \in Nat /\ layerIndex \in Nat
  BY DEF CloudInv, CloudTypeInv, StagedInv
<1>5. CASE /\ \E taken \in Asked("skyConstants", kept) : GiveUp(taken)
           /\ UNCHANGED <<sky, staged, image, geometry, layerStaged, layerImage, layerReady,
                          stagingFrame, layerFrame, layerIndex, layer>>
  <2>1. mainView' = FALSE
    BY <1>5 DEF GiveUp
  <2> QED
    BY <1>1, <1>2, <1>3, <1>4, <1>5, <2>1, NewDraw
<1>6. CASE TakeSky(first)
  <2>1. PICK c \in (IF SkyKept THEN {sky} ELSE Remade(sky, bytes["sky"])) :
           /\ sky' = c
           /\ image' = IF SkyKept THEN image ELSE 0
           /\ IF c.made # "all" /\ ~SkyKept
              THEN /\ GiveUp(first)
                   /\ staged' = Unwritten
                   /\ UNCHANGED <<geometry, layerStaged, layerImage, layerReady, stagingFrame,
                                  layerFrame, layerIndex, layer>>
              ELSE /\ CopySky(~SkyKept)
                   /\ CountLayer
                   /\ IF layer' >= MaxLayers
                      THEN GiveUp(first) /\ UNCHANGED <<geometry, layerStaged, layerImage, layerReady>>
                      ELSE TakeLayer(first)
    BY <1>6 DEF TakeSky
  <2>2. sky' \in Copies /\ Sized(sky', "sky")
    BY <1>2, <2>1, RemadeFit DEF SkyKept
  <2>3. image' \in Nat
    BY <1>2, <2>1
  <2>4. CASE c.made # "all" /\ ~SkyKept
    <3>1. /\ mainView' = FALSE /\ staged' = Unwritten
          /\ UNCHANGED <<geometry, layerStaged, layerImage, layer, layerIndex>>
      BY <2>1, <2>4 DEF GiveUp
    <3> QED
      BY <1>1, <1>2, <1>3, <1>4, <2>2, <2>3, <3>1, NewDraw
  <2>5. CASE ~(c.made # "all" /\ ~SkyKept)
    <3>1. staged' \in [Slots -> Nat] /\ \A s \in Slots : InSlot(staged'[s], s)
      BY <1>1, <2>1, <2>5, SkyCopied
    <3>2. layer' \in Nat /\ layerIndex' \in Nat
      BY <1>4, <2>1, <2>5 DEF CountLayer
    <3>3. changes["sky"] < 2 => sky'.made = "all"
      BY <1>2, <2>1, <2>5 DEF SkyKept, Sized
    <3>4. CASE layer' >= MaxLayers
      <4>1. mainView' = FALSE /\ UNCHANGED <<geometry, layerStaged, layerImage>>
        BY <2>1, <2>5, <3>4 DEF GiveUp
      <4> QED
        BY <1>1, <1>2, <1>4, <2>2, <2>3, <3>1, <3>2, <4>1, NewDraw
    <3>5. CASE ~(layer' >= MaxLayers)
      <4>1. TakeLayer(first)
        BY <2>1, <2>5, <3>5
      <4>2. layer' \in Layers
        BY <3>2, <3>5, CloudConstantsAssumption DEF Layers
      <4>3. CASE mainView' = FALSE /\ UNCHANGED <<geometry, layerStaged, layerImage>>
        BY <1>1, <1>2, <1>4, <2>2, <2>3, <3>1, <3>2, <4>3, NewDraw
      <4>4. ASSUME NEW g \in (IF GeometryKept THEN {geometry} ELSE Remade(geometry, bytes["geometry"])),
                   geometry' = g, mainView' = FALSE,
                   layerStaged' = [l \in Layers |-> Unwritten], UNCHANGED layerImage
            PROVE  CloudInv' /\ UNCHANGED layerImage
        <5>1. geometry' \in Copies /\ Sized(geometry', "geometry")
          BY <1>2, <4>4, RemadeFit DEF GeometryKept
        <5>2. /\ layerStaged' \in [Layers -> [Slots -> Nat]]
              /\ \A l \in Layers, s \in Slots : InSlot(layerStaged'[l][s], s)
          BY <1>3, <4>4
        <5> QED
          BY <1>1, <1>4, <2>2, <2>3, <3>1, <3>2, <4>4, <5>1, <5>2, NewDraw
      <4>5. ASSUME NEW g \in (IF GeometryKept THEN {geometry} ELSE Remade(geometry, bytes["geometry"])),
                   geometry' = g, ~(g.made # "all" /\ ~GeometryKept), CopyLayer(~GeometryKept)
            PROVE  CloudInv' /\ \A l \in Layers : layerImage'[l] # layerImage[l] =>
                                                    layerImage'[l] + RingSize - 1 <= now'
        <5>1. geometry' \in Copies /\ Sized(geometry', "geometry")
          BY <1>2, <4>5, RemadeFit DEF GeometryKept
        <5>2. /\ layerStaged' \in [Layers -> [Slots -> Nat]]
              /\ \A l \in Layers, s \in Slots : InSlot(layerStaged'[l][s], s)
              /\ layerImage' \in [Layers -> Nat]
              /\ \A l \in Layers : layerImage'[l] # layerImage[l] =>
                                     layerImage'[l] + RingSize - 1 <= now
          BY <1>1, <4>2, <4>5, LayerCopied
        <5>3. changes["geometry"] < 2 => geometry'.made = "all"
          BY <1>2, <4>5 DEF GeometryKept, Sized
        <5> QED
          BY <1>1, <2>2, <2>3, <3>1, <3>2, <3>3, <5>1, <5>2, <5>3, NewDraw
      <4> QED
        BY <4>1, <4>3, <4>4, <4>5 DEF TakeLayer, GiveUp
    <3> QED
      BY <3>4, <3>5
  <2> QED
    BY <2>4, <2>5
<1> QED
  BY <1>5, <1>6 DEF BeforeLayer

\* What the tick reads was copied a ring ago.
LEMMA TickReads ==
  ASSUME CloudInv, CloudPresent
  PROVE  image' \in Nat /\ (image' # image => image' + RingSize - 1 <= now')
<1>1. now \in Nat /\ now' = now + 1 /\ now' \in Nat /\ ReadSlot(now') \in Slots
  BY RingPlaces DEF CloudInv, CloudTypeInv, CloudPresent
<1>2. CASE UNCHANGED image
  BY <1>2 DEF CloudInv, CloudTypeInv
<1>3. CASE staged[ReadSlot(now')] # 0 /\ image' = staged[ReadSlot(now')]
  <2>1. /\ image' \in Nat /\ image' # 0 /\ image' <= now
        /\ image' % RingSize = ReadSlot(now')
    BY <1>1, <1>3 DEF CloudInv, CloudTypeInv, StagedInv, InSlot
  <2>2. image' <= now'
    BY <1>1, <2>1
  <2> QED
    BY <1>1, <2>1, <2>2, ReadIsOld
<1> QED
  BY <1>2, <1>3 DEF CloudPresent

\* What is bound and kept, after the steps that are not draws of a layer.
LEMMA CloudTraceStep ==
  ASSUME CloudInv, CloudNext, ~BeforeLayer
  PROVE  CloudTraceInv'
<1> USE DEF CloudInv, CloudTraceInv
<1>1. CASE CloudSetup \/ CloudPresent \/ \E b \in Buffers : EngineResizes(b)
  <2>1. UNCHANGED <<inPlace, kept>> /\ ~mainView
    BY <1>1 DEF CloudSetup, CloudPresent, EngineResizes, CopiesInv
  <2>2. ~mainView'
    BY <1>1 DEF CloudSetup, CloudPresent, EngineResizes, CopiesInv
  <2> QED
    BY <2>1, <2>2
<1>2. CASE CloudShutdown
  <2>1. /\ UNCHANGED <<inPlace, mainView>> /\ kept' = DropKept(kept) /\ ~mainView
    BY <1>2 DEF CloudShutdown, CopiesInv
  <2> QED
    BY <2>1, DroppedIsClean
<1>3. CASE BeforeReflection
  <2>1. /\ ~mainView /\ mainView' = FALSE /\ UNCHANGED inPlace
        /\ kept' = Released({"targets"}, Got({"targets"}, inPlace, kept))
    BY <1>3 DEF BeforeReflection
  <2>2. Droppable(kept') /\ NothingHeld(kept')
    BY <2>1 DEF Released, Got, EnginesOwn, Droppable, NothingHeld, Objects, Parts
  <2> QED
    BY <2>1, <2>2
<1>4. CASE AfterCloudDraw
  <2>1. mainView /\ mainView' = FALSE
    BY <1>4 DEF AfterCloudDraw
  <2>2. CASE kept' = DropKept(kept) /\ UNCHANGED inPlace
    BY <2>1, <2>2, DroppedIsClean
  <2>3. CASE RepeatIntoFaces
    <3> DEFINE asked    == {"targets", "depth", "blend", "rasterizer", "viewports"}
               changed  == {"viewports", "rasterizer", "blend", "targets", "depth",
                            "skyConstants", "geometryConstants"}
               restored == {"skyConstants", "geometryConstants", "targets", "depth", "blend",
                            "rasterizer", "viewports"}
               taken    == Got(asked, inPlace, kept)
    <3>1. /\ kept' = DropKept(taken)
          /\ inPlace' = SetToSaved(restored, SetToOurs(changed, inPlace), taken)
      BY <2>3 DEF RepeatIntoFaces
    <3>2. Droppable(taken) /\ \A p \in changed : taken[p] = "engine"
      BY <2>1 DEF Got, EnginesOwn, Droppable, CloudTakes, Objects, Rects, Parts
    <3>3. \A p \in Parts : p \in restored \/ p \notin changed
      OBVIOUS
    <3>4. restored = changed
      OBVIOUS
    <3> HIDE DEF taken, restored, changed
    <3>5. inPlace' = EnginesOwn
      BY <3>1, <3>2, <3>3, <3>4 DEF SetToOurs, SetToSaved, EnginesOwn
    <3> QED
      BY <2>1, <3>1, <3>2, <3>5, DroppedIsClean
  <2> QED
    BY <1>4, <2>2, <2>3 DEF AfterCloudDraw
<1> QED
  BY <1>1, <1>2, <1>3, <1>4 DEF CloudNext

\* Every step of CloudShadows keeps what is true of it.
LEMMA CloudStep == CloudInv /\ CloudNext => CloudInv'
<1> SUFFICES ASSUME CloudInv, CloudNext PROVE CloudInv'
  OBVIOUS
<1>0. CASE BeforeLayer
  BY <1>0, LayerStep
<1> SUFFICES ASSUME ~BeforeLayer PROVE CloudTypeInv' /\ StagedInv' /\ FacesInv' /\ CopiesInv'
  BY <1>0, CloudTraceStep DEF CloudInv
<1> USE DEF CloudInv
<1>1. CASE CloudSetup
  <2>1. CloudTypeInv' /\ StagedInv' /\ FacesInv'
    BY <1>1 DEF CloudSetup, CloudTypeInv, StagedInv, InSlot, FacesInv
  <2>2. CopiesInv'
    BY <1>1 DEF CloudSetup, CopiesInv, Sized, CopiesAreThere
  <2> QED
    BY <2>1, <2>2
<1>2. CASE CloudShutdown
  <2>1. CloudTypeInv' /\ StagedInv' /\ FacesInv'
    BY <1>2 DEF CloudShutdown, CloudTypeInv, Copies, Made, StagedInv, InSlot, FacesInv
  <2>2. bytes["sky"] # 0 /\ bytes["geometry"] # 0
    BY DEF CloudTypeInv, Buffers
  <2>3. CopiesInv'
    BY <1>2, <2>2 DEF CloudShutdown, CopiesInv, Sized, CopiesAreThere
  <2> QED
    BY <2>1, <2>3
<1>3. CASE CloudPresent
  <2>1. CloudTypeInv'
    BY <1>3, TickReads DEF CloudPresent, CloudTypeInv
  <2>2. StagedInv'
    BY <1>3, Later DEF CloudPresent, CloudTypeInv, StagedInv
  <2>3. FacesInv'
    BY <1>3 DEF CloudPresent, FacesInv
  <2>4. CopiesInv'
    BY <1>3 DEF CloudPresent, CopiesInv, Sized, CopiesAreThere
  <2> QED
    BY <2>1, <2>2, <2>3, <2>4
<1>4. ASSUME NEW b \in Buffers, EngineResizes(b)
      PROVE  CloudTypeInv' /\ StagedInv' /\ FacesInv' /\ CopiesInv'
  <2>1. /\ ~mainView /\ ~mainView' /\ UNCHANGED <<sky, geometry>>
        /\ changes' = [changes EXCEPT ![b] = @ + 1] /\ bytes' = [bytes EXCEPT ![b] = 3 - @]
    BY <1>4 DEF EngineResizes
  <2>2. changes \in [Buffers -> Nat] /\ bytes \in [Buffers -> {1, 2}]
    BY DEF CloudTypeInv
  <2>3. changes' \in [Buffers -> Nat] /\ bytes' \in [Buffers -> {1, 2}]
    BY <2>1, <2>2
  <2>4. CloudTypeInv'
    BY <1>4, <2>3 DEF EngineResizes, CloudTypeInv
  <2>5. StagedInv' /\ FacesInv'
    BY <1>4 DEF EngineResizes, StagedInv, InSlot, FacesInv
  <2>6. ASSUME NEW c \in Buffers, NEW copies \in Copies, Sized(copies, c) PROVE Sized(copies, c)'
    <3>1. changes[c] \in Nat /\ bytes[c] \in {1, 2}
      BY <2>2
    <3>2. CASE c = b
      <4>1. changes'[c] = changes[c] + 1 /\ bytes'[c] = 3 - bytes[c]
        BY <2>1, <2>2, <3>2
      <4> QED
        BY <2>6, <3>1, <4>1 DEF Sized, Copies
    <3>3. CASE c # b
      <4>1. changes'[c] = changes[c] /\ bytes'[c] = bytes[c]
        BY <2>1, <2>2, <3>3
      <4> QED
        BY <2>6, <4>1 DEF Sized
    <3> QED
      BY <3>2, <3>3
  <2>7. Sized(sky, "sky")' /\ Sized(geometry, "geometry")'
    <3>1. sky \in Copies /\ geometry \in Copies /\ "sky" \in Buffers /\ "geometry" \in Buffers
      BY DEF CloudTypeInv, Buffers
    <3> QED
      BY <2>1, <2>6, <3>1 DEF CopiesInv, Sized
  <2> QED
    BY <2>1, <2>4, <2>5, <2>7 DEF CopiesInv, CopiesAreThere
<1>5. CASE BeforeReflection
  <2>1. CloudTypeInv' /\ StagedInv' /\ FacesInv'
    BY <1>5 DEF BeforeReflection, CloudTypeInv, StagedInv, InSlot, FacesInv
  <2>2. CopiesInv'
    BY <1>5 DEF BeforeReflection, CopiesInv, Sized, CopiesAreThere
  <2> QED
    BY <2>1, <2>2
<1>6. CASE AfterCloudDraw
  <2>1. CloudTypeInv' /\ StagedInv'
    BY <1>6 DEF AfterCloudDraw, CloudTypeInv, StagedInv, InSlot
  <2>2. FacesInv'
    BY <1>6 DEF AfterCloudDraw, Cleared, FacesInv
  <2>3. CopiesInv'
    BY <1>6 DEF AfterCloudDraw, CopiesInv, Sized, CopiesAreThere
  <2> QED
    BY <2>1, <2>2, <2>3
<1> QED
  BY <1>1, <1>2, <1>3, <1>4, <1>5, <1>6 DEF CloudNext

\* Whatever is read back in a step was copied a ring ago.
LEMMA ReadLate ==
  ASSUME CloudInv, CloudNext
  PROVE  /\ image' \notin {0, image} => image' + RingSize - 1 <= now'
         /\ \A l \in Layers : layerImage'[l] # layerImage[l] =>
                                layerImage'[l] + RingSize - 1 <= now'
<1>1. CASE BeforeLayer
  <2>1. image' \in {0, image}
    BY <1>1 DEF BeforeLayer, TakeSky
  <2> QED
    BY <1>1, <2>1, LayerStep
<1>2. ASSUME CloudPresent
      PROVE  /\ image' # image => image' + RingSize - 1 <= now'
             /\ UNCHANGED layerImage
  BY <1>2, TickReads DEF CloudPresent
<1>3. CASE \/ CloudSetup \/ CloudShutdown \/ BeforeReflection \/ AfterCloudDraw
           \/ \E b \in Buffers : EngineResizes(b)
  BY <1>3 DEF CloudSetup, CloudShutdown, BeforeReflection, AfterCloudDraw, EngineResizes
<1> QED
  BY <1>1, <1>2, <1>3 DEF CloudNext

-----------------------------------------------------------------------------
(* Both *)

\* A step of one of the two leaves the other's state alone.
LEMMA NextInv == IInv /\ [Next]_vars => IInv'
<1> SUFFICES ASSUME IInv, [Next]_vars PROVE IInv'
  OBVIOUS
<1>1. ASSUME UNCHANGED skyVars PROVE SkyInv'
  <2>1. SkyTypeInv' /\ CycleInv' /\ SkyTraceInv'
    BY <1>1 DEF IInv, SkyInv, skyVars, SkyTypeInv, CycleInv, CycleBegan, SkyTraceInv, NothingHeld
  <2>2. GridInv'
    BY <1>1 DEF IInv, SkyInv, skyVars, GridInv, ProbesAreOwn, ArrayIndex, WorldCell
  <2> QED
    BY <2>1, <2>2 DEF SkyInv
<1>2. ASSUME UNCHANGED cloudVars PROVE CloudInv'
  <2>1. CloudTypeInv' /\ StagedInv' /\ FacesInv'
    BY <1>2 DEF IInv, CloudInv, cloudVars, CloudTypeInv, StagedInv, InSlot, FacesInv
  <2>2. CopiesInv'
    BY <1>2 DEF IInv, CloudInv, cloudVars, CopiesInv, Sized, CopiesAreThere
  <2>3. CloudTraceInv'
    BY <1>2 DEF IInv, CloudInv, cloudVars, CloudTraceInv, Droppable, NothingHeld
  <2> QED
    BY <2>1, <2>2, <2>3 DEF CloudInv
<1>3. ASSUME SkyNext PROVE SkyInv'
  BY <1>3, SkyTypeStep, CycleStep, SkyTraceStep, GridStep DEF IInv, SkyInv
<1>4. CASE SkyNext /\ UNCHANGED cloudVars
  BY <1>2, <1>3, <1>4 DEF IInv
<1>5. CASE CloudNext /\ UNCHANGED skyVars
  BY <1>1, <1>5, CloudStep DEF IInv
<1>6. CASE UNCHANGED vars
  BY <1>1, <1>2, <1>6 DEF IInv, vars
<1> QED
  BY <1>4, <1>5, <1>6 DEF Next

\* For every ring, grid, cycle and number of layers: map, grid, copies and
\* faces fit each other, and what is lent is known.
THEOREM Inductive == Spec => []IInv
<1>1. Init => IInv
  BY SkyInitInv, CloudInitInv DEF Init, IInv
<1> QED
  BY <1>1, NextInv, PTL DEF Spec

\* The probes hold the sky of the place they stand for, wherever the camera
\* leapt while the feature was off, indoors or in the middle of a cycle.
THEOREM ProbesStayOwn == Spec => []ProbesAreOwn
<1>1. IInv => ProbesAreOwn
  BY DEF IInv, SkyInv, GridInv
<1> QED
  BY <1>1, Inductive, PTL

\* The shadow is cast by one frame's clouds, and a draw is taken only with all
\* the copies it writes to, whichever creation failed before.
THEOREM CloudsStayWhole == Spec => []CloudsAreWhole
<1>1. IInv => OneFramesClouds
  BY DEF IInv, CloudInv, FacesInv, OneFramesClouds
<1>2. IInv => CopiesAreThere
  BY DEF IInv, CloudInv, CopiesInv
<1> QED
  BY <1>1, <1>2, Inductive, PTL DEF CloudsAreWhole

\* Between draws nothing of the engine's is held and nothing of ours is bound.
THEOREM NoTrace == Spec => []DrawsLeaveNoTrace
<1>1. IInv => SkyLeavesNoTrace
  BY DEF IInv, SkyInv, SkyTraceInv, SkyLeavesNoTrace
<1>2. IInv => CloudsLeaveNoTrace
  BY DEF IInv, CloudInv, CloudTraceInv, CloudsLeaveNoTrace
<1> QED
  BY <1>1, <1>2, Inductive, PTL DEF DrawsLeaveNoTrace

\* A map goes into the grid when a whole cycle has drawn it, and a copy is read
\* when it is a ring old, whatever was skipped or made anew between.
THEOREM Gathered == Spec => GatheredInTime
<1> DEFINE Whole == dispatches' # dispatches =>
             /\ took = frame - Cycle + 1 .. frame
             /\ \A d \in map : d.eye = eye /\ d.bucket = d.frame - (frame - Cycle + 1)
           Late == /\ image' \notin {0, image} => image' + RingSize - 1 <= now'
                   /\ \A l \in Layers : layerImage'[l] # layerImage[l] =>
                                          layerImage'[l] + RingSize - 1 <= now'
<1>1. IInv /\ [Next]_vars => [Whole]_skyVars
  <2> SUFFICES ASSUME IInv, [Next]_vars, ~ UNCHANGED skyVars PROVE Whole
    OBVIOUS
  <2>1. SkyNext
    BY DEF Next, vars
  <2> QED
    BY <2>1, WholeMap DEF IInv
<1>2. IInv /\ [Next]_vars => [Late]_cloudVars
  <2> SUFFICES ASSUME IInv, [Next]_vars, ~ UNCHANGED cloudVars PROVE Late
    OBVIOUS
  <2>1. CloudNext
    BY DEF Next, vars
  <2> QED
    BY <2>1, ReadLate DEF IInv
<1>3. Spec => WholeMapsOnly
  BY <1>1, Inductive, PTL DEF Spec, WholeMapsOnly
<1>4. Spec => ReadLateEnough
  BY <1>2, Inductive, PTL DEF Spec, ReadLateEnough
<1> QED
  BY <1>3, <1>4 DEF GatheredInTime

=============================================================================
