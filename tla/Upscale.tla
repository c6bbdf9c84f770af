------------------------------- MODULE Upscale -------------------------------
(***************************************************************************)
(* Features/DLSS with Upscale/ (hooks, stand-ins, passes, NGX), Render/    *)
(* Resolution and Bridge/Capture: what the plugin does to one frame of the *)
(* engine.  The handlers all run on the render thread, at points the       *)
(* engine passes in an order of its own; between two frames the registry   *)
(* switches features.  What DLSS changes of the engine it changes for a    *)
(* part of the frame only, and what it keeps from frame to frame (the      *)
(* history of DLSS, the last camera of the capture) has to be dropped when *)
(* the frames in between were not seen.                                    *)
(*                                                                         *)
(* A mode stands for the ratio it renders at, "dlaa" for one.              *)
(***************************************************************************)
EXTENDS Naturals, Sequences, FiniteSets

CONSTANTS
    MaxChanges, \* bound: switches, menus, modes, camera jumps
    MaxFails    \* bound: calls that fail

ASSUME BoundsAssumption == MaxChanges \in Nat /\ MaxFails \in Nat

VARIABLES
    hooks,      \* the sites of EngineHooks that are patched
    at,         \* the point of the frame the engine is at
    menu,       \* the menu that is open
    engine,     \* what of the engine the plugin touches
    dlss,       \* the DLSS feature, with the mode that is chosen in the settings
    stand,      \* ProxyTargets
    textures,   \* the textures of Passes: the size of the small ones, the depth
    ngx,        \* Ngx: what of NGX is up, and what the DLSS object was made for
    resolution, \* Render::Resolution: what other passes are told
    capture,    \* Bridge::Capture
    far,        \* who has noted a camera the present one has jumped from
    picture,    \* how large the picture in the scene target is
    own,        \* the engine's switches as DLSS found them
    stale,      \* history: DLSS's history is not the last frame's
    gap,        \* history: a frame went by since the camera was kept
    owed,       \* history: the consumers that still need a reset
    excused,    \* history: what failed: "evaluate", "slot", or a "camera" there was not
    changes, fails

upscaleVars == <<hooks, at, menu, engine, dlss, stand, textures, ngx, resolution, capture, far,
                 picture, own, stale, gap, owed, excused, changes, fails>>

One       == "dlaa"
Modes     == {One, "quality", "performance"}
Consumers == {"fg", "nr"}
Menus     == {"none", "overlay", "pipboy", "pause", "loading"}
Native    == menu = "pipboy"

May(n)      == changes + n <= MaxChanges

DlssOff   == [on |-> FALSE, active |-> FALSE, upscaling |-> FALSE, ratio |-> One,
              wasNative |-> TRUE, reset |-> TRUE, camera |-> FALSE, mode |-> One,
              chosen |-> One, overridden |-> FALSE, full |-> FALSE]
NoStandIns == [ratio |-> One, made |-> FALSE, swapped |-> FALSE,
               snapshot |-> "own", bias |-> "none", biased |-> FALSE]
NoTextures == [size |-> "none", depth |-> FALSE, written |-> FALSE, shaders |-> FALSE]
NgxOff     == [device |-> FALSE, parameters |-> FALSE, available |-> FALSE, object |-> <<>>]
NoCapture  == [acquired |-> {}, wanted |-> {}, reset |-> TRUE,
               previous |-> FALSE, camera |-> FALSE]
NotPublished == [render |-> "none", depthFull |-> FALSE]

UpscaleInit ==
    /\ hooks = {}
    /\ at = "load" /\ menu = "none"
    /\ own \in [taa : BOOLEAN, fxaa : BOOLEAN]
    /\ engine = [taa |-> own.taa, fxaa |-> own.fxaa, jitter |-> FALSE, ratio |-> One,
                 skip |-> FALSE, viewport |-> TRUE,
                 depth |-> "own", targets |-> "own", samplers |-> "own"]
    /\ dlss = DlssOff /\ stand = NoStandIns /\ textures = NoTextures /\ ngx = NgxOff
    /\ resolution = NotPublished /\ capture = NoCapture
    /\ far = {} /\ picture = One
    /\ stale = FALSE /\ gap = FALSE /\ owed = {} /\ excused = {}
    /\ changes = 0 /\ fails = 0

-----------------------------------------------------------------------------
(* EngineHooks: every site is verified before any is written, then they are *)
(* patched in order, and the first that refuses ends it.                   *)

kSites == <<"temporalData", "effectRange", "viewportDefault", "prePass", "forward",
            "composite", "reflections", "dynamicUpdate", "temporalAA", "lensFlare">>

Patched(n) == {kSites[i] : i \in 1 .. n}

\* None is patched when one could not be verified.
Install ==
    /\ at = "load" /\ at' = "tick"
    /\ \E n \in 0 .. Len(kSites) : hooks' = Patched(n)
    /\ UNCHANGED <<menu, engine, dlss, stand, textures, ngx, resolution, capture, far,
                   picture, own, stale, gap, owed, excused, changes, fails>>

Installed == hooks = Patched(Len(kSites))

\* A thunk calls the engine, and the handler if there is one.
Handled(site) == site \in hooks /\ dlss.on

SetDynamicResolutionViewport(e, on) ==
    IF "viewportDefault" \in hooks THEN [e EXCEPT !.viewport = on] ELSE e

SkipDynamicResolutionUpdate(e, skip) ==
    IF "dynamicUpdate" \in hooks THEN [e EXCEPT !.skip = skip] ELSE e

-----------------------------------------------------------------------------
(* Ngx, and the shaders of Passes *)

\* What the first n steps of Init leave: it does not clean up after itself.
NgxInit(n) == [device |-> n >= 1, parameters |-> n >= 2, available |-> n = 4, object |-> <<>>]

\* Mutant: nothing to shut down without a DLSS object.
NgxShutdown_ByObject(x) == IF x.object = <<>> THEN x ELSE NgxOff

\* Object, parameters and device, each if it is there.
NgxShutdown(x) == [x EXCEPT !.object = <<>>, !.parameters = FALSE, !.device = FALSE,
                            !.available = FALSE]

\* All four shaders or those of before.
Compile(t, ok) == [t EXCEPT !.shaders = @ \/ ok]

-----------------------------------------------------------------------------
(* DLSS::OverrideDepth and ResetDepth.  The full depth is made once a      *)
(* frame; whether it could be made is not asked again.                     *)

\* What EnsureTextures may leave for this render size: each texture that
\* does not fit is released before the new one is made.
Ensured(size) ==
    LET good == [textures EXCEPT !.size = size, !.depth = TRUE]
        bad  == (IF textures.size # size THEN {[textures EXCEPT !.size = "none"]} ELSE {})
                \cup (IF textures.depth THEN {}
                      ELSE {[textures EXCEPT !.size = size, !.depth = FALSE]})
    IN  {good} \cup (IF fails < MaxFails THEN bad ELSE {})

\* _render of the last frame whose beginning the handler saw.
Size == dlss.ratio

\* The pass that fills the full depth needs the texture and its shader.
FullDepth(t) == [t EXCEPT !.written = t.depth /\ t.shaders]

\* Mutant: the flag other passes read is left as it was.
ResetDepth_KeepsFlag(e, d, r) ==
    IF d.overridden
    THEN [engine |-> [e EXCEPT !.depth = "own"], dlss |-> [d EXCEPT !.overridden = FALSE],
          resolution |-> r]
    ELSE [engine |-> e, dlss |-> d, resolution |-> r]

ResetDepth(e, d, r) ==
    IF d.overridden
    THEN [engine |-> [e EXCEPT !.depth = "own"], dlss |-> [d EXCEPT !.overridden = FALSE],
          resolution |-> [r EXCEPT !.depthFull = FALSE]]
    ELSE [engine |-> e, dlss |-> d, resolution |-> r]

\* With the textures t that EnsureTextures and FullDepth left.
OverrideDepth(e, d, r, t) ==
    IF ~d.overridden /\ t.depth
    THEN [engine |-> [e EXCEPT !.depth = "full"],
          dlss |-> [d EXCEPT !.overridden = TRUE, !.full = TRUE],
          resolution |-> [r EXCEPT !.depthFull = TRUE]]
    ELSE [engine |-> e, dlss |-> [d EXCEPT !.full = d.full \/ ~d.overridden], resolution |-> r]

Apply(x) == engine' = x.engine /\ dlss' = x.dlss /\ resolution' = x.resolution

\* The textures after an override: made and filled at the first of a frame.
FilledBy(d) ==
    IF d.full \/ d.overridden THEN {textures} ELSE {FullDepth(t) : t \in Ensured(Size)}

Failed(t) == t.size = "none" \/ ~t.depth
Count(b)  == fails' = fails + (IF b THEN 1 ELSE 0)

-----------------------------------------------------------------------------
(* Between two frames: the registry's tick *)

Ghosts == <<own, stale, gap, owed, excused>>

\* Setup's steps in order: the hooks, a foreign upscaler, NGX, the shaders,
\* the probe; only then is anything of the engine touched.
DlssSetup ==
    /\ at = "tick" /\ ~dlss.on /\ Installed /\ May(1)
    /\ changes' = changes + 1
    /\ ngx' = NgxInit(4) /\ textures' = Compile(textures, TRUE)
    /\ dlss' = [DlssOff EXCEPT !.on = TRUE, !.mode = dlss.mode, !.chosen = dlss.chosen]
    /\ engine' = [engine EXCEPT !.taa = TRUE, !.fxaa = FALSE]
    /\ own' = [taa |-> engine.taa, fxaa |-> engine.fxaa]
    /\ stale' = TRUE /\ excused' = excused \ {"evaluate", "camera"}
    /\ UNCHANGED <<at, menu, stand, resolution, capture, far, picture, gap, owed, fails>>

\* What Shutdown puts right whether or not Setup came that far.
GivenBack(e) ==
    [SkipDynamicResolutionUpdate(e, FALSE)
        EXCEPT !.jitter = FALSE, !.ratio = One,
            !.targets = "own", !.samplers = IF stand.biased THEN stand.snapshot ELSE e.samplers]

\* Shutdown, of a running feature or after a Setup that refused, for want of
\* the hooks or with n steps of NGX done.
DlssShutdown ==
    /\ at = "tick" /\ May(1)
    /\ changes' = changes + 1
    /\ LET x == ResetDepth(engine, dlss, resolution)
           e == GivenBack(x.engine)
       IN  /\ engine' = IF dlss.on THEN [e EXCEPT !.taa = own.taa, !.fxaa = own.fxaa] ELSE e
           /\ dlss' = [DlssOff EXCEPT !.mode = dlss.mode, !.chosen = dlss.chosen]
    /\ stand' = NoStandIns /\ textures' = NoTextures
    /\ \E n \in 0 .. 4 :
          /\ n > 0 => Installed /\ ~dlss.on
          /\ ngx' = NgxShutdown(IF dlss.on THEN ngx ELSE NgxInit(n))
    /\ resolution' = NotPublished
    /\ UNCHANGED <<at, menu, capture, far, picture, fails>> /\ UNCHANGED Ghosts

\* FrameGeneration and NeuralRendering take the capture up: Acquire.
Acquire(c) ==
    /\ at = "tick" /\ c \notin capture.acquired /\ Installed /\ May(1)
    /\ changes' = changes + 1
    /\ \/ capture' = [(IF capture.acquired = {} THEN NoCapture ELSE capture)
                        EXCEPT !.acquired = @ \cup {c}]
       \/ capture.acquired = {} /\ capture' = NoCapture
    /\ UNCHANGED <<at, menu, engine, dlss, stand, textures, ngx, resolution, far, picture, fails>>
    /\ UNCHANGED Ghosts

Release(c) ==
    /\ at = "tick" /\ c \in capture.acquired /\ May(1)
    /\ changes' = changes + 1
    /\ capture' = IF capture.acquired = {c} THEN NoCapture
                  ELSE [capture EXCEPT !.acquired = @ \ {c}, !.wanted = @ \ {c}]
    /\ owed' = owed \ {c}
    /\ UNCHANGED <<at, menu, engine, dlss, stand, textures, ngx, resolution, far, picture,
                   own, stale, gap, excused, fails>>

\* FrameGeneration::Blocker.
FgBlocked == menu \in {"overlay", "pipboy", "pause", "loading"} \/ ~engine.taa

NeuralBlocker == menu \in {"pipboy", "pause", "loading"} \/ ~engine.taa

Blocked(c) == IF c = "fg" THEN FgBlocked ELSE NeuralBlocker

\* CaptureDemand::Want: some consumer has just started wanting.
Starts(w) == w \ capture.wanted # {}

\* The Frames of the consumers, and the present is over.
TickFrames ==
    /\ at = "tick"
    /\ at' = "simulate"
    /\ LET w == {c \in capture.acquired : ~Blocked(c)} IN
          /\ capture' = [capture EXCEPT !.wanted = w, !.reset = @ \/ Starts(w)]
          /\ owed' = (owed \cap w) \cup (w \ capture.wanted)
    /\ dlss' = [dlss EXCEPT !.full = FALSE]
    /\ textures' = [textures EXCEPT !.written = FALSE]
    /\ UNCHANGED <<menu, engine, stand, ngx, resolution, far, picture, own, stale, gap,
                   excused, changes, fails>>

\* DLSS::Frame: a shader file changed, and what came of compiling them.
Reload(ok) ==
    /\ at = "tick" /\ dlss.on /\ May(1)
    /\ ok \/ fails < MaxFails
    /\ Count(~ok)
    /\ changes' = changes + 1
    /\ textures' = Compile(textures, ok)
    /\ dlss' = [dlss EXCEPT !.reset = @ \/ ok]
    /\ UNCHANGED <<at, menu, engine, stand, ngx, resolution, capture, far, picture>>
    /\ UNCHANGED Ghosts

\* Which of the three things that may change did, and how many.
Differences(m, jump, mode) ==
    {x \in {1, 2, 3} : \/ x = 1 /\ m # menu
                       \/ x = 2 /\ jump
                       \/ x = 3 /\ mode # dlss.chosen}

Changed(m, jump, mode) == Cardinality(Differences(m, jump, mode))

\* The game between two frames: menus open and close, the camera jumps,
\* the player picks another mode.
Simulate ==
    /\ at = "simulate"
    /\ at' = "begin"
    /\ \E m \in Menus, jump \in BOOLEAN, mode \in Modes :
          /\ May(Changed(m, jump, mode))
          /\ changes' = changes + Changed(m, jump, mode)
          /\ menu' = m
          /\ dlss' = [dlss EXCEPT !.chosen = mode]
          /\ far' = far \cup (IF jump THEN {"dlss", "capture"} ELSE {})
          /\ stale' = (stale \/ jump)
    /\ UNCHANGED <<engine, stand, textures, ngx, resolution, capture, picture, own, gap, owed,
                   excused, fails>>

-----------------------------------------------------------------------------
(* The frame begins: AfterTemporalData *)

Outcome(s, ok) == [stand |-> s, ok |-> ok]

\* ProxyTargets::Update: kept while the ratio is the noted one.  A stand-in
\* that cannot be made takes the others and the ratio with it; without the
\* renderer's data or a device the new ratio stays noted, with none made.
Updated(s, m) ==
    IF s.ratio = m THEN {Outcome(s, TRUE)}
    ELSE {Outcome([s EXCEPT !.ratio = m, !.made = m # One], TRUE)}
         \cup IF m # One /\ fails < MaxFails
              THEN {Outcome([s EXCEPT !.ratio = r, !.made = FALSE], FALSE) : r \in {One, m}}
              ELSE {}

\* UpdateSamplers: the engine's own are noted first, every frame, unless they
\* or the device are not there.
Sampled(s, m) ==
    LET t == [s EXCEPT !.snapshot = engine.samplers]
    IN  (IF t.bias = m THEN {Outcome(t, TRUE)}
         ELSE {Outcome([t EXCEPT !.bias = m], TRUE)}
              \cup IF fails < MaxFails THEN {Outcome([t EXCEPT !.bias = "none"], FALSE)} ELSE {})
        \cup IF fails < MaxFails THEN {Outcome(s, FALSE)} ELSE {}

Prepared(m) == UNION {IF u.ok THEN Sampled(u.stand, m) ELSE {u} : u \in Updated(stand, m)}

\* TakeCameraCut: it takes a camera noted before and one that is seen now.
Cut(active, seen) == active /\ seen /\ dlss.camera /\ "dlss" \in far

\* Mutant: nothing is made of coming back from a native menu.
NeedsReset_NotMenu(active, upscaling, seen) ==
    \/ upscaling # dlss.upscaling
    \/ Cut(active, seen)

NeedsReset(active, upscaling, seen) ==
    \/ dlss.wasNative /\ active
    \/ upscaling # dlss.upscaling
    \/ Cut(active, seen)

\* The history of excuses: a cut nobody could tell, until a reset comes anyway.
Overlooked(active, seen, reset) ==
    IF reset THEN excused \ {"camera"}
    ELSE IF active /\ "dlss" \in far /\ ~Cut(active, seen) THEN excused \cup {"camera"} ELSE excused

\* The engine draws no world on a loading screen.
World == IF menu = "loading" THEN "tick" ELSE "world"

\* With the handler in place; there may be no camera of the world to be seen.
AfterTemporalData ==
    /\ at = "begin" /\ Handled("temporalData")
    /\ at' = World
    /\ \E p \in Prepared(dlss.chosen), seen \in BOOLEAN :
          LET active    == ~Native
              upscaling == active /\ dlss.chosen # One /\ p.ok
              ratio     == IF upscaling THEN dlss.chosen ELSE One
              reset     == dlss.reset \/ NeedsReset(active, upscaling, seen)
          IN  /\ stand' = p.stand
              /\ Count(~p.ok)
              /\ dlss' = [dlss EXCEPT !.active = active, !.upscaling = upscaling, !.ratio = ratio,
                                    !.mode = dlss.chosen, !.wasNative = Native,
                                    !.camera = dlss.camera \/ (active /\ seen), !.reset = reset]
              /\ engine' = [SkipDynamicResolutionUpdate(engine, upscaling)
                               EXCEPT !.jitter = active, !.ratio = ratio, !.viewport = TRUE]
              /\ resolution' = [resolution EXCEPT !.render = ratio]
              /\ picture' = ratio
              /\ far' = IF active /\ seen THEN far \ {"dlss"} ELSE far
              /\ stale' = (stale \/ ~active \/ upscaling # dlss.upscaling)
              /\ excused' = Overlooked(active, seen, reset)
    /\ UNCHANGED <<menu, textures, ngx, capture, own, gap, owed, changes>>

\* Without the graphics state the handler leaves at once: the frame is drawn
\* and evaluated as the one before was.
BeginStateless ==
    /\ at = "begin" /\ Handled("temporalData") /\ fails < MaxFails
    /\ at' = World
    /\ fails' = fails + 1
    /\ engine' = [engine EXCEPT !.viewport = TRUE]
    /\ picture' = engine.ratio
    /\ stale' = (stale \/ ~dlss.active)
    /\ excused' = Overlooked(dlss.active, FALSE, dlss.reset)
    /\ UNCHANGED <<menu, dlss, stand, textures, ngx, resolution, capture, far, own, gap, owed, changes>>

BeginWithout ==
    /\ at = "begin" /\ ~Handled("temporalData")
    /\ at' = World
    /\ engine' = [engine EXCEPT !.viewport = TRUE]
    /\ picture' = One
    /\ UNCHANGED <<menu, dlss, stand, textures, ngx, resolution, capture, far, changes, fails>>
    /\ UNCHANGED Ghosts

-----------------------------------------------------------------------------
(* The world: the prepass, the composite and the forward pass, each between *)
(* two calls of the handler                                                *)

Rest == <<menu, ngx, capture, far, picture, changes>>

\* ProxyTargets::BiasSamplers and RestoreSamplers, Swap and Restore.
Pair(e, s) == [engine |-> e, stand |-> s]

BiasSamplers(e, s) ==
    IF s.bias # "none" /\ ~s.biased
    THEN Pair([e EXCEPT !.samplers = "biased"], [s EXCEPT !.biased = TRUE]) ELSE Pair(e, s)

\* Mutant: the samplers the engine's own code sees stay biased.
RestoreSamplers_KeepsEngine(e, s) == Pair(e, [s EXCEPT !.biased = FALSE])

RestoreSamplers(e, s) ==
    IF s.biased
    THEN Pair([e EXCEPT !.samplers = s.snapshot], [s EXCEPT !.biased = FALSE]) ELSE Pair(e, s)

Swap(e, s) ==
    IF s.swapped THEN Pair(e, s)
    ELSE Pair([e EXCEPT !.targets = IF s.made THEN "stand-ins" ELSE @], [s EXCEPT !.swapped = TRUE])

Restore(e, s) ==
    IF s.swapped THEN Pair([e EXCEPT !.targets = "own"], [s EXCEPT !.swapped = FALSE]) ELSE Pair(e, s)

\* DLSS::AroundWorldPass, before and after.
AroundWorldPass(site, before) ==
    /\ IF Handled(site) /\ dlss.upscaling
       THEN LET x == IF before THEN BiasSamplers(engine, stand) ELSE RestoreSamplers(engine, stand)
            IN  engine' = x.engine /\ stand' = x.stand
       ELSE UNCHANGED <<engine, stand>>
    /\ UNCHANGED <<dlss, textures, resolution, fails>> /\ UNCHANGED Rest /\ UNCHANGED Ghosts

\* The thunks of the two passes.
PrePass ==
    \/ at = "world" /\ at' = "inPrepass" /\ AroundWorldPass("prePass", TRUE)
    \/ at = "inPrepass" /\ at' = "composite" /\ AroundWorldPass("prePass", FALSE)

Forward ==
    \/ at = "forward" /\ at' = "inForward" /\ AroundWorldPass("forward", TRUE)
    \/ at = "inForward" /\ at' = "evaluate" /\ AroundWorldPass("forward", FALSE)

\* The stand-ins and the full depth go in, at a ratio of one.
CompositeBegin ==
    /\ at = "composite" /\ at' = "inComposite"
    /\ IF Handled("composite") /\ dlss.upscaling
       THEN LET x == Swap([SetDynamicResolutionViewport(engine, FALSE) EXCEPT !.ratio = One],
                          stand) IN
            /\ stand' = x.stand
            /\ \E t \in FilledBy(dlss) :
                  /\ textures' = t
                  /\ Count(~dlss.full /\ Failed(t))
                  /\ Apply(OverrideDepth(x.engine, dlss, resolution, t))
       ELSE UNCHANGED <<engine, dlss, resolution, textures, stand, fails>>
    /\ UNCHANGED Rest /\ UNCHANGED Ghosts

CompositeEnd ==
    /\ at = "inComposite" /\ at' = "forward"
    /\ IF Handled("composite") /\ dlss.upscaling
       THEN LET x == Restore([SetDynamicResolutionViewport(engine, TRUE) EXCEPT !.ratio = dlss.ratio],
                             stand) IN
            /\ stand' = x.stand
            /\ Apply(ResetDepth(x.engine, dlss, resolution))
       ELSE UNCHANGED <<engine, dlss, resolution, stand>>
    /\ UNCHANGED <<textures, fails>> /\ UNCHANGED Rest /\ UNCHANGED Ghosts

Composite == CompositeBegin \/ CompositeEnd

\* The lens flare comes before or after the effects; AroundLensFlare gives
\* it the full depth and takes that away again.
LensFlare ==
    /\ at \in {"evaluate", "viewport"} /\ Handled("lensFlare") /\ dlss.upscaling
    /\ at' = at
    /\ \E t \in FilledBy(dlss) :
          LET x == OverrideDepth(engine, dlss, resolution, t) IN
          /\ textures' = t
          /\ Count(~dlss.full /\ Failed(t))
          /\ Apply(ResetDepth(x.engine, x.dlss, x.resolution))
    /\ UNCHANGED stand /\ UNCHANGED Rest /\ UNCHANGED Ghosts

-----------------------------------------------------------------------------
(* After RenderEffectRange: DLSS first, then the capture *)

\* What an object is made for: made anew, without history, when that changes.
Purpose == <<dlss.mode, Size>>
Fresh   == ngx.object # Purpose

\* The handler runs with a hook only, and only where DLSS draws at all.
Evaluates == Handled("effectRange") /\ dlss.active

\* Off, native, or without one of the targets.
EvaluateNot ==
    /\ at = "evaluate" /\ at' = "capture"
    /\ \/ ~Evaluates /\ UNCHANGED fails
       \/ Evaluates /\ fails < MaxFails /\ fails' = fails + 1
    /\ UNCHANGED <<engine, dlss, stand, textures, resolution, menu, ngx, capture, far, picture, changes>>
    /\ UNCHANGED Ghosts

\* The dynamic viewport is off from here on, evaluated or not.
ViewportOff == IF dlss.upscaling THEN SetDynamicResolutionViewport(engine, FALSE) ELSE engine

\* EnsureTextures or Ngx::Ensure fails.
EvaluateFails ==
    /\ at = "evaluate" /\ at' = "capture"
    /\ Evaluates /\ fails < MaxFails
    /\ fails' = fails + 1
    /\ \E t \in Ensured(Size) :
          /\ Fresh \/ Failed(t)
          /\ textures' = t
          /\ ngx' = IF Failed(t) THEN ngx ELSE [ngx EXCEPT !.object = <<>>]
    /\ engine' = ViewportOff
    /\ UNCHANGED <<dlss, stand, resolution, menu, capture, far, picture, changes>>
    /\ UNCHANGED Ghosts

\* Ngx::Evaluate: the picture is at display size when NGX wrote one.
Written(done) == IF done THEN One ELSE picture

\* Evaluated, or refused by NGX: a reset is spent either way.
Evaluate(done) ==
    /\ at = "evaluate" /\ at' = "capture"
    /\ Evaluates /\ ngx.available
    /\ done \/ fails < MaxFails
    /\ Count(~done)
    /\ ngx' = [ngx EXCEPT !.object = Purpose]
    /\ LET t == [textures EXCEPT !.size = Size, !.depth = TRUE]
           u == IF dlss.upscaling /\ ~dlss.full THEN FullDepth(t) ELSE t
           d == [dlss EXCEPT !.reset = FALSE]
       IN  /\ textures' = u
           /\ IF dlss.upscaling THEN Apply(OverrideDepth(ViewportOff, d, resolution, u))
              ELSE engine' = ViewportOff /\ dlss' = d /\ UNCHANGED resolution
    /\ picture' = Written(done)
    /\ stale' = (stale /\ ~(done /\ (Fresh \/ dlss.reset)))
    /\ excused' = IF ~stale' THEN excused \ {"evaluate", "camera"}
                  ELSE IF dlss.reset /\ ~done THEN excused \cup {"evaluate"} ELSE excused
    /\ UNCHANGED <<stand, menu, capture, far, own, gap, owed, changes>>

\* Nobody wants the frame, or it has no slot for it, or the world no camera.
CaptureNot ==
    /\ at = "capture" /\ at' = "viewport"
    /\ \/ capture.wanted = {} /\ UNCHANGED <<excused, fails>>
       \/ /\ capture.wanted # {} /\ fails < MaxFails
          /\ fails' = fails + 1 /\ excused' = excused \cup {"slot"}
    /\ gap' = TRUE
    /\ UNCHANGED <<engine, dlss, stand, textures, resolution, menu, ngx, capture, far, picture,
                   own, stale, owed, changes>>

\* With a reset the camera before is nobody's history.
Resets == capture.reset \/ (capture.camera /\ "capture" \in far)

\* SubmitCamera, which may find the camera's matrices of no use.
Capture(built) ==
    /\ at = "capture" /\ at' = "viewport"
    /\ capture.wanted # {}
    /\ built \/ fails < MaxFails
    /\ Count(~built)
    /\ capture' = [capture EXCEPT !.previous = TRUE, !.camera = TRUE, !.reset = Resets /\ ~built]
    /\ far' = far \ {"capture"}
    /\ gap' = FALSE
    /\ owed' = IF built /\ Resets THEN {} ELSE owed
    /\ excused' = excused \ {"slot"}
    /\ UNCHANGED <<engine, dlss, stand, textures, resolution, menu, ngx, picture, own, stale, changes>>

\* SetUseDynamicResolutionViewportAsDefaultViewport(false), the end of
\* post-processing.
ViewportDefault ==
    /\ at = "viewport" /\ at' = "tick"
    /\ LET e == [engine EXCEPT !.viewport = FALSE]
       IN  IF Handled("viewportDefault") /\ dlss.upscaling THEN Apply(ResetDepth(e, dlss, resolution))
           ELSE engine' = e /\ UNCHANGED <<dlss, resolution>>
    /\ UNCHANGED <<stand, textures, fails>> /\ UNCHANGED Rest /\ UNCHANGED Ghosts

\* The thunks around UpdateTemporalData and RenderEffectRange, where the tap
\* comes after the handler.
TemporalData == AfterTemporalData \/ BeginStateless \/ BeginWithout

EffectRange ==
    \/ EvaluateNot \/ EvaluateFails \/ \E b \in BOOLEAN : Evaluate(b)
    \/ CaptureNot \/ \E b \in BOOLEAN : Capture(b)

UpscaleNext ==
    \/ Install
    \/ /\ UNCHANGED hooks
       /\ \/ DlssSetup \/ DlssShutdown \/ \E ok \in BOOLEAN : Reload(ok)
          \/ \E c \in Consumers : Acquire(c) \/ Release(c)
          \/ TickFrames \/ Simulate
          \/ TemporalData \/ PrePass \/ Composite \/ Forward \/ LensFlare
          \/ EffectRange \/ ViewportDefault

UpscaleSpec == UpscaleInit /\ [][UpscaleNext]_upscaleVars

-----------------------------------------------------------------------------
\* DLSS.h:25, Passes.h:14: what DLSS changes of the engine it gives back.
\* Between two frames the engine has its own depth view, targets and
\* samplers; with DLSS off, whatever failed and whatever menu was open, also
\* its ratio, its jitter, its dynamic resolution and both of its switches,
\* and nothing of NGX is up: not after a Setup that stopped half way either.
EngineGivenBack ==
    at = "tick" =>
        /\ engine.depth = "own" /\ engine.targets = "own" /\ engine.samplers = "own"
        /\ ~dlss.on => /\ engine.ratio = One /\ ~engine.jitter /\ ~engine.skip
                       /\ engine.taa = own.taa /\ engine.fxaa = own.fxaa
                       /\ resolution = NotPublished /\ ngx = NgxOff

\* ProxyTargets.h: nothing the engine has bound is released or made anew
\* under it, and what is put back is the engine's own, not a stand-in that
\* was taken for it.
NothingBoundIsFreed ==
    /\ engine.samplers = "biased" => stand.bias # "none" /\ stand.biased
    /\ engine.targets = "stand-ins" => stand.made /\ stand.swapped
    /\ engine.depth = "full" => textures.depth /\ dlss.overridden
    /\ stand.snapshot = "own"

\* Resolution.h:11: the two depths have the same size, so the description
\* cannot tell them apart; whoever reads the depth is told which one is
\* bound, and the full one is this frame's unless it could not be made.
DepthIsAsTold ==
    /\ resolution.depthFull <=> engine.depth = "full"
    /\ engine.depth = "full" => textures.written \/ fails > 0

\* An evaluation never builds on a history from before a native menu, a
\* camera cut or a change of size: DLSS drops it once and for all.  (A reset
\* NGX refused is spent all the same, and the next evaluation goes without; a
\* cut cannot be told in a frame whose camera or graphics state is not there,
\* nor when no camera was noted before, and such a frame is evaluated too.)
HistoryReset ==
    [][\A b \in BOOLEAN :
         Evaluate(b) /\ b /\ stale' =>
            "evaluate" \in excused \/ "camera" \in excused]_upscaleVars

\* Capture.h: the camera handed out as the frame before is that of the frame
\* before, and every consumer that comes back from a stretch of its own gets
\* a reset first, whatever the other did.  (A frame without a slot is skipped
\* and not noticed.)
CaptureHistory ==
    [][\A b \in BOOLEAN :
         Capture(b) /\ b /\ ~Resets =>
            /\ owed = {}
            /\ capture.previous
            /\ gap => "slot" \in excused]_upscaleVars

\* DLSS.h:23: the engine writes motion vectors only with its TAA on.  No
\* evaluation and no capture takes them from a frame that has it off, in
\* whatever order the features are switched.
MotionIsWritten ==
    /\ at = "evaluate" /\ dlss.active => engine.taa
    /\ at = "capture" /\ capture.wanted # {} => engine.taa

\* Who reads the depth or the motion is given what it is told it gets.
InputsAreAsTold == DepthIsAsTold /\ MotionIsWritten

\* No history is continued across a gap, by DLSS or by a consumer of the
\* capture.
HistoryIsTrue == HistoryReset /\ CaptureHistory
=============================================================================
