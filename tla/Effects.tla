------------------------------- MODULE Effects -------------------------------
(***************************************************************************)
(* The effects that draw: what each acquires in Setup and gives up in      *)
(* Shutdown, the shaders it compiles anew while it runs, the passes it     *)
(* draws in the engine's frame, and the one value of the engine's it       *)
(* writes to, the clamp of the fog.  FeatureRegistry switches them and     *)
(* gives them their frames; EffectPasses makes the calls of their passes;  *)
(* ShaderReplacement is the one effect with a thread of its own, which     *)
(* draws nothing.  Ticks and passes run on one thread, a pass never inside *)
(* a tick, the calls of a pass do not depend on what is held once it       *)
(* draws, and the replaced shader shares nothing with the others: a        *)
(* behaviour follows the effects, the calls or the replacement.            *)
(***************************************************************************)
EXTENDS FeatureRegistry, EffectPasses, ShaderReplacement

CONSTANTS
    MaxOn,         \* bound: effects switched on together
    MaxResizes,    \* bound: sizes of the light target beyond the first
    EngineClamps,  \* bound: values the engine writes to the fog's clamp
    Amounts        \* bound: settings of the game's fog, in percent

ASSUME EffectConstantsAssumption ==
    /\ MaxOn \in Nat /\ MaxResizes \in Nat
    /\ EngineClamps \subseteq Nat /\ EngineClamps # {} /\ Amounts \subseteq 0 .. 100

VARIABLES
    fullscreen, \* the pass all share: "none", "ready", or "refused" for good
    held,       \* the pointers of each effect that are not null
    leaked,     \* history: effects that overwrote a pointer to a live object
    listening,  \* what each effect is called back for
    size,       \* the size of the light target
    mask,       \* the size of the shadows' mask, 0 without one
    unfit,      \* history: a pass drew without something it uses
    clamp,      \* fogState.clamp, in the engine's memory
    engineClamp,\* history: what the engine last wrote there
    override,   \* the fog's note of it: the original, what was written, whether it stands
    subject     \* what the behaviour follows, one of Subjects

resources == <<fullscreen, held, leaked, listening>>
shadows   == <<size, mask>>
clampVars == <<clamp, engineClamp, override>>
effectVars == <<resources, shadows, unfit, clampVars>>

\* The effects, in the order in which RegisterAll registers them.
View    == 1
Sky     == 2
Clouds  == 3
Contact == 4
Height  == 5
Effect  == {View, Sky, Clouds, Contact, Height}

ASSUME EffectsAssumption == N = 5

-----------------------------------------------------------------------------
(* What Setup acquires                                                     *)

Make(kind, names) == [i \in DOMAIN names |-> [kind |-> kind, name |-> names[i]]]

\* The states of the pipeline each effect keeps, which it creates if it has
\* none.
ViewStates     == <<"plain", "pointClamp">>
SkyStates      == <<"multiply", "plain", "depthState", "comparison", "linearClamp">>
CloudStates    == <<"multiply", "plain", "alphaComposite", "cullNone", "linearClamp">>
ContactSampler == <<"pointBorder">>
ContactBlend   == <<"multiply">>
HeightBlend    == <<"alpha">>

\* Setup, step by step.  "compile" swaps a shader in once it exists, "ensure"
\* keeps what is there, "create" releases what is there first, and
\* "overwrite" writes over the pointer.
ViewSteps ==
    Make("compile", <<"shader">>) \o Make("ensure", ViewStates) \o Make("create", <<"constants">>)

SkySteps ==
    Make("compile", <<"shader">>) \o Make("ensure", SkyStates)
    \o Make("create", <<"constants">>) \o Make("overwrite", <<"patch">>)
    \o Make("create", <<"occlusion", "probes", "accumFrames", "ambientProbe", "sceneProbe">>)

CloudSteps ==
    Make("compile", <<"shader">>) \o Make("ensure", CloudStates)
    \o Make("create", <<"constants", "coverage">>)

ContactSteps ==
    Make("overwrite", <<"modulate">>) \o Make("ensure", ContactSampler \o ContactBlend)
    \o Make("create", <<"constants", "mask">>) \o Make("compile", <<"shader">>)

HeightSteps ==
    Make("compile", <<"shader">>) \o Make("ensure", HeightBlend) \o Make("create", <<"constants">>)

Steps(f) == <<ViewSteps, SkySteps, CloudSteps, ContactSteps, HeightSteps>>[f]

Names(f, from, to) == {Steps(f)[i].name : i \in from .. to}
All(f)             == Names(f, 1, Len(Steps(f)))

\* What a draw hook's observer acquires on the way, the first time it
\* repeats a draw.
Lazily(f) ==
    CASE f = Sky    -> {"viewConstants", "unbiased"}
      [] f = Clouds -> {"staging", "faceConstants", "layerStaging", "geometryConstants"}
      [] OTHER      -> {}

Phases(f) ==
    CASE f = View    -> {"kAfterOpaque"}
      [] f = Sky     -> {"kBeforeComposite", "kComposite", "kAfterOpaque", "observer"}
      [] f = Clouds  -> {"kBeforeComposite", "observer"}
      [] f = Contact -> {"kBeforeComposite"}
      [] f = Height  -> {"kAfterOpaque", "kBeforeComposite"}

\* The pointers Setup leaves when it stops before step k: a creation that
\* failed has released what was there.
Acquired(f, k) ==
    LET got == held[f] \cup Names(f, 1, k - 1)
    IN  IF k <= Len(Steps(f)) /\ Steps(f)[k].kind = "create" THEN got \ {Steps(f)[k].name} ELSE got

Overwritten(f, k) ==
    \E i \in 1 .. k - 1 : Steps(f)[i].kind = "overwrite" /\ Steps(f)[i].name \in held[f]

\* What Shutdown releases, once it has taken its callbacks back.
ViewReleases    == {"shader", "pointClamp", "plain", "constants"}
SkyReleases     == {"shader", "comparison", "linearClamp", "multiply", "plain", "depthState",
                    "viewConstants", "patch", "unbiased", "occlusion", "probes", "accumFrames",
                    "constants", "ambientProbe", "sceneProbe"}
CloudReleases   == {"shader", "multiply", "plain", "alphaComposite", "cullNone", "linearClamp",
                    "staging", "faceConstants", "layerStaging", "geometryConstants",
                    "constants", "coverage"}
ContactReleases == {"shader", "modulate", "pointBorder", "multiply", "mask", "constants"}
HeightReleases  == {"shader", "alpha", "constants"}

Released(f) == <<ViewReleases, SkyReleases, CloudReleases, ContactReleases, HeightReleases>>[f]

Unsubscribed(f) == Phases(f)

-----------------------------------------------------------------------------
(* The clamp of the fog                                                    *)

NoOverride == [stands |-> FALSE, original |-> 0, written |-> 0]

\* VanillaClamp: what the engine meant.
VanillaClamp == IF override.stands /\ clamp = override.written THEN override.original ELSE clamp

RestoreVanillaFog ==
    /\ override' = NoOverride
    /\ clamp' = VanillaClamp

\* The engine's value from the last time stands if ours is still there.
ApplyVanillaFog(amount) ==
    IF amount >= 100 THEN RestoreVanillaFog
    ELSE /\ clamp' = (VanillaClamp * amount) \div 100
         /\ override' = [stands |-> TRUE, original |-> VanillaClamp, written |-> clamp']

-----------------------------------------------------------------------------
(* Setup, Frame and Shutdown, as the registry calls them                   *)

\* Mutant: an effect whose Setup gave up keeps what it had by then.
ShutDown_IfRunning(f, h) ==
    /\ held' = [held EXCEPT ![f] = IF state[f] = "running" THEN h \ Released(f) ELSE h]
    /\ listening' = [listening EXCEPT ![f] = @ \ Unsubscribed(f)]
    /\ IF f = Contact THEN mask' = 0 ELSE UNCHANGED mask
    /\ IF f = Height THEN RestoreVanillaFog ELSE UNCHANGED <<clamp, override>>

\* Shutdown of an effect that holds h.
ShutDown(f, h) ==
    /\ held' = [held EXCEPT ![f] = h \ Released(f)]
    /\ listening' = [listening EXCEPT ![f] = @ \ Unsubscribed(f)]
    /\ IF f = Contact THEN mask' = 0 ELSE UNCHANGED mask
    /\ IF f = Height THEN RestoreVanillaFog ELSE UNCHANGED <<clamp, override>>

Leak(f, k) == leaked' = IF Overwritten(f, k) THEN leaked \cup {f} ELSE leaked

\* InitFullscreenPass: made once, and refused once, for the process.
PassReady   == fullscreen # "refused" /\ fullscreen' = "ready"
PassRefused == fullscreen # "ready" /\ fullscreen' = "refused"

\* Every step succeeded, and so did every subscription.
SetUp(f) ==
    /\ PassReady
    /\ held' = [held EXCEPT ![f] = Acquired(f, Len(Steps(f)) + 1)]
    /\ Leak(f, Len(Steps(f)) + 1)
    /\ listening' = [listening EXCEPT ![f] = Phases(f)]
    /\ IF f = Contact THEN mask' = size ELSE UNCHANGED mask
    /\ UNCHANGED <<clamp, override>>

\* The shared pass refused, some step failed, or there was no room for one
\* of the callbacks; the registry answers with Shutdown.
GaveUp(f) ==
    \/ /\ PassRefused
       /\ ShutDown(f, held[f])
       /\ UNCHANGED leaked
    \/ \E k \in 1 .. Len(Steps(f)) + 1 :
         /\ PassReady
         /\ Leak(f, k)
         /\ ShutDown(f, Acquired(f, k))

EffectSetup(f) ==
    /\ Setup(f)
    /\ IF state'[f] = "running" THEN SetUp(f) ELSE GaveUp(f)
    /\ UNCHANGED <<size, unfit, engineClamp>>

EffectTeardown(f) ==
    /\ Teardown(f)
    /\ ShutDown(f, held[f])
    /\ UNCHANGED <<fullscreen, leaked, size, unfit, engineClamp>>

\* What Compile leaves, once the shader's file or, for the shadows, the
\* number of samples has changed: a shader that fails to load, to compile or
\* to be created leaves the last one in place.
Compile(f) == {held[f], held[f] \cup {"shader"}}

EffectFrame(f) ==
    /\ Frame(f)
    /\ IF state'[f] # "running" THEN ShutDown(f, held[f])
       ELSE /\ \E h \in Compile(f) : held' = [held EXCEPT ![f] = h]
            /\ UNCHANGED <<listening, mask, clamp, override>>
    /\ UNCHANGED <<fullscreen, leaked, size, unfit, engineClamp>>

-----------------------------------------------------------------------------
(* The engine's frame                                                      *)

InFrame == phase = "idle" /\ UNCHANGED <<vars, fullscreen, leaked, listening>>

\* The engine makes its targets anew, or writes the clamp of its weather.
Resize ==
    /\ InFrame /\ size <= MaxResizes
    /\ size' = size + 1
    /\ UNCHANGED <<held, mask, unfit, clampVars>>

EngineFog ==
    /\ InFrame
    /\ engineClamp' \in EngineClamps \ {engineClamp} /\ clamp' = engineClamp'
    /\ UNCHANGED <<held, shadows, unfit, override>>

\* The pass of each effect, the phase that calls it, and what it uses.
PassesOf(f) ==
    CASE f = View    -> {"Show"}
      [] f = Sky     -> {"Sky", "SkyDebug", "Probes"}
      [] f = Clouds  -> {"Clouds", "CloudsDebug"}
      [] f = Contact -> {"Shadows"}
      [] f = Height  -> {"Fog"}

PhaseOf(p) ==
    CASE p \in {"Show", "SkyDebug", "Fog"} -> "kAfterOpaque"
      [] p = "Sky"                         -> "kComposite"
      [] OTHER                             -> "kBeforeComposite"

Uses(p) ==
    CASE p = "Show"        -> {"shader", "plain", "pointClamp", "constants"}
      [] p = "Sky"         -> {"shader", "multiply", "linearClamp", "constants", "probes",
                               "occlusion", "ambientProbe"}
      [] p = "SkyDebug"    -> {"shader", "plain", "linearClamp", "constants", "probes",
                               "occlusion", "sceneProbe"}
      [] p = "Probes"      -> {"shader", "comparison", "constants", "probes", "accumFrames",
                               "occlusion"}
      [] p = "Clouds"      -> {"shader", "multiply", "linearClamp", "constants", "coverage"}
      [] p = "CloudsDebug" -> {"shader", "plain", "linearClamp", "constants", "coverage"}
      [] p = "Shadows"     -> {"shader", "modulate", "pointBorder", "multiply", "constants", "mask"}
      [] p = "Fog"         -> {"shader", "alpha", "constants"}

\* What a pass looks for before it draws, besides the sun, the camera and
\* the engine's targets.
Guarded(f) ==
    CASE f = Clouds  -> {"shader", "coverage"}
      [] f = Contact -> {"shader", "modulate", "mask"}
      [] OTHER       -> {"shader"}

\* EnsureMask: the old mask is gone before the new one is created.
EnsuredMask == IF mask = size THEN {mask} ELSE {0, size}

Fit(f, p) ==
    /\ Uses(p) \subseteq held'[f] /\ fullscreen = "ready"
    /\ f = Contact => mask' = size

\* A pass of an effect, unless the sun, the camera or a target is missing,
\* which leaves everything as it was.
Pass(f, p) ==
    /\ InFrame /\ p \in PassesOf(f) /\ PhaseOf(p) \in listening[f]
    /\ IF f = Contact
       THEN /\ mask' \in EnsuredMask
            /\ held' = [held EXCEPT ![f] = IF mask' = 0 THEN @ \ {"mask"} ELSE @ \cup {"mask"}]
       ELSE UNCHANGED <<held, mask>>
    /\ unfit' = (unfit \/ (Guarded(f) \subseteq held'[f] /\ ~Fit(f, p)))
    /\ UNCHANGED <<size, clampVars>>

\* An observer's first repeated draw; see Captures for what it does.
Repeat(f) ==
    /\ InFrame /\ "observer" \in listening[f]
    /\ \E l \in SUBSET Lazily(f) : held' = [held EXCEPT ![f] = @ \cup l]
    /\ UNCHANGED <<shadows, unfit, clampVars>>

DimFog(amount) ==
    /\ InFrame /\ "kBeforeComposite" \in listening[Height]
    /\ ApplyVanillaFog(amount)
    /\ UNCHANGED <<held, shadows, unfit, engineClamp>>

-----------------------------------------------------------------------------
EffectsInit ==
    /\ Init /\ Cardinality(wanted) <= MaxOn
    /\ fullscreen = "none"
    /\ held = [f \in Effect |-> {}] /\ leaked = {}
    /\ listening = [f \in Effect |-> {}]
    /\ size = 1 /\ mask = 0
    /\ unfit = FALSE
    /\ engineClamp \in EngineClamps /\ clamp = engineClamp
    /\ override = NoOverride

\* The steps of the registry that call no effect.
RegistryStep ==
    /\ Change \/ TickBegin \/ TornDown \/ AllSetUp \/ TickEnd
    /\ Cardinality(wanted') <= MaxOn
    /\ UNCHANGED effectVars

EffectsNext ==
    \/ RegistryStep
    \/ \E f \in Effect :
         \/ EffectSetup(f) \/ EffectTeardown(f) \/ EffectFrame(f)
         \/ \E p \in Passes : Pass(f, p)
         \/ Repeat(f)
    \/ \E a \in Amounts : DimFog(a)
    \/ Resize \/ EngineFog

Subjects == {"effects", "calls", "replacement"}

ComposedInit ==
    /\ EffectsInit /\ PassInit /\ ReplacementInit
    /\ subject \in Subjects
    /\ subject # "effects" => wanted = {} /\ \A c \in EngineClamps : engineClamp <= c
    /\ subject # "replacement" => \A f \in File : disk[f].worth = "fine"

ComposedNext ==
    /\ UNCHANGED subject
    /\ \/ subject = "effects" /\ EffectsNext /\ UNCHANGED <<passVars, tintVars>>
       \/ subject = "calls" /\ PassNext /\ UNCHANGED <<vars, effectVars, tintVars>>
       \/ subject = "replacement" /\ ReplacementNext /\ UNCHANGED <<vars, effectVars, passVars>>

EffectsSpec ==
    /\ ComposedInit /\ [][ComposedNext]_<<vars, effectVars, passVars, tintVars, subject>>
    /\ WF_tintVars(subject = "replacement" /\ Watches /\ ComposedNext)
    /\ WF_tintVars(subject = "replacement" /\ Frames /\ ComposedNext)
    /\ WF_tintVars(subject = "replacement" /\ Restore /\ ComposedNext)

-----------------------------------------------------------------------------
\* An effect runs with everything its Setup acquired, whatever shader failed
\* to compile meanwhile, but for a mask that could not be made anew; or it
\* holds nothing, is called back by nobody and has lost no object, whatever
\* step of its Setup failed, and however often.
WholeOrNothing ==
    /\ leaked = {}
    /\ \A f \in Effect :
         IF state[f] = "running"
         THEN All(f) \ {"mask"} \subseteq held[f] /\ listening[f] = Phases(f)
         ELSE held[f] = {} /\ listening[f] = {}

\* Every pass that draws has what it uses, and the shadows' mask the size of
\* the light target it is multiplied onto.
DrawsAreFit == ~unfit

\* ExponentialHeightFog.h:41: a value the engine did not refresh is not
\* multiplied a second time, one it did refresh is not written over, and
\* when the fog is off the engine has its own.
ClampIsTheEngines ==
    /\ VanillaClamp = engineClamp
    /\ state[Height] # "running" => clamp = engineClamp

\* The registry's account of an effect is true: what it sets up and shuts
\* down in pairs, as the switches say, is there entirely or not at all.
SetupsAreWhole == WholeOrNothing /\ SetupAndShutdownPair /\ SwitchesObeyed

\* No draw is silently wrong: neither for want of a resource nor because
\* D3D11 dropped a binding that is in conflict with another.
DrawsAreRight == DrawsAreFit /\ DrawsFindWhatTheyAsked

\* What belongs to the engine is as the engine left it: what it bound between
\* our passes, its fog once ours is off.
EngineUntouched == BindingsGivenBack /\ ClampIsTheEngines
=============================================================================
