# Verification of Community Shaders for Fallout 4

TLA+ models of the plugin under `src/src` (C++, an F4SE plugin that hooks
Fallout 4's renderer), TLC configurations that check them on small instances,
and TLAPS proofs. Paths below are relative to `src/src` unless they begin with
`src/`. Line numbers are in `PROJECT.json`, definition by definition.

Contents: the system, what is hard about it, the modules, the runs, the proofs,
what the code does otherwise than it says, what is not modelled, the plan.

## 1. The system

The plugin is loaded by F4SE, declares its settings, and at `kGameDataReady`
patches the engine: vtable slots of the shader classes and of the swap chain,
detours, call sites. From then on everything hangs off the engine's calls.

### 1.1 Components, their state and operations

| Component (source) | State | Operations | Correct when |
|---|---|---|---|
| Phase dispatcher (`Render/PhaseDispatcher`) | 16 entries of callback, token, active, retiring; last frame, running | Subscribe, Unsubscribe, Dispatch, Count | whoever is subscribed runs once a frame; nobody runs after Unsubscribe; re-entry corrupts nothing |
| Vtable patches and technique hooks (`Render/VTablePatch`, `Render/FramePhase`, `Render/TechniqueTracker`, `Features/ShaderCensus`, `Features/FrameTrace`) | slot, original of each patch, phases fired this frame | Install, Restore, thunks, Present | every call reaches the engine; resident hooks survive; phases fire at their moment |
| Feature registry (`Feature/FeatureRegistry`, `Feature/FeatureSystem`) | entries off, running, refused; pending settings change | Register, Tick, Setup, Frame, Shutdown | setups and shutdowns pair up; switches are obeyed; refusals retried once per change |
| Settings store (`Settings/Store`, `Settings/Schema`, `Util/FileWatch`) | declared entries, values, dirty flag, last time stamp, the JSON file | Declare, Init, Get, Set, Save, ConsumeChanged | a write keeps what the player wrote; edits are noticed; own writes are not |
| Presenter (`Bridge/Native/Presenter`, `Bridge/SlotRing`) | ring of 3 shared slots, ready and release fences, allocators, per-frame flags | OnRenderStart, SubmitFrameInputs, SubmitHudless, Present, ResizeBuffers | no slot written while read; pictures in order, none lost; waits end |
| Frame tokens (`Bridge/FrameTokenQueue`) | 3 indices under a lock, the current token | Push, Pop; the presenter's markers | markers of a frame in order, tokens in order, newest kept |
| Neural renderer (`Bridge/Native/NeuralRenderer`, `Bridge/NeuralCreation`) | current, retired feature, creation gate, create fence and event | SetOptions, RequestRelease, EnsureFeature, Record, Retire, Collect | no feature freed in use; every handle freed once; failures not repeated |
| Menu and input (`Menu/MenuGate`, `KeyLatch`, `Hotkeys`, `WindowHook`, `MenuSystem`, `InputLayer`, `Overlay`, `MousePointer`, `SettingsPanel`) | wish, capture, captured key, open, input layer, view of the back buffer, cursor | WindowProc, TickSystem | rebinding right; the game gets its input and its cursor back; the overlay draws into what is presented |
| Swap chain hook, start-up (`XSEPlugin`, `Runtime`, `Render/SwapChainHook`, `Render/Renderer`) | frame counter, original Present, device | StartSystem, Install, Present | each hook is complete before it is called |
| Draw hook (`Render/DrawHook`, `DrawObserver`, `ContextTable`) | detours, 4 atomic observer slots, table of contexts | Install, Add, Remove | observers told of every draw, originals always called |
| Profiler (`Render/Profiler`, `PassStatistics`) | ring of 6 query slots, spare pool, stack, table of 128 passes, rings of 300 samples | BeginFrame, BeginPass, EndPass, EndFrame, Collect | passes nest; results belong to their frame; slots not reused in flight |
| Capture (`Bridge/Capture`, `CaptureDemand`, `CameraConstants`, `PresentStats`) | consumers, demand, last camera | Acquire, Release, capture at phases | inputs captured exactly while wanted; history reset after a gap |
| Bridge start-up (`Bridge/Decision`, `NeuralDecision`, `StartupSwitch`, `Native/Streamline`, `Native/DeviceHook`) | decision, backend state | Start, decide, refuse | one decision per process, a partial failure refuses for good |
| Swap chain proxy (`Bridge/Native/SwapChainProxy`, `SimulationHook`) | active presenter, counted references | forwards, Release | nobody uses a presenter that is gone |
| Upscaling (`Features/DLSS`, `Upscale/*`), resolution (`Render/Resolution*`) | 8 engine hooks, stand-ins for targets, samplers, depth, NGX, jitter, scale | Setup, Shutdown, per-pass hooks | the engine gets back what it lent; nothing bound is freed; no history across a gap |
| Effects (`Features/Skylighting`, `CloudShadows`, ...) | D3D resources, subscriptions, overrides; a grid of probes, a ring of copies | Setup, Frame, Shutdown; passes; draws repeated | what Setup took Shutdown gives back; the engine's bindings are as they were; what is gathered over frames is whole |
| Shader replacement (`Shader/*`, `Features/ImagespaceTint`) | compiled shaders, watch, a watcher thread | Compile, swap, reload | the shader bound is alive; edits are shown |
| Menu pages, themes, fonts, translations, helpers, utilities | little | drawing, lookup, reading memory | not a question for a model |

`src/features`, `src/package` and `src/cmake` are shaders, assets and build
files; `src/docs` documents the port; `src/tests` holds the unit tests, read for
what they promise. Headers and code of Streamline, NGX, ImGui, CommonLibF4 and
Direct3D are external and appear only as the calls the plugin makes.

### 1.2 How they interact

* **One present** (`Render/SwapChainHook.cpp`): count the frame, tell the profiler
  whether to measure, end its frame, collect, begin the next; tick the features
  (`Feature/FeatureSystem`: `ConsumeChanged`, then `Registry::OnFrame`); tick the
  menu (which draws, and writes settings); call the original Present, which is
  the proxy's when the bridge is up and so `Presenter::Present`.
* **Within a frame** the engine's SetupTechnique calls pass through the thunks,
  which dispatch the phases; effects, capture and upscaling subscribe to them
  through PhaseDispatcher and do so from `Setup` and from inside callbacks.
* **Threads**: the render thread does all of the above; the window thread runs
  `WindowProc`; the simulation thread runs the simulation hook;
  `kGameDataReady` is handled on a thread of F4SE's; two GPU queues run behind
  the render thread and each other. They meet in atomics (`Gate`, `KeyLatch`,
  `Hotkeys`, `DrawHook`), one lock (`FrameTokenQueue`) and two fences.
* **Settings** are read each frame by path and reported changed by
  `ConsumeChanged`, either from a file watch or from a Set.

### 1.3 What is hard

Re-entry of the dispatcher; several owners of one vtable slot; two GPU queues
and a thread sharing a ring; timeouts that leave an event behind; creations that
outlive their wait; features that throw or fail halfway; an editor writing between
the store's calls; a watcher thread that compiles what is edited; key repeat and
clicks between two threads; hooks live before their original is noted; Direct3D
dropping a binding that conflicts with another; histories that outlive the frames
they were made of; queries and copies recycled under a GPU that answers late. The
list, line by line, is `hazards` in `PROJECT.json`, each with the properties about
it, or a note.

## 2. The modules

A module is one component; a variable has the name of the member or local it
stands for, or its comment names it; an action has the name of its function or
of the part of it between two points where another actor can act. History
variables, which no action reads for its guard, are marked `history`.
Definitions whose name ends in a second, underscored word (`Retire_StaysActive`) are
faulty variants: no action uses them. Each stands before the operator it would
replace, and putting it there makes a property fail.

| Module | Extends or instantiates | Models |
|---|---|---|
| `PhaseDispatcher`, `PhaseProofs` | | `Render/PhaseDispatcher` |
| `Presenter`, `FrameStream`, `PresenterProofs` | `Presenter` instantiates `FrameStream` | the ring of slots; what the player is promised |
| `FrameTokens`, `Bridge`, `BridgeProofs` | `Bridge` extends `FrameTokens` | tokens and markers; the life of the presenter around them |
| `NeuralRenderer`, `NgxProofs` | | DLSS-NR features |
| `FeatureRegistry`, `EffectPasses`, `ShaderReplacement`, `Effects`, `EffectsProofs` | `Effects` extends the first three | switching, binding, replacing, and the effects that do it |
| `SettingsStore`, `SettingsStoreProofs` | | settings, their file, the panel |
| `TechniqueHooks`, `PhaseProofs` | | vtable patches and who owns them |
| `MenuInput`, `OverlayProofs` | | the overlay between two threads |
| `Profiler`, `OverlayProofs` | | timestamp queries and the table of passes |
| `EngineState`, `Skylighting`, `CloudShadows`, `Captures`, `CapturesProofs` | `Captures` extends the two observers, these extend `EngineState` | draws observed and repeated |
| `Upscale`, `NgxProofs` | | DLSS, resolution and capture within a frame |

**PhaseDispatcher** (of `Render/PhaseDispatcher`). The callback on the stack may
be any code: while `executing` is set, Subscribe and Unsubscribe stay enabled
(limited by `Reentrant`). Dispatch is `BeginDispatch`, `CallNext` and `Return` for
each callback, `EndDispatch` with the sweep of the retired.

**Presenter, FrameStream.** The presenting thread records D3D11 commands (`recorded`),
Flush moves them to `queue11`, Present pushes lists to `queue12`; both queues work off
waits, writes, frames and signals in order. A slot remembers which frame each of its
parts is from. The three ends of the thread's waits (`PresentWake`, `ResizeWait`,
`ResizeTimedOut`) go through one auto-reset event and its registrations, as in the code.
Any resize may time out and any may follow it. One that follows may find its wait ended
by the event left behind: `FreedInUse` is then the release of buffers D3D12 still uses,
and leads to `undefined`, where the thread does no more (the queues run dry as if the
memory had kept its content). `FrameStream` is what the player is promised: each picture
handed over is shown, in order, none lost, at most `Depth` behind. `Presenter!Stream`
instantiates it: what is pending is what D3D12 has been given and has not drawn. A
resize makes the slots' textures anew, so a write that D3D11 has still to do goes to one
that is in no slot (`Gone`). Whether the player wants frame generation or NR is left
open by reading the inputs whenever the code allows it.

**FrameTokens, Bridge.** The simulation sleeps between getting a token and pushing it,
so `SimulationStart` and `SimulationBegun` are two actions; the render thread may take
the token early (`OnRenderStart`), late (`PresentBegin`) or drop it. `Bridge` is the
rest of the presenter's life: the patch of the import, a device asked for (`Ask`), the
chain of creation from `LoadStreamline` to `CreatePresenter`, which may be refused at
any step (`Refuse`) and then leaves to the game a swap chain of its own, release, a
second attempt on the same adapter or another, resize, and the options of Streamline and
Reflex that the `FrameGeneration` feature asks for. What is bound to the process
(`streamline`, `bound`, `backend`) outlives a presenter.

**NeuralRenderer.** What a feature is made for (size, model, format) is a key.
`EnsureFeature` is `MakeWay`, `BeginCreate`, `CreateWait` and one of `CreateEnd`
and `CreateTimedOut`. A retired feature carries the release value it waits for;
a timed out one `Infinity`. A frame uses a handle until D3D12 is past its list.
The plugin's feature starts the renderer, part by part, once; switched off, it
asks for a release that the presenting thread carries out frames later.

**FeatureRegistry, Effects.** A tick is `TickBegin`, teardowns in reverse order,
setups in order, frames in order; each call into a feature may succeed, refuse or
throw. `Effects` gives five places of the registry to the effects that draw.
`Setup` of each is the list of what it acquires, any of which may fail, so that
a later Setup finds what the earlier left; Frame compiles shaders anew when they
were edited. A pass draws with what is held then.

**EffectPasses.** The binding calls of every pass, in order, under D3D11's rule
that a texture bound as output and input is dropped from the inputs; the
`StateGuard` around them saves and restores the slots the code saves, in its order.

**ShaderReplacement.** `ImagespaceTint` and `PixelShaderOverride`. The watcher
thread reads the two files, notes their times, compiles and publishes in steps;
the render thread takes, creates, installs, guards and restores in steps; an
editor writes between any two, and the engine may load its own shader anew.

**SettingsStore.** File and memory, the schema's paths and stray keys that only
the file has; the plugin's calls are cut where the code reads or writes the file
or its time stamp, and `Edit` and `Delete` come in anywhere between two of these cuts,
in the middle of a call or not. A file is JSON or not; its objects are `Blocks`, and a player
may have given one a plain value instead, which has no keys. `Merged` is WriteFile's
tree: missing keys filled or values overwritten, and a block the store needs made an object
(`ObjectAt`). The panel's slider changes a value while it is held and writes when it is let go.

**TechniqueHooks.** Slot 02 of the three classes that FramePhase anchors at. A
patch is an owner and a class; what a slot or an original points at is an owner
or the engine. Four anchors, three trackers, the census, the trace with its
recording, the engine's calls through the chain, one thunk a step. The recorder has room
for `kMaxRecords` and counts what it refuses; a call may find no context and
is then not recorded. `due` is the history of the frame's calls that should be.

**MenuInput.** The window thread handles one WM_KEYDOWN at a time in up to two
steps; the render thread's tick has one step for each access to shared state,
then takes the mouse and draws. The two key settings stand for all: one with the
gate behind it, one with a latch.

**Profiler.** A query holds who stamped it last instead of a time, so a sample
says which pass of which frame it was measured from. Present is taken call by
call; the GPU answers frames in order and late, or not at all, and what it answers
holds for some of a slot's timings and not for others.

**Skylighting, CloudShadows, Captures.** Two observers of the engine's draws.
Space has one dimension, and a probe holds the place it was accumulated at; a copy
of constants is the number of the frame it was taken in. `EngineState` is the part of the
context both take over: what is bound to each part, the engine's or the
feature's own, and what each observer has asked for and keeps. Every Get adds to
what is kept, every Set changes what is bound, every Release takes away, in the code's order and
with its lists, and BeforeDraw leaves by every exit the code has: no target, no buffer,
a buffer too small, a copy that cannot be made, another frame's share. The engine's two
buffers of constants have sizes of their own (`bytes`). The two share nothing but
`Surround`, so a behaviour of `Captures` follows the draws of one of them.

**Upscale.** One frame from the tick to the viewport as the points at which the
engine calls into the plugin; between two frames features are switched, menus
open, modes change, and any call that creates something may fail. A mode stands
for its ratio. ProxyTargets' refusals differ in what they leave (`Outcome`): without
renderer data or device the new ratio is kept with no stand-ins behind it, so that the next
Update finds nothing to do. The handler may find no graphics state (`BeginStateless`), and no
camera of the world to tell a cut by (`seen`).

`map` in `PROJECT.json` says which lines every definition stands for.

## 3. The runs

`tlc -config <cfg> <module>` for each; the violation run has one property, which
quotes the code's own documentation and fails. A property is a conjunction of
named parts; each part is defined, with its comment, in the module of its
component.

| Run | Bounds | States | Properties and their parts |
|---|---|---|---|
| `dispatcher` | 3 entries, 5 tokens, frames 0 and 1, both kinds of re-entry | 27,416 | `SubscribersAreServed` (callbacks kept, retired swept, at most once a frame), `UnsubscribedNeverRuns`, `SurvivorsRun`, `DispatchEnds` |
| `presenter` | 2 slots, 4 frames, 2 resizes, each of which may time out | 697,746 | `SlotServesOneFrame` (own picture, own inputs, allocator idle), `NoWriteUnderRead`, `FreedOnlyWhenIdle`, `StreamSpec` (the refinement), `PresentReturns` |
| `bridge` | 3 devices asked for, 2 adapters, 2 tokens in flight of 4 | 1,061,840 | `StartIsWhole` (one swap chain on the window, a whole backend), `OptionsFollow`, `FramesInOrder` (markers and tokens), `NeverFarBehind` |
| `effects` | 5 effects, 2 on together, 2 changes, 2 edits, 1 shader loaded anew | 747,142 | `SetupsAreWhole`, `DrawsAreRight`, `EngineUntouched`, `ReplacementIsSafe`, `SwitchedInOrder`, `EditsShown` |
| `tint_twice` | no edits | violation | `EnginesOwnBack` |
| `neural` | 2 keys, 3 features, 4 frames or resizes, creations may be late | 355,296 | `FeaturesAreAlive` (no free in use, every handle once), `CreationIsFenced` (fenced, allocator idle, failures not retried), `LivesWithFeature` |
| `settings` | 2 paths, 1 stray key, 2 blocks, 2 values, 4 writes | 357,423 | `EditsNoticed`, `InSync`, `OwnWritesAreHarmless` (not taken for edits, the player's rest is kept) |
| `hooks` | 3 classes, 7 owners, 2 switches, room for 1 record, 2 calls a frame | 2,296,552 | `PatchesStand` (calls reach something, residents stay, census leaves), `PhasesOnTime`, `TraceIsOneFrame` |
| `menu` | 2 keys, engine may refuse | 2,815,772 | `OverlayKeepsToItself` (input and cursor given back, draws into what is presented), `RebindsWhatWasAsked` |
| `profiler` | 2 slots, 5 frames, 3 rows, 1 refusal | 654,050 | `SamplesAreOwn`, `EveryQueryOnce` |
| `captures` | cycle of 2, grid of 2 cells, 7 frames; ring of 2, 2 layers, 4 frames, each buffer changes its size once | 1,150,515 | `ProbesAreOwn`, `CloudsAreWhole`, `DrawsLeaveNoTrace`, `GatheredInTime` |
| `upscale` | 4 changes, 2 failures | 3,049,392 | `EngineGivenBack`, `NothingBoundIsFreed`, `InputsAreAsTold`, `HistoryIsTrue` |

**Why the bounds are enough.** Three entries are the fewest with a hole before, at and
after the cursor; five tokens refill all of them in one dispatch. Two slots bring the
ring round twice in four frames with an overlap of any two (the code's third slot only
allows more slack; `kSlots` is a constant). Two resizes are a refused or timed-out one
and one after it. Three devices asked for are an attempt that fails, one that succeeds,
and one that finds what the first two left; two tokens in flight of four fill the queue
and drop from it twice. Two effects on together are one that leaves and one that comes,
two changes are off and on again; two edits are one that is overtaken by the next. For
NR, three features are one in use, one retired and one under creation. Four stamps are
what the player wrote before, a save, an edit and a save of it; of two blocks one has a
stray key, and both a key of the store's. The hooks need two switches to take a census
on and off again, in each order with the trace; with room for one record a second call
is refused and counted (512 in the code; the theorem holds for any room). Two slots of
queries wrap twice in five frames; three rows are the frame's, one that retires and one
that moves into its place. A cycle of two frames is the shortest that can be broken,
leaps of up to four cells pass a grid of two in both directions; a ring of two has a
copy written and one read in the same frame (with more there are some in flight, which
the theorem covers); a buffer that changes its size finds copies of the old one; a third
draw of a frame is one layer too many. In `upscale` three changes take DLSS on, through
a menu or to another mode, and off; a fourth brings a consumer; a second failure can
hide a first. Bounds cap counters in the guards (the constants with `Max` and those the
modules call bounds); at the cap the system stops, which is why `dispatcher`,
`presenter`, `bridge`, `neural` and `hooks` do not check for deadlock. The others check
it.

**Choices in the cfgs.** `hooks` takes VirtualProtect to succeed and
the engine to call no slot between its patch and the note of the original;
`TRUE` for `ProtectFails` or `RenderingAtStartup` shows what happens otherwise.
`effects` takes no value the engine writes to the fog's
clamp to be one the fog writes, since the code cannot tell them apart. In `Presenter`
a second drain times out only when the event of the first is done with (`OneLeftOver`, a bound
on the registrations that wait on one event); `FrameStream` allows a picture
more than the ring has slots, for the wait such an event may end.

**Exceptions inside properties.** Some properties except a case in which the code
does otherwise, by a history variable that names it:

| Variable | Module | The case |
|---|---|---|
| `hurried`, `late` | `Presenter` | the wait under way began with the event of a timed-out drain still set or registered |
| `late` | `NeuralRenderer` | a creation timed out earlier |
| `struck` | `SettingsStore` | the edit fell between the plugin's own load or write and its look at the time stamp |
| `raced` | `SettingsStore` | somebody wrote the file between WriteFile's reading and its writing |
| `excused` | `Upscale` | a reset was spent on an evaluation that failed, or there was no camera to tell a cut by; and frames without a slot |
| `spoiled` | `Profiler` | the device refused a query in the frame |
| `lost` | `ShaderReplacement`, `Skylighting` | an edit fell between reading and note; a window was moved and the grid not filled |
| `rearmed` | `MenuInput` | another button was clicked while a key was on its way |

Two exceptions are conditions on the data: a plain value in the place of a
block of the store's own (`WritesKeepTheRest`), and copies of a buffer that has changed
its size twice (`CopiesAreThere`). Each is described in section 5.

**Type invariants.** Every module with a state of its own that is proved about or
planned to be has a `TypeOK`. No run lists it, since it says nothing the code
could get wrong; each was checked once under the bounds of its run and can be
added to the configuration.

**Fairness.** Safety properties assume none. `DispatchEnds`: the loop is straight
code, so its three steps are weakly fair as long as callbacks return; a callback
may subscribe for ever, and the loop ends because the number to run is fixed and the
cursor only moves on. `PresentReturns` and `FrameStream`: the runtimes work off
their queues (`D3D11`, `D3D12`), and a call that has begun goes on; nothing obliges
the game to render, present or resize, and no fairness is put on timeouts.
`EditsShown`: the watcher thread is a loop with a sleep, the game presents frames,
and a Restore that has begun ends; nothing obliges the editor or the engine.
`EditsShown` itself asks that the feature is in the end left on and the files fine.

**Faulty variants.** Each property of a passing run fails when one definition is
replaced by its variant (`mutants` in `PROJECT.json`): a forgotten reset,
a wait off by one, a release before the exchange, a flag set before its data, a
flag kept for the next frame.

## 4. The proofs

Eight modules hold theorems. Each `...Proofs` module extends its component, three of
them two components that share no variable (`PhaseProofs`, `NgxProofs` and
`OverlayProofs`), and proves, for every value of the constants that the component's own
assumptions allow, an inductive invariant and from it the properties the run of
the component checks. The invariant was checked by TLC under the bounds of that run before it
was proved. The step lemmas have one step for each action; the last step of a
theorem is temporal and does nothing but combine them.

| Module | Theorem | Statement | Property of the run |
|---|---|---|---|
| `PhaseProofs` | `TypeCorrect`, `KeepsCallback`, `NoLingering`, `OncePerFrame` | `Spec => []...`, the parts of the next | |
| | `SubscribersServed` | `Spec => []SubscribersAreServed` | yes |
| | `NeverRunsAgain` | `Spec => UnsubscribedNeverRuns` | yes |
| | `SurvivorsAreRun` | `Spec => SurvivorsRun` | yes |
| | `PatchesStayStanding` | `~RenderingAtStartup`, `~ProtectFails`, `HooksSpec => []PatchesStand` | yes |
| | `PhasesFireOnTime` | the same, `HooksSpec => []PhasesOnTime` | yes |
| | `TraceStaysOneFrame` | the same, `HooksSpec => []TraceIsOneFrame` | yes |
| `EffectsProofs` | `SetupsPair`, `Obeyed` | `Spec => []SetupAndShutdownPair`, `[]SwitchesObeyed` | |
| | `InOrder`, `EffectsInOrder` | `Spec => SwitchedInOrder`, `EffectsSpec => SwitchedInOrder` | yes |
| | `SetupsStayWhole` | `EffectsSpec => []SetupsAreWhole` | yes |
| | `ReplacementStaysSafe` | `EffectsSpec => []ReplacementIsSafe` | yes |
| | `DrawsStayFit` | `EffectsSpec => []DrawsAreFit` | a part of the next |
| | `DrawsStayRight` | `EffectsSpec => []DrawsAreRight` | yes |
| | `ClampStaysTheEngines` | `EnginesDiffer`, `EffectsSpec => []ClampIsTheEngines` | a part of the next |
| | `EngineStaysUntouched` | `EnginesDiffer`, `EffectsSpec => []EngineUntouched` | yes |
| `PresenterProofs` | `ServesOneFrame` | `Spec => []SlotServesOneFrame` | yes |
| | `WritesWait` | `Spec => []NoWriteUnderRead` | yes |
| | `ResizeIsIdle` | `Spec => FreedOnlyWhenIdle` | yes |
| | `ShowsTheStream` | `Spec => Stream!Safety` | all of `StreamSpec` but its fairness |
| `BridgeProofs` | `StartsWhole` | `BridgeSpec => []StartIsWhole` | yes |
| | `OptionsAreFollowed` | `BridgeSpec => []OptionsFollow` | yes |
| | `FramesKeepOrder` | `BridgeSpec => []FramesInOrder` | yes |
| | `NeverBehind` | `BridgeSpec => NeverFarBehind` | yes |
| `NgxProofs` | `FeaturesStayAlive` | `Spec => []FeaturesAreAlive` | yes |
| | `CreationsAreFenced` | `Spec => []CreationIsFenced` | yes |
| | `FeaturesGoWithTheirs` | `Spec => []LivesWithFeature` | yes |
| | `UpscaleGivesBack` | `UpscaleSpec => []EngineGivenBack` | yes |
| | `UpscaleBindsWhatIs` | `UpscaleSpec => []NothingBoundIsFreed` | yes |
| | `UpscaleTellsInputs` | `UpscaleSpec => []InputsAreAsTold` | yes |
| | `UpscaleKeepsHistory` | `UpscaleSpec => HistoryIsTrue` | yes |
| `SettingsStoreProofs` | `MemoryIsFile` | `Spec => []InSync` | yes |
| | `Noticed` | `Spec => []EditsNoticed` | yes |
| | `WritesAreHarmless` | `Spec => OwnWritesAreHarmless` | yes |
| `OverlayProofs` | `KeepsToItself` | `Spec => []OverlayKeepsToItself` | yes |
| | `Rebinds` | `Spec => RebindsWhatWasAsked` | yes |
| | `SamplesStayOwn` | `ProfilerSpec => []SamplesAreOwn` | yes |
| | `QueriesStayOnce` | `ProfilerSpec => []EveryQueryOnce` | yes |
| `CapturesProofs` | `ProbesStayOwn` | `Spec => []ProbesAreOwn` | yes |
| | `CloudsStayWhole` | `Spec => []CloudsAreWhole` | yes |
| | `NoTrace` | `Spec => []DrawsLeaveNoTrace` | yes |
| | `Gathered` | `Spec => GatheredInTime` | yes |

The inductive invariant is a theorem of its own: `Inductive` (`Spec => []IInv`) in every
module, and `EffectsInductive` of all parts of `Effects`, `HooksInductive`,
`ProfilerInductive`; that of `Upscale` is `UpscaleInv`.

**The dispatcher.** `AtMostOncePerFrame` is not inductive. It needs to
know that whoever is still ahead of the cursor has not been called in this frame,
and that a frame not yet dispatched has no calls (`CallsInv`). That in turn
survives a subscription in the middle of a dispatch only because a newcomer's
token is greater than every token called, and a removal only because no two
active entries share a token (`TokensUnique`). `LiveSubscriberKeepsCallback`
needs that an active entry is not retiring, which is what Subscribe's reset of
`retiring` is for; `NothingRetiredLingers` that retiring entries exist only while
running (`EntryOK`). `UnsubscribedNeverRuns` follows from the invariant that no
active entry holds a token taken back. `SurvivorsRun` compares how many newcomers
ran with how many of those the dispatch began with were passed over.
`SurvivorInv` keeps the count: as many were called as the loop has counted, the
number to run is the number that was there at the start, and whoever was there, has
not run and was not taken back is still ahead of the cursor. When the loop ends
with nobody ahead there is nobody left to miss; when it ends because the count
is full, as many ran as there were at the start, so each one missed left its place to
one newcomer. The comparison of the two sets of tokens is `MissedForNewcomers`,
for arrays of every size.

**The technique hooks.** The invariant writes the chain of each class out: who was put
in so far (`Placed`), whom the slot leads to, and what each resident notes as its
original (`ResidentInv`, `SlotInv`); what each of these was when a resident came is what
its original still is, since no resident leaves but the census, which is always on top.
`CallInv` says who may have the call in hand (`Way`), `PhaseInv` which boundaries must
have been seen where the call is, which is how a phase is dispatched at the boundary and
not after it. `RecordInv`: a trace that records holds the first of the calls made in
this frame to what it watches, up to its room, and counts the rest, but for the one that
is on its way to it; so what is held is a beginning of the frame's calls, and none of an
earlier frame's, because every way a recording ends or begins clears both the records
and the count. The two hypotheses are what the run takes too. With `RenderingAtStartup`
the engine calls through a slot between its patch and the note of the original; with
`ProtectFails` a slot may stay written while its owner is told it is not (section 5);
with either, `PatchesStand` is false.

**The registry.** The theorems about `Spec` are of `FeatureRegistry` alone, whatever
its features do, and use nothing of their number; `EffectsAreSteps` carries them over to
`EffectsSpec`. `SwitchesObeyed` is a matter of all three loops: the
frames begin when nothing is left to set up, nothing that is to go is left from the
teardown on (`LoopInv`), and a refused feature is wanted as long as no change is
pending (`RefusedInv`), which is why a change clears the refusals before the loops.
`OneTryPerChange` needs that what failed is exactly what is shown as refused
(`FailedInv`), and that no loop visits an entry that is (`due` holds running ones only).

**The effects.** `HeldInv`: an effect that runs has all its Setup makes but perhaps the
mask, and nothing its Shutdown does not release; one that does not run has nothing.
The lists of what each makes, uses and releases are compared in `AllIs`, `Used` and `Known`;
`Halfway` is a Setup that stops at any of its steps: it overwrote nothing, since it held
nothing when it began. `ClampInv`: where the clamp is not the engine's value it is the
one the fog noted, and where it is the noted one the note of the original is true. Its
hypothesis, that no value the engine writes is one the fog makes of another, is the
exception in section 3 stated for every set of values and dimmings. `ReplacementInv`: a
shader of ours is in no slot but the adopted one and, but for an instant inside
Install and Restore, is the current one, which is why releasing the older is safe; the
watcher thread is gone before Restore. Adopt may be fooled, by a slot that holds our shader or
while one is current; nothing is claimed from there on.

**The passes' bindings.** `BindIs` is D3D11's rule: every slot gets what a call names or
keeps what it has, but for an input that is an output now, so nothing is ever both
(`NoClash`). A pass is described by what it may bind as target, as unordered output and
ask to read once c of its calls are made (`Target`, `Unordered`, `Read`); that the calls
of every pass keep to it is `CallsFit`, and that no pass asks to read what it may then
write is `Growing`. The shadows are the one pass that reads what it wrote, and let go of
it in between. `GuardedInv` follows: whatever is asked for stays bound. `AllBack` is the
guard, group by group: since the targets come first and what was saved clashed with
nothing, no input that is put back is dropped, which is why the order matters.
`ProbesInv` is the pass without a guard: its last three calls empty what it used. What
is left in the slots that are not saved is harmless (`Idle`), so the next pass begins
where the first did.

**The presenter.** The invariant speaks of what is still under way, so its parts are
stated of two sequences of commands: the stream D3D11 has before it (`queue11` followed
by `recorded`) and `queue12`. `FenceInv`: the signals in a queue are the values not yet
done, rising (`Fenced`). `RingInv`: behind every draw stands a signal that the slot's
release value covers (`Released`), and before every write a wait for the draws of its
slot by earlier frames (`Guarded`, `Protected`). `HandInv`: D3D12 draws only behind a
wait for what D3D11 wrote (`Handed`). `OwnInv`: what a slot holds, or the last write to
it still under way, is the frame's that draws it (`Own`, `Owned`), and frames stand in
the queues in order. `EventInv`: what the one event may be signalled by. `Kept` packs
the parts, and there is one lemma for each way a queue changes: a command added, taken,
or handed from one to the other. The theorems have no hypothesis: any resize may time
out and any may follow. `EventInv` says when a wait can be trusted: one that began with
no event left behind (`~hurried`) ends with its own value, and leaves none behind. From
it `DrainedIsIdle` has that such a drain ends with the queue idle, and
`AllocatorIdleAtReset` that such a present finds its slot free. The others are the
exceptions of `FreedOnlyWhenIdle` and `AllocatorIdleAtReset`; `FreedInUse` ends the
thread's work, so nothing later is claimed of it, but what the queues then still hold is
covered by `NoWriteUnderRead` and by the stream.

**The presenter's stream.** `ShowsTheStream` is the step part of the refinement:
`Init` maps to `Stream!Init`, and each step to one of `FrameStream` or to none. All but one
of the actions leave alone what the player sees or hand over and show pictures in
the order of the queue. What is hard is that a picture may only be handed over
while at most `Depth` wait. `LagInv` says why: slots are given back in turn
(`TakenInTurn`), the queue holds two draws of one slot only while the thread has still
to wait for the first (`TwiceInv`), and the thread that has its slot, or is about to
have it, has no draw of it left in the queue but one left behind by a drain that timed out
(`EnteredInv`, `LoneInv`). So the draws in the queue are of different slots, and there
are no more of them than slots (`DrawnFew`, by counting). What is pending is a selection
from a queue of any length; where the proof needs its length or its elements it uses
sets of positions and induction over numbers (`Least`), not over sequences.

**Tokens and bridge.** The queue holds the newest tokens that were begun, without
a gap (`OrderInv`): pushing to a full queue drops the oldest, which is why the frame
that takes one is never far behind. `MarksInv` says how far each token's markers
have come by where the token is. `LifeInv`, `BackendInv` and `OptionInv` say what is
bound to the process, to the device and to the presenter at each point of the
creation, and survive `Refuse` at each of them.

**The neural renderer.** `PlaceInv`: every handle that was issued is in exactly one
place, created, current, retired or released. `AliveInv`: a command still in the queue
that uses a handle stands before the signal the handle's retirement waits for.
`CreateInv` and `WaitInv`: at most one creation is under way, and the event it ends
with is its own, or `late` says it is not. The theorems have no hypotheses.

**Upscaling.** `OnInv` and `OffInv` say what DLSS holds of the engine when it is on, and
that off it holds nothing; between the two stand the steps of switching, each of which
may fail, and the proof has one case for each outcome of each step. `LentInv` and
`DepthInv` tie what is lent within a frame (the biased samplers, the targets that stand
in, the full depth) to the points of the frame between which it is, so that nothing that
is made anew at the frame's begin is bound. `HistoryInv` is about what should have
dropped a history and did not: either the reset is due, or what calls for it is still to
be noticed, or it is excused, and once the frame has begun it has been noticed. A cut is
noticed only with a camera to see it by, so the excuse is taken at the frame's begin and
dropped with the next reset; `ConsumersInv` says the same of the consumers of the
capture. `MotionInv` is why the capture's motion vectors are written by the engine when
somebody wants them. No hypotheses.

**The settings.** A time stamp that the watch has not seen is the editor's (`QuietInv`);
memory and file are one as long as nobody else wrote, unless the plugin is about to
write (`SyncInv`). `NoticedInv`: an edit neither loaded nor overwritten has a stamp the
watch has not, or a load of it is the next step, unless it fell into the window before a
look at the stamp (`struck`). `WriteInv`: what WriteFile has read is what the file
holds, unless somebody wrote in between (`raced`); then `Merged` of the one is `Merged`
of the other, which keeps every key it does not set and every plain block it does not
need. The editor is free at every step, and no theorem has a hypothesis.

**The menu.** The window thread has a key between taking it and storing it, the
render thread between capture and setting: `CaptureInv` says that until another
button is clicked only one key is on its way. `ViewInv`: a view of the buffer presented
is of that very buffer, also when a new one has the old one's address. `MouseInv`: the
cursor is parked only while the mouse is taken.

**The profiler.** `QueryInv`: every query that was made is in the pool, at one end of one
timing of one slot, or in hand, and in one of them only (`Once`); none is lost unless a
refusal spoiled the frame (`Whole`). `TimesInv` says of each timing in the ring which stamps
it waits for, and `OpenInv` that what is open is what its callers think is open, which is
what makes a sample the duration of the pass it is filed under. `TableInv`: rows have
different names, the index leads to the row of its name, and rows that retire take
their index with them. A slot is read timing by timing and the table row by row;
both are functions over numbers in the model, and `Iterated` and `UpTo`, induction over an
interval, carry an invariant from their first value to their last. No hypotheses.

**The captures.** `CycleInv` says which frames have drawn into the map and with which
share; `GridInv` that the window the grid was filled for is where the next move starts
from. `UpdatedIsOwn` is the argument that a ring of probes works: a cell of the new
window that was in the old one has the same place in the ring, for every size and every
leap, and two cells of a window have different places (`OnePlace`). It needs the grid to
be no wider than the margin that declares it new, 1000 cells in the code, hence
`GridSize <= 1000`. `StagedInv` and `ARingBehind` give the delay of the copies: what the
slot to be written next still holds has its place and is older, so it is a whole ring
older. `SkyTraceInv` and `CloudTraceInv` follow the references: which parts are kept
while a draw is surrounded, and by each of BeforeDraw's exits that what was asked for up
to there is what is released (`Droppable`: no part is kept that ReleaseSaved would
forget). What AfterDraw binds is back because the list it sets is within the list it
restores, and each of these parts was saved; the sets are compared, not assumed.
`CopiesInv` says why a noted size is worth asking, for each of the two buffers: what is
incomplete has another size, until the engine changes that buffer's size a second time.

**Only model-checked.** Everything that must eventually happen (`DispatchEnds`,
`PresentReturns`, `EditsShown`, and the fairness of `StreamSpec`): liveness under fairness
is out of the prover's reach. Every other property of a passing run is a theorem, under the
hypotheses of the table.

## 5. What the code does otherwise than it says

Shown by a run (`findings`):

* `Shader/ShaderOverride.h:29`: "Puts the engine's own shader back". Switched off,
  the override keeps its slot. Switched on again, a build may arrive before the
  catalogue is tried again, is installed at once, and the second `Adopt` then notes
  our own shader as the original; the next Restore writes a released shader
  into the engine's slot (run `tint_twice`).

Met while modelling; each was seen in a model or in the code, and is excepted by
the constant or the history variable named:

*Dispatcher*
* `Render/PhaseDispatcher.h:56`: "A subscriber added while this is running waits
  for the next frame". One that gets a hole ahead of the cursor runs in this
  dispatch, and an older one may then be passed over; `SurvivorsRun` is the
  guarantee that is left. `:53` "in subscription order": entries are reused, so it is
  entry order. `:20-22` "nothing is destroyed while it executes": a callback that
  unsubscribes and subscribes again may be assigned to its own running entry.

*Presenter, bridge and neural renderer*
* `Bridge/Native/Presenter.cpp:736`: the buffers of a queue that may be busy are
  not freed. They are, when an earlier drain timed out and its event arrived later:
  it ends the next drain at once (`FreedInUse`, excepted as `hurried`). The same event can end
  Present's wait for its allocator early, against `Bridge/SlotRing.h:12`.
* `Bridge/Native/Presenter.cpp:366`: Destroy runs by hand and again from the
  destructor. When the first drain times out, the second finds no fence, takes the
  queue for idle and frees what the first one kept, the neural renderer's with it.
* `Native/DeviceHook.cpp`, `Presenter.cpp:163`: a backend that failed half-way refuses
  later attempts only once a device is noted; when Streamline took the device and the
  next step failed before that, another attempt binds it again. `Bridge/Bridge.h:28`
  says the reason for a refusal is empty while the bridge is up and before the game
  created its device; `DeviceHook.cpp:236` sets one for the latter, and a second device
  refused sets one while the first is up. Options that DLSS-G or Reflex refuse are
  logged and taken for set.
* `Bridge/Native/SwapChainProxy.cpp:25`: nothing keeps the simulation thread,
  which took the presenter from `ActivePresenter()`, from using it after the
  proxy has destroyed it.
* `Bridge/Native/NeuralRenderer.h:123` "fenced before first use": after a
  creation that timed out the next one's wait may end with the earlier event (`late`).

*Registry, effects, shader replacement*
* `Feature/FeatureSystem.cpp:47` DLSS "stops last": only when features stop
  together; switched off alone, or thrown out, it stops first.
* `Features/ScreenSpaceShadows.cpp:189`: recompiling "only happens on a change";
  a compilation that fails is tried again every frame.
* `Render/StateGuard` leaves out the input layout, the scissors, the pixel shader's
  resources from slot 2, and what D3D11 dropped from the inputs while a pass
  ran; `UpdateProbes` leaves the compute sampler 0 and constant buffer 1, `TargetView`
  draws with whatever viewport is set. `EngineUntouched` speaks of the slots the
  guard saves.
* A `FullscreenPass` that could not be created once is refused for good; a
  `TexelProbe` may read a slot of an earlier frame.
* `Features/ExponentialHeightFog.cpp:529` compares values: an engine that writes
  the very value the fog wrote has it taken back (`EngineClamps`).
* `Features/ImagespaceTint.cpp:185`: an edit between the reading of a file and the note
  of its time is noticed only with the next one; a file missing on the first try
  leaves the watch empty for good; a shader the device refuses loses its
  bytecode (`lost`). When the engine loads its shader anew while ours is noted, the
  original may be one it has released.

*Draws repeated*
* `Features/Skylighting.cpp:915`: the window is moved before the constants are
  filled; when that fails the probes of the cells that came into view stay
  those of the cells that left (`lost` in `Skylighting`).
* `Features/CloudShadows.cpp:746`: in a frame without cloud draws the shadows
  are those of an earlier frame. `:589`, `:455`: a copy that cannot be mapped leaves the image
  of an earlier one.
* `Render/DrawHook.cpp:59`: a draw on another thread may have loaded an observer
  that is being removed; `DrawHook.h:32` leaves it to the observers, which do nothing about it.

*Upscaling*
* `Features/DLSS.cpp:444`: a reset is spent on an evaluation that failed, and the next
  one continues the old history (`excused`). `:196`, `:217`: a cut in a frame without a
  camera of the world or without a graphics state is noticed only when a later frame has
  them and compares its camera with the last one seen; until then the history goes on
  (`excused`). `:412`: after an evaluation that failed the small picture stays in the
  corner of the large target.
* `Upscale/ProxyTargets.cpp:55`: stand-ins are keyed by the ratio, so a change of size
  alone keeps the old ones; the ratio is noted before the device is asked, so without
  one the next Update finds it settled with no stand-ins made, while textures of
  `Passes` are tried every frame.
* `Upscale/EngineHooks.cpp` "all or nothing": hooks enabled before one that
  fails stay patched, as pure forwards. `Passes::Compile` exchanges shaders and then
  may return false.
* A second set-up notes `_fxaaWas` anew only when the effect is there; the full depth
  may be bound unwritten when its pass could not be made (`fails`); a Shutdown after a
  refused Setup sets ratios that were never taken. `JitterPhaseCount` truncates.

*Settings*
* `Settings/Settings.h:153`: an edit is not reported that falls between Save's write and
  its rebase (`Settings/Store.cpp:396`), or at start-up between Init's load and
  `Watch().Reset` (`:458`-`:464`): the look at the time stamp takes it for the
  store's own (`struck`). What is written between WriteFile's reading and its writing is
  overwritten (`raced`).
* `Settings/Store.cpp:131`, `:149`: filling what is missing "touches nothing else". A
  plain value where the store needs an object (`{"Menu": 5}`) is replaced by one
  (`ObjectAt`, `:101`-`:108`), at start-up too, since the file then counts as
  incomplete.
* `Settings/Store.cpp:182` "a typo must not cost the player their settings": true
  of start-up, not of the first Save, which starts from an empty tree.

*Hooks*
* `Render/VTablePatch.h:20` "changes nothing when ... the page protection cannot
  be lifted": when it cannot be put back, the slot stays written and Install
  reports failure (`ProtectFails`). `Render/FramePhase.cpp:153`, `SwapChainHook.cpp:103`:
  the thunk is live before its original is noted (`RenderingAtStartup`).
* `Features/FrameTrace.h:25`: a press of its key while it is being switched off is still
  pending when it is back, and arms a trace nobody asked for then.

*Menu*
* `Menu/MenuGate.h:32` "key repeat therefore costs one transition": within one
  frame. A key held longer opens and closes the overlay for as long as it is held.
* `Menu/MenuSystem.cpp:174` "The key goes to the setting whose button armed the
  capture": with a second button clicked while the key is between window thread
  and tick, it goes to the second (`rearmed`). Closing the
  overlay does not cancel a capture, so the next key of the game is taken.
* `Menu/WindowHook.cpp:118`, `:152`: when nothing was noted the window is not
  held to be hooked; the next installation chains our procedure to itself.
* `MousePointer::Release` moves the cursor without asking whether the game is in front,
  and the clip rectangle is not put back. ImGui keeps a button held that was down when
  the overlay closed; a slider's value is then in memory and not in the file.
* On the native swap chain, ResizeBuffers is called while the overlay holds a
  view of its buffer, which DXGI refuses.

*Profiler*
* `Render/Profiler.cpp:159` clears the table at a pause "so that samples from before" do
  not meet those after; the slots in flight are read all the same. `:229`: a pass that
  could not be begun is ended by closing the one around it (`spoiled`), and the query
  for its end is lost when only the one for its begin was refused. `PassStatistics.h:71`
  "first-seen order is tree order": a pass that begins later than others is listed after
  them, whatever it is nested in.

## 6. What is not modelled, and why

*Components*: those with status `not_modelled` in `PROJECT.json`: drawing of pages,
translations and memory readers have no state a model could say something about. *Inside
partly modelled components*: the order of start-up and the installation of the Present
and draw hooks; destruction of the proxy during the simulation's call (taken not to
happen); statistics, HDR formats and colour spaces of the presenter; the composite's
drawing and timestamps; the schema's kinds and bounds; the text of reports; the messages
ImGui gets; the arithmetic of cameras, jitter, extents, fog and sun; what shaders
compute; the catalogues of shaders and the machine code of detours; the game's own
switch for temporal anti-aliasing and a change of the display's size under the upscaler
(textures are made for the size they find, but the size does not change in a run); the
reference BeginFrameCapture takes and gives back within itself. *Data*: pictures are
frame numbers, keys and features names, files sets of keys, shaders the times of the
files they were compiled from, space has one dimension. *Hardware*: fences complete in
order and device removal does not happen.

## 7. Plan

Every safety property of the passing runs is proved; only the two of the hooks and of the
fog's clamp have hypotheses (section 4). What a next step would take:

1. Drop hypotheses and exceptions where the code is changed: `hurried` when a drain
   resets its event, `struck` when the time stamp is read before the file,
   `~RenderingAtStartup` when a patch notes the original before it writes.
2. The model still to extend: the start-up of the plugin and the hooks it installs
   (`XSEPlugin`, `SwapChainHook`, `ContextTable`), and `UpscaleMath` as functions checked
   against what its tests say.
