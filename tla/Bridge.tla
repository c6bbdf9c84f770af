-------------------------------- MODULE Bridge --------------------------------
(***************************************************************************)
(* How the presenter comes to be and goes: Bridge/StartupSwitch, Decision, *)
(* Native/DeviceHook, Streamline, SwapChainProxy and what Native/Presenter *)
(* does to be created, resized and destroyed; with it the frame tokens it  *)
(* keeps, its dealings with Streamline, and the FrameGeneration feature    *)
(* that steers it.  The game may release its swap chain and create its     *)
(* device again; what is bound to the process (Streamline, the D3D12       *)
(* device and queue) is then used again, what is the presenter's is made   *)
(* anew.                                                                   *)
(*                                                                         *)
(* Taken for granted: the game does not release its swap chain inside a    *)
(* present or while it polls its input, and Streamline does not refuse to  *)
(* switch something off.  What flows through the slots is in Presenter.    *)
(***************************************************************************)
EXTENDS FrameTokens, FiniteSets

CONSTANTS
    Adapters,
    MaxAsk      \* bound: devices the game asks for

ASSUME BridgeAssumption == MaxAsk \in Nat

VARIABLES
    patched,      \* the game's import leads to CreateDeviceAndSwapChain
    polled,       \* SimulationHookInstalled()
    asks,         \* devices asked for
    step,         \* the call under way: "none", or the step of the creation it
                  \*   is at, or "resize"
    adapter,      \* the adapter of the D3D11 device created last
    streamline,   \* "absent", "loaded" (_module) or "ready" (_initialised)
    bound,        \* the D3D12 device Streamline was given last, or NoDevice
    backend,      \* TheBackend()
    pieces,       \* what the presenter holds
    active,       \* g_active
    usable,       \* _usable
    window,       \* whose swap chains are on the game's window
    wanted,       \* _generationWanted
    optionsSet,   \* _optionsSet
    applied,      \* _generationApplied
    generating,   \* Streamline: DLSS-G is on
    tags,         \* Streamline: the token whose resources are tagged, or NoToken
    reflexMode,   \* _reflexMode
    reflex,       \* Streamline: the mode Reflex is in
    feature       \* FrameGeneration runs

callVars     == <<patched, polled, asks, step, adapter>>
processVars  == <<streamline, bound, backend>>
lifeVars     == <<pieces, active, usable, window>>
optionVars   == <<wanted, optionsSet, applied, generating, tags>>
reflexVars   == <<reflexMode, reflex>>
bridgeVars == <<callVars, processVars, lifeVars, optionVars, reflexVars, feature, vars>>

NoDevice == 0
NoBackend == [device |-> NoDevice, adapter |-> "none", queue |-> FALSE]

\* What Presenter::Create makes, in this order.
Pieces == <<"fences", "event", "lists", "swapChain", "buffers", "textures">>
FirstPieces(n) == {Pieces[i] : i \in 1 .. n}
HasSwapChain == "swapChain" \in pieces

-----------------------------------------------------------------------------
(* Plugin load *)

Blocks == {"FrameGeneration", "NeuralRendering"}

\* The settings file: is it there and an object, and what it says of a block.
SettingsFiles == [json : BOOLEAN, blocks : [Blocks -> {"missing", "no boolean", "off", "on"}]]

ParseStartupSwitch(file) == file.json /\ \E b \in Blocks : file.blocks[b] = "on"

\* InstallDeviceHook and InstallSimulationHook, both only with the switch on.
\* Either may fail on its own.
BridgeInit ==
    /\ Init
    /\ \E file \in SettingsFiles :
        /\ patched \in {FALSE, ParseStartupSwitch(file)}
        /\ polled \in {FALSE, ParseStartupSwitch(file)}
    /\ asks = 0 /\ step = "none" /\ adapter = "none"
    /\ streamline = "absent" /\ bound = NoDevice /\ backend = NoBackend
    /\ pieces = {} /\ active = FALSE /\ usable = FALSE /\ window = {}
    /\ wanted = FALSE /\ optionsSet = FALSE /\ applied = FALSE
    /\ generating = FALSE /\ tags = NoToken
    /\ reflexMode = 0 /\ reflex = 0
    /\ feature = FALSE

-----------------------------------------------------------------------------
(* CreateDeviceAndSwapChain *)

\* What the decision looks at, the switch apart; "alone" is no ENB and no
\* other module that replaces the swap chain.
Facts == [swapChain : BOOLEAN, windowed : BOOLEAN, nvidia : BOOLEAN, alone : BOOLEAN]

Decide(facts) == facts.swapChain /\ facts.windowed /\ facts.nvidia /\ facts.alone

\* The original: the game's own swap chain, on its window.  A second one, with
\* the first alive, is for a window of its own.
Original == window' = IF active THEN window ELSE window \cup {"game"}

\* The game asks for a device and a swap chain.
Ask ==
    /\ step = "none" /\ "game" \notin window /\ asks < MaxAsk /\ stage = "none"
    /\ asks' = asks + 1
    /\ adapter' \in Adapters
    /\ \E facts \in Facts :
        IF patched /\ Decide(facts) /\ ~active
        THEN step' = "streamline" /\ UNCHANGED window
        ELSE /\ UNCHANGED step
             /\ IF facts.swapChain THEN Original ELSE UNCHANGED window
    /\ UNCHANGED <<patched, polled, processVars, pieces, active, usable, optionVars,
                   reflexVars, feature, vars>>

\* The file is missing or unsigned, an export is, or slInit fails; a module
\* loaded once stays.
LoadFails == /\ streamline # "ready"
             /\ streamline' \in {streamline, "loaded"}
             /\ step' = "refuse"

LoadSucceeds == streamline' = "ready" /\ step' = "device"

LoadStreamline ==
    /\ step = "streamline"
    /\ LoadFails \/ LoadSucceeds
    /\ UNCHANGED <<patched, polled, asks, adapter, bound, backend, lifeVars, optionVars,
                   reflexVars, feature, vars>>

\* SupportsFrameGeneration, D3D11CreateDevice and its adapter.
CreateDevice11 ==
    /\ step = "device"
    /\ step' \in {"backend", "refuse"}
    /\ UNCHANGED <<patched, polled, asks, adapter, processVars, lifeVars, optionVars,
                   reflexVars, feature, vars>>

-----------------------------------------------------------------------------
(* Presenter::Create *)

\* No D3D12 device, or Streamline refuses it; Streamline may have taken it
\* although one of its functions is missing, and nothing here remembers that.
BindFails ==
    /\ bound' \in {bound, asks}
    /\ UNCHANGED backend
    /\ step' = "failed"

\* The device is kept, whatever fails behind it: upgrading it, the queue or
\* the factories.  Only the queue says that nothing did.
Bind ==
    /\ bound' = asks
    /\ \E complete \in BOOLEAN :
        /\ backend' = [device |-> asks, adapter |-> adapter, queue |-> complete]
        /\ step' = IF complete THEN "presenter" ELSE "failed"

Reuse == backend.queue /\ backend.adapter = adapter

EnsureBackend ==
    /\ step = "backend"
    /\ IF backend.device = NoDevice
       THEN BindFails \/ Bind
       ELSE step' = (IF Reuse THEN "presenter" ELSE "failed") /\ UNCHANGED <<bound, backend>>
    /\ UNCHANGED <<patched, polled, asks, adapter, streamline, lifeVars, optionVars,
                   reflexVars, feature, vars>>

\* SetReflexMode(1) of a presenter that has not set any.
FirstReflexMode == reflexMode' = 1 /\ reflex' = 1

\* A member function: what is not assigned has its initialiser's value.
NewPresenter ==
    /\ usable' = TRUE
    /\ wanted' = FALSE /\ optionsSet' = FALSE /\ applied' = FALSE
    /\ indices' = <<>> /\ renderToken' = NoToken
    /\ FirstReflexMode

\* The pieces up to the first that fails, or all and the proxy around them.
CreatePresenter ==
    /\ step = "presenter"
    /\ \E n \in 0 .. Len(Pieces) :
        /\ pieces' = FirstPieces(n)
        /\ window' = IF "swapChain" \in FirstPieces(n) THEN window \cup {"ours"} ELSE window
        /\ IF n = Len(Pieces)
           THEN step' = "none" /\ active' = TRUE /\ NewPresenter
           ELSE /\ step' = "failed"
                /\ UNCHANGED <<active, usable, wanted, optionsSet, applied, indices,
                               renderToken, reflexVars>>
    /\ UNCHANGED <<patched, polled, asks, adapter, processVars, generating, tags, feature,
                   issued, starting, stage, marks, rendered>>

\* Mutant: left to the destructor, which runs behind the original.
DestroyFailed_ByDestructor ==
    /\ step = "failed"
    /\ step' = "refuse"
    /\ UNCHANGED <<patched, polled, asks, adapter, processVars, lifeVars, optionVars,
                   reflexVars, feature, vars>>

DestroyFailed ==
    /\ step = "failed"
    /\ pieces' = {} /\ window' = window \ {"ours"}
    /\ step' = "refuse"
    /\ UNCHANGED <<patched, polled, asks, adapter, processVars, active, usable, optionVars,
                   reflexVars, feature, vars>>

Refuse ==
    /\ step = "refuse"
    /\ Original
    /\ step' = "none"
    /\ UNCHANGED <<patched, polled, asks, adapter, processVars, pieces, active, usable,
                   optionVars, reflexVars, feature, vars>>

\* The game releases a swap chain of its own.
ReleaseOwn ==
    /\ step = "none" /\ "game" \in window
    /\ window' = window \ {"game"}
    /\ UNCHANGED <<callVars, processVars, pieces, active, usable, optionVars, reflexVars,
                   feature, vars>>

-----------------------------------------------------------------------------
(* The presenter's dealings with Streamline *)

\* Streamline may refuse to switch frame generation on; that is only logged.
ApplyOptions(on) ==
    IF optionsSet /\ on = applied
    THEN UNCHANGED <<optionsSet, applied, generating>>
    ELSE /\ optionsSet' = TRUE /\ applied' = on
         /\ generating' \in (IF on THEN {TRUE, generating} ELSE {FALSE})

SetReflexMode(mode) == reflexMode' = mode /\ reflex' = IF mode = reflexMode THEN reflex ELSE mode

\* Tag: this frame's textures, or null for a frame nothing is generated from.
Tag(generate) == tags' = IF renderToken = NoToken THEN tags
                         ELSE IF generate THEN renderToken ELSE NoToken

\* Mutant: the options of a frame without a token stay what they were.
Show_WithToken ==
    /\ ShowStart
    /\ \E inputs \in BOOLEAN :
        LET generate == renderToken # NoToken /\ wanted /\ inputs IN
        /\ IF renderToken # NoToken THEN ApplyOptions(generate)
                                    ELSE UNCHANGED <<optionsSet, applied, generating>>
        /\ Tag(generate)
    /\ UNCHANGED <<callVars, processVars, lifeVars, wanted, reflexVars, feature>>

\* The list is with the queue; options, tags and the marker before the present.
Show ==
    /\ ShowStart
    /\ \E inputs \in BOOLEAN :
        LET generate == renderToken # NoToken /\ wanted /\ inputs
        IN  ApplyOptions(generate) /\ Tag(generate)
    /\ UNCHANGED <<callVars, processVars, lifeVars, wanted, reflexVars, feature>>

Idle == active /\ step = "none" /\ stage = "none"

\* ResizeBuffers to another size or format, or of an unusable presenter.
ResizeBegin ==
    /\ Idle
    /\ ApplyOptions(FALSE)
    /\ step' = "resize"
    /\ UNCHANGED <<patched, polled, asks, adapter, processVars, lifeVars, wanted, tags,
                   reflexVars, feature, vars>>

\* Done; or refused by the swap chain, whose buffers may not come back; or
\* done, and then the buffers or the textures fail.
ResizeEnd ==
    /\ step = "resize"
    /\ \/ pieces' = FirstPieces(Len(Pieces)) /\ usable' = TRUE
       \/ pieces' = pieces \cup {"buffers"} /\ UNCHANGED usable
       \/ pieces' = pieces \ {"buffers"} /\ usable' = FALSE
       \/ pieces' = (pieces \cup {"buffers"}) \ {"textures"} /\ usable' = FALSE
    /\ step' = "none"
    /\ UNCHANGED <<patched, polled, asks, adapter, processVars, active, window, optionVars,
                   reflexVars, feature, vars>>

\* The queue did not drain in time: nothing is touched.
ResizeTimedOut ==
    /\ step = "resize"
    /\ step' = "none"
    /\ UNCHANGED <<patched, polled, asks, adapter, processVars, lifeVars, optionVars,
                   reflexVars, feature, vars>>

Destroy == /\ IF optionsSet THEN ApplyOptions(FALSE) ELSE UNCHANGED <<optionsSet, applied, generating>>
           /\ pieces' = {} /\ usable' = FALSE
           /\ window' = window \ {"ours"}

\* The game releases the last reference to the proxy.
Release ==
    /\ Idle /\ starting = NoToken
    /\ active' = FALSE
    /\ Destroy
    /\ UNCHANGED <<callVars, processVars, wanted, tags, reflexVars, feature, vars>>

-----------------------------------------------------------------------------
(* FrameGeneration, ticked from the proxy's Present *)

Setup ==
    /\ Idle /\ ~feature /\ polled
    /\ feature' = TRUE
    /\ UNCHANGED <<callVars, processVars, lifeVars, optionVars, reflexVars, vars>>

\* Frame: the blocker and the reflex setting of this frame.
FeatureFrame ==
    /\ Idle /\ feature
    /\ wanted' \in BOOLEAN
    /\ \E mode \in {1, 2} : SetReflexMode(mode)
    /\ UNCHANGED <<callVars, processVars, lifeVars, optionsSet, applied, generating, tags,
                   feature, vars>>

Shutdown ==
    /\ Idle /\ feature
    /\ feature' = FALSE
    /\ wanted' = FALSE
    /\ SetReflexMode(1)
    /\ UNCHANGED <<callVars, processVars, lifeVars, optionsSet, applied, generating, tags, vars>>

-----------------------------------------------------------------------------
\* The frame tokens, which only an active presenter has; PollInputDevices
\* reaches it through the simulation hook.
Tokens ==
    /\ active
    /\ \/ polled /\ SimulationStart
       \/ SimulationBegun
       \/ step = "none" /\ OnRenderStart
       \/ step = "none" /\ usable /\ PresentBegin
       \/ step = "none" /\ ~usable /\ PresentRefused
       \/ SubmitEnd
       \/ PresentEnd
    /\ UNCHANGED <<callVars, processVars, lifeVars, optionVars, reflexVars, feature>>

BridgeNext ==
    \/ Ask \/ LoadStreamline \/ CreateDevice11 \/ EnsureBackend
    \/ CreatePresenter \/ DestroyFailed \/ Refuse \/ ReleaseOwn
    \/ Show \/ ResizeBegin \/ ResizeEnd \/ ResizeTimedOut \/ Release
    \/ Setup \/ FeatureFrame \/ Shutdown
    \/ Tokens

BridgeSpec == BridgeInit /\ [][BridgeNext]_bridgeVars

-----------------------------------------------------------------------------
\* DeviceHook.cpp:203: no swap chain is put on the window while another is on
\* it, neither ours nor the game's own: a presenter given up half-way, or
\* released, is off the window before anybody asks for the next.
OneSwapChain == Cardinality(window) <= 1

\* Presenter.cpp:163 and :221: whatever failed in an earlier attempt, a presenter stands
\* on a backend that was finished, on the device Streamline was given last and
\* on the adapter the game's device is on.
BackendIsWhole ==
    pieces # {} => /\ backend.queue
                   /\ backend.device = bound
                   /\ active \/ backend.adapter = adapter

\* What an attempt to start leaves behind is nothing or the whole.
StartIsWhole == OneSwapChain /\ BackendIsWhole

\* Presenter.cpp:732: Streamline generates nothing while the swap chain is
\* resized, nor once it is gone, also for the presenter after the one that
\* switched it on.
OffWhenTouched == step = "resize" \/ ~HasSwapChain => ~generating

\* Presenter.cpp:513: a frame is generated only from what was tagged for it,
\* also when the simulation runs dry of tokens in a loading screen.
GeneratesFromOwnFrame ==
    stage = "PresentStart" /\ generating => renderToken # NoToken /\ tags = renderToken

\* FrameGeneration.cpp:127: boost does not outlive the feature, through
\* whatever presenters it was asked for.
BoostEndsWithFeature == ~feature => reflex # 2

\* What Streamline was told last is what the swap chain, the frame and the
\* feature stand for now.
OptionsFollow == OffWhenTouched /\ GeneratesFromOwnFrame /\ BoostEndsWithFeature
===============================================================================
