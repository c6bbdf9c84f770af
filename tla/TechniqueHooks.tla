---------------------------- MODULE TechniqueHooks ----------------------------
(***************************************************************************)
(* The patches on slot 02, SetupTechnique, of the engine's shader classes: *)
(* Render/FramePhase and Render/TechniqueTracker patch at kGameDataReady   *)
(* and stay, Features/FrameTrace patches when it is first switched on and  *)
(* stays, Features/ShaderCensus patches while it counts.  Each thunk calls *)
(* what it found in the slot, so the patches of one class form a chain     *)
(* with the engine's own function at its end.                              *)
(*                                                                         *)
(* A patch is <<who, class>>.  The three classes here are those FramePhase *)
(* anchors at; the other ten have a tracker, a census and a trace only.    *)
(* Present, with the features' tick in it, runs on the thread that calls   *)
(* SetupTechnique, so a tick never meets a call; kGameDataReady comes on a *)
(* thread of its own.                                                      *)
(***************************************************************************)
EXTENDS Naturals, Sequences, FiniteSets

CONSTANTS
    RenderingAtStartup, \* whether the engine calls SetupTechnique before
                        \* kGameDataReady has been handled
    ProtectFails,       \* whether VirtualProtect may fail
    MaxSwitch,          \* bound: switches of features
    kMaxRecords,        \* the calls a recorder has room for
    MaxDue              \* bound: calls of a frame that the trace has to record

ASSUME HooksAssumption ==
    /\ RenderingAtStartup \in BOOLEAN /\ ProtectFails \in BOOLEAN
    /\ MaxSwitch \in Nat /\ kMaxRecords \in Nat /\ MaxDue \in Nat

Classes   == {"composite", "effect", "sky"}
Anchors   == <<  <<"kBeforeComposite", "composite">>, <<"kAfterOpaque", "effect">>,
                 <<"kComposite", "composite">>, <<"kSkyMarker", "sky">> >>
Trackers  == << <<"tracker", "composite">>, <<"tracker", "effect">>, <<"tracker", "sky">> >>
Residents == Anchors \o Trackers
Patches   == {Residents[i] : i \in DOMAIN Residents} \cup ({"census", "trace"} \X Classes)
Phases    == {Anchors[i][1] : i \in DOMAIN Anchors}

\* The technique kComposite waits for, and any other.
Techniques(class) == IF class = "composite" THEN {"0x40", "other"} ELSE {"other"}

NoCall == [class |-> "none", technique |-> "none", at |-> "none", context |-> FALSE]

VARIABLES
    known,       \* the classes whose vtable id names what it promises
    slot,        \* what the vtable entry of each class points at
    original,    \* Anchor::original and the g_original arrays
    m_original,  \* what each VTablePatch remembers, "null" if not Installed()
    startup,     \* the resident whose turn it is, one past the last when done
    noting,      \* its slot is written, its original not yet noted
    wanted,      \* the features switched on
    state,       \* their state in the registry
    g_installed, \* FrameTrace's
    call,        \* the SetupTechnique call under way, the function it is in, and
                 \*   whether the renderer has a context to ask meanwhile
    seen,        \* the phases whose dispatcher has DispatchedOn this frame
    called,      \* history: the calls the engine began in this frame
    due,         \* history: those of a class the trace watches, with a context to
                 \*   ask, in the order they came
    pressed,     \* TheLatch()._pending of FrameTrace
    g_armed,     \* FrameTrace's
    g_recording, \* FrameTrace's
    records,     \* the calls in g_recorder, each with references of its own
    overflow,    \* the calls g_recorder had no room for
    switches

hookVars    == <<known, slot, original, m_original>>
startVars   == <<startup, noting>>
featureVars == <<wanted, state, g_installed, switches>>
callVars    == <<call, seen, called, due>>
traceVars   == <<pressed, g_armed, g_recording, records, overflow>>
techniqueVars == <<hookVars, startVars, featureVars, callVars, traceVars>>

Features == {"census", "trace"}
Started  == startup > Len(Residents)

HooksInit ==
    /\ known \in SUBSET Classes
    /\ slot = [c \in Classes |-> "engine"]
    /\ original = [p \in Patches |-> "null"]
    /\ m_original = [p \in Patches |-> "null"]
    /\ startup = 1 /\ noting = FALSE
    /\ wanted \in SUBSET Features
    /\ state = [f \in Features |-> "off"] /\ g_installed = FALSE
    /\ call = NoCall /\ seen = {} /\ called = {} /\ due = <<>>
    /\ pressed = FALSE /\ g_armed = FALSE /\ g_recording = FALSE
    /\ records = <<>> /\ overflow = 0
    /\ switches = 0

-----------------------------------------------------------------------------
(* VTablePatch, on the classes a feature patches or restores at once.      *)
(* VirtualProtect may fail before the write or after it; either way the    *)
(* patch stays as it was.                                                  *)

Outcomes == IF ProtectFails THEN {"done", "refused", "torn"} ELSE {"done"}

Done(outcome)    == {c \in DOMAIN outcome : outcome[c] = "done"}
Written(outcome) == {c \in DOMAIN outcome : outcome[c] # "refused"}

InstallAtTable(who, outcome) ==
    /\ slot' = [c \in Classes |-> IF c \in Written(outcome) THEN who ELSE slot[c]]
    /\ m_original' = [p \in Patches |-> IF p[1] = who /\ p[2] \in Done(outcome)
                                        THEN slot[p[2]] ELSE m_original[p]]

\* Mutant: the entry goes back to the engine's own function.
Restore_ToEngine(who, outcome) ==
    /\ slot' = [c \in Classes |-> IF c \in Written(outcome) THEN "engine" ELSE slot[c]]
    /\ m_original' = [p \in Patches |-> IF p[1] = who /\ p[2] \in Done(outcome)
                                        THEN "null" ELSE m_original[p]]

Restore(who, outcome) ==
    /\ slot' = [c \in Classes |-> IF c \in Written(outcome)
                                  THEN m_original[<<who, c>>] ELSE slot[c]]
    /\ m_original' = [p \in Patches |-> IF p[1] = who /\ p[2] \in Done(outcome)
                                        THEN "null" ELSE m_original[p]]

Installed(who) == {c \in Classes : <<who, c>> \in Patches /\ m_original[<<who, c>>] # "null"}

-----------------------------------------------------------------------------
(* kGameDataReady: InstallFramePhase, then InstallTechniqueTracker *)

Resident == Residents[startup]

\* The id names another table than it promised: it is left alone.
LeftAlone ==
    /\ ~Started /\ ~noting /\ Resident[2] \notin known
    /\ startup' = startup + 1
    /\ UNCHANGED <<hookVars, noting, featureVars, callVars, traceVars>>

\* The slot is live from here on, the thunk does not know its original yet.
PatchResident ==
    /\ ~Started /\ ~noting /\ Resident[2] \in known
    /\ \E outcome \in [{Resident[2]} -> Outcomes] :
        /\ InstallAtTable(Resident[1], outcome)
        /\ noting' = (Done(outcome) # {})
        /\ startup' = IF noting' THEN startup ELSE startup + 1
    /\ UNCHANGED <<known, original, featureVars, callVars, traceVars>>

NoteOriginal ==
    /\ noting
    /\ original' = [original EXCEPT ![Resident] = m_original[Resident]]
    /\ noting' = FALSE
    /\ startup' = startup + 1
    /\ UNCHANGED <<known, slot, m_original, featureVars, callVars, traceVars>>

-----------------------------------------------------------------------------
(* The features, ticked from Present *)

Ticking == Started /\ call = NoCall

\* A settings change, and the refusals it clears.
Switch ==
    /\ Ticking /\ switches < MaxSwitch
    /\ switches' = switches + 1
    /\ wanted' \in SUBSET Features
    /\ state' = [f \in Features |-> IF state[f] = "refused" THEN "off" ELSE state[f]]
    /\ UNCHANGED <<hookVars, startVars, g_installed, callVars, traceVars>>

\* Teardown goes first, and of the two the trace is set up first.
TornDown == \A f \in Features : state[f] = "running" => f \in wanted

\* Setup notes what each patch it has just installed found.
Noted(who) == [p \in Patches |-> IF p[1] = who /\ m_original'[p] # m_original[p]
                                 THEN m_original'[p] ELSE original[p]]

\* Mutant: the trace does not ask after the census.
TraceSetup_NoQuestion ==
    /\ Ticking /\ state["trace"] = "off" /\ "trace" \in wanted /\ ~g_installed
    /\ \E outcome \in [known -> Outcomes] :
        /\ InstallAtTable("trace", outcome)
        /\ g_installed' = (Done(outcome) # {})
        /\ state' = [state EXCEPT !["trace"] = IF g_installed' THEN "running" ELSE "refused"]
    /\ original' = Noted("trace")
    /\ UNCHANGED <<known, startVars, wanted, switches, callVars, traceVars>>

\* With the patches in place the hotkey table may still be full.
TraceSetup ==
    /\ Ticking /\ TornDown /\ state["trace"] = "off" /\ "trace" \in wanted
    /\ IF "census" \in wanted
       THEN state' = [state EXCEPT !["trace"] = "refused"] /\ UNCHANGED <<hookVars, g_installed>>
       ELSE IF g_installed
       THEN /\ \E s \in {"running", "refused"} : state' = [state EXCEPT !["trace"] = s]
            /\ UNCHANGED <<hookVars, g_installed>>
       ELSE /\ \E outcome \in [known -> Outcomes], s \in {"running", "refused"} :
                /\ InstallAtTable("trace", outcome)
                /\ g_installed' = (Done(outcome) # {})
                /\ state' = [state EXCEPT !["trace"] = IF g_installed' THEN s ELSE "refused"]
            /\ original' = Noted("trace")
            /\ UNCHANGED known
    /\ UNCHANGED <<startVars, wanted, switches, callVars, traceVars>>

\* Mutant: what had no room in the last frame recorded is still counted.
Clear_KeepsOverflow == records' = <<>> /\ UNCHANGED overflow

\* Recorder::Clear.  Whoever calls it has given the references back.
Clear == records' = <<>> /\ overflow' = 0

\* The patches stay; a recording in flight is dropped.
TraceShutdown ==
    /\ Ticking /\ state["trace"] = "running" /\ "trace" \notin wanted
    /\ state' = [state EXCEPT !["trace"] = "off"]
    /\ g_armed' = FALSE /\ g_recording' = FALSE
    /\ IF g_recording THEN Clear ELSE UNCHANGED <<records, overflow>>
    /\ UNCHANGED <<hookVars, startVars, wanted, g_installed, switches, callVars, pressed>>

\* The window thread, while the latch is in the hotkey table.
TraceKey ==
    /\ state["trace"] = "running" /\ ~pressed
    /\ pressed' = TRUE
    /\ UNCHANGED <<hookVars, startVars, featureVars, callVars, g_armed, g_recording, records,
                   overflow>>

\* Frame: the frame recorded is written, its records named, their references
\* given back; otherwise the next one is recorded if the key asked for it.
TraceFrame ==
    /\ pressed' = FALSE
    /\ IF g_recording
       THEN Clear /\ g_recording' = FALSE /\ g_armed' = (g_armed \/ pressed)
       ELSE /\ g_recording' = (g_armed \/ pressed) /\ g_armed' = FALSE
            /\ IF g_recording' THEN Clear ELSE UNCHANGED <<records, overflow>>

\* A class still patched counts as one that could not be patched.
CensusSetup ==
    /\ Ticking /\ TornDown /\ state["census"] = "off" /\ "census" \in wanted
    /\ "trace" \in wanted => state["trace"] # "off"
    /\ \E outcome \in [known \ Installed("census") -> Outcomes] :
        /\ InstallAtTable("census", outcome)
        /\ state' = [state EXCEPT !["census"] = IF Done(outcome) # {} THEN "running" ELSE "refused"]
    /\ original' = Noted("census")
    /\ UNCHANGED <<known, startVars, wanted, g_installed, switches, callVars, traceVars>>

\* Frame: a class has settled, or nobody has patience left.
CensusReports(c) ==
    /\ Ticking /\ TornDown /\ state["census"] = "running" /\ c \in Installed("census")
    /\ \E outcome \in [{c} -> Outcomes] : Restore("census", outcome)
    /\ UNCHANGED <<known, original, startVars, featureVars, callVars, traceVars>>

\* RemoveHooks.
CensusShutdown ==
    /\ Ticking /\ state["census"] = "running" /\ "census" \notin wanted
    /\ \E outcome \in [Installed("census") -> Outcomes] : Restore("census", outcome)
    /\ state' = [state EXCEPT !["census"] = "off"]
    /\ UNCHANGED <<known, original, startVars, wanted, g_installed, switches, callVars, traceVars>>

-----------------------------------------------------------------------------
(* SetupTechnique *)

\* The classes whose patch of the trace's is in place.
Watches(class) == original[<<"trace", class>>] # "null"

CallBegin ==
    /\ call = NoCall /\ (Started \/ RenderingAtStartup) /\ Len(due) < MaxDue
    /\ \E c \in Classes, context \in BOOLEAN : \E t \in Techniques(c) :
        /\ call' = [class |-> c, technique |-> t, at |-> slot[c], context |-> context]
        /\ called' = called \cup {<<c, t>>}
        /\ due' = IF Watches(c) /\ context THEN Append(due, <<c, t>>) ELSE due
    /\ UNCHANGED <<hookVars, startVars, featureVars, seen, traceVars>>

\* FramePhase's thunk: the technique, then the gate.
Dispatches(phase) == /\ phase = "kComposite" => call.technique = "0x40"
                     /\ phase = "kAfterOpaque" => "kSkyMarker" \in seen

\* Recorder::Push.  What it refuses gives its references back at once.
Push(record) ==
    IF Len(records) < kMaxRecords
    THEN records' = Append(records, record) /\ UNCHANGED overflow
    ELSE overflow' = overflow + 1 /\ UNCHANGED records

\* The trace's thunk: Capture, which asks the renderer's context.
Captured ==
    IF call.at = "trace" /\ g_recording /\ call.context
    THEN Push(<<call.class, call.technique>>)
    ELSE UNCHANGED <<records, overflow>>

\* Every thunk goes on to its original; FramePhase's dispatches before, the
\* trace's records.
Thunk ==
    /\ call.at \notin {"engine", "none", "null"}
    /\ Captured
    /\ seen' = seen \cup {phase \in {call.at} \cap Phases : Dispatches(phase)}
    /\ call' = [call EXCEPT !.at = original[<<call.at, call.class>>]]
    /\ UNCHANGED <<hookVars, startVars, featureVars, called, due, pressed, g_armed, g_recording>>

\* The engine's own function sets the technique up, and draws follow.
Engine ==
    /\ call.at = "engine"
    /\ call' = NoCall
    /\ UNCHANGED <<hookVars, startVars, featureVars, seen, called, due, traceVars>>

\* A frame ends: FrameTrace's Frame in the tick, and the counter the phases go
\* by moves on.
FrameEnds ==
    /\ call = NoCall
    /\ seen' = {} /\ called' = {} /\ due' = <<>>
    /\ IF state["trace"] = "running" THEN TraceFrame ELSE UNCHANGED traceVars
    /\ UNCHANGED <<hookVars, startVars, featureVars, call>>

HooksNext ==
    \/ LeftAlone \/ PatchResident \/ NoteOriginal
    \/ Switch \/ TraceSetup \/ TraceShutdown \/ TraceKey \/ CensusSetup \/ CensusShutdown
    \/ \E c \in Classes : CensusReports(c)
    \/ CallBegin \/ Thunk \/ Engine \/ FrameEnds

HooksSpec == HooksInit /\ [][HooksNext]_techniqueVars

-----------------------------------------------------------------------------
Whos == {p[1] : p \in Patches}

\* FramePhase.h:14: a call that is not the moment "passes straight through".
\* No call goes through a thunk that does not know what it covers.
CallsReachSomething == call.at # "null"

\* What a call that has got to f in class c still runs through, f included.
Chain(c, f) ==
    LET reach[n \in 0 .. Cardinality(Whos)] ==
            IF n = 0 THEN {f}
            ELSE LET above == reach[n - 1]
                 IN above \cup {original[<<g, c>>] : g \in above \ {"engine", "null"}}
    IN reach[Cardinality(Whos)]

\* FramePhase.h:59, TechniqueTracker.h:28, FrameTrace.cpp:250: a patch that is
\* there for good is never overwritten by a census that puts back what it
\* found: it is part of the chain for as long as the process lives.
StayersStay ==
    ~noting => \A p \in Patches : p[1] # "census" /\ original[p] # "null"
                                  => p[1] \in Chain(p[2], slot[p[2]])

\* A census that is off has left the engine as it was found.
CensusLeaves ==
    Started /\ state["census"] # "running"
        => \A c \in Classes : "census" \notin Chain(c, slot[c])

Is(phase) == \E p \in Patches : p[1] = phase /\ original[p] # "null"

\* Phase: a phase has fired by the time the call it waits for gets to the
\* engine: kBeforeComposite with the first composite call of the frame,
\* kComposite before technique 0x40, kAfterOpaque with the first effect after
\* the sky.
PhasesPrecedeDraw ==
    Started /\ call.at = "engine" =>
        /\ call.class = "composite" /\ Is("kBeforeComposite") => "kBeforeComposite" \in seen
        /\ call.technique = "0x40" /\ Is("kComposite") => "kComposite" \in seen
        /\ call.class = "effect" /\ "kSkyMarker" \in seen /\ Is("kAfterOpaque")
            => "kAfterOpaque" \in seen

\* Phase: kAfterOpaque fires after the first sky call of the frame and
\* kComposite for technique 0x40 only: not one call too early.
PhasesWait ==
    /\ "kAfterOpaque" \in seen => <<"sky", "other">> \in called /\ <<"effect", "other">> \in called
    /\ "kComposite" \in seen => <<"composite", "0x40">> \in called

\* The first n calls due are in the recorder, as far as it has room for them,
\* and those it has no room for are counted.
Recorded(n) ==
    /\ Len(records) = IF n < kMaxRecords THEN n ELSE kMaxRecords
    /\ \A i \in 1 .. Len(records) : records[i] = due[i]
    /\ overflow = n - Len(records)

\* FrameTrace.h:25: what is recorded is one whole frame, from Present to Present.
\* FrameTraceLog.h:37: the recorder takes calls until it is full and counts the
\* rest.  The two together: between any two calls a recording holds, in their
\* order, the calls of this frame to the classes the trace watches, from the
\* first on, leaves out only those that came when it was full, and counts each
\* of these and no other, so that the report's "more not recorded" is right.
\* (A call that came while the renderer had no context is in neither.)  When no
\* frame is recorded it holds nothing, and so no reference to the engine's
\* views: however it is switched, whatever the census patches over it, whenever
\* the key is pressed.
TraceIsOneFrame ==
    /\ ~g_recording => records = <<>>
    /\ g_recording /\ call = NoCall => Recorded(Len(due))

\* The patches of five owners stand together: none is lost, none is left over,
\* none leads nowhere.
PatchesStand == CallsReachSomething /\ StayersStay /\ CensusLeaves

\* A phase fires neither late nor early.
PhasesOnTime == PhasesPrecedeDraw /\ PhasesWait
=============================================================================
