---------------------------- MODULE NeuralRenderer ----------------------------
(***************************************************************************)
(* Features/NeuralRendering, Bridge/Native/NeuralRenderer with its         *)
(* NeuralCreationGate, and the calls Presenter makes to them.  The plugin  *)
(* starts the renderer once in the process, which makes its parts one      *)
(* after the other, and tells it every frame what it wants.  An NGX        *)
(* feature is created for a key (size, model, format) on a command list of *)
(* its own, used by the lists of the frames, and given back when D3D12 is  *)
(* past the last frame that used it.  The presenting thread waits up to    *)
(* five seconds for the creation.                                          *)
(*                                                                         *)
(* The picture's way through the slots is in Presenter.  A resize is taken *)
(* to go on only when the queue has run dry, which is what WaitForQueueIdle*)
(* is for; when that fails is a question of Presenter as well.             *)
(***************************************************************************)
EXTENDS Naturals, Sequences, FiniteSets

CONSTANTS
    Keys,           \* what a feature can be created for
    TimeoutPossible,\* whether a creation may take longer than five seconds
    MaxFeature,     \* bound: features NGX creates
    MaxFrame        \* bound: frames and resizes

ASSUME ConstantsAssumption ==
    /\ TimeoutPossible \in BOOLEAN
    /\ MaxFeature \in Nat /\ MaxFrame \in Nat

VARIABLES
    side,         \* NeuralRendering: "off", "on" or "stopping"
    answer,       \* _startResult: "none" before Start, then "up" or "refused"
    made,         \* how many of the parts Start has made
    pc,           \* the presenting thread: "idle", "record", "creating" or "waiting"
    options,      \* _wanted, and the key that size and options amount to
    releaseRequested, \* _releaseRequested
    feature,      \* _feature with its key, or None
    creating,     \* the handle and key EnsureFeature waits for, or None
    retired,      \* _retired
    createValue,  \* _createValue, and the gate's _submitted
    failed,       \* the gate's _failed, or NoKey
    createDone,   \* completed value of the create fence
    registered,   \* values given to SetEventOnCompletion(.., _createEvent)
    signaled,     \* _createEvent, reset by the wait it ends
    releaseValue, \* Presenter's _release.value
    releaseDone,  \* completed value of the release fence
    queue,        \* D3D12 commands
    issued,       \* handles NGX has given out
    released,     \* history: handles given back to NGX
    failures,     \* history: creations failed for each key since it was chosen
    late          \* history: a creation took longer than it was waited for

gateVars   == <<createValue, failed>>
createVars == <<createDone, registered, signaled>>
sideVars   == <<side, answer, made>>
vars == <<sideVars, pc, options, releaseRequested, feature, creating, retired, gateVars, createVars,
          releaseValue, releaseDone, queue, issued, released, failures, late>>

None     == [handle |-> 0]
NoKey    == "none"
Handles  == 1 .. MaxFeature
NoFailures == [k \in Keys |-> 0]
Infinity == MaxFrame + 1   \* UINT64_MAX: no release value gets there

Create(h)      == [op |-> "create", handle |-> h]
Frame(h)       == [op |-> "frame", handle |-> h]
Signal(f, v)   == [op |-> "signal", fence |-> f, value |-> v]

Init ==
    /\ side = "off" /\ answer = "none" /\ made = 0
    /\ pc = "idle"
    /\ options \in [wanted : {FALSE}, key : Keys]
    /\ releaseRequested = FALSE
    /\ feature = None /\ creating = None /\ retired = {}
    /\ createValue = 0 /\ failed = NoKey
    /\ createDone = 0 /\ registered = {} /\ signaled = FALSE
    /\ releaseValue = 0 /\ releaseDone = 0
    /\ queue = <<>>
    /\ issued = 0 /\ released = {} /\ failures = NoFailures /\ late = FALSE

-----------------------------------------------------------------------------
(* The feature's side, at any time *)

Quiet == <<pc, feature, creating, retired, gateVars, createVars,
           releaseValue, releaseDone, queue, issued, released, late>>

\* What Start makes, in this order: NGX, its parameters and its word that
\* the GPU will do; the root signature, serialised and made, the pipeline and
\* its descriptors; the list for creations, its event and the timestamps.
kNgx      == 3
kPipeline == 4
kParts    == kNgx + kPipeline + 3

StartResult(n) == IF n = kParts THEN "up" ELSE "refused"

\* A second call returns the first answer.
Start == IF answer # "none" THEN UNCHANGED <<answer, made>>
         ELSE \E n \in 0 .. kParts : made' = n /\ answer' = StartResult(n)

Started == answer = "up"

\* The bridge, the hooks and the composite's shader are there, and so is the
\* capture.
Setup ==
    /\ side = "off"
    /\ Start /\ answer' = "up"
    /\ side' = "on"
    /\ UNCHANGED <<options, releaseRequested, failures>> /\ UNCHANGED Quiet

\* One of them is missing, or Start refuses; a Shutdown follows.
SetupRefused ==
    /\ side = "off"
    /\ UNCHANGED <<answer, made>> \/ Start
    /\ side' = "stopping"
    /\ options' = [options EXCEPT !.wanted = FALSE]
    /\ UNCHANGED <<releaseRequested, failures>> /\ UNCHANGED Quiet

\* The feature's Frame; the key is what the picture's size and the model
\* amount to.
SetOptions ==
    /\ side = "on"
    /\ options' \in [wanted : BOOLEAN, key : Keys] \ {options}
    /\ failures' = IF options'.key # options.key THEN NoFailures ELSE failures
    /\ UNCHANGED <<sideVars, releaseRequested>> /\ UNCHANGED Quiet

\* Mutant: the release is asked for while frames still want the picture.
Shutdown_StillWanted ==
    /\ side = "on"
    /\ side' = "stopping"
    /\ UNCHANGED <<answer, made, options, releaseRequested, failures>> /\ UNCHANGED Quiet

\* Shutdown, StopNeuralRendering: no more frames first, then the release.
Shutdown ==
    /\ side = "on"
    /\ side' = "stopping"
    /\ options' = [options EXCEPT !.wanted = FALSE]
    /\ UNCHANGED <<answer, made, releaseRequested, failures>> /\ UNCHANGED Quiet

RequestRelease ==
    /\ side = "stopping"
    /\ side' = "off"
    /\ releaseRequested' = TRUE
    /\ UNCHANGED <<answer, made, options, failures>> /\ UNCHANGED Quiet

-----------------------------------------------------------------------------
(* NeuralCreationGate and the retirement of features *)

\* Mutant: the gate does not remember what failed.
MayCreate_Forgetful(key) == createDone >= createValue

MayCreate(key) == createDone >= createValue /\ failed # key

Fail(key) == failed' = key /\ failures' = [failures EXCEPT ![key] = @ + 1]

\* The feature in use, to be freed when the release fence gets to v.
Retiring(v) == IF feature = None THEN {}
               ELSE {[value |-> v, handle |-> feature.handle]}

Collectable(v) == {r \in retired : r.value <= v}

HandlesOf(rs) == {r.handle : r \in rs}

-----------------------------------------------------------------------------
(* Present *)

\* Mutant: a feature retired on request stays in use as well.
PresentBegin_KeepsFeature ==
    /\ pc = "idle" /\ releaseValue < MaxFrame
    /\ pc' = "record"
    /\ released' = released \cup HandlesOf(Collectable(releaseDone))
    /\ retired' = (retired \ Collectable(releaseDone))
                  \cup (IF releaseRequested THEN Retiring(releaseValue + 1) ELSE {})
    /\ releaseRequested' = FALSE
    /\ UNCHANGED <<sideVars, options, feature, creating, gateVars, createVars, releaseValue, releaseDone,
                   queue, issued, failures, late>>

\* Collect, and the release request.
PresentBegin ==
    /\ pc = "idle" /\ releaseValue < MaxFrame
    /\ pc' = "record"
    /\ released' = released \cup HandlesOf(Collectable(releaseDone))
    /\ retired' = (retired \ Collectable(releaseDone))
                  \cup (IF releaseRequested THEN Retiring(releaseValue + 1) ELSE {})
    /\ feature' = IF releaseRequested THEN None ELSE feature
    /\ releaseRequested' = FALSE
    /\ UNCHANGED <<sideVars, options, creating, gateVars, createVars, releaseValue, releaseDone,
                   queue, issued, failures, late>>

\* The frame's list is executed, with the feature or without, and the
\* release fence signalled behind it.
Submit(h) ==
    /\ pc' = "idle"
    /\ releaseValue' = releaseValue + 1
    /\ queue' = queue \o <<Frame(h), Signal("release", releaseValue + 1)>>

Wanted == options.wanted /\ Started

HasFeature == feature # None /\ feature.key = options.key

\* NR not wanted, no inputs of this frame's own, or the gate says no.
RecordNothing ==
    /\ pc = "record"
    /\ Submit(None.handle)
    /\ UNCHANGED <<sideVars, options, releaseRequested, feature, creating, retired, gateVars, createVars,
                   releaseDone, issued, released, failures, late>>

RecordWith ==
    /\ pc = "record" /\ Wanted /\ HasFeature
    /\ Submit(feature.handle)
    /\ UNCHANGED <<sideVars, options, releaseRequested, feature, creating, retired, gateVars, createVars,
                   releaseDone, issued, released, failures, late>>

\* What EnsureFeature does before it creates anything.
MakeWay == /\ pc = "record" /\ Wanted /\ ~HasFeature /\ MayCreate(options.key)
           /\ retired' = retired \cup Retiring(releaseValue + 1)
           /\ feature' = None

TexturesFail ==
    /\ MakeWay
    /\ Fail(options.key)
    /\ Submit(None.handle)
    /\ UNCHANGED <<sideVars, options, releaseRequested, creating, createValue, createVars,
                   releaseDone, issued, released, late>>

\* NGX records the creation, with a handle or an error; the list goes to the queue.
BeginCreate ==
    /\ MakeWay
    /\ \E h \in {0, issued + 1} :
        /\ h <= MaxFeature
        /\ issued' = IF h = 0 THEN issued ELSE h
        /\ creating' = [handle |-> h, key |-> options.key]
        /\ queue' = queue \o <<Create(h), Signal("create", createValue + 1)>>
    /\ createValue' = createValue + 1
    /\ pc' = "creating"
    /\ UNCHANGED <<sideVars, options, releaseRequested, failed, createVars,
                   releaseValue, releaseDone, released, failures, late>>

\* The fence is not there yet: five seconds from here.
CreateWait ==
    /\ pc = "creating" /\ createDone < createValue
    /\ pc' = "waiting"
    /\ registered' = registered \cup {createValue}
    /\ UNCHANGED <<sideVars, options, releaseRequested, feature, creating, retired, gateVars, createDone,
                   signaled, releaseValue, releaseDone, queue, issued, released, failures, late>>

\* The fence was there already, or the wait ends, by whatever set the event.
Created == \/ pc = "creating" /\ createDone >= createValue /\ UNCHANGED signaled
           \/ pc = "waiting" /\ signaled /\ signaled' = FALSE

CreateEnd ==
    /\ Created
    /\ creating' = None
    /\ IF creating.handle = 0
       THEN Fail(creating.key) /\ UNCHANGED feature
       ELSE failed' = NoKey /\ feature' = creating /\ UNCHANGED failures
    /\ Submit(creating.handle)
    /\ UNCHANGED <<sideVars, options, releaseRequested, retired, createValue, createDone, registered,
                   releaseDone, issued, released, late>>

\* A handle that came too late is given back when the size changes next.
Late == {[value |-> Infinity, handle |-> h] : h \in {creating.handle} \ {0}}

CreateTimedOut ==
    /\ pc = "waiting" /\ TimeoutPossible /\ ~signaled
    /\ creating' = None
    /\ late' = TRUE
    /\ retired' = retired \cup Late
    /\ Fail(creating.key)
    /\ Submit(None.handle)
    /\ UNCHANGED <<sideVars, options, releaseRequested, feature, createValue, createVars,
                   releaseDone, issued, released>>

-----------------------------------------------------------------------------
\* ResizeBuffers on a queue that has run dry: everything goes, and whatever
\* failed may be tried again.
Resize ==
    /\ pc = "idle" /\ queue = <<>> /\ releaseValue < MaxFrame
    /\ releaseValue' = releaseValue + 1
    /\ releaseDone' = releaseValue + 1
    /\ released' = released \cup HandlesOf(retired \cup Retiring(0))
    /\ retired' = {} /\ feature' = None
    /\ failed' = NoKey /\ failures' = NoFailures
    /\ \E k \in Keys : options' = [options EXCEPT !.key = k]
    /\ UNCHANGED <<sideVars, pc, releaseRequested, creating, createValue, createVars, queue, issued, late>>

\* The create fence reaches v: the registrations up to v set the event.
Reach(v) == /\ createDone' = v
            /\ registered' = {r \in registered : r > v}
            /\ signaled' = (signaled \/ \E r \in registered : r <= v)

D3D12 ==
    /\ queue # <<>>
    /\ queue' = Tail(queue)
    /\ LET c == Head(queue) IN
       \/ c.op \in {"create", "frame"} /\ UNCHANGED <<createVars, releaseDone>>
       \/ c.op = "signal" /\ c.fence = "create" /\ Reach(c.value) /\ UNCHANGED releaseDone
       \/ c.op = "signal" /\ c.fence = "release" /\ releaseDone' = c.value
                         /\ UNCHANGED createVars
    /\ UNCHANGED <<sideVars, pc, options, releaseRequested, feature, creating, retired, gateVars,
                   releaseValue, issued, released, failures, late>>

Next ==
    \/ Setup \/ SetupRefused \/ SetOptions \/ Shutdown \/ RequestRelease
    \/ PresentBegin \/ RecordNothing \/ RecordWith \/ TexturesFail
    \/ BeginCreate \/ CreateWait \/ CreateEnd \/ CreateTimedOut
    \/ Resize \/ D3D12

Spec == Init /\ [][Next]_vars

-----------------------------------------------------------------------------
Feature == [handle : Handles, key : Keys]

\* Every variable has its type.
TypeOK ==
    /\ side \in {"off", "on", "stopping"} /\ made \in 0 .. kParts
    /\ answer \in {"none", "up", "refused"}
    /\ pc \in {"idle", "record", "creating", "waiting"}
    /\ options \in [wanted : BOOLEAN, key : Keys] /\ releaseRequested \in BOOLEAN
    /\ feature \in Feature \cup {None}
    /\ creating \in [handle : Handles \cup {0}, key : Keys] \cup {None}
    /\ retired \subseteq [value : 0 .. Infinity, handle : Handles]
    /\ createValue \in Nat /\ failed \in Keys \cup {NoKey}
    /\ createDone \in 0 .. createValue /\ registered \subseteq 1 .. createValue
    /\ signaled \in BOOLEAN
    /\ releaseValue \in 0 .. MaxFrame /\ releaseDone \in 0 .. releaseValue
    /\ issued \in 0 .. MaxFeature /\ released \subseteq Handles
    /\ failures \in [Keys -> Nat] /\ late \in BOOLEAN

\* NeuralRenderer.h:68: no command the GPU has yet to work off uses a feature
\* given back to NGX, whether it was replaced, released, timed out or swept
\* by a resize.
NoFreeInUse == \A i \in DOMAIN queue :
                   queue[i].op \in {"create", "frame"} => queue[i].handle \notin released

\* Every handle NGX gave out is in one place: in use, under creation, waiting
\* to be freed once, or freed.  None is lost and none is freed twice.
EveryHandleOnce ==
    \A h \in 1 .. issued :
        Cardinality({r \in retired : r.handle = h})
        + Cardinality({x \in {"use"} : feature.handle = h})
        + Cardinality({x \in {"new"} : creating.handle = h})
        + Cardinality({x \in {"freed"} : h \in released}) = 1

\* NeuralCreation.h:21: the allocator of the create list is reset only when no
\* create list is under way, a timed out one included.
CreateAllocatorIdle == Cardinality({i \in DOMAIN queue : queue[i].op = "create"}) <= 1

\* NeuralRenderer.h:123, "feature creation runs on a list of its own, fenced
\* before first use": when a frame's list uses a feature, creating it is done.
\* Once a creation has timed out that holds no longer: its registration stays
\* on _createEvent and ends the next creation's wait.
FencedBeforeUse ==
    late \/ \A i, j \in DOMAIN queue :
        queue[i].op = "frame" /\ queue[i].handle # 0 /\ queue[j].op = "create"
            => queue[i].handle # queue[j].handle

\* NeuralCreation.h:20: a creation that failed, in whatever way, is not tried
\* again until size or options change, late answers and timeouts included.
FailedNotRetried == \A k \in Keys : failures[k] <= 1

\* A feature outlives every command that names it, and no longer.
FeaturesAreAlive == NoFreeInUse /\ EveryHandleOnce

\* Creations are one at a time, done before they are used, and not repeated
\* when they failed.
CreationIsFenced == FencedBeforeUse /\ CreateAllocatorIdle /\ FailedNotRetried

\* NeuralRenderer.h:76: an NGX feature exists only while the plugin's own
\* feature is on or the release it left behind is still to be taken, however
\* Shutdown and a present interleave; and only over a renderer of which every
\* part could be made.
LivesWithFeature ==
    feature # None \/ creating # None =>
        /\ side # "off" \/ releaseRequested
        /\ made = kParts
=============================================================================
