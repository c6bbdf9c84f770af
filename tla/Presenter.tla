------------------------------ MODULE Presenter ------------------------------
(***************************************************************************)
(* Bridge/Native/Presenter and Bridge/SlotRing: the game renders with      *)
(* D3D11, the pictures are shown through a D3D12 swap chain.  Three agents *)
(* run side by side: the presenting thread, which only records commands,   *)
(* and the queues of the two GPUs' runtimes, which work them off.  They    *)
(* meet in a ring of shared texture slots and two fences: D3D11 signals    *)
(* "ready" when a frame is in its slot, D3D12 signals "release" when it is *)
(* done with one.                                                          *)
(*                                                                         *)
(* A picture is named by the number of the frame it was rendered for, a    *)
(* slot by its index.  Whether the user wants frame generation or NR is    *)
(* left open: the inputs are taken to be read whenever the code lets them  *)
(* be read.  Tokens are in FrameTokens, NR's resources in NeuralRenderer.  *)
(***************************************************************************)
EXTENDS Naturals, Sequences

CONSTANTS
    kSlots,         \* SlotRing::kSlots, 3 in the code
    MaxFrame,       \* bound: frames rendered
    MaxResize       \* bound: resizes begun

ASSUME ConstantsAssumption ==
    /\ kSlots \in Nat \ {0}
    /\ MaxFrame \in Nat \ {0} /\ MaxResize \in Nat

VARIABLES
    pc,           \* the presenting thread: "render", "blocked", "submit", "drain",
                  \*   "draining", or "undefined" once it freed what D3D12 still uses
    frame,        \* the frame the game is rendering
    usable,       \* _usable
    current,      \* _ring._current
    release,      \* _ring._release
    waitedFor,    \* _waitedFor
    inputs,       \* _inputsThisFrame
    hudless,      \* _hudlessThisFrame
    readyValue,   \* _ready.value
    releaseValue, \* _release.value
    readyDone,    \* completed value of the ready fence
    releaseDone,  \* completed value of the release fence
    registered,   \* values given to SetEventOnCompletion(.., _event) and not reached
    signaled,     \* _event, reset by the wait it ends
    recorded,     \* D3D11 commands not flushed
    queue11,      \* D3D11 commands flushed
    queue12,      \* D3D12 commands
    slots,        \* what the shared textures hold
    shown,        \* history: the pictures shown
    resizes,      \* history: resizes begun
    late,         \* history: a drain timed out
    hurried       \* history: this wait found the event of an earlier one left behind

ringVars  == <<current, release, waitedFor>>
flagVars  == <<inputs, hudless>>
fenceVars == <<readyDone, releaseDone>>
eventVars == <<registered, signaled>>
pastVars  == <<resizes, late, hurried>>
gpuVars   == <<fenceVars, slots, shown>>
vars == <<pc, frame, usable, ringVars, flagVars, readyValue, releaseValue, gpuVars,
          eventVars, recorded, queue11, queue12, pastVars>>

Slots  == 0 .. kSlots - 1
Gone   == kSlots           \* a texture that is in no slot any more
Frames == 1 .. MaxFrame
None   == 0
Parts  == {"final", "hudless", "inputs"}
Blank  == [p \in Parts |-> None]

\* Commands.  "frame" is the D3D12 list that copies a slot's picture to the
\* back buffer, and the Present after it that reads the other textures.
Wait(v)         == [op |-> "wait", value |-> v]
Signal(v)       == [op |-> "signal", value |-> v]
Write(s, p)     == [op |-> "write", slot |-> s, part |-> p, frame |-> frame]
Draw(s, reads)  == [op |-> "frame", slot |-> s, frame |-> frame, reads |-> reads]

Init ==
    /\ pc = "render" /\ frame = 1 /\ usable = TRUE
    /\ current = 0 /\ release = [s \in Slots |-> 0] /\ waitedFor = 0
    /\ inputs = FALSE /\ hudless = FALSE
    /\ readyValue = 0 /\ releaseValue = 0 /\ readyDone = 0 /\ releaseDone = 0
    /\ registered = {} /\ signaled = FALSE
    /\ recorded = <<>> /\ queue11 = <<>> /\ queue12 = <<>>
    /\ slots = [s \in Slots |-> Blank]
    /\ shown = <<>> /\ resizes = 0 /\ late = FALSE /\ hurried = FALSE

-----------------------------------------------------------------------------
(* SlotRing *)

ReleaseValue == release[current]

\* Mutant: content with the frame before the slot's own.
Reusable_OneEarly == releaseDone + 1 >= ReleaseValue

Reusable == releaseDone >= ReleaseValue

\* Mutant: the value before the increment, v = _release.value++.
Submit_OldValue(v) == /\ release' = [release EXCEPT ![current] = v - 1]
                      /\ current' = (current + 1) % kSlots

Submit(v) == /\ release' = [release EXCEPT ![current] = v]
             /\ current' = (current + 1) % kSlots

-----------------------------------------------------------------------------
(* The presenting thread *)

\* WaitSlotOnD3D11: one GPU-side wait per slot taken, remembered by value.
SlotWait == IF ReleaseValue # 0 /\ ReleaseValue # waitedFor
            THEN <<Wait(ReleaseValue)>> ELSE <<>>

SlotWaited == waitedFor' = IF ReleaseValue = 0 THEN waitedFor ELSE ReleaseValue

RenderStart ==
    /\ pc = "render"
    /\ SlotWait # <<>>
    /\ recorded' = recorded \o SlotWait
    /\ SlotWaited
    /\ UNCHANGED <<pc, frame, usable, current, release, flagVars, readyValue, releaseValue,
                   gpuVars, eventVars, queue11, queue12, pastVars>>

\* CurrentSlot, the capture's copy into it, and SubmitFrameInputs or SubmitHudless.
Capture(part) ==
    /\ recorded' = recorded \o SlotWait \o <<Write(current, part)>>
    /\ SlotWaited
    /\ UNCHANGED <<pc, frame, usable, current, release, readyValue, releaseValue,
                   gpuVars, eventVars, queue11, queue12, pastVars>>

SubmitFrameInputs == /\ pc = "render" /\ usable /\ ~inputs
                     /\ inputs' = TRUE /\ UNCHANGED hudless
                     /\ Capture("inputs")

SubmitHudless == /\ pc = "render" /\ usable /\ ~hudless
                 /\ hudless' = TRUE /\ UNCHANGED inputs
                 /\ Capture("hudless")

EndFrame == /\ frame' = frame + 1
            /\ inputs' = FALSE
            /\ hudless' = FALSE

\* The event is set, or will be, for a wait that is over.
LeftOver == signaled \/ registered # {}

PresentRefused ==
    /\ pc = "render" /\ ~usable /\ frame < MaxFrame
    /\ EndFrame
    /\ UNCHANGED <<pc, usable, ringVars, readyValue, releaseValue, gpuVars, eventVars,
                   recorded, queue11, queue12, pastVars>>

\* Mutant: no Flush, so the handover stays with the D3D11 context.
PresentBegin_NoFlush ==
    /\ pc = "render" /\ usable /\ frame < MaxFrame
    /\ readyValue' = readyValue + 1
    /\ recorded' = recorded \o SlotWait \o <<Write(current, "final"), Signal(readyValue + 1)>>
    /\ SlotWaited
    /\ queue12' = Append(queue12, Wait(readyValue + 1))
    /\ pc' = IF Reusable THEN "submit" ELSE "blocked"
    /\ registered' = IF Reusable THEN registered ELSE registered \cup {ReleaseValue}
    /\ hurried' = (LeftOver /\ ~Reusable)
    /\ UNCHANGED <<frame, usable, current, release, flagVars, releaseValue, gpuVars,
                   queue11, signaled, resizes, late>>

\* Mutant: D3D12 is not told to wait for the handover.
PresentBegin_NoWait ==
    /\ pc = "render" /\ usable /\ frame < MaxFrame
    /\ readyValue' = readyValue + 1
    /\ queue11' = queue11 \o recorded \o SlotWait
                          \o <<Write(current, "final"), Signal(readyValue + 1)>>
    /\ recorded' = <<>>
    /\ SlotWaited
    /\ pc' = IF Reusable THEN "submit" ELSE "blocked"
    /\ registered' = IF Reusable THEN registered ELSE registered \cup {ReleaseValue}
    /\ hurried' = (LeftOver /\ ~Reusable)
    /\ UNCHANGED <<frame, usable, current, release, flagVars, releaseValue, gpuVars,
                   queue12, signaled, resizes, late>>

\* Up to the point where the slot's command allocator is wanted.
PresentBegin ==
    /\ pc = "render" /\ usable /\ frame < MaxFrame
    /\ readyValue' = readyValue + 1
    /\ queue11' = queue11 \o recorded \o SlotWait
                          \o <<Write(current, "final"), Signal(readyValue + 1)>>
    /\ recorded' = <<>>
    /\ SlotWaited
    /\ queue12' = Append(queue12, Wait(readyValue + 1))
    /\ pc' = IF Reusable THEN "submit" ELSE "blocked"
    /\ registered' = IF Reusable THEN registered ELSE registered \cup {ReleaseValue}
    /\ hurried' = (LeftOver /\ ~Reusable)
    /\ UNCHANGED <<frame, usable, current, release, flagVars, releaseValue, gpuVars,
                   signaled, resizes, late>>

\* WaitForSingleObject(_event, INFINITE): whoever set the event.
PresentWake ==
    /\ pc = "blocked" /\ signaled
    /\ signaled' = FALSE
    /\ pc' = "submit"
    /\ UNCHANGED <<frame, usable, ringVars, flagVars, readyValue, releaseValue, gpuVars,
                   registered, recorded, queue11, queue12, pastVars>>

\* Allocator reset, list recorded and executed, swap chain presented.
PresentSubmit ==
    /\ pc = "submit"
    /\ releaseValue' = releaseValue + 1
    /\ queue12' = queue12 \o <<Draw(current, inputs /\ hudless), Signal(releaseValue + 1)>>
    /\ Submit(releaseValue + 1)
    /\ EndFrame
    /\ pc' = "render"
    /\ UNCHANGED <<usable, waitedFor, readyValue, gpuVars, eventVars, recorded, queue11, pastVars>>

\* ResizeBuffers to another size, up to WaitForQueueIdle's look at the fence.
ResizeBegin ==
    /\ pc = "render" /\ resizes < MaxResize
    /\ resizes' = resizes + 1 /\ hurried' = LeftOver /\ UNCHANGED late
    /\ releaseValue' = releaseValue + 1
    /\ queue12' = Append(queue12, Signal(releaseValue + 1))
    /\ pc' = "drain"
    /\ UNCHANGED <<frame, usable, ringVars, flagVars, readyValue, gpuVars, eventVars,
                   recorded, queue11>>

\* The fence is not there yet: five seconds from here.
ResizeWait ==
    /\ pc = "drain" /\ releaseDone < releaseValue
    /\ pc' = "draining"
    /\ registered' = registered \cup {releaseValue}
    /\ UNCHANGED <<frame, usable, ringVars, flagVars, readyValue, releaseValue, gpuVars,
                   signaled, recorded, queue11, queue12, pastVars>>

\* Mutant: the queue counts as idle once the current slot is free.
Drained_CurrentSlot == \/ pc = "drain" /\ Reusable /\ UNCHANGED signaled
                       \/ pc = "draining" /\ signaled /\ signaled' = FALSE

\* The fence was there already, or the wait ends, by whatever set the event.
Drained == \/ pc = "drain" /\ releaseDone >= releaseValue /\ UNCHANGED signaled
           \/ pc = "draining" /\ signaled /\ signaled' = FALSE

\* bound: one timed-out wait has its event left behind at a time.
OneLeftOver == registered \subseteq {releaseValue}

\* DXGI_ERROR_WAS_STILL_DRAWING: the registration stays behind.
ResizeTimedOut ==
    /\ pc = "draining" /\ ~signaled /\ OneLeftOver
    /\ pc' = "render"
    /\ late' = TRUE
    /\ UNCHANGED <<frame, usable, ringVars, flagVars, readyValue, releaseValue, gpuVars,
                   eventVars, recorded, queue11, queue12, resizes, hurried>>

\* The D3D12 commands not worked off that read a slot.
Reading(s) == {i \in DOMAIN queue12 : queue12[i].op = "frame" /\ queue12[i].slot = s}

Idle == \A s \in Slots : Reading(s) = {}

\* ReleaseBuffers under the queue, after a wait that an event left behind has
\* ended.  What the GPU reads is undefined from here: the model lets the queues
\* run dry as if the memory kept its content, and the thread does no more.
FreedInUse ==
    /\ Drained /\ ~Idle
    /\ pc' = "undefined"
    /\ UNCHANGED <<frame, usable, ringVars, flagVars, readyValue, releaseValue, gpuVars, registered,
                   recorded, queue11, queue12, pastVars>>

\* What D3D11 still has to write goes into the old textures.
Orphaned(q) == [i \in DOMAIN q |-> IF q[i].op = "write" THEN [q[i] EXCEPT !.slot = Gone]
                                                      ELSE q[i]]

\* New textures, and a ring that begins again.
ResizeDone ==
    /\ Drained /\ Idle
    /\ pc' = "render"
    /\ usable' = TRUE
    /\ current' = 0 /\ release' = [s \in Slots |-> 0] /\ waitedFor' = 0
    /\ slots' = [s \in Slots |-> Blank]
    /\ recorded' = Orphaned(recorded) /\ queue11' = Orphaned(queue11)
    /\ UNCHANGED <<frame, flagVars, readyValue, releaseValue, fenceVars, shown, registered,
                   queue12, pastVars>>

\* The swap chain, its buffers or the textures refuse: the ring stays as it
\* was, and when a buffer or texture is missing presenting stops.
ResizeFailed ==
    /\ Drained /\ Idle
    /\ pc' = "render"
    /\ usable' \in {usable, FALSE}
    /\ UNCHANGED <<frame, ringVars, flagVars, readyValue, releaseValue, gpuVars, registered,
                   recorded, queue11, queue12, pastVars>>

-----------------------------------------------------------------------------
(* The two queues *)

D3D11 ==
    /\ queue11 # <<>>
    /\ queue11' = Tail(queue11)
    /\ LET c == Head(queue11) IN
       \/ c.op = "wait" /\ releaseDone >= c.value /\ UNCHANGED <<slots, readyDone>>
       \/ c.op = "write" /\ c.slot # Gone /\ slots' = [slots EXCEPT ![c.slot][c.part] = c.frame]
                         /\ UNCHANGED readyDone
       \/ c.op = "write" /\ c.slot = Gone /\ UNCHANGED <<slots, readyDone>>
       \/ c.op = "signal" /\ readyDone' = c.value /\ UNCHANGED slots
    /\ UNCHANGED <<pc, frame, usable, ringVars, flagVars, readyValue, releaseValue, releaseDone,
                   shown, eventVars, recorded, queue12, pastVars>>

\* The release fence reaches v: the registrations up to v set the event.
Reach(v) == /\ releaseDone' = v
            /\ registered' = {r \in registered : r > v}
            /\ signaled' = (signaled \/ \E r \in registered : r <= v)

D3D12 ==
    /\ queue12 # <<>>
    /\ queue12' = Tail(queue12)
    /\ LET c == Head(queue12) IN
       \/ c.op = "wait" /\ readyDone >= c.value /\ UNCHANGED <<shown, releaseDone, eventVars>>
       \/ c.op = "frame" /\ shown' = Append(shown, slots[c.slot].final)
                         /\ UNCHANGED <<releaseDone, eventVars>>
       \/ c.op = "signal" /\ Reach(c.value) /\ UNCHANGED shown
    /\ UNCHANGED <<pc, frame, usable, ringVars, flagVars, readyValue, releaseValue, readyDone,
                   slots, recorded, queue11, pastVars>>

PresentStep == PresentBegin \/ PresentWake \/ PresentSubmit
Next ==
    \/ RenderStart \/ SubmitFrameInputs \/ SubmitHudless
    \/ PresentRefused \/ PresentStep
    \/ ResizeBegin \/ ResizeWait \/ ResizeTimedOut \/ ResizeDone \/ ResizeFailed
    \/ FreedInUse \/ D3D11 \/ D3D12

\* The queues work off what they hold, and a call that has begun goes on;
\* nothing obliges the game to render, present or resize.
Fairness == /\ WF_vars(D3D11) /\ WF_vars(D3D12)
            /\ WF_vars(PresentWake) /\ WF_vars(PresentSubmit)
            /\ WF_vars(ResizeWait) /\ WF_vars(ResizeDone \/ FreedInUse)

Spec == Init /\ [][Next]_vars /\ Fairness

-----------------------------------------------------------------------------
Command == [op : {"wait", "signal"}, value : Nat]
           \cup [op : {"write"}, slot : Slots \cup {Gone}, part : Parts, frame : Frames]
           \cup [op : {"frame"}, slot : Slots, frame : Frames, reads : BOOLEAN]

\* Every variable has its type.
TypeOK ==
    /\ pc \in {"render", "blocked", "submit", "drain", "draining", "undefined"}
    /\ frame \in Frames /\ usable \in BOOLEAN
    /\ current \in Slots /\ release \in [Slots -> Nat] /\ waitedFor \in Nat
    /\ inputs \in BOOLEAN /\ hudless \in BOOLEAN
    /\ {readyValue, releaseValue, readyDone, releaseDone} \subseteq Nat
    /\ registered \subseteq Nat /\ signaled \in BOOLEAN
    /\ {recorded, queue11, queue12} \subseteq Seq(Command)
    /\ slots \in [Slots -> [Parts -> Frames \cup {None}]]
    /\ shown \in Seq(Frames \cup {None})
    /\ resizes \in 0 .. MaxResize /\ late \in BOOLEAN /\ hurried \in BOOLEAN

\* SlotRing.h:9: D3D11 never writes a slot D3D12 has yet to read for an
\* earlier frame, whatever resizes and refused resizes did to the ring.
NoWriteUnderRead ==
    [][\A s \in Slots : slots'[s] # slots[s] /\ slots'[s] # Blank =>
        \A i \in Reading(s) : queue12[i].frame >= Head(queue11).frame]_vars

\* The picture that is shown is the one rendered for its frame.
OwnPicture ==
    queue12 # <<>> /\ Head(queue12).op = "frame" =>
        slots[Head(queue12).slot].final = Head(queue12).frame

\* Presenter.cpp:598: frame generation and NR read the frame's own hud-less
\* picture and inputs.  A resize between capture and present may leave them
\* blank, but they are never another frame's.
OwnInputsOnly ==
    queue12 # <<>> /\ Head(queue12).op = "frame" /\ Head(queue12).reads =>
        LET c == Head(queue12) IN
        \A p \in {"hudless", "inputs"} : slots[c.slot][p] \in {c.frame, None}

\* The wait under way, or the last one, began with the event of a timed-out
\* drain still set or registered: it may have ended too early.
Hurried == late /\ hurried

\* SlotRing.h:12: a slot's command allocator is reset only once the list
\* recorded with it last has been executed, after any wait but a hurried one.
AllocatorIdleAtReset == pc = "submit" /\ ~Hurried => Reading(current) = {}

\* A slot serves one frame at a time: what is shown and generated from it is
\* that frame's own, and the memory of its commands is not recycled under the
\* queue.
SlotServesOneFrame == OwnPicture /\ OwnInputsOnly /\ AllocatorIdleAtReset

\* Presenter.cpp:736: a resize frees the buffers and textures only when no
\* frame that uses them is under way.  The code keeps this of every resize but
\* one: one that begins while the event of an earlier, timed-out drain is still
\* set or registered.  That event may end the wait of a later resize too, and
\* FreedInUse is what happens then.  It is over with the first wait that finds
\* the event neither set nor registered.
FreedOnlyWhenIdle ==
    [][(pc = "drain" \/ (pc = "draining" /\ signaled)) /\ pc' \in {"render", "undefined"}
        => Idle \/ Hurried]_vars

\* The frames that the first i commands draw, of every i.
Drawn(q) == LET upTo[i \in 0 .. Len(q)] ==
                    IF i = 0 THEN <<>>
                    ELSE IF q[i].op = "frame" THEN Append(upTo[i - 1], q[i].frame)
                    ELSE upTo[i - 1]
            IN  upTo

\* The frames handed to D3D12 are what the game is promised to see: each its
\* own picture, in order, none lost, never more than kSlots of them behind,
\* or one more than that where an event left behind ended a wait.
Pending == Drawn(queue12)[Len(queue12)]

Stream == INSTANCE FrameStream WITH Pictures <- Frames, Depth <- kSlots + 1,
                                    pending <- Pending, shown <- shown
StreamSpec == Stream!Spec

\* No wait of one queue on the other, and none of the thread on either, is
\* for ever: a present that has begun comes back.
PresentReturns == pc # "render" ~> pc \in {"render", "undefined"}
=============================================================================
