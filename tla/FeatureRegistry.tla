--------------------------- MODULE FeatureRegistry ---------------------------
(***************************************************************************)
(* Feature/FeatureRegistry, ticked once per present by Feature/            *)
(* FeatureSystem: switch the features into the state the settings ask for, *)
(* then give the running ones their frame.  Everything runs on the         *)
(* presenting thread, and the overlay, the one writer of settings in the   *)
(* program, has its turn after the tick; but a tick is many calls into     *)
(* code that may refuse or throw, and the model takes one call a step.  A  *)
(* feature is named by its place in the order of registration.             *)
(***************************************************************************)
EXTENDS Naturals, FiniteSets

CONSTANTS
    N,        \* features registered, 12 in the code
    MaxChange \* bound: settings changes

ASSUME ConstantsAssumption == N \in Nat \ {0} /\ MaxChange \in Nat

VARIABLES
    state,    \* the state of each entry
    wanted,   \* the features whose switch is on
    changed,  \* what Settings::ConsumeChanged will answer
    phase,    \* the loop of Tick that is running, or "idle"
    due,      \* the entries the last loop has yet to give their frame
    owing,    \* history: Setup called, and Shutdown not called since
    failed,   \* history: refused or thrown since the last change was consumed
    changes   \* history: settings changes

vars == <<state, wanted, changed, phase, due, owing, failed, changes>>

Features == 1 .. N
States   == {"off", "running", "refused"}
In(s)    == {f \in Features : state[f] = s}

Init ==
    /\ state = [f \in Features |-> "off"]
    /\ wanted \in SUBSET Features
    /\ changed = FALSE
    /\ phase = "idle" /\ due = {}
    /\ owing = {} /\ failed = {}
    /\ changes = 0

\* The overlay or an editor changes settings, the switches or others.
Change ==
    /\ phase = "idle"
    /\ changes < MaxChange
    /\ wanted' \in SUBSET Features
    /\ changed' = TRUE
    /\ changes' = changes + 1
    /\ UNCHANGED <<state, phase, due, owing, failed>>

-----------------------------------------------------------------------------
(* What Tick does to one entry *)

\* Guarded: the state is set whether Shutdown throws or not.
ShutdownEntry(f, s) == /\ state' = [state EXCEPT ![f] = s]
                       /\ owing' = owing \ {f}

\* Setup refused or threw, or Frame threw.
WriteOff(f) == /\ ShutdownEntry(f, "refused")
               /\ failed' = failed \cup {f}

SetupEntry(f) ==
    \/ /\ state' = [state EXCEPT ![f] = "running"]
       /\ owing' = owing \cup {f}
       /\ UNCHANGED failed
    \/ WriteOff(f)

FrameEntry(f) == UNCHANGED <<state, owing, failed>> \/ WriteOff(f)

-----------------------------------------------------------------------------
(* TickSystem: the settings, then Tick's three loops *)

ClearRefusals == [f \in Features |-> IF state[f] = "refused" THEN "off" ELSE state[f]]

TickBegin ==
    /\ phase = "idle"
    /\ state' = IF changed THEN ClearRefusals ELSE state
    /\ failed' = IF changed THEN {} ELSE failed
    /\ changed' = FALSE
    /\ phase' = "teardown"
    /\ UNCHANGED <<wanted, due, owing, changes>>

\* What is left of the first and the second loop: an entry visited is not
\* in the state the loop looks for any more.
ToTearDown == In("running") \ wanted
ToSetUp    == In("off") \cap wanted

Teardown(f) ==
    /\ phase = "teardown"
    /\ f \in ToTearDown /\ \A g \in ToTearDown : g <= f
    /\ ShutdownEntry(f, "off")
    /\ UNCHANGED <<wanted, changed, phase, due, failed, changes>>

\* Mutant: the first loop is left before it is through.
TornDown_Early ==
    /\ phase = "teardown"
    /\ phase' = "setup"
    /\ UNCHANGED <<state, wanted, changed, due, owing, failed, changes>>

TornDown ==
    /\ phase = "teardown" /\ ToTearDown = {}
    /\ phase' = "setup"
    /\ UNCHANGED <<state, wanted, changed, due, owing, failed, changes>>

Setup(f) ==
    /\ phase = "setup"
    /\ f \in ToSetUp /\ \A g \in ToSetUp : f <= g
    /\ SetupEntry(f)
    /\ UNCHANGED <<wanted, changed, phase, due, changes>>

AllSetUp ==
    /\ phase = "setup" /\ ToSetUp = {}
    /\ phase' = "frame"
    /\ due' = In("running")
    /\ UNCHANGED <<state, wanted, changed, owing, failed, changes>>

Frame(f) ==
    /\ phase = "frame"
    /\ f \in due /\ \A g \in due : f <= g
    /\ due' = due \ {f}
    /\ FrameEntry(f)
    /\ UNCHANGED <<wanted, changed, phase, changes>>

TickEnd ==
    /\ phase = "frame" /\ due = {}
    /\ phase' = "idle"
    /\ UNCHANGED <<state, wanted, changed, due, owing, failed, changes>>

Next ==
    \/ Change
    \/ TickBegin \/ TornDown \/ AllSetUp \/ TickEnd
    \/ \E f \in Features : Teardown(f) \/ Setup(f) \/ Frame(f)

Spec == Init /\ [][Next]_vars

-----------------------------------------------------------------------------
\* Every variable has its type.
TypeOK ==
    /\ state \in [Features -> States]
    /\ wanted \subseteq Features /\ changed \in BOOLEAN
    /\ phase \in {"idle", "teardown", "setup", "frame"}
    /\ due \subseteq Features
    /\ owing \subseteq Features /\ failed \subseteq Features
    /\ changes \in 0 .. MaxChange

\* FeatureRegistry.cpp:84: a frame never has both the old and the new owner
\* of a resource alive at once.  Whatever the switches were changed to, when
\* a feature is set up none that is to go is still running.
OldOwnerGone ==
    [][\A f \in Features : phase = "setup" /\ state'[f] # state[f]
            => In("running") \subseteq wanted]_vars

\* Feature.h:27: a feature that refused or threw is left alone until the
\* settings change, for as many frames as that takes, and then tried again
\* if it is wanted: Setup succeeds or fails once per change.
OneTryPerChange ==
    [][\A f \in Features : f \in failed =>
        \/ state'[f] = "refused"
        \/ state'[f] = "off" /\ changed]_vars

\* The order of the steps of a tick, seen from the features it switches.
SwitchedInOrder == OldOwnerGone /\ OneTryPerChange

\* Feature.h:39: every Setup is answered by a Shutdown, the ones that gave up
\* halfway and the features that threw included, and only features that are
\* set up are given frames.
SetupAndShutdownPair == owing = In("running")

\* When the frames are given every switch is obeyed: what is off is off, and
\* what is on is running or has failed.  So the overlay shows a refusal only
\* where the player asks for the feature.
SwitchesObeyed ==
    phase = "frame" => In("off") = Features \ wanted
=============================================================================
