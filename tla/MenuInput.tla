------------------------------ MODULE MenuInput ------------------------------
(***************************************************************************)
(* The overlay: Menu/WindowHook runs on the window thread for every        *)
(* WM_KEYDOWN, Menu/MenuSystem's TickSystem once a frame on the render     *)
(* thread.  They meet in the atomics of Menu/MenuGate and Menu/KeyLatch.   *)
(* A key that is held down sends WM_KEYDOWN again and again.  The tick     *)
(* also takes the mouse (Menu/MousePointer) and draws into the back buffer *)
(* (Menu/Overlay), while the player may turn to another window and the     *)
(* game replace its buffers.                                               *)
(*                                                                         *)
(* The settings are the two key settings of the menu, the log key standing *)
(* for every key that only has a latch.  A click in the overlay is part of *)
(* the tick that draws it.  Windows is taken to have a procedure to chain  *)
(* to and to say where the cursor is.                                      *)
(***************************************************************************)
EXTENDS Naturals

CONSTANTS
    Keys,           \* virtual key codes, which are not zero
    SuppressFails   \* whether the engine may refuse an input layer

ASSUME ConstantsAssumption ==
    /\ Keys \subseteq Nat \ {0}
    /\ SuppressFails \in BOOLEAN

VARIABLES
    held,         \* the key the player holds down, or NoKey
    wpc,          \* the window thread: "idle", "store" or "keys"
    message,      \* the key of the WM_KEYDOWN it is at
    tick,         \* the render thread: the step of TickSystem it is at
    settings,     \* the key stored for each path
    toggleKey,    \* Gate::_toggleKey
    logKey,       \* TheLogLatch()._key
    logPending,   \* TheLogLatch()._pending
    toggleWanted, \* Gate::_toggleWanted
    capturing,    \* Gate::_capturing
    captured,     \* Gate::_captured
    open,         \* Gate::_open
    suppressing,  \* Gate::_suppressing
    layer,        \* InputLayer::_layer is held, the game has no input
    capturePath,  \* TheCapturePath()
    intended,     \* history: path and key of the capture under way, and whether
                  \*   another button was clicked since
    overlay,      \* Overlay: "none", "ready" (_ready) or "refused" (_refused)
    hooked,       \* WindowHook's g_installed
    front,        \* the game's window is in the foreground
    active,       \* MousePointer::_active
    cursor,       \* the system's cursor: where the game has it to "aim", "parked"
                  \*   in the middle of the window, or "away" over another one
    entry,        \* MousePointer::_entryX and _entryY
    buffer,       \* the address of the swap chain's back buffer
    boundBuffer,  \* Overlay::_boundBuffer, or Null without a _renderTarget
    current,      \* history: that view is of the buffer that is presented
    drawn         \* the tick drew

windowVars == <<held, wpc, message>>
keyVars    == <<settings, toggleKey, logKey>>
gateVars   == <<open, suppressing, layer>>
capVars    == <<capturing, captured, capturePath, intended>>
startVars  == <<overlay, hooked>>
mouseVars  == <<front, active, cursor, entry>>
screenVars == <<buffer, boundBuffer, current, drawn>>
outerVars  == <<startVars, mouseVars, screenVars>>
vars == <<windowVars, tick, keyVars, logPending, toggleWanted, gateVars, capVars, outerVars>>

NoKey  == 0
Paths  == {"Menu/toggleKey", "Performance/logKey"}
NoPath == ""
Null   == 0
Addresses == {1, 2}   \* enough: one held by the view, one in the swap chain
Nobody == [path |-> NoPath, key |-> NoKey, rearmed |-> FALSE]

Init ==
    /\ held = NoKey /\ wpc = "idle" /\ message = NoKey
    /\ tick = "begin"
    /\ settings \in [Paths -> Keys \cup {NoKey}]
    /\ toggleKey = NoKey /\ logKey = NoKey /\ logPending = FALSE
    /\ toggleWanted = FALSE
    /\ capturing = FALSE /\ captured = NoKey /\ capturePath = NoPath
    /\ open = FALSE /\ suppressing = FALSE /\ layer = FALSE
    /\ intended = Nobody
    /\ overlay = "none" /\ hooked = FALSE
    /\ front = TRUE /\ active = FALSE /\ cursor = "aim" /\ entry = "aim"
    /\ buffer = 1 /\ boundBuffer = Null /\ current = FALSE /\ drawn = FALSE

-----------------------------------------------------------------------------
(* The window thread *)

\* Mutant: the capture is looked at and not taken.
OfferKey_Load(k) ==
    /\ UNCHANGED <<capturing, captured, capturePath, outerVars>>
    /\ IF capturing
       THEN wpc' = "store" /\ intended' = IF intended = Nobody
                                          THEN [Nobody EXCEPT !.path = capturePath, !.key = k]
                                          ELSE intended
       ELSE wpc' = "keys" /\ UNCHANGED intended

\* Gate::OfferKey up to the store: one exchange, so one key is taken.
OfferKey(k) ==
    /\ capturing' = FALSE
    /\ UNCHANGED <<captured, capturePath>>
    /\ IF capturing
       THEN /\ wpc' = "store"
            /\ intended' = [intended EXCEPT !.path = capturePath, !.key = k]
       ELSE wpc' = "keys" /\ UNCHANGED intended

\* WM_KEYDOWN, of a key just pressed or of the one held down.
KeyDown(k) ==
    /\ wpc = "idle" /\ front
    /\ held \in {NoKey, k}
    /\ held' = k /\ message' = k
    /\ IF hooked THEN OfferKey(k) ELSE UNCHANGED <<wpc, capVars>>
    /\ UNCHANGED <<tick, keyVars, logPending, toggleWanted, gateVars, outerVars>>

StoreCaptured ==
    /\ wpc = "store"
    /\ captured' = message
    /\ wpc' = "idle"
    /\ UNCHANGED <<held, message, tick, keyVars, logPending, toggleWanted, gateVars,
                   capturing, capturePath, intended, outerVars>>

IsToggleKey(k) == toggleKey # NoKey /\ k = toggleKey

RequestToggle ==
    /\ wpc = "keys" /\ IsToggleKey(message)
    /\ toggleWanted' = TRUE
    /\ wpc' = "idle"
    /\ UNCHANGED <<held, message, tick, keyVars, logPending, gateVars, capVars, outerVars>>

\* KeyLatch::Offer, and on to ImGui, the game or nobody.
OfferToLatches ==
    /\ wpc = "keys" /\ ~IsToggleKey(message)
    /\ logPending' = (logPending \/ (logKey # NoKey /\ message = logKey))
    /\ wpc' = "idle"
    /\ UNCHANGED <<held, message, tick, keyVars, toggleWanted, gateVars, capVars, outerVars>>

KeyUp ==
    /\ wpc = "idle" /\ held # NoKey
    /\ held' = NoKey
    /\ UNCHANGED <<wpc, message, tick, keyVars, logPending, toggleWanted, gateVars, capVars,
                   outerVars>>

\* The player turns to another window and moves the mouse there, or comes back.
TurnAway ==
    /\ front /\ held = NoKey
    /\ front' = FALSE /\ cursor' = "away"
    /\ UNCHANGED <<windowVars, tick, keyVars, logPending, toggleWanted, gateVars, capVars,
                   startVars, active, entry, screenVars>>

ComeBack ==
    /\ ~front
    /\ front' = TRUE
    /\ cursor' = IF active THEN cursor ELSE "aim"
    /\ UNCHANGED <<windowVars, tick, keyVars, logPending, toggleWanted, gateVars, capVars,
                   startVars, active, entry, screenVars>>

-----------------------------------------------------------------------------
(* TickSystem *)

\* Overlay::EnsureReady, which is asked again only until it has answered.
EnsureReady ==
    /\ tick = "begin" /\ overlay = "none"
    /\ overlay' \in {"ready", "refused"}
    /\ UNCHANGED <<windowVars, tick, keyVars, logPending, toggleWanted, gateVars, capVars,
                   hooked, mouseVars, screenVars>>

SetToggleKey ==
    /\ tick = "begin" /\ overlay = "ready"
    /\ drawn' = FALSE
    /\ toggleKey' = settings["Menu/toggleKey"]
    /\ tick' = "take"
    /\ UNCHANGED <<windowVars, settings, logKey, logPending, toggleWanted, gateVars, capVars,
                   startVars, mouseVars, buffer, boundBuffer, current>>

\* The captured key, to the setting whose button armed the capture.
TakeCapturedKey ==
    /\ tick = "take"
    /\ captured' = NoKey
    /\ settings' = IF captured # NoKey /\ capturePath # NoPath
                   THEN [settings EXCEPT ![capturePath] = captured] ELSE settings
    /\ capturePath' = IF captured # NoKey THEN NoPath ELSE capturePath
    /\ intended' = IF captured # NoKey /\ wpc # "store" THEN Nobody ELSE intended
    /\ tick' = "hook"
    /\ UNCHANGED <<windowVars, toggleKey, logKey, logPending, toggleWanted, gateVars,
                   capturing, outerVars>>

\* InstallWindowHook, once, and the log latch's key.
InstallWindowHook ==
    /\ tick = "hook"
    /\ hooked' = TRUE
    /\ logKey' = settings["Performance/logKey"]
    /\ tick' = "gate"
    /\ UNCHANGED <<windowVars, settings, toggleKey, logPending, toggleWanted, gateVars,
                   capVars, overlay, mouseVars, screenVars>>

\* InputLayer::Suppress.
Suppress == IF layer THEN UNCHANGED layer
                     ELSE layer' = TRUE \/ (SuppressFails /\ layer' = FALSE)

\* InputLayer::Restore, of what was taken.
Close == /\ layer' = (layer /\ ~suppressing)
         /\ suppressing' = FALSE

GateTick ==
    /\ tick = "gate"
    /\ toggleWanted' = FALSE
    /\ open' = (open # toggleWanted)
    /\ CASE ~toggleWanted        -> UNCHANGED <<suppressing, layer>>
         [] toggleWanted /\ open -> Close
         [] OTHER                -> Suppress /\ suppressing' = layer'
    /\ tick' = "log"
    /\ UNCHANGED <<windowVars, keyVars, logPending, capVars, outerVars>>

LogTake ==
    /\ tick = "log"
    /\ logPending' = FALSE
    /\ tick' = "mouse"
    /\ UNCHANGED <<windowVars, keyVars, toggleWanted, gateVars, capVars, outerVars>>

\* Mutant: notes where the cursor is in every tick.
Acquire_Again == entry' = cursor /\ active' = TRUE

\* MousePointer::Acquire.
Acquire == entry' = (IF active THEN entry ELSE cursor) /\ active' = TRUE

\* MousePointer::Update, only with the game in front.
Update == cursor' = IF front THEN "parked" ELSE cursor

\* MousePointer::Release.
Release == cursor' = entry /\ active' = FALSE /\ UNCHANGED entry

Mouse ==
    /\ tick = "mouse"
    /\ IF open THEN Acquire /\ Update
       ELSE IF active THEN Release ELSE UNCHANGED <<active, cursor, entry>>
    /\ tick' = "draw"
    /\ UNCHANGED <<windowVars, keyVars, logPending, toggleWanted, gateVars, capVars,
                   startVars, front, screenVars>>

\* Overlay::BindBackBuffer: a view of another buffer is released, and making
\* one may fail.
BindBackBuffer ==
    IF boundBuffer = buffer
    THEN drawn' = TRUE /\ UNCHANGED <<boundBuffer, current>>
    ELSE \/ boundBuffer' = buffer /\ current' = TRUE /\ drawn' = TRUE
         \/ boundBuffer' = Null /\ current' = FALSE /\ UNCHANGED drawn

\* Overlay::Draw: of the panel or of the small display, or of nothing.
Draw == /\ UNCHANGED <<startVars, mouseVars, buffer>>
        /\ \/ BindBackBuffer
           \/ UNCHANGED <<boundBuffer, current, drawn>>

DrawNothing ==
    /\ tick = "draw"
    /\ Draw
    /\ tick' = "begin"
    /\ UNCHANGED <<windowVars, keyVars, logPending, toggleWanted, gateVars, capVars>>

\* The button of a key setting, which does not say it is waiting for a key.
ArmCapture(path) ==
    /\ tick = "draw" /\ open
    /\ Draw
    /\ ~(capturing /\ capturePath = path)
    /\ capturePath' = path
    /\ capturing' = TRUE
    /\ intended' = IF intended = Nobody THEN Nobody ELSE [intended EXCEPT !.rearmed = TRUE]
    /\ tick' = "begin"
    /\ UNCHANGED <<windowVars, keyVars, logPending, toggleWanted, gateVars, captured>>

CloseButton ==
    /\ tick = "draw" /\ open
    /\ Draw
    /\ toggleWanted' = TRUE
    /\ tick' = "begin"
    /\ UNCHANGED <<windowVars, keyVars, logPending, gateVars, capVars>>

\* The game resizes its swap chain: the buffer is another one.  Memory that is
\* still held, by a view of it, is not used again.
ResizeBuffers ==
    /\ tick = "begin"
    /\ buffer' \in Addresses \ {boundBuffer}
    /\ current' = FALSE /\ drawn' = FALSE
    /\ UNCHANGED <<windowVars, tick, keyVars, logPending, toggleWanted, gateVars, capVars,
                   startVars, mouseVars, boundBuffer>>

WindowThread ==
    \/ \E k \in Keys : KeyDown(k)
    \/ StoreCaptured \/ RequestToggle \/ OfferToLatches \/ KeyUp
    \/ TurnAway \/ ComeBack

RenderThread ==
    \/ EnsureReady \/ SetToggleKey \/ TakeCapturedKey \/ InstallWindowHook \/ GateTick
    \/ LogTake \/ Mouse \/ ResizeBuffers
    \/ DrawNothing \/ CloseButton
    \/ \E path \in Paths : ArmCapture(path)

Next == WindowThread \/ RenderThread

Spec == Init /\ [][Next]_vars

-----------------------------------------------------------------------------
(* Properties *)

\* MenuGate.h:22, MousePointer.cpp:78: with the overlay closed and the tick done
\* with the mouse, the game has what was taken from it: its input, and the cursor
\* anywhere but parked; however presses, the close button, refusals of the engine
\* and turning to another window follow each other.
GivenBack ==
    /\ layer = suppressing /\ (~open => ~layer)
    /\ ~open /\ tick \notin {"log", "mouse"} => ~active /\ cursor # "parked"

\* Overlay.cpp:106: what is drawn is drawn into the buffer that is presented,
\* whichever buffers came and went since the view was made.
DrawsIntoPresented == drawn => boundBuffer = buffer /\ current

\* MenuSystem.cpp:174 and MenuGate.cpp:42: a setting changes to the key pressed
\* after its own button was clicked and to no other, of two presses inside one
\* frame to the first; unless another button is clicked while that key is on
\* its way.
RebindsWhatWasAsked ==
    [][\A path \in Paths : settings'[path] # settings[path] =>
        \/ intended.rearmed
        \/ intended.path = path /\ intended.key = settings'[path]]_vars

\* The overlay keeps to itself: it leaves the game its input and draws nowhere
\* else.
OverlayKeepsToItself == GivenBack /\ DrawsIntoPresented
=============================================================================
