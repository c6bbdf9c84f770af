---------------------------- MODULE OverlayProofs ----------------------------
(***************************************************************************)
(* Theorems about the overlay.  Of MenuInput, for every set of keys and    *)
(* every order in which the window thread and the render thread meet: what *)
(* the overlay takes it gives back, what it draws it draws into the buffer *)
(* that is presented, and a key setting changes to the key it was asked    *)
(* to.  Of Profiler, whose numbers the overlay shows, for every number of  *)
(* passes and frames in flight and every order in which the GPU answers: a *)
(* number is of the pass it stands by, and no query is lost or used twice. *)
(***************************************************************************)
EXTENDS MenuInput, Profiler, NaturalsInduction, WellFoundedInduction, TLAPS

-----------------------------------------------------------------------------
(* The menu and its input *)

Captures == [path : Paths \cup {NoPath}, key : Keys \cup {NoKey}, rearmed : BOOLEAN]

\* The type of what the proofs speak of.
TypeInv ==
    /\ wpc \in {"idle", "store", "keys"}
    /\ message \in Keys \cup {NoKey} /\ captured \in Keys \cup {NoKey}
    /\ settings \in [Paths -> Keys \cup {NoKey}]
    /\ capturePath \in Paths \cup {NoPath} /\ capturing \in BOOLEAN
    /\ intended \in Captures
    /\ {open, suppressing, layer, active, toggleWanted, front} \subseteq BOOLEAN

\* The gate suppresses exactly while it holds the layer.
GateInv == layer = suppressing /\ (~open => ~layer)

\* The cursor is parked only while the mouse is taken, and nobody gives it
\* back to where it was parked.
MouseInv ==
    /\ entry # "parked"
    /\ ~active => cursor # "parked"
    /\ ~open /\ tick \notin {"log", "mouse"} => ~active

\* A view of the buffer that is presented is a view of that very buffer, not of
\* one that once had its address.
ViewInv ==
    /\ boundBuffer = buffer => current
    /\ drawn => boundBuffer = buffer
    /\ tick # "begin" => ~drawn
    /\ buffer \in Addresses

\* A key on its way to its setting: taken by the window thread, or stored.
InFlight == captured # NoKey \/ wpc = "store"
Flying   == IF captured # NoKey THEN captured ELSE message

\* Nobody asked, nothing flies; and until another button is clicked one key
\* flies at most, to the setting whose button was clicked.
CaptureInv ==
    /\ intended = Nobody => ~InFlight
    /\ InFlight /\ ~intended.rearmed =>
         /\ ~capturing
         /\ ~(captured # NoKey /\ wpc = "store")
         /\ intended.path = capturePath /\ intended.key = Flying

IInv == TypeInv /\ GateInv /\ MouseInv /\ ViewInv /\ CaptureInv

-----------------------------------------------------------------------------
\* The invariant holds at the start.
LEMMA InitInv == Init => IInv
<1> SUFFICES ASSUME Init PROVE IInv
  OBVIOUS
<1>1. TypeInv
  BY DEF Init, TypeInv, Captures, Nobody
<1>2. GateInv /\ MouseInv
  BY DEF Init, GateInv, MouseInv
<1>3. ViewInv
  BY DEF Init, ViewInv, Null, Addresses
<1>4. CaptureInv
  BY DEF Init, CaptureInv, InFlight
<1> QED
  BY <1>1, <1>2, <1>3, <1>4 DEF IInv

\* Every step keeps the types.
LEMMA TypeStep == TypeInv /\ [Next]_vars => TypeInv'
<1> SUFFICES ASSUME TypeInv, [Next]_vars PROVE TypeInv'
  OBVIOUS
<1> USE DEF TypeInv
<1>1. ASSUME NEW k \in Keys, KeyDown(k) PROVE TypeInv'
  <2>1. intended' \in Captures
    BY <1>1 DEF KeyDown, OfferKey, Captures, capVars
  <2> QED
    BY <1>1, <2>1
       DEF KeyDown, OfferKey, capVars, keyVars, gateVars, outerVars, mouseVars
<1>2. CASE StoreCaptured \/ RequestToggle \/ OfferToLatches \/ KeyUp
  BY <1>2 DEF StoreCaptured, RequestToggle, OfferToLatches, KeyUp, capVars, keyVars,
       gateVars, outerVars, mouseVars
<1>3. CASE TurnAway \/ ComeBack
  BY <1>3 DEF TurnAway, ComeBack, capVars, keyVars, gateVars, windowVars
<1>4. CASE TakeCapturedKey
  <2>1. intended' \in Captures
    BY <1>4 DEF TakeCapturedKey, Captures, Nobody
  <2> QED
    BY <1>4, <2>1 DEF TakeCapturedKey, gateVars, windowVars, outerVars, mouseVars
<1>5. CASE GateTick
  <2>1. layer' \in BOOLEAN /\ suppressing' \in BOOLEAN
    BY <1>5 DEF GateTick, Close, Suppress
  <2> QED
    BY <1>5, <2>1 DEF GateTick, capVars, keyVars, windowVars, outerVars, mouseVars
<1>6. CASE Mouse
  BY <1>6 DEF Mouse, Acquire, Release, capVars, keyVars, windowVars, gateVars
<1>7. ASSUME NEW path \in Paths, ArmCapture(path) PROVE TypeInv'
  <2>1. intended' \in Captures
    BY <1>7 DEF ArmCapture, Captures, Nobody
  <2> QED
    BY <1>7, <2>1 DEF ArmCapture, Draw, keyVars, windowVars, gateVars, mouseVars
<1>8. CASE EnsureReady \/ SetToggleKey \/ InstallWindowHook \/ LogTake \/ ResizeBuffers
  BY <1>8 DEF EnsureReady, SetToggleKey, InstallWindowHook, LogTake, ResizeBuffers,
       capVars, keyVars, windowVars, gateVars, outerVars, mouseVars
<1>9. CASE DrawNothing \/ CloseButton
  BY <1>9 DEF DrawNothing, CloseButton, Draw, capVars, keyVars, windowVars, gateVars,
       mouseVars
<1>10. CASE UNCHANGED vars
  BY <1>10 DEF vars, capVars, keyVars, windowVars, gateVars, outerVars, mouseVars
<1> QED
  BY <1>1, <1>2, <1>3, <1>4, <1>5, <1>6, <1>7, <1>8, <1>9, <1>10
     DEF Next, WindowThread, RenderThread

\* Every step keeps the gate and the layer together.
LEMMA GateStep == TypeInv /\ GateInv /\ [Next]_vars => GateInv'
<1> SUFFICES ASSUME TypeInv, GateInv, [Next]_vars PROVE GateInv'
  OBVIOUS
<1>1. CASE GateTick
  <2>1. /\ ~toggleWanted => open' = open /\ UNCHANGED <<suppressing, layer>>
        /\ toggleWanted /\ open => Close
        /\ toggleWanted /\ ~open => open' /\ suppressing' = layer'
    BY <1>1 DEF GateTick, TypeInv
  <2>2. ASSUME toggleWanted, open PROVE layer' = FALSE /\ suppressing' = FALSE
    <3>1. layer' = (layer /\ ~suppressing) /\ suppressing' = FALSE
      BY <2>1, <2>2 DEF Close
    <3>2. (layer /\ ~suppressing) = FALSE
      BY DEF GateInv
    <3> QED
      BY <3>1, <3>2
  <2>3. CASE ~toggleWanted
    BY <2>1, <2>3 DEF GateInv
  <2>4. CASE toggleWanted /\ open
    BY <2>2, <2>4 DEF GateInv
  <2>5. CASE toggleWanted /\ ~open
    BY <2>1, <2>5 DEF GateInv
  <2> QED
    BY <2>3, <2>4, <2>5
<1>2. CASE UNCHANGED gateVars
  BY <1>2 DEF gateVars, GateInv
<1> QED
  BY <1>1, <1>2
     DEF Next, WindowThread, RenderThread, KeyDown, StoreCaptured, RequestToggle,
         OfferToLatches, KeyUp, TurnAway, ComeBack, EnsureReady, SetToggleKey,
         TakeCapturedKey, InstallWindowHook, LogTake, Mouse, ResizeBuffers, DrawNothing,
         CloseButton, ArmCapture, vars

\* Every step keeps the cursor findable.
LEMMA MouseStep == TypeInv /\ MouseInv /\ [Next]_vars => MouseInv'
<1> SUFFICES ASSUME TypeInv, MouseInv, [Next]_vars PROVE MouseInv'
  OBVIOUS
<1>1. CASE Mouse
  BY <1>1 DEF Mouse, Acquire, Update, Release, gateVars, TypeInv, MouseInv
<1>2. CASE GateTick
  BY <1>2 DEF GateTick, outerVars, mouseVars, MouseInv
<1>3. CASE LogTake
  BY <1>3 DEF LogTake, outerVars, mouseVars, gateVars, MouseInv
<1>4. CASE TurnAway \/ ComeBack
  BY <1>4 DEF TurnAway, ComeBack, gateVars, MouseInv, TypeInv
<1>5. CASE /\ UNCHANGED <<gateVars, mouseVars>>
           /\ tick \notin {"log", "mouse"} \/ tick' = tick
  BY <1>5 DEF gateVars, mouseVars, MouseInv
<1>6. CASE (\E k \in Keys : KeyDown(k)) \/ StoreCaptured \/ RequestToggle
           \/ OfferToLatches \/ KeyUp \/ UNCHANGED vars
  BY <1>5, <1>6
     DEF KeyDown, StoreCaptured, RequestToggle, OfferToLatches, KeyUp, outerVars, vars
<1>7. CASE EnsureReady \/ SetToggleKey \/ TakeCapturedKey \/ InstallWindowHook
  BY <1>5, <1>7
     DEF EnsureReady, SetToggleKey, TakeCapturedKey, InstallWindowHook, outerVars
<1>8. CASE ResizeBuffers \/ DrawNothing \/ CloseButton \/ \E p \in Paths : ArmCapture(p)
  BY <1>5, <1>8 DEF ResizeBuffers, DrawNothing, CloseButton, ArmCapture, Draw
<1> QED
  BY <1>1, <1>2, <1>3, <1>4, <1>6, <1>7, <1>8 DEF Next, WindowThread, RenderThread

\* Every step keeps the view on the buffer it is of.
LEMMA ViewStep == ViewInv /\ [Next]_vars => ViewInv'
<1> SUFFICES ASSUME ViewInv, [Next]_vars PROVE ViewInv'
  OBVIOUS
<1>1. CASE Draw /\ tick = "draw" /\ tick' = "begin"
  BY <1>1 DEF Draw, BindBackBuffer, ViewInv, Addresses, Null
<1>2. CASE ResizeBuffers
  BY <1>2 DEF ResizeBuffers, ViewInv
<1>3. CASE SetToggleKey
  BY <1>3 DEF SetToggleKey, ViewInv
<1>4. CASE UNCHANGED screenVars /\ (tick # "begin" \/ tick' = tick)
  BY <1>4 DEF screenVars, ViewInv
<1> QED
  BY <1>1, <1>2, <1>3, <1>4
     DEF Next, WindowThread, RenderThread, KeyDown, StoreCaptured, RequestToggle,
         OfferToLatches, KeyUp, TurnAway, ComeBack, EnsureReady, TakeCapturedKey,
         InstallWindowHook, GateTick, LogTake, Mouse, DrawNothing, CloseButton,
         ArmCapture, vars, outerVars

\* Every step keeps the captured key with the setting it was asked for.
LEMMA CaptureStep == TypeInv /\ CaptureInv /\ [Next]_vars => CaptureInv'
<1> SUFFICES ASSUME TypeInv, CaptureInv, [Next]_vars PROVE CaptureInv'
  OBVIOUS
<1> USE DEF CaptureInv, InFlight, Flying
<1>1. ASSUME NEW k \in Keys, KeyDown(k) PROVE CaptureInv'
  <2>1. wpc = "idle" /\ message' = k /\ captured' = captured /\ capturePath' = capturePath
    BY <1>1 DEF KeyDown, OfferKey, capVars
  <2>2. CASE hooked /\ capturing
    <3>1. /\ intended' = [intended EXCEPT !.path = capturePath, !.key = k]
          /\ capturing' = FALSE /\ wpc' = "store"
      BY <1>1, <2>2 DEF KeyDown, OfferKey
    <3>2. intended'.path = capturePath /\ intended'.key = k
          /\ intended'.rearmed = intended.rearmed
      BY <3>1 DEF TypeInv, Captures
    <3>3. intended' # Nobody
      BY <3>2, ConstantsAssumption DEF Nobody, NoKey
    <3> QED
      BY <2>1, <2>2, <3>1, <3>2, <3>3
  <2>3. CASE ~(hooked /\ capturing)
    <3>1. intended' = intended /\ wpc' # "store" /\ (captured # NoKey => capturing' = capturing \/ ~capturing')
      BY <1>1, <2>1, <2>3 DEF KeyDown, OfferKey, capVars
    <3> QED
      BY <2>1, <3>1
  <2> QED
    BY <2>2, <2>3
<1>2. CASE StoreCaptured
  BY <1>2 DEF StoreCaptured
<1>3. CASE TakeCapturedKey
  <2>1. /\ captured' = NoKey
        /\ intended' = IF captured # NoKey /\ wpc # "store" THEN Nobody ELSE intended
        /\ capturePath' = IF captured # NoKey THEN NoPath ELSE capturePath
        /\ UNCHANGED <<wpc, message, capturing>>
    BY <1>3 DEF TakeCapturedKey, windowVars
  <2> QED
    BY <2>1
<1>4. ASSUME NEW path \in Paths, ArmCapture(path) PROVE CaptureInv'
  <2>1. /\ UNCHANGED <<wpc, message, captured>>
        /\ intended' = IF intended = Nobody THEN Nobody
                       ELSE [intended EXCEPT !.rearmed = TRUE]
    BY <1>4 DEF ArmCapture, windowVars
  <2>2. CASE intended = Nobody
    BY <2>1, <2>2
  <2>3. CASE intended # Nobody
    <3>1. intended'.rearmed
      BY <2>1, <2>3 DEF TypeInv, Captures
    <3> QED
      BY <3>1 DEF Nobody
  <2> QED
    BY <2>2, <2>3
<1>5. CASE UNCHANGED <<capVars, wpc, message>>
  BY <1>5 DEF capVars
<1>6. CASE RequestToggle \/ OfferToLatches
  BY <1>6 DEF RequestToggle, OfferToLatches, capVars
<1>7. CASE KeyUp \/ TurnAway \/ ComeBack \/ UNCHANGED vars
  BY <1>5, <1>7 DEF KeyUp, TurnAway, ComeBack, windowVars, vars
<1>8. CASE EnsureReady \/ SetToggleKey \/ InstallWindowHook \/ GateTick \/ LogTake \/ Mouse
  BY <1>5, <1>8
     DEF EnsureReady, SetToggleKey, InstallWindowHook, GateTick, LogTake, Mouse, windowVars
<1>9. CASE ResizeBuffers \/ DrawNothing \/ CloseButton
  BY <1>5, <1>9 DEF ResizeBuffers, DrawNothing, CloseButton, windowVars
<1> QED
  BY <1>1, <1>2, <1>3, <1>4, <1>6, <1>7, <1>8, <1>9 DEF Next, WindowThread, RenderThread

\* The inductive invariant.
THEOREM Inductive == Spec => []IInv
<1>1. IInv /\ [Next]_vars => IInv'
  BY TypeStep, GateStep, MouseStep, ViewStep, CaptureStep DEF IInv
<1> QED
  BY InitInv, <1>1, PTL DEF Spec

-----------------------------------------------------------------------------
\* MenuGate.h:22, MousePointer.cpp:78 and Overlay.cpp:106: the closed overlay
\* has given back the game's input and its cursor, and what is drawn is drawn
\* into the buffer that is presented.
THEOREM KeepsToItself == Spec => []OverlayKeepsToItself
<1>1. IInv => OverlayKeepsToItself
  BY DEF IInv, GateInv, MouseInv, ViewInv, OverlayKeepsToItself, GivenBack,
         DrawsIntoPresented
<1> QED
  BY <1>1, Inductive, PTL

\* MenuSystem.cpp:174 and MenuGate.cpp:42: a setting changes to the key pressed
\* after its own button was clicked, unless another button was clicked since.
THEOREM Rebinds == Spec => RebindsWhatWasAsked
<1>1. IInv /\ [Next]_vars =>
        [\A path \in Paths : settings'[path] # settings[path] =>
            \/ intended.rearmed
            \/ intended.path = path /\ intended.key = settings'[path]]_vars
  <2> SUFFICES ASSUME IInv, Next, NEW path \in Paths, settings'[path] # settings[path],
                      ~intended.rearmed
               PROVE  intended.path = path /\ intended.key = settings'[path]
    OBVIOUS
  <2>1. TakeCapturedKey
    BY DEF Next, WindowThread, RenderThread, KeyDown, StoreCaptured, RequestToggle,
           OfferToLatches, KeyUp, TurnAway, ComeBack, EnsureReady, SetToggleKey,
           InstallWindowHook, GateTick, LogTake, Mouse, ResizeBuffers, DrawNothing,
           CloseButton, ArmCapture, keyVars
  <2>2. captured # NoKey /\ settings' = [settings EXCEPT ![capturePath] = captured]
    BY <2>1 DEF TakeCapturedKey
  <2>3. path = capturePath /\ settings'[path] = captured
    BY <2>2 DEF IInv, TypeInv
  <2> QED
    BY <2>2, <2>3 DEF IInv, CaptureInv, InFlight, Flying
<1> QED
  BY <1>1, Inductive, PTL DEF Spec, RebindsWhatWasAsked

-----------------------------------------------------------------------------
(* The profiler *)

PassNames == Names \cup {"Frame", "none"}
Who       == [name : PassNames, frame : Nat]
Timing    == [name : PassNames, depth : Nat, begin : Nat, end : Nat]
Slot      == [timings : Seq(Timing), frame : Nat, inFlight : BOOLEAN]
Taken     == [begin : Who, end : Who]
Row       == [name : PassNames, history : Seq(Taken), lastFrame : Nat]
Indexes   == UNION {[N -> Nat] : N \in SUBSET PassNames}

ProfilerTypeOK ==
    /\ slots \in [Ring -> Slot] /\ spare \in Seq(Nat) /\ made \in Nat
    /\ DOMAIN stamp \subseteq Nat /\ \A q \in DOMAIN stamp : stamp[q] \in Who
    /\ opened \in Seq(Nat) /\ scopes \in Seq(Names)
    /\ table \in Seq(Row) /\ index \in Indexes /\ frameTime \in Who
    /\ frame \in Nat /\ writeSlot \in Ring /\ next \in 0 .. Latency
    /\ ready \in BOOLEAN /\ refused \in BOOLEAN /\ measuring \in BOOLEAN /\ frameOpen \in BOOLEAN
    /\ at \in {"game", "end", "collect", "begin"}
    /\ begun \in Nat /\ refusals \in Nat /\ spoiled \subseteq Nat

Pos(s) == 1 .. Len(s)

\* The queries 1 .. n that exist are in one place each: in the pool p, at an end
\* of a timing of the ring r, or in hand.
Once(r, p, n, hand) ==
    /\ hand \subseteq 1 .. n
    /\ \A k \in Pos(p) : p[k] \in 1 .. n /\ p[k] \notin hand
    /\ \A k, l \in Pos(p) : p[k] = p[l] => k = l
    /\ \A s \in Ring : \A i \in Pos(r[s].timings) :
          /\ r[s].timings[i].begin \in 1 .. n /\ r[s].timings[i].begin \notin hand
          /\ r[s].timings[i].end \in 1 .. n /\ r[s].timings[i].end \notin hand
          /\ \A k \in Pos(p) : p[k] # r[s].timings[i].begin /\ p[k] # r[s].timings[i].end
    /\ \A s, u \in Ring : \A i \in Pos(r[s].timings) : \A j \in Pos(r[u].timings) :
          /\ r[s].timings[i].begin # r[u].timings[j].end
          /\ r[s].timings[i].begin = r[u].timings[j].begin => s = u /\ i = j
          /\ r[s].timings[i].end = r[u].timings[j].end => s = u /\ i = j

\* None of them is lost.
Whole(r, p, n, hand) ==
    \A q \in 1 .. n :
       \/ q \in hand
       \/ \E k \in Pos(p) : p[k] = q
       \/ \E s \in Ring : \E i \in Pos(r[s].timings) : q \in {r[s].timings[i].begin, r[s].timings[i].end}

QueryInv == Once(slots, spare, made, {}) /\ (spoiled = {} => Whole(slots, spare, made, {}))

\* A timing of frame f: its begin is stamped, its end when it is closed; and
\* only the frame's own is outermost.
Begun(t, f) == t.begin \in DOMAIN stamp /\ stamp[t.begin] = [name |-> t.name, frame |-> f]
Ended(t, f) == t.end \in DOMAIN stamp /\ (f \notin spoiled => stamp[t.end] = [name |-> t.name, frame |-> f])
Outer(t, f) == f \notin spoiled /\ t.depth = 0 => t.name = "Frame"
IsOpen(s, i) == s = writeSlot /\ \E k \in Pos(opened) : opened[k] = i

TimesInv ==
    \A s \in Ring : \A i \in Pos(slots[s].timings) :
       /\ Begun(slots[s].timings[i], slots[s].frame) /\ Outer(slots[s].timings[i], slots[s].frame)
       /\ ~IsOpen(s, i) => Ended(slots[s].timings[i], slots[s].frame)

\* What is open, and what the callers think is open.
OpenInv ==
    /\ ~frameOpen => opened = <<>>
    /\ frameOpen /\ at = "game" => measuring /\ ready
    /\ frameOpen => /\ at \in {"game", "end"} /\ slots[writeSlot].frame = frame
                    /\ ~slots[writeSlot].inFlight
    /\ at # "game" => scopes = <<>>
    /\ \A k \in Pos(opened) : opened[k] \in Pos(slots[writeSlot].timings)
    /\ frameOpen /\ frame \notin spoiled =>
          /\ Len(opened) = Len(scopes) + 1
          /\ slots[writeSlot].timings[opened[1]].name = "Frame"
          /\ \A k \in Pos(scopes) : slots[writeSlot].timings[opened[k + 1]].name = scopes[k]
    /\ \A s \in Ring : slots[s].inFlight \/ (frameOpen /\ s = writeSlot) \/ slots[s].timings = <<>>

OwnRows(rows) ==
    \A i \in Pos(rows) : \A k \in Pos(rows[i].history) :
       rows[i].history[k].begin.frame \notin spoiled =>
          /\ rows[i].history[k].begin = rows[i].history[k].end
          /\ rows[i].history[k].begin.name = rows[i].name
Indexed(rows, places) ==
    \A n \in DOMAIN places : places[n] \in Pos(rows) /\ rows[places[n]].name = n
OwnTime(time) == time # NoPass /\ time.frame \notin spoiled => time.name = "Frame"

TableInv == OwnRows(table) /\ Indexed(table, index) /\ OwnTime(frameTime)

ProfilerInv == ProfilerTypeOK /\ QueryInv /\ TimesInv /\ OpenInv /\ TableInv

-----------------------------------------------------------------------------
\* Induction over numbers, as sets.
LEMMA Least ==
    ASSUME NEW T, T \subseteq Nat, T # {}
    PROVE  \E n \in T : \A m \in T : n <= m
<1> DEFINE R == OpToRel(<, Nat)
<1>1. IsWellFoundedOn(R, Nat)
  BY Zenon, NatLessThanWellFounded
<1>2. ASSUME NEW x \in Nat, NEW y \in Nat, y < x PROVE <<y, x>> \in R
  BY <1>2 DEF OpToRel
<1> HIDE DEF R
<1>3. PICK x \in T : \A y \in T : <<y, x>> \notin R
  BY <1>1, WFMin
<1>4. ASSUME NEW m \in T PROVE x <= m
  <2>1. x \in Nat /\ m \in Nat /\ ~(m < x)
    BY <1>2, <1>3
  <2> QED
    BY <2>1
<1> QED
  BY <1>4

LEMMA UpTo ==
    ASSUME NEW n \in Nat, NEW T, 0 \in T,
           \A i \in 0 .. n : i + 1 \in 0 .. n /\ i \in T => i + 1 \in T
    PROVE  0 .. n \subseteq T
<1> DEFINE D == (0 .. n) \ T
<1> SUFFICES ASSUME D # {} PROVE FALSE
  OBVIOUS
<1>1. D \subseteq Nat
  OBVIOUS
<1>2. \A i \in D : i \in 0 .. n /\ i \notin T
  OBVIOUS
<1>3. \A i \in 0 .. n : i \in D \/ i \in T
  OBVIOUS
<1> HIDE DEF D
<1>4. PICK i \in D : \A m \in D : i <= m
  BY <1>1, Least
<1>5. i \in Nat /\ i # 0 /\ i - 1 \in Nat /\ i - 1 \in 0 .. n /\ (i - 1) + 1 = i
  BY <1>2, <1>4
<1>6. i - 1 \in T
  BY <1>3, <1>4, <1>5
<1> QED
  BY <1>2, <1>4, <1>5, <1>6

\* Repeating a step that stays within a set gives a function.
Stays(step, n, S) == \A i \in 1 .. n : \A t \in S : step[i][t] \in S

Repeated(step, n, S, a) ==
    \E f \in [0 .. n -> S] : f[0] = a /\ \A i \in 1 .. n : f[i] = step[i][f[i - 1]]

LEMMA Iterated ==
    ASSUME NEW n \in Nat, NEW S, NEW a \in S, NEW step, Stays(step, n, S)
    PROVE  Repeated(step, n, S, a)
<1> DEFINE Upto(m, f) == f[0] = a /\ \A i \in 1 .. m : f[i] = step[i][f[i - 1]]
           T == {m \in Nat : \E f \in [0 .. m -> S] : Upto(m, f)}
<1>1. 0 \in T
  <2> DEFINE f == [i \in 0 .. 0 |-> a]
  <2>1. f \in [0 .. 0 -> S] /\ f[0] = a /\ \A i \in 1 .. 0 : FALSE
    OBVIOUS
  <2> QED
    BY <2>1
<1>2. ASSUME NEW m \in 0 .. n, m + 1 \in 0 .. n, m \in T PROVE m + 1 \in T
  <2>1. m \in Nat /\ m + 1 \in Nat /\ m \in 0 .. m /\ m + 1 \in 1 .. n
    BY <1>2
  <2>2. PICK g \in [0 .. m -> S] : Upto(m, g)
    BY <1>2
  <2>3. g[m] \in S
    BY <2>1
  <2>4. step[m + 1][g[m]] \in S
    BY <2>1, <2>3 DEF Stays
  <2> DEFINE f == [i \in 0 .. m + 1 |-> IF i = m + 1 THEN step[m + 1][g[m]] ELSE g[i]]
  <2>5. \A i \in 0 .. m + 1 : i \in 0 .. m \/ i = m + 1
    BY <2>1
  <2>6. f \in [0 .. m + 1 -> S]
    BY <2>4, <2>5
  <2>7. \A i \in 0 .. m : i \in 0 .. m + 1 /\ f[i] = g[i]
    BY <2>1
  <2>8. f[m + 1] = step[m + 1][g[m]]
    BY <2>1
  <2> HIDE DEF f
  <2>9. f[0] = a
    BY <2>1, <2>2, <2>7
  <2>10. ASSUME NEW i \in 1 .. m + 1 PROVE f[i] = step[i][f[i - 1]]
    <3>1. CASE i = m + 1
      <4>1. i - 1 = m
        BY <2>1, <3>1
      <4> QED
        BY <2>1, <2>7, <2>8, <3>1, <4>1
    <3>2. CASE i # m + 1
      <4>1. i \in 1 .. m /\ i \in 0 .. m /\ i - 1 \in 0 .. m
        BY <2>1, <3>2
      <4>2. f[i] = g[i] /\ f[i - 1] = g[i - 1]
        BY <2>7, <4>1
      <4> QED
        BY <2>2, <4>1, <4>2
    <3> QED
      BY <3>1, <3>2
  <2>11. Upto(m + 1, f)
    BY <2>9, <2>10
  <2> QED
    BY <2>1, <2>6, <2>11
<1> HIDE DEF T
<1>3. 0 .. n \subseteq T
  BY <1>1, <1>2, UpTo
<1>4. n \in T
  BY <1>3
<1>5. PICK f \in [0 .. n -> S] : Upto(n, f)
  BY <1>4 DEF T
<1> QED
  BY <1>5 DEF Repeated

-----------------------------------------------------------------------------
(* The rows *)

Tables == {t \in [rows : Seq(Row), index : Indexes, time : Who] :
             OwnRows(t.rows) /\ Indexed(t.rows, t.index) /\ OwnTime(t.time)}

LEMMA RowsAre ==
    ASSUME NEW rows \in Seq(Row), NEW i \in Pos(rows)
    PROVE  /\ rows[i] \in Row /\ rows[i].name \in PassNames /\ rows[i].history \in Seq(Taken)
           /\ rows[i] = [name |-> rows[i].name, history |-> rows[i].history,
                         lastFrame |-> rows[i].lastFrame]
<1>1. rows[i] \in Row
  BY DEF Pos
<1> QED
  BY <1>1 DEF Row

LEMMA IndexesAre ==
    ASSUME NEW d, d \in Indexes
    PROVE  DOMAIN d \subseteq PassNames /\ d \in [DOMAIN d -> Nat]
  BY DEF Indexes

LEMMA PushKeeps ==
    ASSUME ProfilerAssumption, NEW h \in Seq(Taken), NEW x \in Taken
    PROVE  /\ Push(h, x) \in Seq(Taken)
           /\ \A k \in Pos(Push(h, x)) : Push(h, x)[k] = x \/ \E l \in Pos(h) : Push(h, x)[k] = h[l]
<1> DEFINE all == Append(h, x)
<1>1. all \in Seq(Taken) /\ Len(h) \in Nat /\ Len(all) = Len(h) + 1
  OBVIOUS
<1>2. \A k \in 1 .. Len(all) : all[k] = IF k = Len(h) + 1 THEN x ELSE h[k]
  OBVIOUS
<1>3. all # <<>>
  BY <1>1
<1> HIDE DEF all
<1>4. \A k \in 1 .. Len(all) : all[k] = x \/ \E l \in Pos(h) : all[k] = h[l]
  <2> SUFFICES ASSUME NEW k \in 1 .. Len(all), k # Len(h) + 1 PROVE \E l \in Pos(h) : all[k] = h[l]
    BY <1>2
  <2>1. k \in Pos(h) /\ all[k] = h[k]
    BY <1>1, <1>2 DEF Pos
  <2> QED
    BY <2>1
<1>5. /\ Tail(all) \in Seq(Taken) /\ Len(Tail(all)) = Len(h)
      /\ \A k \in 1 .. Len(Tail(all)) : k + 1 \in 1 .. Len(all) /\ Tail(all)[k] = all[k + 1]
  BY <1>1, <1>3
<1>6. CASE Len(all) > HistorySize
  <2>1. Push(h, x) = Tail(all)
    BY <1>6 DEF Push, all
  <2> QED
    BY <1>4, <1>5, <2>1 DEF Pos
<1>7. CASE ~(Len(all) > HistorySize)
  <2>1. Push(h, x) = all
    BY <1>7 DEF Push, all
  <2> QED
    BY <1>1, <1>4, <2>1 DEF Pos
<1> QED
  BY <1>6, <1>7

\* A row more for a name that has none.
LEMMA FindKeeps ==
    ASSUME NEW t \in Tables, NEW name \in PassNames
    PROVE  Find(t, name) \in Tables /\ Find(t, name).time = t.time
<1>1. /\ t.rows \in Seq(Row) /\ t.index \in Indexes /\ t.time \in Who
      /\ t = [rows |-> t.rows, index |-> t.index, time |-> t.time]
      /\ OwnRows(t.rows) /\ Indexed(t.rows, t.index) /\ OwnTime(t.time)
  BY DEF Tables
<1>2. CASE name \in DOMAIN t.index \/ Len(t.rows) >= MaxPasses
  BY <1>2 DEF Find
<1>3. CASE ~(name \in DOMAIN t.index \/ Len(t.rows) >= MaxPasses)
  <2> DEFINE row == [name |-> name, history |-> <<>>, lastFrame |-> 0]
             rows == Append(t.rows, row)
             new == [n \in DOMAIN t.index \cup {name} |->
                        IF n \in DOMAIN t.index THEN t.index[n] ELSE Len(t.rows) + 1]
  <2>1. Find(t, name) = [rows |-> rows, index |-> new, time |-> t.time]
    BY <1>1, <1>3 DEF Find
  <2>2. row \in Row
    BY DEF Row
  <2>3. /\ rows \in Seq(Row) /\ Len(rows) = Len(t.rows) + 1 /\ Len(t.rows) \in Nat
        /\ rows[Len(t.rows) + 1] = row
        /\ \A i \in Pos(t.rows) : i \in Pos(rows) /\ rows[i] = t.rows[i]
        /\ \A i \in Pos(rows) : i \in Pos(t.rows) \/ i = Len(t.rows) + 1
    BY <1>1, <2>2 DEF Pos
  <2>4. row.history = <<>> /\ row.name = name
    OBVIOUS
  <2> HIDE DEF row, rows
  <2>5. DOMAIN t.index \subseteq PassNames /\ \A n \in DOMAIN t.index : t.index[n] \in Nat
    BY <1>1, IndexesAre
  <2>6. new \in Indexes
    <3>1. new \in [DOMAIN t.index \cup {name} -> Nat]
      BY <2>3, <2>5
    <3>2. DOMAIN t.index \cup {name} \in SUBSET PassNames
      BY <2>5
    <3> QED
      BY <3>1, <3>2 DEF Indexes
  <2>7. OwnRows(rows)
    <3> SUFFICES ASSUME NEW i \in Pos(rows), NEW k \in Pos(rows[i].history),
                        rows[i].history[k].begin.frame \notin spoiled
                 PROVE  /\ rows[i].history[k].begin = rows[i].history[k].end
                        /\ rows[i].history[k].begin.name = rows[i].name
      BY DEF OwnRows
    <3>1. i # Len(t.rows) + 1
      BY <2>3, <2>4 DEF Pos
    <3>2. i \in Pos(t.rows) /\ rows[i] = t.rows[i]
      BY <2>3, <3>1
    <3> QED
      BY <1>1, <3>2 DEF OwnRows
  <2>8. Indexed(rows, new)
    <3> SUFFICES ASSUME NEW n \in DOMAIN new PROVE new[n] \in Pos(rows) /\ rows[new[n]].name = n
      BY DEF Indexed
    <3>1. CASE n \in DOMAIN t.index
      <4>1. new[n] = t.index[n]
        BY <3>1
      <4>2. t.index[n] \in Pos(t.rows) /\ t.rows[t.index[n]].name = n
        BY <1>1, <3>1 DEF Indexed
      <4> QED
        BY <2>3, <4>1, <4>2
    <3>2. CASE n \notin DOMAIN t.index
      <4>1. new[n] = Len(t.rows) + 1 /\ n = name
        BY <3>2
      <4>2. Len(t.rows) + 1 \in Pos(rows)
        BY <2>3 DEF Pos
      <4> QED
        BY <2>3, <2>4, <4>1, <4>2
    <3> QED
      BY <3>1, <3>2
  <2> HIDE DEF new
  <2> QED
    BY <1>1, <2>1, <2>3, <2>6, <2>7, <2>8 DEF Tables
<1> QED
  BY <1>2, <1>3

\* A sample that is its pass's own goes into that pass's row.
LEMMA SampleKeeps ==
    ASSUME ProfilerAssumption, NEW t \in Tables, NEW name \in PassNames, NEW x \in Taken,
           x.begin.frame \notin spoiled => x.begin = x.end /\ x.begin.name = name, NEW f \in Nat
    PROVE  Sample(t, name, x, f) \in Tables /\ Sample(t, name, x, f).time = t.time
<1> DEFINE found == Find(t, name)
           i == found.index[name]
<1>1. found \in Tables /\ found.time = t.time
  BY FindKeeps
<1>2. CASE name \notin DOMAIN found.index
  BY <1>1, <1>2 DEF Sample
<1>3. CASE name \in DOMAIN found.index
  <2>1. Sample(t, name, x, f) =
          [found EXCEPT !.rows[i].history = Push(@, x), !.rows[i].lastFrame = f]
    BY <1>3 DEF Sample
  <2> HIDE DEF found
  <2>2. /\ found.rows \in Seq(Row) /\ found.index \in Indexes /\ found.time \in Who
        /\ found = [rows |-> found.rows, index |-> found.index, time |-> found.time]
        /\ OwnRows(found.rows) /\ Indexed(found.rows, found.index) /\ OwnTime(found.time)
    BY <1>1 DEF Tables
  <2>3. i \in Pos(found.rows) /\ found.rows[i].name = name
    BY <1>3, <2>2 DEF Indexed
  <2> HIDE DEF i
  <2> DEFINE row == [name |-> name, history |-> Push(found.rows[i].history, x), lastFrame |-> f]
             rows == [found.rows EXCEPT ![i] = row]
  <2>4. found.rows[i] \in Row /\ found.rows[i].history \in Seq(Taken)
        /\ found.rows[i] = [name |-> name, history |-> found.rows[i].history,
                            lastFrame |-> found.rows[i].lastFrame]
    BY <2>2, <2>3, RowsAre
  <2>5. Sample(t, name, x, f) = [rows |-> rows, index |-> found.index, time |-> found.time]
    <3> DEFINE o == found.rows[i]
    <3>1. [found EXCEPT !.rows[i].history = Push(@, x), !.rows[i].lastFrame = f]
           = [found EXCEPT !.rows = [found.rows EXCEPT ![i] =
                [[o EXCEPT !.history = Push(o.history, x)] EXCEPT !.lastFrame = f]]]
      BY <2>2, <2>3 DEF Pos
    <3>2. [[o EXCEPT !.history = Push(o.history, x)] EXCEPT !.lastFrame = f] = row
      <4> DEFINE h == found.rows[i].history
                 l == found.rows[i].lastFrame
      <4>1. o = [name |-> name, history |-> h, lastFrame |-> l]
        BY <2>4
      <4> HIDE DEF h, l, o
      <4> DEFINE p == Push(h, x)
      <4>2. o.history = h
        BY <4>1
      <4> HIDE DEF p
      <4>3. [o EXCEPT !.history = p] = [name |-> name, history |-> p, lastFrame |-> l]
        BY <4>1
      <4> DEFINE w == [o EXCEPT !.history = p]
      <4>4. w = [name |-> name, history |-> p, lastFrame |-> l]
        BY <4>3
      <4> HIDE DEF w
      <4>5. [w EXCEPT !.lastFrame = f] = [name |-> name, history |-> p, lastFrame |-> f]
        BY <4>4
      <4> QED
        BY <4>2, <4>5 DEF h, p, w
    <3> HIDE DEF o
    <3> QED
      BY <2>1, <2>2, <3>1, <3>2
  <2>6. /\ Push(found.rows[i].history, x) \in Seq(Taken)
        /\ \A k \in Pos(Push(found.rows[i].history, x)) :
              \/ Push(found.rows[i].history, x)[k] = x
              \/ \E l \in Pos(found.rows[i].history) :
                    Push(found.rows[i].history, x)[k] = found.rows[i].history[l]
    BY <2>4, PushKeeps
  <2>7. row \in Row /\ row.name = name /\ row.history = Push(found.rows[i].history, x)
    BY <2>6 DEF Row
  <2> HIDE DEF row
  <2>8. /\ rows \in Seq(Row) /\ Pos(rows) = Pos(found.rows)
        /\ \A j \in Pos(rows) : rows[j] = IF j = i THEN row ELSE found.rows[j]
    BY <2>2, <2>3, <2>7 DEF Pos
  <2> HIDE DEF rows
  <2>9. OwnRows(rows)
    <3> SUFFICES ASSUME NEW j \in Pos(rows), NEW k \in Pos(rows[j].history),
                        rows[j].history[k].begin.frame \notin spoiled
                 PROVE  /\ rows[j].history[k].begin = rows[j].history[k].end
                        /\ rows[j].history[k].begin.name = rows[j].name
      BY DEF OwnRows
    <3>1. CASE j = i
      <4>1. rows[j].history = Push(found.rows[i].history, x) /\ rows[j].name = name
        BY <2>7, <2>8, <3>1
      <4>2. CASE rows[j].history[k] = x
        BY <4>1, <4>2
      <4>3. CASE \E l \in Pos(found.rows[i].history) : rows[j].history[k] = found.rows[i].history[l]
        <5>1. PICK l \in Pos(found.rows[i].history) : rows[j].history[k] = found.rows[i].history[l]
          BY <4>3
        <5> QED
          BY <2>2, <2>3, <4>1, <5>1 DEF OwnRows
      <4> QED
        BY <2>6, <4>1, <4>2, <4>3
    <3>2. CASE j # i
      <4>1. rows[j] = found.rows[j] /\ j \in Pos(found.rows)
        BY <2>8, <3>2
      <4> QED
        BY <2>2, <4>1 DEF OwnRows
    <3> QED
      BY <3>1, <3>2
  <2>10. Indexed(rows, found.index)
    <3> SUFFICES ASSUME NEW n \in DOMAIN found.index
                 PROVE  found.index[n] \in Pos(rows) /\ rows[found.index[n]].name = n
      BY DEF Indexed
    <3>1. found.index[n] \in Pos(found.rows) /\ found.rows[found.index[n]].name = n
      BY <2>2 DEF Indexed
    <3> QED
      BY <2>3, <2>7, <2>8, <3>1
  <2> QED
    BY <1>1, <2>2, <2>5, <2>8, <2>9, <2>10 DEF Tables
<1> QED
  BY <1>2, <1>3

LEMMA AddKeeps ==
    ASSUME ProfilerAssumption, ProfilerTypeOK, NEW t \in Tables, NEW timing \in Timing, NEW f \in Nat,
           Begun(timing, f), Ended(timing, f), Outer(timing, f)
    PROVE  Add(t, timing, f) \in Tables
<1> DEFINE x == [begin |-> stamp[timing.begin], end |-> stamp[timing.end]]
           into == Sample(t, timing.name, x, f)
<1>1. timing.name \in PassNames
  BY DEF Timing
<1>2. x.begin = [name |-> timing.name, frame |-> f] /\ x.begin \in Who /\ x.end \in Who
  BY DEF Begun, Ended, ProfilerTypeOK
<1>3. x \in Taken
  BY <1>2 DEF Taken
<1>4. x.begin.frame \notin spoiled => x.begin = x.end /\ x.begin.name = timing.name
  BY <1>2 DEF Ended
<1>5. Add(t, timing, f) = IF timing.depth = 0 THEN [into EXCEPT !.time = x.begin] ELSE into
  BY DEF Add
<1> HIDE DEF x
<1>6. into \in Tables
  BY <1>1, <1>3, <1>4, SampleKeeps
<1> HIDE DEF into
<1>7. CASE timing.depth = 0
  <2>1. OwnTime(x.begin)
    BY <1>2, <1>7 DEF OwnTime, Outer
  <2>2. /\ into.rows \in Seq(Row) /\ into.index \in Indexes
        /\ into = [rows |-> into.rows, index |-> into.index, time |-> into.time]
        /\ OwnRows(into.rows) /\ Indexed(into.rows, into.index)
    BY <1>6 DEF Tables
  <2>3. Add(t, timing, f) = [rows |-> into.rows, index |-> into.index, time |-> x.begin]
    BY <1>5, <1>7, <2>2
  <2> QED
    BY <1>2, <2>1, <2>2, <2>3 DEF Tables
<1>8. CASE timing.depth # 0
  BY <1>5, <1>6, <1>8
<1> QED
  BY <1>7, <1>8

\* A slot's samples, as Sampled's recursion says.
Adds(s, read, f) ==
    f = [i \in 0 .. Len(slots[s].timings) |->
            IF i = 0 THEN [rows |-> table, index |-> index, time |-> frameTime]
            ELSE IF i \in read THEN Add(f[i - 1], slots[s].timings[i], slots[s].frame)
            ELSE f[i - 1]]

LEMMA SampledKeeps ==
    ASSUME ProfilerAssumption, ProfilerTypeOK, TableInv, NEW s \in Ring, NEW read,
           \A i \in Pos(slots[s].timings) :
              /\ Begun(slots[s].timings[i], slots[s].frame)
              /\ Ended(slots[s].timings[i], slots[s].frame)
              /\ Outer(slots[s].timings[i], slots[s].frame)
    PROVE  Sampled(s, read) \in Tables
<1> DEFINE timings == slots[s].timings
           fr == slots[s].frame
           n == Len(timings)
           start == [rows |-> table, index |-> index, time |-> frameTime]
           step == [i \in 1 .. n |-> [t \in Tables |->
                      IF i \in read THEN Add(t, timings[i], fr) ELSE t]]
<1>1. timings \in Seq(Timing) /\ fr \in Nat /\ n \in Nat
  BY DEF ProfilerTypeOK, Slot
<1>2. start \in Tables
  BY DEF ProfilerTypeOK, TableInv, Tables
<1>3. ASSUME NEW i \in 1 .. n, NEW t \in Tables PROVE Add(t, timings[i], fr) \in Tables
  <2>1. timings[i] \in Timing /\ i \in Pos(timings)
    BY <1>1 DEF Pos
  <2>2. Begun(timings[i], fr) /\ Ended(timings[i], fr) /\ Outer(timings[i], fr)
    BY <2>1
  <2> HIDE DEF timings, fr
  <2> QED
    BY <1>1, <2>1, <2>2, AddKeeps
<1> HIDE DEF start
<1>5. \A i \in 1 .. n : \A t \in Tables :
        step[i][t] = IF i \in read THEN Add(t, timings[i], fr) ELSE t
  OBVIOUS
<1> HIDE DEF step, n
<1>4. Stays(step, n, Tables)
  BY <1>3, <1>5 DEF Stays
<1>6. Repeated(step, n, Tables, start)
  <2>1. n \in Nat
    BY <1>1
  <2> QED
    BY <1>2, <1>4, <2>1, Iterated
<1> PICK g \in [0 .. n -> Tables] :
        g[0] = start /\ \A i \in 1 .. n : g[i] = step[i][g[i - 1]]
  BY <1>6 DEF Repeated
<1>7. ASSUME NEW i \in 0 .. n
      PROVE  g[i] = IF i = 0 THEN start
                    ELSE IF i \in read THEN Add(g[i - 1], timings[i], fr) ELSE g[i - 1]
  <2>1. CASE i = 0
    BY <1>6, <2>1
  <2>2. CASE i # 0
    <3>1. i \in 1 .. n /\ i - 1 \in 0 .. n
      BY <1>1, <2>2
    <3> QED
      BY <1>5, <1>6, <2>2, <3>1
  <2> QED
    BY <2>1, <2>2
<1>8. g = [i \in 0 .. n |-> IF i = 0 THEN start
                    ELSE IF i \in read THEN Add(g[i - 1], timings[i], fr) ELSE g[i - 1]]
  BY <1>7
<1>9. \E f : Adds(s, read, f)
  BY <1>8 DEF Adds, start, n
<1> DEFINE d == CHOOSE f : Adds(s, read, f)
<1>10. Sampled(s, read) = d[n]
  BY DEF Sampled, Adds, n
<1>11. Adds(s, read, d)
  BY <1>9
<1> HIDE DEF d
<1>12. d = [i \in 0 .. n |-> IF i = 0 THEN start
                    ELSE IF i \in read THEN Add(d[i - 1], timings[i], fr) ELSE d[i - 1]]
  BY <1>11 DEF Adds, start, n
<1> HIDE DEF timings, fr
<1>13. \A i \in 0 .. n : d[i] = IF i = 0 THEN start
                    ELSE IF i \in read THEN Add(d[i - 1], timings[i], fr) ELSE d[i - 1]
  BY <1>12
<1> DEFINE T == {i \in Nat : d[i] \in Tables}
<1>14. 0 \in T
  <2>1. 0 \in 0 .. n
    BY <1>1
  <2> QED
    BY <1>2, <1>13, <2>1
<1>15. ASSUME NEW i \in 0 .. n, i + 1 \in 0 .. n, i \in T PROVE i + 1 \in T
  <2>1. i + 1 # 0 /\ (i + 1) - 1 = i /\ i + 1 \in 1 .. n /\ i + 1 \in Nat
    BY <1>1, <1>15
  <2>2. d[i + 1] = IF i + 1 \in read THEN Add(d[i], timings[i + 1], fr) ELSE d[i]
    BY <1>13, <1>15, <2>1
  <2>3. d[i] \in Tables
    BY <1>15
  <2>4. d[i + 1] \in Tables
    BY <1>3, <2>1, <2>2, <2>3
  <2> QED
    BY <2>1, <2>4
<1> HIDE DEF T
<1>16. 0 .. n \subseteq T
  BY <1>1, <1>14, <1>15, UpTo
<1>17. n \in T
  BY <1>1, <1>16
<1> QED
  BY <1>10, <1>17 DEF T

\* The rows that stay, as Retire's recursion says.
Keeps(rows, f) ==
    f = [i \in 0 .. Len(rows) |->
            IF i = 0 THEN <<>>
            ELSE IF frame - rows[i].lastFrame <= RetireFrames THEN Append(f[i - 1], rows[i])
            ELSE f[i - 1]]

\* The first i rows are all there, or there are fewer.
FirstOrFewer(r, rows, i) ==
    Len(r) < i \/ (Len(r) = i /\ \A j \in 1 .. i : r[j] = rows[j])

LEMMA RetireKeeps ==
    ASSUME ProfilerTypeOK, OwnRows(table)
    PROVE  /\ Retire(table) \in Seq(Row) /\ OwnRows(Retire(table))
           /\ Len(Retire(table)) = Len(table) => Retire(table) = table
<1> DEFINE n == Len(table)
           S == {r \in Seq(Row) : OwnRows(r)}
           stays(i) == frame - table[i].lastFrame <= RetireFrames
           step == [i \in 1 .. n |-> [r \in S |-> IF stays(i) THEN Append(r, table[i]) ELSE r]]
<1>1. table \in Seq(Row) /\ n \in Nat /\ <<>> \in S
  BY DEF ProfilerTypeOK, OwnRows, Pos
<1>2. ASSUME NEW i \in 1 .. n, NEW r \in S
      PROVE  Append(r, table[i]) \in S
  <2>1. i \in Pos(table) /\ table[i] \in Row /\ r \in Seq(Row) /\ OwnRows(r)
    BY <1>1 DEF Pos
  <2>2. /\ Append(r, table[i]) \in Seq(Row)
        /\ \A j \in Pos(Append(r, table[i])) :
              \/ Append(r, table[i])[j] = table[i]
              \/ j \in Pos(r) /\ Append(r, table[i])[j] = r[j]
    BY <2>1 DEF Pos
  <2> DEFINE a == Append(r, table[i])
  <2> HIDE DEF a
  <2>3. /\ a \in Seq(Row) /\ \A j \in Pos(a) : a[j] = table[i] \/ (j \in Pos(r) /\ a[j] = r[j])
    BY <2>2 DEF a
  <2>4. OwnRows(a)
    <3> SUFFICES ASSUME NEW j \in Pos(a), NEW k \in Pos(a[j].history),
                        a[j].history[k].begin.frame \notin spoiled
                 PROVE  /\ a[j].history[k].begin = a[j].history[k].end
                        /\ a[j].history[k].begin.name = a[j].name
      BY DEF OwnRows
    <3>1. CASE a[j] = table[i]
      BY <2>1, <3>1 DEF OwnRows
    <3>2. CASE j \in Pos(r) /\ a[j] = r[j]
      BY <2>1, <3>2 DEF OwnRows
    <3> QED
      BY <2>3, <3>1, <3>2
  <2> QED
    BY <2>3, <2>4 DEF a, S
<1>3. \A i \in 1 .. n : \A r \in S : step[i][r] = IF stays(i) THEN Append(r, table[i]) ELSE r
  OBVIOUS
<1> HIDE DEF S, step, n
<1>4. Stays(step, n, S)
  BY <1>2, <1>3 DEF Stays
<1>5. Repeated(step, n, S, <<>>)
  BY <1>1, <1>4, Iterated
<1> PICK g \in [0 .. n -> S] : g[0] = <<>> /\ \A i \in 1 .. n : g[i] = step[i][g[i - 1]]
  BY <1>5 DEF Repeated
<1>6. ASSUME NEW i \in 0 .. n
      PROVE  g[i] = IF i = 0 THEN <<>>
                    ELSE IF stays(i) THEN Append(g[i - 1], table[i]) ELSE g[i - 1]
  <2>1. CASE i = 0
    BY <2>1
  <2>2. CASE i # 0
    <3>1. i \in 1 .. n /\ i - 1 \in 0 .. n
      BY <1>1, <2>2
    <3> QED
      BY <1>3, <2>2, <3>1
  <2> QED
    BY <2>1, <2>2
<1>7. g = [i \in 0 .. n |-> IF i = 0 THEN <<>>
                    ELSE IF stays(i) THEN Append(g[i - 1], table[i]) ELSE g[i - 1]]
  BY <1>6
<1>8. \E f : Keeps(table, f)
  BY <1>7 DEF Keeps, n
<1> DEFINE d == CHOOSE f : Keeps(table, f)
<1>9. Retire(table) = d[n]
  BY DEF Retire, Keeps, n
<1>10. Keeps(table, d)
  BY <1>8
<1> HIDE DEF d
<1>11. d = [i \in 0 .. n |-> IF i = 0 THEN <<>>
                    ELSE IF stays(i) THEN Append(d[i - 1], table[i]) ELSE d[i - 1]]
  BY <1>10 DEF Keeps, n
<1>12. \A i \in 0 .. n : d[i] = IF i = 0 THEN <<>>
                    ELSE IF stays(i) THEN Append(d[i - 1], table[i]) ELSE d[i - 1]
  BY <1>11
<1> HIDE DEF stays
<1> DEFINE T == {i \in Nat : d[i] \in S /\ FirstOrFewer(d[i], table, i)}
<1>13. 0 \in T
  <2>0. 0 \in 0 .. n
    BY <1>1
  <2>1. d[0] = <<>>
    BY <1>12, <2>0
  <2>2. Len(<<>>) = 0 /\ \A j \in 1 .. 0 : FALSE
    OBVIOUS
  <2> QED
    BY <1>1, <2>1, <2>2 DEF FirstOrFewer
<1>14. ASSUME NEW i \in 0 .. n, i + 1 \in 0 .. n, i \in T PROVE i + 1 \in T
  <2>1. i + 1 # 0 /\ (i + 1) - 1 = i /\ i + 1 \in 1 .. n /\ i \in Nat /\ i + 1 \in Nat
    BY <1>1, <1>14
  <2>2. d[i + 1] = IF stays(i + 1) THEN Append(d[i], table[i + 1]) ELSE d[i]
    BY <1>12, <1>14, <2>1
  <2>3. d[i] \in S /\ d[i] \in Seq(Row) /\ FirstOrFewer(d[i], table, i)
    BY <1>14 DEF S
  <2>4. d[i + 1] \in S
    BY <1>2, <2>1, <2>2, <2>3
  <2>5. FirstOrFewer(d[i + 1], table, i + 1)
    <3>1. CASE stays(i + 1)
      <4>1. /\ Len(d[i]) \in Nat /\ Len(d[i + 1]) = Len(d[i]) + 1
            /\ d[i + 1][Len(d[i]) + 1] = table[i + 1]
            /\ \A j \in 1 .. Len(d[i]) : d[i + 1][j] = d[i][j]
        BY <2>2, <2>3, <3>1
      <4>2. CASE Len(d[i]) < i
        BY <2>1, <4>1, <4>2 DEF FirstOrFewer
      <4>3. CASE Len(d[i]) = i /\ \A j \in 1 .. i : d[i][j] = table[j]
        <5>1. \A j \in 1 .. i + 1 : j \in 1 .. i \/ j = i + 1
          BY <2>1
        <5> QED
          BY <4>1, <4>3, <5>1 DEF FirstOrFewer
      <4> QED
        BY <2>3, <4>2, <4>3 DEF FirstOrFewer
    <3>2. CASE ~stays(i + 1)
      <4>1. Len(d[i]) \in Nat /\ d[i + 1] = d[i]
        BY <2>2, <2>3, <3>2
      <4> QED
        BY <2>1, <2>3, <4>1 DEF FirstOrFewer
    <3> QED
      BY <3>1, <3>2
  <2> QED
    BY <2>1, <2>4, <2>5
<1> HIDE DEF T
<1>15. 0 .. n \subseteq T
  BY <1>1, <1>13, <1>14, UpTo
<1>16. n \in T
  BY <1>1, <1>15
<1>17. d[n] \in S /\ FirstOrFewer(d[n], table, n)
  BY <1>16 DEF T
<1>18. d[n] \in Seq(Row) /\ OwnRows(d[n])
  BY <1>17 DEF S
<1>19. Len(d[n]) = Len(table) => d[n] = table
  <2> SUFFICES ASSUME Len(d[n]) = Len(table) PROVE d[n] = table
    OBVIOUS
  <2>1. \A j \in 1 .. Len(table) : d[n][j] = table[j]
    BY <1>17 DEF FirstOrFewer, n
  <2> DEFINE e == d[n]
  <2> HIDE DEF e
  <2>2. e \in Seq(Row) /\ table \in Seq(Row) /\ Len(e) = Len(table)
    BY <1>1, <1>18 DEF e
  <2>3. \A j \in 1 .. Len(table) : e[j] = table[j]
    BY <2>1 DEF e
  <2>4. e = table
    BY <2>2, <2>3
  <2> QED
    BY <2>4 DEF e
<1> QED
  BY <1>9, <1>18, <1>19

LEMMA RebuildKeeps ==
    ASSUME NEW rows \in Seq(Row)
    PROVE  RebuildIndex(rows) \in Indexes /\ Indexed(rows, RebuildIndex(rows))
<1> DEFINE N == {rows[i].name : i \in DOMAIN rows}
           place(n) == CHOOSE i \in DOMAIN rows : rows[i].name = n
<1>1. DOMAIN rows = Pos(rows) /\ Pos(rows) \subseteq Nat
  BY DEF Pos
<1>2. N \subseteq PassNames
  BY <1>1, RowsAre
<1>3. \A n \in N : place(n) \in Pos(rows) /\ rows[place(n)].name = n
  BY <1>1
<1>4. RebuildIndex(rows) = [n \in N |-> place(n)]
  BY DEF RebuildIndex
<1> HIDE DEF N, place
<1>5. [n \in N |-> place(n)] \in [N -> Nat]
  BY <1>1, <1>3
<1>6. RebuildIndex(rows) \in Indexes
  BY <1>2, <1>4, <1>5 DEF Indexes
<1>7. \A n \in DOMAIN RebuildIndex(rows) : n \in N /\ RebuildIndex(rows)[n] = place(n)
  BY <1>4
<1> QED
  BY <1>3, <1>6, <1>7 DEF Indexed

-----------------------------------------------------------------------------
(* The queries *)

LEMMA TimingsAre ==
    ASSUME NEW r \in [Ring -> Slot], NEW s \in Ring
    PROVE  /\ r[s] \in Slot /\ r[s].timings \in Seq(Timing) /\ Len(r[s].timings) \in Nat
           /\ \A i \in Pos(r[s].timings) :
                /\ i \in Nat /\ r[s].timings[i] \in Timing /\ r[s].timings[i].name \in PassNames
                /\ r[s].timings[i].depth \in Nat
                /\ r[s].timings[i].begin \in Nat /\ r[s].timings[i].end \in Nat
<1>1. r[s] \in Slot /\ r[s].timings \in Seq(Timing)
  BY DEF Slot
<1>2. \A i \in Pos(r[s].timings) : i \in Nat /\ r[s].timings[i] \in Timing
  BY <1>1 DEF Pos
<1> QED
  BY <1>1, <1>2 DEF Timing

\* Begins have the odd places, ends the even ones.
LEMMA QueriesAre ==
    ASSUME NEW slot, slot.timings \in Seq(Timing)
    PROVE  /\ Queries(slot) \in Seq(Nat) /\ Len(Queries(slot)) = 2 * Len(slot.timings)
           /\ \A k \in Pos(Queries(slot)) : \E i \in Pos(slot.timings) :
                 \/ k = 2 * i - 1 /\ Queries(slot)[k] = slot.timings[i].begin
                 \/ k = 2 * i /\ Queries(slot)[k] = slot.timings[i].end
           /\ \A i \in Pos(slot.timings) :
                 /\ 2 * i - 1 \in Pos(Queries(slot)) /\ Queries(slot)[2 * i - 1] = slot.timings[i].begin
                 /\ 2 * i \in Pos(Queries(slot)) /\ Queries(slot)[2 * i] = slot.timings[i].end
<1> DEFINE t == slot.timings
           n == Len(t)
           q == Queries(slot)
<1>1. n \in Nat /\ t \in Seq(Timing)
  OBVIOUS
<1>2. \A i \in 1 .. n : t[i].begin \in Nat /\ t[i].end \in Nat
  <2>1. \A i \in 1 .. n : t[i] \in Timing
    BY <1>1
  <2> QED
    BY <2>1 DEF Timing
<1>3. q = [k \in 1 .. 2 * n |-> IF k % 2 = 1 THEN t[(k + 1) \div 2].begin ELSE t[k \div 2].end]
  BY DEF Queries
<1> HIDE DEF t, q, n
<1>4. 2 * n \in Nat
  BY <1>1
<1>5. ASSUME NEW k \in 1 .. 2 * n
      PROVE  \E i \in 1 .. n : \/ k = 2 * i - 1 /\ q[k] = t[i].begin
                               \/ k = 2 * i /\ q[k] = t[i].end
  <2>1. k \in Nat /\ 1 <= k /\ k <= 2 * n
    BY <1>4
  <2>2. q[k] = IF k % 2 = 1 THEN t[(k + 1) \div 2].begin ELSE t[k \div 2].end
    BY <1>3
  <2>3. CASE k % 2 = 1
    <3>1. (k + 1) \div 2 \in 1 .. n /\ k = 2 * ((k + 1) \div 2) - 1
      BY <1>1, <2>1, <2>3
    <3> QED
      BY <2>2, <2>3, <3>1
  <2>4. CASE k % 2 # 1
    <3>1. k \div 2 \in 1 .. n /\ k = 2 * (k \div 2)
      BY <1>1, <2>1, <2>4
    <3> QED
      BY <2>2, <2>4, <3>1
  <2> QED
    BY <2>3, <2>4
<1>6. ASSUME NEW i \in 1 .. n
      PROVE  /\ 2 * i - 1 \in 1 .. 2 * n /\ q[2 * i - 1] = t[i].begin
             /\ 2 * i \in 1 .. 2 * n /\ q[2 * i] = t[i].end
  <2>1. 2 * i - 1 \in 1 .. 2 * n /\ 2 * i \in 1 .. 2 * n
    BY <1>1
  <2>2. (2 * i - 1) % 2 = 1 /\ ((2 * i - 1) + 1) \div 2 = i /\ (2 * i) % 2 # 1 /\ (2 * i) \div 2 = i
    BY <1>1
  <2> QED
    BY <1>3, <2>1, <2>2
<1>7. q \in [1 .. 2 * n -> Nat]
  <2>1. \A k \in 1 .. 2 * n : q[k] \in Nat
    BY <1>2, <1>5
  <2> QED
    BY <1>3, <2>1
<1>8. q \in Seq(Nat) /\ Len(q) = 2 * n
  BY <1>4, <1>7
<1> QED
  BY <1>5, <1>6, <1>8 DEF Pos, t, n, q

\* All but the last.
LEMMA FrontIs ==
    ASSUME NEW S, NEW p \in Seq(S), p # <<>>
    PROVE  /\ Len(p) \in Nat \ {0} /\ Last(p) = p[Len(p)] /\ Last(p) \in S
           /\ Front(p) \in Seq(S) /\ Len(Front(p)) = Len(p) - 1
           /\ \A k \in 1 .. Len(p) - 1 : Front(p)[k] = p[k]
           /\ \A k \in Pos(Front(p)) : k \in Pos(p) /\ k # Len(p) /\ Front(p)[k] = p[k]
           /\ \A k \in Pos(p) : k = Len(p) \/ k \in Pos(Front(p))
           /\ Len(p) \in Pos(p)
<1>1. Len(p) \in Nat \ {0} /\ \A k \in 1 .. Len(p) : p[k] \in S
  OBVIOUS
<1>2. Last(p) = p[Len(p)] /\ Last(p) \in S
  BY <1>1 DEF Last
<1>3. Front(p) = SubSeq(p, 1, Len(p) - 1)
  BY DEF Front
<1> DEFINE m == Len(p) - 1
<1>4. m \in 0 .. Len(p) /\ m \in Nat /\ Front(p) = SubSeq(p, 1, m)
  BY <1>1, <1>3
<1> HIDE DEF m
<1>5. SubSeq(p, 1, m) \in Seq(S) /\ Len(SubSeq(p, 1, m)) = m
  BY <1>1, <1>4
<1>6. \A k \in 1 .. m : SubSeq(p, 1, m)[k] = p[k]
  BY <1>1, <1>4
<1>7. Front(p) \in Seq(S) /\ Len(Front(p)) = Len(p) - 1 /\ \A k \in 1 .. Len(p) - 1 : Front(p)[k] = p[k]
  BY <1>4, <1>5, <1>6 DEF m
<1> QED
  BY <1>1, <1>2, <1>7 DEF Pos

\* A query taken from the pool or made is in hand.
With(h, q) == h \cup {q}

LEMMA AcquireOnce ==
    ASSUME NEW r, NEW p \in Seq(Nat), NEW n \in Nat, NEW h, Once(r, p, n, h),
           NEW a \in AcquireTimestamp([spare |-> p, made |-> n])
    PROVE  /\ a.spare \in Seq(Nat) /\ a.made \in Nat /\ a.query \in Nat
           /\ a.query = 0 => a.spare = p /\ a.made = n /\ refusals < MaxRefusals
           /\ a.query # 0 => /\ a.query \in Nat /\ a.query \notin h
                             /\ Once(r, a.spare, a.made, With(h, a.query))
                             /\ Whole(r, p, n, h) => Whole(r, a.spare, a.made, With(h, a.query))
<1>1. CASE p # <<>>
  <2>1. a = [query |-> Last(p), spare |-> Front(p), made |-> n]
    BY <1>1 DEF AcquireTimestamp
  <2>2. /\ Len(p) \in Nat \ {0} /\ Last(p) = p[Len(p)] /\ Last(p) \in Nat
        /\ Front(p) \in Seq(Nat) /\ Len(Front(p)) = Len(p) - 1
        /\ \A k \in 1 .. Len(p) - 1 : Front(p)[k] = p[k]
    BY <1>1, FrontIs
  <2>3. /\ \A k \in Pos(Front(p)) : k \in Pos(p) /\ k # Len(p) /\ Front(p)[k] = p[k]
        /\ \A k \in Pos(p) : k = Len(p) \/ k \in Pos(Front(p))
        /\ Len(p) \in Pos(p)
    BY <2>2 DEF Pos
  <2> DEFINE b == Front(p)
             q == Last(p)
  <2> HIDE DEF b, q
  <2>4. /\ \A k \in Pos(b) : k \in Pos(p) /\ k # Len(p) /\ b[k] = p[k]
        /\ \A k \in Pos(p) : k = Len(p) \/ k \in Pos(b)
        /\ Len(p) \in Pos(p) /\ q = p[Len(p)]
    BY <2>2, <2>3 DEF b, q
  <2>5. q \in 1 .. n /\ q \notin h
    BY <2>4 DEF Once
  <2>6. Once(r, b, n, h \cup {q})
    <3>1. h \cup {q} \subseteq 1 .. n
      BY <2>5 DEF Once
    <3>2. \A k \in Pos(b) : b[k] \in 1 .. n /\ b[k] \notin h \cup {q}
      BY <2>4 DEF Once
    <3>3. \A k, l \in Pos(b) : b[k] = b[l] => k = l
      BY <2>4 DEF Once
    <3>4. \A s \in Ring : \A i \in Pos(r[s].timings) :
             /\ r[s].timings[i].begin \in 1 .. n /\ r[s].timings[i].begin \notin h \cup {q}
             /\ r[s].timings[i].end \in 1 .. n /\ r[s].timings[i].end \notin h \cup {q}
             /\ \A k \in Pos(b) : b[k] # r[s].timings[i].begin /\ b[k] # r[s].timings[i].end
      BY <2>4 DEF Once
    <3> QED
      BY <3>1, <3>2, <3>3, <3>4 DEF Once
  <2>7. Whole(r, p, n, h) => Whole(r, b, n, h \cup {q})
    BY <2>4 DEF Whole
  <2> QED
    BY <2>1, <2>2, <2>5, <2>6, <2>7 DEF b, q, With
<1>2. CASE p = <<>>
  <2>1. \/ a = [query |-> n + 1, spare |-> <<>>, made |-> n + 1]
        \/ a = [query |-> 0, spare |-> <<>>, made |-> n] /\ refusals < MaxRefusals
    BY <1>2 DEF AcquireTimestamp
  <2>2. CASE a = [query |-> 0, spare |-> <<>>, made |-> n] /\ refusals < MaxRefusals
    BY <1>2, <2>2
  <2>3. CASE a = [query |-> n + 1, spare |-> <<>>, made |-> n + 1]
    <3>1. a.query = n + 1 /\ a.spare = p /\ a.made = n + 1 /\ a.query \in Nat /\ a.query # 0
      BY <1>2, <2>3
    <3>2. /\ n + 1 \notin 1 .. n /\ n + 1 \in 1 .. n + 1
          /\ \A q \in 1 .. n : q \in 1 .. n + 1
          /\ \A q \in 1 .. n + 1 : q \in 1 .. n \/ q = n + 1
      OBVIOUS
    <3>3. n + 1 \notin h
      BY <3>2 DEF Once
    <3> DEFINE m == n + 1
    <3> HIDE DEF m
    <3>4. m \notin 1 .. n /\ m \in 1 .. m /\ m \notin h /\ \A q \in 1 .. n : q \in 1 .. m
      BY <3>2, <3>3 DEF m
    <3>5. Once(r, p, m, h \cup {m})
      <4>1. h \cup {m} \subseteq 1 .. m
        BY <3>4 DEF Once
      <4>2. \A k \in Pos(p) : p[k] \in 1 .. m /\ p[k] \notin h \cup {m}
        BY <3>4 DEF Once
      <4>3. \A k, l \in Pos(p) : p[k] = p[l] => k = l
        BY DEF Once
      <4>4. \A s \in Ring : \A i \in Pos(r[s].timings) :
               /\ r[s].timings[i].begin \in 1 .. m /\ r[s].timings[i].begin \notin h \cup {m}
               /\ r[s].timings[i].end \in 1 .. m /\ r[s].timings[i].end \notin h \cup {m}
               /\ \A k \in Pos(p) : p[k] # r[s].timings[i].begin /\ p[k] # r[s].timings[i].end
        BY <3>4 DEF Once
      <4> QED
        BY <4>1, <4>2, <4>3, <4>4 DEF Once
    <3>6. Whole(r, p, n, h) => Whole(r, p, m, h \cup {m})
      BY <3>2 DEF Whole, m
    <3> QED
      BY <3>1, <3>3, <3>5, <3>6 DEF m, With
  <2> QED
    BY <2>1, <2>2, <2>3
<1> QED
  BY <1>1, <1>2

\* Two queries in hand become a timing's.
Pair(a, b) == {a, b}

Placed(r, r2, s, x) ==
    /\ r[s].timings \in Seq(Timing) /\ r2[s].timings = Append(r[s].timings, x)
    /\ \A u \in Ring : u # s => r2[u].timings = r[u].timings

LEMMA PlaceOnce ==
    ASSUME NEW r, NEW p, NEW n, NEW s \in Ring, NEW r2, NEW x \in Timing, Placed(r, r2, s, x),
           Once(r, p, n, Pair(x.begin, x.end)), x.begin # x.end
    PROVE  /\ Once(r2, p, n, {})
           /\ Whole(r, p, n, Pair(x.begin, x.end)) => Whole(r2, p, n, {})
<1> DEFINE a == x.begin
           b == x.end
           h == Pair(a, b)
<1>p. /\ r[s].timings \in Seq(Timing) /\ r2[s].timings = Append(r[s].timings, x)
      /\ \A u \in Ring : u # s => r2[u].timings = r[u].timings
  BY DEF Placed
<1>o. Once(r, p, n, h) /\ a # b
  OBVIOUS
<1> DEFINE l == Len(r[s].timings) + 1
<1>0. h = {a, b}
  BY DEF Pair
<1> HIDE DEF h
<1>1. /\ \A i \in Pos(r[s].timings) : i \in Pos(r2[s].timings) /\ i # l /\ r2[s].timings[i] = r[s].timings[i]
      /\ \A i \in Pos(r2[s].timings) : i \in Pos(r[s].timings) \/ i = l
      /\ l \in Pos(r2[s].timings) /\ r2[s].timings[l] = x
  BY <1>p DEF Pos
<1> HIDE DEF l
<1> DEFINE Old(u, i) == i \in Pos(r[u].timings) /\ r2[u].timings[i] = r[u].timings[i]
<1>2. \A u \in Ring : \A i \in Pos(r2[u].timings) : Old(u, i) \/ (u = s /\ i = l /\ r2[u].timings[i] = x)
  BY <1>1, <1>p
<1>3. \A u \in Ring : \A i \in Pos(r[u].timings) : i \in Pos(r2[u].timings) /\ Old(u, i)
  BY <1>1, <1>p
<1>4. \A k \in Pos(p) : p[k] # a /\ p[k] # b /\ a \in 1 .. n /\ b \in 1 .. n
  BY <1>0, <1>o DEF Once
<1>5. \A u \in Ring : \A i \in Pos(r[u].timings) :
         /\ r[u].timings[i].begin # a /\ r[u].timings[i].begin # b
         /\ r[u].timings[i].end # a /\ r[u].timings[i].end # b
  BY <1>0, <1>o DEF Once
<1>6. ASSUME NEW u \in Ring, NEW i \in Pos(r2[u].timings)
      PROVE  /\ r2[u].timings[i].begin \in 1 .. n /\ r2[u].timings[i].end \in 1 .. n
             /\ \A k \in Pos(p) : p[k] # r2[u].timings[i].begin /\ p[k] # r2[u].timings[i].end
  <2>1. CASE Old(u, i)
    BY <1>o, <2>1 DEF Once
  <2>2. CASE r2[u].timings[i] = x
    <3>1. a \in 1 .. n /\ b \in 1 .. n
      BY <1>0, <1>o DEF Once
    <3> QED
      BY <1>4, <2>2, <3>1
  <2> QED
    BY <1>2, <2>1, <2>2
<1>7. ASSUME NEW u \in Ring, NEW i \in Pos(r2[u].timings), NEW v \in Ring, NEW j \in Pos(r2[v].timings)
      PROVE  /\ r2[u].timings[i].begin # r2[v].timings[j].end
             /\ r2[u].timings[i].begin = r2[v].timings[j].begin => u = v /\ i = j
             /\ r2[u].timings[i].end = r2[v].timings[j].end => u = v /\ i = j
  <2>1. CASE Old(u, i) /\ Old(v, j)
    BY <1>o, <2>1 DEF Once
  <2>2. CASE Old(u, i) /\ v = s /\ j = l /\ r2[v].timings[j] = x
    <3>1. /\ r2[u].timings[i].begin # a /\ r2[u].timings[i].begin # b
          /\ r2[u].timings[i].end # a /\ r2[u].timings[i].end # b
      BY <1>5, <2>2
    <3> QED
      BY <2>2, <3>1
  <2>3. CASE Old(v, j) /\ u = s /\ i = l /\ r2[u].timings[i] = x
    <3>1. /\ r2[v].timings[j].begin # a /\ r2[v].timings[j].begin # b
          /\ r2[v].timings[j].end # a /\ r2[v].timings[j].end # b
      BY <1>5, <2>3
    <3> QED
      BY <2>3, <3>1
  <2>4. CASE u = s /\ i = l /\ r2[u].timings[i] = x /\ v = s /\ j = l /\ r2[v].timings[j] = x
    BY <2>4
  <2> QED
    BY <1>2, <2>1, <2>2, <2>3, <2>4
<1>8. Once(r2, p, n, {})
  <2>1. \A k \in Pos(p) : p[k] \in 1 .. n
    BY <1>o DEF Once
  <2>2. \A k, m \in Pos(p) : p[k] = p[m] => k = m
    BY <1>o DEF Once
  <2> QED
    BY <1>6, <1>7, <2>1, <2>2 DEF Once
<1>9. ASSUME Whole(r, p, n, h), NEW q \in 1 .. n
      PROVE  \/ \E k \in Pos(p) : p[k] = q
             \/ \E u \in Ring : \E i \in Pos(r2[u].timings) : q \in {r2[u].timings[i].begin, r2[u].timings[i].end}
  <2>1. CASE q \in h
    BY <1>0, <1>1, <2>1
  <2>2. CASE \E u \in Ring : \E i \in Pos(r[u].timings) : q \in {r[u].timings[i].begin, r[u].timings[i].end}
    <3>1. PICK u \in Ring : \E i \in Pos(r[u].timings) : q \in {r[u].timings[i].begin, r[u].timings[i].end}
      BY <2>2
    <3>2. PICK i \in Pos(r[u].timings) : q \in {r[u].timings[i].begin, r[u].timings[i].end}
      BY <3>1
    <3>3. i \in Pos(r2[u].timings) /\ r2[u].timings[i] = r[u].timings[i]
      BY <1>3
    <3> QED
      BY <3>2, <3>3
  <2> QED
    BY <1>9, <2>1, <2>2 DEF Whole
<1> QED
  BY <1>8, <1>9 DEF Whole, h

\* A query in hand goes back to the pool ...
LEMMA BackOnce ==
    ASSUME NEW r, NEW p \in Seq(Nat), NEW n, NEW h, NEW a \in Nat, h = {a}, Once(r, p, n, h)
    PROVE  Append(p, a) \in Seq(Nat) /\ Once(r, Append(p, a), n, {})
<1> DEFINE q == Append(p, a)
           l == Len(p) + 1
<1>1. /\ q \in Seq(Nat) /\ Len(p) \in Nat
      /\ \A k \in Pos(q) : (k \in Pos(p) /\ k # l /\ q[k] = p[k]) \/ (k = l /\ q[k] = a)
  BY DEF Pos
<1> HIDE DEF q, l
<1>2. a \in 1 .. n /\ \A k \in Pos(p) : p[k] # a
  BY DEF Once
<1>3. \A k \in Pos(q) : q[k] \in 1 .. n
  BY <1>1, <1>2 DEF Once
<1>4. \A k, m \in Pos(q) : q[k] = q[m] => k = m
  BY <1>1, <1>2 DEF Once
<1>5. \A s \in Ring : \A i \in Pos(r[s].timings) :
         /\ r[s].timings[i].begin \in 1 .. n /\ r[s].timings[i].end \in 1 .. n
         /\ \A k \in Pos(q) : q[k] # r[s].timings[i].begin /\ q[k] # r[s].timings[i].end
  <2> SUFFICES ASSUME NEW s \in Ring, NEW i \in Pos(r[s].timings)
               PROVE  /\ r[s].timings[i].begin \in 1 .. n /\ r[s].timings[i].end \in 1 .. n
                      /\ \A k \in Pos(q) : q[k] # r[s].timings[i].begin /\ q[k] # r[s].timings[i].end
    OBVIOUS
  <2>1. /\ r[s].timings[i].begin \in 1 .. n /\ r[s].timings[i].begin # a
        /\ r[s].timings[i].end \in 1 .. n /\ r[s].timings[i].end # a
        /\ \A k \in Pos(p) : p[k] # r[s].timings[i].begin /\ p[k] # r[s].timings[i].end
    BY DEF Once
  <2> QED
    BY <1>1, <2>1
<1>6. Once(r, q, n, {})
  BY <1>3, <1>4, <1>5 DEF Once
<1> QED
  BY <1>1, <1>6 DEF q

\* ... or is forgotten.
LEMMA DropOnce ==
    ASSUME NEW r, NEW p, NEW n, NEW h, Once(r, p, n, h)
    PROVE  Once(r, p, n, {})
  BY DEF Once

\* All queries of a slot go back.
LEMMA RecycleOnce ==
    ASSUME NEW r \in [Ring -> Slot], NEW p \in Seq(Nat), NEW n, Once(r, p, n, {}), NEW s \in Ring,
           NEW r2 \in [Ring -> Slot], r2[s].timings = <<>>,
           \A u \in Ring : u # s => r2[u].timings = r[u].timings
    PROVE  /\ p \o Queries(r[s]) \in Seq(Nat)
           /\ Once(r2, p \o Queries(r[s]), n, {})
           /\ Whole(r, p, n, {}) => Whole(r2, p \o Queries(r[s]), n, {})
<1> DEFINE q == Queries(r[s])
           t == r[s].timings
           b == p \o q
<1>1. t \in Seq(Timing) /\ Len(t) \in Nat /\ Len(p) \in Nat
  BY TimingsAre
<1>2. /\ q \in Seq(Nat) /\ Len(q) = 2 * Len(t)
      /\ \A k \in Pos(q) : \E i \in Pos(t) :
            \/ k = 2 * i - 1 /\ q[k] = t[i].begin
            \/ k = 2 * i /\ q[k] = t[i].end
      /\ \A i \in Pos(t) : /\ 2 * i - 1 \in Pos(q) /\ q[2 * i - 1] = t[i].begin
                           /\ 2 * i \in Pos(q) /\ q[2 * i] = t[i].end
  BY <1>1, QueriesAre
<1> HIDE DEF q
<1>3. /\ b \in Seq(Nat) /\ Len(b) = Len(p) + Len(q)
      /\ \A k \in Pos(p) : k \in Pos(b) /\ b[k] = p[k]
      /\ \A k \in Pos(q) : Len(p) + k \in Pos(b) /\ b[Len(p) + k] = q[k]
      /\ \A k \in Pos(b) : k \in Pos(p) \/ (k - Len(p) \in Pos(q) /\ b[k] = q[k - Len(p)])
  <2>1. Len(p) \in Nat /\ Len(q) \in Nat
    BY <1>2
  <2>0. q \in Seq(Nat)
    BY <1>2
  <2>2. b \in Seq(Nat) /\ Len(b) = Len(p) + Len(q)
    BY <2>0
  <2>3. \A k \in 1 .. Len(p) + Len(q) : b[k] = IF k <= Len(p) THEN p[k] ELSE q[k - Len(p)]
    BY <2>0
  <2>4. \A k \in 1 .. Len(p) : k \in 1 .. Len(p) + Len(q) /\ k <= Len(p)
    BY <2>1
  <2>5. \A k \in 1 .. Len(q) : /\ Len(p) + k \in 1 .. Len(p) + Len(q)
                               /\ ~(Len(p) + k <= Len(p)) /\ (Len(p) + k) - Len(p) = k
    BY <2>1
  <2>6. \A k \in 1 .. Len(p) + Len(q) :
           k \in 1 .. Len(p) \/ (k - Len(p) \in 1 .. Len(q) /\ ~(k <= Len(p)))
    BY <2>1
  <2> HIDE DEF b
  <2> QED
    BY <2>2, <2>3, <2>4, <2>5, <2>6 DEF Pos
<1> HIDE DEF b
<1>4. Pos(r2[s].timings) = {}
  BY DEF Pos
<1>5. \A u \in Ring : \A i \in Pos(r2[u].timings) : 
         u # s /\ i \in Pos(r[u].timings) /\ r2[u].timings[i] = r[u].timings[i]
  <2> SUFFICES ASSUME NEW u \in Ring, NEW i \in Pos(r2[u].timings)
               PROVE  u # s /\ i \in Pos(r[u].timings) /\ r2[u].timings[i] = r[u].timings[i]
    OBVIOUS
  <2>1. u # s
    BY <1>4
  <2>2. r2[u].timings = r[u].timings
    BY <2>1
  <2> QED
    BY <2>1, <2>2
<1> HIDE DEF t
<1> DEFINE FromSlot(k) == \E i \in Pos(t) : \/ k = Len(p) + 2 * i - 1 /\ b[k] = t[i].begin
                                            \/ k = Len(p) + 2 * i /\ b[k] = t[i].end
           FromPool(k) == k \in Pos(p) /\ b[k] = p[k]
<1>6. \A k \in Pos(b) : FromPool(k) \/ FromSlot(k)
  <2> SUFFICES ASSUME NEW k \in Pos(b), ~FromPool(k) PROVE FromSlot(k)
    OBVIOUS
  <2>1. k - Len(p) \in Pos(q) /\ b[k] = q[k - Len(p)] /\ k \in Nat
    BY <1>3 DEF Pos
  <2>2. PICK i \in Pos(t) : \/ k - Len(p) = 2 * i - 1 /\ q[k - Len(p)] = t[i].begin
                            \/ k - Len(p) = 2 * i /\ q[k - Len(p)] = t[i].end
    BY <1>2, <2>1
  <2>3. i \in Nat
    BY DEF Pos
  <2>4. \/ k = Len(p) + 2 * i - 1 /\ b[k] = t[i].begin
        \/ k = Len(p) + 2 * i /\ b[k] = t[i].end
    BY <1>1, <2>1, <2>2, <2>3
  <2> QED
    BY <2>4
<1>7. \A i \in Pos(t) : i \in Nat /\ t[i].begin \in 1 .. n /\ t[i].end \in 1 .. n
                        /\ \A k \in Pos(p) : p[k] # t[i].begin /\ p[k] # t[i].end
  BY DEF Once, t, Pos
<1>8. \A i, j \in Pos(t) : /\ t[i].begin # t[j].end
                           /\ t[i].begin = t[j].begin => i = j
                           /\ t[i].end = t[j].end => i = j
  BY DEF Once, t
<1>9. \A u \in Ring : \A i \in Pos(r2[u].timings) : \A j \in Pos(t) :
         /\ r2[u].timings[i].begin # t[j].begin /\ r2[u].timings[i].begin # t[j].end
         /\ r2[u].timings[i].end # t[j].begin /\ r2[u].timings[i].end # t[j].end
  <2> SUFFICES ASSUME NEW u \in Ring, NEW i \in Pos(r2[u].timings), NEW j \in Pos(t)
               PROVE  /\ r2[u].timings[i].begin # t[j].begin /\ r2[u].timings[i].begin # t[j].end
                      /\ r2[u].timings[i].end # t[j].begin /\ r2[u].timings[i].end # t[j].end
    OBVIOUS
  <2>1. u # s /\ i \in Pos(r[u].timings) /\ r2[u].timings[i] = r[u].timings[i]
    BY <1>5
  <2>2. /\ r[u].timings[i].begin # t[j].begin /\ r[u].timings[i].begin # t[j].end
        /\ r[u].timings[i].end # t[j].begin /\ r[u].timings[i].end # t[j].end
    BY <2>1 DEF Once, t
  <2> QED
    BY <2>1, <2>2
<1>10. \A k \in Pos(b) : b[k] \in 1 .. n
  BY <1>6, <1>7 DEF Once
<1>11. ASSUME NEW k \in Pos(b), NEW l \in Pos(b), b[k] = b[l] PROVE k = l
  <2>1. CASE FromPool(k) /\ FromPool(l)
    BY <1>11, <2>1 DEF Once
  <2>2. CASE FromPool(k) /\ FromSlot(l)
    BY <1>7, <1>11, <2>2
  <2>3. CASE FromSlot(k) /\ FromPool(l)
    BY <1>7, <1>11, <2>3
  <2>4. CASE FromSlot(k) /\ FromSlot(l)
    <3>1. PICK i \in Pos(t) : \/ k = Len(p) + 2 * i - 1 /\ b[k] = t[i].begin
                              \/ k = Len(p) + 2 * i /\ b[k] = t[i].end
      BY <2>4
    <3>2. PICK j \in Pos(t) : \/ l = Len(p) + 2 * j - 1 /\ b[l] = t[j].begin
                              \/ l = Len(p) + 2 * j /\ b[l] = t[j].end
      BY <2>4
    <3>3. /\ t[i].begin # t[j].end /\ t[j].begin # t[i].end
          /\ t[i].begin = t[j].begin => i = j
          /\ t[i].end = t[j].end => i = j
      BY <1>8
    <3> QED
      BY <1>11, <3>1, <3>2, <3>3
  <2> QED
    BY <1>6, <2>1, <2>2, <2>3, <2>4
<1>12. \A u \in Ring : \A i \in Pos(r2[u].timings) :
         /\ r2[u].timings[i].begin \in 1 .. n /\ r2[u].timings[i].end \in 1 .. n
  BY <1>5 DEF Once
<1>13. \A u \in Ring : \A i \in Pos(r2[u].timings) :
         \A k \in Pos(b) : b[k] # r2[u].timings[i].begin /\ b[k] # r2[u].timings[i].end
  <2> SUFFICES ASSUME NEW u \in Ring, NEW i \in Pos(r2[u].timings), NEW k \in Pos(b)
               PROVE  b[k] # r2[u].timings[i].begin /\ b[k] # r2[u].timings[i].end
    OBVIOUS
  <2>1. CASE FromPool(k)
    <3>1. i \in Pos(r[u].timings) /\ r2[u].timings[i] = r[u].timings[i]
      BY <1>5
    <3>2. p[k] # r[u].timings[i].begin /\ p[k] # r[u].timings[i].end
      BY <2>1, <3>1 DEF Once
    <3> QED
      BY <2>1, <3>1, <3>2
  <2>2. CASE FromSlot(k)
    BY <1>9, <2>2
  <2> QED
    BY <1>6, <2>1, <2>2
<1>14. \A u, v \in Ring : \A i \in Pos(r2[u].timings) : \A j \in Pos(r2[v].timings) :
          /\ r2[u].timings[i].begin # r2[v].timings[j].end
          /\ r2[u].timings[i].begin = r2[v].timings[j].begin => u = v /\ i = j
          /\ r2[u].timings[i].end = r2[v].timings[j].end => u = v /\ i = j
  <2> SUFFICES ASSUME NEW u \in Ring, NEW v \in Ring,
                      NEW i \in Pos(r2[u].timings), NEW j \in Pos(r2[v].timings)
               PROVE  /\ r2[u].timings[i].begin # r2[v].timings[j].end
                      /\ r2[u].timings[i].begin = r2[v].timings[j].begin => u = v /\ i = j
                      /\ r2[u].timings[i].end = r2[v].timings[j].end => u = v /\ i = j
    OBVIOUS
  <2>1. /\ i \in Pos(r[u].timings) /\ r2[u].timings[i] = r[u].timings[i]
        /\ j \in Pos(r[v].timings) /\ r2[v].timings[j] = r[v].timings[j]
    BY <1>5
  <2>2. /\ r[u].timings[i].begin # r[v].timings[j].end
        /\ r[u].timings[i].begin = r[v].timings[j].begin => u = v /\ i = j
        /\ r[u].timings[i].end = r[v].timings[j].end => u = v /\ i = j
    BY <2>1 DEF Once
  <2> QED
    BY <2>1, <2>2
<1>15. Once(r2, b, n, {})
  BY <1>10, <1>11, <1>12, <1>13, <1>14 DEF Once
<1>16. ASSUME Whole(r, p, n, {}), NEW x \in 1 .. n
       PROVE  \/ \E k \in Pos(b) : b[k] = x
              \/ \E u \in Ring : \E i \in Pos(r2[u].timings) : x \in {r2[u].timings[i].begin, r2[u].timings[i].end}
  <2>1. CASE \E k \in Pos(p) : p[k] = x
    BY <1>3, <2>1
  <2>2. CASE \E u \in Ring : \E i \in Pos(r[u].timings) : x \in {r[u].timings[i].begin, r[u].timings[i].end}
    <3>1. PICK u \in Ring : \E i \in Pos(r[u].timings) : x \in {r[u].timings[i].begin, r[u].timings[i].end}
      BY <2>2
    <3>2. PICK i \in Pos(r[u].timings) : x \in {r[u].timings[i].begin, r[u].timings[i].end}
      BY <3>1
    <3>3. CASE u # s
      <4>1. r2[u].timings = r[u].timings
        BY <3>3
      <4> QED
        BY <3>2, <4>1
    <3>4. CASE u = s
      <4>1. i \in Pos(t) /\ x \in {t[i].begin, t[i].end}
        BY <3>2, <3>4 DEF t
      <4>2. /\ Len(p) + (2 * i - 1) \in Pos(b) /\ b[Len(p) + (2 * i - 1)] = t[i].begin
            /\ Len(p) + 2 * i \in Pos(b) /\ b[Len(p) + 2 * i] = t[i].end
        BY <1>2, <1>3, <4>1
      <4> QED
        BY <4>1, <4>2
    <3> QED
      BY <3>3, <3>4
  <2> QED
    BY <1>16, <2>1, <2>2 DEF Whole
<1> QED
  BY <1>3, <1>15, <1>16 DEF Whole, b, q

-----------------------------------------------------------------------------
(* Beginning a pass *)

\* It is measured by a timing more, whose begin is stamped and nobody else's, ...
Measured(name, f, ring, stack, t) ==
    /\ t \in Timing /\ t.name = name /\ t.depth = Len(stack)
    /\ slots' = [ring EXCEPT ![writeSlot].timings = Append(@, t)]
    /\ opened' = Append(stack, Len(ring[writeSlot].timings) + 1)
    /\ stamp' = Stamped({t.begin}, [name |-> name, frame |-> f])
    /\ spoiled' = spoiled
    /\ \A s \in Ring : \A i \in Pos(ring[s].timings) :
          ring[s].timings[i].begin # t.begin /\ ring[s].timings[i].end # t.begin

\* ... or the device refused.
Unmeasured(f, ring, stack) ==
    slots' = ring /\ opened' = stack /\ spoiled' = spoiled \cup {f} /\ stamp' = stamp

LEMMA BeginPassIs ==
    ASSUME ProfilerTypeOK, NEW name \in PassNames, NEW f \in Nat, NEW ring \in [Ring -> Slot],
           NEW pool \in Seq(Nat), NEW stack \in Seq(Nat), writeSlot' = writeSlot,
           Once(ring, pool, made, {}), BeginPass(name, f, ring, pool, stack)
    PROVE  /\ spare' \in Seq(Nat) /\ made' \in Nat /\ refusals' \in Nat
           /\ Once(slots', spare', made', {})
           /\ spoiled' = {} /\ Whole(ring, pool, made, {}) => Whole(slots', spare', made', {})
           /\ (\E t : Measured(name, f, ring, stack, t)) \/ Unmeasured(f, ring, stack)
<1>1. made \in Nat /\ refusals \in Nat /\ writeSlot \in Ring
  BY DEF ProfilerTypeOK
<1> DEFINE Made(a, b) ==
             /\ made' = b.made
             /\ IF a.query # 0 /\ b.query # 0
                THEN /\ spare' = b.spare
                     /\ slots' = [ring EXCEPT ![writeSlot].timings =
                                     Append(@, [name |-> name, depth |-> Len(stack),
                                                begin |-> a.query, end |-> b.query])]
                     /\ opened' = Append(stack, Len(ring[writeSlot].timings) + 1)
                     /\ stamp' = Stamped({a.query}, [name |-> name, frame |-> f])
                     /\ refusals' = refusals /\ spoiled' = spoiled
                ELSE /\ spare' = IF a.query = 0 THEN b.spare ELSE Append(b.spare, a.query)
                     /\ slots' = ring /\ opened' = stack
                     /\ refusals' = refusals + 1
                     /\ spoiled' = spoiled \cup {f}
                     /\ stamp' = stamp
<1>2. \E a \in AcquireTimestamp([spare |-> pool, made |-> made]) :
      \E b \in AcquireTimestamp([spare |-> a.spare, made |-> a.made]) : Made(a, b)
  BY DEF BeginPass
<1> PICK a \in AcquireTimestamp([spare |-> pool, made |-> made]) :
      \E b \in AcquireTimestamp([spare |-> a.spare, made |-> a.made]) : Made(a, b)
  BY <1>2
<1>3. PICK b \in AcquireTimestamp([spare |-> a.spare, made |-> a.made]) : Made(a, b)
  OBVIOUS
<1> HIDE DEF Made
<1>4. /\ a.spare \in Seq(Nat) /\ a.made \in Nat /\ a.query \in Nat
      /\ a.query = 0 => a.spare = pool /\ a.made = made
      /\ a.query # 0 => /\ Once(ring, a.spare, a.made, With({}, a.query))
                        /\ Whole(ring, pool, made, {}) => Whole(ring, a.spare, a.made, With({}, a.query))
  BY <1>1, AcquireOnce
<1>5. With({}, a.query) = {a.query}
  BY DEF With
<1>6. CASE a.query = 0
  <2>1. /\ b.spare \in Seq(Nat) /\ b.made \in Nat
        /\ b.query = 0 => b.spare = pool /\ b.made = made
        /\ b.query # 0 => Once(ring, b.spare, b.made, With({}, b.query))
    BY <1>1, <1>4, <1>6, AcquireOnce
  <2>2. Once(ring, b.spare, b.made, {})
    BY <2>1, DropOnce
  <2>3. /\ made' = b.made /\ spare' = b.spare /\ refusals' = refusals + 1
        /\ Unmeasured(f, ring, stack) /\ slots' = ring /\ spoiled' # {}
    BY <1>3, <1>6 DEF Made, Unmeasured
  <2> QED
    BY <1>1, <2>1, <2>2, <2>3
<1>7. CASE a.query # 0
  <2> DEFINE h == {a.query}
  <2>1. Once(ring, a.spare, a.made, h)
        /\ (Whole(ring, pool, made, {}) => Whole(ring, a.spare, a.made, h))
    BY <1>4, <1>5, <1>7
  <2> HIDE DEF h
  <2>2. /\ b.spare \in Seq(Nat) /\ b.made \in Nat /\ b.query \in Nat
        /\ b.query = 0 => b.spare = a.spare /\ b.made = a.made
        /\ b.query # 0 => /\ b.query \notin h
                          /\ Once(ring, b.spare, b.made, With(h, b.query))
                          /\ Whole(ring, a.spare, a.made, h) => Whole(ring, b.spare, b.made, With(h, b.query))
    BY <1>4, <2>1, AcquireOnce
  <2>3. CASE b.query = 0
    <3>1. /\ made' = b.made /\ spare' = Append(b.spare, a.query) /\ refusals' = refusals + 1
          /\ Unmeasured(f, ring, stack) /\ slots' = ring /\ spoiled' # {}
      BY <1>3, <1>7, <2>3 DEF Made, Unmeasured
    <3>2. Once(ring, b.spare, b.made, h) /\ h = {a.query}
      BY <2>1, <2>2, <2>3 DEF h
    <3>3. spare' \in Seq(Nat) /\ Once(ring, spare', made', {})
      BY <1>4, <2>2, <3>1, <3>2, BackOnce
    <3> QED
      BY <1>1, <2>2, <3>1, <3>3
  <2>4. CASE b.query # 0
    <3> DEFINE t == [name |-> name, depth |-> Len(stack), begin |-> a.query, end |-> b.query]
               both == With(h, b.query)
    <3>1. /\ made' = b.made /\ spare' = b.spare /\ refusals' = refusals /\ spoiled' = spoiled
          /\ slots' = [ring EXCEPT ![writeSlot].timings = Append(@, t)]
          /\ opened' = Append(stack, Len(ring[writeSlot].timings) + 1)
          /\ stamp' = Stamped({t.begin}, [name |-> name, frame |-> f])
      BY <1>3, <1>7, <2>4 DEF Made
    <3>2. t \in Timing /\ t.name = name /\ t.depth = Len(stack) /\ t.begin = a.query /\ t.end = b.query
      BY <1>4, <2>2 DEF Timing
    <3> HIDE DEF t
    <3>a. ring[writeSlot].timings \in Seq(Timing) /\ ring[writeSlot] \in Slot
      BY <1>1, TimingsAre
    <3>3. Append(ring[writeSlot].timings, t) \in Seq(Timing)
      BY <3>2, <3>a
    <3>4. /\ slots' \in [Ring -> Slot] /\ slots'[writeSlot].timings = Append(ring[writeSlot].timings, t)
          /\ \A u \in Ring : u # writeSlot => slots'[u].timings = ring[u].timings
      <4> DEFINE o == [ring[writeSlot] EXCEPT !.timings = Append(ring[writeSlot].timings, t)]
      <4>1. o \in Slot /\ o.timings = Append(ring[writeSlot].timings, t)
        BY <3>3, <3>a DEF Slot
      <4>2. slots' = [ring EXCEPT ![writeSlot] = o]
        BY <3>1
      <4> HIDE DEF o
      <4> QED
        BY <1>1, <4>1, <4>2
    <3>5. both = Pair(a.query, b.query) /\ a.query # b.query /\ a.query \in both /\ b.query \in both
      BY <2>2, <2>4 DEF h, With, Pair
    <3>6. Once(ring, b.spare, b.made, both)
          /\ (Whole(ring, pool, made, {}) => Whole(ring, b.spare, b.made, both))
      BY <2>1, <2>2, <2>4
    <3> HIDE DEF both
    <3>7. /\ Once(slots', b.spare, b.made, {})
          /\ Whole(ring, b.spare, b.made, both) => Whole(slots', b.spare, b.made, {})
      <4> DEFINE r2 == slots'
                 p == b.spare
                 n == b.made
      <4>1. Placed(ring, r2, writeSlot, t)
        BY <3>4, <3>a DEF Placed
      <4>2. writeSlot \in Ring /\ t \in Timing /\ t.begin # t.end /\ both = Pair(t.begin, t.end)
        BY <1>1, <3>2, <3>5
      <4>3. Once(ring, p, n, Pair(t.begin, t.end))
        BY <3>6, <4>2
      <4> HIDE DEF r2, p, n
      <4>4. /\ Once(r2, p, n, {})
            /\ Whole(ring, p, n, Pair(t.begin, t.end)) => Whole(r2, p, n, {})
        BY <4>1, <4>2, <4>3, PlaceOnce
      <4> QED
        BY <4>2, <4>4 DEF r2, p, n
    <3>8. \A s \in Ring : \A i \in Pos(ring[s].timings) :
             ring[s].timings[i].begin # t.begin /\ ring[s].timings[i].end # t.begin
      BY <3>2, <3>5, <3>6 DEF Once
    <3>9. Measured(name, f, ring, stack, t)
      BY <3>1, <3>2, <3>8 DEF Measured
    <3> QED
      BY <1>1, <2>2, <3>1, <3>6, <3>7, <3>9
  <2> QED
    BY <2>3, <2>4
<1> QED
  BY <1>6, <1>7

\* Of the timings after a step.
BegunNext(t, f) == t.begin \in DOMAIN stamp' /\ stamp'[t.begin] = [name |-> t.name, frame |-> f]
EndedNext(t, f) ==
    t.end \in DOMAIN stamp' /\ (f \notin spoiled' => stamp'[t.end] = [name |-> t.name, frame |-> f])
OuterNext(t, f) == f \notin spoiled' /\ t.depth = 0 => t.name = "Frame"
OpenNext(s, i) == s = writeSlot' /\ \E k \in Pos(opened') : opened'[k] = i

LEMMA TimesNext ==
    ASSUME \A s \in Ring : \A i \in Pos(slots'[s].timings) :
              /\ BegunNext(slots'[s].timings[i], slots'[s].frame)
              /\ OuterNext(slots'[s].timings[i], slots'[s].frame)
              /\ ~OpenNext(s, i) => EndedNext(slots'[s].timings[i], slots'[s].frame)
    PROVE  TimesInv'
  BY DEF TimesInv, Begun, Ended, Outer, IsOpen, BegunNext, EndedNext, OuterNext, OpenNext, Ring, Pos

\* The stamps of one pass.
LEMMA StampedIs ==
    ASSUME ProfilerTypeOK, NEW qs, qs \subseteq Nat, NEW who \in Who
    PROVE  /\ DOMAIN Stamped(qs, who) = DOMAIN stamp \cup qs /\ DOMAIN stamp \cup qs \subseteq Nat
           /\ \A q \in DOMAIN stamp \cup qs :
                /\ Stamped(qs, who)[q] \in Who
                /\ Stamped(qs, who)[q] = IF q \in qs THEN who ELSE stamp[q]
  BY DEF Stamped, ProfilerTypeOK

\* The timings of ring, some of them open.
Fit(ring, stack) ==
    \A s \in Ring : \A i \in Pos(ring[s].timings) :
       /\ Begun(ring[s].timings[i], ring[s].frame) /\ Outer(ring[s].timings[i], ring[s].frame)
       /\ ~(s = writeSlot /\ \E k \in Pos(stack) : stack[k] = i) => Ended(ring[s].timings[i], ring[s].frame)

LEMMA FitIs == TimesInv <=> Fit(slots, opened)
  BY DEF TimesInv, Fit, IsOpen

LEMMA BeginPassFits ==
    ASSUME ProfilerTypeOK, NEW name \in PassNames, NEW f \in Nat, NEW ring \in [Ring -> Slot],
           NEW stack \in Seq(Nat), writeSlot' = writeSlot,
           (\E t : Measured(name, f, ring, stack, t)) \/ Unmeasured(f, ring, stack),
           Fit(ring, stack), ring[writeSlot].frame = f,
           f \notin spoiled /\ stack = <<>> => name = "Frame"
    PROVE  /\ slots' \in [Ring -> Slot] /\ opened' \in Seq(Nat) /\ spoiled' \subseteq Nat
           /\ DOMAIN stamp' \subseteq Nat /\ \A q \in DOMAIN stamp' : stamp'[q] \in Who
           /\ TimesInv'
           /\ spoiled \subseteq spoiled'
           /\ \A s \in Ring : slots'[s].frame = ring[s].frame /\ slots'[s].inFlight = ring[s].inFlight
           /\ \A s \in Ring : s # writeSlot => slots'[s].timings = ring[s].timings
<1>1. writeSlot \in Ring /\ spoiled \subseteq Nat /\ DOMAIN stamp \subseteq Nat
      /\ \A q \in DOMAIN stamp : stamp[q] \in Who
  BY DEF ProfilerTypeOK
<1>2. CASE Unmeasured(f, ring, stack)
  <2>1. slots' = ring /\ opened' = stack /\ spoiled' = spoiled \cup {f} /\ stamp' = stamp
    BY <1>2 DEF Unmeasured
  <2>2. TimesInv'
    <3>1. ASSUME NEW s \in Ring, NEW i \in Pos(slots'[s].timings)
          PROVE  /\ BegunNext(slots'[s].timings[i], slots'[s].frame)
                 /\ OuterNext(slots'[s].timings[i], slots'[s].frame)
                 /\ ~OpenNext(s, i) => EndedNext(slots'[s].timings[i], slots'[s].frame)
      <4>1. /\ slots'[s] = ring[s] /\ i \in Pos(ring[s].timings) /\ spoiled \subseteq spoiled'
            /\ OpenNext(s, i) <=> s = writeSlot /\ \E k \in Pos(stack) : stack[k] = i
        BY <2>1 DEF OpenNext
      <4>2. /\ Begun(ring[s].timings[i], ring[s].frame) /\ Outer(ring[s].timings[i], ring[s].frame)
            /\ ~OpenNext(s, i) => Ended(ring[s].timings[i], ring[s].frame)
        BY <4>1 DEF Fit
      <4> QED
        BY <2>1, <4>1, <4>2 DEF Begun, Outer, Ended, BegunNext, OuterNext, EndedNext
    <3> QED
      BY <3>1, TimesNext
  <2> QED
    BY <1>1, <2>1, <2>2
<1>3. CASE \E t : Measured(name, f, ring, stack, t)
  <2>1. PICK t : Measured(name, f, ring, stack, t)
    BY <1>3
  <2> DEFINE l == Len(ring[writeSlot].timings) + 1
             who == [name |-> name, frame |-> f]
             o == [ring[writeSlot] EXCEPT !.timings = Append(ring[writeSlot].timings, t)]
  <2>2. /\ t \in Timing /\ t.name = name /\ t.depth = Len(stack) /\ t.begin \in Nat
        /\ slots' = [ring EXCEPT ![writeSlot] = o]
        /\ opened' = Append(stack, l) /\ stamp' = Stamped({t.begin}, who) /\ spoiled' = spoiled
    BY <2>1 DEF Measured, Timing
  <2>3. \A s \in Ring : \A i \in Pos(ring[s].timings) :
             ring[s].timings[i].begin # t.begin /\ ring[s].timings[i].end # t.begin
    BY <2>1 DEF Measured
  <2>4. who \in Who /\ {t.begin} \subseteq Nat
    BY <2>2 DEF Who
  <2> HIDE DEF who
  <2>5. /\ DOMAIN stamp' = DOMAIN stamp \cup {t.begin} /\ DOMAIN stamp' \subseteq Nat
        /\ stamp'[t.begin] = who
        /\ \A q \in DOMAIN stamp' : stamp'[q] \in Who
        /\ \A q \in DOMAIN stamp : q # t.begin => stamp'[q] = stamp[q]
    <3> DEFINE qs == {t.begin}
    <3>1. qs \subseteq Nat /\ stamp' = Stamped(qs, who) /\ t.begin \in qs /\ \A q \in qs : q = t.begin
      BY <2>2
    <3> HIDE DEF qs
    <3>2. /\ DOMAIN stamp' = DOMAIN stamp \cup qs /\ DOMAIN stamp \cup qs \subseteq Nat
          /\ \A q \in DOMAIN stamp \cup qs :
                /\ stamp'[q] \in Who
                /\ stamp'[q] = IF q \in qs THEN who ELSE stamp[q]
      BY <2>4, <3>1, StampedIs
    <3>3. DOMAIN stamp' = DOMAIN stamp \cup {t.begin}
      BY <3>2 DEF qs
    <3> QED
      BY <3>1, <3>2, <3>3
  <2>6. /\ ring[writeSlot] \in Slot /\ ring[writeSlot].timings \in Seq(Timing)
        /\ Len(ring[writeSlot].timings) \in Nat
    BY <1>1, TimingsAre
  <2>7. /\ o \in Slot /\ o.timings = Append(ring[writeSlot].timings, t)
        /\ o.frame = f /\ o.inFlight = ring[writeSlot].inFlight
    <3>1. t \in Timing
      BY <2>2
    <3>2. Append(ring[writeSlot].timings, t) \in Seq(Timing)
      BY <2>6, <3>1
    <3> QED
      BY <2>6, <3>2 DEF Slot
  <2>8. /\ Pos(o.timings) = Pos(ring[writeSlot].timings) \cup {l} /\ o.timings[l] = t
        /\ l \notin Pos(ring[writeSlot].timings) /\ l \in Nat
        /\ \A i \in Pos(ring[writeSlot].timings) : o.timings[i] = ring[writeSlot].timings[i]
    <3> DEFINE b == ring[writeSlot].timings
    <3>1. b \in Seq(Timing) /\ o.timings = Append(b, t) /\ t \in Timing /\ l = Len(b) + 1
      BY <2>2, <2>6, <2>7
    <3> HIDE DEF b, o, l
    <3>2. /\ Pos(o.timings) = Pos(b) \cup {l} /\ o.timings[l] = t /\ l \notin Pos(b) /\ l \in Nat
          /\ \A i \in Pos(b) : o.timings[i] = b[i]
      BY <3>1 DEF Pos
    <3> QED
      BY <3>2 DEF b
  <2>9. /\ Append(stack, l) \in Seq(Nat) /\ Len(stack) \in Nat
        /\ \A k \in Pos(stack) : k \in Pos(Append(stack, l)) /\ Append(stack, l)[k] = stack[k]
        /\ Len(stack) + 1 \in Pos(Append(stack, l)) /\ Append(stack, l)[Len(stack) + 1] = l
        /\ Len(stack) = 0 => stack = <<>>
    BY <2>8 DEF Pos
  <2> HIDE DEF o, l
  <2>10. /\ slots' \in [Ring -> Slot]
         /\ \A s \in Ring : slots'[s] = IF s = writeSlot THEN o ELSE ring[s]
    BY <1>1, <2>2, <2>7
  <2>11. ASSUME NEW s \in Ring, NEW i \in Pos(ring[s].timings)
         PROVE  /\ BegunNext(ring[s].timings[i], ring[s].frame)
                /\ OuterNext(ring[s].timings[i], ring[s].frame)
                /\ ~OpenNext(s, i) => EndedNext(ring[s].timings[i], ring[s].frame)
    <3> DEFINE x == ring[s].timings[i]
               g == ring[s].frame
    <3>1. /\ Begun(x, g) /\ Outer(x, g)
          /\ ~(s = writeSlot /\ \E k \in Pos(stack) : stack[k] = i) => Ended(x, g)
      BY DEF Fit
    <3>2. x.begin # t.begin /\ x.end # t.begin
      BY <2>3
    <3> HIDE DEF x, g
    <3>3. BegunNext(x, g)
      BY <2>5, <3>1, <3>2 DEF Begun, BegunNext
    <3>4. Ended(x, g) => EndedNext(x, g)
      BY <2>2, <2>5, <3>2 DEF Ended, EndedNext
    <3>5. OuterNext(x, g)
      BY <2>2, <3>1 DEF Outer, OuterNext
    <3>6. (\E k \in Pos(stack) : stack[k] = i) => \E k \in Pos(opened') : opened'[k] = i
      BY <2>2, <2>9
    <3> QED
      BY <3>1, <3>3, <3>4, <3>5, <3>6 DEF OpenNext, x, g
  <2>12. BegunNext(t, f) /\ OuterNext(t, f)
    <3>1. t.begin \in DOMAIN stamp' /\ stamp'[t.begin] = [name |-> t.name, frame |-> f]
      BY <2>2, <2>5 DEF who
    <3>2. f \notin spoiled' /\ t.depth = 0 => t.name = "Frame"
      BY <2>2, <2>9
    <3> QED
      BY <3>1, <3>2 DEF BegunNext, OuterNext
  <2>13. ASSUME NEW s \in Ring, NEW i \in Pos(slots'[s].timings)
         PROVE  /\ BegunNext(slots'[s].timings[i], slots'[s].frame)
                /\ OuterNext(slots'[s].timings[i], slots'[s].frame)
                /\ ~OpenNext(s, i) => EndedNext(slots'[s].timings[i], slots'[s].frame)
    <3>1. CASE i \in Pos(ring[s].timings)
      <4>1. slots'[s].timings[i] = ring[s].timings[i] /\ slots'[s].frame = ring[s].frame
        BY <2>7, <2>8, <2>10, <3>1
      <4> QED
        BY <2>11, <3>1, <4>1
    <3>2. CASE i \notin Pos(ring[s].timings)
      <4>1. s = writeSlot /\ i = l /\ slots'[s].timings[i] = t /\ slots'[s].frame = f
        BY <2>7, <2>8, <2>10, <3>2
      <4>2. OpenNext(s, i)
        BY <2>2, <2>9, <4>1 DEF OpenNext
      <4> QED
        BY <2>12, <4>1, <4>2
    <3> QED
      BY <3>1, <3>2
  <2>14. TimesInv'
    BY <2>13, TimesNext
  <2> QED
    BY <1>1, <2>2, <2>5, <2>7, <2>9, <2>10, <2>14
<1> QED
  BY <1>2, <1>3

-----------------------------------------------------------------------------
(* The steps *)

\* What a step leaves of the table stays right, whatever is spoiled.
LEMMA TableStays ==
    ASSUME TableInv, UNCHANGED <<table, index, frameTime>>, spoiled \subseteq spoiled'
    PROVE  TableInv'
  BY DEF TableInv, OwnRows, Indexed, OwnTime, Pos, NoPass

\* The queries stay where they are.
LEMMA QueriesStay ==
    ASSUME ProfilerTypeOK, QueryInv, spare' = spare, made' = made, spoiled' = spoiled,
           \A s \in Ring : slots'[s].timings = slots[s].timings
    PROVE  QueryInv'
<1> DEFINE r == slots'
<1>0. \A s \in Ring : r[s].timings = slots[s].timings
  OBVIOUS
<1>a. QueryInv' <=> Once(r, spare', made', {}) /\ (spoiled' = {} => Whole(r, spare', made', {}))
  BY DEF QueryInv, Once, Whole, Pos, Ring
<1> HIDE DEF r
<1>1. Once(slots, spare, made, {}) => Once(r, spare, made, {})
  <2> SUFFICES ASSUME Once(slots, spare, made, {}) PROVE Once(r, spare, made, {})
    OBVIOUS
  <2>1. ASSUME NEW s \in Ring, NEW i \in Pos(r[s].timings)
        PROVE  /\ r[s].timings[i].begin \in 1 .. made /\ r[s].timings[i].begin \notin {}
               /\ r[s].timings[i].end \in 1 .. made /\ r[s].timings[i].end \notin {}
               /\ \A k \in Pos(spare) : spare[k] # r[s].timings[i].begin /\ spare[k] # r[s].timings[i].end
    <3>1. r[s].timings = slots[s].timings /\ i \in Pos(slots[s].timings)
      BY <1>0
    <3> QED
      BY <3>1 DEF Once
  <2>2. ASSUME NEW s \in Ring, NEW u \in Ring, NEW i \in Pos(r[s].timings), NEW j \in Pos(r[u].timings)
        PROVE  /\ r[s].timings[i].begin # r[u].timings[j].end
               /\ r[s].timings[i].begin = r[u].timings[j].begin => s = u /\ i = j
               /\ r[s].timings[i].end = r[u].timings[j].end => s = u /\ i = j
    <3>1. /\ r[s].timings = slots[s].timings /\ i \in Pos(slots[s].timings)
          /\ r[u].timings = slots[u].timings /\ j \in Pos(slots[u].timings)
      BY <1>0
    <3> QED
      BY <3>1 DEF Once
  <2>3. {} \subseteq 1 .. made /\ (\A k \in Pos(spare) : spare[k] \in 1 .. made /\ spare[k] \notin {})
        /\ (\A k, l \in Pos(spare) : spare[k] = spare[l] => k = l)
    BY DEF Once
  <2> QED
    BY <2>1, <2>2, <2>3 DEF Once
<1>2. Whole(slots, spare, made, {}) => Whole(r, spare, made, {})
  BY <1>0 DEF Whole
<1> QED
  BY <1>1, <1>2, <1>a DEF QueryInv

\* Some of the open passes are closed.
LEMMA StampEnds ==
    ASSUME ProfilerTypeOK, QueryInv, TimesInv, NEW C, C \subseteq Pos(slots[writeSlot].timings),
           NEW who \in Who,
           stamp' = Stamped({slots[writeSlot].timings[i].end : i \in C}, who), spoiled' = spoiled,
           \A s \in Ring : slots'[s].timings = slots[s].timings /\ slots'[s].frame = slots[s].frame,
           \A i \in C : slots[writeSlot].frame \notin spoiled =>
              who = [name |-> slots[writeSlot].timings[i].name, frame |-> slots[writeSlot].frame],
           \A s \in Ring : \A i \in Pos(slots[s].timings) :
              IsOpen(s, i) => OpenNext(s, i) \/ (s = writeSlot /\ i \in C)
    PROVE  /\ TimesInv'
           /\ DOMAIN stamp' \subseteq Nat /\ \A q \in DOMAIN stamp' : stamp'[q] \in Who
<1> DEFINE qs == {slots[writeSlot].timings[i].end : i \in C}
<1>1. writeSlot \in Ring /\ slots \in [Ring -> Slot]
  BY DEF ProfilerTypeOK
<1>2. qs \subseteq Nat
  BY <1>1, TimingsAre
<1>3. \A q \in qs : \E i \in C : q = slots[writeSlot].timings[i].end
  OBVIOUS
<1>4. \A i \in C : slots[writeSlot].timings[i].end \in qs
  OBVIOUS
<1>5. stamp' = Stamped(qs, who)
  OBVIOUS
<1> HIDE DEF qs
<1>a. /\ DOMAIN Stamped(qs, who) = DOMAIN stamp \cup qs /\ DOMAIN stamp \cup qs \subseteq Nat
      /\ \A q \in DOMAIN stamp \cup qs :
            /\ Stamped(qs, who)[q] \in Who
            /\ Stamped(qs, who)[q] = IF q \in qs THEN who ELSE stamp[q]
  BY <1>2, StampedIs
<1>6. /\ DOMAIN stamp' = DOMAIN stamp \cup qs /\ DOMAIN stamp \cup qs \subseteq Nat
      /\ \A q \in DOMAIN stamp \cup qs :
            /\ stamp'[q] \in Who
            /\ stamp'[q] = IF q \in qs THEN who ELSE stamp[q]
  BY <1>5, <1>a
<1>7. ASSUME NEW s \in Ring, NEW i \in Pos(slots[s].timings)
      PROVE  /\ BegunNext(slots[s].timings[i], slots[s].frame)
             /\ OuterNext(slots[s].timings[i], slots[s].frame)
             /\ ~OpenNext(s, i) => EndedNext(slots[s].timings[i], slots[s].frame)
  <2> DEFINE x == slots[s].timings[i]
             g == slots[s].frame
  <2>1. Begun(x, g) /\ Outer(x, g) /\ (~IsOpen(s, i) => Ended(x, g))
    BY DEF TimesInv
  <2>2. Once(slots, spare, made, {})
    BY DEF QueryInv
  <2>3. x.begin \notin qs
    <3> SUFFICES ASSUME NEW j \in C PROVE slots[writeSlot].timings[j].end # x.begin
      BY <1>3
    <3>1. j \in Pos(slots[writeSlot].timings)
      OBVIOUS
    <3> QED
      BY <1>1, <2>2, <3>1 DEF Once
  <2>4. x.end \in qs => s = writeSlot /\ i \in C
    <3> SUFFICES ASSUME NEW j \in C, slots[writeSlot].timings[j].end = x.end
                 PROVE  s = writeSlot /\ i = j
      BY <1>3
    <3>1. j \in Pos(slots[writeSlot].timings)
      OBVIOUS
    <3> QED
      BY <1>1, <2>2, <3>1 DEF Once
  <2>5. s = writeSlot /\ i \in C => x.end \in qs /\ (g \notin spoiled => who = [name |-> x.name, frame |-> g])
    BY <1>4
  <2>6. IsOpen(s, i) => OpenNext(s, i) \/ (s = writeSlot /\ i \in C)
    OBVIOUS
  <2> HIDE DEF x, g
  <2>7. BegunNext(x, g)
    BY <1>6, <2>1, <2>3 DEF Begun, BegunNext
  <2>8. OuterNext(x, g)
    BY <2>1 DEF Outer, OuterNext
  <2>9. CASE s = writeSlot /\ i \in C
    <3>1. EndedNext(x, g)
      BY <1>6, <2>5, <2>9 DEF EndedNext
    <3> QED
      BY <2>7, <2>8, <3>1 DEF x, g
  <2>10. CASE ~(s = writeSlot /\ i \in C)
    <3>1. Ended(x, g) => EndedNext(x, g)
      BY <1>6, <2>4, <2>10 DEF Ended, EndedNext
    <3> QED
      BY <2>1, <2>6, <2>7, <2>8, <2>10, <3>1 DEF x, g
  <2> QED
    BY <2>9, <2>10
<1>8. TimesInv'
  <2>1. ASSUME NEW s \in Ring, NEW i \in Pos(slots'[s].timings)
        PROVE  /\ BegunNext(slots'[s].timings[i], slots'[s].frame)
               /\ OuterNext(slots'[s].timings[i], slots'[s].frame)
               /\ ~OpenNext(s, i) => EndedNext(slots'[s].timings[i], slots'[s].frame)
    <3>1. slots'[s].timings = slots[s].timings /\ slots'[s].frame = slots[s].frame
      OBVIOUS
    <3>2. i \in Pos(slots[s].timings)
      BY <3>1
    <3> QED
      BY <1>7, <3>1, <3>2
  <2> QED
    BY <2>1, TimesNext
<1> QED
  BY <1>6, <1>8

\* The timings stay as they are, and so does what is open.
LEMMA TimesStay ==
    ASSUME TimesInv, stamp' = stamp, spoiled' = spoiled,
           \A s \in Ring : slots'[s].timings = slots[s].timings /\ slots'[s].frame = slots[s].frame,
           opened' = opened, writeSlot' = writeSlot
    PROVE  TimesInv'
<1>1. ASSUME NEW s \in Ring, NEW i \in Pos(slots'[s].timings)
        PROVE  /\ BegunNext(slots'[s].timings[i], slots'[s].frame)
               /\ OuterNext(slots'[s].timings[i], slots'[s].frame)
               /\ ~OpenNext(s, i) => EndedNext(slots'[s].timings[i], slots'[s].frame)
  <2>1. slots'[s].timings = slots[s].timings /\ slots'[s].frame = slots[s].frame
    OBVIOUS
  <2>2. i \in Pos(slots[s].timings)
    BY <2>1
  <2> QED
    BY <2>1, <2>2 DEF TimesInv, Begun, Outer, Ended, IsOpen, BegunNext, OuterNext, EndedNext, OpenNext
<1> QED
  BY <1>1, TimesNext

LEMMA ProfilerInitInv == ProfilerInit => ProfilerInv
<1> SUFFICES ASSUME ProfilerInit PROVE ProfilerInv
  OBVIOUS
<1>1. 0 \in Ring /\ Latency \in Nat
  BY ProfilerAssumption DEF Ring
<1>2. Empty \in Slot /\ Empty.timings = <<>> /\ NoPass \in Who
  BY DEF Empty, Slot, NoPass, Who, PassNames
<1>3. \A s \in Ring : slots[s] = Empty
  BY DEF ProfilerInit
<1>4. DOMAIN <<>> = {} /\ <<>> \in [{} -> Nat]
  OBVIOUS
<1>5. index \in Indexes
  BY <1>4 DEF ProfilerInit, Indexes
<1>6. ProfilerTypeOK
  <2>1. slots \in [Ring -> Slot]
    BY <1>2 DEF ProfilerInit
  <2>2. spare \in Seq(Nat) /\ opened \in Seq(Nat) /\ scopes \in Seq(Names) /\ table \in Seq(Row)
    BY DEF ProfilerInit
  <2>3. DOMAIN stamp \subseteq Nat /\ \A q \in DOMAIN stamp : stamp[q] \in Who
    BY <1>4 DEF ProfilerInit
  <2>4. /\ made \in Nat /\ frameTime \in Who /\ frame \in Nat /\ writeSlot \in Ring /\ next \in 0 .. Latency
        /\ ready \in BOOLEAN /\ refused \in BOOLEAN /\ measuring \in BOOLEAN /\ frameOpen \in BOOLEAN
        /\ at \in {"game", "end", "collect", "begin"}
        /\ begun \in Nat /\ refusals \in Nat /\ spoiled \subseteq Nat
    BY <1>1, <1>2 DEF ProfilerInit
  <2> QED
    BY <1>5, <2>1, <2>2, <2>3, <2>4 DEF ProfilerTypeOK
<1>7. Pos(<<>>) = {} /\ 1 .. 0 = {}
  BY DEF Pos
<1>8. QueryInv
  BY <1>2, <1>3, <1>7 DEF ProfilerInit, QueryInv, Once, Whole
<1>9. TimesInv
  BY <1>2, <1>3, <1>7 DEF TimesInv
<1>10. OpenInv
  BY <1>2, <1>3, <1>7 DEF ProfilerInit, OpenInv
<1>11. TableInv
  BY <1>4, <1>7 DEF ProfilerInit, TableInv, OwnRows, Indexed, OwnTime
<1> QED
  BY <1>6, <1>8, <1>9, <1>10, <1>11 DEF ProfilerInv

\* A pass that is begun goes on top of what is open.
LEMMA MeasuredIs ==
    ASSUME NEW ring \in [Ring -> Slot], writeSlot \in Ring, writeSlot' = writeSlot, NEW stack \in Seq(Nat),
           NEW name, NEW f, NEW t, Measured(name, f, ring, stack, t),
           \A k \in Pos(stack) : stack[k] \in Pos(ring[writeSlot].timings)
    PROVE  /\ Len(opened') = Len(stack) + 1 /\ Len(stack) \in Nat
           /\ \A k \in Pos(stack) : opened'[k] = stack[k]
           /\ \A k \in Pos(opened') : k \in Pos(stack) \/ k = Len(stack) + 1
           /\ \A k \in Pos(opened') : opened'[k] \in Pos(slots'[writeSlot].timings)
           /\ slots'[writeSlot].timings[opened'[Len(stack) + 1]].name = name
           /\ \A i \in Pos(ring[writeSlot].timings) :
                 slots'[writeSlot].timings[i] = ring[writeSlot].timings[i]
           /\ \A s \in Ring : slots'[s].frame = ring[s].frame /\ slots'[s].inFlight = ring[s].inFlight
<1> DEFINE b == ring[writeSlot].timings
           l == Len(b) + 1
           c == slots'[writeSlot].timings
<1>1. b \in Seq(Timing) /\ Len(b) \in Nat
  BY TimingsAre
<1>2. t \in Timing /\ t.name = name
  BY DEF Measured
<1>3. c = Append(b, t) /\ \A s \in Ring : slots'[s].frame = ring[s].frame /\ slots'[s].inFlight = ring[s].inFlight
  <2>1. slots' = [ring EXCEPT ![writeSlot].timings = Append(@, t)]
    BY DEF Measured
  <2>2. \A s \in Ring : ring[s] \in Slot
    OBVIOUS
  <2> QED
    BY <2>1, <2>2 DEF Slot
<1>4. opened' = Append(stack, l)
  BY DEF Measured
<1> HIDE DEF b, c
<1>5. /\ \A i \in Pos(b) : i \in Pos(c) /\ c[i] = b[i]
      /\ l \in Pos(c) /\ c[l] = t
  BY <1>1, <1>2, <1>3 DEF Pos
<1> HIDE DEF l
<1>6. l \in Nat
  BY <1>5 DEF Pos
<1>7. /\ Len(opened') = Len(stack) + 1 /\ Len(stack) \in Nat
      /\ \A k \in Pos(stack) : opened'[k] = stack[k]
      /\ \A k \in Pos(opened') : k \in Pos(stack) \/ k = Len(stack) + 1
      /\ opened'[Len(stack) + 1] = l
  BY <1>4, <1>6 DEF Pos
<1>8. \A k \in Pos(opened') : opened'[k] \in Pos(c)
  BY <1>5, <1>7 DEF b
<1>9. c[opened'[Len(stack) + 1]].name = name
  BY <1>2, <1>5, <1>7
<1> QED
  BY <1>3, <1>5, <1>7, <1>8, <1>9 DEF b, c

LEMMA OpenScopeKeeps ==
    ASSUME ProfilerInv, NEW name \in Names, OpenScope(name)
    PROVE  ProfilerInv'
<1>1. ProfilerTypeOK /\ QueryInv /\ TimesInv /\ OpenInv /\ TableInv
  BY DEF ProfilerInv
<1>2. /\ at = "game" /\ begun' = begun + 1 /\ scopes' = Append(scopes, name) /\ writeSlot' = writeSlot
      /\ UNCHANGED <<table, index, frameTime, frame, ready, refused, measuring, frameOpen, at, next>>
  BY DEF OpenScope
<1>3. scopes \in Seq(Names) /\ scopes' \in Seq(Names) /\ begun' \in Nat
  BY <1>1, <1>2 DEF ProfilerTypeOK
<1>4. CASE ~frameOpen
  <2>1. UNCHANGED <<slots, spare, made, stamp, opened, refusals, spoiled>>
    BY <1>4 DEF OpenScope
  <2>2. ProfilerTypeOK'
    BY <1>1, <1>2, <1>3, <2>1 DEF ProfilerTypeOK
  <2>3. QueryInv'
    BY <1>1, <2>1, QueriesStay
  <2>4. TimesInv'
    BY <1>1, <1>2, <2>1, TimesStay
  <2>5. OpenInv'
    BY <1>1, <1>2, <1>4, <2>1 DEF OpenInv
  <2>6. TableInv'
    BY <1>1, <1>2, <2>1, TableStays
  <2> QED
    BY <2>2, <2>3, <2>4, <2>5, <2>6 DEF ProfilerInv
<1>5. CASE frameOpen
  <2>1. /\ measuring /\ ready /\ slots[writeSlot].frame = frame /\ ~slots[writeSlot].inFlight
        /\ \A k \in Pos(opened) : opened[k] \in Pos(slots[writeSlot].timings)
    BY <1>1, <1>2, <1>5 DEF OpenInv
  <2>2. BeginPass(name, frame, slots, spare, opened)
    BY <1>5, <2>1 DEF OpenScope
  <2>3. /\ slots \in [Ring -> Slot] /\ spare \in Seq(Nat) /\ opened \in Seq(Nat) /\ frame \in Nat
        /\ writeSlot \in Ring /\ made \in Nat
    BY <1>1 DEF ProfilerTypeOK
  <2>4. name \in PassNames
    BY DEF PassNames
  <2>5. Once(slots, spare, made, {}) /\ (spoiled = {} => Whole(slots, spare, made, {}))
    BY <1>1 DEF QueryInv
  <2>6. /\ spare' \in Seq(Nat) /\ made' \in Nat /\ refusals' \in Nat
        /\ Once(slots', spare', made', {})
        /\ spoiled' = {} /\ Whole(slots, spare, made, {}) => Whole(slots', spare', made', {})
        /\ (\E t : Measured(name, frame, slots, opened, t)) \/ Unmeasured(frame, slots, opened)
    BY <1>1, <1>2, <2>2, <2>3, <2>4, <2>5, BeginPassIs
  <2>7. Fit(slots, opened)
    BY <1>1, FitIs
  <2>8. frame \notin spoiled /\ opened = <<>> => name = "Frame"
    BY <1>1, <1>3, <1>5 DEF OpenInv
  <2>9. /\ slots' \in [Ring -> Slot] /\ opened' \in Seq(Nat) /\ spoiled' \subseteq Nat
        /\ DOMAIN stamp' \subseteq Nat /\ \A q \in DOMAIN stamp' : stamp'[q] \in Who
        /\ TimesInv'
        /\ spoiled \subseteq spoiled'
        /\ \A s \in Ring : slots'[s].frame = slots[s].frame /\ slots'[s].inFlight = slots[s].inFlight
        /\ \A s \in Ring : s # writeSlot => slots'[s].timings = slots[s].timings
    BY <1>1, <1>2, <2>1, <2>3, <2>4, <2>6, <2>7, <2>8, BeginPassFits
  <2>10. ProfilerTypeOK'
    BY <1>1, <1>2, <1>3, <2>6, <2>9 DEF ProfilerTypeOK
  <2>11. QueryInv'
    BY <2>5, <2>6, <2>9 DEF QueryInv, Once, Whole, Pos, Ring
  <2>12. TableInv'
    BY <1>1, <1>2, <2>9, TableStays
  <2>13. OpenInv'
    <3>1. CASE Unmeasured(frame, slots, opened)
      <4>1. slots' = slots /\ opened' = opened /\ frame' \in spoiled'
        BY <1>2, <3>1 DEF Unmeasured
      <4> QED
        BY <1>1, <1>2, <1>5, <4>1 DEF OpenInv
    <3>2. CASE \E t : Measured(name, frame, slots, opened, t)
      <4>1. PICK t : Measured(name, frame, slots, opened, t)
        BY <3>2
      <4>2. /\ Len(opened') = Len(opened) + 1 /\ Len(opened) \in Nat
            /\ \A k \in Pos(opened) : opened'[k] = opened[k]
            /\ \A k \in Pos(opened') : opened'[k] \in Pos(slots'[writeSlot].timings)
            /\ slots'[writeSlot].timings[opened'[Len(opened) + 1]].name = name
            /\ \A i \in Pos(slots[writeSlot].timings) :
                  slots'[writeSlot].timings[i] = slots[writeSlot].timings[i]
        <5>1. \A k \in Pos(opened) : opened[k] \in Pos(slots[writeSlot].timings)
          BY <2>1
        <5>2. writeSlot' = writeSlot
          BY <1>2
        <5>3. slots \in [Ring -> Slot] /\ writeSlot \in Ring /\ opened \in Seq(Nat)
          BY <2>3
        <5> QED
          BY <4>1, <5>1, <5>2, <5>3, MeasuredIs
      <4>3. ASSUME frame \notin spoiled'
            PROVE  /\ Len(opened') = Len(scopes') + 1
                   /\ slots'[writeSlot].timings[opened'[1]].name = "Frame"
                   /\ \A k \in Pos(scopes') : slots'[writeSlot].timings[opened'[k + 1]].name = scopes'[k]
        <5>1. /\ Len(opened) = Len(scopes) + 1 /\ Len(scopes) \in Nat
              /\ slots[writeSlot].timings[opened[1]].name = "Frame"
              /\ \A k \in Pos(scopes) : slots[writeSlot].timings[opened[k + 1]].name = scopes[k]
          <6>1. frame \notin spoiled
            BY <2>9, <4>3
          <6>2. Len(scopes) \in Nat
            BY <1>3
          <6> QED
            BY <1>1, <1>5, <6>1, <6>2 DEF OpenInv
        <5>2. \A k \in Pos(opened) : slots'[writeSlot].timings[opened'[k]] = slots[writeSlot].timings[opened[k]]
          BY <2>1, <4>2
        <5>3. 1 \in Pos(opened) /\ \A k \in Pos(scopes) : k + 1 \in Pos(opened)
          BY <4>2, <5>1 DEF Pos
        <5>4. /\ Len(scopes') = Len(scopes) + 1 /\ scopes'[Len(scopes) + 1] = name
              /\ \A k \in Pos(scopes) : scopes'[k] = scopes[k]
              /\ \A k \in Pos(scopes') : k \in Pos(scopes) \/ k = Len(scopes) + 1
          BY <1>2, <1>3 DEF Pos
        <5>5. ASSUME NEW k \in Pos(scopes')
              PROVE  slots'[writeSlot].timings[opened'[k + 1]].name = scopes'[k]
          <6>1. CASE k \in Pos(scopes)
            BY <5>1, <5>2, <5>3, <5>4, <6>1
          <6>2. CASE k = Len(scopes) + 1
            <7>1. k + 1 = Len(opened) + 1
              BY <5>1, <6>2
            <7> QED
              BY <4>2, <5>4, <6>2, <7>1
          <6> QED
            BY <5>4, <6>1, <6>2
        <5> QED
          BY <4>2, <5>1, <5>2, <5>3, <5>4, <5>5
      <4>4. \A s \in Ring : slots'[s].inFlight \/ s = writeSlot \/ slots'[s].timings = <<>>
        BY <1>1, <2>9 DEF OpenInv
      <4>5. slots'[writeSlot].frame = frame /\ ~slots'[writeSlot].inFlight
        BY <2>1, <2>3, <2>9
      <4> QED
        BY <1>2, <1>5, <2>1, <4>2, <4>3, <4>4, <4>5 DEF OpenInv, Pos, Ring
    <3> QED
      BY <2>6, <3>1, <3>2
  <2> QED
    BY <2>9, <2>10, <2>11, <2>12, <2>13 DEF ProfilerInv
<1> QED
  BY <1>4, <1>5

LEMMA CloseScopeKeeps ==
    ASSUME ProfilerInv, CloseScope
    PROVE  ProfilerInv'
<1>1. ProfilerTypeOK /\ QueryInv /\ TimesInv /\ OpenInv /\ TableInv
  BY DEF ProfilerInv
<1>2. /\ at = "game" /\ scopes # <<>> /\ scopes' = Front(scopes)
      /\ UNCHANGED <<slots, spare, made, table, index, frameTime, frame, writeSlot, ready, refused,
                     measuring, frameOpen, at, next, begun, refusals, spoiled>>
  BY DEF CloseScope
<1>3. /\ scopes \in Seq(Names) /\ opened \in Seq(Nat) /\ writeSlot \in Ring /\ frame \in Nat
      /\ slots \in [Ring -> Slot]
  BY <1>1 DEF ProfilerTypeOK
<1>4. /\ scopes' \in Seq(Names) /\ Len(scopes) \in Nat /\ Len(scopes') = Len(scopes) - 1
      /\ \A k \in Pos(scopes') : k \in Pos(scopes) /\ scopes'[k] = scopes[k]
      /\ Last(scopes) \in Names /\ Len(scopes) \in Pos(scopes) /\ Last(scopes) = scopes[Len(scopes)]
  BY <1>2, <1>3, FrontIs
<1>5. QueryInv'
  BY <1>1, <1>2, QueriesStay
<1>6. TableInv'
  BY <1>1, <1>2, TableStays
<1>7. CASE opened = <<>>
  <2>1. stamp' = stamp /\ opened' = opened
    BY <1>7 DEF CloseScope
  <2>2. ProfilerTypeOK'
    BY <1>1, <1>2, <1>4, <2>1 DEF ProfilerTypeOK
  <2>3. TimesInv'
    BY <1>1, <1>2, <2>1, TimesStay
  <2>4. frameOpen => frame \in spoiled
    BY <1>1, <1>4, <1>7 DEF OpenInv
  <2>5. OpenInv'
    BY <1>1, <1>2, <2>1, <2>4 DEF OpenInv
  <2> QED
    BY <1>5, <1>6, <2>2, <2>3, <2>5 DEF ProfilerInv
<1>8. CASE opened # <<>>
  <2> DEFINE e == Last(opened)
             who == [name |-> Last(scopes), frame |-> frame]
             C == {e}
  <2>1. /\ opened' \in Seq(Nat) /\ Len(opened) \in Nat /\ Len(opened') = Len(opened) - 1
        /\ \A k \in Pos(opened') : k \in Pos(opened) /\ opened'[k] = opened[k]
        /\ \A k \in Pos(opened) : k \in Pos(opened') \/ k = Len(opened)
        /\ Len(opened) \in Pos(opened) /\ e = opened[Len(opened)]
    <3>1. opened' = Front(opened)
      BY <1>8 DEF CloseScope
    <3> QED
      BY <1>3, <1>8, <3>1, FrontIs
  <2>2. frameOpen
    BY <1>1, <1>8 DEF OpenInv
  <2>3. \A k \in Pos(opened) : opened[k] \in Pos(slots[writeSlot].timings)
    BY <1>1 DEF OpenInv
  <2>4. slots[writeSlot].frame = frame
    BY <1>1, <2>2 DEF OpenInv
  <2>5. who \in Who
    BY <1>3, <1>4 DEF Who, PassNames
  <2>6. C \subseteq Pos(slots[writeSlot].timings)
    BY <2>1, <2>3
  <2>7. stamp' = Stamped({slots[writeSlot].timings[i].end : i \in C}, who)
    <3>1. {slots[writeSlot].timings[i].end : i \in C} = {slots[writeSlot].timings[e].end}
      OBVIOUS
    <3> QED
      BY <1>8, <3>1 DEF CloseScope
  <2>8. ASSUME NEW i \in C, slots[writeSlot].frame \notin spoiled
        PROVE  who = [name |-> slots[writeSlot].timings[i].name, frame |-> slots[writeSlot].frame]
    <3>1. /\ Len(opened) = Len(scopes) + 1
          /\ slots[writeSlot].timings[opened[Len(scopes) + 1]].name = scopes[Len(scopes)]
      BY <1>1, <1>4, <2>2, <2>4, <2>8 DEF OpenInv
    <3>2. i = e
      OBVIOUS
    <3> QED
      BY <1>4, <2>1, <2>4, <3>1, <3>2
  <2>9. \A s \in Ring : \A i \in Pos(slots[s].timings) :
           IsOpen(s, i) => OpenNext(s, i) \/ (s = writeSlot /\ i \in C)
    BY <1>2, <2>1 DEF IsOpen, OpenNext
  <2> HIDE DEF C, who
  <2>10. TimesInv' /\ DOMAIN stamp' \subseteq Nat /\ \A q \in DOMAIN stamp' : stamp'[q] \in Who
    BY <1>1, <1>2, <2>5, <2>6, <2>7, <2>8, <2>9, StampEnds
  <2>11. ProfilerTypeOK'
    BY <1>1, <1>2, <1>4, <2>1, <2>10 DEF ProfilerTypeOK
  <2>12. OpenInv'
    <3>1. ASSUME frame \notin spoiled
          PROVE  /\ Len(opened') = Len(scopes') + 1
                 /\ slots[writeSlot].timings[opened'[1]].name = "Frame"
                 /\ \A k \in Pos(scopes') : slots[writeSlot].timings[opened'[k + 1]].name = scopes'[k]
      <4>1. /\ Len(opened) = Len(scopes) + 1
            /\ slots[writeSlot].timings[opened[1]].name = "Frame"
            /\ \A k \in Pos(scopes) : slots[writeSlot].timings[opened[k + 1]].name = scopes[k]
        BY <1>1, <2>2, <3>1 DEF OpenInv
      <4>2. Len(opened') = Len(scopes') + 1 /\ Len(scopes') \in Nat
        BY <1>4, <2>1, <4>1 DEF Pos
      <4>3. 1 \in Pos(opened') /\ \A k \in Pos(scopes') : k + 1 \in Pos(opened')
        BY <4>2 DEF Pos
      <4> QED
        BY <1>4, <2>1, <4>1, <4>2, <4>3
    <3>2. \A k \in Pos(opened') : opened'[k] \in Pos(slots[writeSlot].timings)
      BY <2>1, <2>3
    <3> QED
      BY <1>1, <1>2, <2>2, <3>1, <3>2 DEF OpenInv
  <2> QED
    BY <1>5, <1>6, <2>10, <2>11, <2>12 DEF ProfilerInv
<1> QED
  BY <1>7, <1>8

LEMMA SetMeasuringKeeps ==
    ASSUME ProfilerInv, NEW m \in BOOLEAN, SetMeasuring(m)
    PROVE  ProfilerInv'
<1>1. ProfilerTypeOK /\ QueryInv /\ TimesInv /\ OpenInv /\ TableInv
  BY DEF ProfilerInv
<1>2. /\ at = "game" /\ scopes = <<>> /\ at' = "end" /\ measuring' = m
      /\ UNCHANGED <<slots, spare, made, stamp, opened, frame, writeSlot, ready, refused,
                     frameOpen, next, scopes, begun, refusals, spoiled>>
  BY DEF SetMeasuring
<1>3. \/ UNCHANGED <<table, index, frameTime>>
      \/ table' = <<>> /\ index' = <<>> /\ frameTime' = NoPass
  BY DEF SetMeasuring
<1>4. DOMAIN <<>> = {} /\ <<>> \in [{} -> Nat] /\ NoPass \in Who
  BY DEF NoPass, Who, PassNames
<1>5. index' \in Indexes /\ table' \in Seq(Row) /\ frameTime' \in Who
  <2>1. CASE UNCHANGED <<table, index, frameTime>>
    BY <1>1, <2>1 DEF ProfilerTypeOK
  <2>2. CASE table' = <<>> /\ index' = <<>> /\ frameTime' = NoPass
    <3>1. <<>> \in Indexes
      BY <1>4 DEF Indexes
    <3>2. <<>> \in Seq(Row)
      OBVIOUS
    <3> QED
      BY <1>4, <2>2, <3>1, <3>2
  <2> QED
    BY <1>3, <2>1, <2>2
<1>6. ProfilerTypeOK'
  BY <1>1, <1>2, <1>5 DEF ProfilerTypeOK
<1>7. QueryInv'
  BY <1>1, <1>2, QueriesStay
<1>8. TimesInv'
  BY <1>1, <1>2, TimesStay
<1>9. OpenInv'
  BY <1>1, <1>2 DEF OpenInv
<1>10. TableInv'
  <2>1. CASE UNCHANGED <<table, index, frameTime>>
    BY <1>1, <1>2, <2>1, TableStays
  <2>2. CASE table' = <<>> /\ index' = <<>> /\ frameTime' = NoPass
    <3>1. Pos(<<>>) = {}
      BY DEF Pos
    <3>2. OwnRows(<<>>)' /\ Indexed(<<>>, <<>>)' /\ OwnTime(NoPass)'
      BY <1>4, <3>1 DEF OwnRows, Indexed, OwnTime
    <3> QED
      BY <2>2, <3>2 DEF TableInv, OwnRows, Indexed, OwnTime
  <2> QED
    BY <1>3, <2>1, <2>2
<1> QED
  BY <1>6, <1>7, <1>8, <1>9, <1>10 DEF ProfilerInv

LEMMA EndFrameKeeps ==
    ASSUME ProfilerInv, EndFrame
    PROVE  ProfilerInv'
<1>1. ProfilerTypeOK /\ QueryInv /\ TimesInv /\ OpenInv /\ TableInv
  BY DEF ProfilerInv
<1>2. /\ at = "end" /\ at' = IF ready /\ measuring THEN "collect" ELSE "begin"
      /\ next' = 0 /\ opened' = <<>> /\ ~frameOpen'
      /\ UNCHANGED <<spare, made, table, index, frameTime, frame, ready, refused, measuring,
                     scopes, begun, refusals, spoiled>>
  BY DEF EndFrame
<1>3. /\ opened \in Seq(Nat) /\ writeSlot \in Ring /\ frame \in Nat /\ slots \in [Ring -> Slot]
      /\ Latency \in Nat \ {0}
  BY <1>1, ProfilerAssumption DEF ProfilerTypeOK
<1> DEFINE who == [name |-> "Frame", frame |-> frame]
           C == {opened[i] : i \in DOMAIN opened}
<1>4. stamp' = Stamped({slots[writeSlot].timings[i].end : i \in C}, who)
  <2>1. {slots[writeSlot].timings[i].end : i \in C}
           = {slots[writeSlot].timings[opened[i]].end : i \in DOMAIN opened}
    OBVIOUS
  <2> QED
    BY <2>1 DEF EndFrame
<1>5. /\ slots' \in [Ring -> Slot] /\ writeSlot' \in Ring
      /\ \A s \in Ring : slots'[s].timings = slots[s].timings /\ slots'[s].frame = slots[s].frame
      /\ \A s \in Ring : slots[s].inFlight => slots'[s].inFlight
      /\ frameOpen => slots'[writeSlot].inFlight
  <2>1. CASE frameOpen
    <3> DEFINE o == [slots[writeSlot] EXCEPT !.inFlight = TRUE]
    <3>1. /\ o \in Slot /\ o.timings = slots[writeSlot].timings /\ o.frame = slots[writeSlot].frame
          /\ o.inFlight = TRUE
      BY <1>3, TimingsAre DEF Slot
    <3>2. slots' = [slots EXCEPT ![writeSlot] = o] /\ writeSlot' = (writeSlot + 1) % Latency
      BY <2>1 DEF EndFrame
    <3> HIDE DEF o
    <3>3. (writeSlot + 1) % Latency \in Ring
      BY <1>3 DEF Ring
    <3> QED
      BY <1>3, <3>1, <3>2, <3>3
  <2>2. CASE ~frameOpen
    BY <1>3, <2>2 DEF EndFrame
  <2> QED
    BY <2>1, <2>2
<1>6. who \in Who
  BY <1>3 DEF Who, PassNames
<1>7. \A k \in Pos(opened) : opened[k] \in Pos(slots[writeSlot].timings)
  BY <1>1 DEF OpenInv
<1>8. C \subseteq Pos(slots[writeSlot].timings)
  BY <1>3, <1>7 DEF Pos
<1>9. ASSUME NEW i \in C, slots[writeSlot].frame \notin spoiled
      PROVE  who = [name |-> slots[writeSlot].timings[i].name, frame |-> slots[writeSlot].frame]
  <2>1. PICK k \in DOMAIN opened : i = opened[k]
    OBVIOUS
  <2>2. k \in Pos(opened) /\ opened # <<>> /\ Len(opened) \in Nat
    BY <1>3, <2>1 DEF Pos
  <2>3. frameOpen
    BY <1>1, <2>2 DEF OpenInv
  <2>4. scopes = <<>> /\ slots[writeSlot].frame = frame
    BY <1>1, <1>2, <2>3 DEF OpenInv
  <2>5. Len(opened) = 1 /\ slots[writeSlot].timings[opened[1]].name = "Frame"
    BY <1>1, <1>9, <2>3, <2>4 DEF OpenInv
  <2>6. k = 1
    BY <2>2, <2>5 DEF Pos
  <2> QED
    BY <2>1, <2>4, <2>5, <2>6
<1>10. \A s \in Ring : \A i \in Pos(slots[s].timings) :
          IsOpen(s, i) => OpenNext(s, i) \/ (s = writeSlot /\ i \in C)
  <2>1. \A k \in Pos(opened) : opened[k] \in C
    BY <1>3 DEF Pos
  <2> HIDE DEF C
  <2> QED
    BY <2>1 DEF IsOpen
<1> HIDE DEF C, who
<1>11. TimesInv' /\ DOMAIN stamp' \subseteq Nat /\ \A q \in DOMAIN stamp' : stamp'[q] \in Who
  BY <1>1, <1>2, <1>4, <1>5, <1>6, <1>8, <1>9, <1>10, StampEnds
<1>12. ProfilerTypeOK'
  <2>1. next' \in 0 .. Latency /\ opened' \in Seq(Nat) /\ at' \in {"game", "end", "collect", "begin"}
    BY <1>2, <1>3
  <2>2. frameOpen' \in BOOLEAN
    BY DEF EndFrame
  <2> QED
    BY <1>1, <1>2, <1>5, <1>11, <2>1, <2>2 DEF ProfilerTypeOK
<1>13. QueryInv'
  BY <1>1, <1>2, <1>5, QueriesStay
<1>14. OpenInv'
  <2>1. scopes' = <<>> /\ Pos(opened') = {}
    BY <1>1, <1>2 DEF OpenInv, Pos
  <2>2. \A s \in Ring : slots'[s].inFlight \/ slots'[s].timings = <<>>
    BY <1>1, <1>5 DEF OpenInv
  <2> QED
    BY <1>2, <2>1, <2>2 DEF OpenInv
<1>15. TableInv'
  BY <1>1, <1>2, TableStays
<1> QED
  BY <1>11, <1>12, <1>13, <1>14, <1>15 DEF ProfilerInv

\* A slot is emptied, and its queries are back in the pool.
LEMMA Emptied ==
    ASSUME NEW ring \in [Ring -> Slot], NEW s \in Ring
    PROVE  LET r2 == [ring EXCEPT ![s] = Recycled(@)]
           IN  /\ r2 \in [Ring -> Slot] /\ r2[s].timings = <<>> /\ ~r2[s].inFlight
               /\ \A u \in Ring : u # s => r2[u] = ring[u]
<1> DEFINE o == Recycled(ring[s])
<1>1. <<>> \in Seq(Timing)
  OBVIOUS
<1>2. o \in Slot /\ o.timings = <<>> /\ ~o.inFlight
  BY <1>1, TimingsAre DEF Recycled, Slot
<1> HIDE DEF o
<1> DEFINE r2 == [ring EXCEPT ![s] = o]
<1>3. /\ r2 \in [Ring -> Slot] /\ r2[s].timings = <<>> /\ ~r2[s].inFlight
      /\ \A u \in Ring : u # s => r2[u] = ring[u]
  BY <1>2
<1> QED
  BY <1>3 DEF o

LEMMA CollectKeeps ==
    ASSUME ProfilerInv, Collect
    PROVE  ProfilerInv'
<1>1. ProfilerTypeOK /\ QueryInv /\ TimesInv /\ OpenInv /\ TableInv
  BY DEF ProfilerInv
<1>2. /\ at = "collect" /\ next < Latency /\ next' = next + 1
      /\ UNCHANGED <<made, stamp, opened, frame, writeSlot, ready, refused, measuring, frameOpen,
                     at, scopes, begun, refusals, spoiled>>
  BY DEF Collect
<1>3. next \in Ring /\ next' \in 0 .. Latency /\ slots \in [Ring -> Slot] /\ spare \in Seq(Nat)
  BY <1>1, <1>2, ProfilerAssumption DEF ProfilerTypeOK, Ring
<1>4. ~frameOpen /\ opened = <<>> /\ scopes = <<>> /\ Pos(opened) = {}
  BY <1>1, <1>2 DEF OpenInv, Pos
<1>5. CASE UNCHANGED <<slots, spare, table, index, frameTime>>
  <2>1. ProfilerTypeOK'
    BY <1>1, <1>2, <1>3, <1>5 DEF ProfilerTypeOK
  <2>2. QueryInv'
    BY <1>1, <1>2, <1>5, QueriesStay
  <2>3. TimesInv'
    BY <1>1, <1>2, <1>5, TimesStay
  <2>4. OpenInv'
    BY <1>1, <1>2, <1>5 DEF OpenInv
  <2>5. TableInv'
    BY <1>1, <1>2, <1>5, TableStays
  <2> QED
    BY <2>1, <2>2, <2>3, <2>4, <2>5 DEF ProfilerInv
<1>6. CASE /\ \E read \in SUBSET DOMAIN slots[next].timings :
                 LET t == Sampled(next, read)
                 IN  table' = t.rows /\ index' = t.index /\ frameTime' = t.time
           /\ slots' = [slots EXCEPT ![next] = Recycled(@)]
           /\ spare' = spare \o Queries(slots[next])
  <2>1. PICK read \in SUBSET DOMAIN slots[next].timings :
           table' = Sampled(next, read).rows /\ index' = Sampled(next, read).index
           /\ frameTime' = Sampled(next, read).time
    BY <1>6
  <2>2. ASSUME NEW i \in Pos(slots[next].timings)
        PROVE  /\ Begun(slots[next].timings[i], slots[next].frame)
               /\ Ended(slots[next].timings[i], slots[next].frame)
               /\ Outer(slots[next].timings[i], slots[next].frame)
    BY <1>1, <1>3, <1>4 DEF TimesInv, IsOpen
  <2>3. Sampled(next, read) \in Tables
    BY <1>1, <1>3, <2>2, ProfilerAssumption, SampledKeeps
  <2>4. table' \in Seq(Row) /\ index' \in Indexes /\ frameTime' \in Who
        /\ OwnRows(table') /\ Indexed(table', index') /\ OwnTime(frameTime')
    BY <2>1, <2>3 DEF Tables
  <2>5. /\ slots' \in [Ring -> Slot] /\ slots'[next].timings = <<>> /\ ~slots'[next].inFlight
        /\ \A u \in Ring : u # next => slots'[u] = slots[u]
    BY <1>3, <1>6, Emptied
  <2>6. Once(slots, spare, made, {}) /\ (spoiled = {} => Whole(slots, spare, made, {}))
    BY <1>1 DEF QueryInv
  <2>7. /\ spare' \in Seq(Nat) /\ Once(slots', spare', made, {})
        /\ Whole(slots, spare, made, {}) => Whole(slots', spare', made, {})
    <3> DEFINE r2 == slots'
    <3>1. /\ r2 \in [Ring -> Slot] /\ r2[next].timings = <<>>
          /\ \A u \in Ring : u # next => r2[u].timings = slots[u].timings
      BY <2>5
    <3>2. spare' = spare \o Queries(slots[next])
      BY <1>6
    <3> HIDE DEF r2
    <3>3. /\ spare \o Queries(slots[next]) \in Seq(Nat)
          /\ Once(r2, spare \o Queries(slots[next]), made, {})
          /\ Whole(slots, spare, made, {}) => Whole(r2, spare \o Queries(slots[next]), made, {})
      BY <1>3, <2>6, <3>1, RecycleOnce
    <3> QED
      BY <3>2, <3>3 DEF r2
  <2>8. ProfilerTypeOK'
    BY <1>1, <1>2, <1>3, <2>4, <2>5, <2>7 DEF ProfilerTypeOK
  <2>9. QueryInv'
    BY <1>2, <2>6, <2>7 DEF QueryInv, Once, Whole, Pos, Ring
  <2>10. TimesInv'
    <3>1. ASSUME NEW s \in Ring, NEW i \in Pos(slots'[s].timings)
          PROVE  /\ BegunNext(slots'[s].timings[i], slots'[s].frame)
                 /\ OuterNext(slots'[s].timings[i], slots'[s].frame)
                 /\ ~OpenNext(s, i) => EndedNext(slots'[s].timings[i], slots'[s].frame)
      <4>1. CASE s = next
        <5>1. Pos(<<>>) = {}
          BY DEF Pos
        <5> QED
          BY <2>5, <4>1, <5>1
      <4>2. CASE s # next
        <5>1. slots'[s] = slots[s] /\ i \in Pos(slots[s].timings)
          BY <2>5, <4>2
        <5> QED
          BY <1>1, <1>2, <5>1 DEF TimesInv, Begun, Outer, Ended, IsOpen, BegunNext, OuterNext, EndedNext, OpenNext
      <4> QED
        BY <4>1, <4>2
    <3> QED
      BY <3>1, TimesNext
  <2>11. OpenInv'
    BY <1>1, <1>2, <1>4, <2>5 DEF OpenInv, Pos, Ring
  <2>12. TableInv'
    BY <1>2, <2>4 DEF TableInv, OwnRows, Indexed, OwnTime, Pos, NoPass
  <2> QED
    BY <2>8, <2>9, <2>10, <2>11, <2>12 DEF ProfilerInv
<1> QED
  BY <1>5, <1>6 DEF Collect

LEMMA CollectedKeeps ==
    ASSUME ProfilerInv, Collected
    PROVE  ProfilerInv'
<1>1. ProfilerTypeOK /\ QueryInv /\ TimesInv /\ OpenInv /\ TableInv
  BY DEF ProfilerInv
<1>2. /\ at = "collect" /\ at' = "begin" /\ table' = Retire(table)
      /\ index' = IF Len(table') = Len(table) THEN index ELSE RebuildIndex(table')
      /\ UNCHANGED <<slots, spare, made, stamp, opened, frameTime, frame, writeSlot, ready, refused,
                     measuring, frameOpen, next, scopes, begun, refusals, spoiled>>
  BY DEF Collected
<1>3. /\ table' \in Seq(Row) /\ OwnRows(table')
      /\ Len(table') = Len(table) => table' = table
  BY <1>1, <1>2, RetireKeeps DEF TableInv
<1>4. index' \in Indexes /\ Indexed(table', index')
  <2>1. CASE Len(table') = Len(table)
    BY <1>1, <1>2, <1>3, <2>1 DEF ProfilerTypeOK, TableInv
  <2>2. CASE Len(table') # Len(table)
    BY <1>2, <1>3, <2>2, RebuildKeeps
  <2> QED
    BY <2>1, <2>2
<1>5. ProfilerTypeOK'
  BY <1>1, <1>2, <1>3, <1>4 DEF ProfilerTypeOK
<1>6. QueryInv'
  BY <1>1, <1>2, QueriesStay
<1>7. TimesInv'
  BY <1>1, <1>2, TimesStay
<1>8. OpenInv'
  BY <1>1, <1>2 DEF OpenInv
<1>9. TableInv'
  BY <1>1, <1>2, <1>3, <1>4 DEF TableInv, OwnRows, Indexed, OwnTime, Pos, NoPass
<1> QED
  BY <1>5, <1>6, <1>7, <1>8, <1>9 DEF ProfilerInv

LEMMA InitializeKeeps ==
    ASSUME ProfilerInv, Initialize
    PROVE  ProfilerInv'
<1>1. ProfilerTypeOK /\ QueryInv /\ TimesInv /\ OpenInv /\ TableInv
  BY DEF ProfilerInv
<1>2. /\ at = "begin" /\ ready' \in BOOLEAN /\ refused' \in BOOLEAN
      /\ UNCHANGED <<slots, spare, made, stamp, opened, table, index, frameTime, frame, writeSlot,
                     measuring, frameOpen, at, next, scopes, begun, refusals, spoiled>>
  BY <1>1 DEF Initialize, ProfilerTypeOK
<1>3. ProfilerTypeOK'
  BY <1>1, <1>2 DEF ProfilerTypeOK
<1>4. QueryInv'
  BY <1>1, <1>2, QueriesStay
<1>5. TimesInv'
  BY <1>1, <1>2, TimesStay
<1>6. OpenInv'
  BY <1>1, <1>2 DEF OpenInv
<1>7. TableInv'
  BY <1>1, <1>2, TableStays
<1> QED
  BY <1>3, <1>4, <1>5, <1>6, <1>7 DEF ProfilerInv

LEMMA BeginFrameKeeps ==
    ASSUME ProfilerInv, BeginFrame
    PROVE  ProfilerInv'
<1>1. ProfilerTypeOK /\ QueryInv /\ TimesInv /\ OpenInv /\ TableInv
  BY DEF ProfilerInv
<1>2. /\ at = "begin" /\ at' = "game" /\ begun' = 0 /\ writeSlot' = writeSlot
      /\ UNCHANGED <<table, index, frameTime, ready, refused, measuring, next, scopes>>
  BY DEF BeginFrame
<1>3. ~frameOpen /\ opened = <<>> /\ scopes = <<>> /\ Pos(opened) = {}
  BY <1>1, <1>2 DEF OpenInv, Pos
<1>4. /\ slots \in [Ring -> Slot] /\ spare \in Seq(Nat) /\ opened \in Seq(Nat) /\ frame \in Nat
      /\ writeSlot \in Ring /\ made \in Nat
  BY <1>1 DEF ProfilerTypeOK
<1>5. CASE ~measuring \/ ~ready
  <2>1. UNCHANGED <<slots, spare, made, stamp, opened, frame, frameOpen, refusals, spoiled>>
    BY <1>5 DEF BeginFrame
  <2>2. ProfilerTypeOK'
    BY <1>1, <1>2, <2>1 DEF ProfilerTypeOK
  <2>3. QueryInv'
    BY <1>1, <2>1, QueriesStay
  <2>4. TimesInv'
    BY <1>1, <1>2, <2>1, TimesStay
  <2>5. OpenInv'
    BY <1>1, <1>2, <1>3, <2>1 DEF OpenInv
  <2>6. TableInv'
    BY <1>1, <1>2, <2>1, TableStays
  <2> QED
    BY <2>2, <2>3, <2>4, <2>5, <2>6 DEF ProfilerInv
<1>6. CASE measuring /\ ready
  <2> DEFINE slot == slots[writeSlot]
             f    == frame + 1
             new  == [(IF slot.inFlight THEN Recycled(slot) ELSE slot) EXCEPT !.frame = f]
             ring == [slots EXCEPT ![writeSlot] = new]
             pool == IF slot.inFlight THEN spare \o Queries(slot) ELSE spare
  <2>1. frame' = f /\ frameOpen' = TRUE /\ BeginPass("Frame", f, ring, pool, opened)
    BY <1>6 DEF BeginFrame
  <2>2. slot \in Slot /\ (slot.inFlight \/ slot.timings = <<>>) /\ f \in Nat
    BY <1>1, <1>3, <1>4 DEF OpenInv
  <2>3. new \in Slot /\ new.timings = <<>> /\ ~new.inFlight /\ new.frame = f
    <3>1. <<>> \in Seq(Timing)
      OBVIOUS
    <3>2. CASE slot.inFlight
      BY <2>2, <3>1, <3>2 DEF Recycled, Slot
    <3>3. CASE ~slot.inFlight
      BY <2>2, <3>1, <3>3 DEF Slot
    <3> QED
      BY <3>2, <3>3
  <2> HIDE DEF new
  <2>4. /\ ring \in [Ring -> Slot] /\ ring[writeSlot] = new
        /\ \A u \in Ring : u # writeSlot => ring[u] = slots[u]
    BY <1>4, <2>3
  <2> HIDE DEF ring
  <2>5. Once(slots, spare, made, {}) /\ (spoiled = {} => Whole(slots, spare, made, {}))
    BY <1>1 DEF QueryInv
  <2>6. ring[writeSlot].timings = <<>> /\ \A u \in Ring : u # writeSlot => ring[u].timings = slots[u].timings
    BY <2>3, <2>4
  <2>7. /\ spare \o Queries(slot) \in Seq(Nat)
        /\ Once(ring, spare \o Queries(slot), made, {})
        /\ Whole(slots, spare, made, {}) => Whole(ring, spare \o Queries(slot), made, {})
    BY <1>4, <2>4, <2>5, <2>6, RecycleOnce
  <2>8. Queries(slot) = <<>> \/ slot.inFlight
    <3>1. CASE slot.timings = <<>>
      <4>1. Queries(slot) \in Seq(Nat) /\ Len(Queries(slot)) = 2 * Len(slot.timings)
        BY <2>2, QueriesAre DEF Slot
      <4> QED
        BY <3>1, <4>1
    <3> QED
      BY <2>2, <3>1
  <2>9. spare \o Queries(slot) = pool
    <3>1. CASE slot.inFlight
      BY <3>1
    <3>2. CASE ~slot.inFlight
      <4>1. Queries(slot) = <<>> /\ pool = spare
        BY <2>8, <3>2
      <4>2. spare \o <<>> = spare
        BY <1>4
      <4> QED
        BY <4>1, <4>2
    <3> QED
      BY <3>1, <3>2
  <2>10. /\ pool \in Seq(Nat) /\ Once(ring, pool, made, {})
         /\ Whole(slots, spare, made, {}) => Whole(ring, pool, made, {})
    BY <2>7, <2>9
  <2> HIDE DEF slot, f, pool
  <2>11. "Frame" \in PassNames
    BY DEF PassNames
  <2>12. /\ spare' \in Seq(Nat) /\ made' \in Nat /\ refusals' \in Nat
         /\ Once(slots', spare', made', {})
         /\ spoiled' = {} /\ Whole(ring, pool, made, {}) => Whole(slots', spare', made', {})
         /\ (\E t : Measured("Frame", f, ring, opened, t)) \/ Unmeasured(f, ring, opened)
    BY <1>1, <1>2, <1>4, <2>1, <2>2, <2>4, <2>10, <2>11, BeginPassIs
  <2>13. Fit(ring, opened)
    <3>1. ASSUME NEW s \in Ring, NEW i \in Pos(ring[s].timings)
          PROVE  /\ Begun(ring[s].timings[i], ring[s].frame) /\ Outer(ring[s].timings[i], ring[s].frame)
                 /\ Ended(ring[s].timings[i], ring[s].frame)
      <4>1. CASE s = writeSlot
        <5>1. Pos(<<>>) = {}
          BY DEF Pos
        <5> QED
          BY <2>6, <4>1, <5>1
      <4>2. CASE s # writeSlot
        <5>1. ring[s] = slots[s]
          BY <2>4, <4>2
        <5> QED
          BY <1>1, <4>2, <5>1 DEF TimesInv, IsOpen
      <4> QED
        BY <4>1, <4>2
    <3> QED
      BY <3>1 DEF Fit
  <2>14. ring[writeSlot].frame = f
    BY <2>3, <2>4
  <2>15. /\ slots' \in [Ring -> Slot] /\ opened' \in Seq(Nat) /\ spoiled' \subseteq Nat
         /\ DOMAIN stamp' \subseteq Nat /\ \A q \in DOMAIN stamp' : stamp'[q] \in Who
         /\ TimesInv'
         /\ spoiled \subseteq spoiled'
         /\ \A s \in Ring : slots'[s].frame = ring[s].frame /\ slots'[s].inFlight = ring[s].inFlight
         /\ \A s \in Ring : s # writeSlot => slots'[s].timings = ring[s].timings
    BY <1>1, <1>2, <1>4, <2>2, <2>4, <2>11, <2>12, <2>13, <2>14, BeginPassFits
  <2>16. ProfilerTypeOK'
    BY <1>1, <1>2, <2>1, <2>2, <2>12, <2>15 DEF ProfilerTypeOK
  <2>17. QueryInv'
    BY <2>5, <2>10, <2>12, <2>15 DEF QueryInv, Once, Whole, Pos, Ring
  <2>18. TableInv'
    BY <1>1, <1>2, <2>15, TableStays
  <2>19. /\ slots'[writeSlot].frame = frame' /\ ~slots'[writeSlot].inFlight
         /\ \A s \in Ring : slots'[s].inFlight \/ s = writeSlot \/ slots'[s].timings = <<>>
    <3>1. slots'[writeSlot].frame = frame' /\ ~slots'[writeSlot].inFlight
      BY <1>4, <2>1, <2>3, <2>4, <2>15
    <3>2. ASSUME NEW s \in Ring, s # writeSlot PROVE slots'[s].inFlight \/ slots'[s].timings = <<>>
      <4>1. slots'[s].inFlight = slots[s].inFlight /\ slots'[s].timings = slots[s].timings
        BY <2>4, <2>15, <3>2
      <4> QED
        BY <1>1, <1>3, <4>1 DEF OpenInv
    <3> QED
      BY <3>1, <3>2
  <2>20. OpenInv'
    <3>1. CASE Unmeasured(f, ring, opened)
      <4>1. opened' = opened /\ frame' \in spoiled'
        BY <2>1, <3>1 DEF Unmeasured
      <4>2. Pos(opened') = {}
        BY <1>3, <4>1
      <4> QED
        BY <1>2, <1>6, <2>1, <2>19, <4>1, <4>2 DEF OpenInv, Pos, Ring
    <3>2. CASE \E t : Measured("Frame", f, ring, opened, t)
      <4>1. PICK t : Measured("Frame", f, ring, opened, t)
        BY <3>2
      <4>2. \A k \in Pos(opened) : opened[k] \in Pos(ring[writeSlot].timings)
        BY <1>3
      <4>3. /\ Len(opened') = Len(opened) + 1 /\ Len(opened) \in Nat
            /\ \A k \in Pos(opened') : opened'[k] \in Pos(slots'[writeSlot].timings)
            /\ slots'[writeSlot].timings[opened'[Len(opened) + 1]].name = "Frame"
        <5>1. writeSlot' = writeSlot
          BY <1>2
        <5> DEFINE nm == "Frame"
        <5>2. Measured(nm, f, ring, opened, t)
          BY <4>1
        <5> HIDE DEF nm
        <5>a. ring \in [Ring -> Slot] /\ writeSlot \in Ring /\ opened \in Seq(Nat)
          BY <1>4, <2>4
        <5>3. /\ Len(opened') = Len(opened) + 1 /\ Len(opened) \in Nat
              /\ \A k \in Pos(opened') : opened'[k] \in Pos(slots'[writeSlot].timings)
              /\ slots'[writeSlot].timings[opened'[Len(opened) + 1]].name = nm
          BY <4>2, <5>1, <5>2, <5>a, MeasuredIs
        <5> QED
          BY <5>3 DEF nm
      <4>4. Len(opened) = 0 /\ Len(scopes') = 0 /\ Pos(scopes') = {}
        BY <1>2, <1>3 DEF Pos
      <4>5. /\ Len(opened') = Len(scopes') + 1
            /\ slots'[writeSlot].timings[opened'[1]].name = "Frame"
        BY <4>3, <4>4
      <4> QED
        BY <1>2, <1>6, <2>1, <2>19, <4>3, <4>4, <4>5 DEF OpenInv, Pos, Ring
    <3> QED
      BY <2>12, <3>1, <3>2
  <2> QED
    BY <2>15, <2>16, <2>17, <2>18, <2>20 DEF ProfilerInv
<1> QED
  BY <1>5, <1>6

LEMMA ProfilerStutter ==
    ASSUME ProfilerInv, UNCHANGED profilerVars
    PROVE  ProfilerInv'
<1>1. ProfilerTypeOK /\ QueryInv /\ TimesInv /\ OpenInv /\ TableInv
  BY DEF ProfilerInv
<1>2. UNCHANGED <<slots, spare, made, stamp, opened, table, index, frameTime, frame, writeSlot,
                  ready, refused, measuring, frameOpen, at, next, scopes, begun, refusals, spoiled>>
  BY DEF profilerVars
<1>3. ProfilerTypeOK'
  BY <1>1, <1>2 DEF ProfilerTypeOK
<1>4. QueryInv'
  BY <1>1, <1>2, QueriesStay
<1>5. TimesInv'
  BY <1>1, <1>2, TimesStay
<1>6. OpenInv'
  BY <1>1, <1>2 DEF OpenInv
<1>7. TableInv'
  BY <1>1, <1>2, TableStays
<1> QED
  BY <1>3, <1>4, <1>5, <1>6, <1>7 DEF ProfilerInv

LEMMA ProfilerStep == ProfilerInv /\ [ProfilerNext]_profilerVars => ProfilerInv'
<1> SUFFICES ASSUME ProfilerInv, [ProfilerNext]_profilerVars PROVE ProfilerInv'
  OBVIOUS
<1>1. ASSUME NEW n \in Names, OpenScope(n) PROVE ProfilerInv'
  BY <1>1, OpenScopeKeeps
<1>2. CASE CloseScope
  BY <1>2, CloseScopeKeeps
<1>3. ASSUME NEW m \in BOOLEAN, SetMeasuring(m) PROVE ProfilerInv'
  BY <1>3, SetMeasuringKeeps
<1>4. CASE EndFrame
  BY <1>4, EndFrameKeeps
<1>5. CASE Collect
  BY <1>5, CollectKeeps
<1>6. CASE Collected
  BY <1>6, CollectedKeeps
<1>7. CASE Initialize
  BY <1>7, InitializeKeeps
<1>8. CASE BeginFrame
  BY <1>8, BeginFrameKeeps
<1>9. CASE UNCHANGED profilerVars
  BY <1>9, ProfilerStutter
<1> QED
  BY <1>1, <1>2, <1>3, <1>4, <1>5, <1>6, <1>7, <1>8, <1>9 DEF ProfilerNext

\* The invariant: what is open fits what the callers opened, every timing is
\* stamped by its own pass, every query is in one place, the rows are their own.
THEOREM ProfilerInductive == ProfilerSpec => []ProfilerInv
<1> QED
  BY ProfilerInitInv, ProfilerStep, PTL DEF ProfilerSpec

\* A row of the table holds times measured from one pass, the one it is named
\* for, from both its ends, and the frame's time is the frame's, whatever slots
\* were recycled, passes retired or frames lost, unless a query was refused.
THEOREM SamplesStayOwn == ProfilerSpec => []SamplesAreOwn
<1>1. ProfilerInv => SamplesAreOwn
  <2> SUFFICES ASSUME ProfilerInv PROVE SamplesAreOwn
    OBVIOUS
  <2>1. table \in Seq(Row) /\ OwnRows(table) /\ OwnTime(frameTime)
    BY DEF ProfilerInv, ProfilerTypeOK, TableInv
  <2>2. ASSUME NEW i \in DOMAIN table, NEW k \in DOMAIN table[i].history,
               table[i].history[k].begin.frame \notin spoiled
        PROVE  table[i].history[k].begin = table[i].history[k].end
               /\ table[i].history[k].begin.name = table[i].name
    <3>1. i \in Pos(table)
      BY <2>1 DEF Pos
    <3>2. k \in Pos(table[i].history)
      <4>1. table[i].history \in Seq(Taken)
        BY <2>1, <3>1, RowsAre
      <4> QED
        BY <4>1 DEF Pos
    <3> QED
      BY <2>1, <2>2, <3>1, <3>2 DEF OwnRows
  <2> QED
    BY <2>1, <2>2 DEF SamplesAreOwn, OwnTime
<1> QED
  BY <1>1, ProfilerInductive, PTL

\* The places of queries.
LEMMA PlacesAre ==
    ASSUME ProfilerTypeOK
    PROVE  /\ \A p \in Places :
                \/ \E i \in Pos(spare) : p = <<"spare", 0, i>>
                \/ \E s \in Ring : \E i \in Pos(slots[s].timings) : p = <<"begin", s, i>> \/ p = <<"end", s, i>>
           /\ \A i \in Pos(spare) : <<"spare", 0, i>> \in Places
           /\ \A s \in Ring : \A i \in Pos(slots[s].timings) :
                 <<"begin", s, i>> \in Places /\ <<"end", s, i>> \in Places
<1>1. DOMAIN spare = Pos(spare)
  BY DEF ProfilerTypeOK, Pos
<1>2. ASSUME NEW s \in Ring PROVE DOMAIN slots[s].timings = Pos(slots[s].timings)
  <2>1. slots[s].timings \in Seq(Timing)
    BY TimingsAre DEF ProfilerTypeOK
  <2> QED
    BY <2>1 DEF Pos
<1>3. ASSUME NEW p \in Places
      PROVE  \/ \E i \in Pos(spare) : p = <<"spare", 0, i>>
             \/ \E s \in Ring : \E i \in Pos(slots[s].timings) : p = <<"begin", s, i>> \/ p = <<"end", s, i>>
  <2>1. CASE p \in {<<"spare", 0, i>> : i \in DOMAIN spare}
    BY <1>1, <2>1
  <2>2. CASE p \in UNION {{"begin", "end"} \X {s} \X DOMAIN slots[s].timings : s \in Ring}
    <3>1. PICK s \in Ring : p \in {"begin", "end"} \X {s} \X DOMAIN slots[s].timings
      BY <2>2
    <3>2. PICK c \in {"begin", "end"}, u \in {s}, i \in DOMAIN slots[s].timings : p = <<c, u, i>>
      BY <3>1
    <3>3. u = s /\ i \in Pos(slots[s].timings) /\ (c = "begin" \/ c = "end")
      BY <1>2
    <3> QED
      BY <3>2, <3>3
  <2> QED
    BY <2>1, <2>2 DEF Places
<1>4. ASSUME NEW i \in Pos(spare) PROVE <<"spare", 0, i>> \in Places
  BY <1>1 DEF Places
<1>5. ASSUME NEW s \in Ring, NEW i \in Pos(slots[s].timings)
      PROVE  <<"begin", s, i>> \in Places /\ <<"end", s, i>> \in Places
  <2>1. i \in DOMAIN slots[s].timings
    BY <1>2
  <2>2. <<"begin", s, i>> \in {"begin", "end"} \X {s} \X DOMAIN slots[s].timings
        /\ <<"end", s, i>> \in {"begin", "end"} \X {s} \X DOMAIN slots[s].timings
    BY <2>1
  <2> QED
    BY <2>2 DEF Places
<1> QED
  BY <1>3, <1>4, <1>5

\* A timestamp query is in the pool or at one end of one timing, never in two
\* places; and none is lost while the device refuses none.
THEOREM QueriesStayOnce == ProfilerSpec => []EveryQueryOnce
<1>1. ProfilerInv => EveryQueryOnce
  <2> SUFFICES ASSUME ProfilerInv PROVE EveryQueryOnce
    OBVIOUS
  <2>1. ProfilerTypeOK /\ Once(slots, spare, made, {}) /\ (spoiled = {} => Whole(slots, spare, made, {}))
    BY DEF ProfilerInv, QueryInv
  <2>2. /\ \A i \in Pos(spare) : QueryAt(<<"spare", 0, i>>) = spare[i]
        /\ \A s \in Ring : \A i \in Pos(slots[s].timings) :
              /\ QueryAt(<<"begin", s, i>>) = slots[s].timings[i].begin
              /\ QueryAt(<<"end", s, i>>) = slots[s].timings[i].end
    BY DEF QueryAt
  <2>3. ASSUME NEW p \in Places, NEW q \in Places, QueryAt(p) = QueryAt(q) PROVE p = q
    <3>1. CASE \E i \in Pos(spare) : p = <<"spare", 0, i>>
      <4>1. PICK i \in Pos(spare) : p = <<"spare", 0, i>>
        BY <3>1
      <4>2. CASE \E j \in Pos(spare) : q = <<"spare", 0, j>>
        <5>1. PICK j \in Pos(spare) : q = <<"spare", 0, j>>
          BY <4>2
        <5>2. spare[i] = spare[j]
          BY <2>2, <2>3, <4>1, <5>1
        <5> QED
          BY <2>1, <4>1, <5>1, <5>2 DEF Once
      <4>3. CASE \E u \in Ring : \E j \in Pos(slots[u].timings) : q = <<"begin", u, j>> \/ q = <<"end", u, j>>
        <5>1. PICK u \in Ring : \E j \in Pos(slots[u].timings) : q = <<"begin", u, j>> \/ q = <<"end", u, j>>
          BY <4>3
        <5>2. PICK j \in Pos(slots[u].timings) : q = <<"begin", u, j>> \/ q = <<"end", u, j>>
          BY <5>1
        <5>a. QueryAt(p) = spare[i]
          BY <2>2, <4>1
        <5>b. QueryAt(q) = slots[u].timings[j].begin \/ QueryAt(q) = slots[u].timings[j].end
          BY <2>2, <5>2
        <5>3. spare[i] = slots[u].timings[j].begin \/ spare[i] = slots[u].timings[j].end
          BY <2>3, <5>a, <5>b
        <5> QED
          BY <2>1, <5>3 DEF Once
      <4> QED
        BY <2>1, <4>2, <4>3, PlacesAre
    <3>2. CASE \E s \in Ring : \E i \in Pos(slots[s].timings) : p = <<"begin", s, i>> \/ p = <<"end", s, i>>
      <4>1. PICK s \in Ring : \E i \in Pos(slots[s].timings) : p = <<"begin", s, i>> \/ p = <<"end", s, i>>
        BY <3>2
      <4>2. PICK i \in Pos(slots[s].timings) : p = <<"begin", s, i>> \/ p = <<"end", s, i>>
        BY <4>1
      <4>3. CASE \E j \in Pos(spare) : q = <<"spare", 0, j>>
        <5>1. PICK j \in Pos(spare) : q = <<"spare", 0, j>>
          BY <4>3
        <5>a. QueryAt(q) = spare[j]
          BY <2>2, <5>1
        <5>b. QueryAt(p) = slots[s].timings[i].begin \/ QueryAt(p) = slots[s].timings[i].end
          BY <2>2, <4>2
        <5>2. spare[j] = slots[s].timings[i].begin \/ spare[j] = slots[s].timings[i].end
          BY <2>3, <5>a, <5>b
        <5> QED
          BY <2>1, <5>2 DEF Once
      <4>4. CASE \E u \in Ring : \E j \in Pos(slots[u].timings) : q = <<"begin", u, j>> \/ q = <<"end", u, j>>
        <5>1. PICK u \in Ring : \E j \in Pos(slots[u].timings) : q = <<"begin", u, j>> \/ q = <<"end", u, j>>
          BY <4>4
        <5>2. PICK j \in Pos(slots[u].timings) : q = <<"begin", u, j>> \/ q = <<"end", u, j>>
          BY <5>1
        <5>3. /\ slots[s].timings[i].begin # slots[u].timings[j].end
              /\ slots[u].timings[j].begin # slots[s].timings[i].end
              /\ slots[s].timings[i].begin = slots[u].timings[j].begin => s = u /\ i = j
              /\ slots[s].timings[i].end = slots[u].timings[j].end => s = u /\ i = j
          BY <2>1 DEF Once
        <5>4. \/ p = <<"begin", s, i>> /\ QueryAt(p) = slots[s].timings[i].begin
              \/ p = <<"end", s, i>> /\ QueryAt(p) = slots[s].timings[i].end
          BY <2>2, <4>2
        <5>5. \/ q = <<"begin", u, j>> /\ QueryAt(q) = slots[u].timings[j].begin
              \/ q = <<"end", u, j>> /\ QueryAt(q) = slots[u].timings[j].end
          BY <2>2, <5>2
        <5> QED
          BY <2>3, <5>3, <5>4, <5>5
      <4> QED
        BY <2>1, <4>3, <4>4, PlacesAre
    <3> QED
      BY <2>1, <3>1, <3>2, PlacesAre
  <2>4. ASSUME NEW p \in Places PROVE QueryAt(p) \in 1 .. made
    <3>1. CASE \E i \in Pos(spare) : p = <<"spare", 0, i>>
      BY <2>1, <2>2, <3>1 DEF Once
    <3>2. CASE \E s \in Ring : \E i \in Pos(slots[s].timings) : p = <<"begin", s, i>> \/ p = <<"end", s, i>>
      <4>1. PICK s \in Ring : \E i \in Pos(slots[s].timings) : p = <<"begin", s, i>> \/ p = <<"end", s, i>>
        BY <3>2
      <4>2. PICK i \in Pos(slots[s].timings) : p = <<"begin", s, i>> \/ p = <<"end", s, i>>
        BY <4>1
      <4>3. QueryAt(p) = slots[s].timings[i].begin \/ QueryAt(p) = slots[s].timings[i].end
        BY <2>2, <4>2
      <4> QED
        BY <2>1, <4>3 DEF Once
    <3> QED
      BY <2>1, <3>1, <3>2, PlacesAre
  <2>5. ASSUME spoiled = {}, NEW q \in 1 .. made PROVE \E p \in Places : QueryAt(p) = q
    <3>1. \/ \E k \in Pos(spare) : spare[k] = q
          \/ \E s \in Ring : \E i \in Pos(slots[s].timings) :
                q \in {slots[s].timings[i].begin, slots[s].timings[i].end}
      BY <2>1, <2>5 DEF Whole
    <3>2. CASE \E k \in Pos(spare) : spare[k] = q
      <4>1. PICK k \in Pos(spare) : spare[k] = q
        BY <3>2
      <4>2. <<"spare", 0, k>> \in Places /\ QueryAt(<<"spare", 0, k>>) = q
        BY <2>1, <2>2, <4>1, PlacesAre
      <4> QED
        BY <4>2
    <3>3. CASE \E s \in Ring : \E i \in Pos(slots[s].timings) :
                 q \in {slots[s].timings[i].begin, slots[s].timings[i].end}
      <4>1. PICK s \in Ring : \E i \in Pos(slots[s].timings) :
               q \in {slots[s].timings[i].begin, slots[s].timings[i].end}
        BY <3>3
      <4>2. PICK i \in Pos(slots[s].timings) : q = slots[s].timings[i].begin \/ q = slots[s].timings[i].end
        BY <4>1
      <4>3. <<"begin", s, i>> \in Places /\ <<"end", s, i>> \in Places
        BY <2>1, PlacesAre
      <4> QED
        BY <2>2, <4>2, <4>3
    <3> QED
      BY <3>1, <3>2, <3>3
  <2> QED
    BY <2>3, <2>4, <2>5 DEF EveryQueryOnce
<1> QED
  BY <1>1, ProfilerInductive, PTL

=============================================================================
