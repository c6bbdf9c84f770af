---------------------------- MODULE EffectsProofs ----------------------------
(***************************************************************************)
(* Theorems about Effects: about the registry alone, of its own Spec, for  *)
(* every number of features and whatever their code does (nothing there    *)
(* uses that the effects are five); about what the effects hold while they *)
(* are set up, fail and are shut down; about the clamp of the fog; about   *)
(* the bindings of their passes; and about the life of the replaced        *)
(* shader, for any number of edits.                                        *)
(***************************************************************************)
EXTENDS Effects, SequenceTheorems, TLAPS

-----------------------------------------------------------------------------
\* What failed is what the registry shows as refused.
FailedInv == failed = In("refused")

\* Within a tick the change is consumed, and the loops leave behind them what
\* the next one builds on.
LoopInv ==
    /\ phase # "idle" => ~changed
    /\ phase # "frame" => due = {}
    /\ due \subseteq In("running")
    /\ phase \in {"setup", "frame"} => In("running") \subseteq wanted
    /\ phase = "frame" => ToSetUp = {}

\* A refusal is forgotten before the switch it answered is obeyed.
RefusedInv == ~changed => In("refused") \subseteq wanted

IInv == TypeOK /\ SetupAndShutdownPair /\ FailedInv /\ LoopInv /\ RefusedInv

-----------------------------------------------------------------------------
\* Writing an entry moves it from one set of entries to another and touches
\* no other entry.
LEMMA Written ==
    ASSUME TypeOK, NEW f \in Features, NEW s \in States,
           state' = [state EXCEPT ![f] = s]
    PROVE  /\ state' \in [Features -> States]
           /\ \A t \in States : In(t)' = IF t = s THEN In(t) \cup {f} ELSE In(t) \ {f}
<1>1. state' \in [Features -> States]
  BY DEF TypeOK
<1>2. \A g \in Features : state'[g] = IF g = f THEN s ELSE state[g]
  BY DEF TypeOK
<1> QED
  BY <1>1, <1>2 DEF In

\* An entry that fails, in Setup or in Frame, is one the player wants and is
\* not set up any more.
LEMMA WrittenOff ==
    ASSUME IInv, NEW f \in Features, WriteOff(f), f \in wanted, phase # "idle",
           wanted' = wanted, changed' = changed, phase' = phase, changes' = changes,
           due' \subseteq due \ {f}, phase # "frame" => due' = {}
    PROVE  IInv'
<1>1. /\ state' = [state EXCEPT ![f] = "refused"]
      /\ owing' = owing \ {f} /\ failed' = failed \cup {f}
  BY DEF WriteOff, ShutdownEntry
<1>2. /\ state' \in [Features -> States]
      /\ In("refused")' = In("refused") \cup {f}
      /\ In("running")' = In("running") \ {f} /\ In("off")' = In("off") \ {f}
  BY <1>1, Written DEF IInv, States
<1>3. TypeOK'
  BY <1>1, <1>2 DEF IInv, TypeOK
<1>4. SetupAndShutdownPair' /\ FailedInv' /\ RefusedInv'
  BY <1>1, <1>2 DEF IInv, SetupAndShutdownPair, FailedInv, RefusedInv
<1>5. LoopInv'
  BY <1>2 DEF IInv, LoopInv, ToSetUp
<1> QED
  BY <1>3, <1>4, <1>5 DEF IInv

\* The invariant holds at the start.
LEMMA InitInv == Init => IInv
<1> SUFFICES ASSUME Init PROVE IInv
  OBVIOUS
<1>1. TypeOK
  <2>1. state \in [Features -> States]
    BY DEF Init, States
  <2>2. 0 \in 0 .. MaxChange
    BY ConstantsAssumption
  <2> QED
    BY <2>1, <2>2 DEF Init, TypeOK
<1>2. In("running") = {} /\ In("refused") = {}
  BY DEF Init, In
<1> QED
  BY <1>1, <1>2
     DEF IInv, Init, SetupAndShutdownPair, FailedInv, LoopInv, RefusedInv

\* Every step keeps it.
LEMMA StepInv == IInv /\ [Next]_vars => IInv'
<1> SUFFICES ASSUME IInv, [Next]_vars PROVE IInv'
  OBVIOUS
<1>1. CASE Change
  <2>1. In("running")' = In("running") /\ In("refused")' = In("refused")
    BY <1>1 DEF Change, In
  <2>2. TypeOK'
    BY <1>1, ConstantsAssumption DEF Change, IInv, TypeOK
  <2> QED
    BY <1>1, <2>1, <2>2
       DEF Change, IInv, SetupAndShutdownPair, FailedInv, LoopInv, RefusedInv
<1>2. CASE TickBegin
  <2>1. CASE changed
    <3>1. \A f \in Features :
             state'[f] = IF state[f] = "refused" THEN "off" ELSE state[f]
      BY <1>2, <2>1 DEF TickBegin, ClearRefusals
    <3>2. state' \in [Features -> States]
      BY <1>2, <2>1 DEF TickBegin, ClearRefusals, IInv, TypeOK, States
    <3>3. In("running")' = In("running") /\ In("refused")' = {}
      BY <3>1, <3>2 DEF In, States
    <3> QED
      BY <1>2, <2>1, <3>2, <3>3
         DEF TickBegin, IInv, TypeOK, SetupAndShutdownPair, FailedInv, LoopInv, RefusedInv
  <2>2. CASE ~changed
    <3>1. In("running")' = In("running") /\ In("refused")' = In("refused")
      BY <1>2, <2>2 DEF TickBegin, In
    <3> QED
      BY <1>2, <2>2, <3>1
         DEF TickBegin, IInv, TypeOK, SetupAndShutdownPair, FailedInv, LoopInv, RefusedInv
  <2> QED
    BY <2>1, <2>2
<1>3. CASE TornDown
  <2>1. In("running") \subseteq wanted
    BY <1>3 DEF TornDown, ToTearDown
  <2> QED
    BY <1>3, <2>1
       DEF TornDown, IInv, TypeOK, SetupAndShutdownPair, FailedInv, LoopInv, RefusedInv, In
<1>4. CASE AllSetUp
  BY <1>4
     DEF AllSetUp, IInv, TypeOK, SetupAndShutdownPair, FailedInv, LoopInv, RefusedInv, In,
         ToSetUp
<1>5. CASE TickEnd
  BY <1>5
     DEF TickEnd, IInv, TypeOK, SetupAndShutdownPair, FailedInv, LoopInv, RefusedInv, In
<1>6. ASSUME NEW f \in Features, Teardown(f) PROVE IInv'
  <2>1. /\ state' = [state EXCEPT ![f] = "off"] /\ owing' = owing \ {f}
        /\ f \in In("running") /\ phase = "teardown"
    BY <1>6 DEF Teardown, ShutdownEntry, ToTearDown
  <2>2. /\ state' \in [Features -> States]
        /\ In("running")' = In("running") \ {f} /\ In("refused")' = In("refused") \ {f}
    BY <2>1, Written DEF IInv, States
  <2>3. f \notin In("refused")
    BY <2>1 DEF In
  <2> QED
    BY <1>6, <2>1, <2>2, <2>3
       DEF Teardown, IInv, TypeOK, SetupAndShutdownPair, FailedInv, LoopInv, RefusedInv
<1>7. ASSUME NEW f \in Features, Setup(f) PROVE IInv'
  <2>1. /\ f \in In("off") /\ f \in wanted /\ phase = "setup"
        /\ wanted' = wanted /\ changed' = changed /\ phase' = phase /\ changes' = changes
        /\ due' = {} /\ due = {}
    BY <1>7 DEF Setup, ToSetUp, IInv, LoopInv
  <2>2. CASE WriteOff(f)
    BY <2>1, <2>2, WrittenOff
  <2>3. CASE ~WriteOff(f)
    <3>1. /\ state' = [state EXCEPT ![f] = "running"]
          /\ owing' = owing \cup {f} /\ failed' = failed
      BY <1>7, <2>3 DEF Setup, SetupEntry
    <3>2. /\ state' \in [Features -> States]
          /\ In("running")' = In("running") \cup {f}
          /\ In("refused")' = In("refused") \ {f}
      BY <3>1, Written DEF IInv, States
    <3>3. f \notin In("refused")
      BY <2>1 DEF In
    <3> QED
      BY <2>1, <3>1, <3>2, <3>3
         DEF IInv, TypeOK, SetupAndShutdownPair, FailedInv, LoopInv, RefusedInv
  <2> QED
    BY <2>2, <2>3
<1>8. ASSUME NEW f \in Features, Frame(f) PROVE IInv'
  <2>1. /\ f \in wanted /\ phase = "frame"
        /\ wanted' = wanted /\ changed' = changed /\ phase' = phase /\ changes' = changes
        /\ due' = due \ {f}
    BY <1>8 DEF Frame, IInv, LoopInv
  <2>2. CASE WriteOff(f)
    BY <2>1, <2>2, WrittenOff
  <2>3. CASE UNCHANGED <<state, owing, failed>>
    BY <2>1, <2>3
       DEF IInv, TypeOK, SetupAndShutdownPair, FailedInv, LoopInv, RefusedInv, In, ToSetUp
  <2> QED
    BY <1>8, <2>2, <2>3 DEF Frame, FrameEntry
<1>9. CASE UNCHANGED vars
  BY <1>9
     DEF vars, IInv, TypeOK, SetupAndShutdownPair, FailedInv, LoopInv, RefusedInv, In, ToSetUp
<1> QED
  BY <1>1, <1>2, <1>3, <1>4, <1>5, <1>6, <1>7, <1>8, <1>9 DEF Next

\* The inductive invariant of the registry.
THEOREM Inductive == Spec => []IInv
<1> QED
  BY InitInv, StepInv, PTL DEF Spec

-----------------------------------------------------------------------------
\* What the invariant of the registry is for.
LEMMA PairAndObey == IInv => SetupAndShutdownPair /\ SwitchesObeyed
<1>1. IInv => SwitchesObeyed
  <2> SUFFICES ASSUME IInv, phase = "frame" PROVE In("off") = Features \ wanted
    BY DEF SwitchesObeyed
  <2>1. In("off") \cap wanted = {} /\ In("running") \subseteq wanted
        /\ In("refused") \subseteq wanted
    BY DEF IInv, LoopInv, RefusedInv, ToSetUp
  <2>2. \A f \in Features : f \in In("off") \/ f \in In("running") \/ f \in In("refused")
    BY DEF IInv, TypeOK, In, States
  <2>3. In("off") \subseteq Features
    BY DEF In
  <2> QED
    BY <2>1, <2>2, <2>3
<1> QED
  BY <1>1 DEF IInv

\* FeatureRegistry.cpp:135: a feature is owed a Shutdown exactly while it
\* runs, whatever it refuses or throws.
THEOREM SetupsPair == Spec => []SetupAndShutdownPair
<1> QED
  BY PairAndObey, Inductive, PTL

\* When the frames are given every switch is obeyed.
THEOREM Obeyed == Spec => []SwitchesObeyed
<1> QED
  BY PairAndObey, Inductive, PTL

\* FeatureRegistry.cpp:84 and Feature.h:27: when a feature is set up none that
\* is to go is still running, and one that failed is left as it is until
\* the settings change.
THEOREM InOrder == Spec => SwitchedInOrder
<1>1. IInv /\ [Next]_vars =>
        [\A f \in Features : phase = "setup" /\ state'[f] # state[f]
            => In("running") \subseteq wanted]_vars
  BY DEF IInv, LoopInv
<1>2. IInv /\ [Next]_vars =>
        [\A f \in Features : f \in failed =>
            \/ state'[f] = "refused"
            \/ state'[f] = "off" /\ changed]_vars
  <2> SUFFICES ASSUME IInv, Next, NEW f \in Features, f \in failed
               PROVE  state'[f] = "refused" \/ (state'[f] = "off" /\ changed)
    OBVIOUS
  <2>1. state[f] = "refused"
    BY DEF IInv, FailedInv, In
  <2>2. CASE TickBegin
    BY <2>1, <2>2 DEF TickBegin, ClearRefusals
  <2>3. CASE UNCHANGED state
    BY <2>1, <2>3
  <2>4. ASSUME NEW g \in Features, NEW s \in States, g # f,
               state' = [state EXCEPT ![g] = s]
        PROVE  state'[f] = "refused"
    BY <2>1, <2>4 DEF IInv, TypeOK
  <2>5. ASSUME NEW g \in Features, NEW s \in States, g = f, s = "refused",
               state' = [state EXCEPT ![g] = s]
        PROVE  state'[f] = "refused"
    BY <2>5 DEF IInv, TypeOK
  <2>6. ASSUME NEW g \in Features, Teardown(g) PROVE state'[f] = "refused"
    <3>1. g # f /\ state' = [state EXCEPT ![g] = "off"]
      BY <2>1, <2>6 DEF Teardown, ShutdownEntry, ToTearDown, In
    <3> QED
      BY <3>1, <2>4 DEF States
  <2>7. ASSUME NEW g \in Features, Setup(g) \/ Frame(g)
        PROVE  state'[f] = "refused"
    <3>1. CASE WriteOff(g)
      BY <3>1, <2>4, <2>5 DEF WriteOff, ShutdownEntry, States
    <3>2. CASE UNCHANGED state
      BY <2>1, <3>2
    <3>3. CASE Setup(g) /\ state' = [state EXCEPT ![g] = "running"]
      <4>1. g # f
        BY <2>1, <3>3 DEF Setup, ToSetUp, In
      <4> QED
        BY <3>3, <4>1, <2>4 DEF States
    <3> QED
      BY <2>7, <3>1, <3>2, <3>3 DEF Setup, Frame, SetupEntry, FrameEntry
  <2> QED
    BY <2>2, <2>3, <2>6, <2>7 DEF Next, Change, TornDown, AllSetUp, TickEnd
<1>3. Spec => [][\A f \in Features : phase = "setup" /\ state'[f] # state[f]
            => In("running") \subseteq wanted]_vars
  BY <1>1, Inductive, PTL DEF Spec
<1>4. Spec => [][\A f \in Features : f \in failed =>
            \/ state'[f] = "refused"
            \/ state'[f] = "off" /\ changed]_vars
  BY <1>2, Inductive, PTL DEF Spec
<1> QED
  BY <1>3, <1>4 DEF SwitchedInOrder, OldOwnerGone, OneTryPerChange

-----------------------------------------------------------------------------
(* The invariants of the effects                                           *)

\* A step of a Setup, and what a list of them acquires.
Words      == {"compile", "ensure", "create", "overwrite"} \cup ViewReleases \cup SkyReleases
              \cup CloudReleases \cup ContactReleases \cup HeightReleases
Step       == [kind : Words, name : Words]
NamesOf(s) == {s[i].name : i \in 1 .. Len(s)}

\* An effect that runs has all it set up, but perhaps the mask, and nothing
\* that its Shutdown does not know; one that does not run has nothing.
HeldOf(f) ==
    IF state[f] = "running"
    THEN /\ All(f) \ {"mask"} \subseteq held[f]
         /\ held[f] \subseteq All(f) \cup Lazily(f)
         /\ listening[f] = Phases(f)
         /\ fullscreen = "ready"
    ELSE held[f] = {} /\ listening[f] = {}

HeldInv ==
    /\ DOMAIN held = Effect /\ DOMAIN listening = Effect
    /\ leaked = {}
    /\ \A f \in Effect : HeldOf(f)
    /\ size \in Nat \ {0}

\* No value the engine writes to the clamp is one the fog makes of another.
EnginesDiffer ==
    \A c \in EngineClamps, d \in EngineClamps, a \in Amounts :
        c # d /\ a < 100 => c # (d * a) \div 100

\* What the note of the fog says of the clamp is still so, or the engine has
\* written since.
ClampInv ==
    /\ engineClamp \in EngineClamps
    /\ clamp # engineClamp => override.stands /\ clamp = override.written
    /\ override.stands /\ clamp = override.written => override.original = engineClamp
    /\ override.stands =>
         /\ override.original \in EngineClamps
         /\ \E a \in Amounts :
              a < 100 /\ override.written = (override.original * a) \div 100
    /\ state[Height] # "running" => ~override.stands

-----------------------------------------------------------------------------
(* The life of the replaced shader                                         *)

\* The watcher thread is gone before anything is taken down.
WatcherInv ==
    /\ render \in {"restored", "off"} => watcher = "gone"
    /\ render = "off" => pending = NoText /\ ~hasPending

\* What the render thread is about: a build is installed only in a slot, and
\* an older shader is kept only until it is released.
OursInv ==
    /\ adopted \in Slot \cup {"none"}
    /\ render \in {"take", "install", "release"} => adopted # "none"
    /\ adopted = "none" => ours = NoShader
    /\ render \notin {"release", "restored"} => previous = NoShader
    /\ render \in {"restored", "off"} => ours = NoShader

\* Unless it was fooled, a shader of ours is in no slot but the override's,
\* and where the older one is about to be released it is not even there.
PlaceInv ==
    /\ DOMAIN shader = Slot
    /\ ~fooled =>
         /\ original.of # "ours"
         /\ \A s \in Slot : shader[s].of = "ours" => s = adopted /\ shader[s] = ours

ReplacementInv == WatcherInv /\ OursInv /\ PlaceInv

\* The steps say what they leave alone by these tuples.
USE DEF tintVars, diskVars, watchVars, sharedVars, slotVars

\* It holds at the start.
LEMMA ReplacementInitInv == ReplacementInit => ReplacementInv
BY DEF ReplacementInit, ReplacementInv, WatcherInv, OursInv, PlaceInv, NoShader, Engines

\* Every step of the editor, the engine and the two threads keeps it.
LEMMA ReplacementStepInv == ReplacementInv /\ [ReplacementNext]_tintVars => ReplacementInv'
<1> SUFFICES ASSUME ReplacementInv, [ReplacementNext]_tintVars PROVE ReplacementInv'
  OBVIOUS
<1> USE DEF ReplacementInv, WatcherInv, OursInv, PlaceInv
<1>1. NoShader.of # "ours"
  BY DEF NoShader
<1>2. CASE \E f \in File : Edit(f)
  BY <1>2 DEF Edit
<1>3. ASSUME NEW s \in Slot, EngineLoads(s) PROVE ReplacementInv'
  <2>1. Engines(s, loads'[s]).of # "ours"
    BY DEF Engines
  <2>2. DOMAIN shader' = Slot
        /\ \A t \in Slot : shader'[t] = IF t = s THEN Engines(s, loads'[s]) ELSE shader[t]
    BY <1>3 DEF EngineLoads
  <2> QED
    BY <1>3, <2>1, <2>2 DEF EngineLoads
<1>4. CASE Watches
  <2>1. watcher # "gone"
    BY <1>4 DEF Watches, WatcherLoop, LoadSource, Reset, CompileText, Publish
  <2> QED
    BY <1>4, <2>1 DEF Watches, WatcherLoop, LoadSource, Reset, CompileText, Publish
<1>5. CASE TintFrame
  <2>1. UNCHANGED <<ours, previous, shader, watcher>> /\ render = "idle" /\ render' = "drain"
    BY <1>5 DEF TintFrame
  <2>2. CASE UNCHANGED <<adopted, original, fooled>>
    BY <2>1, <2>2
  <2>3. CASE \E s \in Slot : Adopt(s)
    <3>1. PICK s \in Slot : Adopt(s)
      BY <2>3
    <3>2. adopted' \in Slot /\ adopted' # "none"
      BY <3>1, ReplacementConstantsAssumption DEF Adopt
    <3>3. ~fooled' => ~fooled /\ ours = NoShader /\ original'.of # "ours"
      BY <3>1 DEF Adopt
    <3> QED
      BY <1>1, <2>1, <3>2, <3>3
  <2> QED
    BY <1>5, <2>2, <2>3 DEF TintFrame, TryCatalog
<1>6. CASE Drain
  BY <1>6 DEF Drain
<1>7. CASE Take \/ InstallNot
  BY <1>7 DEF Take, InstallNot
<1>8. CASE Install
  <2>1. ours'.of = "ours"
    BY <1>8 DEF Install, NewShader
  <2>2. DOMAIN shader' = Slot
        /\ \A t \in Slot : shader'[t] = IF t = adopted THEN ours' ELSE shader[t]
    BY <1>8 DEF Install
  <2> QED
    BY <1>8, <2>1, <2>2 DEF Install
<1>9. CASE Release
  BY <1>9 DEF Release
<1>10. CASE Guard
  <2>1. CASE adopted # "none" /\ ours # NoShader /\ shader[adopted] # ours
    <3>1. DOMAIN shader' = Slot
          /\ \A t \in Slot : shader'[t] = IF t = adopted THEN ours ELSE shader[t]
      BY <1>10, <2>1 DEF Guard
    <3>2. original' = shader[adopted]
      BY <1>10, <2>1 DEF Guard
    <3>3. ~fooled => original'.of # "ours"
      BY <2>1, <3>2
    <3>4. UNCHANGED <<adopted, ours, fooled, watcher, previous, pending, hasPending>>
      BY <1>10 DEF Guard
    <3>5. render = "guard" /\ render' = "idle"
      BY <1>10 DEF Guard
    <3> QED
      BY <2>1, <3>1, <3>3, <3>4, <3>5
  <2> QED
    BY <1>10, <2>1 DEF Guard
<1>11. CASE TintSetup \/ TintShutdown
  BY <1>11 DEF TintSetup, TintShutdown
<1>12. CASE Restore
  <2>1. CASE adopted # "none"
    <3>1. DOMAIN shader' = Slot
          /\ \A t \in Slot : shader'[t] = IF t = adopted THEN original ELSE shader[t]
      BY <1>12, <2>1 DEF Restore
    <3> QED
      BY <1>1, <1>12, <2>1, <3>1 DEF Restore, Joined
  <2> QED
    BY <1>12, <2>1 DEF Restore, Joined
<1>13. CASE UNCHANGED tintVars
  BY <1>13
<1> QED
  BY <1>2, <1>3, <1>4, <1>5, <1>6, <1>7, <1>8, <1>9, <1>10, <1>11, <1>12, <1>13
     DEF ReplacementNext, Frames, Installs

\* And it is why nothing is used after its end.
LEMMA SafeReplacement == ReplacementInv => ReplacementIsSafe
BY DEF ReplacementInv, WatcherInv, OursInv, PlaceInv, ReplacementIsSafe, SlotIsAlive, OffIsQuiet

-----------------------------------------------------------------------------
(* What the effects hold                                                   *)

\* The steps of two lists have the names of both.
LEMMA NamesOfBoth ==
    ASSUME NEW s \in Seq(Step), NEW t \in Seq(Step)
    PROVE  /\ s \o t \in Seq(Step)
           /\ NamesOf(s \o t) = NamesOf(s) \cup NamesOf(t)
<1>1. s \o t \in Seq(Step) /\ Len(s \o t) = Len(s) + Len(t)
  OBVIOUS
<1>2. \A i \in 1 .. Len(s) : (s \o t)[i] = s[i]
  OBVIOUS
<1>3. \A i \in 1 .. Len(t) : (s \o t)[i + Len(s)] = t[i]
  OBVIOUS
<1>4. Len(s) \in Nat /\ Len(t) \in Nat
  OBVIOUS
<1>5. ASSUME NEW x \in NamesOf(s \o t) PROVE x \in NamesOf(s) \cup NamesOf(t)
  <2>1. PICK i \in 1 .. Len(s) + Len(t) : x = (s \o t)[i].name
    BY <1>1 DEF NamesOf
  <2>2. CASE i <= Len(s)
    BY <1>2, <1>4, <2>1, <2>2 DEF NamesOf
  <2>3. CASE i > Len(s)
    <3>1. i - Len(s) \in 1 .. Len(t) /\ i = (i - Len(s)) + Len(s)
      BY <1>4, <2>1, <2>3
    <3> QED
      BY <1>3, <2>1, <3>1 DEF NamesOf
  <2> QED
    BY <1>4, <2>1, <2>2, <2>3
<1>6. ASSUME NEW i \in 1 .. Len(s) PROVE s[i].name \in NamesOf(s \o t)
  <2>1. i \in 1 .. Len(s \o t) /\ (s \o t)[i] = s[i]
    BY <1>1, <1>2, <1>4
  <2> QED
    BY <2>1 DEF NamesOf
<1>7. ASSUME NEW i \in 1 .. Len(t) PROVE t[i].name \in NamesOf(s \o t)
  <2>1. i + Len(s) \in 1 .. Len(s \o t) /\ (s \o t)[i + Len(s)] = t[i]
    BY <1>1, <1>3, <1>4
  <2> QED
    BY <2>1 DEF NamesOf
<1> QED
  BY <1>1, <1>5, <1>6, <1>7 DEF NamesOf

\* Two initial segments of the numbers with the same end are the same.
LEMMA SameLength ==
    ASSUME NEW m \in Nat, NEW n \in Nat, 1 .. m = 1 .. n
    PROVE  m = n
<1>1. m = 0 \/ m \in 1 .. n
  OBVIOUS
<1>2. n = 0 \/ n \in 1 .. m
  OBVIOUS
<1> QED
  BY <1>1, <1>2

\* Steps made of one kind have the names they are made with.
LEMMA NamesOfMade ==
    ASSUME NEW kind \in Words, NEW names \in Seq(Words)
    PROVE  /\ Make(kind, names) \in Seq(Step)
           /\ NamesOf(Make(kind, names)) = {names[i] : i \in 1 .. Len(names)}
<1>1. DOMAIN names = 1 .. Len(names) /\ Len(names) \in Nat
  OBVIOUS
<1>2. \A i \in 1 .. Len(names) : names[i] \in Words
  OBVIOUS
<1>3. Make(kind, names) = [i \in 1 .. Len(names) |-> [kind |-> kind, name |-> names[i]]]
  BY <1>1 DEF Make
<1>4. Make(kind, names) \in [1 .. Len(names) -> Step]
  BY <1>2, <1>3 DEF Step
<1>5. Make(kind, names) \in Seq(Step) /\ Len(Make(kind, names)) = Len(names)
  <2>1. Make(kind, names) \in Seq(Step)
    BY <1>1, <1>4, SeqDef
  <2>2. DOMAIN Make(kind, names) = 1 .. Len(Make(kind, names))
        /\ Len(Make(kind, names)) \in Nat
    BY <2>1, LenProperties
  <2>3. DOMAIN Make(kind, names) = 1 .. Len(names)
    BY <1>3
  <2>4. Len(Make(kind, names)) = Len(names)
    BY <1>1, <2>2, <2>3, SameLength
  <2> QED
    BY <2>1, <2>4
<1>6. \A i \in 1 .. Len(names) : Make(kind, names)[i].name = names[i]
  BY <1>3
<1> QED
  BY <1>5, <1>6 DEF NamesOf

\* A list of steps and what it makes.
Lists(s, names) == s \in Seq(Step) /\ NamesOf(s) = names

\* One list after another makes what both make.
LEMMA Both ==
    ASSUME NEW s, NEW t, NEW v, NEW w, Lists(s, v), Lists(t, w)
    PROVE  Lists(s \o t, v \cup w)
BY NamesOfBoth DEF Lists

\* The lists of one kind in the Setups have one, two or five names.
LEMMA One ==
    ASSUME NEW k \in Words, NEW a \in Words
    PROVE  Lists(Make(k, <<a>>), {a})
<1> DEFINE s == <<a>>
<1>1. s \in Seq(Words)
  OBVIOUS
<1>2. Len(s) = 1
  OBVIOUS
<1>3. s[1] = a
  OBVIOUS
<1> HIDE DEF s
<1>4. 1 .. Len(s) = {1}
  BY <1>2
<1>5. {s[i] : i \in {1}} = {s[1]}
  OBVIOUS
<1>6. {s[1]} = {a}
  BY <1>3
<1>7. /\ Make(k, s) \in Seq(Step)
      /\ NamesOf(Make(k, s)) = {s[i] : i \in 1 .. Len(s)}
  BY <1>1, NamesOfMade
<1>8. Lists(Make(k, s), {a})
  BY <1>4, <1>5, <1>6, <1>7 DEF Lists
<1> QED
  BY <1>8 DEF s

LEMMA Two ==
    ASSUME NEW k \in Words, NEW a \in Words, NEW b \in Words
    PROVE  Lists(Make(k, <<a, b>>), {a, b})
<1> DEFINE s == <<a, b>>
<1>1. s \in Seq(Words)
  OBVIOUS
<1>2. Len(s) = 2
  OBVIOUS
<1>3. s[1] = a /\ s[2] = b
  OBVIOUS
<1> HIDE DEF s
<1>4. 1 .. Len(s) = {1, 2}
  BY <1>2
<1>5. {s[i] : i \in {1, 2}} = {s[1], s[2]}
  OBVIOUS
<1>6. {s[1], s[2]} = {a, b}
  BY <1>3
<1>7. /\ Make(k, s) \in Seq(Step)
      /\ NamesOf(Make(k, s)) = {s[i] : i \in 1 .. Len(s)}
  BY <1>1, NamesOfMade
<1>8. Lists(Make(k, s), {a, b})
  BY <1>4, <1>5, <1>6, <1>7 DEF Lists
<1> QED
  BY <1>8 DEF s

LEMMA Five ==
    ASSUME NEW k \in Words, NEW a \in Words, NEW b \in Words,
           NEW c \in Words, NEW d \in Words, NEW e \in Words
    PROVE  Lists(Make(k, <<a, b, c, d, e>>), {a, b, c, d, e})
<1> DEFINE s == <<a, b, c, d, e>>
<1>1. s \in Seq(Words)
  OBVIOUS
<1>2. Len(s) = 5
  OBVIOUS
<1>3. s[1] = a /\ s[2] = b /\ s[3] = c /\ s[4] = d /\ s[5] = e
  OBVIOUS
<1> HIDE DEF s
<1>4. 1 .. Len(s) = {1, 2, 3, 4, 5}
  BY <1>2
<1>5. {s[i] : i \in {1, 2, 3, 4, 5}} = {s[1], s[2], s[3], s[4], s[5]}
  OBVIOUS
<1>6. {s[1], s[2], s[3], s[4], s[5]} = {a, b, c, d, e}
  BY <1>3
<1>7. /\ Make(k, s) \in Seq(Step)
      /\ NamesOf(Make(k, s)) = {s[i] : i \in 1 .. Len(s)}
  BY <1>1, NamesOfMade
<1>8. Lists(Make(k, s), {a, b, c, d, e})
  BY <1>4, <1>5, <1>6, <1>7 DEF Lists
<1> QED
  BY <1>8 DEF s

\* What each Setup makes, list by list.
LEMMA ViewStepsList ==
    Lists(ViewSteps,
          {"shader", "plain", "pointClamp", "constants"})
<1> DEFINE a == Make("compile", <<"shader">>)
           b == Make("ensure", ViewStates)
           c == Make("create", <<"constants">>)
<1>1. Lists(a, {"shader"})
  BY One DEF Words, ViewReleases
<1>2. Lists(b, {"plain", "pointClamp"})
  BY Two DEF Words, ViewReleases, ViewStates
<1>3. Lists(c, {"constants"})
  BY One DEF Words, ViewReleases
<1> HIDE DEF a, b, c
<1>4. Lists(a \o b,
          {"shader", "plain", "pointClamp"})
  <2>1. {"shader", "plain", "pointClamp"} =
            {"shader"} \cup {"plain", "pointClamp"}
    OBVIOUS
  <2> QED
    BY <1>2, <1>1, <2>1, Both
<1>5. Lists((a \o b) \o c,
          {"shader", "plain", "pointClamp", "constants"})
  <2>1. {"shader", "plain", "pointClamp", "constants"} =
            {"shader", "plain", "pointClamp"} \cup {"constants"}
    OBVIOUS
  <2> QED
    BY <1>3, <1>4, <2>1, Both
<1> QED
  BY <1>5 DEF ViewSteps, a, b, c

LEMMA SkyStepsList ==
    Lists(SkySteps,
          {"shader", "multiply", "plain", "depthState", "comparison", "linearClamp",
           "constants", "patch", "occlusion", "probes", "accumFrames", "ambientProbe",
           "sceneProbe"})
<1> DEFINE a == Make("compile", <<"shader">>)
           b == Make("ensure", SkyStates)
           c == Make("create", <<"constants">>)
           d == Make("overwrite", <<"patch">>)
           e == Make("create", <<"occlusion", "probes", "accumFrames",
                                        "ambientProbe", "sceneProbe">>)
<1>1. Lists(a, {"shader"})
  BY One DEF Words, SkyReleases
<1>2. Lists(b, {"multiply", "plain", "depthState", "comparison", "linearClamp"})
  BY Five DEF Words, SkyReleases, SkyStates
<1>3. Lists(c, {"constants"})
  BY One DEF Words, SkyReleases
<1>4. Lists(d, {"patch"})
  BY One DEF Words, SkyReleases
<1>5. Lists(e, {"occlusion", "probes", "accumFrames", "ambientProbe", "sceneProbe"})
  BY Five DEF Words, SkyReleases
<1> HIDE DEF a, b, c, d, e
<1>6. Lists(a \o b,
          {"shader", "multiply", "plain", "depthState", "comparison", "linearClamp"})
  <2>1. {"shader", "multiply", "plain", "depthState", "comparison", "linearClamp"} =
            {"shader"} \cup {"multiply", "plain", "depthState", "comparison", "linearClamp"}
    OBVIOUS
  <2> QED
    BY <1>2, <1>1, <2>1, Both
<1>7. Lists((a \o b) \o c,
          {"shader", "multiply", "plain", "depthState", "comparison", "linearClamp",
          "constants"})
  <2>1. {"shader", "multiply", "plain", "depthState", "comparison", "linearClamp",
        "constants"} =
            {"shader", "multiply", "plain", "depthState", "comparison", "linearClamp"}
            \cup {"constants"}
    OBVIOUS
  <2> QED
    BY <1>3, <1>6, <2>1, Both
<1>8. Lists(((a \o b) \o c) \o d,
          {"shader", "multiply", "plain", "depthState", "comparison", "linearClamp",
          "constants", "patch"})
  <2>1. {"shader", "multiply", "plain", "depthState", "comparison", "linearClamp",
        "constants", "patch"} =
            {"shader", "multiply", "plain", "depthState", "comparison", "linearClamp",
            "constants"} \cup {"patch"}
    OBVIOUS
  <2> QED
    BY <1>4, <1>7, <2>1, Both
<1>9. Lists((((a \o b) \o c) \o d) \o e,
          {"shader", "multiply", "plain", "depthState", "comparison", "linearClamp",
          "constants", "patch", "occlusion", "probes", "accumFrames", "ambientProbe",
          "sceneProbe"})
  <2>1. {"shader", "multiply", "plain", "depthState", "comparison", "linearClamp",
        "constants", "patch", "occlusion", "probes", "accumFrames", "ambientProbe",
        "sceneProbe"} =
            {"shader", "multiply", "plain", "depthState", "comparison", "linearClamp",
            "constants", "patch"}
            \cup {"occlusion", "probes", "accumFrames", "ambientProbe", "sceneProbe"}
    OBVIOUS
  <2> QED
    BY <1>5, <1>8, <2>1, Both
<1> QED
  BY <1>9 DEF SkySteps, a, b, c, d, e

LEMMA CloudStepsList ==
    Lists(CloudSteps,
          {"shader", "multiply", "plain", "alphaComposite", "cullNone", "linearClamp",
           "constants", "coverage"})
<1> DEFINE a == Make("compile", <<"shader">>)
           b == Make("ensure", CloudStates)
           c == Make("create", <<"constants", "coverage">>)
<1>1. Lists(a, {"shader"})
  BY One DEF Words, CloudReleases
<1>2. Lists(b, {"multiply", "plain", "alphaComposite", "cullNone", "linearClamp"})
  BY Five DEF Words, CloudReleases, CloudStates
<1>3. Lists(c, {"constants", "coverage"})
  BY Two DEF Words, CloudReleases
<1> HIDE DEF a, b, c
<1>4. Lists(a \o b,
          {"shader", "multiply", "plain", "alphaComposite", "cullNone", "linearClamp"})
  <2>1. {"shader", "multiply", "plain", "alphaComposite", "cullNone", "linearClamp"} =
            {"shader"}
            \cup {"multiply", "plain", "alphaComposite", "cullNone", "linearClamp"}
    OBVIOUS
  <2> QED
    BY <1>2, <1>1, <2>1, Both
<1>5. Lists((a \o b) \o c,
          {"shader", "multiply", "plain", "alphaComposite", "cullNone", "linearClamp",
          "constants", "coverage"})
  <2>1. {"shader", "multiply", "plain", "alphaComposite", "cullNone", "linearClamp",
        "constants", "coverage"} =
            {"shader", "multiply", "plain", "alphaComposite", "cullNone", "linearClamp"}
            \cup {"constants", "coverage"}
    OBVIOUS
  <2> QED
    BY <1>3, <1>4, <2>1, Both
<1> QED
  BY <1>5 DEF CloudSteps, a, b, c

LEMMA ContactStepsList ==
    Lists(ContactSteps,
          {"modulate", "pointBorder", "multiply", "constants", "mask", "shader"})
<1> DEFINE a == Make("overwrite", <<"modulate">>)
           b == Make("ensure", ContactSampler \o ContactBlend)
           c == Make("create", <<"constants", "mask">>)
           d == Make("compile", <<"shader">>)
<1>1. Lists(a, {"modulate"})
  BY One DEF Words, ContactReleases
<1>2. Lists(b, {"pointBorder", "multiply"})
  <2> DEFINE x == <<"pointBorder">>
             y == <<"multiply">>
  <2>1. x \in Seq(Words) /\ Len(x) = 1 /\ x[1] = "pointBorder"
    BY DEF Words, ContactReleases
  <2>2. y \in Seq(Words) /\ Len(y) = 1 /\ y[1] = "multiply"
    BY DEF Words, ContactReleases
  <2> HIDE DEF x, y
  <2>3. /\ x \o y \in Seq(Words) /\ Len(x \o y) = 2
        /\ (x \o y)[1] = "pointBorder" /\ (x \o y)[2] = "multiply"
    <3>1. /\ x \o y \in Seq(Words) /\ Len(x \o y) = 1 + 1
          /\ \A i \in 1 .. 1 + 1 : (x \o y)[i] = IF i <= 1 THEN x[i] ELSE y[i - 1]
      BY <2>1, <2>2, ConcatProperties
    <3> QED
      BY <2>1, <2>2, <3>1
  <2>4. {(x \o y)[i] : i \in 1 .. Len(x \o y)} = {"pointBorder", "multiply"}
    BY <2>3
  <2>5. "ensure" \in Words
    BY DEF Words
  <2>6. Lists(Make("ensure", x \o y), {"pointBorder", "multiply"})
    BY <2>3, <2>4, <2>5, NamesOfMade DEF Lists
  <2> QED
    BY <2>6 DEF x, y, ContactSampler, ContactBlend
<1>3. Lists(c, {"constants", "mask"})
  BY Two DEF Words, ContactReleases
<1>4. Lists(d, {"shader"})
  BY One DEF Words, ContactReleases
<1> HIDE DEF a, b, c, d
<1>5. Lists(a \o b,
          {"modulate", "pointBorder", "multiply"})
  <2>1. {"modulate", "pointBorder", "multiply"} =
            {"modulate"} \cup {"pointBorder", "multiply"}
    OBVIOUS
  <2> QED
    BY <1>2, <1>1, <2>1, Both
<1>6. Lists((a \o b) \o c,
          {"modulate", "pointBorder", "multiply", "constants", "mask"})
  <2>1. {"modulate", "pointBorder", "multiply", "constants", "mask"} =
            {"modulate", "pointBorder", "multiply"} \cup {"constants", "mask"}
    OBVIOUS
  <2> QED
    BY <1>3, <1>5, <2>1, Both
<1>7. Lists(((a \o b) \o c) \o d,
          {"modulate", "pointBorder", "multiply", "constants", "mask", "shader"})
  <2>1. {"modulate", "pointBorder", "multiply", "constants", "mask", "shader"} =
            {"modulate", "pointBorder", "multiply", "constants", "mask"} \cup {"shader"}
    OBVIOUS
  <2> QED
    BY <1>4, <1>6, <2>1, Both
<1> QED
  BY <1>7 DEF ContactSteps, a, b, c, d

LEMMA HeightStepsList ==
    Lists(HeightSteps,
          {"shader", "alpha", "constants"})
<1> DEFINE a == Make("compile", <<"shader">>)
           b == Make("ensure", HeightBlend)
           c == Make("create", <<"constants">>)
<1>1. Lists(a, {"shader"})
  BY One DEF Words, HeightReleases
<1>2. Lists(b, {"alpha"})
  BY One DEF Words, HeightReleases, HeightBlend
<1>3. Lists(c, {"constants"})
  BY One DEF Words, HeightReleases
<1> HIDE DEF a, b, c
<1>4. Lists(a \o b,
          {"shader", "alpha"})
  <2>1. {"shader", "alpha"} =
            {"shader"} \cup {"alpha"}
    OBVIOUS
  <2> QED
    BY <1>2, <1>1, <2>1, Both
<1>5. Lists((a \o b) \o c,
          {"shader", "alpha", "constants"})
  <2>1. {"shader", "alpha", "constants"} =
            {"shader", "alpha"} \cup {"constants"}
    OBVIOUS
  <2> QED
    BY <1>3, <1>4, <2>1, Both
<1> QED
  BY <1>5 DEF HeightSteps, a, b, c

\* The names of what each effect sets up.
LEMMA AllIs ==
    /\ \A f \in Effect : Len(Steps(f)) \in Nat /\ All(f) = NamesOf(Steps(f))
    /\ All(View) = {"shader", "plain", "pointClamp", "constants"}
    /\ All(Sky) = {"shader", "multiply", "plain", "depthState", "comparison", "linearClamp",
                   "constants", "patch", "occlusion", "probes", "accumFrames", "ambientProbe",
                   "sceneProbe"}
    /\ All(Clouds) = {"shader", "multiply", "plain", "alphaComposite", "cullNone",
                      "linearClamp", "constants", "coverage"}
    /\ All(Contact) = {"modulate", "pointBorder", "multiply", "constants", "mask", "shader"}
    /\ All(Height) = {"shader", "alpha", "constants"}
<1>6. /\ Steps(View) = ViewSteps /\ Steps(Sky) = SkySteps /\ Steps(Clouds) = CloudSteps
      /\ Steps(Contact) = ContactSteps /\ Steps(Height) = HeightSteps
  BY DEF Steps, View, Sky, Clouds, Contact, Height
<1>7. \A f \in Effect : Steps(f) \in Seq(Step)
  BY <1>6, ViewStepsList, SkyStepsList, CloudStepsList, ContactStepsList, HeightStepsList
     DEF Effect, Lists
<1>8. \A f \in Effect : Len(Steps(f)) \in Nat
  BY <1>7, LenProperties
<1>9. \A f : All(f) = NamesOf(Steps(f))
  BY DEF All, Names, NamesOf
<1> QED
  BY <1>6, <1>8, <1>9, ViewStepsList, SkyStepsList, CloudStepsList, ContactStepsList,
     HeightStepsList DEF Lists
\* Shutdown knows everything that Setup and the draws acquire.
LEMMA Known == \A f \in Effect : All(f) \cup Lazily(f) \subseteq Released(f)
<1>1. All(View) \cup Lazily(View) \subseteq Released(View)
  BY AllIs DEF Lazily, Released, ViewReleases, View, Sky, Clouds
<1>2. All(Sky) \cup Lazily(Sky) \subseteq Released(Sky)
  BY AllIs DEF Lazily, Released, SkyReleases, Sky, Clouds
<1>3. All(Clouds) \cup Lazily(Clouds) \subseteq Released(Clouds)
  BY AllIs DEF Lazily, Released, CloudReleases, Sky, Clouds
<1>4. All(Contact) \cup Lazily(Contact) \subseteq Released(Contact)
  BY AllIs DEF Lazily, Released, ContactReleases, Contact, Sky, Clouds
<1>5. All(Height) \cup Lazily(Height) \subseteq Released(Height)
  BY AllIs DEF Lazily, Released, HeightReleases, Height, Sky, Clouds
<1> QED
  BY <1>1, <1>2, <1>3, <1>4, <1>5 DEF Effect

\* An effect uses nothing but what it set up.
LEMMA Used ==
    ASSUME NEW f \in Effect, NEW p \in PassesOf(f)
    PROVE  /\ Uses(p) \subseteq All(f)
           /\ "mask" \in All(f) => f = Contact
<1>1. CASE f = View
  BY <1>1, AllIs DEF PassesOf, Uses, View, Contact
<1>2. CASE f = Sky
  BY <1>2, AllIs DEF PassesOf, Uses, View, Sky, Contact
<1>3. CASE f = Clouds
  BY <1>3, AllIs DEF PassesOf, Uses, View, Sky, Clouds, Contact
<1>4. CASE f = Contact
  BY <1>4, AllIs DEF PassesOf, Uses, View, Sky, Clouds, Contact
<1>5. CASE f = Height
  BY <1>5, AllIs DEF PassesOf, Uses, View, Sky, Clouds, Contact, Height
<1> QED
  BY <1>1, <1>2, <1>3, <1>4, <1>5 DEF Effect

\* A Setup that stops has acquired something Shutdown knows, and it wrote over
\* nothing, if it held nothing when it began.
LEMMA Halfway ==
    ASSUME NEW f \in Effect, NEW k \in 1 .. Len(Steps(f)) + 1, held[f] = {}
    PROVE  Acquired(f, k) \subseteq All(f) /\ ~Overwritten(f, k)
<1>1. Len(Steps(f)) \in Nat
  BY AllIs
<1>2. \A i \in 1 .. k - 1 : i \in 1 .. Len(Steps(f))
  BY <1>1
<1>3. Names(f, 1, k - 1) \subseteq All(f)
  BY <1>2 DEF Names, All
<1> QED
  BY <1>3 DEF Acquired, Overwritten

\* A Setup that does not stop has acquired everything.
LEMMA AllAcquired ==
    ASSUME NEW f \in Effect, held[f] = {}
    PROVE  /\ Acquired(f, Len(Steps(f)) + 1) = All(f)
           /\ ~Overwritten(f, Len(Steps(f)) + 1)
<1>1. Len(Steps(f)) \in Nat
  BY AllIs
<1>2. Len(Steps(f)) + 1 - 1 = Len(Steps(f)) /\ ~(Len(Steps(f)) + 1 <= Len(Steps(f)))
  BY <1>1
<1> QED
  BY <1>2 DEF Acquired, Overwritten, All
-----------------------------------------------------------------------------
\* What does not concern an effect leaves it as it is.
LEMMA Undisturbed ==
    ASSUME NEW f \in Effect, HeldOf(f), state'[f] = state[f], held'[f] = held[f],
           listening'[f] = listening[f], fullscreen = "ready" => fullscreen' = "ready"
    PROVE  HeldOf(f)'
BY DEF HeldOf

\* Shutdown leaves nothing.
LEMMA ShutIsEmpty ==
    ASSUME HeldInv, NEW f \in Effect, NEW h, h \subseteq All(f) \cup Lazily(f), ShutDown(f, h),
           \A g \in Effect : g # f => state'[g] = state[g],
           state'[f] # "running", fullscreen = "ready" => fullscreen' = "ready",
           leaked' = {}, size' = size
    PROVE  HeldInv'
<1>1. /\ held' = [held EXCEPT ![f] = h \ Released(f)]
      /\ listening' = [listening EXCEPT ![f] = @ \ Phases(f)]
  BY DEF ShutDown, Unsubscribed
<1>2. h \ Released(f) = {}
  BY Known
<1>3. DOMAIN held = Effect /\ DOMAIN listening = Effect
  BY DEF HeldInv
<1>4. listening[f] \ Phases(f) = {}
  BY DEF HeldInv, HeldOf
<1>5. held'[f] = {} /\ listening'[f] = {}
  BY <1>1, <1>2, <1>3, <1>4
<1>6. \A g \in Effect : g # f => held'[g] = held[g] /\ listening'[g] = listening[g]
  BY <1>1, <1>3
<1>7. \A g \in Effect : HeldOf(g)'
  <2> TAKE g \in Effect
  <2>1. CASE g = f
    BY <1>5, <2>1 DEF HeldOf
  <2>2. CASE g # f
    BY <1>6, <2>2, Undisturbed DEF HeldInv
  <2> QED
    BY <2>1, <2>2
<1> QED
  BY <1>1, <1>3, <1>7 DEF HeldInv

\* The effects are the features registered.
LEMMA EffectIsFeature == Effect = Features /\ 5 \in Effect
<1>1. Features = 1 .. 5
  BY EffectsAssumption DEF Features
<1>2. 1 .. 5 = {1, 2, 3, 4, 5}
  OBVIOUS
<1> QED
  BY <1>1, <1>2 DEF Effect, View, Sky, Clouds, Contact, Height

\* The calls of the registry write to one entry.
LEMMA OneEntry ==
    ASSUME IInv, NEW f \in Effect, Setup(f) \/ Teardown(f) \/ Frame(f)
    PROVE  /\ \A g \in Effect : g # f => state'[g] = state[g]
           /\ Setup(f) => state[f] = "off"
           /\ Teardown(f) => state'[f] # "running"
           /\ Frame(f) => state[f] = "running"
<1>1. state \in [Features -> States] /\ f \in Features /\ Effect = Features
  BY EffectIsFeature DEF IInv, TypeOK
<1>2. ASSUME NEW s, state' = [state EXCEPT ![f] = s]
      PROVE  /\ \A g \in Effect : g # f => state'[g] = state[g]
             /\ state'[f] = s
  BY <1>1, <1>2
<1>3. CASE Setup(f)
  <2>1. /\ \/ state' = [state EXCEPT ![f] = "running"]
           \/ state' = [state EXCEPT ![f] = "refused"]
        /\ state[f] = "off" /\ phase = "setup"
    BY <1>3 DEF Setup, SetupEntry, WriteOff, ShutdownEntry, ToSetUp, In
  <2> QED
    BY <1>2, <2>1 DEF Teardown, Frame
<1>4. CASE Teardown(f)
  <2>1. state' = [state EXCEPT ![f] = "off"] /\ phase = "teardown"
    BY <1>4 DEF Teardown, ShutdownEntry
  <2>2. ~Setup(f) /\ ~Frame(f)
    BY <2>1 DEF Setup, Frame
  <2>3. state'[f] = "off" /\ \A g \in Effect : g # f => state'[g] = state[g]
    BY <1>2, <2>1
  <2> QED
    BY <2>2, <2>3
<1>5. CASE Frame(f)
  <2>1. /\ state' = state \/ state' = [state EXCEPT ![f] = "refused"]
        /\ phase = "frame"
    BY <1>5 DEF Frame, FrameEntry, WriteOff, ShutdownEntry
  <2>2. state[f] = "running"
    BY <1>5 DEF Frame, IInv, LoopInv, In
  <2> QED
    BY <1>2, <2>1, <2>2 DEF Setup, Teardown
<1> QED
  BY <1>3, <1>4, <1>5
\* Setup, Frame and Shutdown leave an effect whole or with nothing.
LEMMA CallsHold ==
    ASSUME IInv, HeldInv, NEW f \in Effect,
           EffectSetup(f) \/ EffectTeardown(f) \/ EffectFrame(f)
    PROVE  HeldInv'
<1>1. CASE EffectSetup(f)
  <2>1. /\ \A g \in Effect : g # f => state'[g] = state[g]
        /\ state[f] = "off" /\ size' = size
    BY <1>1, OneEntry DEF EffectSetup
  <2>2. held[f] = {} /\ listening[f] = {} /\ leaked = {}
    BY <2>1 DEF HeldInv, HeldOf
  <2>3. CASE state'[f] = "running"
    <3>1. SetUp(f)
      BY <1>1, <2>3 DEF EffectSetup
    <3>2. /\ held' = [held EXCEPT ![f] = All(f)] /\ leaked' = {}
          /\ listening' = [listening EXCEPT ![f] = Phases(f)] /\ fullscreen' = "ready"
      BY <2>2, <3>1, AllAcquired DEF SetUp, Leak, PassReady
    <3>3. \A g \in Effect :
            IF g = f THEN held'[g] = All(f) /\ listening'[g] = Phases(f)
            ELSE held'[g] = held[g] /\ listening'[g] = listening[g]
      BY <3>2 DEF HeldInv
    <3>4. \A g \in Effect : HeldOf(g)'
      <4> TAKE g \in Effect
      <4>1. CASE g = f
        BY <2>3, <3>2, <3>3, <4>1 DEF HeldOf
      <4>2. CASE g # f
        BY <2>1, <3>2, <3>3, <4>2, Undisturbed DEF HeldInv
      <4> QED
        BY <4>1, <4>2
    <3> QED
      BY <2>1, <3>2, <3>4 DEF HeldInv
  <2>4. CASE state'[f] # "running"
    <3>1. GaveUp(f)
      BY <1>1, <2>4 DEF EffectSetup
    <3>2. CASE PassRefused /\ ShutDown(f, held[f]) /\ UNCHANGED leaked
      BY <2>1, <2>2, <2>4, <3>2, ShutIsEmpty DEF PassRefused
    <3>3. ASSUME NEW k \in 1 .. Len(Steps(f)) + 1, PassReady, Leak(f, k),
                 ShutDown(f, Acquired(f, k))
          PROVE  HeldInv'
      <4>1. Acquired(f, k) \subseteq All(f) \cup Lazily(f) /\ leaked' = {}
        BY <2>2, <3>3, Halfway DEF Leak
      <4> QED
        BY <2>1, <2>4, <3>3, <4>1, ShutIsEmpty DEF PassReady
    <3> QED
      BY <3>1, <3>2, <3>3 DEF GaveUp
  <2> QED
    BY <2>3, <2>4
<1>2. CASE EffectTeardown(f)
  <2>1. /\ \A g \in Effect : g # f => state'[g] = state[g]
        /\ state'[f] # "running" /\ ShutDown(f, held[f])
        /\ UNCHANGED <<fullscreen, leaked, size>>
    BY <1>2, OneEntry DEF EffectTeardown
  <2>2. held[f] \subseteq All(f) \cup Lazily(f) /\ leaked = {}
    BY DEF HeldInv, HeldOf
  <2> QED
    BY <2>1, <2>2, ShutIsEmpty
<1>3. CASE EffectFrame(f)
  <2>1. /\ \A g \in Effect : g # f => state'[g] = state[g]
        /\ state[f] = "running" /\ UNCHANGED <<fullscreen, leaked, size>>
    BY <1>3, OneEntry DEF EffectFrame
  <2>2. held[f] \subseteq All(f) \cup Lazily(f) /\ leaked = {}
    BY DEF HeldInv, HeldOf
  <2>3. CASE state'[f] # "running"
    <3>1. ShutDown(f, held[f])
      BY <1>3, <2>3 DEF EffectFrame
    <3> QED
      BY <2>1, <2>2, <2>3, <3>1, ShutIsEmpty
  <2>4. CASE state'[f] = "running"
    <3>1. PICK h \in Compile(f) : held' = [held EXCEPT ![f] = h]
      BY <1>3, <2>4 DEF EffectFrame
    <3>2. listening' = listening
      BY <1>3, <2>4 DEF EffectFrame
    <3>3. "shader" \in All(f)
      BY AllIs DEF Effect
    <3>4. held[f] \subseteq h /\ h \subseteq All(f) \cup Lazily(f)
      BY <2>2, <3>1, <3>3 DEF Compile
    <3>5. \A g \in Effect : held'[g] = IF g = f THEN h ELSE held[g]
      BY <3>1 DEF HeldInv
    <3>6. \A g \in Effect : HeldOf(g)'
      <4> TAKE g \in Effect
      <4>1. CASE g = f
        BY <2>1, <2>4, <3>2, <3>4, <3>5, <4>1 DEF HeldInv, HeldOf
      <4>2. CASE g # f
        BY <2>1, <3>2, <3>5, <4>2, Undisturbed DEF HeldInv
      <4> QED
        BY <4>1, <4>2
    <3> QED
      BY <2>1, <2>2, <3>1, <3>2, <3>6 DEF HeldInv
  <2> QED
    BY <2>3, <2>4
<1> QED
  BY <1>1, <1>2, <1>3

\* So do the draws in between, and none of them misses anything.
LEMMA DrawsHold ==
    ASSUME HeldInv, DrawsAreFit, NEW f \in Effect, NEW p \in Passes,
           Pass(f, p) \/ Repeat(f)
    PROVE  HeldInv' /\ DrawsAreFit'
<1>1. /\ UNCHANGED <<state, fullscreen, leaked, listening, size>>
      /\ listening[f] # {}
  BY DEF Pass, Repeat, InFrame, vars, shadows
<1>2. state[f] = "running"
  BY <1>1 DEF HeldInv, HeldOf
<1>3. ASSUME NEW h, held' = [held EXCEPT ![f] = h],
             All(f) \ {"mask"} \subseteq h, h \subseteq All(f) \cup Lazily(f)
      PROVE  HeldInv' /\ held'[f] = h
  <2>1. \A g \in Effect : held'[g] = IF g = f THEN h ELSE held[g]
    BY <1>3 DEF HeldInv
  <2>2. \A g \in Effect : HeldOf(g)'
    <3> TAKE g \in Effect
    <3>1. CASE g = f
      BY <1>1, <1>2, <1>3, <2>1, <3>1 DEF HeldInv, HeldOf
    <3>2. CASE g # f
      BY <1>1, <2>1, <3>2, Undisturbed DEF HeldInv
    <3> QED
      BY <3>1, <3>2
  <2> QED
    BY <1>1, <1>3, <2>1, <2>2 DEF HeldInv
<1>4. /\ All(f) \ {"mask"} \subseteq held[f]
      /\ held[f] \subseteq All(f) \cup Lazily(f)
      /\ fullscreen = "ready" /\ size \in Nat \ {0}
  BY <1>2 DEF HeldInv, HeldOf
<1>5. CASE Repeat(f)
  <2>1. PICK l \in SUBSET Lazily(f) : held' = [held EXCEPT ![f] = @ \cup l]
    BY <1>5 DEF Repeat
  <2>2. unfit' = unfit
    BY <1>5 DEF Repeat
  <2> QED
    BY <1>3, <1>4, <2>1, <2>2 DEF DrawsAreFit
<1>6. CASE Pass(f, p) /\ f # Contact
  <2>1. held' = held /\ unfit' = (unfit \/ (Guarded(f) \subseteq held'[f] /\ ~Fit(f, p)))
        /\ p \in PassesOf(f)
    BY <1>6 DEF Pass
  <2>2. Uses(p) \subseteq held'[f]
    BY <1>4, <1>6, <2>1, Used
  <2>3. Fit(f, p)
    BY <1>4, <1>6, <2>2 DEF Fit
  <2>4. \A g \in Effect : HeldOf(g)'
    BY <1>1, <2>1, Undisturbed DEF HeldInv
  <2> QED
    BY <1>1, <2>1, <2>3, <2>4 DEF HeldInv, DrawsAreFit
<1>7. CASE Pass(f, p) /\ f = Contact
  <2>1. /\ mask' \in EnsuredMask /\ p \in PassesOf(f)
        /\ held' = [held EXCEPT ![f] = IF mask' = 0 THEN @ \ {"mask"} ELSE @ \cup {"mask"}]
        /\ unfit' = (unfit \/ (Guarded(f) \subseteq held'[f] /\ ~Fit(f, p)))
    BY <1>7 DEF Pass
  <2>2. "mask" \in All(f) /\ "mask" \in Guarded(f)
    BY <1>7, AllIs DEF Guarded, Contact, Clouds
  <2> DEFINE h == IF mask' = 0 THEN held[f] \ {"mask"} ELSE held[f] \cup {"mask"}
  <2>3. HeldInv' /\ held'[f] = h
    BY <1>3, <1>4, <2>1, <2>2
  <2>4. Guarded(f) \subseteq held'[f] => Fit(f, p)
    <3> SUFFICES ASSUME Guarded(f) \subseteq held'[f] PROVE Fit(f, p)
      OBVIOUS
    <3>1. "mask" \in held'[f] /\ mask' # 0
      BY <2>2, <2>3
    <3>2. mask' = size /\ size' = size
      BY <1>1, <1>4, <2>1, <3>1 DEF EnsuredMask
    <3>3. Uses(p) \subseteq held'[f]
      BY <1>4, <2>1, <2>3, <3>1, Used
    <3> QED
      BY <1>4, <3>2, <3>3 DEF Fit
  <2> QED
    BY <2>1, <2>3, <2>4 DEF DrawsAreFit
<1> QED
  BY <1>5, <1>6, <1>7
-----------------------------------------------------------------------------
(* The clamp of the fog                                                    *)

\* What the fog takes for the engine's own value is that.
LEMMA VanillaIsTheEngines == ClampInv => VanillaClamp = engineClamp
BY DEF ClampInv, VanillaClamp

\* Taken back, the clamp is the engine's.
LEMMA TakenBack ==
    ASSUME ClampInv, RestoreVanillaFog, engineClamp' = engineClamp
    PROVE  ClampInv'
<1>1. clamp' = engineClamp' /\ ~override'.stands
  BY VanillaIsTheEngines DEF RestoreVanillaFog, NoOverride
<1> QED
  BY <1>1 DEF ClampInv

\* The steps of the registry that call no effect start and stop none.
LEMMA RegistryCalls ==
    ASSUME RegistryStep, NEW f \in Effect
    PROVE  state'[f] = "running" <=> state[f] = "running"
<1>1. CASE TickBegin
  <2>1. state' = state \/ state' = ClearRefusals
    BY <1>1 DEF TickBegin
  <2>2. ClearRefusals[f] = "running" <=> state[f] = "running"
    BY EffectIsFeature DEF ClearRefusals
  <2> QED
    BY <2>1, <2>2
<1>2. CASE UNCHANGED state
  BY <1>2
<1> QED
  BY <1>1, <1>2 DEF RegistryStep, Change, TornDown, AllSetUp, TickEnd

\* The ways in which the effects take a step.
LEMMA StepIsOne ==
    ASSUME EffectsNext
    PROVE  \/ RegistryStep
           \/ \E f \in Effect : EffectSetup(f) \/ EffectTeardown(f) \/ EffectFrame(f)
           \/ \E f \in Effect, p \in Passes : Pass(f, p) \/ Repeat(f)
           \/ \E a \in Amounts : DimFog(a)
           \/ Resize \/ EngineFog
<1>1. CASE \E f \in Effect : Repeat(f)
  <2>1. "Fog" \in Passes
    BY DEF Passes
  <2> QED
    BY <1>1, <2>1
<1>2. CASE \E f \in Effect : \E p \in Passes : Pass(f, p)
  BY <1>2
<1> QED
  BY <1>1, <1>2 DEF EffectsNext

\* Every step of the effects keeps what the fog's note says true.
LEMMA ClampStepInv ==
    ASSUME IInv, HeldInv, EnginesDiffer, ClampInv, EffectsNext
    PROVE  ClampInv'
<1>1. CASE RegistryStep
  <2>1. UNCHANGED clampVars
    BY <1>1 DEF RegistryStep, effectVars
  <2>2. state[Height] # "running" => ~override.stands
    BY DEF ClampInv
  <2>3. state'[Height] # "running" => state[Height] # "running"
    BY <1>1, RegistryCalls DEF Effect
  <2> QED
    BY <2>1, <2>2, <2>3 DEF ClampInv, clampVars
<1>2. ASSUME NEW f \in Effect, EffectSetup(f) \/ EffectTeardown(f) \/ EffectFrame(f)
      PROVE  ClampInv'
  <2>1. engineClamp' = engineClamp
        /\ \A g \in Effect : g # f => state'[g] = state[g]
    BY <1>2, OneEntry DEF EffectSetup, EffectTeardown, EffectFrame
  <2>2. CASE f = Height /\ state'[f] # "running"
    <3>1. RestoreVanillaFog
      BY <1>2, <2>2, OneEntry
         DEF EffectSetup, EffectTeardown, EffectFrame, GaveUp, ShutDown
    <3> QED
      BY <2>1, <3>1, TakenBack
  <2>3. CASE f = Height /\ state'[f] = "running"
    <3>1. UNCHANGED <<clamp, override>>
      BY <1>2, <2>3, OneEntry DEF EffectSetup, EffectTeardown, EffectFrame, SetUp
    <3> QED
      BY <2>1, <2>3, <3>1 DEF ClampInv
  <2>4. CASE f # Height
    <3>1. UNCHANGED <<clamp, override>>
      BY <1>2, <2>4
         DEF EffectSetup, EffectTeardown, EffectFrame, SetUp, GaveUp, ShutDown
    <3>2. state'[Height] = state[Height]
      BY <2>1, <2>4 DEF Effect
    <3> QED
      BY <2>1, <3>1, <3>2 DEF ClampInv
  <2> QED
    BY <2>2, <2>3, <2>4
<1>3. ASSUME NEW f \in Effect, NEW p \in Passes, Pass(f, p) \/ Repeat(f)
      PROVE  ClampInv'
  <2>1. UNCHANGED clampVars /\ state' = state
    BY <1>3 DEF Pass, Repeat, InFrame, vars
  <2> QED
    BY <2>1 DEF ClampInv, clampVars
<1>4. ASSUME NEW a \in Amounts, DimFog(a) PROVE ClampInv'
  <2>1. /\ engineClamp' = engineClamp /\ state' = state
        /\ "kBeforeComposite" \in listening[Height] /\ ApplyVanillaFog(a)
    BY <1>4 DEF DimFog, InFrame, vars
  <2>2. state[Height] = "running"
    BY <2>1 DEF HeldInv, HeldOf, Effect
  <2>3. CASE a >= 100
    BY <2>1, <2>3, TakenBack DEF ApplyVanillaFog
  <2>4. CASE ~(a >= 100)
    <3>1. /\ clamp' = (engineClamp * a) \div 100
          /\ override' = [stands |-> TRUE, original |-> engineClamp, written |-> clamp']
      BY <2>1, <2>4, VanillaIsTheEngines DEF ApplyVanillaFog
    <3>2. a < 100
      BY <2>4, EffectConstantsAssumption
    <3>3. /\ override'.stands /\ override'.written = clamp'
          /\ override'.original = engineClamp
      BY <3>1
    <3> QED
      BY <2>1, <2>2, <3>1, <3>2, <3>3 DEF ClampInv
  <2> QED
    BY <2>3, <2>4
<1>5. CASE Resize
  <2>1. UNCHANGED clampVars /\ state' = state
    BY <1>5 DEF Resize, InFrame, vars
  <2> QED
    BY <2>1 DEF ClampInv, clampVars
<1>6. CASE EngineFog
  <2>1. /\ engineClamp' \in EngineClamps /\ clamp' = engineClamp'
        /\ override' = override /\ state' = state
    BY <1>6 DEF EngineFog, InFrame, vars
  <2>2. ASSUME override.stands, clamp' = override.written
        PROVE  override.original = engineClamp'
    <3>1. PICK a \in Amounts :
             a < 100 /\ override.written = (override.original * a) \div 100
      BY <2>2 DEF ClampInv
    <3>2. override.original \in EngineClamps
      BY <2>2 DEF ClampInv
    <3> QED
      BY <2>1, <2>2, <3>1, <3>2 DEF EnginesDiffer
  <2> QED
    BY <2>1, <2>2 DEF ClampInv
<1> QED
  BY <1>1, <1>2, <1>3, <1>4, <1>5, <1>6, StepIsOne

-----------------------------------------------------------------------------
(* The steps of the effects                                                *)

\* The effects take the steps of the registry, and no other.
LEMMA EffectsAreSteps == EffectsNext => [Next]_vars
<1> SUFFICES ASSUME EffectsNext PROVE [Next]_vars
  OBVIOUS
<1>1. CASE RegistryStep
  BY <1>1 DEF RegistryStep, Next
<1>2. ASSUME NEW f \in Effect, EffectSetup(f) \/ EffectTeardown(f) \/ EffectFrame(f)
      PROVE  [Next]_vars
  BY <1>2, EffectIsFeature DEF EffectSetup, EffectTeardown, EffectFrame, Next
<1>3. ASSUME NEW f \in Effect, NEW p \in Passes, Pass(f, p) \/ Repeat(f)
      PROVE  [Next]_vars
  BY <1>3 DEF Pass, Repeat, InFrame
<1>4. CASE (\E a \in Amounts : DimFog(a)) \/ Resize \/ EngineFog
  BY <1>4 DEF DimFog, Resize, EngineFog, InFrame
<1> QED
  BY <1>1, <1>2, <1>3, <1>4, StepIsOne

\* Every step of the effects keeps what they hold, and no draw is unfit.
LEMMA HeldStepInv ==
    ASSUME IInv, HeldInv, DrawsAreFit, EffectsNext
    PROVE  HeldInv' /\ DrawsAreFit'
<1>1. CASE RegistryStep
  <2>1. UNCHANGED <<fullscreen, held, leaked, listening, size, unfit>>
    BY <1>1 DEF RegistryStep, effectVars, resources, shadows
  <2>2. \A f \in Effect : state'[f] = "running" <=> state[f] = "running"
    BY <1>1, RegistryCalls
  <2> QED
    BY <2>1, <2>2 DEF HeldInv, HeldOf, DrawsAreFit
<1>2. ASSUME NEW f \in Effect, EffectSetup(f) \/ EffectTeardown(f) \/ EffectFrame(f)
      PROVE  HeldInv' /\ DrawsAreFit'
  <2>1. unfit' = unfit
    BY <1>2 DEF EffectSetup, EffectTeardown, EffectFrame
  <2> QED
    BY <1>2, <2>1, CallsHold DEF DrawsAreFit
<1>3. ASSUME NEW f \in Effect, NEW p \in Passes, Pass(f, p) \/ Repeat(f)
      PROVE  HeldInv' /\ DrawsAreFit'
  BY <1>3, DrawsHold
<1>4. CASE (\E a \in Amounts : DimFog(a)) \/ Resize \/ EngineFog
  <2>1. UNCHANGED <<state, fullscreen, held, leaked, listening, unfit>>
    BY <1>4 DEF DimFog, Resize, EngineFog, InFrame, vars
  <2>2. size' \in Nat \ {0}
    BY <1>4 DEF DimFog, Resize, EngineFog, shadows, HeldInv
  <2> QED
    BY <2>1, <2>2 DEF HeldInv, HeldOf, DrawsAreFit
<1> QED
  BY <1>1, <1>2, <1>3, <1>4, StepIsOne
-----------------------------------------------------------------------------
(* Binding                                                                 *)

\* What would be in slot s after a call, if nothing were dropped.
Would(b, new, s) == IF s \in DOMAIN new THEN new[s] ELSE b[s]

NoClash(b) == \A i \in Inputs, o \in Outputs : b[i] = b[o] => b[i] = "none"

LEMMA SlotsDiffer == Inputs \cap Outputs = {} /\ Inputs \subseteq Slots /\ Outputs \subseteq Slots
BY DEF Inputs, Outputs, Slots

\* Every slot gets what the call names or keeps what it has, but for an input
\* that is an output now; so nothing is both, ever.
LEMMA BindIs ==
    ASSUME NEW b, NEW new, DOMAIN b = Slots, DOMAIN new \subseteq Slots
    PROVE  /\ DOMAIN Bind(b, new) = Slots
           /\ \A s \in Slots \ Inputs : Bind(b, new)[s] = Would(b, new, s)
           /\ \A s \in Inputs : Bind(b, new)[s] \in {"none", Would(b, new, s)}
           /\ \A s \in Inputs : (\A o \in Outputs : Would(b, new, s) = Would(b, new, o)
                                                       => Would(b, new, s) = "none")
                 => Bind(b, new)[s] = Would(b, new, s)
           /\ NoClash(Bind(b, new))
<1> DEFINE w == With(b, new)
           outputs == {w[s] : s \in Outputs} \ {"none"}
           r == Bind(b, new)
<1>1. \A s \in Slots : w[s] = Would(b, new, s)
  BY DEF With, Would
<1>2. r = [s \in Slots |-> IF s \in Inputs /\ w[s] \in outputs THEN "none" ELSE w[s]]
  BY DEF Bind
<1> HIDE DEF r, w
<1>3. DOMAIN r = Slots /\ \A s \in Slots : r[s] = IF s \in Inputs /\ w[s] \in outputs THEN "none" ELSE w[s]
  BY <1>2
<1>4. \A s \in Slots \ Inputs : r[s] = Would(b, new, s)
  BY <1>1, <1>3
<1>5. \A s \in Inputs : r[s] \in {"none", Would(b, new, s)}
  BY <1>1, <1>3, SlotsDiffer
<1>6. ASSUME NEW s \in Inputs,
             \A o \in Outputs : Would(b, new, s) = Would(b, new, o) => Would(b, new, s) = "none"
      PROVE  r[s] = Would(b, new, s)
  BY <1>1, <1>3, <1>6, SlotsDiffer
<1>7. NoClash(r)
  <2> SUFFICES ASSUME NEW i \in Inputs, NEW o \in Outputs, r[i] = r[o] PROVE r[i] = "none"
    BY DEF NoClash
  <2>1. r[o] = w[o]
    BY <1>3, SlotsDiffer
  <2> QED
    BY <1>3, <2>1, SlotsDiffer
<1> QED
  BY <1>3, <1>4, <1>5, <1>6, <1>7 DEF r

\* What is bound between two passes: nothing of ours that the engine could
\* read or write.
RenderTargets == {"RT0", "RT1", "DSV"}
Targets == {"none", "hdr", "diffuse", "sceneDepth"}
Sources == {"none", "sceneDepth", "diffuse", "ao", "specular", "hdr", "texture"}
Idle(b) ==
    /\ DOMAIN b = Slots
    /\ NoClash(b)
    /\ \A s \in RenderTargets : b[s] \in Targets
    /\ b["CSUAV0"] \in {"none", "buffer"} /\ b["CSUAV1"] = "none"
    /\ \A s \in Inputs : b[s] \in Sources
    /\ b["CS"] # "ours" /\ b["inputLayout"] # "ours"

LEMMA EntriesIdle == \A b \in Entries : Idle(b)
<1> SUFFICES ASSUME NEW rt \in {"hdr", "diffuse"}, NEW dsv \in {"none", "sceneDepth"},
                    NEW in0 \in {"sceneDepth", "diffuse", "ao"}, NEW in1 \in {"specular", "hdr"}
             PROVE  Idle(Entry(rt, dsv, in0, in1))
  BY DEF Entries
<1> DEFINE b == [s \in Slots |-> IF s \in Outputs \cup Inputs THEN "none" ELSE "engines"]
           new == [s \in {"RT0", "DSV", "PSSRV0", "PSSRV1", "PSSRV2", "CSSRV0", "CSUAV0"} |->
                      CASE s = "RT0" -> rt [] s = "DSV" -> dsv [] s = "PSSRV0" -> in0
                        [] s = "PSSRV1" -> in1 [] s = "CSUAV0" -> "buffer"
                        [] OTHER -> "texture"]
<1>1. DOMAIN b = Slots /\ DOMAIN new \subseteq Slots
  BY DEF Slots, Outputs, Inputs
<1>2. \A s \in RenderTargets : Would(b, new, s) \in Targets
  BY DEF Would, RenderTargets, Targets, Slots, Outputs
<1>3. Would(b, new, "CSUAV0") = "buffer" /\ Would(b, new, "CSUAV1") = "none"
  BY DEF Would, Slots, Outputs
<1>4. \A s \in Inputs : Would(b, new, s) \in Sources
  BY DEF Would, Inputs, Sources, Slots
<1>5. Would(b, new, "CS") = "engines" /\ Would(b, new, "inputLayout") = "engines"
  BY DEF Would, Slots, Outputs, Inputs, Compute, Graphics
<1> HIDE DEF b, new
<1>6. RenderTargets \cup {"CSUAV0", "CSUAV1", "CS", "inputLayout"} \subseteq Slots \ Inputs
  BY DEF Slots, Outputs, Inputs, Compute, Graphics, RenderTargets
<1>7. \A s \in Inputs : Bind(b, new)[s] \in Sources
  BY <1>1, <1>4, BindIs DEF Sources
<1>8. Idle(Bind(b, new))
  BY <1>1, <1>2, <1>3, <1>5, <1>6, <1>7, BindIs DEF Idle
<1> QED
  BY <1>8 DEF Entry, b, new
-----------------------------------------------------------------------------
(* Giving back                                                             *)

\* x has the saved bindings in the slots D, and nothing of ours in the others
\* that the engine could read or write.
Back(x, D) ==
    /\ DOMAIN x = Slots
    /\ NoClash(x)
    /\ \A s \in D : x[s] = saved[s]
    /\ x["CSUAV0"] \in {"none", "buffer"} /\ x["CSUAV1"] = "none"
    /\ x["PSSRV2"] \in Sources /\ x["inputLayout"] # "ours"

\* E is D and the slots of group i, the targets among them.
Grown(D, i, E) ==
    /\ i \in 1 .. 6 /\ D \subseteq Slots
    /\ E = D \cup GuardedSlots[i] /\ RenderTargets \subseteq E

LEMMA PutBackGroup ==
    ASSUME Idle(saved), NEW x, NEW D, NEW i, NEW E, Back(x, D), Grown(D, i, E)
    PROVE  Back(PutBack(x, i), E)
<1> DEFINE G == GuardedSlots[i]
           new == [s \in G |-> saved[s]]
           y == Bind(x, new)
<1>0. i \in 1 .. 6 /\ D \subseteq Slots /\ E = D \cup G /\ RenderTargets \subseteq E
  BY DEF Grown
<1>1. G \subseteq Slots /\ "CSUAV1" \notin G /\ "PSSRV2" \notin G /\ "inputLayout" \notin G
  BY <1>0 DEF GuardedSlots, Slots, Outputs, Inputs, Compute, Graphics
<1> HIDE DEF G
<1>2. DOMAIN x = Slots /\ DOMAIN new = G
  BY DEF Back
<1>3. \A s \in Slots : Would(x, new, s) = IF s \in G THEN saved[s] ELSE x[s]
  BY <1>2 DEF Would
<1> HIDE DEF new
<1>4. /\ DOMAIN y = Slots /\ NoClash(y)
      /\ \A s \in Slots \ Inputs : y[s] = Would(x, new, s)
      /\ \A s \in Inputs : y[s] \in {"none", Would(x, new, s)}
      /\ \A s \in Inputs : (\A o \in Outputs : Would(x, new, s) = Would(x, new, o)
                                                  => Would(x, new, s) = "none")
            => y[s] = Would(x, new, s)
  BY <1>1, <1>2, BindIs
<1> HIDE DEF y
<1>5. \A o \in Outputs : \/ Would(x, new, o) = saved[o]
                         \/ Would(x, new, o) \in {"none", "buffer"}
  <2> SUFFICES ASSUME NEW o \in Outputs PROVE Would(x, new, o) = saved[o] \/ Would(x, new, o) \in {"none", "buffer"}
    OBVIOUS
  <2>1. CASE o \in RenderTargets
    BY <1>0, <1>3, <2>1, SlotsDiffer DEF Back
  <2>2. CASE o \in {"CSUAV0", "CSUAV1"}
    BY <1>3, <2>2, SlotsDiffer DEF Back
  <2> QED
    BY <2>1, <2>2 DEF Outputs, RenderTargets
<1>6. ASSUME NEW s \in D \cup G PROVE y[s] = saved[s]
  <2>1. s \in Slots /\ Would(x, new, s) = saved[s]
    BY <1>0, <1>1, <1>3 DEF Back
  <2>2. CASE s \in Inputs
    <3>1. saved[s] \in Sources /\ NoClash(saved)
      BY <2>2 DEF Idle
    <3>2. \A o \in Outputs : saved[s] = Would(x, new, o) => saved[s] = "none"
      BY <1>5, <2>2, <3>1 DEF NoClash, Sources
    <3> QED
      BY <1>4, <2>1, <2>2, <3>2
  <2> QED
    BY <1>4, <2>1, <2>2
<1>7. y["CSUAV0"] \in {"none", "buffer"} /\ y["CSUAV1"] = "none" /\ y["inputLayout"] # "ours"
  <2>1. {"CSUAV0", "CSUAV1", "inputLayout"} \subseteq Slots \ Inputs
    BY DEF Slots, Outputs, Inputs, Graphics
  <2>2. saved["CSUAV0"] \in {"none", "buffer"}
    BY DEF Idle
  <2> QED
    BY <1>1, <1>3, <1>4, <2>1, <2>2 DEF Back
<1>8. y["PSSRV2"] \in Sources
  BY <1>1, <1>3, <1>4, SlotsDiffer DEF Back, Inputs, Sources
<1>9. Back(y, D \cup G)
  BY <1>4, <1>6, <1>7, <1>8 DEF Back
<1> QED
  BY <1>0, <1>9 DEF PutBack, y, new, G

Untouchable == {"CSUAV1", "inputLayout", "PSSRV2"}

\* The guard gives back all that it saved, whatever the pass left bound but
\* a mask or a texture of ours as an unordered output.
LEMMA AllBack ==
    ASSUME Idle(saved), NEW x, Back(x, {})
    PROVE  Back(Restored(x), Slots \ Untouchable)
<1> DEFINE x1 == PutBack(x, 1)  x2 == PutBack(x1, 2)  x3 == PutBack(x2, 3)
           x4 == PutBack(x3, 4) x5 == PutBack(x4, 5)  x6 == PutBack(x5, 6)
           D1 == GuardedSlots[1]        D2 == D1 \cup GuardedSlots[2]
           D3 == D2 \cup GuardedSlots[3] D4 == D3 \cup GuardedSlots[4]
           D5 == D4 \cup GuardedSlots[5] D6 == D5 \cup GuardedSlots[6]
<1>1. /\ D1 \subseteq Slots /\ D2 \subseteq Slots /\ D3 \subseteq Slots
      /\ D4 \subseteq Slots /\ D5 \subseteq Slots
  BY DEF GuardedSlots, Slots, Outputs, Inputs, Compute, Graphics
<1>2. D6 = Slots \ Untouchable
  BY DEF GuardedSlots, Slots, Outputs, Inputs, Compute, Graphics, Untouchable
<1>3. /\ Grown({}, 1, D1) /\ Grown(D1, 2, D2) /\ Grown(D2, 3, D3)
      /\ Grown(D3, 4, D4) /\ Grown(D4, 5, D5) /\ Grown(D5, 6, D6)
  <2>1. RenderTargets \subseteq D1
    BY DEF GuardedSlots, RenderTargets
  <2> HIDE DEF D1
  <2>2. D1 \subseteq D2 /\ D2 \subseteq D3 /\ D3 \subseteq D4 /\ D4 \subseteq D5 /\ D5 \subseteq D6
    OBVIOUS
  <2>3. {} \cup GuardedSlots[1] = D1
    BY DEF D1
  <2>4. /\ D2 = D1 \cup GuardedSlots[2] /\ D3 = D2 \cup GuardedSlots[3]
        /\ D4 = D3 \cup GuardedSlots[4] /\ D5 = D4 \cup GuardedSlots[5]
        /\ D6 = D5 \cup GuardedSlots[6]
    OBVIOUS
  <2> HIDE DEF D2, D3, D4, D5, D6
  <2> QED
    BY <1>1, <2>1, <2>2, <2>3, <2>4 DEF Grown
<1> HIDE DEF D1, D2, D3, D4, D5, D6
<1>4. Back(x1, D1)
  BY <1>3, PutBackGroup
<1> HIDE DEF x1
<1>5. Back(x2, D2)
  BY <1>3, <1>4, PutBackGroup
<1> HIDE DEF x2
<1>6. Back(x3, D3)
  BY <1>3, <1>5, PutBackGroup
<1> HIDE DEF x3
<1>7. Back(x4, D4)
  BY <1>3, <1>6, PutBackGroup
<1> HIDE DEF x4
<1>8. Back(x5, D5)
  BY <1>3, <1>7, PutBackGroup
<1> HIDE DEF x5
<1>9. Back(x6, D6)
  BY <1>3, <1>8, PutBackGroup
<1>10. x6 = Restored(x)
  BY DEF Restored, x1, x2, x3, x4, x5
<1> QED
  BY <1>2, <1>9, <1>10 DEF D6

\* With what it gives back, nothing of ours is bound that the engine could
\* read or write.
LEMMA BackIsIdle ==
    ASSUME Idle(saved), NEW x, Back(x, Slots \ Untouchable)
    PROVE  Idle(x)
<1>1. \A s \in RenderTargets \cup {"CS"} \cup (Inputs \ {"PSSRV2"}) : x[s] = saved[s]
  BY DEF Back, Untouchable, RenderTargets, Inputs, Outputs, Compute, Slots
<1>2. \A s \in RenderTargets : x[s] \in Targets
  BY <1>1 DEF Idle
<1>3. \A s \in Inputs : x[s] \in Sources
  BY <1>1 DEF Idle, Back, Inputs
<1>4. x["CS"] # "ours"
  BY <1>1 DEF Idle
<1> QED
  BY <1>2, <1>3, <1>4 DEF Idle, Back
-----------------------------------------------------------------------------
(* The calls                                                               *)

\* With the first c calls of pass p made: its targets, its unordered output,
\* and what it has asked to read.  The shadows let go of the mask they wrote
\* before they take the targets they read it for.
Target(p, c) ==
    CASE p = "Shadows" -> IF c < 7 THEN {"none"} ELSE {"none", "diffuse", "specular"}
      [] p \in {"Fog", "Show", "SkyDebug"} -> {"none", "hdr"}
      [] p \in {"Clouds", "CloudsDebug"} -> {"none", "diffuse", "specular"}
      [] OTHER -> {"none", "ao"}
Unordered(p, c) ==
    IF p # "Shadows" THEN {"none", "buffer"}
    ELSE IF c < 7 THEN {"none", "buffer", "mask"} ELSE {"none"}
Read(p, c) ==
    CASE p = "Shadows" -> IF c < 7 THEN {"none", "sceneDepth"} ELSE {"none", "sceneDepth", "mask"}
      [] p = "Fog" -> {"none", "sceneDepth"}
      [] p = "Show" -> {"none", "shown"}
      [] p \in {"Clouds", "CloudsDebug"} -> {"none", "coverage", "sceneDepth"}
      [] OTHER -> {"none", "probes", "sceneDepth", "occlusion"}

Skies == {"Sky", "SkyDebug"}

\* Call c of pass p: it names nothing else.
Fits(new, p, c) ==
    /\ DOMAIN new \subseteq Slots \ {"CSUAV1"}
    /\ \A s \in DOMAIN new :
          /\ s \in RenderTargets => new[s] \in Target(p, c)
          /\ s = "CSUAV0" => new[s] \in Unordered(p, c)
          /\ s \in Inputs => new[s] \in Read(p, c)
          /\ s = "PSSRV2" => p \in Skies
          /\ s = "inputLayout" => new[s] = "none"

\* The calls a pass with a pixel shader is made of.
Made(rt0, rt1, inputs, others) ==
    {UnbindTargets, OMSetRenderTargets(rt0, rt1), Ours(others \cup {"blend", "PS"}),
     Put("inputLayout", "none"), Ours({"topology", "rasterizer", "depthState", "VS"}), Draw}
    \cup {Put(<<"PSSRV0", "PSSRV1", "PSSRV2">>[i], inputs[i]) : i \in DOMAIN inputs}

\* A sequence of calls of the one kind, then one of the other.
LEMMA InARow ==
    ASSUME NEW S, NEW T, NEW s \in Seq(S), NEW t \in Seq(T)
    PROVE  /\ Len(s) \in Nat /\ Len(t) \in Nat /\ Len(s \o t) = Len(s) + Len(t)
           /\ \A i \in 1 .. Len(s) : s[i] \in S /\ (s \o t)[i] = s[i]
           /\ \A i \in 1 .. Len(t) : t[i] \in T /\ (s \o t)[Len(s) + i] = t[i]
<1> DEFINE U == S \cup T
<1>1. /\ Len(s) \in Nat /\ s \in [1 .. Len(s) -> S] /\ Len(t) \in Nat /\ t \in [1 .. Len(t) -> T]
  BY LenProperties
<1>2. s \in [1 .. Len(s) -> U] /\ t \in [1 .. Len(t) -> U]
  BY <1>1
<1> HIDE DEF U
<1>3. s \in Seq(U)
  BY <1>1, <1>2
<1>4. t \in Seq(U)
  BY <1>1, <1>2
<1>5. /\ Len(s \o t) = Len(s) + Len(t)
      /\ \A i \in 1 .. Len(s) + Len(t) : (s \o t)[i] = IF i <= Len(s) THEN s[i] ELSE t[i - Len(s)]
  BY <1>3, <1>4, ConcatProperties
<1>6. ASSUME NEW i \in 1 .. Len(s) PROVE (s \o t)[i] = s[i]
  BY <1>1, <1>5
<1>7. ASSUME NEW i \in 1 .. Len(t) PROVE (s \o t)[Len(s) + i] = t[i]
  <2>1. Len(s) + i \in 1 .. Len(s) + Len(t) /\ ~(Len(s) + i <= Len(s)) /\ Len(s) + i - Len(s) = i
    BY <1>1
  <2> QED
    BY <1>5, <2>1
<1> QED
  BY <1>1, <1>5, <1>6, <1>7

\* What is added behind changes no head.
LEMMA Headed ==
    ASSUME NEW S, NEW s \in Seq(S), NEW t \in Seq(S), Len(s) > 1
    PROVE  s \o t \in Seq(S) /\ Len(s \o t) > 1 /\ (s \o t)[1] = s[1]
<1>1. Len(s) \in Nat /\ Len(t) \in Nat
  BY LenProperties
<1>2. /\ s \o t \in Seq(S) /\ Len(s \o t) = Len(s) + Len(t)
      /\ \A i \in 1 .. Len(s) + Len(t) : (s \o t)[i] = IF i <= Len(s) THEN s[i] ELSE t[i - Len(s)]
  BY ConcatProperties
<1>3. 1 \in 1 .. Len(s) + Len(t)
  BY <1>1
<1> QED
  BY <1>1, <1>2, <1>3

LEMMA FullscreenIs ==
    ASSUME NEW rt0, NEW rt1, NEW T, NEW inputs \in Seq(T), NEW others
    PROVE  LET q == Fullscreen(rt0, rt1, inputs, others)
           IN  q \in Seq(Made(rt0, rt1, inputs, others)) /\ Len(q) > 1 /\ q[1] = UnbindTargets
<1> DEFINE M == Made(rt0, rt1, inputs, others)
           a == <<UnbindTargets, OMSetRenderTargets(rt0, rt1)>>
           b == [i \in DOMAIN inputs |-> Put(<<"PSSRV0", "PSSRV1", "PSSRV2">>[i], inputs[i])]
           c == <<Ours(others \cup {"blend", "PS"})>>
           d == DrawFullscreen
<1>1. /\ UnbindTargets \in M /\ OMSetRenderTargets(rt0, rt1) \in M
      /\ Ours(others \cup {"blend", "PS"}) \in M
      /\ Put("inputLayout", "none") \in M /\ Draw \in M
      /\ Ours({"topology", "rasterizer", "depthState", "VS"}) \in M
      /\ \A i \in DOMAIN inputs : Put(<<"PSSRV0", "PSSRV1", "PSSRV2">>[i], inputs[i]) \in M
  BY DEF Made
<1> HIDE DEF M
<1>2. a \in Seq(M) /\ Len(a) > 1 /\ a[1] = UnbindTargets
  BY <1>1
<1>3. b \in Seq(M)
  <2>1. DOMAIN inputs = 1 .. Len(inputs) /\ Len(inputs) \in Nat
    OBVIOUS
  <2>2. b \in [1 .. Len(inputs) -> M]
    BY <1>1, <2>1
  <2> QED
    BY <2>1, <2>2
<1>4. c \in Seq(M)
  BY <1>1
<1>5. d \in Seq(M)
  BY <1>1 DEF DrawFullscreen
<1> HIDE DEF a, b, c, d
<1>6. a \o b \in Seq(M) /\ Len(a \o b) > 1 /\ (a \o b)[1] = UnbindTargets
  BY <1>2, <1>3, Headed
<1>7. (a \o b) \o c \in Seq(M) /\ Len((a \o b) \o c) > 1 /\ ((a \o b) \o c)[1] = UnbindTargets
  BY <1>4, <1>6, Headed
<1>8. /\ ((a \o b) \o c) \o d \in Seq(M) /\ Len(((a \o b) \o c) \o d) > 1
      /\ (((a \o b) \o c) \o d)[1] = UnbindTargets
  BY <1>5, <1>7, Headed
<1> QED
  BY <1>8 DEF Fullscreen, M, a, b, c, d

\* Each of them fits, if its targets and inputs do.
LEMMA MadeFits ==
    ASSUME NEW p \in Passes \ {"Shadows", "Probes"}, NEW c,
           NEW rt0 \in Target(p, c), NEW rt1 \in Target(p, c),
           NEW T, NEW inputs \in Seq(T), Len(inputs) <= 3, Len(inputs) = 3 => p \in Skies,
           \A i \in 1 .. Len(inputs) : inputs[i] \in Read(p, c),
           NEW others \in SUBSET {"PSSampler0", "PSCB1", "viewports"},
           NEW new \in Made(rt0, rt1, inputs, others)
    PROVE  Fits(new, p, c)
<1>1. "none" \in Target(p, c)
  BY DEF Target
<1>2. CASE new = UnbindTargets \/ new = OMSetRenderTargets(rt0, rt1)
  <2>1. DOMAIN new = {"RT0", "RT1", "DSV"} /\ \A s \in DOMAIN new : new[s] \in Target(p, c)
    BY <1>1, <1>2 DEF UnbindTargets, OMSetRenderTargets
  <2> QED
    BY <2>1 DEF Fits, Slots, Outputs, Inputs
<1>3. CASE new = Ours(others \cup {"blend", "PS"}) \/ new = Ours({"topology", "rasterizer", "depthState", "VS"})
  <2>1. DOMAIN new \subseteq Graphics \ {"inputLayout"}
    <3>1. DOMAIN new = others \cup {"blend", "PS"} \/ DOMAIN new = {"topology", "rasterizer", "depthState", "VS"}
      BY <1>3 DEF Ours
    <3>2. others \cup {"blend", "PS"} \subseteq Graphics \ {"inputLayout"}
      BY DEF Graphics
    <3>3. {"topology", "rasterizer", "depthState", "VS"} \subseteq Graphics \ {"inputLayout"}
      BY DEF Graphics
    <3> QED
      BY <3>1, <3>2, <3>3
  <2>2. Graphics \cap (RenderTargets \cup {"CSUAV0", "CSUAV1"} \cup Inputs) = {}
    BY DEF Graphics, RenderTargets, Inputs
  <2> QED
    BY <2>1, <2>2 DEF Fits, Slots, Inputs
<1>4. CASE new = Put("inputLayout", "none") \/ new = Draw
  <2>1. DOMAIN new \subseteq {"inputLayout"} /\ \A s \in DOMAIN new : new[s] = "none"
    BY <1>4 DEF Put, Draw
  <2> QED
    BY <2>1 DEF Fits, Slots, Graphics, RenderTargets, Inputs
<1>5. ASSUME NEW i \in DOMAIN inputs, new = Put(<<"PSSRV0", "PSSRV1", "PSSRV2">>[i], inputs[i])
      PROVE  Fits(new, p, c)
  <2>1. i \in 1 .. Len(inputs) /\ Len(inputs) \in Nat
    BY LenProperties
  <2>2. PICK s : s = <<"PSSRV0", "PSSRV1", "PSSRV2">>[i]
    OBVIOUS
  <2>3. s \in {"PSSRV0", "PSSRV1", "PSSRV2"} /\ (s = "PSSRV2" => p \in Skies)
    BY <2>1, <2>2
  <2>4. DOMAIN new = {s} /\ new[s] \in Read(p, c)
    BY <1>5, <2>1, <2>2 DEF Put
  <2> QED
    BY <2>3, <2>4 DEF Fits, Slots, Inputs, Outputs, RenderTargets
<1> QED
  BY <1>2, <1>3, <1>4, <1>5 DEF Made

\* What is known of the calls of pass p.
Fitting(q, p) ==
    /\ Len(q) \in Nat /\ Len(q) > 1 /\ q[1] = UnbindTargets
    /\ \A c \in 1 .. Len(q) : Fits(q[c], p, c)

\* What a pass of one draw is given fits it.
Suits(p, rt0, rt1, T, inputs, others) ==
    /\ p \in Passes \ {"Shadows", "Probes"}
    /\ \A c \in Nat : rt0 \in Target(p, c) /\ rt1 \in Target(p, c)
    /\ inputs \in Seq(T) /\ Len(inputs) <= 3 /\ (Len(inputs) = 3 => p \in Skies)
    /\ \A c \in Nat : \A i \in 1 .. Len(inputs) : inputs[i] \in Read(p, c)
    /\ others \subseteq {"PSSampler0", "PSCB1", "viewports"}

LEMMA FullscreenFits ==
    ASSUME NEW p, NEW rt0, NEW rt1, NEW T, NEW inputs, NEW others,
           Suits(p, rt0, rt1, T, inputs, others)
    PROVE  Fitting(Fullscreen(rt0, rt1, inputs, others), p)
<1>0. /\ p \in Passes \ {"Shadows", "Probes"} /\ inputs \in Seq(T)
      /\ Len(inputs) <= 3 /\ (Len(inputs) = 3 => p \in Skies)
      /\ others \in SUBSET {"PSSampler0", "PSCB1", "viewports"}
  BY DEF Suits
<1> DEFINE q == Fullscreen(rt0, rt1, inputs, others)
           M == Made(rt0, rt1, inputs, others)
<1>1. q \in Seq(M) /\ Len(q) > 1 /\ q[1] = UnbindTargets
  BY <1>0, FullscreenIs
<1> HIDE DEF q
<1>2. Len(q) \in Nat /\ \A c \in 1 .. Len(q) : q[c] \in M
  BY <1>1, LenProperties
<1>3. ASSUME NEW c \in 1 .. Len(q) PROVE Fits(q[c], p, c)
  <2>1. c \in Nat /\ q[c] \in M
    BY <1>2
  <2>2. rt0 \in Target(p, c) /\ rt1 \in Target(p, c)
        /\ \A i \in 1 .. Len(inputs) : inputs[i] \in Read(p, c)
    BY <2>1 DEF Suits
  <2> QED
    BY <1>0, <2>1, <2>2, MadeFits DEF M
<1> QED
  BY <1>1, <1>2, <1>3 DEF Fitting, q

\* The passes of one draw each.
LEMMA PlainFits ==
    /\ Fitting(Calls("Fog"), "Fog") /\ Fitting(Calls("Show"), "Show")
    /\ Fitting(Calls("Clouds"), "Clouds") /\ Fitting(Calls("CloudsDebug"), "CloudsDebug")
<1>1. {"Fog", "Show", "Clouds", "CloudsDebug"} \subseteq Passes \ {"Shadows", "Probes"}
  BY DEF Passes
<1>2. Fitting(Fog, "Fog")
  <2>1. \A c \in Nat : "hdr" \in Target("Fog", c) /\ "none" \in Target("Fog", c)
    BY DEF Target
  <2>2. <<"sceneDepth">> \in Seq({"sceneDepth"}) /\ Len(<<"sceneDepth">>) = 1
    OBVIOUS
  <2>3. \A c \in Nat : \A i \in 1 .. 1 : <<"sceneDepth">>[i] \in Read("Fog", c)
    BY DEF Read
  <2>4. Suits("Fog", "hdr", "none", {"sceneDepth"}, <<"sceneDepth">>, {"PSCB1", "viewports"})
    BY <1>1, <2>1, <2>2, <2>3 DEF Suits
  <2> QED
    BY <2>4, FullscreenFits DEF Fog
<1>3. Fitting(Show, "Show")
  <2>1. \A c \in Nat : "hdr" \in Target("Show", c) /\ "none" \in Target("Show", c)
    BY DEF Target
  <2>2. <<"shown">> \in Seq({"shown"}) /\ Len(<<"shown">>) = 1
    OBVIOUS
  <2>3. \A c \in Nat : \A i \in 1 .. 1 : <<"shown">>[i] \in Read("Show", c)
    BY DEF Read
  <2>4. Suits("Show", "hdr", "none", {"shown"}, <<"shown">>, {"PSSampler0", "PSCB1"})
    BY <1>1, <2>1, <2>2, <2>3 DEF Suits
  <2> QED
    BY <2>4, FullscreenFits DEF Show
<1>4. ASSUME NEW p \in {"Clouds", "CloudsDebug"}, NEW debug \in BOOLEAN
      PROVE  Fitting(CloudShadow(debug), p)
  <2> DEFINE rt1 == IF debug THEN "none" ELSE "specular"
             ins == <<"coverage", "sceneDepth">>
             T == {"coverage", "sceneDepth"}
  <2>1. \A c \in Nat : "diffuse" \in Target(p, c) /\ rt1 \in Target(p, c)
    BY DEF Target
  <2>2. ins \in Seq(T) /\ Len(ins) = 2
    OBVIOUS
  <2>3. \A c \in Nat : \A i \in 1 .. Len(ins) : ins[i] \in Read(p, c)
    BY DEF Read
  <2> HIDE DEF rt1, ins, T
  <2>4. Suits(p, "diffuse", rt1, T, ins, {"PSSampler0", "PSCB1", "viewports"})
    BY <1>1, <2>1, <2>2, <2>3 DEF Suits
  <2> QED
    BY <2>4, FullscreenFits DEF CloudShadow, rt1, ins
<1> QED
  BY <1>2, <1>3, <1>4 DEF Calls

\* The sky takes its third input away itself, last of all.
LEMMA SkiesFit ==
    ASSUME NEW p \in Skies
    PROVE  Fitting(Calls(p), p) /\ Calls(p)[Len(Calls(p))] = Put("PSSRV2", "none")
<1> DEFINE target == IF p = "Sky" THEN "ao" ELSE "hdr"
           ins == <<"probes", "sceneDepth", "occlusion">>
           T == {"probes", "sceneDepth", "occlusion"}
           others == {"viewports", "PSSampler0", "PSCB1"}
           q == Fullscreen(target, "none", ins, others)
           x == Put("PSSRV2", "none")
<1>1. p \in Passes \ {"Shadows", "Probes"} /\ p \notin {"Fog", "Show", "Clouds", "CloudsDebug"}
  BY DEF Passes, Skies
<1>2. \A c \in Nat : target \in Target(p, c) /\ "none" \in Target(p, c)
  BY DEF Target, Skies
<1>3. ins \in Seq(T) /\ Len(ins) = 3
  OBVIOUS
<1>4. \A c \in Nat : \A i \in 1 .. Len(ins) : ins[i] \in Read(p, c)
  BY <1>1 DEF Read
<1>5. Calls(p) = q \o <<x>>
  BY DEF Calls, SkyPass, Skies
<1> HIDE DEF target, ins, T
<1>6. Suits(p, target, "none", T, ins, others)
  BY <1>1, <1>2, <1>3, <1>4 DEF Suits
<1> HIDE DEF others
<1>7. Fitting(q, p)
  BY <1>6, FullscreenFits
<1>8. q \in Seq(Made(target, "none", ins, others))
  BY <1>3, FullscreenIs
<1>9. \A c \in Nat : Fits(x, p, c)
  <2>1. DOMAIN x = {"PSSRV2"} /\ x["PSSRV2"] = "none"
    BY DEF Put
  <2>2. \A c \in Nat : "none" \in Read(p, c)
    BY <1>1 DEF Read
  <2> HIDE DEF x
  <2> QED
    BY <2>1, <2>2 DEF Fits, Slots, Inputs, Outputs, RenderTargets
<1> HIDE DEF q, x
<1>10. <<x>> \in Seq({x}) /\ Len(<<x>>) = 1 /\ <<x>>[1] = x
  OBVIOUS
<1>11. /\ Len(q) \in Nat /\ Len(q \o <<x>>) = Len(q) + Len(<<x>>)
       /\ \A i \in 1 .. Len(q) : (q \o <<x>>)[i] = q[i]
       /\ \A i \in 1 .. Len(<<x>>) : (q \o <<x>>)[Len(q) + i] = <<x>>[i]
  BY <1>8, <1>10, InARow
<1>12. /\ Len(q \o <<x>>) = Len(q) + 1
       /\ \A i \in 1 .. Len(q) : (q \o <<x>>)[i] = q[i]
       /\ (q \o <<x>>)[Len(q) + 1] = x
  BY <1>10, <1>11
<1>13. Len(q) \in Nat /\ Len(q) > 1 /\ q[1] = UnbindTargets /\ \A c \in 1 .. Len(q) : Fits(q[c], p, c)
  BY <1>7 DEF Fitting
<1>14. ASSUME NEW c \in 1 .. Len(q) + 1 PROVE Fits((q \o <<x>>)[c], p, c)
  <2>1. CASE c \in 1 .. Len(q)
    BY <1>12, <1>13, <2>1
  <2>2. CASE c = Len(q) + 1
    BY <1>9, <1>12, <1>13, <2>2
  <2> QED
    BY <1>13, <2>1, <2>2
<1>15. Fitting(q \o <<x>>, p)
  BY <1>12, <1>13, <1>14 DEF Fitting
<1> QED
  BY <1>5, <1>12, <1>15 DEF x

\* The shadows' march fits up to its end, what follows from there on.
March ==
    {UnbindTargets, Ours({"CS"}), Put("CSSRV0", "sceneDepth"), Put("CSUAV0", "mask"),
     Ours({"CSSampler0", "CSCB1"}), Draw}
Multiply ==
    {Put("CSUAV0", "none"), Put("CSSRV0", "none"), Put("CS", "none"),
     OMSetRenderTargets("diffuse", "specular"), Ours({"blend"}), Put("PSSRV0", "mask"),
     Ours({"PS", "viewports"}), Put("inputLayout", "none"),
     Ours({"topology", "rasterizer", "depthState", "VS"}), Draw}

LEMMA MarchFits == \A c \in 1 .. 6 : \A new \in March : Fits(new, "Shadows", c)
<1> SUFFICES ASSUME NEW c \in 1 .. 6, NEW new \in March PROVE Fits(new, "Shadows", c)
  OBVIOUS
<1>1. /\ Target("Shadows", c) = {"none"} /\ Unordered("Shadows", c) = {"none", "buffer", "mask"}
      /\ Read("Shadows", c) = {"none", "sceneDepth"}
  BY DEF Target, Unordered, Read
<1>2. CASE new = UnbindTargets
  BY <1>1, <1>2 DEF UnbindTargets, OMSetRenderTargets, Fits, Slots, Outputs, Inputs, RenderTargets
<1>3. CASE new = Ours({"CS"}) \/ new = Ours({"CSSampler0", "CSCB1"}) \/ new = Draw
  <2>1. DOMAIN new \subseteq Compute
    BY <1>3 DEF Ours, Draw, Compute
  <2> QED
    BY <2>1 DEF Fits, Slots, Compute, Inputs, RenderTargets
<1>4. CASE new = Put("CSSRV0", "sceneDepth")
  BY <1>1, <1>4 DEF Put, Fits, Slots, Inputs, RenderTargets
<1>5. CASE new = Put("CSUAV0", "mask")
  BY <1>1, <1>5 DEF Put, Fits, Slots, Outputs, Inputs, RenderTargets
<1> QED
  BY <1>2, <1>3, <1>4, <1>5 DEF March

LEMMA MultiplyFits == \A c \in Nat : c >= 7 => \A new \in Multiply : Fits(new, "Shadows", c)
<1> SUFFICES ASSUME NEW c \in Nat, c >= 7, NEW new \in Multiply PROVE Fits(new, "Shadows", c)
  OBVIOUS
<1>1. /\ Target("Shadows", c) = {"none", "diffuse", "specular"} /\ Unordered("Shadows", c) = {"none"}
      /\ Read("Shadows", c) = {"none", "sceneDepth", "mask"}
  BY DEF Target, Unordered, Read
<1>2. CASE new = OMSetRenderTargets("diffuse", "specular")
  BY <1>1, <1>2 DEF OMSetRenderTargets, Fits, Slots, Outputs, Inputs, RenderTargets
<1>3. CASE \/ new = Ours({"blend"}) \/ new = Ours({"PS", "viewports"}) \/ new = Draw
           \/ new = Ours({"topology", "rasterizer", "depthState", "VS"}) \/ new = Put("CS", "none")
  <2>1. DOMAIN new \subseteq (Graphics \cup Compute) \ {"inputLayout"}
    BY <1>3 DEF Ours, Draw, Put, Compute, Graphics
  <2> QED
    BY <2>1 DEF Fits, Slots, Compute, Graphics, Inputs, RenderTargets
<1>4. CASE new = Put("CSSRV0", "none") \/ new = Put("PSSRV0", "mask") \/ new = Put("CSUAV0", "none")
  BY <1>1, <1>4 DEF Put, Fits, Slots, Outputs, Inputs, RenderTargets
<1>5. CASE new = Put("inputLayout", "none")
  BY <1>1, <1>5 DEF Put, Fits, Slots, Graphics, Inputs, RenderTargets
<1> QED
  BY <1>2, <1>3, <1>4, <1>5 DEF Multiply

LEMMA ShadowsFit ==
    /\ Fitting(Calls("Shadows"), "Shadows")
    /\ Len(Calls("Shadows")) > 7 /\ Calls("Shadows")[7] = Put("CSUAV0", "none")
<1> DEFINE a == <<Put("CSUAV0", "none"), Put("CSSRV0", "none"), Put("CS", "none"),
                  OMSetRenderTargets("diffuse", "specular"), Ours({"blend"}), Put("PSSRV0", "mask"),
                  Ours({"PS", "viewports"})>>
<1>1. RayMarch \in Seq(March) /\ Len(RayMarch) = 6 /\ RayMarch[1] = UnbindTargets
  BY DEF RayMarch, March
<1>2. a \in Seq(Multiply) /\ Len(a) > 1 /\ a[1] = Put("CSUAV0", "none")
  BY DEF Multiply
<1>3. DrawFullscreen \in Seq(Multiply)
  BY DEF DrawFullscreen, Multiply
<1>4. Modulate = a \o DrawFullscreen
  BY DEF Modulate
<1> HIDE DEF a
<1>5. Modulate \in Seq(Multiply) /\ Len(Modulate) > 1 /\ Modulate[1] = Put("CSUAV0", "none")
  BY <1>2, <1>3, <1>4, Headed
<1> DEFINE q == RayMarch \o Modulate
<1>6. /\ Len(Modulate) \in Nat /\ Len(q) = 6 + Len(Modulate)
      /\ \A i \in 1 .. 6 : RayMarch[i] \in March /\ q[i] = RayMarch[i]
      /\ \A i \in 1 .. Len(Modulate) : Modulate[i] \in Multiply /\ q[6 + i] = Modulate[i]
  <2>0. RayMarch \in Seq(March) /\ Modulate \in Seq(Multiply)
    BY <1>1, <1>5
  <2>1. /\ Len(Modulate) \in Nat /\ Len(q) = Len(RayMarch) + Len(Modulate)
        /\ \A i \in 1 .. Len(RayMarch) : RayMarch[i] \in March /\ q[i] = RayMarch[i]
        /\ \A i \in 1 .. Len(Modulate) : Modulate[i] \in Multiply /\ q[Len(RayMarch) + i] = Modulate[i]
    BY <2>0, InARow
  <2> HIDE DEF q
  <2> QED
    BY <1>1, <2>1
<1> HIDE DEF q
<1>7. 1 \in 1 .. 6 /\ 1 \in 1 .. Len(Modulate) /\ Len(q) \in Nat /\ Len(q) > 7
  BY <1>5, <1>6
<1>8. q[1] = UnbindTargets
  BY <1>1, <1>6, <1>7
<1>9. q[7] = Put("CSUAV0", "none")
  <2>1. q[6 + 1] = Modulate[1]
    BY <1>6, <1>7
  <2> QED
    BY <1>5, <2>1
<1>10. ASSUME NEW c \in 1 .. Len(q) PROVE Fits(q[c], "Shadows", c)
  <2>1. CASE c \in 1 .. 6
    <3>1. q[c] \in March
      BY <1>6, <2>1
    <3> QED
      BY <2>1, <3>1, MarchFits
  <2>2. CASE c \notin 1 .. 6
    <3>1. PICK i \in 1 .. Len(Modulate) : c = 6 + i
      <4>1. c - 6 \in 1 .. Len(Modulate) /\ c = 6 + (c - 6)
        BY <1>6, <2>2
      <4> QED
        BY <4>1
    <3>2. q[c] \in Multiply
      BY <1>6, <3>1
    <3>3. c \in Nat /\ c >= 7
      BY <3>1
    <3> QED
      BY <3>2, <3>3, MultiplyFits
  <2> QED
    BY <2>1, <2>2
<1>11. Len(q) \in Nat /\ Len(q) > 7 /\ q[1] = UnbindTargets /\ q[7] = Put("CSUAV0", "none")
  BY <1>7, <1>8, <1>9
<1>12. Fitting(q, "Shadows")
  BY <1>10, <1>11 DEF Fitting
<1> QED
  BY <1>11, <1>12 DEF Calls, q

\* What is known of the calls of every pass with a guard.
LEMMA CallsFit ==
    ASSUME NEW p \in Passes \ {"Probes"}
    PROVE  /\ Fitting(Calls(p), p)
           /\ p = "Shadows" => Len(Calls(p)) > 7 /\ Calls(p)[7] = Put("CSUAV0", "none")
           /\ p \in Skies => Calls(p)[Len(Calls(p))] = Put("PSSRV2", "none")
<1>1. CASE p \in Skies
  BY <1>1, SkiesFit DEF Skies
<1>2. CASE p = "Shadows"
  BY <1>2, ShadowsFit DEF Skies
<1>3. CASE p \in {"Fog", "Show", "Clouds", "CloudsDebug"}
  BY <1>3, PlainFits DEF Skies
<1> QED
  BY <1>1, <1>2, <1>3 DEF Passes, Skies

\* What a pass may bind only grows with its calls, but for the mask that the
\* shadows let go of; and it never reads what it may write.
LEMMA Growing ==
    ASSUME NEW p \in Passes \ {"Probes"}, NEW c \in Nat, c > 0
    PROVE  /\ Target(p, c - 1) \subseteq Target(p, c) /\ Read(p, c - 1) \subseteq Read(p, c)
           /\ ~(p = "Shadows" /\ c = 7) => Unordered(p, c - 1) \subseteq Unordered(p, c)
           /\ \A v \in Read(p, c) : v \in Target(p, c) \cup Unordered(p, c) \cup {"none"} => v = "none"
           /\ "none" \in Target(p, c)
<1>1. CASE p = "Shadows"
  BY <1>1 DEF Target, Read, Unordered
<1>2. CASE p # "Shadows"
  BY <1>2 DEF Target, Read, Unordered, Passes
<1> QED
  BY <1>1, <1>2

-----------------------------------------------------------------------------
(* The invariant of the passes                                             *)

\* In a pass with a guard: what it asked for is bound, it reads nothing it
\* writes, and what the guard does not save is as harmless as before.
GuardedInv ==
    /\ DOMAIN asked \subseteq Slots \ {"CSUAV1"}
    /\ call = 1 => DOMAIN asked = {}
    /\ \A s \in DOMAIN asked : /\ bound[s] = asked[s]
                               /\ s \in Inputs => asked[s] \in Read(pass, call - 1)
    /\ call > 1 => \A s \in RenderTargets : bound[s] \in Target(pass, call - 1)
    /\ bound["CSUAV0"] \in Unordered(pass, call - 1) /\ bound["CSUAV1"] = "none"
    /\ pass \notin Skies => bound["PSSRV2"] \in Sources
    /\ pass \in Skies /\ call > Len(Calls(pass)) => bound["PSSRV2"] = "none"
    /\ bound["inputLayout"] # "ours"

\* In the pass without one: it touches only the compute stage, and its last
\* three calls take away what it bound there.
ProbesInv ==
    /\ \A s \in Slots \ Taken : bound[s] = saved[s]
    /\ bound["PSSRV2"] \in Sources /\ bound["inputLayout"] # "ours"
    /\ DOMAIN asked \subseteq Compute \cup {"CSSRV0", "CSUAV0", "CSUAV1"}
    /\ \A s \in DOMAIN asked : bound[s] = asked[s]
    /\ "CSSRV0" \in DOMAIN asked => asked["CSSRV0"] \in {"none", "occlusion"}
    /\ bound["CSUAV0"] \in {"none", "buffer", "probes"} /\ bound["CSUAV1"] \in {"none", "accumFrames"}
    /\ call > 6 => bound["CSUAV0"] = "none" /\ bound["CSUAV1"] = "none"
    /\ call > 7 => bound["CSSRV0"] = "none"
    /\ call > 8 => bound["CS"] = "none"

PassInv ==
    /\ DOMAIN bound = Slots /\ NoClash(bound)
    /\ pass = "none" => Idle(bound) /\ \A s \in Slots \ Taken : bound[s] = engines[s]
    /\ pass # "none" => /\ pass \in Passes /\ call \in Nat \ {0}
                        /\ Idle(saved) /\ \A s \in Slots \ Taken : saved[s] = engines[s]
                        /\ pass = "Probes" => ProbesInv
                        /\ pass # "Probes" => GuardedInv

LEMMA PassInitInv == PassInit => PassInv
<1> SUFFICES ASSUME PassInit PROVE PassInv
  OBVIOUS
<1>1. DOMAIN bound = Slots /\ \A s \in Slots : bound[s] = "none" /\ engines[s] = "none"
  BY DEF PassInit
<1>2. NoClash(bound)
  BY <1>1, SlotsDiffer DEF NoClash
<1>3. {"CSUAV0", "CSUAV1", "CS", "inputLayout"} \cup RenderTargets \cup Inputs \subseteq Slots
  BY DEF Slots, Outputs, Inputs, Graphics, Compute, RenderTargets
<1>4. Idle(bound)
  BY <1>1, <1>2, <1>3 DEF Idle, Targets, Sources
<1> QED
  BY <1>1, <1>2, <1>4 DEF PassInv, PassInit

LEMMA EngineBindsInv == PassInv /\ EngineBinds => PassInv'
<1> SUFFICES ASSUME PassInv, EngineBinds PROVE PassInv'
  OBVIOUS
<1>1. pass' = "none" /\ bound' = engines' /\ Idle(bound')
  BY EntriesIdle DEF EngineBinds
<1>2. DOMAIN bound' = Slots /\ NoClash(bound')
  BY <1>1 DEF Idle
<1> QED
  BY <1>1, <1>2 DEF PassInv, Idle

LEMMA BeginInv == PassInv /\ (\E p \in Passes : Begin(p)) => PassInv'
<1> SUFFICES ASSUME PassInv, NEW p \in Passes, Begin(p) PROVE PassInv'
  OBVIOUS
<1>1. /\ pass' = p /\ call' = 1 /\ DOMAIN asked' = {} /\ saved' = bound
      /\ UNCHANGED <<engines, bound>> /\ pass = "none"
  BY DEF Begin, Nothing
<1>2. p # "none"
  BY DEF Passes
<1>3. Idle(bound) /\ NoClash(bound) /\ DOMAIN bound = Slots /\ \A s \in Slots \ Taken : bound[s] = engines[s]
  BY <1>1 DEF PassInv
<1>4. /\ bound["CSUAV0"] \in {"none", "buffer"} /\ bound["CSUAV1"] = "none"
      /\ bound["PSSRV2"] \in Sources /\ bound["inputLayout"] # "ours"
  BY <1>3 DEF Idle, Inputs
<1>5. CASE p = "Probes"
  <2>1. ProbesInv'
    BY <1>1, <1>4 DEF ProbesInv
  <2> QED
    BY <1>1, <1>2, <1>3, <1>5, <2>1 DEF PassInv, Idle
<1>6. CASE p # "Probes"
  <2>1. Len(Calls(p)) \in Nat /\ Len(Calls(p)) > 1
    BY <1>6, CallsFit DEF Fitting
  <2>2. bound["CSUAV0"] \in Unordered(p, call' - 1)
    BY <1>1, <1>4 DEF Unordered
  <2>3. pass' \in Skies /\ call' > Len(Calls(pass')) => bound["PSSRV2"] = "none"
    BY <1>1, <2>1
  <2>4. GuardedInv'
    BY <1>1, <1>4, <2>2, <2>3 DEF GuardedInv
  <2> QED
    BY <1>1, <1>2, <1>3, <1>6, <2>4 DEF PassInv, Idle
<1> QED
  BY <1>5, <1>6

LEMMA EndInv == PassInv /\ End => PassInv'
<1> SUFFICES ASSUME PassInv, End PROVE PassInv'
  OBVIOUS
<1>1. /\ pass # "none" /\ call > Len(Calls(pass)) /\ pass' = "none" /\ engines' = engines
      /\ bound' = IF pass = "Probes" THEN bound ELSE Restored(bound)
  BY DEF End
<1>2. /\ DOMAIN bound = Slots /\ NoClash(bound) /\ pass \in Passes /\ call \in Nat \ {0}
      /\ Idle(saved) /\ \A s \in Slots \ Taken : saved[s] = engines[s]
  BY <1>1 DEF PassInv
<1>3. CASE pass = "Probes"
  <2>1. ProbesInv /\ bound' = bound
    BY <1>1, <1>3 DEF PassInv
  <2>2. call > 8
    <3>1. Calls(pass) = Probes /\ Len(Probes) = 8
      BY <1>3 DEF Calls, Probes
    <3> QED
      BY <1>1, <1>2, <3>1
  <2>3. \A s \in RenderTargets \cup {"PSSRV0", "PSSRV1"} : bound[s] = saved[s]
    BY <2>1 DEF ProbesInv, RenderTargets, Taken, Slots, Outputs, Inputs, Compute
  <2>4. \A s \in RenderTargets : bound[s] \in Targets
    BY <1>2, <2>3 DEF Idle
  <2>5. \A s \in Inputs : bound[s] \in Sources
    <3>1. bound["PSSRV0"] \in Sources /\ bound["PSSRV1"] \in Sources
      BY <1>2, <2>3 DEF Idle, Inputs
    <3>2. bound["PSSRV2"] \in Sources /\ bound["CSSRV0"] \in Sources
      BY <2>1, <2>2, <1>2 DEF ProbesInv, Sources
    <3> QED
      BY <3>1, <3>2 DEF Inputs
  <2>6. /\ bound["CSUAV0"] = "none" /\ bound["CSUAV1"] = "none" /\ bound["CS"] # "ours"
        /\ bound["inputLayout"] # "ours"
    BY <1>2, <2>1, <2>2 DEF ProbesInv
  <2>7. Idle(bound)
    BY <1>2, <2>4, <2>5, <2>6 DEF Idle
  <2> QED
    BY <1>1, <1>2, <2>1, <2>7 DEF PassInv, ProbesInv, Idle
<1>4. CASE pass # "Probes"
  <2>1. GuardedInv /\ bound' = Restored(bound)
    BY <1>1, <1>2, <1>4 DEF PassInv
  <2>2. bound["CSUAV0"] \in {"none", "buffer"}
    <3>1. pass = "Shadows" => Len(Calls(pass)) > 7 /\ Len(Calls(pass)) \in Nat
      BY <1>2, <1>4, CallsFit DEF Fitting
    <3>2. pass = "Shadows" => ~(call - 1 < 7)
      BY <1>1, <1>2, <3>1
    <3> QED
      BY <2>1, <3>2 DEF GuardedInv, Unordered
  <2>3. bound["PSSRV2"] \in Sources
    BY <1>1, <2>1 DEF GuardedInv, Sources
  <2>4. Back(bound, {})
    BY <1>2, <2>1, <2>2, <2>3 DEF Back, GuardedInv
  <2>5. Back(bound', Slots \ Untouchable)
    BY <1>2, <2>1, <2>4, AllBack
  <2>6. Idle(bound')
    BY <1>2, <2>5, BackIsIdle
  <2>7. \A s \in Slots \ Taken : bound'[s] = engines'[s]
    BY <1>1, <1>2, <2>5 DEF Back, Untouchable, Taken
  <2> QED
    BY <1>1, <2>6, <2>7 DEF PassInv, Idle
<1> QED
  BY <1>3, <1>4

\* A call of a pass with a guard.
LEMMA GuardedCall ==
    ASSUME PassInv, Call, pass # "Probes"
    PROVE  GuardedInv'
<1> DEFINE c == call  p == pass  new == Calls(pass)[call]
<1>1. /\ p # "none" /\ c <= Len(Calls(p)) /\ bound' = Bind(bound, new) /\ asked' = With(asked, new)
      /\ call' = c + 1 /\ pass' = p
  BY DEF Call
<1>2. DOMAIN bound = Slots /\ p \in Passes \ {"Probes"} /\ c \in Nat /\ c > 0 /\ GuardedInv
  BY <1>1 DEF PassInv
<1>3. Len(Calls(p)) \in Nat /\ Len(Calls(p)) > 1 /\ c \in 1 .. Len(Calls(p)) /\ call' - 1 = c
  BY <1>1, <1>2, CallsFit DEF Fitting
<1>4. Fits(new, p, c) /\ (c = 1 => new = UnbindTargets)
  BY <1>2, <1>3, CallsFit DEF Fitting
<1>5. /\ p = "Shadows" /\ c = 7 => new = Put("CSUAV0", "none")
      /\ p \in Skies /\ c = Len(Calls(p)) => new = Put("PSSRV2", "none")
  BY <1>2, CallsFit
<1> HIDE DEF c, p, new
<1>6. /\ DOMAIN new \subseteq Slots \ {"CSUAV1"}
      /\ \A s \in DOMAIN new :
            /\ s \in RenderTargets => new[s] \in Target(p, c)
            /\ s = "CSUAV0" => new[s] \in Unordered(p, c)
            /\ s \in Inputs => new[s] \in Read(p, c)
            /\ s = "PSSRV2" => p \in Skies
            /\ s = "inputLayout" => new[s] = "none"
  BY <1>4 DEF Fits
<1>7. /\ \A s \in Slots \ Inputs : bound'[s] = Would(bound, new, s)
      /\ \A s \in Inputs : bound'[s] \in {"none", Would(bound, new, s)}
      /\ \A s \in Inputs : (\A o \in Outputs : Would(bound, new, s) = Would(bound, new, o)
                                                  => Would(bound, new, s) = "none")
            => bound'[s] = Would(bound, new, s)
  BY <1>1, <1>2, <1>6, BindIs
<1>8. /\ Target(p, c - 1) \subseteq Target(p, c) /\ Read(p, c - 1) \subseteq Read(p, c)
      /\ ~(p = "Shadows" /\ c = 7) => Unordered(p, c - 1) \subseteq Unordered(p, c)
      /\ \A v \in Read(p, c) : v \in Target(p, c) \cup Unordered(p, c) \cup {"none"} => v = "none"
      /\ "none" \in Target(p, c)
  BY <1>2, Growing
<1>9. /\ DOMAIN asked \subseteq Slots \ {"CSUAV1"} /\ (c = 1 => DOMAIN asked = {})
      /\ \A s \in DOMAIN asked : bound[s] = asked[s] /\ (s \in Inputs => asked[s] \in Read(p, c - 1))
      /\ c > 1 => \A s \in RenderTargets : bound[s] \in Target(p, c - 1)
      /\ bound["CSUAV0"] \in Unordered(p, c - 1) /\ bound["CSUAV1"] = "none"
      /\ p \notin Skies => bound["PSSRV2"] \in Sources
      /\ bound["inputLayout"] # "ours"
  BY <1>2 DEF GuardedInv, c, p
<1>10. ASSUME NEW s \in RenderTargets PROVE Would(bound, new, s) \in Target(p, c)
  <2>1. CASE c = 1
    <3>1. new = UnbindTargets
      BY <1>4, <2>1
    <3>2. s \in DOMAIN new /\ new[s] = "none"
      BY <3>1 DEF UnbindTargets, OMSetRenderTargets, RenderTargets
    <3> QED
      BY <1>8, <3>2 DEF Would
  <2>2. CASE c # 1
    BY <1>2, <1>6, <1>8, <1>9, <2>2 DEF Would
  <2> QED
    BY <2>1, <2>2
<1>11. Would(bound, new, "CSUAV0") \in Unordered(p, c)
  <2>1. CASE p = "Shadows" /\ c = 7
    BY <1>5, <1>6, <2>1 DEF Put, Would
  <2>2. CASE ~(p = "Shadows" /\ c = 7)
    BY <1>6, <1>8, <1>9, <2>2 DEF Would
  <2> QED
    BY <2>1, <2>2
<1>12. Would(bound, new, "CSUAV1") = "none"
  BY <1>6, <1>9 DEF Would
<1>13. \A o \in Outputs : Would(bound, new, o) \in Target(p, c) \cup Unordered(p, c) \cup {"none"}
  BY <1>10, <1>11, <1>12 DEF Outputs, RenderTargets
<1>14. /\ DOMAIN asked' = DOMAIN asked \cup DOMAIN new
       /\ \A s \in DOMAIN asked' : asked'[s] = IF s \in DOMAIN new THEN new[s] ELSE asked[s]
  BY <1>1 DEF With
<1>15. \A s \in DOMAIN asked' : /\ asked'[s] = Would(bound, new, s)
                                /\ s \in Inputs => asked'[s] \in Read(p, c)
  BY <1>6, <1>8, <1>9, <1>14 DEF Would
<1>16. ASSUME NEW s \in DOMAIN asked' PROVE bound'[s] = asked'[s]
  <2>1. CASE s \in Inputs
    <3>1. \A o \in Outputs : Would(bound, new, s) = Would(bound, new, o) => Would(bound, new, s) = "none"
      BY <1>8, <1>13, <1>15, <2>1
    <3> QED
      BY <1>7, <1>15, <2>1, <3>1
  <2>2. CASE s \notin Inputs
    BY <1>6, <1>7, <1>9, <1>14, <1>15, <2>2
  <2> QED
    BY <2>1, <2>2
<1>17. RenderTargets \cup {"CSUAV0", "CSUAV1", "inputLayout"} \subseteq Slots \ Inputs
  BY DEF Slots, Outputs, Inputs, Graphics, RenderTargets
<1>18. /\ \A s \in RenderTargets : bound'[s] \in Target(p, c)
       /\ bound'["CSUAV0"] \in Unordered(p, c) /\ bound'["CSUAV1"] = "none"
  BY <1>7, <1>10, <1>11, <1>12, <1>17
<1>19. bound'["inputLayout"] # "ours"
  BY <1>6, <1>7, <1>9, <1>17 DEF Would
<1>20. p \notin Skies => bound'["PSSRV2"] \in Sources
  BY <1>6, <1>7, <1>9 DEF Would, Inputs, Sources
<1>21. ASSUME p \in Skies, call' > Len(Calls(p)) PROVE bound'["PSSRV2"] = "none"
  <2>1. c = Len(Calls(p))
    BY <1>1, <1>3, <1>21
  <2>2. "PSSRV2" \in DOMAIN new /\ new["PSSRV2"] = "none"
    BY <1>5, <1>21, <2>1 DEF Put
  <2> QED
    BY <1>7, <2>2 DEF Would, Inputs
<1>22. DOMAIN asked' \subseteq Slots \ {"CSUAV1"} /\ call' # 1
  BY <1>1, <1>2, <1>6, <1>9, <1>14
<1> QED
  BY <1>1, <1>3, <1>15, <1>16, <1>18, <1>19, <1>20, <1>21, <1>22 DEF GuardedInv

\* The calls of the pass without one, and what of the stage each leaves.
LEMMA ProbesAre ==
    /\ Len(Calls("Probes")) = 8
    /\ \A c \in 1 .. 8 :
          LET new == Calls("Probes")[c]
          IN  /\ DOMAIN new \subseteq Compute \cup {"CSSRV0", "CSUAV0", "CSUAV1"}
              /\ "CSSRV0" \in DOMAIN new => new["CSSRV0"] \in {"none", "occlusion"}
              /\ "CSUAV0" \in DOMAIN new => new["CSUAV0"] \in {"none", "probes"}
              /\ "CSUAV1" \in DOMAIN new => new["CSUAV1"] \in {"none", "accumFrames"}
              /\ c = 6 => /\ "CSUAV0" \in DOMAIN new /\ new["CSUAV0"] = "none"
                          /\ "CSUAV1" \in DOMAIN new /\ new["CSUAV1"] = "none"
              /\ c = 7 => DOMAIN new = {"CSSRV0"} /\ new["CSSRV0"] = "none"
              /\ c = 8 => DOMAIN new = {"CS"} /\ new["CS"] = "none"
<1>1. Calls("Probes") = Probes /\ Len(Probes) = 8
  BY DEF Calls, Probes
<1>2. ASSUME NEW c \in 1 .. 8, NEW new, new = Probes[c]
      PROVE  /\ DOMAIN new \subseteq Compute \cup {"CSSRV0", "CSUAV0", "CSUAV1"}
             /\ "CSSRV0" \in DOMAIN new => new["CSSRV0"] \in {"none", "occlusion"}
             /\ "CSUAV0" \in DOMAIN new => new["CSUAV0"] \in {"none", "probes"}
             /\ "CSUAV1" \in DOMAIN new => new["CSUAV1"] \in {"none", "accumFrames"}
             /\ c = 6 => /\ "CSUAV0" \in DOMAIN new /\ new["CSUAV0"] = "none"
                         /\ "CSUAV1" \in DOMAIN new /\ new["CSUAV1"] = "none"
             /\ c = 7 => DOMAIN new = {"CSSRV0"} /\ new["CSSRV0"] = "none"
             /\ c = 8 => DOMAIN new = {"CS"} /\ new["CS"] = "none"
  <2>1. CASE c = 1
    BY <1>2, <2>1 DEF Probes, Ours, Compute
  <2>2. CASE c = 2
    BY <1>2, <2>2 DEF Probes, Put
  <2>3. CASE c = 3
    BY <1>2, <2>3 DEF Probes
  <2>4. CASE c = 4
    BY <1>2, <2>4 DEF Probes, Ours, Compute
  <2>5. CASE c = 5
    BY <1>2, <2>5 DEF Probes, Draw
  <2>6. CASE c = 6
    BY <1>2, <2>6 DEF Probes
  <2>7. CASE c = 7
    BY <1>2, <2>7 DEF Probes, Put
  <2>8. CASE c = 8
    BY <1>2, <2>8 DEF Probes, Put, Compute
  <2> QED
    BY <2>1, <2>2, <2>3, <2>4, <2>5, <2>6, <2>7, <2>8
<1> QED
  BY <1>1, <1>2

LEMMA ProbesCall ==
    ASSUME PassInv, Call, pass = "Probes"
    PROVE  ProbesInv'
<1> DEFINE c == call  new == Calls("Probes")[call]
<1>1. /\ c <= 8 /\ bound' = Bind(bound, new) /\ asked' = With(asked, new)
      /\ call' = c + 1 /\ saved' = saved
  BY ProbesAre DEF Call
<1>2. DOMAIN bound = Slots /\ c \in Nat /\ c > 0 /\ Idle(saved) /\ ProbesInv
  <2>1. pass # "none"
    OBVIOUS
  <2> QED
    BY <2>1 DEF PassInv
<1>3. c \in 1 .. 8
  BY <1>1, <1>2
<1>4. /\ DOMAIN new \subseteq Compute \cup {"CSSRV0", "CSUAV0", "CSUAV1"}
      /\ "CSSRV0" \in DOMAIN new => new["CSSRV0"] \in {"none", "occlusion"}
      /\ "CSUAV0" \in DOMAIN new => new["CSUAV0"] \in {"none", "probes"}
      /\ "CSUAV1" \in DOMAIN new => new["CSUAV1"] \in {"none", "accumFrames"}
      /\ c = 6 => /\ "CSUAV0" \in DOMAIN new /\ new["CSUAV0"] = "none"
                  /\ "CSUAV1" \in DOMAIN new /\ new["CSUAV1"] = "none"
      /\ c = 7 => DOMAIN new = {"CSSRV0"} /\ new["CSSRV0"] = "none"
      /\ c = 8 => DOMAIN new = {"CS"} /\ new["CS"] = "none"
  BY <1>3, ProbesAre
<1> HIDE DEF c, new
<1>5. /\ \A s \in Slots \ Taken : bound[s] = saved[s]
      /\ bound["PSSRV2"] \in Sources /\ bound["inputLayout"] # "ours"
      /\ DOMAIN asked \subseteq Compute \cup {"CSSRV0", "CSUAV0", "CSUAV1"}
      /\ \A s \in DOMAIN asked : bound[s] = asked[s]
      /\ "CSSRV0" \in DOMAIN asked => asked["CSSRV0"] \in {"none", "occlusion"}
      /\ bound["CSUAV0"] \in {"none", "buffer", "probes"} /\ bound["CSUAV1"] \in {"none", "accumFrames"}
      /\ c > 6 => bound["CSUAV0"] = "none" /\ bound["CSUAV1"] = "none"
      /\ c > 7 => bound["CSSRV0"] = "none"
  BY <1>2 DEF ProbesInv, c
<1>6. Compute \cup {"CSSRV0", "CSUAV0", "CSUAV1"} \subseteq Taken \cap Slots
  BY DEF Taken, Slots, Outputs, Inputs
<1>7. /\ \A s \in Slots \ Inputs : bound'[s] = Would(bound, new, s)
      /\ \A s \in Inputs : bound'[s] \in {"none", Would(bound, new, s)}
      /\ \A s \in Inputs : (\A o \in Outputs : Would(bound, new, s) = Would(bound, new, o)
                                                  => Would(bound, new, s) = "none")
            => bound'[s] = Would(bound, new, s)
  <2>1. DOMAIN new \subseteq Slots
    BY <1>4, <1>6
  <2> QED
    BY <1>1, <1>2, <2>1, BindIs
<1>8. ASSUME NEW o \in Outputs
      PROVE  \/ o \in RenderTargets /\ Would(bound, new, o) = saved[o]
             \/ Would(bound, new, o) \in {"none", "buffer", "probes", "accumFrames"}
  <2>1. CASE o \in RenderTargets
    <3>1. o \in Slots \ Taken
      BY <2>1 DEF RenderTargets, Taken, Compute, Slots, Outputs
    <3> QED
      BY <1>4, <1>5, <1>6, <2>1, <3>1 DEF Would
  <2>2. CASE o = "CSUAV0"
    BY <1>4, <1>5, <2>2 DEF Would
  <2>3. CASE o = "CSUAV1"
    BY <1>4, <1>5, <2>3 DEF Would
  <2> QED
    BY <2>1, <2>2, <2>3 DEF Outputs, RenderTargets
<1>9. ASSUME NEW s \in Slots \ Taken PROVE bound'[s] = saved[s]
  <2>1. Would(bound, new, s) = saved[s]
    BY <1>4, <1>5, <1>6 DEF Would
  <2>2. CASE s \in Inputs
    <3>1. saved[s] \in Sources /\ NoClash(saved)
      BY <1>2, <2>2 DEF Idle
    <3>2. \A o \in Outputs : Would(bound, new, s) = Would(bound, new, o) => Would(bound, new, s) = "none"
      BY <1>8, <2>1, <2>2, <3>1 DEF NoClash, Sources
    <3> QED
      BY <1>7, <2>1, <2>2, <3>2
  <2> QED
    BY <1>7, <2>1, <2>2
<1>10. "CSSRV0" \in Inputs /\ "PSSRV2" \in Inputs
       /\ {"CSUAV0", "CSUAV1", "CS", "inputLayout"} \subseteq Slots \ Inputs
  BY DEF Slots, Inputs, Outputs, Compute, Graphics
<1>11. /\ DOMAIN asked' = DOMAIN asked \cup DOMAIN new
       /\ \A s \in DOMAIN asked' : asked'[s] = Would(bound, new, s)
  BY <1>1, <1>5 DEF With, Would
<1>12. "CSSRV0" \in DOMAIN asked' => asked'["CSSRV0"] \in {"none", "occlusion"}
  BY <1>1, <1>4, <1>5, <1>11 DEF With
<1>13. ASSUME NEW s \in DOMAIN asked' PROVE bound'[s] = asked'[s]
  <2>1. s \in Compute \cup {"CSSRV0", "CSUAV0", "CSUAV1"}
    BY <1>4, <1>5, <1>11
  <2>2. CASE s = "CSSRV0"
    <3>1. Would(bound, new, s) \in {"none", "occlusion"}
      BY <1>11, <1>12, <2>2
    <3>2. \A o \in RenderTargets : saved[o] \in Targets
      BY <1>2 DEF Idle
    <3>3. \A o \in Outputs : Would(bound, new, s) = Would(bound, new, o) => Would(bound, new, s) = "none"
      BY <1>8, <3>1, <3>2 DEF Targets
    <3> QED
      BY <1>7, <1>10, <1>11, <2>2, <3>3
  <2>3. CASE s # "CSSRV0"
    <3>1. s \in Slots \ Inputs
      BY <1>6, <2>1, <2>3 DEF Inputs, Compute
    <3> QED
      BY <1>7, <1>11, <3>1
  <2> QED
    BY <2>2, <2>3
<1>14. bound'["PSSRV2"] \in Sources
  <2>1. Would(bound, new, "PSSRV2") = bound["PSSRV2"]
    BY <1>4 DEF Would, Compute
  <2> QED
    BY <1>5, <1>7, <1>10, <2>1 DEF Sources
<1>15. bound'["inputLayout"] # "ours"
  <2>1. Would(bound, new, "inputLayout") = bound["inputLayout"]
    BY <1>4 DEF Would, Compute
  <2> QED
    BY <1>5, <1>7, <1>10, <2>1
<1>16. bound'["CSUAV0"] \in {"none", "buffer", "probes"} /\ bound'["CSUAV1"] \in {"none", "accumFrames"}
  BY <1>4, <1>5, <1>7, <1>10 DEF Would
<1>17. call' > 6 => bound'["CSUAV0"] = "none" /\ bound'["CSUAV1"] = "none"
  <2>1. CASE c = 6
    BY <1>4, <1>7, <1>10, <2>1 DEF Would
  <2>2. CASE c > 6
    <3>1. bound["CSUAV0"] = "none" /\ bound["CSUAV1"] = "none"
      BY <1>5, <2>2
    <3>2. Would(bound, new, "CSUAV0") = "none" /\ Would(bound, new, "CSUAV1") = "none"
      <4>1. c = 7 \/ c = 8
        BY <1>3, <2>2
      <4>2. "CSUAV0" \notin DOMAIN new /\ "CSUAV1" \notin DOMAIN new
        BY <1>4, <4>1
      <4> QED
        BY <3>1, <4>2 DEF Would
    <3> QED
      BY <1>7, <1>10, <3>2
  <2> QED
    BY <1>1, <1>3, <2>1, <2>2
<1>18. call' > 7 => bound'["CSSRV0"] = "none"
  <2>1. CASE c = 7
    BY <1>4, <1>7, <1>10, <2>1 DEF Would
  <2>2. CASE c = 8
    <3>1. Would(bound, new, "CSSRV0") = "none"
      BY <1>4, <1>5, <2>2 DEF Would
    <3> QED
      BY <1>7, <1>10, <3>1
  <2> QED
    BY <1>1, <1>3, <2>1, <2>2
<1>19. call' > 8 => bound'["CS"] = "none"
  <2>1. CASE c = 8
    BY <1>4, <1>7, <1>10, <2>1 DEF Would
  <2> QED
    BY <1>1, <1>3, <2>1
<1>20. DOMAIN asked' \subseteq Compute \cup {"CSSRV0", "CSUAV0", "CSUAV1"}
  BY <1>4, <1>5, <1>11
<1> QED
  BY <1>1, <1>9, <1>12, <1>13, <1>14, <1>15, <1>16, <1>17, <1>18, <1>19, <1>20 DEF ProbesInv

LEMMA CallInv == PassInv /\ Call => PassInv'
<1> SUFFICES ASSUME PassInv, Call PROVE PassInv'
  OBVIOUS
<1>1. /\ pass # "none" /\ bound' = Bind(bound, Calls(pass)[call]) /\ call' = call + 1
      /\ call <= Len(Calls(pass)) /\ UNCHANGED <<engines, pass, saved>>
  BY DEF Call
<1>2. /\ DOMAIN bound = Slots /\ pass \in Passes /\ call \in Nat \ {0}
      /\ Idle(saved) /\ \A s \in Slots \ Taken : saved[s] = engines[s]
  BY <1>1 DEF PassInv
<1>3. DOMAIN (Calls(pass)[call]) \subseteq Slots
  <2>1. CASE pass = "Probes"
    <3>1. Len(Calls(pass)) = 8
      BY <2>1, ProbesAre
    <3>2. call \in 1 .. 8
      BY <1>1, <1>2, <3>1
    <3>3. DOMAIN (Calls("Probes")[call]) \subseteq Compute \cup {"CSSRV0", "CSUAV0", "CSUAV1"}
      BY <3>2, ProbesAre
    <3> QED
      BY <2>1, <3>3 DEF Slots, Inputs, Outputs
  <2>2. CASE pass # "Probes"
    <3>1. Len(Calls(pass)) \in Nat /\ \A c \in 1 .. Len(Calls(pass)) : Fits(Calls(pass)[c], pass, c)
      BY <1>2, <2>2, CallsFit DEF Fitting
    <3>2. Fits(Calls(pass)[call], pass, call)
      BY <1>1, <1>2, <3>1
    <3> QED
      BY <3>2 DEF Fits
  <2> QED
    BY <2>1, <2>2
<1>4. DOMAIN bound' = Slots /\ NoClash(bound')
  BY <1>1, <1>2, <1>3, BindIs
<1>5. pass = "Probes" => ProbesInv'
  BY ProbesCall
<1>6. pass # "Probes" => GuardedInv'
  BY GuardedCall
<1>7. call' \in Nat \ {0}
  BY <1>1, <1>2
<1>8. Idle(saved)' /\ pass' # "none" /\ pass' = pass
  BY <1>1, <1>2 DEF Idle, NoClash
<1> QED
  BY <1>1, <1>2, <1>4, <1>5, <1>6, <1>7, <1>8 DEF PassInv

LEMMA PassStepInv == PassInv /\ [PassNext]_passVars => PassInv'
<1>1. PassInv /\ PassNext => PassInv'
  BY EngineBindsInv, BeginInv, CallInv, EndInv DEF PassNext
<1>2. PassInv /\ UNCHANGED passVars => PassInv'
  BY DEF passVars, PassInv, Idle, NoClash, ProbesInv, GuardedInv
<1> QED
  BY <1>1, <1>2

LEMMA PassInvFinds == PassInv => DrawsFindWhatTheyAsked
<1> SUFFICES ASSUME PassInv, pass # "none", NEW s \in DOMAIN asked PROVE bound[s] = asked[s]
  BY DEF DrawsFindWhatTheyAsked
<1>1. CASE pass = "Probes"
  BY <1>1 DEF PassInv, ProbesInv
<1>2. CASE pass # "Probes"
  BY <1>2 DEF PassInv, GuardedInv
<1> QED
  BY <1>1, <1>2

LEMMA PassInvGives == PassInv => BindingsGivenBack
<1> SUFFICES ASSUME PassInv, pass = "none" PROVE BindingsGivenBack
  BY DEF BindingsGivenBack
<1>1. Idle(bound) /\ \A s \in Slots \ Taken : bound[s] = engines[s]
  BY DEF PassInv
<1>2. ASSUME NEW s \in Outputs \cup Inputs
      PROVE  bound[s] \in Targets \cup Sources \cup {"buffer"}
  BY <1>1 DEF Idle, Outputs, RenderTargets, Targets
<1>3. \A s \in Outputs \cup Inputs :
         bound[s] \notin {"mask", "coverage", "probes", "accumFrames", "occlusion", "shown", "ours"}
  BY <1>2 DEF Targets, Sources
<1>4. ASSUME NEW s \in Taken, bound[s] = "ours" PROVE s \in {"CSSampler0", "CSCB1"}
  <2>1. s \notin Outputs \cup Inputs
    BY <1>3, <1>4
  <2>2. s # "CS" /\ s # "inputLayout"
    BY <1>1, <1>4 DEF Idle
  <2> QED
    BY <2>1, <2>2 DEF Taken, Compute, Outputs, Inputs
<1> QED
  BY <1>1, <1>3, <1>4 DEF BindingsGivenBack

-----------------------------------------------------------------------------
(* All together                                                            *)

\* What holds of the effects, of the calls and of the replacement together.
EffectsInv == IInv /\ HeldInv /\ DrawsAreFit /\ PassInv /\ ReplacementInv

composedVars == <<vars, effectVars, passVars, tintVars, subject>>

\* All of it holds at the start.
LEMMA ComposedInitInv == ComposedInit => EffectsInv /\ ClampInv
<1> SUFFICES ASSUME ComposedInit PROVE EffectsInv /\ ClampInv
  OBVIOUS
<1>1. IInv /\ PassInv /\ ReplacementInv
  BY InitInv, PassInitInv, ReplacementInitInv DEF ComposedInit, EffectsInit
<1>2. \A f \in Effect : state[f] = "off"
  BY EffectIsFeature DEF ComposedInit, EffectsInit, Init
<1>3. HeldInv /\ DrawsAreFit
  BY <1>2 DEF ComposedInit, EffectsInit, HeldInv, HeldOf, DrawsAreFit
<1>4. ClampInv
  BY DEF ComposedInit, EffectsInit, ClampInv, NoOverride
<1> QED
  BY <1>1, <1>3, <1>4 DEF EffectsInv

\* A step is one of the effects, of the calls or of the replacement, and leaves
\* the others alone.
LEMMA StepOfOne ==
    ASSUME [ComposedNext]_composedVars
    PROVE  /\ EffectsNext \/ UNCHANGED <<vars, effectVars>>
           /\ [PassNext]_passVars
           /\ [ReplacementNext]_tintVars
BY DEF ComposedNext, composedVars

\* The invariants speak of nothing else.
LEMMA EffectsAlone ==
    ASSUME HeldInv, DrawsAreFit, UNCHANGED <<vars, effectVars>>
    PROVE  /\ HeldInv' /\ DrawsAreFit'
           /\ ClampInv => ClampInv'
<1>1. UNCHANGED <<state, fullscreen, held, leaked, listening, size, unfit>>
      /\ UNCHANGED <<clamp, engineClamp, override>>
  BY DEF vars, effectVars, resources, shadows, clampVars
<1>2. HeldInv' /\ DrawsAreFit'
  BY <1>1 DEF HeldInv, HeldOf, DrawsAreFit
<1>3. ClampInv => ClampInv'
  BY <1>1 DEF ClampInv
<1> QED
  BY <1>2, <1>3

\* Every step keeps it.
LEMMA ComposedStepInv == EffectsInv /\ [ComposedNext]_composedVars => EffectsInv'
<1> SUFFICES ASSUME EffectsInv, [ComposedNext]_composedVars PROVE EffectsInv'
  OBVIOUS
<1>1. IInv /\ HeldInv /\ DrawsAreFit /\ PassInv /\ ReplacementInv
  BY DEF EffectsInv
<1>2. PassInv' /\ ReplacementInv'
  BY <1>1, StepOfOne, PassStepInv, ReplacementStepInv
<1>3. IInv'
  <2>1. [Next]_vars
    BY StepOfOne, EffectsAreSteps
  <2> QED
    BY <1>1, <2>1, StepInv
<1>4. HeldInv' /\ DrawsAreFit'
  BY <1>1, StepOfOne, HeldStepInv, EffectsAlone
<1> QED
  BY <1>2, <1>3, <1>4 DEF EffectsInv

\* The inductive invariant of the effects, of the calls and of the replacement.
THEOREM EffectsInductive == EffectsSpec => []EffectsInv
<1>1. ComposedInit => EffectsInv
  BY ComposedInitInv
<1> QED
  BY <1>1, ComposedStepInv, PTL DEF EffectsSpec, composedVars

-----------------------------------------------------------------------------
\* An effect runs with everything its Setup acquired or holds nothing,
\* whatever step of its Setup failed and however often; setups and shutdowns
\* pair up, and the switches are obeyed.
THEOREM SetupsStayWhole == EffectsSpec => []SetupsAreWhole
<1>1. EffectsInv => SetupsAreWhole
  <2> SUFFICES ASSUME EffectsInv PROVE SetupsAreWhole
    OBVIOUS
  <2>1. WholeOrNothing
    BY DEF EffectsInv, HeldInv, HeldOf, WholeOrNothing
  <2>2. SetupAndShutdownPair /\ SwitchesObeyed
    BY PairAndObey DEF EffectsInv
  <2> QED
    BY <2>1, <2>2 DEF SetupsAreWhole
<1> QED
  BY <1>1, EffectsInductive, PTL

\* A pass that draws has everything it uses, and the shadows' mask the size of
\* what it is multiplied onto, after any failures and resizes.
THEOREM DrawsStayFit == EffectsSpec => []DrawsAreFit
<1>1. EffectsInv => DrawsAreFit
  BY DEF EffectsInv
<1> QED
  BY <1>1, EffectsInductive, PTL

\* ScreenSpaceShadows.cpp:318: a draw is fit, and finds in every slot what its
\* pass asked for, whatever the engine and the passes before it left bound.
THEOREM DrawsStayRight == EffectsSpec => []DrawsAreRight
<1>1. EffectsInv => DrawsAreRight
  BY PassInvFinds DEF EffectsInv, DrawsAreRight
<1> QED
  BY <1>1, EffectsInductive, PTL

\* ShaderOverride.cpp:45: the engine never finds a dead shader of ours in its
\* slot, over any number of edits and installs, unless what Adopt found
\* there was ours; and switched off, nothing of the replacement is left.
THEOREM ReplacementStaysSafe == EffectsSpec => []ReplacementIsSafe
<1>1. EffectsInv => ReplacementIsSafe
  BY SafeReplacement DEF EffectsInv
<1> QED
  BY <1>1, EffectsInductive, PTL

\* The registry's order holds with the effects' own code in its calls.
THEOREM EffectsInOrder == EffectsSpec => SwitchedInOrder
<1>1. ComposedInit => Init
  BY DEF ComposedInit, EffectsInit
<1>2. [ComposedNext]_composedVars => [Next]_vars
  BY StepOfOne, EffectsAreSteps
<1>3. EffectsSpec => Spec
  BY <1>1, <1>2, PTL DEF EffectsSpec, composedVars, Spec
<1> QED
  BY <1>3, InOrder

\* ExponentialHeightFog.h:41: the engine's own value is never lost nor dimmed
\* twice, and is back when the fog is off, for any weather and any dimming,
\* if the engine writes no value that the fog makes of another.
THEOREM ClampStaysTheEngines ==
    ASSUME EnginesDiffer
    PROVE  EffectsSpec => []ClampIsTheEngines
<1>1. ComposedInit => EffectsInv /\ ClampInv
  BY ComposedInitInv
<1>2. EffectsInv /\ ClampInv /\ [ComposedNext]_composedVars => ClampInv'
  <2> SUFFICES ASSUME EffectsInv, ClampInv, [ComposedNext]_composedVars PROVE ClampInv'
    OBVIOUS
  <2>1. IInv /\ HeldInv /\ DrawsAreFit
    BY DEF EffectsInv
  <2> QED
    BY <2>1, EnginesDiffer, StepOfOne, ClampStepInv, EffectsAlone
<1>3. EffectsInv /\ ClampInv => ClampIsTheEngines
  BY VanillaIsTheEngines DEF ClampInv, ClampIsTheEngines
<1> QED
  BY <1>1, <1>2, <1>3, EffectsInductive, PTL DEF EffectsSpec, composedVars

\* Between two passes the engine finds its own bindings, but for the slots that
\* are known to be taken and hold nothing of ours that it could read or write; and
\* its clamp is its own, under the hypothesis of ClampStaysTheEngines.
THEOREM EngineStaysUntouched ==
    ASSUME EnginesDiffer
    PROVE  EffectsSpec => []EngineUntouched
<1>1. EffectsInv => BindingsGivenBack
  BY PassInvGives DEF EffectsInv
<1>2. BindingsGivenBack /\ ClampIsTheEngines => EngineUntouched
  BY DEF EngineUntouched
<1>3. EffectsSpec => []ClampIsTheEngines
  BY EnginesDiffer, ClampStaysTheEngines
<1> QED
  BY <1>1, <1>2, <1>3, EffectsInductive, PTL
=============================================================================
