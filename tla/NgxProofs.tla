------------------------------ MODULE NgxProofs ------------------------------
(***************************************************************************)
(* Theorems about the two users of NGX, for every value of the constants.  *)
(*                                                                         *)
(* NeuralRenderer: with creations that time out or not, a feature outlives *)
(* every command that names it and is given back once, creations are one   *)
(* at a time and fenced, and no feature outlives the plugin's own.         *)
(*                                                                         *)
(* Upscale: for any number of changes and of failures, what DLSS takes of  *)
(* the engine it gives back, nothing that is bound is freed, who reads the *)
(* depth or the motion is told the truth, and no history is continued      *)
(* across a gap.                                                           *)
(***************************************************************************)
EXTENDS NeuralRenderer, Upscale, FiniteSetTheorems, TLAPS

-----------------------------------------------------------------------------
(* The commands of the queue *)

Commands == [op : {"create", "frame"}, handle : 0 .. MaxFeature]
            \cup [op : {"signal"}, fence : {"create", "release"}, value : Nat]

Creates(c)       == c.op = "create"
Uses(c)          == c.op \in {"create", "frame"}
CreateSignal(c)  == c.op = "signal" /\ c.fence = "create"
ReleaseSignal(c) == c.op = "signal" /\ c.fence = "release"

Pos == 1 .. Len(queue)

Creation == pc \in {"creating", "waiting"}

TypeInv ==
    /\ TypeOK
    /\ queue \in Seq(Commands)
    /\ Creation <=> creating # None
    /\ Creation => feature = None
    /\ pc # "idle" => releaseValue < MaxFrame

\* Where a handle is: waiting to be freed, in use, under creation or freed; in
\* one of these places and in no two.
Place(rs, use, new, n, freed) ==
    /\ \A r \in rs : r.handle \in 1 .. n \ ({use, new} \cup freed)
    /\ \A r, s \in rs : r.handle = s.handle => r = s
    /\ {use, new} \subseteq 0 .. n /\ freed \subseteq 1 .. n
    /\ use \notin freed /\ new \notin freed
    /\ use = 0 \/ new = 0
    /\ \A h \in 1 .. n : \/ \E r \in rs : r.handle = h
                         \/ h \in {use, new} \cup freed

PlaceInv == Place(retired, feature.handle, creating.handle, issued, released)

\* What the queue still uses is not freed, and what is retired has a value that
\* no signal ahead of its last use reaches.
AliveInv ==
    /\ \A i \in Pos : Uses(queue[i]) => /\ queue[i].handle \notin released
                                        /\ queue[i].handle <= issued
    /\ \A i \in Pos, r \in retired :
          Uses(queue[i]) /\ queue[i].handle = r.handle =>
             /\ releaseDone < r.value
             /\ \A j \in Pos : j < i /\ ReleaseSignal(queue[j]) => queue[j].value < r.value
    /\ \A j \in Pos : ReleaseSignal(queue[j]) => queue[j].value <= releaseValue

\* One creation is under way at most, and its fence tells when it is over.
CreateInv ==
    /\ \A i, j \in Pos : Creates(queue[i]) /\ Creates(queue[j]) => i = j
    /\ \A i, j \in Pos : CreateSignal(queue[i]) /\ CreateSignal(queue[j]) => i = j
    /\ \A j \in Pos : CreateSignal(queue[j]) => /\ queue[j].value = createValue
                                                /\ createDone < createValue
    /\ \A i \in Pos : Creates(queue[i]) => \E j \in Pos : i < j /\ CreateSignal(queue[j])

\* As long as nothing has timed out, the event is set only by the creation that
\* is waited for, and a creation in the queue is that one.
WaitInv ==
    /\ Creation => \A i \in Pos : /\ Uses(queue[i]) /\ ~Creates(queue[i])
                                  /\ queue[i].handle # 0
                                  => queue[i].handle # creating.handle
    /\ ~late =>
         /\ pc # "waiting" => ~signaled /\ registered = {}
         /\ signaled => registered = {} /\ createDone >= createValue
         /\ registered \subseteq {createValue}
         /\ \A i \in Pos : Creates(queue[i]) =>
               Creation /\ queue[i].handle = creating.handle

\* What is being created has not failed since the key was chosen, and what was
\* chosen has failed only if the gate knows.
GateInv ==
    /\ \A k \in Keys : failures[k] <= 1
    /\ failures[options.key] # 0 => failed = options.key
    /\ Creation => failures[options.key] = 0 /\ failures[creating.key] = 0

\* A feature that is wanted is on, and one that exists was made by a renderer
\* that is up.
LivesInv ==
    /\ options.wanted => side = "on"
    /\ answer = "up" => made = kParts
    /\ feature # None \/ creating # None =>
         (side # "off" \/ releaseRequested) /\ answer = "up"

IInv == /\ TypeInv /\ PlaceInv /\ AliveInv /\ CreateInv
        /\ WaitInv /\ GateInv /\ LivesInv

-----------------------------------------------------------------------------
(* The commands and the queue *)

LEMMA CommandsAre ==
    /\ \A h \in 0 .. MaxFeature :
          /\ Create(h) \in Commands /\ Create(h).handle = h
          /\ Creates(Create(h)) /\ Uses(Create(h))
          /\ ~CreateSignal(Create(h)) /\ ~ReleaseSignal(Create(h))
          /\ Frame(h) \in Commands /\ Frame(h).handle = h
          /\ ~Creates(Frame(h)) /\ Uses(Frame(h))
          /\ ~CreateSignal(Frame(h)) /\ ~ReleaseSignal(Frame(h))
    /\ \A v \in Nat :
          /\ Signal("create", v) \in Commands /\ Signal("create", v).value = v
          /\ ~Uses(Signal("create", v)) /\ ~Creates(Signal("create", v))
          /\ CreateSignal(Signal("create", v)) /\ ~ReleaseSignal(Signal("create", v))
          /\ Signal("release", v) \in Commands /\ Signal("release", v).value = v
          /\ ~Uses(Signal("release", v)) /\ ~Creates(Signal("release", v))
          /\ ~CreateSignal(Signal("release", v)) /\ ReleaseSignal(Signal("release", v))
    /\ \A c \in Commands :
          /\ Uses(c) => c.handle \in 0 .. MaxFeature
          /\ Creates(c) => Uses(c)
          /\ CreateSignal(c) \/ ReleaseSignal(c) => c.value \in Nat
  BY DEF Commands, Create, Frame, Signal, Creates, Uses, CreateSignal, ReleaseSignal

LEMMA QueueGrows ==
    ASSUME queue \in Seq(Commands), NEW a \in Commands, NEW b \in Commands,
           queue' = queue \o <<a, b>>
    PROVE  /\ queue' \in Seq(Commands) /\ Len(queue) \in Nat
           /\ \A i \in Pos : i \in Pos' /\ queue'[i] = queue[i] /\ i < Len(queue) + 1
           /\ Len(queue) + 1 \in Pos' /\ queue'[Len(queue) + 1] = a
           /\ Len(queue) + 2 \in Pos' /\ queue'[Len(queue) + 2] = b
           /\ \A i \in Pos' : i \in Pos \/ i = Len(queue) + 1 \/ i = Len(queue) + 2
<1>1. /\ queue' \in Seq(Commands) /\ Len(queue) \in Nat /\ Len(queue') = Len(queue) + 2
      /\ \A i \in 1 .. Len(queue) : queue'[i] = queue[i]
      /\ queue'[Len(queue) + 1] = a /\ queue'[Len(queue) + 2] = b
  <2>1. queue' \in Seq(Commands) /\ Len(queue) \in Nat /\ Len(queue') = Len(queue) + 2
    OBVIOUS
  <2>2. \A i \in 1 .. Len(queue) : queue'[i] = queue[i]
    OBVIOUS
  <2>3. queue'[Len(queue) + 1] = a
    OBVIOUS
  <2>4. queue'[Len(queue) + 2] = b
    OBVIOUS
  <2> QED
    BY <2>1, <2>2, <2>3, <2>4
<1> DEFINE n == Len(queue)
           m == Len(queue')
<1>2. n \in Nat /\ m = n + 2
  BY <1>1
<1> HIDE DEF n, m
<1>3. /\ \A i \in 1 .. n : i \in 1 .. m /\ i < n + 1
      /\ n + 1 \in 1 .. m /\ n + 2 \in 1 .. m
      /\ \A i \in 1 .. m : i \in 1 .. n \/ i = n + 1 \/ i = n + 2
  BY <1>2
<1> QED
  BY <1>1, <1>3 DEF Pos, n, m

LEMMA QueueShrinks ==
    ASSUME queue \in Seq(Commands), queue # <<>>, queue' = Tail(queue)
    PROVE  /\ queue' \in Seq(Commands)
           /\ 1 \in Pos /\ Head(queue) = queue[1] /\ queue[1] \in Commands
           /\ \A i \in Pos' : i \in Nat /\ i + 1 \in Pos /\ 1 < i + 1
                             /\ queue'[i] = queue[i + 1]
           /\ \A i \in Pos : i = 1 \/ (i - 1 \in Pos' /\ queue'[i - 1] = queue[i])
<1>1. Len(queue) \in Nat /\ Len(queue) > 0 /\ Head(queue) = queue[1]
  OBVIOUS
<1>2. /\ queue' \in Seq(Commands) /\ Len(queue') = Len(queue) - 1
      /\ \A i \in 1 .. Len(queue') : queue'[i] = queue[i + 1]
  BY <1>1
<1>3. \A i \in 1 .. Len(queue) : queue[i] \in Commands
  OBVIOUS
<1>4. 1 \in Pos /\ queue[1] \in Commands
  BY <1>1, <1>3 DEF Pos
<1>5. ASSUME NEW i \in Pos'
      PROVE  i \in Nat /\ i + 1 \in Pos /\ 1 < i + 1 /\ queue'[i] = queue[i + 1]
  BY <1>1, <1>2 DEF Pos
<1>6. ASSUME NEW i \in Pos, i # 1 PROVE i - 1 \in Pos' /\ queue'[i - 1] = queue[i]
  <2>1. i - 1 \in 1 .. Len(queue') /\ (i - 1) + 1 = i
    BY <1>1, <1>2, <1>6 DEF Pos
  <2> QED
    BY <1>2, <2>1 DEF Pos
<1> QED
  BY <1>1, <1>2, <1>4, <1>5, <1>6

\* What the type invariant says in numbers.
LEMMA Numbers ==
    ASSUME TypeInv
    PROVE  /\ MaxFeature \in Nat /\ MaxFrame \in Nat /\ Infinity = MaxFrame + 1
           /\ releaseValue \in Nat /\ releaseValue <= MaxFrame
           /\ releaseDone \in Nat /\ releaseDone <= releaseValue
           /\ issued \in Nat /\ issued <= MaxFeature
           /\ createValue \in Nat /\ createDone \in Nat /\ createDone <= createValue
           /\ creating.handle \in 0 .. MaxFeature /\ feature.handle \in 0 .. MaxFeature
           /\ feature # None <=> feature.handle # 0
           /\ Creation => creating.key \in Keys
           /\ options.key \in Keys
           /\ \A r \in retired : r.value \in Nat /\ r.handle \in Handles
           /\ queue \in Seq(Commands) /\ \A i \in Pos : queue[i] \in Commands
<1>1. MaxFeature \in Nat /\ MaxFrame \in Nat /\ Infinity = MaxFrame + 1
  BY ConstantsAssumption DEF Infinity
<1>2. /\ releaseValue \in Nat /\ releaseValue <= MaxFrame
      /\ releaseDone \in Nat /\ releaseDone <= releaseValue
      /\ issued \in Nat /\ issued <= MaxFeature
      /\ createValue \in Nat /\ createDone \in Nat /\ createDone <= createValue
  BY <1>1 DEF TypeInv, TypeOK
<1>3. /\ creating.handle \in 0 .. MaxFeature /\ feature.handle \in 0 .. MaxFeature
      /\ feature # None <=> feature.handle # 0
      /\ Creation => creating.key \in Keys
      /\ options.key \in Keys
  BY <1>1 DEF TypeInv, TypeOK, Feature, None, Handles
<1>4. \A r \in retired : r.value \in Nat /\ r.handle \in Handles
  BY <1>1 DEF TypeInv, TypeOK
<1>5. queue \in Seq(Commands) /\ \A i \in Pos : queue[i] \in Commands
  BY DEF TypeInv, Pos
<1> QED
  BY <1>1, <1>2, <1>3, <1>4, <1>5

-----------------------------------------------------------------------------
(* The first state, and the types *)

LEMMA InitInv == Init => IInv
<1> SUFFICES ASSUME Init PROVE IInv
  OBVIOUS
<1>0. MaxFeature \in Nat /\ MaxFrame \in Nat
  BY ConstantsAssumption
<1>1. TypeInv
  <2>1. queue \in Seq(Commands)
    BY DEF Init
  <2>2. options \in [wanted : BOOLEAN, key : Keys]
    BY DEF Init
  <2>3. failures \in [Keys -> Nat] /\ made \in 0 .. kParts
    BY DEF Init, NoFailures, kParts, kNgx, kPipeline
  <2>4. /\ feature \in Feature \cup {None}
        /\ creating \in [handle : Handles \cup {0}, key : Keys] \cup {None}
        /\ retired \subseteq [value : 0 .. Infinity, handle : Handles]
        /\ failed \in Keys \cup {NoKey} /\ released \subseteq Handles
    BY DEF Init
  <2>5. /\ createDone \in 0 .. createValue /\ registered \subseteq 1 .. createValue
        /\ releaseValue \in 0 .. MaxFrame /\ releaseDone \in 0 .. releaseValue
        /\ issued \in 0 .. MaxFeature /\ createValue \in Nat
    BY <1>0 DEF Init
  <2>6. TypeOK
    BY <2>2, <2>3, <2>4, <2>5 DEF Init, TypeOK
  <2> QED
    BY <2>1, <2>6 DEF Init, TypeInv, Creation
<1>2. Pos = {} /\ Len(queue) = 0
  BY DEF Init, Pos
<1>3. PlaceInv
  BY DEF Init, PlaceInv, Place, None
<1>4. AliveInv /\ CreateInv
  BY <1>2 DEF AliveInv, CreateInv
<1>5. WaitInv
  BY <1>2 DEF Init, WaitInv, Creation
<1>6. GateInv /\ LivesInv
  <2>1. options.key \in Keys /\ ~options.wanted
    BY DEF Init
  <2> QED
    BY <2>1 DEF Init, GateInv, LivesInv, Creation, NoFailures
<1> QED
  BY <1>1, <1>3, <1>4, <1>5, <1>6 DEF IInv

\* What the queue may do in a step.
SubmitsWith(h) ==
    /\ pc # "idle" /\ pc' = "idle"
    /\ releaseValue' = releaseValue + 1
    /\ queue' = queue \o <<Frame(h), Signal("release", releaseValue + 1)>>

Side == Setup \/ SetupRefused \/ SetOptions \/ Shutdown \/ RequestRelease

LEMMA SideActs ==
    ASSUME Side
    PROVE  /\ UNCHANGED Quiet
           /\ \/ options' = options /\ failures' = failures
              \/ options' = [options EXCEPT !.wanted = FALSE] /\ failures' = failures
              \/ /\ options' \in [wanted : BOOLEAN, key : Keys]
                 /\ failures' = IF options'.key # options.key THEN NoFailures ELSE failures
  BY DEF Side, Setup, SetupRefused, SetOptions, Shutdown, RequestRelease

LEMMA SideTypes ==
    ASSUME TypeInv, Side PROVE TypeInv'
<1>1. UNCHANGED Quiet
  BY SideActs
<1>2. options' \in [wanted : BOOLEAN, key : Keys] /\ failures' \in [Keys -> Nat]
  <2>1. CASE options' = options /\ failures' = failures
    BY <2>1 DEF TypeInv, TypeOK
  <2>2. CASE options' = [options EXCEPT !.wanted = FALSE] /\ failures' = failures
    BY <2>2 DEF TypeInv, TypeOK
  <2>3. CASE /\ options' \in [wanted : BOOLEAN, key : Keys]
             /\ failures' = IF options'.key # options.key THEN NoFailures ELSE failures
    BY <2>3 DEF TypeInv, TypeOK, NoFailures
  <2> QED
    BY <2>1, <2>2, <2>3, SideActs
<1>3. ASSUME Start
      PROVE  answer' \in {"none", "up", "refused"} /\ made' \in 0 .. kParts
  BY <1>3 DEF Start, StartResult, TypeInv, TypeOK
<1>4. /\ answer' \in {"none", "up", "refused"} /\ made' \in 0 .. kParts
      /\ side' \in {"off", "on", "stopping"} /\ releaseRequested' \in BOOLEAN
  BY <1>3 DEF Side, Setup, SetupRefused, SetOptions, Shutdown, RequestRelease,
              TypeInv, TypeOK, sideVars
<1> QED
  BY <1>1, <1>2, <1>4 DEF TypeInv, TypeOK, Quiet, gateVars, createVars, Creation

LEMMA TypeStep ==
    ASSUME IInv, Next PROVE TypeInv'
<1> USE DEF IInv
<1>n. /\ MaxFeature \in Nat /\ MaxFrame \in Nat /\ Infinity = MaxFrame + 1
      /\ releaseValue \in Nat /\ releaseDone \in Nat /\ issued \in Nat
      /\ createValue \in Nat /\ createDone \in Nat
  BY Numbers
<1>a. ASSUME Side PROVE TypeInv'
  BY <1>a, SideTypes
<1>r. Retiring(releaseValue + 1) \subseteq [value : 1 .. releaseValue + 1, handle : Handles]
  BY <1>n DEF Retiring, TypeInv, TypeOK, Feature, None
<1>g. ASSUME NEW h \in 0 .. MaxFeature, SubmitsWith(h), UNCHANGED <<sideVars, options,
             releaseRequested, createValue, createDone, releaseDone, issued, released>>,
             retired' \subseteq [value : 0 .. Infinity, handle : Handles],
             creating' = None, feature' \in Feature \cup {None},
             failed' \in Keys \cup {NoKey}, failures' \in [Keys -> Nat],
             registered' = registered, signaled' \in BOOLEAN, late' \in BOOLEAN
      PROVE  TypeInv'
  <2>1. queue' \in Seq(Commands)
    BY <1>g, <1>n, CommandsAre, QueueGrows DEF SubmitsWith, TypeInv
  <2>2. releaseValue' \in 0 .. MaxFrame /\ releaseDone' \in 0 .. releaseValue'
    BY <1>g, <1>n DEF SubmitsWith, TypeInv, TypeOK
  <2> QED
    BY <1>g, <2>1, <2>2 DEF SubmitsWith, TypeInv, TypeOK, sideVars, Creation
<1>f. ASSUME NEW k \in Keys, Fail(k)
      PROVE  failed' \in Keys \cup {NoKey} /\ failures' \in [Keys -> Nat]
  BY <1>f DEF Fail, TypeInv, TypeOK
<1>1. CASE PresentBegin
  <2>1. released' \subseteq Handles
    BY <1>1 DEF PresentBegin, HandlesOf, Collectable, TypeInv, TypeOK
  <2>2. retired' \subseteq [value : 0 .. Infinity, handle : Handles]
    BY <1>1, <1>n, <1>r DEF PresentBegin, TypeInv, TypeOK
  <2>3. feature' \in Feature \cup {None}
    BY <1>1 DEF PresentBegin, TypeInv, TypeOK
  <2> QED
    BY <1>1, <2>1, <2>2, <2>3
    DEF PresentBegin, TypeInv, TypeOK, sideVars, gateVars, createVars, Creation
<1>2. CASE RecordNothing
  <2>1. SubmitsWith(0)
    BY <1>2 DEF RecordNothing, Submit, SubmitsWith, None
  <2> QED
    BY <1>g, <1>2, <1>n, <2>1
    DEF RecordNothing, gateVars, createVars, TypeInv, TypeOK, Creation
<1>3. CASE RecordWith
  <2>1. feature.handle \in 0 .. MaxFeature
    BY Numbers
  <2>2. SubmitsWith(feature.handle)
    BY <1>3 DEF RecordWith, Submit, SubmitsWith
  <2> QED
    BY <1>g, <1>3, <2>1, <2>2 DEF RecordWith, gateVars, createVars, TypeInv, TypeOK, Creation
<1>4. CASE TexturesFail
  <2>1. SubmitsWith(0)
    BY <1>4 DEF TexturesFail, MakeWay, Submit, SubmitsWith, None
  <2>2. retired' \subseteq [value : 0 .. Infinity, handle : Handles]
    BY <1>4, <1>n, <1>r DEF TexturesFail, MakeWay, TypeInv, TypeOK
  <2>3. options.key \in Keys /\ 0 \in 0 .. MaxFeature
    BY <1>n, Numbers
  <2>4. failed' \in Keys \cup {NoKey} /\ failures' \in [Keys -> Nat]
    BY <1>f, <1>4, <2>3 DEF TexturesFail
  <2>5. creating = None
    BY <1>4 DEF TexturesFail, MakeWay, TypeInv, Creation
  <2>6. feature' = None /\ signaled' \in BOOLEAN /\ late' \in BOOLEAN
    BY <1>4 DEF TexturesFail, MakeWay, createVars, TypeInv, TypeOK
  <2> QED
    BY <1>g, <1>4, <2>1, <2>2, <2>3, <2>4, <2>5, <2>6 DEF TexturesFail, createVars
<1>5. CASE BeginCreate
  <2> PICK h \in {0, issued + 1} :
        /\ h <= MaxFeature
        /\ issued' = (IF h = 0 THEN issued ELSE h)
        /\ creating' = [handle |-> h, key |-> options.key]
        /\ queue' = queue \o <<Create(h), Signal("create", createValue + 1)>>
    BY <1>5 DEF BeginCreate
  <2>1. h \in 0 .. MaxFeature /\ issued' \in 0 .. MaxFeature
    BY <1>n DEF TypeInv, TypeOK
  <2>2. queue' \in Seq(Commands)
    BY <1>n, <2>1, CommandsAre, QueueGrows DEF TypeInv
  <2>3. retired' \subseteq [value : 0 .. Infinity, handle : Handles]
    BY <1>5, <1>n, <1>r DEF BeginCreate, MakeWay, TypeInv, TypeOK
  <2>4. creating' \in [handle : Handles \cup {0}, key : Keys] /\ creating' # None
    <3>1. h \in Handles \cup {0} /\ options.key \in Keys
      BY <1>n, <2>1, Numbers DEF Handles
    <3>2. creating' \in [handle : Handles \cup {0}, key : Keys]
      BY <3>1
    <3>3. DOMAIN creating' = {"handle", "key"} /\ DOMAIN None = {"handle"}
      BY DEF None
    <3> QED
      BY <3>2, <3>3
  <2>5. createValue' \in Nat /\ createDone' \in 0 .. createValue' /\ registered' \subseteq 1 .. createValue'
    BY <1>5, <1>n DEF BeginCreate, createVars, TypeInv, TypeOK
  <2> QED
    BY <1>5, <2>1, <2>2, <2>3, <2>4, <2>5
    DEF BeginCreate, MakeWay, TypeInv, TypeOK, sideVars, createVars, Creation
<1>6. CASE CreateWait
  <2>1. registered' \subseteq 1 .. createValue
    BY <1>6, <1>n DEF CreateWait, TypeInv, TypeOK
  <2> QED
    BY <1>6, <2>1 DEF CreateWait, TypeInv, TypeOK, sideVars, gateVars, Creation
<1>7. CASE CreateEnd
  <2>1. creating.handle \in 0 .. MaxFeature /\ creating.key \in Keys /\ pc # "idle"
    BY <1>7, Numbers DEF CreateEnd, Created, Creation
  <2>2. SubmitsWith(creating.handle)
    BY <1>7, <2>1 DEF CreateEnd, Submit, SubmitsWith
  <2>3. feature' \in Feature \cup {None}
    BY <1>7, <2>1 DEF CreateEnd, TypeInv, TypeOK, Feature, None, Handles
  <2>4. failed' \in Keys \cup {NoKey} /\ failures' \in [Keys -> Nat]
    BY <1>7, <1>f, <2>1 DEF CreateEnd, TypeInv, TypeOK
  <2>5. signaled' \in BOOLEAN
    BY <1>7 DEF CreateEnd, Created, TypeInv, TypeOK
  <2> QED
    BY <1>g, <1>7, <2>1, <2>2, <2>3, <2>4, <2>5 DEF CreateEnd, TypeInv, TypeOK
<1>8. CASE CreateTimedOut
  <2>1. creating.handle \in 0 .. MaxFeature /\ creating.key \in Keys
    BY <1>8, Numbers DEF CreateTimedOut, Creation
  <2>2. SubmitsWith(0)
    BY <1>8 DEF CreateTimedOut, Submit, SubmitsWith, None
  <2>3. retired' \subseteq [value : 0 .. Infinity, handle : Handles]
    BY <1>8, <1>n, <2>1 DEF CreateTimedOut, Late, Handles, TypeInv, TypeOK
  <2>4. failed' \in Keys \cup {NoKey} /\ failures' \in [Keys -> Nat]
    BY <1>f, <1>8, <2>1 DEF CreateTimedOut
  <2>5. feature' \in Feature \cup {None} /\ signaled' \in BOOLEAN /\ late' \in BOOLEAN
    BY <1>8 DEF CreateTimedOut, createVars, TypeInv, TypeOK
  <2>6. 0 \in 0 .. MaxFeature
    BY <1>n
  <2> QED
    BY <1>g, <1>8, <2>2, <2>3, <2>4, <2>5, <2>6 DEF CreateTimedOut, createVars
<1>9. CASE Resize
  <2>1. options' \in [wanted : BOOLEAN, key : Keys]
    BY <1>9 DEF Resize, TypeInv, TypeOK
  <2>2. releaseValue' \in 0 .. MaxFrame /\ releaseDone' \in 0 .. releaseValue'
    BY <1>9, <1>n DEF Resize, TypeInv, TypeOK
  <2>3. released' \subseteq Handles
    BY <1>9 DEF Resize, HandlesOf, Retiring, TypeInv, TypeOK, Feature, None
  <2> QED
    BY <1>9, <2>1, <2>2, <2>3
    DEF Resize, TypeInv, TypeOK, sideVars, createVars, NoFailures, Creation
<1>10. CASE D3D12
  <2>1. queue' \in Seq(Commands) /\ 1 \in Pos /\ Head(queue) = queue[1] /\ queue[1] \in Commands
    BY <1>10, QueueShrinks DEF D3D12, TypeInv
  <2>2. createDone' \in 0 .. createValue /\ registered' \subseteq 1 .. createValue /\ signaled' \in BOOLEAN
    <3>1. CASE UNCHANGED createVars
      BY <3>1 DEF createVars, TypeInv, TypeOK
    <3>2. CASE CreateSignal(queue[1]) /\ Reach(queue[1].value)
      <4>1. queue[1].value = createValue
        BY <3>2, <2>1 DEF CreateInv
      <4>2. createDone' = createValue /\ registered' \subseteq registered
        BY <3>2, <4>1 DEF Reach
      <4>3. signaled' \in BOOLEAN
        BY <3>2 DEF Reach
      <4> QED
        BY <1>n, <4>2, <4>3 DEF TypeInv, TypeOK
    <3> QED
      BY <1>10, <2>1, <3>1, <3>2 DEF D3D12, CreateSignal
  <2>3. releaseDone' \in 0 .. releaseValue
    <3>1. CASE UNCHANGED releaseDone
      BY <3>1 DEF TypeInv, TypeOK
    <3>2. CASE ReleaseSignal(queue[1]) /\ releaseDone' = queue[1].value
      BY <3>2, <1>n, <2>1, CommandsAre DEF AliveInv
    <3> QED
      BY <1>10, <2>1, <3>1, <3>2 DEF D3D12, ReleaseSignal
  <2> QED
    BY <1>10, <2>1, <2>2, <2>3 DEF D3D12, TypeInv, TypeOK, sideVars, gateVars, Creation
<1> QED
  BY <1>a, <1>1, <1>2, <1>3, <1>4, <1>5, <1>6, <1>7, <1>8, <1>9, <1>10 DEF Next, Side

-----------------------------------------------------------------------------
(* Every handle in one place *)

LEMMA Retired ==
    ASSUME NEW rs, NEW use, NEW new, NEW n \in Nat, NEW freed, Place(rs, use, new, n, freed),
           NEW v, NEW h \in {use, new}, h # 0
    PROVE  Place(rs \cup {[value |-> v, handle |-> h]}, 0, 0, n, freed)
<1> DEFINE q == [value |-> v, handle |-> h]
           qs == rs \cup {q}
<1>1. q.handle = h /\ h \in 1 .. n \ freed /\ \A r \in rs : r.handle # h
  BY DEF Place
<1> HIDE DEF q
<1>2. \A r \in rs : r.handle \in 1 .. n /\ r.handle # 0 /\ r.handle \notin freed
  BY DEF Place
<1>3. \A r \in qs : r.handle \in 1 .. n \ ({0, 0} \cup freed)
  BY <1>1, <1>2
<1>4. \A r, s \in qs : r.handle = s.handle => r = s
  BY <1>1 DEF Place
<1>5. {0, 0} \subseteq 0 .. n /\ freed \subseteq 1 .. n /\ 0 \notin freed
  BY DEF Place
<1>6. ASSUME NEW k \in 1 .. n PROVE (\E r \in qs : r.handle = k) \/ k \in {0, 0} \cup freed
  <2>1. {use, new} \subseteq {0, h}
    BY DEF Place
  <2>2. (\E r \in rs : r.handle = k) \/ k = h \/ k \in freed
    BY <2>1 DEF Place
  <2> QED
    BY <1>1, <2>2
<1>7. Place(qs, 0, 0, n, freed)
  BY <1>3, <1>4, <1>5, <1>6 DEF Place
<1> QED
  BY <1>7 DEF q

LEMMA Freed ==
    ASSUME NEW rs, NEW use, NEW new, NEW n \in Nat, NEW freed, Place(rs, use, new, n, freed),
           NEW cs \in SUBSET rs
    PROVE  Place(rs \ cs, use, new, n, freed \cup HandlesOf(cs))
<1>1. \A h : h \in HandlesOf(cs) <=> \E r \in cs : r.handle = h
  BY DEF HandlesOf
<1>2. \A r \in rs \ cs : r.handle \in 1 .. n \ ({use, new} \cup (freed \cup HandlesOf(cs)))
  <2> TAKE r \in rs \ cs
  <2>1. r.handle \in 1 .. n \ ({use, new} \cup freed)
    BY DEF Place
  <2>2. \A q \in cs : q.handle # r.handle
    BY DEF Place
  <2> QED
    BY <1>1, <2>1, <2>2
<1>3. freed \cup HandlesOf(cs) \subseteq 1 .. n
  <2>1. \A r \in cs : r.handle \in 1 .. n
    BY DEF Place
  <2>2. freed \subseteq 1 .. n
    BY DEF Place
  <2> QED
    BY <1>1, <2>1, <2>2
<1>4. use \notin HandlesOf(cs) /\ new \notin HandlesOf(cs)
  BY <1>1 DEF Place
<1>5. ASSUME NEW h \in 1 .. n
      PROVE  \/ \E r \in rs \ cs : r.handle = h
             \/ h \in {use, new} \cup (freed \cup HandlesOf(cs))
  BY <1>1 DEF Place
<1> QED
  BY <1>2, <1>3, <1>4, <1>5 DEF Place

LEMMA Issued ==
    ASSUME NEW rs, NEW n \in Nat, NEW freed, Place(rs, 0, 0, n, freed)
    PROVE  Place(rs, 0, n + 1, n + 1, freed)
<1>1. /\ 1 .. n \subseteq 1 .. n + 1 /\ n + 1 \notin 1 .. n /\ n + 1 \in 0 .. n + 1
      /\ 0 \in 0 .. n + 1 /\ \A h \in 1 .. n + 1 : h \in 1 .. n \/ h = n + 1
  OBVIOUS
<1> QED
  BY <1>1 DEF Place

LEMMA Taken ==
    ASSUME NEW rs, NEW new, NEW n \in Nat, NEW freed, Place(rs, 0, new, n, freed)
    PROVE  Place(rs, new, 0, n, freed)
  BY DEF Place

\* Retiring takes the feature out of use, if there is one.
LEMMA RetiringPlaces ==
    ASSUME TypeInv, PlaceInv, creating.handle = 0, NEW v
    PROVE  Place(retired \cup Retiring(v), 0, 0, issued, released)
<1>1. CASE feature = None
  <2>1. feature.handle = 0 /\ retired \cup Retiring(v) = retired
    BY <1>1 DEF Retiring, None
  <2> QED
    BY <2>1 DEF PlaceInv
<1>2. CASE feature # None
  <2>1. feature.handle # 0 /\ issued \in Nat
    BY <1>2, Numbers
  <2>2. Retiring(v) = {[value |-> v, handle |-> feature.handle]}
    BY <1>2 DEF Retiring
  <2> QED
    BY <2>1, <2>2, Retired DEF PlaceInv
<1> QED
  BY <1>1, <1>2

LEMMA PlaceStep ==
    ASSUME IInv, Next PROVE PlaceInv'
<1> USE DEF IInv
<1>n. issued \in Nat /\ None.handle = 0
  BY Numbers DEF None
<1>u. ASSUME UNCHANGED <<feature, creating, retired, issued, released>> PROVE PlaceInv'
  BY <1>u DEF PlaceInv
<1>i. pc \notin {"creating", "waiting"} => creating = None
  BY DEF TypeInv, Creation
<1>w. ASSUME Creation PROVE feature.handle = 0 /\ Place(retired, 0, creating.handle, issued, released)
  BY <1>w, <1>n DEF TypeInv, PlaceInv
<1>a. CASE Side
  BY <1>a, <1>u, SideActs DEF Quiet
<1>1. CASE PresentBegin
  <2> DEFINE C == Collectable(releaseDone)
             D == IF releaseRequested THEN Retiring(releaseValue + 1) ELSE {}
             f == IF releaseRequested THEN 0 ELSE feature.handle
  <2>1. creating = None /\ creating' = None
    BY <1>1, <1>i DEF PresentBegin
  <2>2. Place(retired \cup D, f, 0, issued, released)
    BY <2>1, <1>n, RetiringPlaces DEF PlaceInv
  <2>3. C \in SUBSET (retired \cup D)
    BY DEF Collectable
  <2>4. ASSUME NEW r \in D PROVE r \notin C
    <3>1. r.handle = feature.handle /\ feature # None
      BY <2>4 DEF Retiring
    <3> QED
      BY <3>1 DEF Collectable, PlaceInv, Place
  <2>5. (retired \cup D) \ C = (retired \ C) \cup D
    BY <2>4
  <2>6. Place((retired \ C) \cup D, f, 0, issued, released \cup HandlesOf(C))
    <3>1. Place((retired \cup D) \ C, f, 0, issued, released \cup HandlesOf(C))
      BY <1>n, <2>2, <2>3, Freed
    <3> QED
      BY <2>5, <3>1
  <2>7. feature'.handle = f /\ creating'.handle = 0
    BY <1>1, <1>n, <2>1 DEF PresentBegin
  <2>8. retired' = (retired \ C) \cup D /\ released' = released \cup HandlesOf(C) /\ issued' = issued
    BY <1>1 DEF PresentBegin
  <2> QED
    BY <2>6, <2>7, <2>8 DEF PlaceInv
<1>2. CASE RecordNothing \/ RecordWith \/ CreateWait \/ D3D12
  BY <1>2, <1>u DEF RecordNothing, RecordWith, CreateWait, D3D12
<1>3. CASE MakeWay /\ UNCHANGED <<creating, issued, released>>
  BY <1>3, <1>i, <1>n, RetiringPlaces DEF MakeWay, PlaceInv
<1>4. CASE TexturesFail
  BY <1>4, <1>3 DEF TexturesFail
<1>5. CASE BeginCreate
  <2> PICK h \in {0, issued + 1} : /\ issued' = (IF h = 0 THEN issued ELSE h)
                                   /\ creating' = [handle |-> h, key |-> options.key]
    BY <1>5 DEF BeginCreate
  <2>1. Place(retired', 0, 0, issued, released)
    BY <1>5, <1>i, <1>n, RetiringPlaces DEF BeginCreate, MakeWay
  <2>2. feature'.handle = 0 /\ creating'.handle = h /\ released' = released
    BY <1>5, <1>n DEF BeginCreate, MakeWay
  <2>3. CASE h = 0
    BY <2>1, <2>2, <2>3 DEF PlaceInv
  <2>4. CASE h = issued + 1
    <3>1. Place(retired', 0, issued + 1, issued + 1, released)
      BY <1>n, <2>1, Issued
    <3>2. issued' = issued + 1
      BY <1>n, <2>4
    <3> QED
      BY <2>2, <2>4, <3>1, <3>2 DEF PlaceInv
  <2> QED
    BY <2>3, <2>4
<1>6. CASE CreateEnd
  <2>1. /\ Creation /\ creating'.handle = 0
        /\ feature' = (IF creating.handle = 0 THEN feature ELSE creating)
        /\ UNCHANGED <<retired, issued, released>>
    BY <1>6, <1>n DEF CreateEnd, Created, Creation
  <2>2. feature'.handle = creating.handle
    BY <1>w, <2>1
  <2>3. Place(retired, creating.handle, 0, issued, released)
    BY <1>n, <1>w, <2>1, Taken
  <2> QED
    BY <2>1, <2>2, <2>3 DEF PlaceInv
<1>7. CASE CreateTimedOut
  <2>1. /\ Creation /\ creating'.handle = 0 /\ retired' = retired \cup Late
        /\ UNCHANGED <<feature, issued, released>>
    BY <1>7, <1>n DEF CreateTimedOut, Creation
  <2>2. CASE creating.handle = 0
    <3>1. retired' = retired
      BY <2>1, <2>2 DEF Late
    <3> QED
      BY <1>w, <2>1, <2>2, <3>1 DEF PlaceInv
  <2>3. CASE creating.handle # 0
    <3>1. Late = {[value |-> Infinity, handle |-> creating.handle]}
      BY <2>3 DEF Late
    <3>2. Place(retired', 0, 0, issued, released)
      BY <1>n, <1>w, <2>1, <2>3, <3>1, Retired
    <3> QED
      BY <1>w, <2>1, <3>2 DEF PlaceInv
  <2> QED
    BY <2>2, <2>3
<1>8. CASE Resize
  <2> DEFINE R == retired \cup Retiring(0)
  <2>1. Place(R, 0, 0, issued, released) /\ creating = None
    BY <1>8, <1>i, <1>n, RetiringPlaces DEF Resize
  <2>2. Place(R \ R, 0, 0, issued, released \cup HandlesOf(R)) /\ R \ R = {}
    BY <1>n, <2>1, Freed
  <2>3. /\ retired' = {} /\ released' = released \cup HandlesOf(R) /\ issued' = issued
        /\ feature'.handle = 0 /\ creating'.handle = 0
    BY <1>8, <1>n, <2>1 DEF Resize
  <2> QED
    BY <2>2, <2>3 DEF PlaceInv
<1> QED
  BY <1>a, <1>1, <1>2, <1>4, <1>5, <1>6, <1>7, <1>8 DEF Next, Side

-----------------------------------------------------------------------------
(* No command uses what was freed *)

LEMMA AliveGrows ==
    ASSUME TypeInv, AliveInv, NEW a \in Commands, NEW b \in Commands,
           queue' = queue \o <<a, b>>, UNCHANGED <<released, releaseDone>>,
           issued' \in Nat, issued <= issued',
           releaseValue' \in Nat, releaseValue <= releaseValue',
           Uses(a), a.handle \notin released, a.handle <= issued', ~ReleaseSignal(a),
           ~Uses(b), ReleaseSignal(b) => b.value <= releaseValue',
           \A r \in retired' : /\ r.handle # a.handle
                               /\ \/ r \in retired
                                  \/ r.value \in Nat /\ releaseValue < r.value
    PROVE  AliveInv'
<1> DEFINE n == Len(queue)
<1>q. /\ n \in Nat
      /\ \A i \in Pos : i \in Pos' /\ queue'[i] = queue[i] /\ i < n + 1
      /\ n + 1 \in Pos' /\ queue'[n + 1] = a
      /\ n + 2 \in Pos' /\ queue'[n + 2] = b
      /\ \A i \in Pos' : i \in Pos \/ i = n + 1 \/ i = n + 2
  BY QueueGrows DEF TypeInv
<1>n. /\ issued \in Nat /\ releaseValue \in Nat /\ releaseDone \in Nat
      /\ releaseDone <= releaseValue /\ \A r \in retired : r.value \in Nat
      /\ \A i \in Pos : queue[i] \in Commands
  BY Numbers
<1> HIDE DEF n
<1>p. \A i \in Pos : i \in Nat /\ ~(n + 1 < i) /\ ~(n + 2 < i)
  <2>1. \A i \in Pos : i \in Nat /\ i < n + 1
    BY <1>q DEF Pos
  <2> QED
    BY <1>q, <2>1
<1>1. ASSUME NEW i \in Pos', Uses(queue'[i])
      PROVE  queue'[i].handle \notin released' /\ queue'[i].handle <= issued'
  <2>1. CASE i \in Pos
    <3>1. /\ queue[i].handle \notin released /\ queue[i].handle <= issued
          /\ queue[i].handle \in 0 .. MaxFeature /\ MaxFeature \in Nat
      BY <1>1, <1>n, <1>q, <2>1, CommandsAre, Numbers DEF AliveInv
    <3>2. queue[i].handle <= issued'
      BY <1>n, <3>1
    <3> QED
      BY <1>q, <2>1, <3>1, <3>2
  <2>2. CASE i = n + 1
    BY <1>q, <2>2
  <2> QED
    BY <1>1, <1>q, <2>1, <2>2
<1>2. ASSUME NEW i \in Pos', NEW r \in retired', Uses(queue'[i]), queue'[i].handle = r.handle
      PROVE  /\ releaseDone' < r.value
             /\ \A j \in Pos' : j < i /\ ReleaseSignal(queue'[j]) => queue'[j].value < r.value
  <2>1. i \in Pos /\ queue'[i] = queue[i]
    BY <1>2, <1>q
  <2>2. ASSUME NEW j \in Pos', j < i PROVE j \in Pos /\ queue'[j] = queue[j]
    BY <1>q, <1>p, <2>1, <2>2
  <2>3. CASE r \in retired
    BY <1>2, <2>1, <2>2, <2>3 DEF AliveInv
  <2>4. CASE r.value \in Nat /\ releaseValue < r.value
    <3>1. ASSUME NEW j \in Pos, ReleaseSignal(queue[j]) PROVE queue[j].value < r.value
      <4>1. queue[j].value \in Nat /\ queue[j].value <= releaseValue
        BY <1>n, <3>1, CommandsAre DEF AliveInv
      <4> QED
        BY <1>n, <2>4, <4>1
    <3>2. releaseDone' < r.value
      BY <1>n, <2>4
    <3> QED
      BY <2>2, <3>1, <3>2
  <2> QED
    BY <1>2, <2>3, <2>4
<1>3. ASSUME NEW j \in Pos', ReleaseSignal(queue'[j]) PROVE queue'[j].value <= releaseValue'
  <2>1. CASE j \in Pos
    <3>1. queue[j].value \in Nat /\ queue[j].value <= releaseValue
      BY <1>3, <1>n, <1>q, <2>1, CommandsAre DEF AliveInv
    <3>2. queue[j].value <= releaseValue'
      BY <1>n, <3>1
    <3> QED
      BY <1>q, <2>1, <3>2
  <2> QED
    BY <1>3, <1>q, <2>1
<1> QED
  BY <1>1, <1>2, <1>3 DEF AliveInv

\* A frame's list uses a handle that is in no retired feature, or none.
LEMMA AliveFramed ==
    ASSUME TypeInv, AliveInv, NEW h \in 0 .. issued, SubmitsWith(h), h \notin released,
           UNCHANGED <<released, releaseDone, issued>>,
           \A r \in retired' : /\ r.handle # h
                               /\ \/ r \in retired
                                  \/ r.value \in Nat /\ releaseValue < r.value
    PROVE  AliveInv'
<1>n. /\ issued \in Nat /\ issued <= MaxFeature /\ MaxFeature \in Nat
      /\ releaseValue \in Nat
  BY Numbers
<1>1. h \in 0 .. MaxFeature /\ h <= issued /\ issued <= issued
  BY <1>n
<1>2. /\ releaseValue + 1 \in Nat /\ releaseValue <= releaseValue + 1
      /\ releaseValue + 1 <= releaseValue + 1
  BY <1>n
<1> DEFINE a == Frame(h)
           b == Signal("release", releaseValue + 1)
<1>3. /\ a \in Commands /\ a.handle = h /\ Uses(a) /\ ~ReleaseSignal(a)
      /\ b \in Commands /\ b.value = releaseValue + 1 /\ ~Uses(b)
  BY <1>1, <1>2, CommandsAre
<1>4. queue' = queue \o <<a, b>> /\ releaseValue' = releaseValue + 1
  BY DEF SubmitsWith
<1> HIDE DEF a, b
<1> QED
  BY <1>n, <1>1, <1>2, <1>3, <1>4, AliveGrows

LEMMA AliveStep ==
    ASSUME IInv, Next PROVE AliveInv'
<1> USE DEF IInv
<1>n. /\ issued \in Nat /\ None.handle = 0 /\ releaseValue \in Nat /\ releaseDone \in Nat
      /\ releaseDone <= releaseValue /\ MaxFeature \in Nat /\ MaxFrame \in Nat
      /\ releaseValue <= MaxFrame /\ Infinity = MaxFrame + 1
  BY Numbers DEF None
<1>p. PlaceInv'
  BY PlaceStep
<1>z. /\ 0 \in 0 .. issued /\ 0 \notin released /\ \A r \in retired : r.handle # 0
      /\ releaseValue < releaseValue + 1 /\ releaseValue + 1 \in Nat
      /\ releaseValue < Infinity /\ Infinity \in Nat
  BY <1>n DEF PlaceInv, Place
<1>u. ASSUME UNCHANGED <<retired, released, issued, queue, releaseDone, releaseValue>>
      PROVE  AliveInv'
  BY <1>u DEF AliveInv, Pos
<1>r. \A r \in Retiring(releaseValue + 1) : r.handle # 0 /\ r.value = releaseValue + 1
  BY Numbers DEF Retiring
<1>a. CASE Side
  BY <1>a, <1>u, SideActs DEF Quiet
<1>1. CASE PresentBegin
  <2>1. /\ UNCHANGED <<queue, issued, releaseDone, releaseValue>>
        /\ released' = released \cup HandlesOf(Collectable(releaseDone))
        /\ \A r \in retired' : r \in retired \/ r.value = releaseValue + 1
    BY <1>1, <1>r DEF PresentBegin
  <2>2. ASSUME NEW i \in Pos, Uses(queue[i]) PROVE queue[i].handle \notin released'
    <3>1. ASSUME NEW r \in Collectable(releaseDone) PROVE r.handle # queue[i].handle
      <4>1. r \in retired /\ r.value <= releaseDone /\ r.value \in Nat
        BY Numbers DEF Collectable
      <4>2. r.handle = queue[i].handle => releaseDone < r.value
        BY <2>2, <4>1 DEF AliveInv
      <4> QED
        BY <1>n, <4>1, <4>2
    <3> QED
      BY <2>1, <2>2, <3>1 DEF AliveInv, HandlesOf
  <2>3. ASSUME NEW r \in retired', r.value = releaseValue + 1
        PROVE  /\ releaseDone < r.value
               /\ \A j \in Pos : ReleaseSignal(queue[j]) => queue[j].value < r.value
    <3>1. ASSUME NEW j \in Pos, ReleaseSignal(queue[j])
          PROVE  queue[j].value \in Nat /\ queue[j].value <= releaseValue
      BY <3>1, Numbers, CommandsAre DEF AliveInv
    <3> QED
      BY <1>n, <2>3, <3>1
  <2> QED
    BY <2>1, <2>2, <2>3 DEF AliveInv, Pos
<1>2. CASE RecordNothing
  BY <1>2, <1>n, <1>z, AliveFramed DEF RecordNothing, Submit, SubmitsWith
<1>3. CASE RecordWith
  <2>1. /\ feature.handle \in 0 .. issued /\ feature.handle \notin released
        /\ \A r \in retired : r.handle # feature.handle
    BY DEF PlaceInv, Place
  <2>2. SubmitsWith(feature.handle) /\ UNCHANGED <<released, releaseDone, issued, retired>>
    BY <1>3 DEF RecordWith, Submit, SubmitsWith
  <2> QED
    BY <2>1, <2>2, AliveFramed
<1>4. CASE TexturesFail
  <2>1. SubmitsWith(0) /\ UNCHANGED <<released, releaseDone, issued>>
    BY <1>4, <1>n DEF TexturesFail, MakeWay, Submit, SubmitsWith
  <2>2. \A r \in retired' : r \in retired \/ r \in Retiring(releaseValue + 1)
    BY <1>4 DEF TexturesFail, MakeWay
  <2> QED
    BY <1>r, <1>z, <2>1, <2>2, AliveFramed
<1>5. CASE BeginCreate
  <2> PICK h \in {0, issued + 1} :
        /\ h <= MaxFeature
        /\ issued' = (IF h = 0 THEN issued ELSE h)
        /\ creating' = [handle |-> h, key |-> options.key]
        /\ queue' = queue \o <<Create(h), Signal("create", createValue + 1)>>
    BY <1>5 DEF BeginCreate
  <2> DEFINE a == Create(h)
             b == Signal("create", createValue + 1)
  <2>1. h \in 0 .. MaxFeature /\ issued' \in Nat /\ issued <= issued' /\ h <= issued'
    BY <1>n
  <2>2. /\ a \in Commands /\ a.handle = h /\ Uses(a) /\ ~ReleaseSignal(a)
        /\ b \in Commands /\ ~Uses(b) /\ ~ReleaseSignal(b)
    <3>1. createValue + 1 \in Nat
      BY Numbers
    <3> QED
      BY <2>1, <3>1, CommandsAre
  <2>3. queue' = queue \o <<a, b>> /\ UNCHANGED <<released, releaseDone, releaseValue>>
    BY <1>5 DEF BeginCreate
  <2> HIDE DEF a, b
  <2>4. h \notin released /\ \A r \in retired' : r.handle # h
    <3>1. creating'.handle = h /\ released' = released
      BY <2>3
    <3> QED
      BY <1>p, <3>1 DEF PlaceInv, Place
  <2>5. \A r \in retired' : \/ r \in retired
                            \/ r.value \in Nat /\ releaseValue < r.value
    <3>1. \A r \in retired' : r \in retired \/ r \in Retiring(releaseValue + 1)
      BY <1>5 DEF BeginCreate, MakeWay
    <3>2. \A r \in Retiring(releaseValue + 1) : r.value \in Nat /\ releaseValue < r.value
      BY <1>n, <1>r
    <3> QED
      BY <3>1, <3>2
  <2>6. releaseValue' \in Nat /\ releaseValue <= releaseValue'
    BY <1>n, <2>3
  <2> QED
    BY <2>1, <2>2, <2>3, <2>4, <2>5, <2>6, AliveGrows
<1>6. CASE CreateWait
  BY <1>6, <1>u DEF CreateWait
<1>7. CASE CreateEnd
  <2>1. /\ creating.handle \in 0 .. issued /\ creating.handle \notin released
        /\ \A r \in retired : r.handle # creating.handle
    BY DEF PlaceInv, Place
  <2>2. SubmitsWith(creating.handle) /\ UNCHANGED <<released, releaseDone, issued, retired>>
    BY <1>7 DEF CreateEnd, Created, Submit, SubmitsWith
  <2> QED
    BY <2>1, <2>2, AliveFramed
<1>8. CASE CreateTimedOut
  <2>1. SubmitsWith(0) /\ UNCHANGED <<released, releaseDone, issued>>
    BY <1>8, <1>n DEF CreateTimedOut, Submit, SubmitsWith
  <2>2. \A r \in retired' : r \in retired \/ (r.handle # 0 /\ r.value = Infinity)
    BY <1>8 DEF CreateTimedOut, Late
  <2> QED
    BY <1>z, <2>1, <2>2, AliveFramed
<1>9. CASE Resize
  <2>1. Pos' = {}
    BY <1>9 DEF Resize, Pos
  <2> QED
    BY <2>1 DEF AliveInv
<1>10. CASE D3D12
  <2>0. UNCHANGED <<retired, released, issued, releaseValue>>
    BY <1>10 DEF D3D12
  <2>1. /\ 1 \in Pos /\ queue[1] \in Commands
        /\ \A i \in Pos' : /\ i \in Nat /\ i + 1 \in Pos /\ 1 < i + 1
                           /\ queue'[i] = queue[i + 1]
    BY <1>10, QueueShrinks DEF D3D12, TypeInv
  <2>2. \/ releaseDone' = releaseDone
        \/ ReleaseSignal(queue[1]) /\ releaseDone' = queue[1].value
    BY <1>10, QueueShrinks DEF D3D12, TypeInv, ReleaseSignal
  <2>3. ASSUME NEW i \in Pos', NEW r \in retired, Uses(queue'[i]), queue'[i].handle = r.handle
        PROVE  /\ releaseDone' < r.value
               /\ \A j \in Pos' : j < i /\ ReleaseSignal(queue'[j]) => queue'[j].value < r.value
    <3>1. i + 1 \in Pos /\ 1 < i + 1 /\ Uses(queue[i + 1]) /\ queue[i + 1].handle = r.handle
      BY <2>1, <2>3
    <3>2. releaseDone < r.value
      BY <3>1 DEF AliveInv
    <3>3. \A j \in Pos : j < i + 1 /\ ReleaseSignal(queue[j]) => queue[j].value < r.value
      BY <3>1 DEF AliveInv
    <3>4. releaseDone' < r.value
      BY <2>1, <2>2, <3>1, <3>2, <3>3
    <3>5. ASSUME NEW j \in Pos', j < i, ReleaseSignal(queue'[j]) PROVE queue'[j].value < r.value
      <4>1. j + 1 \in Pos /\ j + 1 < i + 1 /\ queue'[j] = queue[j + 1]
        BY <2>1, <3>5
      <4> QED
        BY <3>3, <3>5, <4>1
    <3> QED
      BY <3>4, <3>5
  <2>4. \A i \in Pos' : Uses(queue'[i]) => /\ queue'[i].handle \notin released
                                           /\ queue'[i].handle <= issued
    BY <2>1 DEF AliveInv
  <2>5. \A j \in Pos' : ReleaseSignal(queue'[j]) => queue'[j].value <= releaseValue
    BY <2>1 DEF AliveInv
  <2> QED
    BY <2>0, <2>3, <2>4, <2>5 DEF AliveInv
<1> QED
  BY <1>a, <1>1, <1>2, <1>3, <1>4, <1>5, <1>6, <1>7, <1>8, <1>9, <1>10 DEF Next, Side

-----------------------------------------------------------------------------
(* Creations are one at a time *)

\* The queue after a frame's list: neither command of it is a creation's.
LEMMA Framed ==
    ASSUME TypeInv, NEW h \in 0 .. MaxFeature, SubmitsWith(h)
    PROVE  /\ \A i \in Pos : i \in Pos' /\ queue'[i] = queue[i]
           /\ \A i \in Pos' : Creates(queue'[i]) \/ CreateSignal(queue'[i])
                                => i \in Pos /\ queue'[i] = queue[i]
<1> DEFINE a == Frame(h)
           b == Signal("release", releaseValue + 1)
<1>1. releaseValue + 1 \in Nat
  BY Numbers
<1>2. /\ a \in Commands /\ ~Creates(a) /\ ~CreateSignal(a)
      /\ b \in Commands /\ ~Creates(b) /\ ~CreateSignal(b)
  BY <1>1, CommandsAre
<1>3. queue' = queue \o <<a, b>>
  BY DEF SubmitsWith
<1> HIDE DEF a, b
<1>4. /\ \A i \in Pos : i \in Pos' /\ queue'[i] = queue[i]
      /\ queue'[Len(queue) + 1] = a /\ queue'[Len(queue) + 2] = b
      /\ \A i \in Pos' : i \in Pos \/ i = Len(queue) + 1 \/ i = Len(queue) + 2
  BY <1>2, <1>3, QueueGrows DEF TypeInv
<1> QED
  BY <1>2, <1>4

LEMMA CreateFramed ==
    ASSUME TypeInv, CreateInv, NEW h \in 0 .. MaxFeature, SubmitsWith(h),
           UNCHANGED <<createValue, createDone>>
    PROVE  CreateInv'
<1>1. /\ \A i \in Pos : i \in Pos' /\ queue'[i] = queue[i]
      /\ \A i \in Pos' : Creates(queue'[i]) \/ CreateSignal(queue'[i])
                           => i \in Pos /\ queue'[i] = queue[i]
  BY Framed
<1>2. \A i, j \in Pos' : Creates(queue'[i]) /\ Creates(queue'[j]) => i = j
  BY <1>1 DEF CreateInv
<1>3. \A i, j \in Pos' : CreateSignal(queue'[i]) /\ CreateSignal(queue'[j]) => i = j
  BY <1>1 DEF CreateInv
<1>4. \A j \in Pos' : CreateSignal(queue'[j]) => queue'[j].value = createValue /\ createDone < createValue
  BY <1>1 DEF CreateInv
<1>5. \A i \in Pos' : Creates(queue'[i]) => \E j \in Pos' : i < j /\ CreateSignal(queue'[j])
  BY <1>1 DEF CreateInv
<1> QED
  BY <1>2, <1>3, <1>4, <1>5 DEF CreateInv

\* The gate opens only on a queue without a creation.
LEMMA GateOpens ==
    ASSUME TypeInv, CreateInv, createDone >= createValue
    PROVE  \A i \in Pos : ~Creates(queue[i]) /\ ~CreateSignal(queue[i])
<1>1. ~(createDone < createValue)
  BY Numbers
<1> QED
  BY <1>1 DEF CreateInv

\* What a creation puts into the queue, and what was there before.
LEMMA Begun ==
    ASSUME IInv, BeginCreate
    PROVE  \E h \in 0 .. MaxFeature, m \in Nat, c, d \in Commands :
             /\ h = 0 \/ issued < h
             /\ creating' = [handle |-> h, key |-> options.key]
             /\ m \in Pos' /\ m + 1 \in Pos'
             /\ queue'[m] = c /\ Creates(c) /\ c.handle = h /\ ~CreateSignal(c)
             /\ queue'[m + 1] = d /\ ~Creates(d) /\ ~Uses(d) /\ CreateSignal(d)
             /\ d.value = createValue'
             /\ \A i \in Pos : ~Creates(queue[i]) /\ ~CreateSignal(queue[i])
             /\ \A i \in Pos' : (i \in Pos /\ queue'[i] = queue[i]) \/ i = m \/ i = m + 1
<1> USE DEF IInv
<1> PICK h \in {0, issued + 1} :
      /\ h <= MaxFeature
      /\ creating' = [handle |-> h, key |-> options.key]
      /\ queue' = queue \o <<Create(h), Signal("create", createValue + 1)>>
  BY DEF BeginCreate
<1> DEFINE c == Create(h)
           d == Signal("create", createValue + 1)
           m == Len(queue) + 1
<1>0. createValue' = createValue + 1 /\ createValue + 1 \in Nat
  <2>1. createValue \in Nat
    BY Numbers
  <2> QED
    BY <2>1 DEF BeginCreate
<1>1. h \in 0 .. MaxFeature /\ (h = 0 \/ issued < h)
  <2>1. issued \in Nat /\ MaxFeature \in Nat
    BY Numbers
  <2> QED
    BY <2>1
<1>2. /\ c \in Commands /\ Creates(c) /\ c.handle = h /\ ~CreateSignal(c)
      /\ d \in Commands /\ ~Creates(d) /\ ~Uses(d) /\ CreateSignal(d)
      /\ d.value = createValue'
  BY <1>0, <1>1, CommandsAre
<1>3. queue' = queue \o <<c, d>> /\ creating' = [handle |-> h, key |-> options.key]
  OBVIOUS
<1>4. \A i \in Pos : ~Creates(queue[i]) /\ ~CreateSignal(queue[i])
  BY GateOpens DEF BeginCreate, MakeWay, MayCreate
<1> HIDE DEF c, d
<1>5. /\ Len(queue) \in Nat
      /\ \A i \in Pos : i \in Pos' /\ queue'[i] = queue[i]
      /\ Len(queue) + 1 \in Pos' /\ queue'[Len(queue) + 1] = c
      /\ Len(queue) + 2 \in Pos' /\ queue'[Len(queue) + 2] = d
      /\ \A i \in Pos' : i \in Pos \/ i = Len(queue) + 1 \/ i = Len(queue) + 2
  BY <1>2, <1>3, QueueGrows DEF TypeInv
<1>6. m \in Nat /\ m = Len(queue) + 1 /\ m + 1 = Len(queue) + 2
  BY <1>5
<1> HIDE DEF m
<1>7. /\ m \in Pos' /\ queue'[m] = c /\ m + 1 \in Pos' /\ queue'[m + 1] = d
      /\ \A i \in Pos' : (i \in Pos /\ queue'[i] = queue[i]) \/ i = m \/ i = m + 1
  BY <1>5, <1>6
<1> QED
  BY <1>1, <1>2, <1>3, <1>4, <1>6, <1>7

LEMMA CreateStep ==
    ASSUME IInv, Next PROVE CreateInv'
<1> USE DEF IInv
<1>u. ASSUME UNCHANGED <<queue, createValue, createDone>> PROVE CreateInv'
  BY <1>u DEF CreateInv, Pos
<1>n. /\ 0 \in 0 .. MaxFeature /\ feature.handle \in 0 .. MaxFeature
      /\ creating.handle \in 0 .. MaxFeature /\ None.handle = 0
  BY Numbers DEF None
<1>a. CASE Side
  BY <1>a, <1>u, SideActs DEF Quiet, gateVars, createVars
<1>1. CASE PresentBegin \/ CreateWait
  BY <1>1, <1>u DEF PresentBegin, CreateWait, gateVars, createVars
<1>2. CASE RecordNothing
  BY <1>2, <1>n, CreateFramed DEF RecordNothing, Submit, SubmitsWith, gateVars, createVars
<1>3. CASE RecordWith
  BY <1>3, <1>n, CreateFramed DEF RecordWith, Submit, SubmitsWith, gateVars, createVars
<1>4. CASE TexturesFail
  BY <1>4, <1>n, CreateFramed DEF TexturesFail, MakeWay, Submit, SubmitsWith, createVars
<1>5. CASE CreateEnd
  BY <1>5, <1>n, CreateFramed DEF CreateEnd, Created, Submit, SubmitsWith
<1>6. CASE CreateTimedOut
  BY <1>6, <1>n, CreateFramed DEF CreateTimedOut, Submit, SubmitsWith, createVars
<1>7. CASE BeginCreate
  <2> PICK h \in 0 .. MaxFeature, m \in Nat, c \in Commands, d \in Commands :
        /\ m \in Pos' /\ m + 1 \in Pos'
        /\ queue'[m] = c /\ Creates(c) /\ ~CreateSignal(c)
        /\ queue'[m + 1] = d /\ ~Creates(d) /\ CreateSignal(d)
        /\ d.value = createValue'
        /\ \A i \in Pos : ~Creates(queue[i]) /\ ~CreateSignal(queue[i])
        /\ \A i \in Pos' : (i \in Pos /\ queue'[i] = queue[i]) \/ i = m \/ i = m + 1
    BY <1>7, Begun
  <2>1. \A i \in Pos' : (Creates(queue'[i]) => i = m) /\ (CreateSignal(queue'[i]) => i = m + 1)
    OBVIOUS
  <2>2. createDone' < createValue' /\ m < m + 1
    <3>1. createDone \in Nat /\ createValue \in Nat /\ createDone <= createValue
      BY Numbers
    <3>2. createDone' = createDone /\ createValue' = createValue + 1
      BY <1>7 DEF BeginCreate, createVars
    <3> QED
      BY <3>1, <3>2
  <2>3. \A i, j \in Pos' : Creates(queue'[i]) /\ Creates(queue'[j]) => i = j
    BY <2>1
  <2>4. \A i, j \in Pos' : CreateSignal(queue'[i]) /\ CreateSignal(queue'[j]) => i = j
    BY <2>1
  <2>5. \A j \in Pos' : CreateSignal(queue'[j]) =>
           queue'[j].value = createValue' /\ createDone' < createValue'
    BY <2>1, <2>2
  <2>6. \A i \in Pos' : Creates(queue'[i]) => \E j \in Pos' : i < j /\ CreateSignal(queue'[j])
    BY <2>1, <2>2
  <2> QED
    BY <2>3, <2>4, <2>5, <2>6 DEF CreateInv
<1>8. CASE Resize
  <2>1. Pos' = {}
    BY <1>8 DEF Resize, Pos
  <2> QED
    BY <2>1 DEF CreateInv
<1>9. CASE D3D12
  <2>1. /\ createValue' = createValue /\ 1 \in Pos
        /\ \A i \in Pos' : i \in Nat /\ i + 1 \in Pos /\ 1 < i + 1 /\ queue'[i] = queue[i + 1]
        /\ \A i \in Pos : i = 1 \/ (i - 1 \in Pos' /\ queue'[i - 1] = queue[i])
    BY <1>9, QueueShrinks DEF D3D12, TypeInv, gateVars
  <2>2. createDone' = createDone \/ CreateSignal(queue[1])
    BY <1>9, QueueShrinks DEF D3D12, TypeInv, CreateSignal, createVars
  <2>3. ASSUME NEW i \in Pos', NEW j \in Pos', Creates(queue'[i]), Creates(queue'[j]) PROVE i = j
    <3>1. i + 1 = j + 1
      BY <2>1, <2>3 DEF CreateInv
    <3> QED
      BY <2>1, <3>1
  <2>4. ASSUME NEW i \in Pos', NEW j \in Pos', CreateSignal(queue'[i]), CreateSignal(queue'[j])
        PROVE  i = j
    <3>1. i + 1 = j + 1
      BY <2>1, <2>4 DEF CreateInv
    <3> QED
      BY <2>1, <3>1
  <2>5. ASSUME NEW j \in Pos', CreateSignal(queue'[j])
        PROVE  queue'[j].value = createValue /\ createDone' < createValue
    <3>1. j + 1 \in Pos /\ j + 1 # 1 /\ CreateSignal(queue[j + 1]) /\ queue'[j] = queue[j + 1]
      BY <2>1, <2>5
    <3>2. ~CreateSignal(queue[1])
      BY <2>1, <3>1 DEF CreateInv
    <3> QED
      BY <2>2, <3>1, <3>2 DEF CreateInv
  <2>6. ASSUME NEW i \in Pos', Creates(queue'[i])
        PROVE  \E j \in Pos' : i < j /\ CreateSignal(queue'[j])
    <3>1. i \in Nat /\ i + 1 \in Pos /\ 1 < i + 1 /\ Creates(queue[i + 1])
      BY <2>1, <2>6
    <3> PICK j \in Pos : i + 1 < j /\ CreateSignal(queue[j])
      BY <3>1 DEF CreateInv
    <3>2. j # 1 /\ i < j - 1
      BY <3>1 DEF Pos
    <3> QED
      BY <2>1, <3>2
  <2> QED
    BY <2>1, <2>3, <2>4, <2>5, <2>6 DEF CreateInv
<1> QED
  BY <1>a, <1>1, <1>2, <1>3, <1>4, <1>5, <1>6, <1>7, <1>8, <1>9 DEF Next, Side

-----------------------------------------------------------------------------
(* The wait for a creation *)

LEMMA NotCreating ==
    ASSUME TypeInv, CreateInv, WaitInv, ~Creation, ~late
    PROVE  \A i \in Pos : ~Creates(queue[i])
  BY DEF WaitInv

\* A frame's list ends the creation, or there was none.
LEMMA WaitFramed ==
    ASSUME TypeInv, WaitInv, NEW h \in 0 .. MaxFeature, SubmitsWith(h),
           UNCHANGED <<registered, createDone, createValue>>,
           ~late' => /\ ~late /\ ~signaled' /\ registered = {}
                     /\ \A i \in Pos : ~Creates(queue[i])
    PROVE  WaitInv'
<1>1. ~Creation' /\ pc' # "waiting"
  BY DEF SubmitsWith, Creation
<1>2. ASSUME ~late' PROVE \A i \in Pos' : ~Creates(queue'[i])
  BY <1>2, Framed
<1> QED
  BY <1>1, <1>2 DEF WaitInv

LEMMA WaitStep ==
    ASSUME IInv, Next PROVE WaitInv'
<1> USE DEF IInv
<1>u. ASSUME UNCHANGED <<queue, pc, creating, createVars, createValue, late>> PROVE WaitInv'
  BY <1>u DEF WaitInv, Pos, Creation, createVars
<1>n. /\ 0 \in 0 .. MaxFeature /\ feature.handle \in 0 .. MaxFeature
      /\ creating.handle \in 0 .. MaxFeature /\ None.handle = 0
  BY Numbers DEF None
<1>i. ASSUME pc = "record", ~late
      PROVE  ~signaled /\ registered = {} /\ \A i \in Pos : ~Creates(queue[i])
  BY <1>i DEF WaitInv, Creation
<1>a. CASE Side
  BY <1>a, <1>u, SideActs DEF Quiet, gateVars
<1>1. CASE PresentBegin
  <2>1. /\ ~Creation /\ ~Creation' /\ pc # "waiting" /\ pc' # "waiting"
        /\ UNCHANGED <<queue, creating, createVars, createValue, late>>
    BY <1>1 DEF PresentBegin, Creation, gateVars
  <2> QED
    BY <2>1 DEF WaitInv, Pos, createVars
<1>2. CASE RecordNothing
  <2>1. SubmitsWith(0) /\ UNCHANGED <<registered, createDone, createValue, late, signaled>>
    BY <1>2, <1>n DEF RecordNothing, Submit, SubmitsWith, gateVars, createVars
  <2> QED
    BY <1>2, <1>i, <1>n, <2>1, WaitFramed DEF RecordNothing
<1>3. CASE RecordWith
  <2>1. SubmitsWith(feature.handle) /\ UNCHANGED <<registered, createDone, createValue, late, signaled>>
    BY <1>3 DEF RecordWith, Submit, SubmitsWith, gateVars, createVars
  <2> QED
    BY <1>3, <1>i, <1>n, <2>1, WaitFramed DEF RecordWith
<1>4. CASE TexturesFail
  <2>1. SubmitsWith(0) /\ UNCHANGED <<registered, createDone, createValue, late, signaled>>
    BY <1>4, <1>n DEF TexturesFail, MakeWay, Submit, SubmitsWith, createVars
  <2> QED
    BY <1>4, <1>i, <1>n, <2>1, WaitFramed DEF TexturesFail, MakeWay
<1>5. CASE CreateEnd
  <2>1. /\ SubmitsWith(creating.handle)
        /\ UNCHANGED <<registered, createDone, createValue, late>>
    BY <1>5 DEF CreateEnd, Created, Submit, SubmitsWith
  <2>2. ASSUME ~late
        PROVE  ~signaled' /\ registered = {} /\ createDone >= createValue
    BY <1>5, <2>2 DEF CreateEnd, Created, WaitInv
  <2>3. ASSUME ~late PROVE \A i \in Pos : ~Creates(queue[i])
    BY <2>2, <2>3, GateOpens
  <2> QED
    BY <1>n, <2>1, <2>2, <2>3, WaitFramed
<1>6. CASE CreateTimedOut
  <2>1. /\ SubmitsWith(0) /\ UNCHANGED <<registered, createDone, createValue>> /\ late'
    BY <1>6, <1>n DEF CreateTimedOut, Submit, SubmitsWith, createVars
  <2> QED
    BY <1>n, <2>1, WaitFramed
<1>7. CASE BeginCreate
  <2> PICK h \in 0 .. MaxFeature, m \in Nat, c \in Commands, d \in Commands :
        /\ h = 0 \/ issued < h
        /\ creating' = [handle |-> h, key |-> options.key]
        /\ m \in Pos' /\ m + 1 \in Pos'
        /\ queue'[m] = c /\ Creates(c) /\ c.handle = h
        /\ queue'[m + 1] = d /\ ~Creates(d) /\ ~Uses(d)
        /\ \A i \in Pos : ~Creates(queue[i]) /\ ~CreateSignal(queue[i])
        /\ \A i \in Pos' : (i \in Pos /\ queue'[i] = queue[i]) \/ i = m \/ i = m + 1
    BY <1>7, Begun
  <2>1. /\ pc' = "creating" /\ pc = "record" /\ Creation' /\ creating'.handle = h
        /\ UNCHANGED <<signaled, registered, createDone, late>>
    BY <1>7 DEF BeginCreate, MakeWay, Creation, createVars
  <2>2. ASSUME NEW i \in Pos', Uses(queue'[i]), ~Creates(queue'[i]), queue'[i].handle # 0
        PROVE  queue'[i].handle # h
    <3>1. i \in Pos /\ queue'[i] = queue[i]
      BY <2>2
    <3>2. queue[i].handle <= issued /\ queue[i].handle \in 0 .. MaxFeature /\ issued \in Nat /\ MaxFeature \in Nat
      BY <2>2, <3>1, Numbers, CommandsAre DEF AliveInv
    <3>3. queue[i].handle # h
      BY <2>2, <3>1, <3>2
    <3> QED
      BY <3>1, <3>3
  <2>3. \A i \in Pos' : Creates(queue'[i]) => queue'[i].handle = h
    OBVIOUS
  <2> QED
    BY <1>i, <2>1, <2>2, <2>3 DEF WaitInv
<1>8. CASE CreateWait
  <2>1. /\ Creation /\ Creation' /\ pc = "creating" /\ pc' = "waiting" /\ Pos' = Pos
        /\ UNCHANGED <<queue, creating, signaled, createDone, createValue, late>>
        /\ registered' = registered \cup {createValue}
    BY <1>8 DEF CreateWait, Creation, gateVars, Pos
  <2>2. ~late => ~signaled /\ registered' = {createValue}
    BY <2>1 DEF WaitInv
  <2> QED
    BY <2>1, <2>2 DEF WaitInv
<1>9. CASE Resize
  <2>1. /\ Pos' = {} /\ ~Creation' /\ pc' # "waiting" /\ pc # "waiting"
        /\ UNCHANGED <<createVars, createValue, late>>
    BY <1>9 DEF Resize, Pos, Creation
  <2> QED
    BY <2>1 DEF WaitInv, createVars
<1>10. CASE D3D12
  <2>1. /\ UNCHANGED <<pc, creating, createValue, late>> /\ (Creation' <=> Creation)
        /\ 1 \in Pos /\ queue[1] \in Commands
        /\ \A i \in Pos' : i + 1 \in Pos /\ queue'[i] = queue[i + 1]
    BY <1>10, QueueShrinks DEF D3D12, TypeInv, gateVars, Creation
  <2>2. \/ UNCHANGED createVars
        \/ CreateSignal(queue[1]) /\ Reach(queue[1].value)
    BY <1>10, QueueShrinks DEF D3D12, TypeInv, CreateSignal
  <2>3. Creation => \A i \in Pos' : /\ Uses(queue'[i]) /\ ~Creates(queue'[i])
                                    /\ queue'[i].handle # 0
                                    => queue'[i].handle # creating.handle
    BY <2>1 DEF WaitInv
  <2>4. ~late => \A i \in Pos' : Creates(queue'[i]) =>
                    Creation /\ queue'[i].handle = creating.handle
    BY <2>1 DEF WaitInv
  <2>5. CASE UNCHANGED createVars
    BY <2>1, <2>3, <2>4, <2>5 DEF WaitInv, createVars
  <2>6. CASE CreateSignal(queue[1]) /\ Reach(queue[1].value)
    <3>1. /\ createDone' = createValue /\ createValue \in Nat
          /\ registered' = {r \in registered : r > createValue}
          /\ signaled' = (signaled \/ \E r \in registered : r <= createValue)
      BY <2>1, <2>6, Numbers DEF Reach, CreateInv
    <3>2. ASSUME ~late PROVE registered' = {} /\ (pc # "waiting" => ~signaled')
      <4>1. registered \subseteq {createValue} /\ (pc # "waiting" => ~signaled /\ registered = {})
        BY <3>2 DEF WaitInv
      <4>2. ~(createValue > createValue)
        BY <3>1
      <4>3. registered' = {}
        BY <3>1, <4>1, <4>2
      <4>4. pc # "waiting" => ~signaled'
        BY <3>1, <4>1
      <4> QED
        BY <4>3, <4>4
    <3>3. createDone' >= createValue
      BY <3>1
    <3> QED
      BY <2>1, <2>3, <2>4, <3>2, <3>3 DEF WaitInv
  <2> QED
    BY <2>2, <2>5, <2>6
<1> QED
  BY <1>a, <1>1, <1>2, <1>3, <1>4, <1>5, <1>6, <1>7, <1>8, <1>9, <1>10 DEF Next, Side

-----------------------------------------------------------------------------
(* What failed is not tried again, and what the feature's side does *)

LEMMA GateStep ==
    ASSUME IInv, Next PROVE GateInv'
<1> USE DEF IInv
<1>u. ASSUME UNCHANGED <<options, failures, failed>>,
             Creation' => Creation /\ creating' = creating
      PROVE  GateInv'
  BY <1>u DEF GateInv
<1>k. options.key \in Keys /\ (Creation => creating.key \in Keys) /\ failures \in [Keys -> Nat]
  BY Numbers DEF TypeInv, TypeOK
<1>f. ASSUME NEW k \in Keys, Fail(k), failures[k] = 0, options' = options,
             k # options.key => failures[options.key] = 0, ~Creation'
      PROVE  GateInv'
  <2>1. failures' = [failures EXCEPT ![k] = @ + 1] /\ failed' = k
    BY <1>f DEF Fail
  <2>2. failures'[k] = 1 /\ \A j \in Keys : j # k => failures'[j] = failures[j]
    BY <1>f, <1>k, <2>1
  <2>3. \A j \in Keys : failures'[j] <= 1
    BY <2>2 DEF GateInv
  <2>4. failures'[options'.key] # 0 => failed' = options'.key
    BY <1>f, <1>k, <2>1, <2>2
  <2> QED
    BY <1>f, <2>3, <2>4 DEF GateInv
<1>a. CASE Side
  <2>1. UNCHANGED <<pc, creating, failed>> /\ (Creation' <=> Creation)
    BY <1>a, SideActs DEF Quiet, gateVars, Creation
  <2>2. CASE failures' = failures /\ options'.key = options.key
    BY <2>1, <2>2 DEF GateInv
  <2>3. CASE failures' = NoFailures /\ options'.key \in Keys
    <3>1. \A k \in Keys : failures'[k] = 0
      BY <2>3 DEF NoFailures
    <3>2. \A k \in Keys : failures'[k] <= 1
      BY <3>1
    <3> QED
      BY <1>k, <2>1, <2>3, <3>1, <3>2 DEF GateInv
  <2>4. \/ failures' = failures /\ options'.key = options.key
        \/ failures' = NoFailures /\ options'.key \in Keys
    <3>1. CASE options' = options /\ failures' = failures
      BY <3>1
    <3>2. CASE options' = [options EXCEPT !.wanted = FALSE] /\ failures' = failures
      BY <3>2 DEF TypeInv, TypeOK
    <3>3. CASE /\ options' \in [wanted : BOOLEAN, key : Keys]
               /\ failures' = IF options'.key # options.key THEN NoFailures ELSE failures
      BY <3>3
    <3> QED
      BY <1>a, <3>1, <3>2, <3>3, SideActs
  <2> QED
    BY <2>2, <2>3, <2>4
<1>1. CASE PresentBegin \/ RecordNothing \/ RecordWith \/ CreateWait \/ D3D12
  BY <1>1, <1>u
  DEF PresentBegin, RecordNothing, RecordWith, CreateWait, D3D12, Submit, Creation, gateVars
<1>2. ASSUME MakeWay PROVE failures[options.key] = 0
  BY <1>2 DEF MakeWay, MayCreate, GateInv
<1>3. CASE TexturesFail
  <2>1. MakeWay /\ Fail(options.key) /\ options' = options /\ ~Creation'
    BY <1>3 DEF TexturesFail, Submit, Creation
  <2> QED
    BY <1>2, <1>f, <1>k, <2>1
<1>4. CASE BeginCreate
  <2>1. MakeWay /\ UNCHANGED <<options, failures, failed>> /\ creating'.key = options.key
    BY <1>4 DEF BeginCreate
  <2> QED
    BY <1>2, <2>1 DEF GateInv
<1>5. CASE CreateEnd
  <2>1. Creation /\ ~Creation' /\ options' = options
    BY <1>5 DEF CreateEnd, Created, Submit, Creation
  <2>2. failures[options.key] = 0 /\ failures[creating.key] = 0
    BY <2>1 DEF GateInv
  <2>3. CASE creating.handle = 0
    BY <1>5, <1>f, <1>k, <2>1, <2>2, <2>3 DEF CreateEnd
  <2>4. CASE creating.handle # 0
    BY <1>5, <2>1, <2>2, <2>4 DEF CreateEnd, GateInv
  <2> QED
    BY <2>3, <2>4
<1>6. CASE CreateTimedOut
  <2>1. Creation /\ ~Creation' /\ options' = options /\ Fail(creating.key)
    BY <1>6 DEF CreateTimedOut, Submit, Creation
  <2>2. failures[options.key] = 0 /\ failures[creating.key] = 0
    BY <2>1 DEF GateInv
  <2> QED
    BY <1>f, <1>k, <2>1, <2>2
<1>7. CASE Resize
  <2>1. failures' = NoFailures /\ ~Creation' /\ options'.key \in Keys
    BY <1>7 DEF Resize, Creation, TypeInv, TypeOK
  <2>2. \A k \in Keys : failures'[k] = 0
    BY <2>1 DEF NoFailures
  <2>3. \A k \in Keys : failures'[k] <= 1
    BY <2>2
  <2> QED
    BY <2>1, <2>2, <2>3 DEF GateInv
<1> QED
  BY <1>a, <1>1, <1>3, <1>4, <1>5, <1>6, <1>7 DEF Next, Side

LEMMA LivesStep ==
    ASSUME IInv, Next PROVE LivesInv'
<1> USE DEF IInv
<1>w. options.wanted \in BOOLEAN
  BY DEF TypeInv, TypeOK
<1>u. ASSUME UNCHANGED sideVars, options'.wanted = options.wanted,
             releaseRequested' = releaseRequested,
             feature' # None \/ creating' # None => feature # None \/ creating # None
      PROVE  LivesInv'
  BY <1>u DEF LivesInv, sideVars
<1>a. CASE Side
  <2>1. UNCHANGED <<feature, creating>>
    BY <1>a, SideActs DEF Quiet
  <2>2. ASSUME Start PROVE /\ answer = "up" => answer' = "up"
                           /\ answer' = "up" => made' = kParts
    BY <2>2 DEF Start, StartResult, LivesInv
  <2>3. (answer = "up" => answer' = "up") /\ (answer' = "up" => made' = kParts)
    BY <1>a, <2>2
    DEF Side, Setup, SetupRefused, SetOptions, Shutdown, RequestRelease, sideVars, LivesInv
  <2>4. (side' # "off" \/ releaseRequested') \/ (side = "off" /\ ~releaseRequested)
    BY <1>a DEF Side, Setup, SetupRefused, SetOptions, Shutdown, RequestRelease, sideVars,
                TypeInv, TypeOK
  <2>5. options'.wanted => side' = "on"
    <3>1. CASE Setup \/ RequestRelease
      BY <3>1 DEF Setup, RequestRelease, LivesInv
    <3>2. CASE SetupRefused \/ Shutdown
      BY <3>2 DEF SetupRefused, Shutdown, TypeInv, TypeOK
    <3>3. CASE SetOptions
      BY <3>3 DEF SetOptions, sideVars
    <3> QED
      BY <1>a, <3>1, <3>2, <3>3 DEF Side
  <2> QED
    BY <2>1, <2>3, <2>4, <2>5 DEF LivesInv
<1>1. CASE PresentBegin
  <2>1. UNCHANGED <<sideVars, options, creating>> /\ creating = None /\ releaseRequested' = FALSE
        /\ feature' = IF releaseRequested THEN None ELSE feature
    BY <1>1 DEF PresentBegin, TypeInv, Creation
  <2> QED
    BY <2>1 DEF LivesInv, sideVars
<1>2. CASE RecordNothing \/ RecordWith \/ CreateWait \/ D3D12
  BY <1>2, <1>u DEF RecordNothing, RecordWith, CreateWait, D3D12
<1>3. CASE TexturesFail
  BY <1>3, <1>u DEF TexturesFail, MakeWay
<1>4. CASE BeginCreate
  <2>1. UNCHANGED <<sideVars, options, releaseRequested>> /\ options.wanted /\ answer = "up"
    BY <1>4 DEF BeginCreate, MakeWay, Wanted, Started
  <2> QED
    BY <2>1 DEF LivesInv, sideVars
<1>5. CASE CreateEnd
  <2>1. /\ UNCHANGED <<sideVars, options, releaseRequested>>
        /\ creating # None
    BY <1>5 DEF CreateEnd, Created, TypeInv, Creation
  <2> QED
    BY <1>u, <2>1
<1>6. CASE CreateTimedOut
  BY <1>6, <1>u DEF CreateTimedOut
<1>7. CASE Resize
  <2>1. UNCHANGED <<sideVars, releaseRequested, creating>> /\ feature' = None
        /\ options'.wanted = options.wanted
    BY <1>7 DEF Resize, TypeInv, TypeOK
  <2> QED
    BY <1>u, <2>1
<1> QED
  BY <1>a, <1>1, <1>2, <1>3, <1>4, <1>5, <1>6, <1>7 DEF Next, Side

-----------------------------------------------------------------------------
(* The theorems *)

\* The invariant holds in every behaviour of the renderer: every variable has
\* its type, every handle its place, and the queue, the two fences, the event
\* and the gate agree with each other.
THEOREM Inductive == Spec => []IInv
<1>1. Init => IInv
  BY InitInv
<1>2. IInv /\ [Next]_vars => IInv'
  <2> SUFFICES ASSUME IInv, [Next]_vars PROVE IInv'
    OBVIOUS
  <2>1. CASE Next
    BY <2>1, TypeStep, PlaceStep, AliveStep, CreateStep, WaitStep, GateStep, LivesStep DEF IInv
  <2>2. CASE UNCHANGED vars
    <3> USE <2>2 DEF vars, sideVars, gateVars, createVars
    <3>0. Pos' = Pos /\ (Creation' <=> Creation)
      BY DEF Pos, Creation
    <3>1. TypeInv'
      BY <3>0 DEF IInv, TypeInv, TypeOK
    <3>2. PlaceInv' /\ GateInv' /\ LivesInv'
      BY <3>0 DEF IInv, PlaceInv, GateInv, LivesInv
    <3>3. AliveInv'
      BY <3>0 DEF IInv, AliveInv
    <3>4. CreateInv'
      BY <3>0 DEF IInv, CreateInv
    <3>5. WaitInv'
      BY <3>0 DEF IInv, WaitInv
    <3> QED
      BY <3>1, <3>2, <3>3, <3>4, <3>5 DEF IInv
  <2> QED
    BY <2>1, <2>2
<1> QED
  BY <1>1, <1>2, PTL DEF Spec

LEMMA PlacedOnce ==
    ASSUME IInv PROVE EveryHandleOnce
<1> SUFFICES ASSUME NEW h \in 1 .. issued
             PROVE  Cardinality({r \in retired : r.handle = h})
                    + Cardinality({x \in {"use"} : feature.handle = h})
                    + Cardinality({x \in {"new"} : creating.handle = h})
                    + Cardinality({x \in {"freed"} : h \in released}) = 1
  BY DEF EveryHandleOnce
<1> DEFINE R == {r \in retired : r.handle = h}
           U == {x \in {"use"} : feature.handle = h}
           N == {x \in {"new"} : creating.handle = h}
           F == {x \in {"freed"} : h \in released}
<1>0. h # 0
  BY Numbers DEF IInv
<1>c. Cardinality({}) = 0 /\ \A x : Cardinality({x}) = 1
  BY FS_EmptySet, FS_Singleton
<1>p. Place(retired, feature.handle, creating.handle, issued, released)
  BY DEF IInv, PlaceInv
<1>s. ASSUME NEW a, NEW b, NEW c, NEW d,
             <<a, b, c, d>> \in {<<1, 0, 0, 0>>, <<0, 1, 0, 0>>, <<0, 0, 1, 0>>, <<0, 0, 0, 1>>}
      PROVE  a + b + c + d = 1
  BY <1>s
<1>1. CASE \E r \in retired : r.handle = h
  <2> PICK r \in retired : r.handle = h
    BY <1>1
  <2>1. R = {r}
    BY <1>p DEF Place
  <2>2. U = {} /\ N = {} /\ F = {}
    BY <1>p DEF Place
  <2>3. <<Cardinality(R), Cardinality(U), Cardinality(N), Cardinality(F)>> = <<1, 0, 0, 0>>
    BY <1>c, <2>1, <2>2
  <2> HIDE DEF R, U, N, F
  <2>4. Cardinality(R) + Cardinality(U) + Cardinality(N) + Cardinality(F) = 1
    BY <1>s, <2>3
  <2> QED
    BY <2>4 DEF R, U, N, F
<1>2. CASE ~(\E r \in retired : r.handle = h)
  <2>1. R = {}
    BY <1>2
  <2>2. \/ U = {"use"} /\ N = {} /\ F = {}
        \/ U = {} /\ N = {"new"} /\ F = {}
        \/ U = {} /\ N = {} /\ F = {"freed"}
    <3>1. CASE h = feature.handle
      BY <1>0, <1>p, <3>1 DEF Place
    <3>2. CASE h = creating.handle
      BY <1>0, <1>p, <3>2 DEF Place
    <3>3. CASE h \in released
      BY <1>0, <1>p, <3>3 DEF Place
    <3> QED
      BY <1>2, <1>p, <3>1, <3>2, <3>3 DEF Place
  <2> HIDE DEF R, U, N, F
  <2>3. <<Cardinality(R), Cardinality(U), Cardinality(N), Cardinality(F)>>
          \in {<<0, 1, 0, 0>>, <<0, 0, 1, 0>>, <<0, 0, 0, 1>>}
    BY <1>c, <2>1, <2>2
  <2>4. Cardinality(R) + Cardinality(U) + Cardinality(N) + Cardinality(F) = 1
    BY <1>s, <2>3
  <2> QED
    BY <2>4 DEF R, U, N, F
<1> QED
  BY <1>1, <1>2

LEMMA OneCreation ==
    ASSUME IInv PROVE CreateAllocatorIdle
<1> DEFINE S == {i \in DOMAIN queue : queue[i].op = "create"}
<1>1. DOMAIN queue = Pos
  BY DEF IInv, TypeInv, Pos
<1>2. CASE S = {}
  BY <1>2, FS_EmptySet DEF CreateAllocatorIdle
<1>3. CASE S # {}
  <2> PICK i \in S : TRUE
    BY <1>3
  <2>1. S = {i}
    BY <1>1 DEF IInv, CreateInv, Creates
  <2> QED
    BY <2>1, FS_Singleton DEF CreateAllocatorIdle
<1> QED
  BY <1>2, <1>3

\* NeuralRenderer.h:68: nothing the GPU has yet to work off uses a feature that
\* was given back to NGX, and every handle NGX gave out is given back once or
\* still accounted for, for any number of frames, resizes and features.
THEOREM FeaturesStayAlive == Spec => []FeaturesAreAlive
<1>1. IInv => FeaturesAreAlive
  <2> SUFFICES ASSUME IInv PROVE NoFreeInUse
    BY PlacedOnce DEF FeaturesAreAlive
  <2>1. DOMAIN queue = Pos
    BY DEF IInv, TypeInv, Pos
  <2> QED
    BY <2>1 DEF NoFreeInUse, IInv, AliveInv, Uses
<1> QED
  BY <1>1, Inductive, PTL

\* NeuralCreation.h:20: creations are one at a time whatever times out, none that
\* failed is tried again for what it failed for, and as long as nothing has
\* timed out a feature is created before a frame's list uses it.
THEOREM CreationsAreFenced == Spec => []CreationIsFenced
<1>1. IInv => CreationIsFenced
  <2> SUFFICES ASSUME IInv PROVE FencedBeforeUse /\ FailedNotRetried
    BY OneCreation DEF CreationIsFenced
  <2>1. DOMAIN queue = Pos
    BY DEF IInv, TypeInv, Pos
  <2>2. FailedNotRetried
    BY DEF IInv, GateInv, FailedNotRetried
  <2>3. ASSUME ~late, NEW i \in Pos, NEW j \in Pos,
               queue[i].op = "frame", queue[i].handle # 0, queue[j].op = "create"
        PROVE  queue[i].handle # queue[j].handle
    <3>1. Creates(queue[j]) /\ Uses(queue[i]) /\ ~Creates(queue[i])
      BY <2>3 DEF Creates, Uses
    <3>2. Creation /\ queue[j].handle = creating.handle
      BY <2>3, <3>1 DEF IInv, WaitInv
    <3> QED
      BY <2>3, <3>1, <3>2 DEF IInv, WaitInv
  <2> QED
    BY <2>1, <2>2, <2>3 DEF FencedBeforeUse
<1> QED
  BY <1>1, Inductive, PTL

\* NeuralRenderer.h:76: a feature exists only while the plugin's own feature is on
\* or its release is still to be taken, over a renderer made completely.
THEOREM FeaturesGoWithTheirs == Spec => []LivesWithFeature
<1>1. IInv => LivesWithFeature
  BY DEF IInv, LivesInv, LivesWithFeature
<1> QED
  BY <1>1, Inductive, PTL

-----------------------------------------------------------------------------
(* Upscale: what holds at every point of a frame.                           *)

Points == {"load", "tick", "simulate", "begin", "world", "inPrepass", "composite",
           "inComposite", "forward", "inForward", "evaluate", "capture", "viewport"}

Objects == {<<>>} \cup (Modes \X Modes)

EngineType == [taa : BOOLEAN, fxaa : BOOLEAN, jitter : BOOLEAN, ratio : Modes,
               skip : BOOLEAN, viewport : BOOLEAN, depth : {"own", "full"},
               targets : {"own", "stand-ins"}, samplers : {"own", "biased"}]
DlssType == [on : BOOLEAN, active : BOOLEAN, upscaling : BOOLEAN, ratio : Modes,
             wasNative : BOOLEAN, reset : BOOLEAN, camera : BOOLEAN, mode : Modes,
             chosen : Modes, overridden : BOOLEAN, full : BOOLEAN]
StandType == [ratio : Modes, made : BOOLEAN, swapped : BOOLEAN, snapshot : {"own"},
              bias : Modes \cup {"none"}, biased : BOOLEAN]
TexturesType == [size : Modes \cup {"none"}, depth : BOOLEAN, written : BOOLEAN,
                 shaders : BOOLEAN]
NgxType == [device : BOOLEAN, parameters : BOOLEAN, available : BOOLEAN, object : Objects]
ResolutionType == [render : Modes \cup {"none"}, depthFull : BOOLEAN]
CaptureType == [acquired : SUBSET Consumers, wanted : SUBSET Consumers, reset : BOOLEAN,
                previous : BOOLEAN, camera : BOOLEAN]

UpscaleTypeOK ==
    /\ at \in Points /\ menu \in Menus /\ picture \in Modes
    /\ engine \in EngineType /\ dlss \in DlssType /\ stand \in StandType
    /\ textures \in TexturesType /\ ngx \in NgxType /\ resolution \in ResolutionType
    /\ capture \in CaptureType
    /\ far \in SUBSET {"dlss", "capture"}
    /\ own \in [taa : BOOLEAN, fxaa : BOOLEAN]
    /\ stale \in BOOLEAN /\ gap \in BOOLEAN
    /\ owed \in SUBSET Consumers /\ excused \in SUBSET {"evaluate", "camera", "slot"}
    /\ changes \in Nat /\ fails \in Nat

\* DLSS is on only with every hook in place, and with the engine's TAA.
OnInv ==
    /\ at = "load" => ~dlss.on
    /\ dlss.on => Installed /\ textures.shaders /\ engine.taa

\* Off, it has given everything back.
OffInv ==
    ~dlss.on =>
        /\ ~dlss.active /\ ~dlss.upscaling /\ ~dlss.overridden
        /\ resolution = NotPublished /\ ngx = NgxOff
        /\ engine.ratio = One /\ ~engine.jitter /\ ~engine.skip
        /\ engine.taa = own.taa /\ engine.fxaa = own.fxaa

\* The samplers are biased inside the two passes only, the stand-ins are in
\* inside the composite only.
LentInv ==
    /\ engine.samplers = "biased" <=> stand.biased
    /\ stand.biased => dlss.upscaling /\ stand.bias # "none" /\ at \in {"inPrepass", "inForward"}
    /\ engine.targets = "stand-ins" => stand.made /\ stand.swapped
    /\ stand.swapped => dlss.upscaling /\ at = "inComposite"
    /\ dlss.upscaling => dlss.active

\* The full depth is bound where it is asked for, and is this frame's.
DepthInv ==
    /\ engine.depth = "full" <=> dlss.overridden
    /\ resolution.depthFull <=> dlss.overridden
    /\ dlss.overridden => /\ dlss.upscaling /\ dlss.full /\ textures.depth
                          /\ at \in {"inComposite", "capture", "viewport"}
    /\ dlss.full => (textures.depth /\ textures.written) \/ fails > 0

\* In the frame itself nobody wants motion vectors the engine does not write.
MotionInv == at \notin {"load", "tick"} /\ capture.wanted # {} => engine.taa

\* A stale history will be dropped: the reset is due, or what calls for it
\* is still to be noticed; once the frame has begun it has been noticed, or
\* there was no camera to notice it by.
Excuse == "evaluate" \in excused \/ "camera" \in excused

HistoryInv ==
    dlss.on =>
        /\ stale => dlss.reset \/ dlss.wasNative \/ "dlss" \in far \/ Excuse
        /\ dlss.wasNative <=> ~dlss.active
        /\ stale /\ dlss.active /\ at \notin {"tick", "simulate", "begin", "capture", "viewport"}
              => dlss.reset \/ Excuse

\* Without a reset due every consumer has its history, the frame before.
ConsumersInv ==
    /\ capture.wanted # {} /\ ~capture.reset =>
          owed = {} /\ capture.previous /\ (gap => "slot" \in excused)

UpscaleInv ==
    /\ UpscaleTypeOK /\ OnInv /\ OffInv /\ LentInv /\ DepthInv
    /\ MotionInv /\ HistoryInv /\ ConsumersInv

-----------------------------------------------------------------------------
\* The hooks are all there, each by its name.
Sites == {"temporalData", "effectRange", "viewportDefault", "prePass", "forward",
          "composite", "reflections", "dynamicUpdate", "temporalAA", "lensFlare"}

LEMMA AllSites == Installed => hooks = Sites
<1>1. Len(kSites) = 10
  BY DEF kSites
<1>2. Patched(10) = Sites
  BY DEF Patched, kSites, Sites
<1> QED
  BY <1>1, <1>2 DEF Installed

LEMMA HandledIsOn == ASSUME OnInv, NEW site \in Sites PROVE Handled(site) <=> dlss.on
  BY AllSites DEF Handled, OnInv

LEMMA ChangedIsNat ==
    ASSUME NEW m \in Menus, NEW jump \in BOOLEAN, NEW mode \in Modes
    PROVE  Changed(m, jump, mode) \in Nat
<1>1. 1 \in Int /\ 3 \in Int
  OBVIOUS
<1>2. IsFiniteSet(1 .. 3)
  BY <1>1, FS_Interval
<1>3. Differences(m, jump, mode) \subseteq 1 .. 3
  BY DEF Differences
<1> QED
  BY <1>2, <1>3, FS_Subset, FS_CardinalityType DEF Changed

\* Whatever of NGX came up, Shutdown takes it down.
LEMMA NgxGoesDown ==
    /\ \A n \in 0 .. 4 : NgxInit(n) \in NgxType
    /\ \A x \in NgxType : NgxShutdown(x) = NgxOff
<1>1. \A n \in 0 .. 4 : NgxInit(n) \in NgxType
  BY DEF NgxInit, NgxType, Objects
<1>2. ASSUME NEW x \in NgxType PROVE NgxShutdown(x) = NgxOff
  <2>1. DOMAIN x = {"device", "parameters", "available", "object"}
    BY DEF NgxType
  <2>2. NgxShutdown(x) = [x EXCEPT !.object = <<>>, !.parameters = FALSE, !.device = FALSE,
                                 !.available = FALSE]
    BY DEF NgxShutdown
  <2>3. x = [device |-> x.device, parameters |-> x.parameters, available |-> x.available,
             object |-> x.object]
    BY DEF NgxType
  <2> QED
    BY <2>2, <2>3 DEF NgxOff
<1> QED
  BY <1>1, <1>2

\* With the two switches of its own, OverrideDepth puts the full depth in ...
\* The full depth if it could be made.
DepthOf(t) == IF t.depth THEN "full" ELSE "own"

LEMMA OverrideDepthDoes ==
    ASSUME NEW e \in EngineType, NEW d \in DlssType, NEW r \in ResolutionType, NEW t,
           d.overridden = FALSE
    PROVE  /\ t.depth => OverrideDepth(e, d, r, t) =
                            [engine     |-> [e EXCEPT !.depth = "full"],
                             dlss       |-> [d EXCEPT !.overridden = TRUE, !.full = TRUE],
                             resolution |-> [r EXCEPT !.depthFull = TRUE]]
           /\ ~t.depth => OverrideDepth(e, d, r, t) =
                            [engine |-> e, dlss |-> [d EXCEPT !.full = TRUE], resolution |-> r]
<1>1. (d.full \/ ~d.overridden) = TRUE
  OBVIOUS
<1> QED
  BY <1>1 DEF OverrideDepth

\* ... and ResetDepth takes it out.
LEMMA ResetDepthDoes ==
    ASSUME NEW e \in EngineType, NEW d \in DlssType, NEW r \in ResolutionType,
           e.depth = "full" <=> d.overridden, r.depthFull <=> d.overridden
    PROVE  ResetDepth(e, d, r) =
              [engine     |-> [e EXCEPT !.depth = "own"],
               dlss       |-> [d EXCEPT !.overridden = FALSE],
               resolution |-> [r EXCEPT !.depthFull = FALSE]]
<1>1. CASE d.overridden
  BY <1>1 DEF ResetDepth
<1>2. CASE ~d.overridden
  <2>1. [e EXCEPT !.depth = "own"] = e
    BY <1>2 DEF EngineType
  <2>2. [r EXCEPT !.depthFull = FALSE] = r
    BY <1>2 DEF ResolutionType
  <2>3. [d EXCEPT !.overridden = FALSE] = d
    BY <1>2 DEF DlssType
  <2> QED
    BY <1>2, <2>1, <2>2, <2>3 DEF ResetDepth
<1> QED
  BY <1>1, <1>2

LEMMA ResetApplied ==
    ASSUME NEW e \in EngineType, NEW d \in DlssType, NEW r \in ResolutionType,
           e.depth = "full" <=> d.overridden, r.depthFull <=> d.overridden,
           Apply(ResetDepth(e, d, r))
    PROVE  /\ engine' = [e EXCEPT !.depth = "own"]
           /\ dlss' = [d EXCEPT !.overridden = FALSE]
           /\ resolution' = [r EXCEPT !.depthFull = FALSE]
<1> DEFINE x == ResetDepth(e, d, r)
<1>1. engine' = x.engine /\ dlss' = x.dlss /\ resolution' = x.resolution
  BY DEF Apply
<1>2. x = [engine     |-> [e EXCEPT !.depth = "own"],
           dlss       |-> [d EXCEPT !.overridden = FALSE],
           resolution |-> [r EXCEPT !.depthFull = FALSE]]
  BY ResetDepthDoes
<1> HIDE DEF x
<1> QED
  BY <1>1, <1>2

LEMMA OverrideApplied ==
    ASSUME NEW e \in EngineType, NEW d \in DlssType, NEW r \in ResolutionType, NEW t,
           d.overridden = FALSE, Apply(OverrideDepth(e, d, r, t))
    PROVE  /\ t.depth => /\ engine' = [e EXCEPT !.depth = "full"]
                         /\ dlss' = [d EXCEPT !.overridden = TRUE, !.full = TRUE]
                         /\ resolution' = [r EXCEPT !.depthFull = TRUE]
           /\ ~t.depth => engine' = e /\ dlss' = [d EXCEPT !.full = TRUE] /\ resolution' = r
<1> DEFINE x == OverrideDepth(e, d, r, t)
<1>1. engine' = x.engine /\ dlss' = x.dlss /\ resolution' = x.resolution
  BY DEF Apply
<1>2. CASE t.depth
  <2>1. x = [engine     |-> [e EXCEPT !.depth = "full"],
             dlss       |-> [d EXCEPT !.overridden = TRUE, !.full = TRUE],
             resolution |-> [r EXCEPT !.depthFull = TRUE]]
    BY <1>2 DEF OverrideDepth
  <2> HIDE DEF x
  <2> QED
    BY <1>1, <1>2, <2>1
<1>3. CASE ~t.depth
  <2>1. x = [engine |-> e, dlss |-> [d EXCEPT !.full = TRUE], resolution |-> r]
    <3>1. (d.full \/ ~d.overridden) = TRUE
      OBVIOUS
    <3> QED
      BY <1>3, <3>1 DEF OverrideDepth
  <2> HIDE DEF x
  <2> QED
    BY <1>1, <1>3, <2>1
<1> QED
  BY <1>2, <1>3

\* EnsureTextures keeps the shaders and what is written, and a depth there is.
LEMMA EnsuredKeeps ==
    ASSUME textures \in TexturesType, NEW size \in Modes, NEW t \in Ensured(size)
    PROVE  /\ t \in TexturesType
           /\ t.shaders = textures.shaders /\ t.written = textures.written
           /\ textures.depth => t.depth
BY DEF Ensured, TexturesType

\* With its shader the full depth is this frame's, or something has failed.
LEMMA FilledByDoes ==
    ASSUME UpscaleTypeOK, DepthInv, textures.shaders, ~dlss.overridden,
           NEW t \in FilledBy(dlss), Count(~dlss.full /\ Failed(t))
    PROVE  /\ t \in TexturesType /\ t.shaders
           /\ (t.depth /\ t.written) \/ fails' > 0
           /\ fails' \in Nat
<1>1. fails \in Nat /\ textures \in TexturesType /\ dlss \in DlssType
  BY DEF UpscaleTypeOK
<1>2. fails' \in Nat /\ fails' >= fails /\ (~dlss.full /\ Failed(t) => fails' > 0)
  BY <1>1 DEF Count
<1>3. CASE dlss.full
  <2>1. t = textures
    BY <1>3 DEF FilledBy
  <2> QED
    BY <1>1, <1>2, <1>3, <2>1 DEF DepthInv
<1>4. CASE ~dlss.full
  <2>1. Size \in Modes
    BY <1>1 DEF Size, DlssType, Modes
  <2>2. PICK u \in Ensured(Size) : t = FullDepth(u)
    BY <1>4 DEF FilledBy
  <2>3. u \in TexturesType /\ u.shaders
    BY <1>1, <2>1, EnsuredKeeps
  <2>4. t \in TexturesType /\ t.shaders /\ t.depth = u.depth /\ t.written = u.depth
    BY <2>2, <2>3 DEF FullDepth, TexturesType
  <2>5. ~t.depth => fails' > 0
    BY <1>2, <1>4 DEF Failed
  <2> QED
    BY <1>2, <2>4, <2>5
<1> QED
  BY <1>3, <1>4

\* DLSS is switched on.
LEMMA DlssSetupKeeps ==
    ASSUME UpscaleInv, UNCHANGED hooks, DlssSetup
    PROVE  UpscaleInv'
<1> USE DEF UpscaleInv
<1>1. UpscaleTypeOK'
  <2>1. ngx' \in NgxType
    BY DEF UpscaleTypeOK, NgxType, Objects, DlssSetup, DlssOff, NgxInit, Compile, May
  <2>2. textures' \in TexturesType
    BY DEF UpscaleTypeOK, TexturesType, Modes, One, DlssSetup, DlssOff, NgxInit, Compile, May
  <2>3. dlss' \in DlssType
    BY DEF UpscaleTypeOK, DlssType, Modes, One, DlssSetup, DlssOff, NgxInit, Compile, May
  <2>4. engine' \in EngineType
    BY DEF UpscaleTypeOK, EngineType, Modes, One, DlssSetup, DlssOff, NgxInit, Compile, May
  <2> QED
    BY <2>1, <2>2, <2>3, <2>4
       DEF UpscaleTypeOK, Points, DlssSetup, DlssOff, NgxInit, Compile, May, EngineType
<1> USE DEF UpscaleTypeOK, EngineType, DlssType, StandType, TexturesType, NgxType,
           ResolutionType, CaptureType, Points
<1>2. OnInv'
  BY DEF OnInv, Installed, DlssSetup, DlssOff, NgxInit, Compile, May
<1>3. OffInv'
  BY DEF OffInv, DlssSetup, DlssOff, NgxInit, Compile, May
<1>4. LentInv'
  BY DEF LentInv, DlssSetup, DlssOff, NgxInit, Compile, May
<1>5. DepthInv'
  BY DEF DepthInv, DlssSetup, DlssOff, NgxInit, Compile, May
<1>6. MotionInv'
  BY DEF MotionInv, DlssSetup, DlssOff, NgxInit, Compile, May
<1>7. HistoryInv'
  BY DEF HistoryInv, Excuse, DlssSetup, DlssOff, NgxInit, Compile, May
<1>8. ConsumersInv'
  BY DEF ConsumersInv, DlssSetup, DlssOff, NgxInit, Compile, May
<1> QED
  BY <1>1, <1>2, <1>3, <1>4, <1>5, <1>6, <1>7, <1>8

\* DLSS is switched off, from wherever it got to.
LEMMA DlssShutdownKeeps ==
    ASSUME UpscaleInv, UNCHANGED hooks, DlssShutdown
    PROVE  UpscaleInv'
<1> USE DEF UpscaleInv
<1>1. ngx' = NgxOff /\ textures' = NoTextures /\ stand' = NoStandIns /\ resolution' = NotPublished
       /\ dlss' = [DlssOff EXCEPT !.mode = dlss.mode, !.chosen = dlss.chosen] /\ changes' = changes + 1
  BY NgxGoesDown DEF DlssShutdown, UpscaleTypeOK
<1>2. engine' = [taa |-> own.taa, fxaa |-> own.fxaa, jitter |-> FALSE, ratio |-> One, skip |-> FALSE,
                   viewport |-> engine.viewport, depth |-> "own", targets |-> "own",
                   samplers |-> "own"]
  <2>1. /\ engine \in EngineType /\ dlss \in DlssType /\ resolution \in ResolutionType
        /\ stand \in StandType /\ own \in [taa : BOOLEAN, fxaa : BOOLEAN]
    BY DEF UpscaleTypeOK
  <2> DEFINE x == ResetDepth(engine, dlss, resolution)
             e == GivenBack(x.engine)
  <2>2. x.engine = [engine EXCEPT !.depth = "own"]
    BY <2>1, ResetDepthDoes DEF DepthInv
  <2>3. CASE dlss.on
    <3>1. "dynamicUpdate" \in hooks
      BY <2>3, AllSites DEF OnInv, Sites
    <3>2. engine' = [e EXCEPT !.taa = own.taa, !.fxaa = own.fxaa]
      BY <2>3 DEF DlssShutdown
    <3>3. SkipDynamicResolutionUpdate(x.engine, FALSE)
            = [engine EXCEPT !.depth = "own", !.skip = FALSE]
      BY <2>1, <2>2, <3>1 DEF SkipDynamicResolutionUpdate, EngineType
    <3>4. (IF stand.biased THEN stand.snapshot ELSE x.engine.samplers) = "own"
      BY <2>1, <2>2 DEF LentInv, EngineType, StandType
    <3>5. e = [engine EXCEPT !.depth = "own", !.skip = FALSE, !.jitter = FALSE, !.ratio = One,
                             !.targets = "own", !.samplers = "own"]
      BY <2>1, <3>3, <3>4 DEF GivenBack, EngineType
    <3> HIDE DEF e
    <3> QED
      BY <2>1, <3>2, <3>5 DEF EngineType
  <2>4. CASE ~dlss.on
    <3>1. engine' = e
      BY <2>4 DEF DlssShutdown
    <3>2. engine.taa = own.taa /\ engine.fxaa = own.fxaa /\ ~engine.skip
      BY <2>4 DEF OffInv
    <3> QED
      BY <2>1, <2>2, <3>1, <3>2
         DEF GivenBack, SkipDynamicResolutionUpdate, EngineType, StandType, LentInv
  <2> QED
    BY <2>3, <2>4
<1>3. UNCHANGED <<at, menu, capture, far, picture, fails>> /\ UNCHANGED Ghosts /\ at = "tick"
  BY DEF DlssShutdown
<1>4. UpscaleTypeOK'
  <2>1. ngx' \in NgxType
    BY <1>1, <1>2, <1>3
       DEF UpscaleTypeOK, NgxType, Objects, DlssOff, NgxOff, NoStandIns, NoTextures,
           NotPublished, Ghosts
  <2>2. textures' \in TexturesType
    BY <1>1, <1>2, <1>3
       DEF UpscaleTypeOK, TexturesType, Modes, One, DlssOff, NgxOff, NoStandIns, NoTextures,
           NotPublished, Ghosts
  <2>3. dlss' \in DlssType
    BY <1>1, <1>2, <1>3
       DEF UpscaleTypeOK, DlssType, Modes, One, DlssOff, NgxOff, NoStandIns, NoTextures,
           NotPublished, Ghosts
  <2>4. engine' \in EngineType
    BY <1>1, <1>2, <1>3
       DEF UpscaleTypeOK, EngineType, Modes, One, DlssOff, NgxOff, NoStandIns, NoTextures,
           NotPublished, Ghosts
  <2>5. stand' \in StandType
    BY <1>1, <1>2, <1>3
       DEF UpscaleTypeOK, StandType, Modes, One, DlssOff, NgxOff, NoStandIns, NoTextures,
           NotPublished, Ghosts
  <2>6. resolution' \in ResolutionType
    BY <1>1, <1>2, <1>3
       DEF UpscaleTypeOK, ResolutionType, Modes, One, DlssOff, NgxOff, NoStandIns, NoTextures,
           NotPublished, Ghosts
  <2> QED
    BY <2>1, <2>2, <2>3, <2>4, <2>5, <2>6, <1>1, <1>2, <1>3
       DEF UpscaleTypeOK, Points, DlssOff, NgxOff, NoStandIns, NoTextures, NotPublished,
           Ghosts, EngineType
<1> USE DEF UpscaleTypeOK, EngineType, DlssType, StandType, TexturesType, NgxType,
           ResolutionType, CaptureType, Points
<1>5. OnInv'
  BY <1>1, <1>2, <1>3
     DEF OnInv, Installed, DlssOff, NgxOff, NoStandIns, NoTextures, NotPublished, Ghosts
<1>6. OffInv'
  BY <1>1, <1>2, <1>3 DEF OffInv, DlssOff, NgxOff, NoStandIns, NoTextures, NotPublished, Ghosts
<1>7. LentInv'
  BY <1>1, <1>2, <1>3 DEF LentInv, DlssOff, NgxOff, NoStandIns, NoTextures, NotPublished, Ghosts
<1>8. DepthInv'
  BY <1>1, <1>2, <1>3
     DEF DepthInv, DlssOff, NgxOff, NoStandIns, NoTextures, NotPublished, Ghosts
<1>9. MotionInv'
  BY <1>1, <1>2, <1>3
     DEF MotionInv, DlssOff, NgxOff, NoStandIns, NoTextures, NotPublished, Ghosts
<1>10. HistoryInv'
  BY <1>1, <1>2, <1>3
     DEF HistoryInv, Excuse, DlssOff, NgxOff, NoStandIns, NoTextures, NotPublished, Ghosts
<1>11. ConsumersInv'
  BY <1>1, <1>2, <1>3
     DEF ConsumersInv, DlssOff, NgxOff, NoStandIns, NoTextures, NotPublished, Ghosts
<1> QED
  BY <1>4, <1>5, <1>6, <1>7, <1>8, <1>9, <1>10, <1>11

\* A shader file changed.
LEMMA ReloadKeeps ==
    ASSUME UpscaleInv, UNCHANGED hooks, NEW ok \in BOOLEAN, Reload(ok)
    PROVE  UpscaleInv'
<1> USE DEF UpscaleInv
<1>1. UpscaleTypeOK'
  <2>1. textures' \in TexturesType
    BY DEF UpscaleTypeOK, TexturesType, Modes, One, Reload, Compile, Ghosts, Count, May
  <2>2. dlss' \in DlssType
    BY DEF UpscaleTypeOK, DlssType, Modes, One, Reload, Compile, Ghosts, Count, May
  <2> QED
    BY <2>1, <2>2 DEF UpscaleTypeOK, Points, Reload, Compile, Ghosts, Count, May
<1> USE DEF UpscaleTypeOK, EngineType, DlssType, StandType, TexturesType, NgxType,
           ResolutionType, CaptureType, Points
<1>2. OnInv'
  BY DEF OnInv, Installed, Reload, Compile, Ghosts, Count, May
<1>3. OffInv'
  BY DEF OffInv, Reload, Compile, Ghosts, Count, May
<1>4. LentInv'
  BY DEF LentInv, Reload, Compile, Ghosts, Count, May
<1>5. DepthInv'
  BY DEF DepthInv, Reload, Compile, Ghosts, Count, May
<1>6. MotionInv'
  BY DEF MotionInv, Reload, Compile, Ghosts, Count, May
<1>7. HistoryInv'
  BY DEF HistoryInv, Excuse, Reload, Compile, Ghosts, Count, May
<1>8. ConsumersInv'
  BY DEF ConsumersInv, Reload, Compile, Ghosts, Count, May
<1> QED
  BY <1>1, <1>2, <1>3, <1>4, <1>5, <1>6, <1>7, <1>8

\* A consumer takes the capture up.
LEMMA AcquireKeeps ==
    ASSUME UpscaleInv, UNCHANGED hooks, NEW c \in Consumers, Acquire(c)
    PROVE  UpscaleInv'
<1> USE DEF UpscaleInv
<1>1. UpscaleTypeOK'
  <2>1. capture' \in CaptureType
    <3>1. capture \in CaptureType /\ NoCapture \in CaptureType /\ NoCapture.acquired = {}
      BY DEF UpscaleTypeOK, CaptureType, NoCapture
    <3>2. \/ capture' = NoCapture
          \/ capture' = [NoCapture EXCEPT !.acquired = NoCapture.acquired \cup {c}]
          \/ capture' = [capture EXCEPT !.acquired = capture.acquired \cup {c}]
      BY <3>1 DEF Acquire
    <3> QED
      BY <3>1, <3>2 DEF CaptureType
  <2> QED
    BY <2>1 DEF UpscaleTypeOK, Points, Acquire, NoCapture, Ghosts, May
<1> USE DEF UpscaleTypeOK, EngineType, DlssType, StandType, TexturesType, NgxType,
           ResolutionType, CaptureType, Points
<1>2. OnInv'
  BY DEF OnInv, Installed, Acquire, NoCapture, Ghosts, May
<1>3. OffInv'
  BY DEF OffInv, Acquire, NoCapture, Ghosts, May
<1>4. LentInv'
  BY DEF LentInv, Acquire, NoCapture, Ghosts, May
<1>5. DepthInv'
  BY DEF DepthInv, Acquire, NoCapture, Ghosts, May
<1>6. MotionInv'
  BY DEF MotionInv, Acquire, NoCapture, Ghosts, May
<1>7. HistoryInv'
  BY DEF HistoryInv, Excuse, Acquire, NoCapture, Ghosts, May
<1>8. ConsumersInv'
  BY DEF ConsumersInv, Acquire, NoCapture, Ghosts, May
<1> QED
  BY <1>1, <1>2, <1>3, <1>4, <1>5, <1>6, <1>7, <1>8

\* A consumer lets the capture go.
LEMMA ReleaseKeeps ==
    ASSUME UpscaleInv, UNCHANGED hooks, NEW c \in Consumers, Release(c)
    PROVE  UpscaleInv'
<1> USE DEF UpscaleInv
<1>1. UpscaleTypeOK'
  <2>1. capture' \in CaptureType
    BY DEF UpscaleTypeOK, CaptureType, Consumers, Release, NoCapture, May
  <2> QED
    BY <2>1 DEF UpscaleTypeOK, Points, Release, NoCapture, May
<1> USE DEF UpscaleTypeOK, EngineType, DlssType, StandType, TexturesType, NgxType,
           ResolutionType, CaptureType, Points
<1>2. OnInv'
  BY DEF OnInv, Installed, Release, NoCapture, May
<1>3. OffInv'
  BY DEF OffInv, Release, NoCapture, May
<1>4. LentInv'
  BY DEF LentInv, Release, NoCapture, May
<1>5. DepthInv'
  BY DEF DepthInv, Release, NoCapture, May
<1>6. MotionInv'
  BY DEF MotionInv, Release, NoCapture, May
<1>7. HistoryInv'
  BY DEF HistoryInv, Excuse, Release, NoCapture, May
<1>8. ConsumersInv'
  BY DEF ConsumersInv, Release, NoCapture, May
<1> QED
  BY <1>1, <1>2, <1>3, <1>4, <1>5, <1>6, <1>7, <1>8

\* The consumers say what they want.
LEMMA TickFramesKeeps ==
    ASSUME UpscaleInv, UNCHANGED hooks, TickFrames
    PROVE  UpscaleInv'
<1> USE DEF UpscaleInv
<1>1. UpscaleTypeOK'
  <2>1. capture' \in CaptureType
    BY DEF UpscaleTypeOK, CaptureType, Consumers, TickFrames, Starts, Blocked, FgBlocked,
           NeuralBlocker
  <2>2. dlss' \in DlssType
    BY DEF UpscaleTypeOK, DlssType, Modes, One, TickFrames, Starts, Blocked, FgBlocked,
           NeuralBlocker
  <2>3. textures' \in TexturesType
    BY DEF UpscaleTypeOK, TexturesType, Modes, One, TickFrames, Starts, Blocked, FgBlocked,
           NeuralBlocker
  <2> QED
    BY <2>1, <2>2, <2>3
       DEF UpscaleTypeOK, Points, TickFrames, Starts, Blocked, FgBlocked, NeuralBlocker,
           CaptureType, Consumers
<1> USE DEF UpscaleTypeOK, EngineType, DlssType, StandType, TexturesType, NgxType,
           ResolutionType, CaptureType, Points
<1>2. OnInv'
  BY DEF OnInv, Installed, TickFrames, Starts, Blocked, FgBlocked, NeuralBlocker
<1>3. OffInv'
  BY DEF OffInv, TickFrames, Starts, Blocked, FgBlocked, NeuralBlocker
<1>4. LentInv'
  BY DEF LentInv, TickFrames, Starts, Blocked, FgBlocked, NeuralBlocker
<1>5. DepthInv'
  BY DEF DepthInv, TickFrames, Starts, Blocked, FgBlocked, NeuralBlocker
<1>6. MotionInv'
  BY DEF MotionInv, TickFrames, Starts, Blocked, FgBlocked, NeuralBlocker
<1>7. HistoryInv'
  BY DEF HistoryInv, Excuse, TickFrames, Starts, Blocked, FgBlocked, NeuralBlocker
<1>8. ConsumersInv'
  BY DEF ConsumersInv, TickFrames, Starts, Blocked, FgBlocked, NeuralBlocker
<1> QED
  BY <1>1, <1>2, <1>3, <1>4, <1>5, <1>6, <1>7, <1>8

\* The game goes on between two frames.
LEMMA SimulateKeeps ==
    ASSUME UpscaleInv, UNCHANGED hooks, Simulate
    PROVE  UpscaleInv'
<1> USE DEF UpscaleInv
<1>1. PICK m \in Menus, jump \in BOOLEAN, mode \in Modes :
         /\ menu' = m /\ dlss' = [dlss EXCEPT !.chosen = mode]
         /\ far' = far \cup (IF jump THEN {"dlss", "capture"} ELSE {})
         /\ stale' = (stale \/ jump)
         /\ changes' = changes + Changed(m, jump, mode)
  BY DEF Simulate
<1>2. changes' \in Nat
  BY <1>1, ChangedIsNat DEF UpscaleTypeOK
<1>3. at = "simulate" /\ at' = "begin"
       /\ UNCHANGED <<engine, stand, textures, ngx, resolution, capture, picture, own, gap,
                      owed, excused, fails>>
  BY DEF Simulate
<1>4. UpscaleTypeOK'
  <2>1. dlss' \in DlssType
    BY <1>1, <1>2, <1>3 DEF UpscaleTypeOK, DlssType, Modes, One
  <2> QED
    BY <2>1, <1>1, <1>2, <1>3 DEF UpscaleTypeOK, Points
<1> USE DEF UpscaleTypeOK, EngineType, DlssType, StandType, TexturesType, NgxType,
           ResolutionType, CaptureType, Points
<1>5. OnInv'
  BY <1>1, <1>2, <1>3 DEF OnInv, Installed
<1>6. OffInv'
  BY <1>1, <1>2, <1>3 DEF OffInv
<1>7. LentInv'
  BY <1>1, <1>2, <1>3 DEF LentInv
<1>8. DepthInv'
  BY <1>1, <1>2, <1>3 DEF DepthInv
<1>9. MotionInv'
  BY <1>1, <1>2, <1>3 DEF MotionInv
<1>10. HistoryInv'
  BY <1>1, <1>2, <1>3 DEF HistoryInv, Excuse
<1>11. ConsumersInv'
  BY <1>1, <1>2, <1>3 DEF ConsumersInv
<1> QED
  BY <1>4, <1>5, <1>6, <1>7, <1>8, <1>9, <1>10, <1>11

\* Installed, both of the engine's switches can be set.
LEMMA SwitchesAreSet ==
    ASSUME Installed, NEW e \in EngineType, NEW b \in BOOLEAN
    PROVE  /\ SetDynamicResolutionViewport(e, b) = [e EXCEPT !.viewport = b]
           /\ SkipDynamicResolutionUpdate(e, b) = [e EXCEPT !.skip = b]
BY AllSites DEF Sites, SetDynamicResolutionViewport, SkipDynamicResolutionUpdate

\* What ProxyTargets makes ready at the beginning of a frame is neither in
\* nor biased, and notes the engine's own samplers.
LEMMA PreparedKeeps ==
    ASSUME stand \in StandType, engine.samplers = "own", NEW m \in Modes, NEW p \in Prepared(m)
    PROVE  /\ p.stand \in StandType /\ p.stand.biased = stand.biased
           /\ p.stand.swapped = stand.swapped
           /\ p.ok \in BOOLEAN
<1>1. PICK u \in Updated(stand, m) : p \in (IF u.ok THEN Sampled(u.stand, m) ELSE {u})
  BY DEF Prepared
<1>2. /\ u.stand \in StandType /\ u.stand.biased = stand.biased
      /\ u.stand.swapped = stand.swapped /\ u.ok \in BOOLEAN
  <2>1. \/ u = Outcome(stand, TRUE)
        \/ u = Outcome([stand EXCEPT !.ratio = m, !.made = m # One], TRUE)
        \/ u = Outcome([stand EXCEPT !.ratio = One, !.made = FALSE], FALSE)
        \/ u = Outcome([stand EXCEPT !.ratio = m, !.made = FALSE], FALSE)
    BY <1>1 DEF Updated
  <2>2. One \in Modes /\ m \in Modes /\ (m # One) \in BOOLEAN
    BY DEF Modes
  <2>3. CASE u = Outcome(stand, TRUE)
    <3>1. u.stand = stand /\ u.ok = TRUE
      BY <2>3 DEF Outcome
    <3> QED
      BY <3>1
  <2>4. CASE u = Outcome([stand EXCEPT !.ratio = m, !.made = m # One], TRUE)
    <3>1. u.stand = [stand EXCEPT !.ratio = m, !.made = m # One] /\ u.ok = TRUE
      BY <2>4 DEF Outcome
    <3> QED
      BY <2>2, <3>1 DEF StandType
  <2>5. CASE \/ u = Outcome([stand EXCEPT !.ratio = One, !.made = FALSE], FALSE)
             \/ u = Outcome([stand EXCEPT !.ratio = m, !.made = FALSE], FALSE)
    <3>1. PICK x \in {One, m} : u = Outcome([stand EXCEPT !.ratio = x, !.made = FALSE], FALSE)
      BY <2>5
    <3>2. u.stand = [stand EXCEPT !.ratio = x, !.made = FALSE] /\ u.ok = FALSE
      BY <3>1 DEF Outcome
    <3>3. x \in Modes
      BY <2>2
    <3>4. /\ u.stand \in StandType /\ u.stand.biased = stand.biased
          /\ u.stand.swapped = stand.swapped
      BY <3>2, <3>3 DEF StandType
    <3> QED
      BY <3>2, <3>4
  <2> QED
    BY <2>1, <2>3, <2>4, <2>5
<1>3. CASE p \in Sampled(u.stand, m)
  <2> DEFINE t == [u.stand EXCEPT !.snapshot = engine.samplers]
  <2>1. t = u.stand
    BY <1>2 DEF StandType
  <2> HIDE DEF t
  <2>2. \/ p = Outcome(t, TRUE)
        \/ p = Outcome([t EXCEPT !.bias = m], TRUE)
        \/ p = Outcome([t EXCEPT !.bias = "none"], FALSE)
        \/ p = Outcome(u.stand, FALSE)
    BY <1>3 DEF Sampled, t
  <2>3. /\ \/ p.stand = u.stand
           \/ p.stand = [u.stand EXCEPT !.bias = m]
           \/ p.stand = [u.stand EXCEPT !.bias = "none"]
        /\ p.ok = TRUE \/ p.ok = FALSE
    BY <2>1, <2>2 DEF Outcome
  <2> QED
    BY <1>2, <2>3 DEF StandType
<1>4. CASE p = u
  BY <1>2, <1>4
<1> QED
  BY <1>1, <1>3, <1>4

\* Around a pass of the world the samplers are biased and unbiased.
LEMMA AroundWorldPassDoes ==
    ASSUME UpscaleInv, NEW site \in Sites, NEW before \in BOOLEAN, AroundWorldPass(site, before),
           before => ~stand.biased
    PROVE  \E b \in BOOLEAN :
              /\ engine' = [engine EXCEPT !.samplers = IF b THEN "biased" ELSE "own"]
              /\ stand' = [stand EXCEPT !.biased = b]
              /\ b => before /\ dlss.upscaling /\ stand.bias # "none"
<1>1. engine \in EngineType /\ stand \in StandType /\ dlss \in DlssType
  BY DEF UpscaleInv, UpscaleTypeOK
<1>2. Handled(site) /\ dlss.upscaling <=> dlss.upscaling
  BY HandledIsOn DEF UpscaleInv, OffInv
<1>3. engine.samplers = (IF stand.biased THEN "biased" ELSE "own") /\ stand.snapshot = "own"
      /\ (stand.biased => dlss.upscaling)
  BY <1>1 DEF UpscaleInv, LentInv, EngineType, StandType
<1>4. engine = [engine EXCEPT !.samplers = IF stand.biased THEN "biased" ELSE "own"]
      /\ stand = [stand EXCEPT !.biased = stand.biased] /\ stand.biased \in BOOLEAN
  BY <1>1, <1>3 DEF EngineType, StandType
<1>5. CASE ~dlss.upscaling
  <2>1. engine' = engine /\ stand' = stand
    BY <1>2, <1>5 DEF AroundWorldPass
  <2>2. ~stand.biased
    BY <1>3, <1>5
  <2> QED
    BY <1>4, <2>1, <2>2
<1>6. CASE dlss.upscaling /\ before
  <2>1. engine' = BiasSamplers(engine, stand).engine /\ stand' = BiasSamplers(engine, stand).stand
    BY <1>2, <1>6 DEF AroundWorldPass
  <2>2. CASE stand.bias # "none"
    <3>1. engine' = [engine EXCEPT !.samplers = "biased"] /\ stand' = [stand EXCEPT !.biased = TRUE]
      BY <1>6, <2>1, <2>2 DEF BiasSamplers, Pair
    <3> QED
      BY <1>6, <2>2, <3>1
  <2>3. CASE stand.bias = "none"
    <3>1. engine' = engine /\ stand' = stand
      BY <2>1, <2>3 DEF BiasSamplers, Pair
    <3>2. ~stand.biased
      BY <1>6
    <3> QED
      BY <1>4, <3>1, <3>2
  <2> QED
    BY <2>2, <2>3
<1>7. CASE dlss.upscaling /\ ~before
  <2>1. engine' = RestoreSamplers(engine, stand).engine
        /\ stand' = RestoreSamplers(engine, stand).stand
    BY <1>2, <1>7 DEF AroundWorldPass
  <2>2. CASE stand.biased
    <3>1. engine' = [engine EXCEPT !.samplers = "own"] /\ stand' = [stand EXCEPT !.biased = FALSE]
      BY <1>3, <2>1, <2>2 DEF RestoreSamplers, Pair
    <3> QED
      BY <3>1
  <2>3. CASE ~stand.biased
    <3>1. engine' = engine /\ stand' = stand
      BY <2>1, <2>3 DEF RestoreSamplers, Pair
    <3> QED
      BY <1>4, <2>3, <3>1
  <2> QED
    BY <2>2, <2>3
<1> QED
  BY <1>5, <1>6, <1>7

\* The frame begins, with DLSS.
LEMMA AfterTemporalDataKeeps ==
    ASSUME UpscaleInv, UNCHANGED hooks, AfterTemporalData
    PROVE  UpscaleInv'
<1> USE DEF UpscaleInv
<1>1. at = "begin" /\ dlss.on /\ at' \in {"tick", "world"} /\ ~stand.biased /\ ~stand.swapped
      /\ ~dlss.overridden /\ engine.samplers = "own"
  BY DEF AfterTemporalData, World, Handled, LentInv, DepthInv, UpscaleTypeOK, EngineType
<1>2. PICK p \in Prepared(dlss.chosen), seen \in BOOLEAN :
        LET active    == ~Native
            upscaling == active /\ dlss.chosen # One /\ p.ok
            ratio     == IF upscaling THEN dlss.chosen ELSE One
            reset     == dlss.reset \/ NeedsReset(active, upscaling, seen)
        IN  /\ stand' = p.stand
            /\ Count(~p.ok)
            /\ dlss' = [dlss EXCEPT !.active = active, !.upscaling = upscaling, !.ratio = ratio,
                                    !.mode = dlss.chosen, !.wasNative = Native,
                                    !.camera = dlss.camera \/ (active /\ seen), !.reset = reset]
            /\ engine' = [SkipDynamicResolutionUpdate(engine, upscaling)
                             EXCEPT !.jitter = active, !.ratio = ratio, !.viewport = TRUE]
            /\ resolution' = [resolution EXCEPT !.render = ratio]
            /\ picture' = ratio
            /\ far' = IF active /\ seen THEN far \ {"dlss"} ELSE far
            /\ stale' = (stale \/ ~active \/ upscaling # dlss.upscaling)
            /\ excused' = Overlooked(active, seen, reset)
  BY DEF AfterTemporalData
<1>3. stand' = p.stand /\ fails' \in Nat /\ fails' >= fails
  BY <1>2 DEF Count, UpscaleTypeOK
<1>4. p.stand \in StandType /\ ~p.stand.biased /\ ~p.stand.swapped /\ p.ok \in BOOLEAN
  BY <1>1, PreparedKeeps DEF UpscaleTypeOK, DlssType
<1>5. PICK active \in BOOLEAN, upscaling \in BOOLEAN, ratio \in Modes, camera \in BOOLEAN,
           reset \in BOOLEAN :
        /\ active = ~Native /\ (upscaling => active)
        /\ reset <=> dlss.reset \/ NeedsReset(active, upscaling, seen)
        /\ dlss' = [dlss EXCEPT !.active = active, !.upscaling = upscaling, !.ratio = ratio,
                                !.mode = dlss.chosen, !.wasNative = ~active,
                                !.camera = camera, !.reset = reset]
        /\ engine' = [engine EXCEPT !.skip = upscaling, !.jitter = active, !.ratio = ratio,
                                    !.viewport = TRUE]
        /\ resolution' = [resolution EXCEPT !.render = ratio]
        /\ picture' = ratio
        /\ far' = IF active /\ seen THEN far \ {"dlss"} ELSE far
        /\ stale' = (stale \/ ~active \/ upscaling # dlss.upscaling)
        /\ excused' = Overlooked(active, seen, reset)
  <2> DEFINE active    == ~Native
             upscaling == active /\ dlss.chosen # One /\ p.ok
             ratio     == IF upscaling THEN dlss.chosen ELSE One
             camera    == dlss.camera \/ (active /\ seen)
             reset     == dlss.reset \/ NeedsReset(active, upscaling, seen)
  <2>1. active \in BOOLEAN /\ upscaling \in BOOLEAN /\ ratio \in Modes /\ (upscaling => active)
        /\ active = ~Native /\ Native = ~active
    BY DEF UpscaleTypeOK, DlssType, Modes, Native
  <2>r. camera \in BOOLEAN /\ reset \in BOOLEAN
    OBVIOUS
  <2>2. SkipDynamicResolutionUpdate(engine, upscaling) = [engine EXCEPT !.skip = upscaling]
    BY <1>1, <2>1, SwitchesAreSet DEF OnInv, UpscaleTypeOK
  <2>3. /\ dlss' = [dlss EXCEPT !.active = active, !.upscaling = upscaling, !.ratio = ratio,
                                !.mode = dlss.chosen, !.wasNative = Native,
                                !.camera = camera, !.reset = reset]
        /\ engine' = [SkipDynamicResolutionUpdate(engine, upscaling)
                        EXCEPT !.jitter = active, !.ratio = ratio, !.viewport = TRUE]
        /\ resolution' = [resolution EXCEPT !.render = ratio]
        /\ picture' = ratio
        /\ far' = IF active /\ seen THEN far \ {"dlss"} ELSE far
        /\ stale' = (stale \/ ~active \/ upscaling # dlss.upscaling)
        /\ excused' = Overlooked(active, seen, reset)
    BY <1>2
  <2>6. reset <=> dlss.reset \/ NeedsReset(active, upscaling, seen)
    OBVIOUS
  <2> HIDE DEF active, upscaling, ratio, camera, reset
  <2>4. engine' = [engine EXCEPT !.skip = upscaling, !.jitter = active, !.ratio = ratio,
                                 !.viewport = TRUE]
    BY <2>2, <2>3 DEF UpscaleTypeOK, EngineType
  <2>5. dlss' = [dlss EXCEPT !.active = active, !.upscaling = upscaling, !.ratio = ratio,
                             !.mode = dlss.chosen, !.wasNative = ~active,
                             !.camera = camera, !.reset = reset]
    BY <2>1, <2>3
  <2>w. /\ active \in BOOLEAN /\ upscaling \in BOOLEAN /\ ratio \in Modes
        /\ camera \in BOOLEAN /\ reset \in BOOLEAN
    BY <2>1, <2>r
  <2> USE <2>w
  <2> WITNESS active \in BOOLEAN, upscaling \in BOOLEAN, ratio \in Modes, camera \in BOOLEAN,
              reset \in BOOLEAN
  <2> QED
    BY <2>1, <2>3, <2>4, <2>5, <2>6
<1>6. UNCHANGED <<menu, textures, ngx, capture, own, gap, owed, changes>>
  BY DEF AfterTemporalData
<1>e. excused' \in {excused, excused \ {"camera"}, excused \cup {"camera"}}
  BY <1>5 DEF Overlooked
<1>7. UpscaleTypeOK'
  <2>1. engine' \in EngineType
    BY <1>5 DEF UpscaleTypeOK, EngineType
  <2>2. dlss' \in DlssType
    <3>1. dlss \in DlssType /\ (~active) \in BOOLEAN
      BY DEF UpscaleTypeOK
    <3>2. PICK native \in BOOLEAN :
            dlss' = [dlss EXCEPT !.active = active, !.upscaling = upscaling, !.ratio = ratio,
                                 !.mode = dlss.chosen, !.wasNative = native, !.camera = camera,
                                 !.reset = reset]
      BY <1>5, <3>1
    <3>3. /\ active \in BOOLEAN /\ upscaling \in BOOLEAN /\ camera \in BOOLEAN
          /\ reset \in BOOLEAN /\ ratio \in Modes /\ dlss.chosen \in Modes
      BY <1>5, <3>1 DEF DlssType
    <3>4. [dlss EXCEPT !.active = active, !.upscaling = upscaling, !.ratio = ratio,
                       !.mode = dlss.chosen] \in DlssType
      BY <3>1, <3>3 DEF DlssType
    <3>5. \A d \in DlssType : [d EXCEPT !.wasNative = native, !.camera = camera, !.reset = reset]
                                \in DlssType
      BY <3>2, <3>3 DEF DlssType
    <3>6. dlss' = [[dlss EXCEPT !.active = active, !.upscaling = upscaling, !.ratio = ratio,
                                !.mode = dlss.chosen]
                      EXCEPT !.wasNative = native, !.camera = camera, !.reset = reset]
      BY <3>1, <3>2 DEF DlssType
    <3> QED
      BY <3>4, <3>5, <3>6
  <2>3. stand' \in StandType
    BY <1>1, <1>3, <1>4, <1>5, <1>6 DEF UpscaleTypeOK, StandType, Modes, One
  <2>4. resolution' \in ResolutionType
    BY <1>1, <1>3, <1>4, <1>5, <1>6 DEF UpscaleTypeOK, ResolutionType, Modes, One
  <2> QED
    BY <2>1, <2>2, <2>3, <2>4, <1>1, <1>3, <1>4, <1>5, <1>6, <1>e DEF UpscaleTypeOK, Points
<1> USE DEF UpscaleTypeOK, EngineType, DlssType, StandType, TexturesType, NgxType,
           ResolutionType, CaptureType, Points
<1>8. OnInv'
  BY <1>1, <1>3, <1>4, <1>5, <1>6 DEF OnInv, Installed
<1>9. OffInv'
  BY <1>1, <1>3, <1>4, <1>5, <1>6 DEF OffInv
<1>10. LentInv'
  BY <1>1, <1>3, <1>4, <1>5, <1>6 DEF LentInv
<1>11. DepthInv'
  BY <1>1, <1>3, <1>4, <1>5, <1>6 DEF DepthInv
<1>12. MotionInv'
  BY <1>1, <1>3, <1>4, <1>5, <1>6 DEF MotionInv
<1>13. HistoryInv'
  <2>1. /\ dlss'.reset = reset /\ dlss'.active = active /\ dlss'.wasNative = ~active
        /\ dlss'.on = dlss.on
    BY <1>5
  <2>2. stale' => reset \/ ~active \/ Excuse'
    <3>1. CASE reset \/ ~active
      BY <3>1
    <3>2. CASE ~reset /\ active /\ stale'
      <4>1. ~dlss.reset /\ ~dlss.wasNative /\ upscaling = dlss.upscaling /\ ~Cut(active, seen)
        BY <1>5, <3>2 DEF NeedsReset
      <4>2. stale
        BY <1>5, <3>2, <4>1
      <4>3. "dlss" \in far \/ Excuse
        BY <1>1, <4>1, <4>2 DEF HistoryInv
      <4>4. excused' = IF "dlss" \in far THEN excused \cup {"camera"} ELSE excused
        BY <1>5, <3>2, <4>1 DEF Overlooked
      <4> QED
        BY <4>3, <4>4 DEF Excuse
    <3> QED
      BY <3>1, <3>2
  <2> QED
    BY <2>1, <2>2 DEF HistoryInv
<1>14. ConsumersInv'
  BY <1>1, <1>3, <1>4, <1>5, <1>6, <1>e DEF ConsumersInv
<1> QED
  BY <1>7, <1>8, <1>9, <1>10, <1>11, <1>12, <1>13, <1>14

\* The frame begins, and the graphics state is not there.
LEMMA BeginStatelessKeeps ==
    ASSUME UpscaleInv, UNCHANGED hooks, BeginStateless
    PROVE  UpscaleInv'
<1> USE DEF UpscaleInv
<1>1. /\ at = "begin" /\ dlss.on /\ at' \in {"tick", "world"} /\ fails' = fails + 1
      /\ engine' = [engine EXCEPT !.viewport = TRUE] /\ picture' = engine.ratio
      /\ stale' = (stale \/ ~dlss.active)
      /\ excused' = Overlooked(dlss.active, FALSE, dlss.reset)
      /\ UNCHANGED <<menu, dlss, stand, textures, ngx, resolution, capture, far, own, gap, owed,
                     changes>>
  BY DEF BeginStateless, World, Handled
<1>2. excused' \in {excused, excused \ {"camera"}, excused \cup {"camera"}}
  BY <1>1 DEF Overlooked
<1>3. UpscaleTypeOK'
  <2>1. engine' \in EngineType /\ picture' \in Modes
    BY <1>1 DEF UpscaleTypeOK, EngineType
  <2>2. stale' \in BOOLEAN
    BY <1>1
  <2>3. excused' \in SUBSET {"evaluate", "camera", "slot"}
    BY <1>2 DEF UpscaleTypeOK
  <2>4. fails' \in Nat
    BY <1>1 DEF UpscaleTypeOK
  <2> QED
    BY <1>1, <2>1, <2>2, <2>3, <2>4 DEF UpscaleTypeOK, Points
<1> USE DEF UpscaleTypeOK, EngineType, DlssType, StandType, TexturesType, NgxType,
           ResolutionType, CaptureType, Points
<1>4. OnInv' /\ OffInv'
  BY <1>1 DEF OnInv, OffInv, Installed
<1>5. LentInv'
  BY <1>1 DEF LentInv
<1>6. DepthInv'
  BY <1>1 DEF DepthInv
<1>7. MotionInv'
  BY <1>1 DEF MotionInv
<1>8. HistoryInv'
  <2>1. stale' => dlss.reset \/ ~dlss.active \/ Excuse'
    <3>1. CASE dlss.reset \/ ~dlss.active
      BY <3>1
    <3>2. CASE ~dlss.reset /\ dlss.active /\ stale'
      <4>1. "dlss" \in far \/ Excuse
        BY <1>1, <3>2 DEF HistoryInv
      <4>2. excused' = IF "dlss" \in far THEN excused \cup {"camera"} ELSE excused
        BY <1>1, <3>2 DEF Overlooked, Cut
      <4> QED
        BY <4>1, <4>2 DEF Excuse
    <3> QED
      BY <3>1, <3>2
  <2> QED
    BY <1>1, <2>1 DEF HistoryInv
<1>9. ConsumersInv'
  <2>1. "slot" \in excused => "slot" \in excused'
    BY <1>2
  <2>2. UNCHANGED <<capture, owed, gap>>
    BY <1>1
  <2> QED
    BY <2>1, <2>2 DEF ConsumersInv
<1> QED
  BY <1>3, <1>4, <1>5, <1>6, <1>7, <1>8, <1>9

\* The frame begins, without DLSS.
LEMMA BeginWithoutKeeps ==
    ASSUME UpscaleInv, UNCHANGED hooks, BeginWithout
    PROVE  UpscaleInv'
<1> USE DEF UpscaleInv
<1>1. ~dlss.on
  BY HandledIsOn DEF BeginWithout, Sites
<1>2. UpscaleTypeOK'
  <2>1. engine' \in EngineType
    BY <1>1 DEF UpscaleTypeOK, EngineType, Modes, One, BeginWithout, World, Ghosts
  <2> QED
    BY <2>1, <1>1 DEF UpscaleTypeOK, Points, BeginWithout, World, Ghosts, Modes, One
<1> USE DEF UpscaleTypeOK, EngineType, DlssType, StandType, TexturesType, NgxType,
           ResolutionType, CaptureType, Points
<1>3. OnInv'
  BY <1>1 DEF OnInv, Installed, BeginWithout, World, Ghosts
<1>4. OffInv'
  BY <1>1 DEF OffInv, BeginWithout, World, Ghosts
<1>5. LentInv'
  BY <1>1 DEF LentInv, BeginWithout, World, Ghosts
<1>6. DepthInv'
  BY <1>1 DEF DepthInv, BeginWithout, World, Ghosts
<1>7. MotionInv'
  BY <1>1 DEF MotionInv, BeginWithout, World, Ghosts
<1>8. HistoryInv'
  BY <1>1 DEF HistoryInv, Excuse, BeginWithout, World, Ghosts
<1>9. ConsumersInv'
  BY <1>1 DEF ConsumersInv, BeginWithout, World, Ghosts
<1> QED
  BY <1>2, <1>3, <1>4, <1>5, <1>6, <1>7, <1>8, <1>9

\* The prepass.
LEMMA PrePassKeeps ==
    ASSUME UpscaleInv, UNCHANGED hooks, PrePass
    PROVE  UpscaleInv'
<1> USE DEF UpscaleInv
<1>1. PICK before \in BOOLEAN : /\ AroundWorldPass("prePass", before)
                                /\ before => at = "world" /\ at' = "inPrepass"
                                /\ ~before => at = "inPrepass" /\ at' = "composite"
  BY DEF PrePass
<1>2. PICK b \in BOOLEAN : /\ engine' = [engine EXCEPT !.samplers = IF b THEN "biased" ELSE "own"]
                           /\ stand' = [stand EXCEPT !.biased = b]
                           /\ b => before /\ dlss.upscaling /\ stand.bias # "none"
  <2>1. before => ~stand.biased
    BY <1>1 DEF LentInv
  <2> QED
    BY <1>1, <2>1, AroundWorldPassDoes DEF Sites
<1>3. UNCHANGED <<dlss, textures, resolution, fails>> /\ UNCHANGED Rest /\ UNCHANGED Ghosts
  BY <1>1 DEF AroundWorldPass
<1>4. UpscaleTypeOK'
  <2>1. engine' \in EngineType
    BY <1>1, <1>2, <1>3 DEF UpscaleTypeOK, EngineType, Modes, One, Rest, Ghosts
  <2>2. stand' \in StandType
    BY <1>1, <1>2, <1>3 DEF UpscaleTypeOK, StandType, Modes, One, Rest, Ghosts
  <2> QED
    BY <2>1, <2>2, <1>1, <1>2, <1>3 DEF UpscaleTypeOK, Points, Rest, Ghosts
<1> USE DEF UpscaleTypeOK, EngineType, DlssType, StandType, TexturesType, NgxType,
           ResolutionType, CaptureType, Points
<1>5. OnInv'
  BY <1>1, <1>2, <1>3 DEF OnInv, Installed, Rest, Ghosts
<1>6. OffInv'
  BY <1>1, <1>2, <1>3 DEF OffInv, Rest, Ghosts
<1>7. LentInv'
  BY <1>1, <1>2, <1>3 DEF LentInv, Rest, Ghosts
<1>8. DepthInv'
  BY <1>1, <1>2, <1>3 DEF DepthInv, Rest, Ghosts
<1>9. MotionInv'
  BY <1>1, <1>2, <1>3 DEF MotionInv, Rest, Ghosts
<1>10. HistoryInv'
  BY <1>1, <1>2, <1>3 DEF HistoryInv, Excuse, Rest, Ghosts
<1>11. ConsumersInv'
  BY <1>1, <1>2, <1>3 DEF ConsumersInv, Rest, Ghosts
<1> QED
  BY <1>4, <1>5, <1>6, <1>7, <1>8, <1>9, <1>10, <1>11

\* The forward pass.
LEMMA ForwardKeeps ==
    ASSUME UpscaleInv, UNCHANGED hooks, Forward
    PROVE  UpscaleInv'
<1> USE DEF UpscaleInv
<1>1. PICK before \in BOOLEAN : /\ AroundWorldPass("forward", before)
                                /\ before => at = "forward" /\ at' = "inForward"
                                /\ ~before => at = "inForward" /\ at' = "evaluate"
  BY DEF Forward
<1>2. PICK b \in BOOLEAN : /\ engine' = [engine EXCEPT !.samplers = IF b THEN "biased" ELSE "own"]
                           /\ stand' = [stand EXCEPT !.biased = b]
                           /\ b => before /\ dlss.upscaling /\ stand.bias # "none"
  <2>1. before => ~stand.biased
    BY <1>1 DEF LentInv
  <2> QED
    BY <1>1, <2>1, AroundWorldPassDoes DEF Sites
<1>3. UNCHANGED <<dlss, textures, resolution, fails>> /\ UNCHANGED Rest /\ UNCHANGED Ghosts
  BY <1>1 DEF AroundWorldPass
<1>4. UpscaleTypeOK'
  <2>1. engine' \in EngineType
    BY <1>1, <1>2, <1>3 DEF UpscaleTypeOK, EngineType, Modes, One, Rest, Ghosts
  <2>2. stand' \in StandType
    BY <1>1, <1>2, <1>3 DEF UpscaleTypeOK, StandType, Modes, One, Rest, Ghosts
  <2> QED
    BY <2>1, <2>2, <1>1, <1>2, <1>3 DEF UpscaleTypeOK, Points, Rest, Ghosts
<1> USE DEF UpscaleTypeOK, EngineType, DlssType, StandType, TexturesType, NgxType,
           ResolutionType, CaptureType, Points
<1>5. OnInv'
  BY <1>1, <1>2, <1>3 DEF OnInv, Installed, Rest, Ghosts
<1>6. OffInv'
  BY <1>1, <1>2, <1>3 DEF OffInv, Rest, Ghosts
<1>7. LentInv'
  BY <1>1, <1>2, <1>3 DEF LentInv, Rest, Ghosts
<1>8. DepthInv'
  BY <1>1, <1>2, <1>3 DEF DepthInv, Rest, Ghosts
<1>9. MotionInv'
  BY <1>1, <1>2, <1>3 DEF MotionInv, Rest, Ghosts
<1>10. HistoryInv'
  BY <1>1, <1>2, <1>3 DEF HistoryInv, Excuse, Rest, Ghosts
<1>11. ConsumersInv'
  BY <1>1, <1>2, <1>3 DEF ConsumersInv, Rest, Ghosts
<1> QED
  BY <1>4, <1>5, <1>6, <1>7, <1>8, <1>9, <1>10, <1>11

\* The composite begins.
LEMMA CompositeBeginKeeps ==
    ASSUME UpscaleInv, UNCHANGED hooks, CompositeBegin
    PROVE  UpscaleInv'
<1> USE DEF UpscaleInv
<1>1. at = "composite" /\ at' = "inComposite" /\ ~stand.swapped /\ ~dlss.overridden
      /\ engine.depth = "own" /\ engine.targets = "own" /\ ~resolution.depthFull
  BY DEF CompositeBegin, LentInv, DepthInv, UpscaleTypeOK, EngineType
<1>2. UNCHANGED Rest /\ UNCHANGED Ghosts
  BY DEF CompositeBegin
<1>3. /\ engine' = [engine EXCEPT !.viewport = IF dlss.upscaling THEN FALSE ELSE engine.viewport,
                                 !.ratio = IF dlss.upscaling THEN One ELSE engine.ratio,
                                 !.targets = IF dlss.upscaling /\ stand.made THEN "stand-ins" ELSE "own",
                                 !.depth = IF dlss.upscaling /\ textures'.depth THEN "full" ELSE "own"]
      /\ dlss' = [dlss EXCEPT !.overridden = dlss.upscaling /\ textures'.depth,
                              !.full = dlss.full \/ dlss.upscaling]
      /\ resolution' = [resolution EXCEPT !.depthFull = dlss.upscaling /\ textures'.depth]
      /\ stand' = [stand EXCEPT !.swapped = dlss.upscaling]
      /\ textures' \in TexturesType /\ (dlss.on => textures'.shaders)
      /\ dlss.full \/ dlss.upscaling => (textures'.depth /\ textures'.written) \/ fails' > 0
      /\ fails' \in Nat
  <2>1. /\ engine \in EngineType /\ dlss \in DlssType /\ resolution \in ResolutionType
        /\ stand \in StandType /\ textures \in TexturesType /\ fails \in Nat
    BY DEF UpscaleTypeOK
  <2>2. CASE dlss.upscaling
    <3>1. dlss.on /\ Installed /\ Handled("composite")
      BY <2>2, HandledIsOn DEF OffInv, OnInv, Sites
    <3> DEFINE e == [SetDynamicResolutionViewport(engine, FALSE) EXCEPT !.ratio = One]
               f == [e EXCEPT !.targets = IF stand.made THEN "stand-ins" ELSE "own"]
               w == Swap(e, stand)
    <3>2. PICK t \in FilledBy(dlss) :
             /\ textures' = t /\ Count(~dlss.full /\ Failed(t))
             /\ Apply(OverrideDepth(w.engine, dlss, resolution, t))
             /\ stand' = w.stand
      BY <2>2, <3>1 DEF CompositeBegin
    <3>3. e = [engine EXCEPT !.viewport = FALSE, !.ratio = One]
      BY <2>1, <3>1, SwitchesAreSet
    <3> HIDE DEF e
    <3>4. e \in EngineType /\ e.targets = "own" /\ e.depth = "own"
      BY <1>1, <2>1, <3>3 DEF EngineType, Modes, One
    <3>5. Swap(e, stand) = Pair(f, [stand EXCEPT !.swapped = TRUE])
      BY <1>1, <3>4 DEF Swap
    <3>6. f \in EngineType /\ f.depth = "own"
      BY <3>4 DEF EngineType
    <3> HIDE DEF f
    <3>7. w.engine = f /\ w.stand = [stand EXCEPT !.swapped = TRUE]
      BY <3>5 DEF Pair
    <3> HIDE DEF w
    <3>8. /\ textures' = t /\ Count(~dlss.full /\ Failed(t))
          /\ Apply(OverrideDepth(f, dlss, resolution, t))
          /\ stand' = [stand EXCEPT !.swapped = TRUE]
      BY <3>2, <3>7
    <3>9. /\ t \in TexturesType /\ t.shaders
          /\ (t.depth /\ t.written) \/ fails' > 0
          /\ fails' \in Nat
      BY <1>1, <3>2, <3>1, <3>8, FilledByDoes DEF OnInv
    <3>10. dlss.overridden = FALSE /\ resolution.depthFull = FALSE
      BY <1>1, <2>1 DEF DlssType, ResolutionType
    <3>11. /\ engine' = [f EXCEPT !.depth = DepthOf(t)]
          /\ dlss' = [dlss EXCEPT !.overridden = t.depth, !.full = TRUE]
          /\ resolution' = [resolution EXCEPT !.depthFull = t.depth]
      <4>1. CASE t.depth
        <5>1. t.depth = TRUE /\ DepthOf(t) = "full"
          BY <3>9, <4>1 DEF TexturesType, DepthOf
        <5> QED
          BY <2>1, <3>6, <3>8, <3>10, <4>1, <5>1, OverrideApplied
      <4>2. CASE ~t.depth
        <5>1. t.depth = FALSE /\ DepthOf(t) = "own"
          BY <3>9, <4>2 DEF TexturesType, DepthOf
        <5>2. /\ engine' = f /\ dlss' = [dlss EXCEPT !.full = TRUE]
              /\ resolution' = resolution
          BY <2>1, <3>6, <3>8, <3>10, <4>2, OverrideApplied
        <5>3. f = [f EXCEPT !.depth = "own"]
          BY <3>6 DEF EngineType
        <5>4. [dlss EXCEPT !.full = TRUE] = [dlss EXCEPT !.overridden = FALSE, !.full = TRUE]
          BY <2>1, <3>10 DEF DlssType
        <5>5. resolution = [resolution EXCEPT !.depthFull = FALSE]
          BY <2>1, <3>10 DEF ResolutionType
        <5> QED
          BY <5>1, <5>2, <5>3, <5>4, <5>5
      <4> QED
        BY <4>1, <4>2
    <3>12. engine' = [engine EXCEPT !.viewport = FALSE, !.ratio = One,
                                   !.targets = IF stand.made THEN "stand-ins" ELSE "own",
                                   !.depth = DepthOf(t)]
      BY <2>1, <3>3, <3>11 DEF f, EngineType
    <3>13. t.depth \in BOOLEAN
      BY <3>9 DEF TexturesType
    <3> QED
      BY <2>2, <3>8, <3>9, <3>11, <3>12, <3>13 DEF DepthOf
  <2>3. CASE ~dlss.upscaling
    <3>1. UNCHANGED <<engine, dlss, resolution, textures, stand, fails>>
      BY <2>3 DEF CompositeBegin
    <3>2. /\ engine = [engine EXCEPT !.viewport = engine.viewport, !.ratio = engine.ratio,
                                     !.targets = "own", !.depth = "own"]
          /\ dlss = [dlss EXCEPT !.overridden = FALSE, !.full = dlss.full]
          /\ resolution = [resolution EXCEPT !.depthFull = FALSE]
          /\ stand = [stand EXCEPT !.swapped = FALSE]
      <4>1. engine = [engine EXCEPT !.viewport = engine.viewport, !.ratio = engine.ratio,
                                    !.targets = "own", !.depth = "own"]
        BY <1>1, <2>1 DEF EngineType
      <4>2. dlss = [dlss EXCEPT !.overridden = FALSE, !.full = dlss.full]
        BY <1>1, <2>1 DEF DlssType
      <4>3. resolution = [resolution EXCEPT !.depthFull = FALSE]
        BY <1>1, <2>1 DEF ResolutionType
      <4>4. stand = [stand EXCEPT !.swapped = FALSE]
        BY <1>1, <2>1 DEF StandType
      <4> QED
        BY <4>1, <4>2, <4>3, <4>4
    <3>3. (dlss.upscaling /\ textures'.depth) = FALSE /\ dlss.upscaling = FALSE
          /\ (dlss.full \/ dlss.upscaling) = dlss.full
      BY <2>1, <2>3 DEF DlssType
    <3> QED
      BY <2>1, <2>3, <3>1, <3>2, <3>3 DEF DepthInv, OnInv
  <2> QED
    BY <2>2, <2>3
<1>4. UpscaleTypeOK'
  <2>1. engine' \in EngineType
    <3>1. engine \in EngineType /\ dlss \in DlssType
      BY DEF UpscaleTypeOK
    <3>2. PICK v \in BOOLEAN, r \in Modes, t \in {"own", "stand-ins"}, d \in {"own", "full"} :
             engine' = [engine EXCEPT !.viewport = v, !.ratio = r, !.targets = t, !.depth = d]
      BY <1>3, <3>1 DEF EngineType, DlssType, Modes, One
    <3> QED
      BY <3>1, <3>2 DEF EngineType
  <2>2. dlss' \in DlssType
    <3>1. dlss \in DlssType
      BY DEF UpscaleTypeOK
    <3>2. (dlss.upscaling /\ textures'.depth) \in BOOLEAN /\ (dlss.full \/ dlss.upscaling) \in BOOLEAN
      OBVIOUS
    <3> QED
      BY <1>3, <3>1, <3>2 DEF DlssType
  <2>3. resolution' \in ResolutionType
    BY <1>1, <1>2, <1>3 DEF UpscaleTypeOK, ResolutionType, Modes, One, Rest, Ghosts
  <2>4. stand' \in StandType
    BY <1>1, <1>2, <1>3 DEF UpscaleTypeOK, StandType, DlssType, Modes, One, Rest, Ghosts
  <2> QED
    BY <2>1, <2>2, <2>3, <2>4, <1>1, <1>2, <1>3 DEF UpscaleTypeOK, Points, Rest, Ghosts
<1> USE DEF UpscaleTypeOK, EngineType, DlssType, StandType, TexturesType, NgxType,
           ResolutionType, CaptureType, Points
<1>5. OnInv'
  BY <1>1, <1>2, <1>3 DEF OnInv, Installed, Rest, Ghosts
<1>6. OffInv'
  BY <1>1, <1>2, <1>3 DEF OffInv, Rest, Ghosts
<1>7. LentInv'
  BY <1>1, <1>2, <1>3 DEF LentInv, Rest, Ghosts
<1>8. DepthInv'
  BY <1>1, <1>2, <1>3 DEF DepthInv, Rest, Ghosts
<1>9. MotionInv'
  BY <1>1, <1>2, <1>3 DEF MotionInv, Rest, Ghosts
<1>10. HistoryInv'
  BY <1>1, <1>2, <1>3 DEF HistoryInv, Excuse, Rest, Ghosts
<1>11. ConsumersInv'
  BY <1>1, <1>2, <1>3 DEF ConsumersInv, Rest, Ghosts
<1> QED
  BY <1>4, <1>5, <1>6, <1>7, <1>8, <1>9, <1>10, <1>11

\* The composite ends.
LEMMA CompositeEndKeeps ==
    ASSUME UpscaleInv, UNCHANGED hooks, CompositeEnd
    PROVE  UpscaleInv'
<1> USE DEF UpscaleInv
<1>1. at = "inComposite" /\ at' = "forward" /\ UNCHANGED <<textures, fails>> /\ UNCHANGED Rest
      /\ UNCHANGED Ghosts
  BY DEF CompositeEnd
<1>2. /\ engine' = [engine EXCEPT !.viewport = IF dlss.upscaling THEN TRUE ELSE engine.viewport,
                                 !.ratio = IF dlss.upscaling THEN dlss.ratio ELSE engine.ratio,
                                 !.targets = "own", !.depth = "own"]
      /\ dlss' = [dlss EXCEPT !.overridden = FALSE]
      /\ resolution' = [resolution EXCEPT !.depthFull = FALSE]
      /\ stand' = [stand EXCEPT !.swapped = FALSE]
  <2>1. /\ engine \in EngineType /\ dlss \in DlssType /\ resolution \in ResolutionType
        /\ stand \in StandType
    BY DEF UpscaleTypeOK
  <2>2. CASE dlss.upscaling
    <3>1. Installed /\ Handled("composite")
      BY <2>2, HandledIsOn DEF OffInv, OnInv, Sites
    <3> DEFINE e == [SetDynamicResolutionViewport(engine, TRUE) EXCEPT !.ratio = dlss.ratio]
               f == [e EXCEPT !.targets = "own"]
               w == Restore(e, stand)
    <3>2. Apply(ResetDepth(w.engine, dlss, resolution)) /\ stand' = w.stand
      BY <2>2, <3>1 DEF CompositeEnd
    <3>3. e = [engine EXCEPT !.viewport = TRUE, !.ratio = dlss.ratio]
      BY <2>1, <3>1, SwitchesAreSet
    <3> HIDE DEF e
    <3>4. e \in EngineType /\ e.targets = engine.targets /\ e.depth = engine.depth
      BY <2>1, <3>3 DEF EngineType, DlssType
    <3>5. Restore(e, stand) = Pair(f, [stand EXCEPT !.swapped = FALSE])
      <4>1. CASE stand.swapped
        BY <4>1 DEF Restore
      <4>2. CASE ~stand.swapped
        <5>1. e = f /\ stand = [stand EXCEPT !.swapped = FALSE]
          BY <2>1, <3>4, <4>2 DEF LentInv, EngineType, StandType
        <5> QED
          BY <4>2, <5>1 DEF Restore
      <4> QED
        BY <4>1, <4>2
    <3>6. f \in EngineType /\ f.depth = engine.depth
      BY <3>4 DEF EngineType
    <3> HIDE DEF f
    <3>7. Apply(ResetDepth(f, dlss, resolution)) /\ stand' = [stand EXCEPT !.swapped = FALSE]
      <4>1. w.engine = f /\ w.stand = [stand EXCEPT !.swapped = FALSE]
        BY <3>5 DEF Pair
      <4> HIDE DEF w
      <4> QED
        BY <3>2, <4>1
    <3>8. /\ engine' = [f EXCEPT !.depth = "own"]
          /\ dlss' = [dlss EXCEPT !.overridden = FALSE]
          /\ resolution' = [resolution EXCEPT !.depthFull = FALSE]
      BY <2>1, <3>6, <3>7, ResetApplied DEF DepthInv
    <3>9. engine' = [engine EXCEPT !.viewport = TRUE, !.ratio = dlss.ratio,
                                   !.targets = "own", !.depth = "own"]
      BY <2>1, <3>3, <3>8 DEF f, EngineType
    <3> QED
      BY <2>2, <3>7, <3>8, <3>9
  <2>3. CASE ~dlss.upscaling
    <3>1. UNCHANGED <<engine, dlss, resolution, stand>>
      BY <2>3 DEF CompositeEnd
    <3>2. engine.targets = "own" /\ engine.depth = "own" /\ ~dlss.overridden /\ ~stand.swapped
          /\ ~resolution.depthFull
      BY <2>1, <2>3 DEF LentInv, DepthInv, EngineType
    <3>3. /\ engine = [engine EXCEPT !.viewport = engine.viewport, !.ratio = engine.ratio,
                                     !.targets = "own", !.depth = "own"]
          /\ dlss = [dlss EXCEPT !.overridden = FALSE]
          /\ resolution = [resolution EXCEPT !.depthFull = FALSE]
          /\ stand = [stand EXCEPT !.swapped = FALSE]
      <4>1. engine = [engine EXCEPT !.viewport = engine.viewport, !.ratio = engine.ratio,
                                    !.targets = "own", !.depth = "own"]
        BY <2>1, <3>2 DEF EngineType
      <4>2. dlss = [dlss EXCEPT !.overridden = FALSE]
        BY <2>1, <3>2 DEF DlssType
      <4>3. resolution = [resolution EXCEPT !.depthFull = FALSE]
        BY <2>1, <3>2 DEF ResolutionType
      <4>4. stand = [stand EXCEPT !.swapped = FALSE]
        BY <2>1, <3>2 DEF StandType
      <4> QED
        BY <4>1, <4>2, <4>3, <4>4
    <3> QED
      BY <2>3, <3>1, <3>3
  <2> QED
    BY <2>2, <2>3
<1>3. UpscaleTypeOK'
  <2>1. engine' \in EngineType
    BY <1>1, <1>2 DEF UpscaleTypeOK, EngineType, DlssType, Modes, One, Rest, Ghosts
  <2>2. dlss' \in DlssType
    BY <1>1, <1>2 DEF UpscaleTypeOK, DlssType, Modes, One, Rest, Ghosts
  <2>3. resolution' \in ResolutionType
    BY <1>1, <1>2 DEF UpscaleTypeOK, ResolutionType, Modes, One, Rest, Ghosts
  <2>4. stand' \in StandType
    BY <1>1, <1>2 DEF UpscaleTypeOK, StandType, Modes, One, Rest, Ghosts
  <2> QED
    BY <2>1, <2>2, <2>3, <2>4, <1>1, <1>2 DEF UpscaleTypeOK, Points, Rest, Ghosts
<1> USE DEF UpscaleTypeOK, EngineType, DlssType, StandType, TexturesType, NgxType,
           ResolutionType, CaptureType, Points
<1>4. OnInv'
  BY <1>1, <1>2 DEF OnInv, Installed, Rest, Ghosts
<1>5. OffInv'
  <2>1. UNCHANGED <<ngx, own>> /\ dlss'.on = dlss.on /\ dlss'.active = dlss.active
        /\ dlss'.upscaling = dlss.upscaling /\ ~dlss'.overridden
    BY <1>1, <1>2 DEF Rest, Ghosts
  <2>2. /\ engine'.jitter = engine.jitter /\ engine'.skip = engine.skip
        /\ engine'.taa = engine.taa /\ engine'.fxaa = engine.fxaa
        /\ ~dlss.upscaling => engine'.ratio = engine.ratio
    BY <1>2
  <2>3. resolution = NotPublished => resolution' = NotPublished
    <3>1. [NotPublished EXCEPT !.depthFull = FALSE] = NotPublished
      <4>1. NotPublished \in ResolutionType /\ NotPublished.depthFull = FALSE
        BY DEF NotPublished, ResolutionType
      <4> QED
        BY <4>1 DEF ResolutionType
    <3>2. resolution' = [resolution EXCEPT !.depthFull = FALSE]
      BY <1>2
    <3> QED
      BY <3>1, <3>2
  <2> QED
    BY <2>1, <2>2, <2>3 DEF OffInv
<1>6. LentInv'
  BY <1>1, <1>2 DEF LentInv, Rest, Ghosts
<1>7. DepthInv'
  BY <1>1, <1>2 DEF DepthInv, Rest, Ghosts
<1>8. MotionInv'
  BY <1>1, <1>2 DEF MotionInv, Rest, Ghosts
<1>9. HistoryInv'
  BY <1>1, <1>2 DEF HistoryInv, Excuse, Rest, Ghosts
<1>10. ConsumersInv'
  BY <1>1, <1>2 DEF ConsumersInv, Rest, Ghosts
<1> QED
  BY <1>3, <1>4, <1>5, <1>6, <1>7, <1>8, <1>9, <1>10

\* The lens flare, at either of its places.
LEMMA LensFlareKeeps ==
    ASSUME UpscaleInv, UNCHANGED hooks, LensFlare
    PROVE  UpscaleInv'
<1> USE DEF UpscaleInv
<1>1. at \in {"evaluate", "viewport"} /\ dlss.on /\ dlss.upscaling /\ at' = at /\ UNCHANGED stand
      /\ UNCHANGED Rest /\ UNCHANGED Ghosts
  BY HandledIsOn DEF LensFlare, Sites
<1>2. /\ engine' = [engine EXCEPT !.depth = "own"]
      /\ dlss' = [dlss EXCEPT !.overridden = FALSE, !.full = TRUE]
      /\ resolution' = [resolution EXCEPT !.depthFull = FALSE]
      /\ textures' \in TexturesType /\ textures'.shaders
      /\ (textures'.depth /\ textures'.written) \/ fails' > 0
      /\ fails' \in Nat
  <2>1. /\ engine \in EngineType /\ dlss \in DlssType /\ resolution \in ResolutionType
        /\ textures \in TexturesType /\ fails \in Nat /\ textures.shaders
    BY <1>1 DEF UpscaleTypeOK, OnInv
  <2>2. PICK t \in FilledBy(dlss) :
           LET x == OverrideDepth(engine, dlss, resolution, t)
           IN  /\ textures' = t /\ Count(~dlss.full /\ Failed(t))
               /\ Apply(ResetDepth(x.engine, x.dlss, x.resolution))
    BY DEF LensFlare
  <2> DEFINE x == OverrideDepth(engine, dlss, resolution, t)
  <2>3. CASE dlss.overridden
    <3>1. t = textures /\ fails' = fails
      BY <2>1, <2>2, <2>3 DEF FilledBy, Count, DepthInv
    <3>2. dlss.full /\ dlss = [dlss EXCEPT !.full = TRUE]
      BY <2>1, <2>3 DEF DepthInv, DlssType
    <3>3. x.engine = engine /\ x.dlss = dlss /\ x.resolution = resolution
      BY <2>3, <3>2 DEF OverrideDepth
    <3>4. Apply(ResetDepth(engine, dlss, resolution))
      <4>1. Apply(ResetDepth(x.engine, x.dlss, x.resolution))
        BY <2>2
      <4> HIDE DEF x
      <4> QED
        BY <3>3, <4>1
    <3> HIDE DEF x
    <3>5. /\ engine' = [engine EXCEPT !.depth = "own"]
          /\ dlss' = [dlss EXCEPT !.overridden = FALSE]
          /\ resolution' = [resolution EXCEPT !.depthFull = FALSE]
      BY <2>1, <3>4, ResetApplied DEF DepthInv
    <3>6. dlss' = [dlss EXCEPT !.overridden = FALSE, !.full = TRUE]
      BY <3>2, <3>5
    <3> QED
      BY <2>1, <2>2, <3>1, <3>2, <3>5, <3>6 DEF DepthInv
  <2>4. CASE ~dlss.overridden
    <3>1. engine.depth = "own" /\ ~resolution.depthFull
      BY <2>1, <2>4 DEF DepthInv, EngineType
    <3>2. /\ t \in TexturesType /\ t.shaders
          /\ (t.depth /\ t.written) \/ fails' > 0
          /\ fails' \in Nat
      BY <2>1, <2>2, <2>4, FilledByDoes
    <3>3. t.depth \in BOOLEAN
      BY <3>2 DEF TexturesType
    <3>4. /\ x.engine = [engine EXCEPT !.depth = DepthOf(t)]
          /\ x.dlss = [dlss EXCEPT !.overridden = t.depth, !.full = TRUE]
          /\ x.resolution = [resolution EXCEPT !.depthFull = t.depth]
      <4>1. dlss.overridden = FALSE /\ resolution.depthFull = FALSE
        BY <2>1, <2>4, <3>1 DEF DlssType, ResolutionType
      <4>2. CASE t.depth
        <5>1. t.depth = TRUE /\ DepthOf(t) = "full"
          BY <3>3, <4>2 DEF DepthOf
        <5>2. x = [engine     |-> [engine EXCEPT !.depth = "full"],
                   dlss       |-> [dlss EXCEPT !.overridden = TRUE, !.full = TRUE],
                   resolution |-> [resolution EXCEPT !.depthFull = TRUE]]
          BY <2>1, <4>1, <4>2, OverrideDepthDoes
        <5> HIDE DEF x
        <5> QED
          BY <5>1, <5>2
      <4>3. CASE ~t.depth
        <5>1. t.depth = FALSE /\ DepthOf(t) = "own"
          BY <3>3, <4>3 DEF DepthOf
        <5>2. x = [engine |-> engine, dlss |-> [dlss EXCEPT !.full = TRUE],
                   resolution |-> resolution]
          BY <2>1, <4>1, <4>3, OverrideDepthDoes
        <5> HIDE DEF x
        <5>3. engine = [engine EXCEPT !.depth = "own"]
          BY <2>1, <3>1 DEF EngineType
        <5>4. [dlss EXCEPT !.full = TRUE] = [dlss EXCEPT !.overridden = FALSE, !.full = TRUE]
          BY <2>1, <4>1 DEF DlssType
        <5>5. resolution = [resolution EXCEPT !.depthFull = FALSE]
          BY <2>1, <4>1 DEF ResolutionType
        <5> QED
          BY <5>1, <5>2, <5>3, <5>4, <5>5
      <4> QED
        BY <4>2, <4>3
    <3>5. Apply(ResetDepth(x.engine, x.dlss, x.resolution))
      BY <2>2
    <3> HIDE DEF x
    <3>6. /\ x.engine \in EngineType /\ x.dlss \in DlssType /\ x.resolution \in ResolutionType
          /\ x.engine.depth = "full" <=> x.dlss.overridden
          /\ x.resolution.depthFull <=> x.dlss.overridden
      <4>1. DepthOf(t) \in {"own", "full"} /\ (DepthOf(t) = "full" <=> t.depth)
        BY DEF DepthOf
      <4>2. x.engine \in EngineType /\ x.engine.depth = DepthOf(t)
        BY <2>1, <3>4, <4>1 DEF EngineType
      <4>3. x.dlss \in DlssType /\ x.dlss.overridden = t.depth
        BY <2>1, <3>3, <3>4 DEF DlssType
      <4>4. x.resolution \in ResolutionType /\ x.resolution.depthFull = t.depth
        BY <2>1, <3>3, <3>4 DEF ResolutionType
      <4> QED
        BY <4>1, <4>2, <4>3, <4>4
    <3>7. /\ engine' = [x.engine EXCEPT !.depth = "own"]
          /\ dlss' = [x.dlss EXCEPT !.overridden = FALSE]
          /\ resolution' = [x.resolution EXCEPT !.depthFull = FALSE]
      BY <3>5, <3>6, ResetApplied
    <3>8. /\ engine' = [engine EXCEPT !.depth = "own"]
          /\ dlss' = [dlss EXCEPT !.overridden = FALSE, !.full = TRUE]
          /\ resolution' = [resolution EXCEPT !.depthFull = FALSE]
      <4>1. engine' = [engine EXCEPT !.depth = "own"]
        BY <2>1, <3>4, <3>7 DEF EngineType
      <4>2. dlss' = [dlss EXCEPT !.overridden = FALSE, !.full = TRUE]
        BY <2>1, <3>4, <3>7 DEF DlssType
      <4>3. resolution' = [resolution EXCEPT !.depthFull = FALSE]
        BY <2>1, <3>4, <3>7 DEF ResolutionType
      <4> QED
        BY <4>1, <4>2, <4>3
    <3> QED
      BY <2>2, <3>2, <3>8
  <2> QED
    BY <2>3, <2>4
<1>3. UpscaleTypeOK'
  <2>1. engine' \in EngineType
    BY <1>1, <1>2 DEF UpscaleTypeOK, EngineType, Modes, One, Rest, Ghosts
  <2>2. dlss' \in DlssType
    BY <1>1, <1>2 DEF UpscaleTypeOK, DlssType, Modes, One, Rest, Ghosts
  <2>3. resolution' \in ResolutionType
    BY <1>1, <1>2 DEF UpscaleTypeOK, ResolutionType, Modes, One, Rest, Ghosts
  <2> QED
    BY <2>1, <2>2, <2>3, <1>1, <1>2 DEF UpscaleTypeOK, Points, Rest, Ghosts
<1> USE DEF UpscaleTypeOK, EngineType, DlssType, StandType, TexturesType, NgxType,
           ResolutionType, CaptureType, Points
<1>4. OnInv'
  BY <1>1, <1>2 DEF OnInv, Installed, Rest, Ghosts
<1>5. OffInv'
  BY <1>1, <1>2 DEF OffInv, Rest, Ghosts
<1>6. LentInv'
  BY <1>1, <1>2 DEF LentInv, Rest, Ghosts
<1>7. DepthInv'
  BY <1>1, <1>2 DEF DepthInv, Rest, Ghosts
<1>8. MotionInv'
  BY <1>1, <1>2 DEF MotionInv, Rest, Ghosts
<1>9. HistoryInv'
  BY <1>1, <1>2 DEF HistoryInv, Excuse, Rest, Ghosts
<1>10. ConsumersInv'
  BY <1>1, <1>2 DEF ConsumersInv, Rest, Ghosts
<1> QED
  BY <1>3, <1>4, <1>5, <1>6, <1>7, <1>8, <1>9, <1>10

\* Nothing is evaluated.
LEMMA EvaluateNotKeeps ==
    ASSUME UpscaleInv, UNCHANGED hooks, EvaluateNot
    PROVE  UpscaleInv'
<1> USE DEF UpscaleInv
<1>1. UpscaleTypeOK'
  BY DEF UpscaleTypeOK, Points, EvaluateNot, Ghosts
<1> USE DEF UpscaleTypeOK, EngineType, DlssType, StandType, TexturesType, NgxType,
           ResolutionType, CaptureType, Points
<1>2. OnInv'
  BY DEF OnInv, Installed, EvaluateNot, Ghosts
<1>3. OffInv'
  BY DEF OffInv, EvaluateNot, Ghosts
<1>4. LentInv'
  BY DEF LentInv, EvaluateNot, Ghosts
<1>5. DepthInv'
  BY DEF DepthInv, EvaluateNot, Ghosts
<1>6. MotionInv'
  BY DEF MotionInv, EvaluateNot, Ghosts
<1>7. HistoryInv'
  BY DEF HistoryInv, Excuse, EvaluateNot, Ghosts
<1>8. ConsumersInv'
  BY DEF ConsumersInv, EvaluateNot, Ghosts
<1> QED
  BY <1>1, <1>2, <1>3, <1>4, <1>5, <1>6, <1>7, <1>8

\* An evaluation fails before NGX is asked.
LEMMA EvaluateFailsKeeps ==
    ASSUME UpscaleInv, UNCHANGED hooks, EvaluateFails
    PROVE  UpscaleInv'
<1> USE DEF UpscaleInv
<1>1. at = "evaluate" /\ at' = "capture" /\ dlss.on /\ fails' = fails + 1
  BY HandledIsOn DEF EvaluateFails, Evaluates, Sites
<1>2. /\ textures' \in TexturesType /\ textures'.shaders = textures.shaders
  <2>1. Size \in Modes
    BY DEF UpscaleTypeOK, Size, DlssType, Modes
  <2> QED
    BY <2>1, EnsuredKeeps DEF EvaluateFails, UpscaleTypeOK
<1>3. ngx' \in NgxType
  <2>1. ngx' \in {ngx, [ngx EXCEPT !.object = <<>>]}
    BY DEF EvaluateFails
  <2> QED
    BY <2>1 DEF UpscaleTypeOK, NgxType, Objects
<1>4. engine' \in {engine, [engine EXCEPT !.viewport = FALSE]}
  BY DEF EvaluateFails, ViewportOff, SetDynamicResolutionViewport
<1>5. UNCHANGED <<dlss, stand, resolution, menu, capture, far, picture, changes>> /\ UNCHANGED Ghosts
  BY DEF EvaluateFails
<1>6. UpscaleTypeOK'
  <2>1. engine' \in EngineType
    BY <1>4 DEF UpscaleTypeOK, EngineType
  <2> QED
    BY <2>1, <1>1, <1>2, <1>3, <1>4, <1>5 DEF UpscaleTypeOK, Points, Ghosts
<1> USE DEF UpscaleTypeOK, EngineType, DlssType, StandType, TexturesType, NgxType,
           ResolutionType, CaptureType, Points
<1>7. OnInv'
  BY <1>1, <1>2, <1>3, <1>4, <1>5 DEF OnInv, Installed, Ghosts
<1>8. OffInv'
  BY <1>1, <1>2, <1>3, <1>4, <1>5 DEF OffInv, Ghosts
<1>9. LentInv'
  BY <1>1, <1>2, <1>3, <1>4, <1>5 DEF LentInv, Ghosts
<1>10. DepthInv'
  BY <1>1, <1>2, <1>3, <1>4, <1>5 DEF DepthInv, Ghosts
<1>11. MotionInv'
  BY <1>1, <1>2, <1>3, <1>4, <1>5 DEF MotionInv, Ghosts
<1>12. HistoryInv'
  BY <1>1, <1>2, <1>3, <1>4, <1>5 DEF HistoryInv, Excuse, Ghosts
<1>13. ConsumersInv'
  BY <1>1, <1>2, <1>3, <1>4, <1>5 DEF ConsumersInv, Ghosts
<1> QED
  BY <1>6, <1>7, <1>8, <1>9, <1>10, <1>11, <1>12, <1>13

\* DLSS evaluates, or NGX refuses.
LEMMA EvaluateKeeps ==
    ASSUME UpscaleInv, UNCHANGED hooks, NEW done \in BOOLEAN, Evaluate(done)
    PROVE  UpscaleInv'
<1> USE DEF UpscaleInv
<1>1. at = "evaluate" /\ at' = "capture" /\ dlss.on /\ dlss.active /\ ~dlss.overridden
      /\ engine.depth = "own" /\ ~resolution.depthFull /\ fails' \in Nat /\ fails' >= fails
  BY HandledIsOn DEF Evaluate, Evaluates, Sites, DepthInv, Count, UpscaleTypeOK, EngineType
<1>2. ngx' \in NgxType
  <2>1. Purpose \in Objects
    BY DEF Purpose, Objects, Size, UpscaleTypeOK, DlssType, Modes
  <2> QED
    BY <2>1 DEF Evaluate, UpscaleTypeOK, NgxType
<1>3. /\ engine' = [engine EXCEPT !.viewport = IF dlss.upscaling THEN FALSE ELSE engine.viewport,
                                 !.depth = IF dlss.upscaling THEN "full" ELSE "own"]
      /\ dlss' = [dlss EXCEPT !.reset = FALSE, !.overridden = dlss.upscaling,
                              !.full = dlss.full \/ dlss.upscaling]
      /\ resolution' = [resolution EXCEPT !.depthFull = dlss.upscaling]
      /\ textures' \in TexturesType /\ textures'.shaders /\ textures'.depth
      /\ dlss.full \/ dlss.upscaling => textures'.written \/ fails' > 0
  <2>1. /\ engine \in EngineType /\ dlss \in DlssType /\ resolution \in ResolutionType
        /\ textures \in TexturesType /\ textures.shaders /\ fails \in Nat
    BY <1>1 DEF UpscaleTypeOK, OnInv
  <2> DEFINE t == [textures EXCEPT !.size = Size, !.depth = TRUE]
             u == IF dlss.upscaling /\ ~dlss.full THEN FullDepth(t) ELSE t
             d == [dlss EXCEPT !.reset = FALSE]
  <2>2. Size \in Modes
    BY <2>1 DEF Size, DlssType, Modes
  <2>3. t \in TexturesType /\ t.shaders /\ t.depth /\ t.written = textures.written
    BY <2>1, <2>2 DEF TexturesType
  <2>4. d \in DlssType /\ ~d.overridden /\ d.full = dlss.full
    BY <1>1, <2>1 DEF DlssType
  <2>5. /\ textures' = u
        /\ dlss.upscaling => Apply(OverrideDepth(ViewportOff, d, resolution, u))
        /\ ~dlss.upscaling => engine' = ViewportOff /\ dlss' = d /\ UNCHANGED resolution
    BY DEF Evaluate
  <2> HIDE DEF t, d
  <2>6. u \in TexturesType /\ u.shaders /\ u.depth
        /\ (dlss.full \/ dlss.upscaling => u.written \/ fails' > 0)
    BY <1>1, <2>1, <2>3 DEF FullDepth, TexturesType, DepthInv
  <2> HIDE DEF u
  <2>7. CASE dlss.upscaling
    <3>1. ViewportOff = [engine EXCEPT !.viewport = FALSE]
      BY <1>1, <2>1, <2>7, SwitchesAreSet DEF ViewportOff, OnInv
    <3>2. ViewportOff \in EngineType /\ ViewportOff.depth = "own"
      BY <1>1, <2>1, <3>1 DEF EngineType
    <3>3. d.overridden = FALSE /\ resolution.depthFull = FALSE
      BY <1>1, <2>1, <2>4 DEF DlssType, ResolutionType
    <3>4. /\ engine' = [ViewportOff EXCEPT !.depth = "full"]
          /\ dlss' = [d EXCEPT !.overridden = TRUE, !.full = TRUE]
          /\ resolution' = [resolution EXCEPT !.depthFull = TRUE]
      BY <2>1, <2>4, <2>5, <2>6, <2>7, <3>2, <3>3, OverrideApplied
    <3>5. u.depth = TRUE /\ dlss.upscaling = TRUE
      BY <2>1, <2>6, <2>7 DEF TexturesType, DlssType
    <3>6. engine' = [engine EXCEPT !.viewport = FALSE, !.depth = "full"]
      BY <2>1, <3>1, <3>4 DEF EngineType
    <3>7. dlss' = [dlss EXCEPT !.reset = FALSE, !.overridden = TRUE, !.full = TRUE]
      BY <2>1, <3>4, <3>5 DEF d, DlssType
    <3>8. (dlss.full \/ dlss.upscaling) = TRUE
      BY <2>7
    <3> QED
      BY <2>5, <2>6, <2>7, <3>4, <3>5, <3>6, <3>7, <3>8
  <2>8. CASE ~dlss.upscaling
    <3>1. engine' = engine /\ dlss' = d /\ resolution' = resolution
      BY <2>5, <2>8 DEF ViewportOff
    <3>2. dlss.upscaling = FALSE /\ (dlss.full \/ dlss.upscaling) = dlss.full
      BY <2>1, <2>8 DEF DlssType
    <3>3. engine' = [engine EXCEPT !.viewport = engine.viewport, !.depth = "own"]
      BY <1>1, <2>1, <3>1 DEF EngineType
    <3>4. dlss' = [dlss EXCEPT !.reset = FALSE, !.overridden = FALSE, !.full = dlss.full]
      BY <1>1, <2>1, <3>1 DEF d, DlssType
    <3>5. resolution' = [resolution EXCEPT !.depthFull = FALSE]
      BY <1>1, <2>1, <3>1 DEF ResolutionType
    <3> QED
      BY <2>5, <2>6, <2>8, <3>2, <3>3, <3>4, <3>5
  <2> QED
    BY <2>7, <2>8
<1>4. /\ picture' = Written(done)
      /\ stale' = (stale /\ ~(done /\ (Fresh \/ dlss.reset)))
      /\ excused' = IF ~stale' THEN excused \ {"evaluate", "camera"}
                    ELSE IF dlss.reset /\ ~done THEN excused \cup {"evaluate"} ELSE excused
      /\ UNCHANGED <<stand, menu, capture, far, own, gap, owed, changes>>
  BY DEF Evaluate
<1>5. UpscaleTypeOK'
  <2>1. engine' \in EngineType
    BY <1>1, <1>2, <1>3, <1>4 DEF UpscaleTypeOK, EngineType, Modes, One
  <2>2. dlss' \in DlssType
    BY <1>1, <1>2, <1>3, <1>4 DEF UpscaleTypeOK, DlssType, Modes, One
  <2>3. resolution' \in ResolutionType
    BY <1>1, <1>2, <1>3, <1>4 DEF UpscaleTypeOK, ResolutionType, DlssType, Modes, One
  <2> QED
    BY <2>1, <2>2, <2>3, <1>1, <1>2, <1>3, <1>4 DEF UpscaleTypeOK, Points, Written, Modes, One
<1> USE DEF UpscaleTypeOK, EngineType, DlssType, StandType, TexturesType, NgxType,
           ResolutionType, CaptureType, Points
<1>6. OnInv'
  BY <1>1, <1>2, <1>3, <1>4 DEF OnInv, Installed
<1>7. OffInv'
  BY <1>1, <1>2, <1>3, <1>4 DEF OffInv
<1>8. LentInv'
  BY <1>1, <1>2, <1>3, <1>4 DEF LentInv
<1>9. DepthInv'
  BY <1>1, <1>2, <1>3, <1>4 DEF DepthInv
<1>10. MotionInv'
  BY <1>1, <1>2, <1>3, <1>4 DEF MotionInv
<1>11. HistoryInv'
  BY <1>1, <1>2, <1>3, <1>4 DEF HistoryInv, Excuse
<1>12. ConsumersInv'
  BY <1>1, <1>2, <1>3, <1>4 DEF ConsumersInv
<1> QED
  BY <1>5, <1>6, <1>7, <1>8, <1>9, <1>10, <1>11, <1>12

\* The frame is not captured.
LEMMA CaptureNotKeeps ==
    ASSUME UpscaleInv, UNCHANGED hooks, CaptureNot
    PROVE  UpscaleInv'
<1> USE DEF UpscaleInv
<1>1. UpscaleTypeOK'
  <2>1. excused' \in SUBSET {"evaluate", "camera", "slot"} /\ fails' \in Nat
    <3>1. excused' \in {excused, excused \cup {"slot"}} /\ fails' \in {fails, fails + 1}
      BY DEF CaptureNot
    <3> QED
      BY <3>1 DEF UpscaleTypeOK
  <2> QED
    BY <2>1 DEF UpscaleTypeOK, Points, CaptureNot
<1> USE DEF UpscaleTypeOK, EngineType, DlssType, StandType, TexturesType, NgxType,
           ResolutionType, CaptureType, Points
<1>2. OnInv'
  BY DEF OnInv, Installed, CaptureNot
<1>3. OffInv'
  BY DEF OffInv, CaptureNot
<1>4. LentInv'
  BY DEF LentInv, CaptureNot
<1>5. DepthInv'
  BY DEF DepthInv, CaptureNot
<1>6. MotionInv'
  BY DEF MotionInv, CaptureNot
<1>7. HistoryInv'
  BY DEF HistoryInv, Excuse, CaptureNot
<1>8. ConsumersInv'
  BY DEF ConsumersInv, CaptureNot
<1> QED
  BY <1>1, <1>2, <1>3, <1>4, <1>5, <1>6, <1>7, <1>8

\* The frame is captured.
LEMMA CaptureKeeps ==
    ASSUME UpscaleInv, UNCHANGED hooks, NEW built \in BOOLEAN, Capture(built)
    PROVE  UpscaleInv'
<1> USE DEF UpscaleInv
<1>1. UpscaleTypeOK'
  <2>1. capture' \in CaptureType
    BY DEF UpscaleTypeOK, CaptureType, Consumers, Capture, Count, Resets
  <2>2. /\ far' \in SUBSET {"dlss", "capture"} /\ owed' \in SUBSET Consumers
        /\ excused' \in SUBSET {"evaluate", "camera", "slot"} /\ gap' \in BOOLEAN /\ fails' \in Nat
    <3>1. /\ far' = far \ {"capture"} /\ owed' \in {{}, owed} /\ gap' = FALSE
          /\ excused' = excused \ {"slot"} /\ fails' \in {fails, fails + 1}
      BY DEF UpscaleTypeOK, Capture, Count
    <3> QED
      <4>1. far' \in SUBSET {"dlss", "capture"} /\ excused' \in SUBSET {"evaluate", "camera", "slot"}
        BY <3>1 DEF UpscaleTypeOK
      <4>2. owed' \in SUBSET Consumers /\ gap' \in BOOLEAN
        BY <3>1 DEF UpscaleTypeOK
      <4>3. fails' \in Nat
        BY <3>1 DEF UpscaleTypeOK
      <4> QED
        BY <4>1, <4>2, <4>3
  <2>3. UNCHANGED <<engine, dlss, stand, textures, resolution, menu, ngx, picture, own, stale, changes>>
        /\ at' \in Points
    BY DEF Capture, Points
  <2> QED
    BY <2>1, <2>2, <2>3 DEF UpscaleTypeOK
<1> USE DEF UpscaleTypeOK, EngineType, DlssType, StandType, TexturesType, NgxType,
           ResolutionType, CaptureType, Points
<1>2. OnInv'
  BY DEF OnInv, Installed, Capture, Count, Resets
<1>3. OffInv'
  BY DEF OffInv, Capture, Count, Resets
<1>4. LentInv'
  BY DEF LentInv, Capture, Count, Resets
<1>5. DepthInv'
  BY DEF DepthInv, Capture, Count, Resets
<1>6. MotionInv'
  BY DEF MotionInv, Capture, Count, Resets
<1>7. HistoryInv'
  BY DEF HistoryInv, Excuse, Capture, Count, Resets
<1>8. ConsumersInv'
  BY DEF ConsumersInv, Capture, Count, Resets
<1> QED
  BY <1>1, <1>2, <1>3, <1>4, <1>5, <1>6, <1>7, <1>8

\* The frame ends.
LEMMA ViewportDefaultKeeps ==
    ASSUME UpscaleInv, UNCHANGED hooks, ViewportDefault
    PROVE  UpscaleInv'
<1> USE DEF UpscaleInv
<1>1. at = "viewport" /\ at' = "tick" /\ UNCHANGED <<stand, textures, fails>> /\ UNCHANGED Rest
      /\ UNCHANGED Ghosts
  BY DEF ViewportDefault
<1>2. /\ engine' = [engine EXCEPT !.viewport = FALSE, !.depth = "own"]
      /\ dlss' = [dlss EXCEPT !.overridden = FALSE]
      /\ resolution' = [resolution EXCEPT !.depthFull = FALSE]
  <2>1. engine \in EngineType /\ dlss \in DlssType /\ resolution \in ResolutionType
    BY DEF UpscaleTypeOK
  <2> DEFINE e == [engine EXCEPT !.viewport = FALSE]
  <2>2. e \in EngineType /\ e.depth = engine.depth
    BY <2>1 DEF EngineType
  <2>3. CASE dlss.upscaling
    <3>1. Handled("viewportDefault")
      BY <2>3, HandledIsOn DEF OffInv, Sites
    <3>2. Apply(ResetDepth(e, dlss, resolution))
      BY <2>3, <3>1 DEF ViewportDefault
    <3> HIDE DEF e
    <3>3. /\ engine' = [e EXCEPT !.depth = "own"]
          /\ dlss' = [dlss EXCEPT !.overridden = FALSE]
          /\ resolution' = [resolution EXCEPT !.depthFull = FALSE]
      BY <2>1, <2>2, <3>2, ResetApplied DEF DepthInv
    <3> QED
      BY <2>1, <3>3 DEF e, EngineType
  <2>4. CASE ~dlss.upscaling
    <3>1. engine' = e /\ UNCHANGED <<dlss, resolution>>
      BY <2>4 DEF ViewportDefault
    <3>2. engine.depth = "own" /\ ~dlss.overridden /\ ~resolution.depthFull
      BY <2>1, <2>4 DEF DepthInv, EngineType
    <3>3. engine' = [engine EXCEPT !.viewport = FALSE, !.depth = "own"]
      BY <2>1, <3>1, <3>2 DEF EngineType
    <3>4. dlss = [dlss EXCEPT !.overridden = FALSE]
          /\ resolution = [resolution EXCEPT !.depthFull = FALSE]
      BY <2>1, <3>2 DEF DlssType, ResolutionType
    <3> QED
      BY <3>1, <3>3, <3>4
  <2> QED
    BY <2>3, <2>4
<1>3. UpscaleTypeOK'
  <2>1. engine' \in EngineType
    BY <1>1, <1>2 DEF UpscaleTypeOK, EngineType, Modes, One, Rest, Ghosts
  <2>2. dlss' \in DlssType
    BY <1>1, <1>2 DEF UpscaleTypeOK, DlssType, Modes, One, Rest, Ghosts
  <2>3. resolution' \in ResolutionType
    BY <1>1, <1>2 DEF UpscaleTypeOK, ResolutionType, Modes, One, Rest, Ghosts
  <2> QED
    BY <2>1, <2>2, <2>3, <1>1, <1>2 DEF UpscaleTypeOK, Points, Rest, Ghosts
<1> USE DEF UpscaleTypeOK, EngineType, DlssType, StandType, TexturesType, NgxType,
           ResolutionType, CaptureType, Points
<1>4. OnInv'
  BY <1>1, <1>2 DEF OnInv, Installed, Rest, Ghosts
<1>5. OffInv'
  <2>1. UNCHANGED <<ngx, own>> /\ dlss'.on = dlss.on /\ dlss'.active = dlss.active
        /\ dlss'.upscaling = dlss.upscaling /\ ~dlss'.overridden
    BY <1>1, <1>2 DEF Rest, Ghosts
  <2>2. /\ engine'.jitter = engine.jitter /\ engine'.skip = engine.skip
        /\ engine'.taa = engine.taa /\ engine'.fxaa = engine.fxaa
        /\ ~dlss.upscaling => engine'.ratio = engine.ratio
    BY <1>2
  <2>3. resolution = NotPublished => resolution' = NotPublished
    <3>1. [NotPublished EXCEPT !.depthFull = FALSE] = NotPublished
      <4>1. NotPublished \in ResolutionType /\ NotPublished.depthFull = FALSE
        BY DEF NotPublished, ResolutionType
      <4> QED
        BY <4>1 DEF ResolutionType
    <3>2. resolution' = [resolution EXCEPT !.depthFull = FALSE]
      BY <1>2
    <3> QED
      BY <3>1, <3>2
  <2> QED
    BY <2>1, <2>2, <2>3 DEF OffInv
<1>6. LentInv'
  BY <1>1, <1>2 DEF LentInv, Rest, Ghosts
<1>7. DepthInv'
  BY <1>1, <1>2 DEF DepthInv, Rest, Ghosts
<1>8. MotionInv'
  BY <1>1, <1>2 DEF MotionInv, Rest, Ghosts
<1>9. HistoryInv'
  BY <1>1, <1>2 DEF HistoryInv, Excuse, Rest, Ghosts
<1>10. ConsumersInv'
  BY <1>1, <1>2 DEF ConsumersInv, Rest, Ghosts
<1> QED
  BY <1>3, <1>4, <1>5, <1>6, <1>7, <1>8, <1>9, <1>10

-----------------------------------------------------------------------------
\* Before the plugin has done anything.
LEMMA UpscaleStarts == UpscaleInit => UpscaleInv
<1> SUFFICES ASSUME UpscaleInit PROVE UpscaleInv
  OBVIOUS
<1> USE DEF UpscaleInit, DlssOff, NoStandIns, NoTextures, NgxOff, NoCapture, NotPublished
<1>1. UpscaleTypeOK
  <2>1. engine \in EngineType
    BY DEF EngineType, Modes, One
  <2>2. dlss \in DlssType /\ stand \in StandType /\ resolution \in ResolutionType
    BY DEF DlssType, StandType, ResolutionType, Modes, One
  <2>3. textures \in TexturesType /\ ngx \in NgxType
    BY DEF TexturesType, NgxType, Objects
  <2>4. capture \in CaptureType
    BY DEF CaptureType
  <2>5. /\ at \in Points /\ menu \in Menus /\ picture \in Modes
        /\ own \in [taa : BOOLEAN, fxaa : BOOLEAN]
    BY DEF Points, Menus, Modes
  <2>6. /\ far \in SUBSET {"dlss", "capture"} /\ owed \in SUBSET Consumers
        /\ excused \in SUBSET {"evaluate", "camera", "slot"}
        /\ stale \in BOOLEAN /\ gap \in BOOLEAN /\ changes \in Nat /\ fails \in Nat
    OBVIOUS
  <2> QED
    BY <2>1, <2>2, <2>3, <2>4, <2>5, <2>6 DEF UpscaleTypeOK
<1>2. OnInv /\ OffInv
  BY DEF OnInv, OffInv
<1>3. LentInv /\ DepthInv
  BY DEF LentInv, DepthInv
<1>4. MotionInv /\ HistoryInv /\ ConsumersInv
  BY DEF MotionInv, HistoryInv, Excuse, ConsumersInv
<1> QED
  BY <1>1, <1>2, <1>3, <1>4 DEF UpscaleInv

\* The sites are patched, however far that comes.
LEMMA InstallKeeps ==
    ASSUME UpscaleInv, Install
    PROVE  UpscaleInv'
<1> USE DEF UpscaleInv
<1>1. at = "load" /\ at' = "tick" /\ ~dlss.on
  BY DEF Install, OnInv
<1>2. UNCHANGED <<menu, engine, dlss, stand, textures, ngx, resolution, capture, far,
                  picture, own, stale, gap, owed, excused, changes, fails>>
  BY DEF Install
<1>3. UpscaleTypeOK'
  BY <1>1, <1>2 DEF UpscaleTypeOK, Points
<1>4. OnInv'
  BY <1>1, <1>2 DEF OnInv
<1>5. OffInv'
  BY <1>1, <1>2 DEF OffInv
<1>6. LentInv' /\ DepthInv'
  BY <1>1, <1>2 DEF LentInv, DepthInv
<1>7. MotionInv' /\ HistoryInv' /\ ConsumersInv'
  BY <1>1, <1>2 DEF MotionInv, HistoryInv, Excuse, ConsumersInv
<1> QED
  BY <1>3, <1>4, <1>5, <1>6, <1>7

LEMMA UpscaleSteps ==
    ASSUME UpscaleInv, [UpscaleNext]_upscaleVars
    PROVE  UpscaleInv'
<1>1. CASE Install
  BY <1>1, InstallKeeps
<1>2. CASE UNCHANGED upscaleVars
  BY <1>2 DEF upscaleVars, UpscaleInv, UpscaleTypeOK, OnInv, OffInv, LentInv, DepthInv,
              MotionInv, HistoryInv, Excuse, ConsumersInv, Installed
<1>3. CASE UpscaleNext /\ ~Install
  <2>1. UNCHANGED hooks
    BY <1>3 DEF UpscaleNext
  <2>2. CASE DlssSetup \/ DlssShutdown \/ \E ok \in BOOLEAN : Reload(ok)
    BY <2>1, <2>2, DlssSetupKeeps, DlssShutdownKeeps, ReloadKeeps
  <2>3. CASE \E c \in Consumers : Acquire(c) \/ Release(c)
    BY <2>1, <2>3, AcquireKeeps, ReleaseKeeps
  <2>4. CASE TickFrames \/ Simulate
    BY <2>1, <2>4, TickFramesKeeps, SimulateKeeps
  <2>5. CASE TemporalData
    BY <2>1, <2>5, AfterTemporalDataKeeps, BeginStatelessKeeps, BeginWithoutKeeps DEF TemporalData
  <2>6. CASE PrePass \/ Composite \/ Forward
    BY <2>1, <2>6, PrePassKeeps, CompositeBeginKeeps, CompositeEndKeeps, ForwardKeeps
       DEF Composite
  <2>7. CASE LensFlare \/ ViewportDefault
    BY <2>1, <2>7, LensFlareKeeps, ViewportDefaultKeeps
  <2>8. CASE EffectRange
    BY <2>1, <2>8, EvaluateNotKeeps, EvaluateFailsKeeps, EvaluateKeeps, CaptureNotKeeps,
       CaptureKeeps DEF EffectRange
  <2> QED
    BY <1>3, <2>2, <2>3, <2>4, <2>5, <2>6, <2>7, <2>8 DEF UpscaleNext
<1> QED
  BY <1>1, <1>2, <1>3

LEMMA UpscaleAlways == UpscaleSpec => []UpscaleInv
<1>1. UpscaleInv /\ [UpscaleNext]_upscaleVars => UpscaleInv'
  BY UpscaleSteps
<1> QED
  BY <1>1, UpscaleStarts, PTL DEF UpscaleSpec

-----------------------------------------------------------------------------
\* Between two frames the engine has what is its own: depth view, targets
\* and samplers always, and with DLSS off its ratio, jitter, dynamic
\* resolution and switches too, however far a setup came, whatever failed
\* in a frame and whatever menu was open (DLSS::Shutdown, ResetDepth,
\* ProxyTargets::Restore).
THEOREM UpscaleGivesBack == UpscaleSpec => []EngineGivenBack
<1>1. UpscaleInv => EngineGivenBack
  <2> SUFFICES ASSUME UpscaleInv, at = "tick" PROVE EngineGivenBack
    BY DEF EngineGivenBack
  <2>1. engine.depth = "own" /\ engine.targets = "own" /\ engine.samplers = "own"
    BY DEF UpscaleInv, UpscaleTypeOK, EngineType, LentInv, DepthInv
  <2> QED
    BY <2>1 DEF EngineGivenBack, UpscaleInv, OffInv
<1> QED
  BY <1>1, UpscaleAlways, PTL

\* Nothing the engine has bound of DLSS's is released or made anew under it,
\* and the samplers noted as the engine's own are (ProxyTargets::Update,
\* UpdateSamplers, Passes::EnsureTextures).
THEOREM UpscaleBindsWhatIs == UpscaleSpec => []NothingBoundIsFreed
<1>1. UpscaleInv => NothingBoundIsFreed
  BY DEF UpscaleInv, NothingBoundIsFreed, UpscaleTypeOK, StandType, LentInv, DepthInv
<1> QED
  BY <1>1, UpscaleAlways, PTL

\* Whoever reads the depth is told which of the two is bound, and whoever
\* reads the motion vectors reads them of a frame the engine wrote them in
\* (Resolution::SetDepthFull, Bridge::Capture, FrameGeneration::Blocker).
THEOREM UpscaleTellsInputs == UpscaleSpec => []InputsAreAsTold
<1>1. UpscaleInv => InputsAreAsTold
  <2> SUFFICES ASSUME UpscaleInv PROVE InputsAreAsTold
    OBVIOUS
  <2>1. DepthIsAsTold
    BY DEF UpscaleInv, DepthInv, DepthIsAsTold
  <2>2. MotionIsWritten
    BY DEF UpscaleInv, MotionInv, OnInv, OffInv, MotionIsWritten
  <2> QED
    BY <2>1, <2>2 DEF InputsAreAsTold
<1> QED
  BY <1>1, UpscaleAlways, PTL

\* No history is continued across a gap: an evaluation that succeeds on a
\* history that is not the last frame's drops it, unless NGX refused the
\* evaluation that had the reset or a cut fell where there were not two
\* cameras to tell it by; a capture without a reset hands out the
\* frame before, and no consumer is owed one (DLSS::AfterTemporalData,
\* Ngx::Evaluate, CaptureDemand::Want, Capture::SubmitCamera).
THEOREM UpscaleKeepsHistory == UpscaleSpec => HistoryIsTrue
<1>1. ASSUME UpscaleInv, NEW b \in BOOLEAN, Evaluate(b), b, stale'
      PROVE  "evaluate" \in excused \/ "camera" \in excused
  <2>1. stale /\ ~dlss.reset
    BY <1>1 DEF Evaluate
  <2>2. dlss.on /\ dlss.active /\ at = "evaluate"
    BY <1>1, HandledIsOn DEF Evaluate, Evaluates, UpscaleInv, Sites
  <2> QED
    BY <1>1, <2>1, <2>2 DEF UpscaleInv, HistoryInv, Excuse
<1>2. ASSUME UpscaleInv, NEW b \in BOOLEAN, Capture(b), b, ~Resets
      PROVE  owed = {} /\ capture.previous /\ (gap => "slot" \in excused)
  BY <1>2 DEF Capture, Resets, UpscaleInv, ConsumersInv
<1>3. UpscaleInv => \A b \in BOOLEAN : Evaluate(b) /\ b /\ stale' =>
                                          "evaluate" \in excused \/ "camera" \in excused
  BY <1>1
<1>4. UpscaleInv => \A b \in BOOLEAN :
                       Capture(b) /\ b /\ ~Resets =>
                          /\ owed = {}
                          /\ capture.previous
                          /\ gap => "slot" \in excused
  BY <1>2
<1>5. UpscaleSpec => HistoryReset
  BY <1>3, UpscaleAlways, PTL DEF HistoryReset
<1>6. UpscaleSpec => CaptureHistory
  BY <1>4, UpscaleAlways, PTL DEF CaptureHistory
<1> QED
  BY <1>5, <1>6 DEF HistoryIsTrue
=============================================================================
