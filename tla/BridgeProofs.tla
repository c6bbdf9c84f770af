---------------------------- MODULE BridgeProofs ----------------------------
(***************************************************************************)
(* Theorems about Bridge and the frame tokens in it, for every number of   *)
(* attempts to start, of adapters and of frames, and every length of the   *)
(* token queue: an attempt leaves nothing or the whole behind, Streamline  *)
(* is told what holds now, frames keep their order, and none renders with  *)
(* a token the queue should have shed.                                     *)
(***************************************************************************)
EXTENDS Bridge, FiniteSetTheorems, TLAPS

-----------------------------------------------------------------------------
(* The life of the presenter *)

Creating == {"streamline", "device", "backend", "presenter", "failed", "refuse"}

\* While a creation is under way there is no presenter and no swap chain of
\* the game; without either, or inside a resize, there is no present.
LifeInv ==
    /\ step \in {"none", "resize"} \cup Creating
    /\ window \subseteq {"game", "ours"}
    /\ "ours" \in window => HasSwapChain
    /\ "game" \in window => pieces = {}
    /\ active => HasSwapChain
    /\ step \in Creating => ~active /\ "game" \notin window
    /\ step = "resize" => active
    /\ ~active /\ step # "failed" => pieces = {}
    /\ ~active \/ step = "resize" => stage = "none"
    /\ ~active => starting = NoToken

\* A device once kept stays the one Streamline has, and a presenter is only
\* made on a finished backend.
BackendInv ==
    /\ backend.device # NoDevice => backend.device = bound
    /\ step = "presenter" => /\ backend.queue /\ backend.device = bound
                             /\ backend.adapter = adapter
    /\ BackendIsWhole

\* What the presenter remembers of its options and of Reflex is what Streamline
\* has, whoever was told it.
OptionInv ==
    /\ generating => active /\ optionsSet /\ applied
    /\ step = "resize" => ~generating
    /\ GeneratesFromOwnFrame
    /\ reflex = reflexMode
    /\ BoostEndsWithFeature

-----------------------------------------------------------------------------
\* A step of the frame tokens is one of theirs, with a presenter, or a new
\* presenter's, or none.
Restart == /\ step = "presenter"
           /\ indices' = <<>> /\ renderToken' = NoToken
           /\ UNCHANGED <<issued, starting, stage, marks, rendered>>

LEMMA TokensAlone ==
    ASSUME LifeInv, [BridgeNext]_bridgeVars
    PROVE  UNCHANGED vars \/ (active /\ Next) \/ Restart
<1>1. CASE Ask \/ LoadStreamline \/ CreateDevice11 \/ EnsureBackend
  BY <1>1 DEF Ask, LoadStreamline, CreateDevice11, EnsureBackend
<1>2. CASE CreatePresenter
  BY <1>2 DEF CreatePresenter, NewPresenter, Restart, vars
<1>3. CASE DestroyFailed \/ Refuse \/ ReleaseOwn
  BY <1>3 DEF DestroyFailed, Refuse, ReleaseOwn
<1>4. CASE Show
  BY <1>4 DEF Show, Next, LifeInv, ShowStart, Advance
<1>5. CASE ResizeBegin \/ ResizeEnd \/ ResizeTimedOut \/ Release
  BY <1>5 DEF ResizeBegin, ResizeEnd, ResizeTimedOut, Release
<1>6. CASE Setup \/ FeatureFrame \/ Shutdown
  BY <1>6 DEF Setup, FeatureFrame, Shutdown
<1>7. CASE Tokens
  BY <1>7 DEF Tokens, Next
<1>8. CASE UNCHANGED bridgeVars
  BY <1>8 DEF bridgeVars
<1> QED
  BY <1>1, <1>2, <1>3, <1>4, <1>5, <1>6, <1>7, <1>8 DEF BridgeNext

\* The pieces the argument is about.
LEMMA PiecesAre ==
    /\ Len(Pieces) = 6
    /\ "swapChain" \in FirstPieces(Len(Pieces))
    /\ FirstPieces(0) = {}
<1>1. Len(Pieces) = 6 /\ Pieces[4] = "swapChain"
  BY DEF Pieces
<1> QED
  BY <1>1 DEF FirstPieces

-----------------------------------------------------------------------------
LEMMA LifeInit == BridgeInit => LifeInv
  BY DEF BridgeInit, Init, LifeInv, Creating

LEMMA LifeStep == LifeInv /\ [BridgeNext]_bridgeVars => LifeInv'
<1> SUFFICES ASSUME LifeInv, [BridgeNext]_bridgeVars PROVE LifeInv'
  OBVIOUS
<1> USE DEF LifeInv, Creating, HasSwapChain
<1>1. CASE Ask
  BY <1>1 DEF Ask, Original, vars
<1>2. CASE LoadStreamline
  BY <1>2 DEF LoadStreamline, LoadFails, LoadSucceeds, lifeVars, vars
<1>3. CASE CreateDevice11
  BY <1>3 DEF CreateDevice11, lifeVars, vars
<1>4. CASE EnsureBackend
  BY <1>4 DEF EnsureBackend, BindFails, Bind, lifeVars, vars
<1>5. CASE CreatePresenter
  BY <1>5, PiecesAre DEF CreatePresenter
<1>6. CASE DestroyFailed
  BY <1>6 DEF DestroyFailed, vars
<1>7. CASE Refuse
  BY <1>7 DEF Refuse, Original, vars
<1>8. CASE ReleaseOwn
  BY <1>8 DEF ReleaseOwn, callVars, vars
<1>9. CASE Show
  BY <1>9 DEF Show, ShowStart, Advance, callVars, lifeVars
<1>10. CASE ResizeBegin
  BY <1>10 DEF ResizeBegin, Idle, lifeVars, vars
<1>11. CASE ResizeEnd
  BY <1>11, PiecesAre DEF ResizeEnd, vars
<1>12. CASE ResizeTimedOut
  BY <1>12 DEF ResizeTimedOut, lifeVars, vars
<1>13. CASE Release
  BY <1>13 DEF Release, Idle, Destroy, callVars, vars
<1>14. CASE Setup \/ FeatureFrame \/ Shutdown
  <2>1. UNCHANGED <<callVars, lifeVars, vars>>
    BY <1>14 DEF Setup, FeatureFrame, Shutdown
  <2> QED
    BY <2>1 DEF callVars, lifeVars, vars
<1>15. CASE Tokens
  BY <1>15
     DEF Tokens, SimulationStart, SimulationBegun, OnRenderStart, PresentBegin,
         PresentRefused, SubmitEnd, PresentEnd, Advance, callVars, lifeVars
<1>16. CASE UNCHANGED bridgeVars
  BY <1>16 DEF bridgeVars, callVars, lifeVars, vars
<1> QED
  BY <1>1, <1>2, <1>3, <1>4, <1>5, <1>6, <1>7, <1>8, <1>9, <1>10, <1>11, <1>12, <1>13,
     <1>14, <1>15, <1>16 DEF BridgeNext

-----------------------------------------------------------------------------
LEMMA BackendInit == BridgeInit => BackendInv
  BY DEF BridgeInit, BackendInv, BackendIsWhole, NoBackend

LEMMA BackendStep == LifeInv /\ BackendInv /\ [BridgeNext]_bridgeVars => BackendInv'
<1> SUFFICES ASSUME LifeInv, BackendInv, [BridgeNext]_bridgeVars PROVE BackendInv'
  OBVIOUS
<1> USE DEF LifeInv, Creating, BackendInv, BackendIsWhole
<1>1. CASE Ask
  BY <1>1 DEF Ask, processVars
<1>2. CASE LoadStreamline
  BY <1>2 DEF LoadStreamline, LoadFails, LoadSucceeds, lifeVars
<1>3. CASE CreateDevice11
  BY <1>3 DEF CreateDevice11, lifeVars, processVars
<1>4. CASE EnsureBackend
  BY <1>4 DEF EnsureBackend, BindFails, Bind, Reuse, lifeVars
<1>5. CASE CreatePresenter
  BY <1>5 DEF CreatePresenter, processVars
<1>6. CASE DestroyFailed \/ Refuse
  BY <1>6 DEF DestroyFailed, Refuse, processVars
<1>7. CASE ReleaseOwn \/ Show
  BY <1>7 DEF ReleaseOwn, Show, callVars, lifeVars, processVars
<1>8. CASE ResizeBegin \/ ResizeEnd \/ ResizeTimedOut
  BY <1>8 DEF ResizeBegin, ResizeEnd, ResizeTimedOut, Idle, HasSwapChain, lifeVars, processVars
<1>9. CASE Release
  BY <1>9 DEF Release, Idle, Destroy, callVars, processVars
<1>10. CASE Setup \/ FeatureFrame \/ Shutdown \/ Tokens
  BY <1>10 DEF Setup, FeatureFrame, Shutdown, Tokens, callVars, lifeVars, processVars
<1>11. CASE UNCHANGED bridgeVars
  BY <1>11 DEF bridgeVars, callVars, lifeVars, processVars
<1> QED
  BY <1>1, <1>2, <1>3, <1>4, <1>5, <1>6, <1>7, <1>8, <1>9, <1>10, <1>11 DEF BridgeNext

-----------------------------------------------------------------------------
\* What is switched off is off, and what is not off was asked for.
LEMMA Applied ==
    ASSUME NEW on \in BOOLEAN, ApplyOptions(on),
           generating => optionsSet /\ applied
    PROVE  /\ generating' => optionsSet' /\ applied'
           /\ ~on => ~generating'
  BY DEF ApplyOptions

LEMMA OptionInit == BridgeInit => OptionInv
  BY DEF BridgeInit, Init, OptionInv, GeneratesFromOwnFrame, BoostEndsWithFeature

LEMMA OptionStep == LifeInv /\ OptionInv /\ [BridgeNext]_bridgeVars => OptionInv'
<1> SUFFICES ASSUME LifeInv, OptionInv, [BridgeNext]_bridgeVars PROVE OptionInv'
  OBVIOUS
<1> USE DEF LifeInv, Creating, OptionInv, GeneratesFromOwnFrame, BoostEndsWithFeature
<1>1. CASE Ask \/ LoadStreamline \/ CreateDevice11 \/ EnsureBackend
  BY <1>1
     DEF Ask, LoadStreamline, LoadFails, LoadSucceeds, CreateDevice11, EnsureBackend,
         BindFails, Bind, lifeVars, optionVars, reflexVars, vars
<1>2. CASE CreatePresenter
  BY <1>2 DEF CreatePresenter, NewPresenter, FirstReflexMode, reflexVars
<1>3. CASE DestroyFailed \/ Refuse \/ ReleaseOwn
  BY <1>3 DEF DestroyFailed, Refuse, ReleaseOwn, callVars, optionVars, reflexVars, vars
<1>4. CASE Show
  <2>1. PICK inputs \in BOOLEAN :
           LET generate == renderToken # NoToken /\ wanted /\ inputs
           IN  ApplyOptions(generate) /\ Tag(generate)
    BY <1>4 DEF Show
  <2> DEFINE generate == renderToken # NoToken /\ wanted /\ inputs
  <2>2. CASE generate
    <3>1. ApplyOptions(TRUE) /\ tags' = renderToken
      BY <2>1, <2>2 DEF Tag
    <3> QED
      BY <1>4, <2>2, <3>1, Applied
         DEF Show, ShowStart, Advance, callVars, lifeVars, reflexVars
  <2>3. CASE ~generate
    <3>1. ApplyOptions(FALSE)
      BY <2>1, <2>3
    <3> QED
      BY <1>4, <3>1, Applied DEF Show, ShowStart, Advance, callVars, lifeVars, reflexVars
  <2> QED
    BY <2>2, <2>3
<1>5. CASE ResizeBegin
  BY <1>5, Applied DEF ResizeBegin, Idle, lifeVars, reflexVars, vars
<1>6. CASE ResizeEnd \/ ResizeTimedOut
  BY <1>6 DEF ResizeEnd, ResizeTimedOut, lifeVars, optionVars, reflexVars, vars
<1>7. CASE Release
  <2>1. ~generating'
    BY <1>7, Applied DEF Release, Destroy
  <2> QED
    BY <1>7, <2>1 DEF Release, reflexVars
<1>8. CASE Setup \/ FeatureFrame \/ Shutdown
  BY <1>8
     DEF Setup, FeatureFrame, Shutdown, SetReflexMode, Idle, callVars, lifeVars, optionVars,
         reflexVars, vars
<1>9. CASE Tokens
  BY <1>9
     DEF Tokens, SimulationStart, SimulationBegun, OnRenderStart, PresentBegin,
         PresentRefused, SubmitEnd, PresentEnd, Advance, callVars, lifeVars, optionVars,
         reflexVars
<1>10. CASE UNCHANGED bridgeVars
  BY <1>10 DEF bridgeVars, callVars, lifeVars, optionVars, reflexVars, vars
<1> QED
  BY <1>1, <1>2, <1>3, <1>4, <1>5, <1>6, <1>7, <1>8, <1>9, <1>10 DEF BridgeNext

-----------------------------------------------------------------------------
(* The frame tokens *)

\* The newest token whose frame has begun: all but the one Reflex sleeps on.
Begun == IF starting = NoToken THEN issued ELSE issued - 1

\* These are the first n markers.
Upto(m, n) == Len(m) = n /\ \A i \in 1 .. n : m[i] = Markers[i]

\* How far the token of the present under way is.
Reached == CASE stage = "RenderSubmitEnd" -> 4
             [] stage = "PresentStart"    -> 5
             [] OTHER                     -> 3

MarkerNames == {Markers[i] : i \in 1 .. Len(Markers)}

TokenType ==
    /\ issued \in 0 .. MaxIndex
    /\ starting \in {NoToken, issued}
    /\ indices \in Seq(Indices) /\ Len(indices) <= kInFlight
    /\ renderToken \in {NoToken} \cup Indices
    /\ stage \in {"none", "taken", "RenderSubmitEnd", "PresentStart"}
    /\ marks \in [Indices -> Seq(MarkerNames)]
    /\ rendered \in Seq(Indices)

\* The queue holds the newest tokens without a gap, what was rendered is older,
\* and the frame at hand is the last of them.
OrderInv ==
    /\ \A i \in 1 .. Len(indices) : indices[i] = Begun - Len(indices) + i
    /\ \A j \in 1 .. Len(rendered) : rendered[j] + Len(indices) <= Begun
    /\ RenderedInOrder
    /\ renderToken # NoToken => /\ rendered # <<>>
                                /\ renderToken = rendered[Len(rendered)]

\* A token that waits has its first marker, one that was not begun has none,
\* and the one at hand those of its present's stage.
MarksInv ==
    /\ \A t \in Indices : \E n \in 0 .. 6 : Upto(marks[t], n)
    /\ \A t \in Indices : t > Begun => Upto(marks[t], 0)
    /\ \A i \in 1 .. Len(indices) : Upto(marks[indices[i]], 1)
    /\ renderToken # NoToken => Upto(marks[renderToken], Reached)

TokenInv == TokenType /\ OrderInv /\ MarksInv

\* The markers and their order.
LEMMA MarkersAre ==
    /\ Len(Markers) = 6
    /\ \A i \in 1 .. 6 : Markers[i] \in MarkerNames
    /\ Markers[1] = "SimulationStart" /\ Markers[2] = "SimulationEnd"
    /\ Markers[3] = "RenderSubmitStart" /\ Markers[4] = "RenderSubmitEnd"
    /\ Markers[5] = "PresentStart" /\ Markers[6] = "PresentEnd"
<1>1. Len(Markers) = 6
  BY DEF Markers
<1>2. \A i \in 1 .. 6 : Markers[i] \in MarkerNames
  BY <1>1 DEF MarkerNames
<1>3. /\ Markers[1] = "SimulationStart" /\ Markers[2] = "SimulationEnd"
      /\ Markers[3] = "RenderSubmitStart" /\ Markers[4] = "RenderSubmitEnd"
      /\ Markers[5] = "PresentStart" /\ Markers[6] = "PresentEnd"
  BY DEF Markers
<1> QED
  BY <1>1, <1>2, <1>3

\* What the types say of the numbers.
LEMMA TokenNumbers ==
    ASSUME TokenType
    PROVE  /\ issued \in Nat /\ Begun \in Int /\ Begun <= issued /\ issued <= Begun + 1
           /\ Len(indices) \in Nat /\ Len(rendered) \in Nat
           /\ \A i \in 1 .. Len(indices) : indices[i] \in Indices
           /\ \A j \in 1 .. Len(rendered) : rendered[j] \in Indices
           /\ \A t \in Indices : t \in Nat /\ t # NoToken
           /\ kInFlight \in Nat /\ kInFlight > 0 /\ MaxIndex \in Nat
<1>1. kInFlight \in Nat /\ kInFlight > 0 /\ MaxIndex \in Nat
  BY ConstantsAssumption
<1>2. \A t \in Indices : t \in Nat /\ t # NoToken
  BY <1>1 DEF Indices, NoToken
<1>3. issued \in Nat
  BY <1>1 DEF TokenType
<1>4. Begun \in Int /\ Begun <= issued /\ issued <= Begun + 1
  BY <1>3 DEF Begun
<1>5. /\ Len(indices) \in Nat /\ \A i \in 1 .. Len(indices) : indices[i] \in Indices
      /\ Len(rendered) \in Nat /\ \A j \in 1 .. Len(rendered) : rendered[j] \in Indices
  BY DEF TokenType
<1> QED
  BY <1>1, <1>2, <1>3, <1>4, <1>5

\* The next marker of one token: the others keep theirs.
LEMMA Marked ==
    ASSUME TokenType, NEW t \in Indices, NEW n \in 0 .. 5, Upto(marks[t], n),
           Mark(Markers[n + 1], t)
    PROVE  /\ marks' \in [Indices -> Seq(MarkerNames)]
           /\ Upto(marks'[t], n + 1)
           /\ \A u \in Indices \ {t} : marks'[u] = marks[u]
<1>1. Markers[n + 1] \in MarkerNames
  BY MarkersAre
<1>2. marks[t] \in Seq(MarkerNames) /\ marks' = [marks EXCEPT ![t] = Append(marks[t], Markers[n + 1])]
  BY DEF TokenType, Mark
<1>3. marks'[t] = Append(marks[t], Markers[n + 1])
  BY <1>2 DEF TokenType
<1>4. Append(marks[t], Markers[n + 1]) \in Seq(MarkerNames)
  BY <1>1, <1>2
<1>5. marks' \in [Indices -> Seq(MarkerNames)]
  BY <1>2, <1>4 DEF TokenType
<1>6. /\ Len(marks'[t]) = n + 1
      /\ \A i \in 1 .. n + 1 : marks'[t][i] = IF i = n + 1 THEN Markers[n + 1] ELSE marks[t][i]
  BY <1>1, <1>2, <1>3 DEF Upto
<1>7. Upto(marks'[t], n + 1)
  BY <1>6 DEF Upto
<1>8. \A u \in Indices \ {t} : marks'[u] = marks[u]
  BY <1>2 DEF TokenType
<1> QED
  BY <1>5, <1>7, <1>8

\* Both markers of a token taken for rendering.
LEMMA MarkedTwo ==
    ASSUME TokenType, NEW t \in Indices, Upto(marks[t], 1),
           MarkTwo("SimulationEnd", "RenderSubmitStart", t)
    PROVE  /\ marks' \in [Indices -> Seq(MarkerNames)]
           /\ Upto(marks'[t], 3)
           /\ \A u \in Indices \ {t} : marks'[u] = marks[u]
<1>1. Markers[2] \in MarkerNames /\ Markers[3] \in MarkerNames
  BY MarkersAre
<1>2. /\ marks[t] \in Seq(MarkerNames)
      /\ marks' = [marks EXCEPT ![t] = marks[t] \o <<Markers[2], Markers[3]>>]
  BY MarkersAre DEF TokenType, MarkTwo
<1>3. marks'[t] = marks[t] \o <<Markers[2], Markers[3]>>
  BY <1>2 DEF TokenType
<1>4. marks[t] \o <<Markers[2], Markers[3]>> \in Seq(MarkerNames)
  BY <1>1, <1>2
<1>5. marks' \in [Indices -> Seq(MarkerNames)]
  BY <1>2, <1>4 DEF TokenType
<1>6. /\ Len(marks'[t]) = 3 /\ marks'[t][1] = marks[t][1]
      /\ marks'[t][2] = Markers[2] /\ marks'[t][3] = Markers[3]
  BY <1>1, <1>2, <1>3 DEF Upto
<1>7. Upto(marks'[t], 3)
  BY <1>6 DEF Upto
<1>8. \A u \in Indices \ {t} : marks'[u] = marks[u]
  BY <1>2 DEF TokenType
<1> QED
  BY <1>5, <1>7, <1>8

\* The token at hand has begun, and none that waits is the one at hand.
LEMMA RenderedAreBegun ==
    ASSUME TokenInv, renderToken # NoToken
    PROVE  /\ renderToken \in Indices /\ renderToken <= Begun
           /\ \A i \in 1 .. Len(indices) : indices[i] # renderToken
<1>1. renderToken \in Indices
  BY DEF TokenInv, TokenType
<1>2. Len(rendered) \in 1 .. Len(rendered) /\ renderToken = rendered[Len(rendered)]
  BY DEF TokenInv, TokenType, OrderInv
<1>3. renderToken + Len(indices) <= Begun
  BY <1>2 DEF TokenInv, OrderInv
<1>4. renderToken \in Nat /\ Len(indices) \in Nat /\ Begun \in Int
  BY <1>1, TokenNumbers DEF TokenInv
<1>5. \A i \in 1 .. Len(indices) : indices[i] = Begun - Len(indices) + i
  BY DEF TokenInv, OrderInv
<1> QED
  BY <1>1, <1>3, <1>4, <1>5

LEMMA TokenInit == Init => TokenInv
<1> SUFFICES ASSUME Init PROVE TokenInv
  OBVIOUS
<1>1. TokenType
  BY ConstantsAssumption DEF Init, TokenType
<1>2. OrderInv
  BY DEF Init, OrderInv, RenderedInOrder, Begun
<1>3. \A t \in Indices : Upto(marks[t], 0)
  BY DEF Init, Upto
<1>4. MarksInv
  BY <1>3 DEF Init, MarksInv
<1> QED
  BY <1>1, <1>2, <1>4 DEF TokenInv

\* Where the entry i of the new queue is in the old one and its addition.
Was(i) == i + Len(indices) + 1 - Len(indices')

\* A frame begins: its token goes to the end of the queue, and the oldest may
\* fall out.
LEMMA Pushed ==
    ASSUME TokenType, NEW t \in Indices, Push(t)
    PROVE  /\ indices' \in Seq(Indices) /\ Len(indices') <= kInFlight
           /\ Len(indices') <= Len(indices) + 1
           /\ \A i \in 1 .. Len(indices') :
                 /\ Was(i) \in 1 .. Len(indices) + 1
                 /\ indices'[i] = IF Was(i) = Len(indices) + 1 THEN t ELSE indices[Was(i)]
<1> DEFINE longer == Append(indices, t)
<1>1. /\ longer \in Seq(Indices) /\ Len(longer) = Len(indices) + 1
      /\ \A i \in 1 .. Len(indices) + 1 :
            longer[i] = IF i = Len(indices) + 1 THEN t ELSE indices[i]
  BY DEF TokenType
<1>2. indices' = IF Len(longer) > kInFlight THEN Tail(longer) ELSE longer
  BY DEF Push
<1>3. Len(indices) \in Nat /\ kInFlight \in Nat /\ Len(indices) <= kInFlight
  BY TokenNumbers DEF TokenType
<1> HIDE DEF longer
<1>4. CASE Len(longer) > kInFlight
  <2>1. /\ indices' = Tail(longer) /\ Len(indices') = Len(indices)
        /\ indices' \in Seq(Indices)
        /\ \A i \in 1 .. Len(indices) : indices'[i] = longer[i + 1]
    BY <1>1, <1>2, <1>3, <1>4
  <2>2. ASSUME NEW i \in 1 .. Len(indices')
        PROVE  /\ Was(i) \in 1 .. Len(indices) + 1
               /\ indices'[i] = IF Was(i) = Len(indices) + 1 THEN t ELSE indices[Was(i)]
    <3>1. i \in 1 .. Len(indices) /\ Len(indices') = Len(indices)
      BY <2>1
    <3>2. i \in Nat /\ i >= 1 /\ i <= Len(indices)
      BY <1>3, <3>1
    <3>3. Was(i) = i + 1
      BY <1>3, <3>1, <3>2 DEF Was
    <3>4. Was(i) \in 1 .. Len(indices) + 1
      BY <1>3, <3>2, <3>3
    <3>5. indices'[i] = IF i + 1 = Len(indices) + 1 THEN t ELSE indices[i + 1]
      BY <1>1, <2>1, <3>3, <3>4
    <3> QED
      BY <3>3, <3>4, <3>5
  <2> QED
    BY <1>3, <2>1, <2>2
<1>5. CASE ~(Len(longer) > kInFlight)
  <2>1. indices' = longer
    BY <1>2, <1>5
  <2>2. \A i \in 1 .. Len(indices) + 1 : Was(i) = i
    BY <1>1, <1>3, <2>1 DEF Was
  <2> QED
    BY <1>1, <1>3, <1>5, <2>1, <2>2
<1> QED
  BY <1>4, <1>5

LEMMA SimulationStartStep == TokenInv /\ SimulationStart => TokenInv'
<1> SUFFICES ASSUME TokenInv, SimulationStart PROVE TokenInv'
  OBVIOUS
<1>1. /\ issued' = issued + 1 /\ starting' = issued + 1 /\ issued + 1 \in Indices
      /\ starting = NoToken
      /\ UNCHANGED <<indices, renderToken, stage, marks, rendered>>
  BY DEF SimulationStart
<1>2. Begun' = Begun
  BY <1>1, TokenNumbers DEF Begun, TokenInv
<1>3. TokenType'
  BY <1>1 DEF TokenInv, TokenType, Indices
<1>4. OrderInv'
  BY <1>1, <1>2 DEF TokenInv, OrderInv, RenderedInOrder
<1>5. MarksInv'
  BY <1>1, <1>2 DEF TokenInv, MarksInv, Upto, Reached
<1> QED
  BY <1>3, <1>4, <1>5 DEF TokenInv

LEMMA SimulationBegunStep == TokenInv /\ SimulationBegun => TokenInv'
<1> SUFFICES ASSUME TokenInv, SimulationBegun PROVE TokenInv'
  OBVIOUS
<1> DEFINE t == starting
<1>1. /\ t # NoToken /\ Mark("SimulationStart", t) /\ Push(t) /\ starting' = NoToken
      /\ UNCHANGED <<issued, renderToken, stage, rendered>>
  BY DEF SimulationBegun
<1>2. t = issued /\ t \in Indices /\ t = Begun + 1 /\ Begun' = Begun + 1
  BY <1>1, TokenNumbers DEF TokenInv, TokenType, Indices, Begun, NoToken
<1>3. /\ marks' \in [Indices -> Seq(MarkerNames)] /\ Upto(marks'[t], 1)
      /\ \A u \in Indices \ {t} : marks'[u] = marks[u]
  <2>1. Upto(marks[t], 0)
    BY <1>2, TokenNumbers DEF TokenInv, MarksInv
  <2> QED
    BY <1>1, <1>2, <2>1, Marked, MarkersAre DEF TokenInv
<1>4. /\ indices' \in Seq(Indices) /\ Len(indices') <= kInFlight
      /\ Len(indices') \in Nat /\ Len(indices') <= Len(indices) + 1
      /\ \A i \in 1 .. Len(indices') :
            /\ Was(i) \in 1 .. Len(indices) + 1
            /\ indices'[i] = IF Was(i) = Len(indices) + 1 THEN t ELSE indices[Was(i)]
  BY <1>1, <1>2, Pushed DEF TokenInv
<1> HIDE DEF t
<1>5. TokenType'
  BY <1>1, <1>3, <1>4 DEF TokenInv, TokenType
<1>6. OrderInv'
  <2>0. /\ Begun \in Int /\ Len(indices) \in Nat
        /\ \A j \in 1 .. Len(rendered) : rendered[j] \in Nat
    BY TokenNumbers DEF TokenInv
  <2>1. ASSUME NEW i \in 1 .. Len(indices')
        PROVE  indices'[i] = Begun' - Len(indices') + i
    <3>1. Was(i) \in 1 .. Len(indices) + 1
          /\ indices'[i] = IF Was(i) = Len(indices) + 1 THEN t ELSE indices[Was(i)]
      BY <1>4
    <3>2. Was(i) # Len(indices) + 1 => Was(i) \in 1 .. Len(indices)
      BY <2>0, <3>1
    <3>3. Was(i) # Len(indices) + 1 => indices[Was(i)] = Begun - Len(indices) + Was(i)
      BY <3>2 DEF TokenInv, OrderInv
    <3> QED
      BY <1>2, <1>4, <2>0, <3>1, <3>3 DEF Was
  <2>2. ASSUME NEW j \in 1 .. Len(rendered)
        PROVE  rendered[j] + Len(indices') <= Begun'
    <3>1. rendered[j] + Len(indices) <= Begun
      BY DEF TokenInv, OrderInv
    <3> QED
      BY <1>2, <1>4, <2>0, <3>1
  <2> QED
    BY <1>1, <2>1, <2>2 DEF TokenInv, OrderInv, RenderedInOrder
<1>7. MarksInv'
  <2>1. \A u \in Indices \ {t} : \A n \in Nat : Upto(marks[u], n) => Upto(marks'[u], n)
    BY <1>3 DEF Upto
  <2>2. \A u \in Indices : \E n \in 0 .. 6 : Upto(marks'[u], n)
    BY <1>3, <2>1 DEF TokenInv, MarksInv
  <2>3. \A u \in Indices : u > Begun' => Upto(marks'[u], 0)
    BY <1>2, <2>1, TokenNumbers DEF TokenInv, MarksInv
  <2>4. \A i \in 1 .. Len(indices') : Upto(marks'[indices'[i]], 1)
    <3> SUFFICES ASSUME NEW i \in 1 .. Len(indices') PROVE Upto(marks'[indices'[i]], 1)
      OBVIOUS
    <3>1. CASE indices'[i] = t
      BY <1>3, <3>1
    <3>2. CASE indices'[i] # t
      <4>1. PICK k \in 1 .. Len(indices) : indices'[i] = indices[k]
        <5>1. /\ Was(i) \in 1 .. Len(indices) + 1 /\ Was(i) # Len(indices) + 1
              /\ indices'[i] = indices[Was(i)]
          BY <1>4, <3>2
        <5>2. Was(i) \in 1 .. Len(indices)
          BY <5>1, TokenNumbers DEF TokenInv
        <5> QED
          BY <5>1, <5>2
      <4>2. indices[k] \in Indices /\ Upto(marks[indices[k]], 1)
        BY TokenNumbers DEF TokenInv, MarksInv
      <4> QED
        BY <2>1, <3>2, <4>1, <4>2
    <3> QED
      BY <3>1, <3>2
  <2>5. renderToken # NoToken => Upto(marks'[renderToken'], Reached')
    <3> SUFFICES ASSUME renderToken # NoToken PROVE Upto(marks'[renderToken'], Reached')
      OBVIOUS
    <3>1. renderToken \in Indices /\ renderToken # t
      BY <1>2, TokenNumbers DEF TokenInv, TokenType, OrderInv
    <3>2. Reached \in Nat /\ Reached' = Reached
      BY <1>1 DEF Reached
    <3> QED
      BY <1>1, <2>1, <3>1, <3>2 DEF TokenInv, MarksInv
  <2> QED
    BY <1>1, <2>2, <2>3, <2>4, <2>5 DEF MarksInv
<1> QED
  BY <1>5, <1>6, <1>7 DEF TokenInv

\* The queue without its oldest token.
LEMMA Popped ==
    ASSUME TokenInv, indices # <<>>, indices' = Tail(indices)
    PROVE  /\ Head(indices) = indices[1] /\ Head(indices) \in Indices
           /\ Head(indices) = Begun - Len(indices) + 1
           /\ Len(indices') = Len(indices) - 1 /\ indices' \in Seq(Indices)
           /\ \A i \in 1 .. Len(indices') : /\ i + 1 \in 1 .. Len(indices)
                                            /\ indices'[i] = indices[i + 1]
<1>1. indices \in Seq(Indices) /\ Len(indices) \in Nat /\ Len(indices) > 0
  BY DEF TokenInv, TokenType
<1>2. /\ Head(indices) = indices[1] /\ indices[1] \in Indices
      /\ Len(indices') = Len(indices) - 1 /\ indices' \in Seq(Indices)
      /\ \A i \in 1 .. Len(indices') : indices'[i] = indices[i + 1]
  BY <1>1
<1>3. \A i \in 1 .. Len(indices') : i + 1 \in 1 .. Len(indices)
  BY <1>1, <1>2
<1>4. indices[1] = Begun - Len(indices) + 1
  BY <1>1 DEF TokenInv, OrderInv
<1> QED
  BY <1>2, <1>3, <1>4

\* A token that is taken is the next to be rendered, and what is left in the
\* queue is younger.
LEMMA TakeStep ==
    ASSUME TokenInv, TakeRenderToken, stage \in {"none", "taken"},
           stage' \in {"none", "taken"}, UNCHANGED <<issued, starting>>
    PROVE  TokenInv'
<1>0. Begun' = Begun /\ Reached = 3 /\ Reached' = 3
  BY DEF Begun, Reached
<1>1. CASE UNCHANGED <<indices, renderToken, marks, rendered>>
  <2>1. TokenType'
    BY <1>1 DEF TokenInv, TokenType
  <2>2. OrderInv'
    BY <1>0, <1>1 DEF TokenInv, OrderInv, RenderedInOrder
  <2>3. MarksInv'
    BY <1>0, <1>1 DEF TokenInv, MarksInv
  <2> QED
    BY <2>1, <2>2, <2>3 DEF TokenInv
<1>2. CASE /\ indices # <<>> /\ indices' = Tail(indices) /\ renderToken = NoToken
           /\ UNCHANGED <<renderToken, marks, rendered>>
  <2>0. /\ Len(indices') = Len(indices) - 1 /\ indices' \in Seq(Indices)
        /\ \A i \in 1 .. Len(indices') : /\ i + 1 \in 1 .. Len(indices)
                                         /\ indices'[i] = indices[i + 1]
    BY <1>2, Popped
  <2>n. /\ Begun \in Int /\ Len(indices) \in Nat /\ kInFlight \in Nat
        /\ \A j \in 1 .. Len(rendered) : rendered[j] \in Nat
    BY TokenNumbers DEF TokenInv
  <2>1. TokenType'
    BY <1>2, <2>0, <2>n DEF TokenInv, TokenType
  <2>2. OrderInv'
    <3>1. \A i \in 1 .. Len(indices') : indices'[i] = Begun' - Len(indices') + i
      <4>1. \A k \in 1 .. Len(indices) : indices[k] = Begun - Len(indices) + k
        BY DEF TokenInv, OrderInv
      <4> QED
        BY <1>0, <2>0, <2>n, <4>1
    <3>2. ASSUME NEW j \in 1 .. Len(rendered)
          PROVE  rendered[j] + Len(indices') <= Begun'
      <4>1. rendered[j] + Len(indices) <= Begun
        BY DEF TokenInv, OrderInv
      <4> QED
        BY <1>0, <2>0, <2>n, <4>1
    <3> QED
      BY <1>2, <3>1, <3>2 DEF TokenInv, OrderInv, RenderedInOrder
  <2>3. MarksInv'
    BY <1>0, <1>2, Popped DEF TokenInv, MarksInv
  <2> QED
    BY <2>1, <2>2, <2>3 DEF TokenInv
<1>3. CASE /\ indices # <<>> /\ indices' = Tail(indices) /\ renderToken = NoToken
           /\ renderToken' = Head(indices)
           /\ MarkTwo("SimulationEnd", "RenderSubmitStart", Head(indices))
           /\ rendered' = Append(rendered, Head(indices))
  <2> DEFINE t == Head(indices)
  <2>1. /\ t = indices[1] /\ t \in Indices /\ t = Begun - Len(indices) + 1
        /\ Len(indices') = Len(indices) - 1 /\ indices' \in Seq(Indices)
        /\ \A i \in 1 .. Len(indices') : /\ i + 1 \in 1 .. Len(indices)
                                         /\ indices'[i] = indices[i + 1]
        /\ 1 \in 1 .. Len(indices)
    BY <1>3, Popped DEF TokenInv, TokenType
  <2>2. /\ marks' \in [Indices -> Seq(MarkerNames)] /\ Upto(marks'[t], 3)
        /\ \A u \in Indices \ {t} : marks'[u] = marks[u]
    <3>1. Upto(marks[t], 1)
      BY <2>1 DEF TokenInv, MarksInv
    <3> QED
      BY <1>3, <2>1, <3>1, MarkedTwo DEF TokenInv
  <2>3. /\ rendered' \in Seq(Indices) /\ Len(rendered') = Len(rendered) + 1
        /\ \A j \in 1 .. Len(rendered) : rendered'[j] = rendered[j]
        /\ rendered'[Len(rendered) + 1] = t /\ rendered' # <<>>
        /\ Len(rendered) \in Nat
    <3>1. rendered \in Seq(Indices) /\ rendered' = Append(rendered, t)
      BY <1>3 DEF TokenInv, TokenType
    <3> HIDE DEF t
    <3> QED
      BY <2>1, <3>1
  <2> HIDE DEF t
  <2>4. /\ Begun \in Int /\ Len(indices) \in Nat
        /\ \A j \in 1 .. Len(rendered) : rendered[j] \in Nat
        /\ \A i \in 1 .. Len(indices) : indices[i] = Begun - Len(indices) + i
        /\ \A j \in 1 .. Len(rendered) : rendered[j] + Len(indices) <= Begun
    <3>1. /\ Begun \in Int /\ Len(indices) \in Nat
          /\ \A j \in 1 .. Len(rendered) : rendered[j] \in Nat
      BY TokenNumbers DEF TokenInv
    <3>2. \A i \in 1 .. Len(indices) : indices[i] = Begun - Len(indices) + i
      BY DEF TokenInv, OrderInv
    <3>3. \A j \in 1 .. Len(rendered) : rendered[j] + Len(indices) <= Begun
      BY DEF TokenInv, OrderInv
    <3> QED
      BY <3>1, <3>2, <3>3
  <2>5. TokenType'
    <3>1. Len(indices') <= kInFlight
      BY <2>1, <2>4, TokenNumbers DEF TokenInv, TokenType
    <3> QED
      BY <1>3, <2>1, <2>2, <2>3, <3>1 DEF t, TokenInv, TokenType
  <2>6. OrderInv'
    <3>1. \A i \in 1 .. Len(indices') : indices'[i] = Begun' - Len(indices') + i
      BY <1>0, <2>1, <2>4
    <3>2. ASSUME NEW j \in 1 .. Len(rendered')
          PROVE  rendered'[j] + Len(indices') <= Begun'
      <4>1. CASE j = Len(rendered) + 1
        BY <1>0, <2>1, <2>3, <2>4, <4>1
      <4>2. CASE j \in 1 .. Len(rendered)
        BY <1>0, <2>1, <2>3, <2>4, <4>2
      <4> QED
        BY <2>3, <4>1, <4>2
    <3>3. ASSUME NEW i \in 1 .. Len(rendered'), NEW j \in 1 .. Len(rendered'), i < j
          PROVE  rendered'[i] < rendered'[j]
      <4>1. i \in 1 .. Len(rendered) /\ rendered'[i] = rendered[i]
        BY <2>3, <3>3
      <4>2. CASE j = Len(rendered) + 1
        BY <2>1, <2>3, <2>4, <4>1, <4>2
      <4>3. CASE j \in 1 .. Len(rendered)
        BY <2>3, <3>3, <4>1, <4>3 DEF TokenInv, OrderInv, RenderedInOrder
      <4> QED
        BY <2>3, <4>2, <4>3
    <3> QED
      BY <1>3, <2>3, <3>1, <3>2, <3>3 DEF OrderInv, RenderedInOrder, t
  <2>7. MarksInv'
    <3>1. \A u \in Indices : \E n \in 0 .. 6 : Upto(marks'[u], n)
      BY <2>2 DEF TokenInv, MarksInv
    <3>2. \A u \in Indices : u > Begun' => Upto(marks'[u], 0)
      <4>1. Begun' = Begun /\ ~(t > Begun)
        BY <1>0, <2>1, <2>4
      <4> QED
        BY <2>2, <4>1 DEF TokenInv, MarksInv
    <3>3. ASSUME NEW i \in 1 .. Len(indices') PROVE Upto(marks'[indices'[i]], 1)
      <4>1. /\ indices'[i] = indices[i + 1] /\ indices[i + 1] \in Indices
            /\ Upto(marks[indices[i + 1]], 1)
        BY <2>1, TokenNumbers DEF TokenInv, MarksInv
      <4>2. indices[i + 1] # t
        BY <2>1, <2>4
      <4> QED
        BY <2>2, <4>1, <4>2
    <3> QED
      BY <1>0, <1>3, <2>2, <3>1, <3>2, <3>3 DEF MarksInv, t
  <2> QED
    BY <2>5, <2>6, <2>7 DEF TokenInv
<1> QED
  BY <1>1, <1>2, <1>3 DEF TakeRenderToken

\* The next marker of the token at hand.
LEMMA MarkHand ==
    ASSUME TokenInv, renderToken # NoToken, Mark(Markers[Reached + 1], renderToken),
           UNCHANGED <<issued, starting, indices>>
    PROVE  /\ marks' \in [Indices -> Seq(MarkerNames)]
           /\ Upto(marks'[renderToken], Reached + 1)
           /\ \A t \in Indices : \E n \in 0 .. 6 : Upto(marks'[t], n)
           /\ \A t \in Indices : t > Begun => Upto(marks'[t], 0)
           /\ \A i \in 1 .. Len(indices) : Upto(marks'[indices[i]], 1)
<1>1. renderToken \in Indices /\ Reached \in 0 .. 5 /\ Upto(marks[renderToken], Reached)
  BY DEF TokenInv, TokenType, MarksInv, Reached
<1>2. /\ marks' \in [Indices -> Seq(MarkerNames)]
      /\ Upto(marks'[renderToken], Reached + 1)
      /\ \A u \in Indices \ {renderToken} : marks'[u] = marks[u]
  BY <1>1, Marked DEF TokenInv
<1>3. \A t \in Indices : \E n \in 0 .. 6 : Upto(marks'[t], n)
  <2>1. Reached + 1 \in 0 .. 6
    BY <1>1
  <2> QED
    BY <1>2, <2>1 DEF TokenInv, MarksInv
<1>4. \A t \in Indices : t > Begun => Upto(marks'[t], 0)
  <2>1. ~(renderToken > Begun)
    BY <1>1, TokenNumbers, RenderedAreBegun DEF TokenInv
  <2> QED
    BY <1>2, <2>1 DEF TokenInv, MarksInv
<1>5. ASSUME NEW i \in 1 .. Len(indices) PROVE Upto(marks'[indices[i]], 1)
  <2>1. indices[i] \in Indices \ {renderToken} /\ Upto(marks[indices[i]], 1)
    BY TokenNumbers, RenderedAreBegun DEF TokenInv, MarksInv
  <2> QED
    BY <1>2, <2>1
<1> QED
  BY <1>2, <1>3, <1>4, <1>5

\* A marker of the present under way.
LEMMA AdvanceStep ==
    ASSUME TokenInv, NEW from, NEW to, Advance(from, to),
           \/ from = "taken" /\ to = "RenderSubmitEnd"
           \/ from = "RenderSubmitEnd" /\ to = "PresentStart"
    PROVE  TokenInv'
<1>1. /\ UNCHANGED <<issued, starting, indices, rendered, renderToken>>
      /\ stage = from /\ stage' = to
      /\ IF renderToken # NoToken THEN Mark(to, renderToken) ELSE UNCHANGED marks
  BY DEF Advance
<1>2. Begun' = Begun /\ Reached' = Reached + 1 /\ to = Markers[Reached + 1]
  BY <1>1, MarkersAre DEF Begun, Reached
<1>3. OrderInv'
  BY <1>1, <1>2 DEF TokenInv, OrderInv, RenderedInOrder
<1>4. CASE renderToken = NoToken
  <2>1. TokenType'
    BY <1>1, <1>4 DEF TokenInv, TokenType
  <2>2. MarksInv'
    BY <1>1, <1>2, <1>4 DEF TokenInv, MarksInv
  <2> QED
    BY <1>3, <2>1, <2>2 DEF TokenInv
<1>5. CASE renderToken # NoToken
  <2>1. Mark(Markers[Reached + 1], renderToken)
    BY <1>1, <1>2, <1>5
  <2>2. TokenType'
    BY <1>1, <1>5, <2>1, MarkHand DEF TokenInv, TokenType
  <2>3. MarksInv'
    BY <1>1, <1>2, <1>5, <2>1, MarkHand DEF MarksInv
  <2> QED
    BY <1>3, <2>2, <2>3 DEF TokenInv
<1> QED
  BY <1>4, <1>5

\* The end of a present, and a present that is refused: the frame's token goes.
LEMMA EndStep == TokenInv /\ (PresentEnd \/ PresentRefused) => TokenInv'
<1> SUFFICES ASSUME TokenInv, PresentEnd \/ PresentRefused PROVE TokenInv'
  OBVIOUS
<1>1. /\ UNCHANGED <<issued, starting, indices, rendered>>
      /\ renderToken' = NoToken /\ stage' = "none"
  BY DEF PresentEnd, PresentRefused
<1>2. Begun' = Begun
  BY <1>1 DEF Begun
<1>3. OrderInv'
  BY <1>1, <1>2 DEF TokenInv, OrderInv, RenderedInOrder
<1>4. CASE UNCHANGED marks
  <2>1. TokenType'
    BY <1>1, <1>4 DEF TokenInv, TokenType
  <2>2. MarksInv'
    BY <1>1, <1>2, <1>4 DEF TokenInv, MarksInv
  <2> QED
    BY <1>3, <2>1, <2>2 DEF TokenInv
<1>5. CASE PresentEnd /\ renderToken # NoToken
  <2>1. Mark(Markers[Reached + 1], renderToken)
    BY <1>5, MarkersAre DEF PresentEnd, Reached
  <2>2. TokenType'
    BY <1>1, <1>5, <2>1, MarkHand DEF TokenInv, TokenType
  <2>3. MarksInv'
    BY <1>1, <1>2, <1>5, <2>1, MarkHand DEF MarksInv
  <2> QED
    BY <1>3, <2>2, <2>3 DEF TokenInv
<1> QED
  BY <1>4, <1>5 DEF PresentEnd, PresentRefused

\* A new presenter starts with no tokens, and with none under way.
LEMMA RestartStep == TokenInv /\ Restart => TokenInv'
<1> SUFFICES ASSUME TokenInv, Restart PROVE TokenInv'
  OBVIOUS
<1>1. /\ indices' = <<>> /\ renderToken' = NoToken
      /\ UNCHANGED <<issued, starting, stage, marks, rendered>>
  BY DEF Restart
<1>2. Begun' = Begun /\ Len(indices') = 0
  BY <1>1 DEF Begun
<1>3. TokenType'
  BY <1>1, <1>2, TokenNumbers DEF TokenInv, TokenType
<1>4. OrderInv'
  <2>1. \A j \in 1 .. Len(rendered) : rendered[j] + 0 <= Begun
    <3>1. \A j \in 1 .. Len(rendered) :
             rendered[j] \in Nat /\ rendered[j] + Len(indices) <= Begun
      BY TokenNumbers DEF TokenInv, OrderInv
    <3> QED
      BY <3>1, TokenNumbers DEF TokenInv
  <2> QED
    BY <1>1, <1>2, <2>1 DEF TokenInv, OrderInv, RenderedInOrder
<1>5. MarksInv'
  BY <1>1, <1>2 DEF TokenInv, MarksInv
<1> QED
  BY <1>3, <1>4, <1>5 DEF TokenInv

LEMMA TokenStep == LifeInv /\ TokenInv /\ [BridgeNext]_bridgeVars => TokenInv'
<1> SUFFICES ASSUME LifeInv, TokenInv, [BridgeNext]_bridgeVars PROVE TokenInv'
  OBVIOUS
<1>1. CASE UNCHANGED vars
  BY <1>1
     DEF vars, TokenInv, TokenType, OrderInv, RenderedInOrder, MarksInv, Begun, Reached
<1>2. CASE SimulationStart \/ SimulationBegun
  BY <1>2, SimulationStartStep, SimulationBegunStep
<1>3. CASE OnRenderStart \/ PresentBegin
  BY <1>3, TakeStep DEF OnRenderStart, PresentBegin
<1>4. CASE SubmitEnd \/ ShowStart
  BY <1>4, AdvanceStep DEF SubmitEnd, ShowStart
<1>5. CASE PresentEnd \/ PresentRefused
  BY <1>5, EndStep
<1>6. CASE Restart
  BY <1>6, RestartStep
<1> QED
  BY <1>1, <1>2, <1>3, <1>4, <1>5, <1>6, TokensAlone DEF Next

-----------------------------------------------------------------------------
IInv == LifeInv /\ BackendInv /\ OptionInv /\ TokenInv

\* The inductive invariant of the presenter's life.
THEOREM Inductive == BridgeSpec => []IInv
<1>1. BridgeInit => IInv
  BY LifeInit, BackendInit, OptionInit, TokenInit DEF BridgeInit, IInv
<1>2. IInv /\ [BridgeNext]_bridgeVars => IInv'
  BY LifeStep, BackendStep, OptionStep, TokenStep DEF IInv
<1> QED
  BY <1>1, <1>2, PTL DEF BridgeSpec

\* DeviceHook.cpp:203, Presenter.cpp:163 and :221: one swap chain at most on the
\* window, and a presenter only on a finished backend, on the device Streamline
\* was given and the adapter the game's device is on.
THEOREM StartsWhole == BridgeSpec => []StartIsWhole
<1>1. IInv => StartIsWhole
  <2> SUFFICES ASSUME IInv PROVE StartIsWhole
    OBVIOUS
  <2>1. window \subseteq {"game", "ours"} /\ ~({"game", "ours"} \subseteq window)
    BY DEF IInv, LifeInv, HasSwapChain
  <2>2. window = {} \/ window = {"game"} \/ window = {"ours"}
    BY <2>1
  <2>3. Cardinality(window) <= 1
    <3>1. CASE window = {}
      BY <3>1, FS_EmptySet
    <3>2. ASSUME NEW w, window = {w} PROVE Cardinality(window) <= 1
      <4>1. Cardinality({w}) = 1
        BY FS_Singleton
      <4> QED
        BY <3>2, <4>1
    <3> QED
      BY <2>2, <3>1, <3>2
  <2> QED
    BY <2>3 DEF IInv, BackendInv, StartIsWhole, OneSwapChain
<1> QED
  BY <1>1, Inductive, PTL

\* Presenter.cpp:732 and :513, FrameGeneration.cpp:127: what Streamline was told
\* last is what the swap chain, the frame and the feature stand for.
THEOREM OptionsAreFollowed == BridgeSpec => []OptionsFollow
<1>1. IInv => OptionsFollow
  BY DEF IInv, LifeInv, OptionInv, OptionsFollow, OffWhenTouched
<1> QED
  BY <1>1, Inductive, PTL

\* Every token goes through its markers in their one order, and frames render
\* with ever younger tokens.
THEOREM FramesKeepOrder == BridgeSpec => []FramesInOrder
<1>1. IInv => FramesInOrder
  <2> SUFFICES ASSUME IInv, NEW t \in Indices PROVE IsPrefix(marks[t], Markers)
    BY DEF IInv, TokenInv, OrderInv, FramesInOrder, MarkersInOrder
  <2>1. PICK n \in 0 .. 6 : Upto(marks[t], n)
    BY DEF IInv, TokenInv, MarksInv
  <2>2. /\ marks[t] \in Seq(MarkerNames) /\ Len(marks[t]) = n
        /\ \A i \in 1 .. n : marks[t][i] = Markers[i]
    BY <2>1 DEF IInv, TokenInv, TokenType, Upto
  <2>3. Markers \in Seq(MarkerNames) /\ Len(Markers) = 6
    BY MarkersAre DEF Markers
  <2> QED
    BY <2>2, <2>3 DEF IsPrefix
<1> QED
  BY <1>1, Inductive, PTL

\* The token a frame takes is among the kInFlight + 1 newest issued.
THEOREM NeverBehind == BridgeSpec => NeverFarBehind
<1>1. IInv /\ [BridgeNext]_bridgeVars =>
        [\A t \in Indices : renderToken' = t /\ renderToken # t => t + kInFlight >= issued]_vars
  <2> SUFFICES ASSUME IInv, [BridgeNext]_bridgeVars, ~UNCHANGED vars,
                      NEW t \in Indices, renderToken' = t, renderToken # t
               PROVE  t + kInFlight >= issued
    OBVIOUS
  <2>1. t # NoToken
    BY TokenNumbers DEF IInv, TokenInv
  <2>2. indices # <<>> /\ t = Head(indices)
    BY <2>1, TokensAlone
       DEF IInv, Next, SimulationStart, SimulationBegun, OnRenderStart, PresentBegin,
           SubmitEnd, ShowStart, Advance, PresentEnd, PresentRefused, TakeRenderToken, Restart
  <2>3. t = indices[1] /\ 1 \in 1 .. Len(indices)
    BY <2>2 DEF IInv, TokenInv, TokenType
  <2>4. t = Begun - Len(indices) + 1 /\ Len(indices) <= kInFlight
    BY <2>3 DEF IInv, TokenInv, TokenType, OrderInv
  <2> QED
    BY <2>4, TokenNumbers DEF IInv, TokenInv
<1> QED
  BY <1>1, Inductive, PTL DEF BridgeSpec, NeverFarBehind
=============================================================================
