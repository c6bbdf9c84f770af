---------------------------- MODULE EffectPasses ----------------------------
(***************************************************************************)
(* The passes the effects draw in the middle of the engine's frame, call   *)
(* by call, and Render/StateGuard, which is to give the engine its own     *)
(* bindings back after each.  One thread makes all the calls.              *)
(*                                                                         *)
(* A binding is a function from slots to what is bound there.  D3D11 does  *)
(* not let a texture be input and output at once: whichever is bound last  *)
(* it drops the input, without a word, and the draw reads nothing.         *)
(***************************************************************************)
EXTENDS Naturals, Sequences

VARIABLES
    engines, \* what the engine bound before the passes
    bound,   \* what is bound
    pass,    \* the pass that runs, or "none"
    call,    \* which of its calls is next
    asked,   \* history: what the pass asked for, slot by slot
    saved    \* what its guard saved

passVars == <<engines, bound, pass, call, asked, saved>>

Outputs  == {"RT0", "RT1", "DSV", "CSUAV0", "CSUAV1"}
Inputs   == {"PSSRV0", "PSSRV1", "PSSRV2", "CSSRV0"}
Compute  == {"CS", "CSSampler0", "CSCB1"}
Graphics == {"blend", "viewports", "rasterizer", "depthState", "topology", "VS", "PS",
             "PSSampler0", "PSCB1", "inputLayout"}
Slots    == Outputs \cup Inputs \cup Graphics \cup Compute

With(b, new) == [s \in DOMAIN b \cup DOMAIN new |-> IF s \in DOMAIN new THEN new[s] ELSE b[s]]

\* D3D11: the slots a call names change, and an input that is an output as
\* well is dropped.
Bind(b, new) ==
    LET outputs == {With(b, new)[s] : s \in Outputs} \ {"none"}
    IN  [s \in Slots |->
            IF s \in Inputs /\ With(b, new)[s] \in outputs THEN "none" ELSE With(b, new)[s]]

-----------------------------------------------------------------------------
(* The calls of a pass                                                     *)

Put(slot, x) == [s \in {slot} |-> x]
Ours(slots)  == [s \in slots |-> "ours"]
Draw         == [s \in {} |-> "none"]

OMSetRenderTargets(rt0, rt1) ==
    [s \in {"RT0", "RT1", "DSV"} |->
        CASE s = "RT0" -> rt0 [] s = "RT1" -> rt1 [] s = "DSV" -> "none"]

UnbindTargets == OMSetRenderTargets("none", "none")

DrawFullscreen ==
    <<Put("inputLayout", "none"), Ours({"topology", "rasterizer", "depthState", "VS"}), Draw>>

\* What the passes with a pixel shader have in common: blend and shader, and
\* inputs in the slots from 0.
Fullscreen(rt0, rt1, inputs, others) ==
    <<UnbindTargets, OMSetRenderTargets(rt0, rt1)>>
    \o [i \in DOMAIN inputs |-> Put(<<"PSSRV0", "PSSRV1", "PSSRV2">>[i], inputs[i])]
    \o <<Ours(others \cup {"blend", "PS"})>>
    \o DrawFullscreen

\* Screen-space shadows: the march through the depth writes the mask ...
RayMarch ==
    <<UnbindTargets, Ours({"CS"}), Put("CSSRV0", "sceneDepth"), Put("CSUAV0", "mask"),
      Ours({"CSSampler0", "CSCB1"}), Draw>>

\* Mutant: the mask is not let go of before it is read.
Modulate_KeepsUAV ==
    <<OMSetRenderTargets("diffuse", "specular"), Ours({"blend"}), Put("PSSRV0", "mask"),
      Ours({"PS", "viewports"})>> \o DrawFullscreen

\* ... and the mask is multiplied onto the light.
Modulate ==
    <<Put("CSUAV0", "none"), Put("CSSRV0", "none"), Put("CS", "none"),
      OMSetRenderTargets("diffuse", "specular"), Ours({"blend"}), Put("PSSRV0", "mask"),
      Ours({"PS", "viewports"})>> \o DrawFullscreen

Fog  == Fullscreen("hdr", "none", <<"sceneDepth">>, {"PSCB1", "viewports"})
Show == Fullscreen("hdr", "none", <<"shown">>, {"PSSampler0", "PSCB1"})

CloudShadow(debug) ==
    Fullscreen("diffuse", IF debug THEN "none" ELSE "specular", <<"coverage", "sceneDepth">>,
               {"PSSampler0", "PSCB1", "viewports"})

\* The guard knows two pixel resources; the third the pass takes away itself.
SkyPass(target) ==
    Fullscreen(target, "none", <<"probes", "sceneDepth", "occlusion">>,
               {"viewports", "PSSampler0", "PSCB1"})
    \o <<Put("PSSRV2", "none")>>

\* The one pass without a guard: it touches nothing but the compute stage,
\* and lets go of its inputs and outputs itself.
Probes ==
    <<Ours({"CS"}), Put("CSSRV0", "occlusion"),
      [s \in {"CSUAV0", "CSUAV1"} |-> IF s = "CSUAV0" THEN "probes" ELSE "accumFrames"],
      Ours({"CSSampler0", "CSCB1"}), Draw,
      [s \in {"CSUAV0", "CSUAV1"} |-> "none"], Put("CSSRV0", "none"), Put("CS", "none")>>

Passes == {"Shadows", "Fog", "Show", "Clouds", "CloudsDebug", "Sky", "SkyDebug", "Probes"}

Calls(p) ==
    CASE p = "Shadows"     -> RayMarch \o Modulate
      [] p = "Fog"         -> Fog
      [] p = "Show"        -> Show
      [] p = "Clouds"      -> CloudShadow(FALSE)
      [] p = "CloudsDebug" -> CloudShadow(TRUE)
      [] p = "Sky"         -> SkyPass("ao")
      [] p = "SkyDebug"    -> SkyPass("hdr")
      [] p = "Probes"      -> Probes

-----------------------------------------------------------------------------
(* StateGuard                                                              *)

\* Mutant: the inputs are put back before the targets.
GuardedSlots_TargetsLast ==
    <<{"PSSRV0", "PSSRV1"}, {"CSSRV0"}, {"CSUAV0"},
      {"blend", "viewports", "rasterizer", "depthState", "topology", "VS", "PS", "CS"},
      {"CSSampler0", "PSSampler0", "CSCB1", "PSCB1"},
      {"RT0", "RT1", "DSV"}>>

\* What is saved, in the order in which the destructor puts it back.
GuardedSlots ==
    <<{"RT0", "RT1", "DSV"},
      {"blend", "viewports", "rasterizer", "depthState", "topology", "VS", "PS", "CS"},
      {"PSSRV0", "PSSRV1"}, {"CSSRV0"}, {"CSUAV0"},
      {"CSSampler0", "PSSampler0", "CSCB1", "PSCB1"}>>

PutBack(b, i) == Bind(b, [s \in GuardedSlots[i] |-> saved[s]])

Restored(b) == PutBack(PutBack(PutBack(PutBack(PutBack(PutBack(b, 1), 2), 3), 4), 5), 6)

-----------------------------------------------------------------------------
Nothing == [s \in {} |-> "none"]

\* What the engine may have bound when a pass begins.
Entry(rt, dsv, in0, in1) ==
    Bind([s \in Slots |-> IF s \in Outputs \cup Inputs THEN "none" ELSE "engines"],
         [s \in {"RT0", "DSV", "PSSRV0", "PSSRV1", "PSSRV2", "CSSRV0", "CSUAV0"} |->
             CASE s = "RT0" -> rt [] s = "DSV" -> dsv [] s = "PSSRV0" -> in0
               [] s = "PSSRV1" -> in1 [] s = "CSUAV0" -> "buffer" [] OTHER -> "texture"])

Entries ==
    {Entry(rt, dsv, in0, in1) :
       rt \in {"hdr", "diffuse"}, dsv \in {"none", "sceneDepth"},
       in0 \in {"sceneDepth", "diffuse", "ao"}, in1 \in {"specular", "hdr"}}

PassInit ==
    /\ engines = [s \in Slots |-> "none"] /\ bound = engines
    /\ pass = "none" /\ call = 1
    /\ asked = Nothing /\ saved = Nothing

\* The engine binds what its next draw needs.
EngineBinds ==
    /\ pass = "none"
    /\ engines' \in Entries /\ bound' = engines'
    /\ UNCHANGED <<pass, call, asked, saved>>

Begin(p) ==
    /\ pass = "none"
    /\ pass' = p /\ call' = 1 /\ asked' = Nothing
    /\ saved' = bound
    /\ UNCHANGED <<engines, bound>>

Call ==
    /\ pass # "none" /\ call <= Len(Calls(pass))
    /\ bound' = Bind(bound, Calls(pass)[call])
    /\ asked' = With(asked, Calls(pass)[call])
    /\ call' = call + 1
    /\ UNCHANGED <<engines, pass, saved>>

End ==
    /\ pass # "none" /\ call > Len(Calls(pass))
    /\ bound' = IF pass = "Probes" THEN bound ELSE Restored(bound)
    /\ pass' = "none" /\ call' = 1
    /\ asked' = Nothing /\ saved' = Nothing
    /\ UNCHANGED engines

PassNext == EngineBinds \/ (\E p \in Passes : Begin(p)) \/ Call \/ End

-----------------------------------------------------------------------------
\* A draw finds in every slot what its pass asked for: no texture is input
\* and output at once, whatever the engine or another pass left bound.
\* ScreenSpaceShadows.cpp:318: D3D11 would otherwise quietly drop one.
DrawsFindWhatTheyAsked ==
    pass # "none" /\ call <= Len(Calls(pass)) /\ Calls(pass)[call] = Draw =>
        \A s \in DOMAIN asked : bound[s] = asked[s]

\* What passes are known to take: the input layout, the third pixel
\* resource and, for the sky's probes, the compute stage.
Taken == {"inputLayout", "PSSRV2", "CSUAV0", "CSUAV1", "CSSRV0"} \cup Compute

\* Between passes the engine finds everything else as it bound it, and no
\* texture of ours still bound, as output or as input.
BindingsGivenBack ==
    pass = "none" =>
        /\ \A s \in Slots \ Taken : bound[s] = engines[s]
        /\ \A s \in Taken : bound[s] = "ours" => s \in {"CSSampler0", "CSCB1"}
        /\ \A s \in Outputs \cup Inputs :
              bound[s] \notin {"mask", "coverage", "probes", "accumFrames", "occlusion", "shown"}
=============================================================================
