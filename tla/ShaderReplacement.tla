-------------------------- MODULE ShaderReplacement --------------------------
(***************************************************************************)
(* Features/ImagespaceTint and Shader/ShaderOverride: one pixel shader of  *)
(* the engine's replaced by our own, compiled from files that may be       *)
(* edited while the game runs.  A watcher thread reads and compiles, the   *)
(* render thread creates the shader and writes it into the engine's slot,  *)
(* an editor writes the files, and the engine may load its own shader anew *)
(* between two of our calls.  The engine may draw at any moment.           *)
(***************************************************************************)
EXTENDS Naturals, Sequences, FiniteSets

CONSTANTS
    Slot,      \* the passes the catalog may choose
    MaxEdits,  \* bound: edits of the files
    MaxLoads   \* bound: shaders the engine loads anew

ASSUME ReplacementConstantsAssumption ==
    "none" \notin Slot /\ MaxEdits \in Nat /\ MaxLoads \in Nat

VARIABLES
    disk,       \* each file: its time of writing and what it is worth
    edits,      \* edits made
    watcher,    \* what the watcher thread does
    loadedOnce, \* whether it has compiled once
    watch,      \* the times of writing FileWatch holds, 0 for none
    text,       \* what has been read: the time of writing of each file
    pending,    \* the bytecode published, named by its text
    hasPending,
    stop,
    render,     \* what the render thread does
    catalogDone,
    adopted,    \* the override's slot, or "none"
    original,   \* the shader it found there
    ours,       \* the replacement, NoShader without one
    bytecode,   \* what Install is given
    previous,   \* our shader that is about to be released
    shader,     \* the engine's memory: the shader of each slot
    loads,    \* the number of the engine's own shader for each slot
    lost,       \* history: an edit or a build went unnoticed
    fooled      \* history: a shader not the engine's was noted as the original

diskVars   == <<disk, edits>>
watchVars  == <<watcher, loadedOnce, watch, text>>
sharedVars == <<pending, hasPending, stop>>
slotVars   == <<adopted, original, ours, previous, shader, loads>>
tintVars   == <<diskVars, watchVars, sharedVars, slotVars, render, catalogDone, bytecode,
                lost, fooled>>

Files    == <<"main", "include">>     \* in the order in which LoadSource reads them
File     == {"main", "include"}
NoText   == [f \in {} |-> 0]
NoShader == [of |-> "nobody", n |-> 0, text |-> NoText]

Engines(s, n) == [of |-> "engine", n |-> n, text |-> NoText]
Stamps        == [f \in File |-> disk[f].stamp]

\* A new shader of ours, the first number that nothing points to.
NewShader(t) ==
    LET used == {shader[s].n : s \in Slot} \cup {ours.n, previous.n, original.n}
    IN  [of |-> "ours", n |-> CHOOSE n \in 1 .. 6 : n \notin used, text |-> t]

ReplacementInit ==
    /\ disk \in [File -> [stamp : {1}, worth : {"fine", "broken", "missing"}]] /\ edits = 1
    /\ watcher = "gone" /\ loadedOnce = FALSE /\ watch = NoText /\ text = NoText
    /\ pending = NoText /\ hasPending = FALSE /\ stop = FALSE
    /\ render = "off" /\ catalogDone = FALSE
    /\ adopted = "none" /\ original = NoShader /\ ours = NoShader /\ previous = NoShader
    /\ bytecode = NoText
    /\ loads = [s \in Slot |-> 1] /\ shader = [s \in Slot |-> Engines(s, 1)]
    /\ lost = FALSE /\ fooled = FALSE

-----------------------------------------------------------------------------
(* The editor and the engine                                               *)

Edit(f) ==
    /\ edits <= MaxEdits
    /\ \E w \in {"fine", "broken", "missing"} :
         disk' = [disk EXCEPT ![f] = [stamp |-> edits + 1, worth |-> w]]
    /\ edits' = edits + 1
    /\ UNCHANGED <<watchVars, sharedVars, slotVars, render, catalogDone, bytecode, lost, fooled>>

\* The old one is gone with it.
EngineLoads(s) ==
    /\ render \in {"off", "idle"} /\ loads[s] <= MaxLoads
    /\ loads' = [loads EXCEPT ![s] = @ + 1]
    /\ shader' = [shader EXCEPT ![s] = Engines(s, loads'[s])]
    /\ UNCHANGED <<adopted, original, ours, previous>>
    /\ UNCHANGED <<diskVars, watchVars, sharedVars, render, catalogDone, bytecode, lost, fooled>>

-----------------------------------------------------------------------------
(* The watcher thread                                                      *)

\* A file that is not there is neither a change nor news.
TimestampOr(f, fallback) == IF disk[f].worth = "missing" THEN fallback ELSE disk[f].stamp

Changed == {f \in DOMAIN watch : TimestampOr(f, watch[f]) # watch[f]}

\* WatcherLoop: compiles at first, then when Poll reports a change.
WatcherLoop ==
    /\ watcher = "asleep"
    /\ IF stop THEN watcher' = "gone" /\ UNCHANGED <<loadedOnce, watch, text>>
       ELSE /\ ~loadedOnce \/ Changed # {}
            /\ watcher' = "read" /\ text' = NoText
            /\ loadedOnce' = TRUE
            /\ watch' = IF loadedOnce THEN [f \in DOMAIN watch |-> TimestampOr(f, watch[f])]
                        ELSE watch
    /\ UNCHANGED <<diskVars, sharedVars, slotVars, render, catalogDone, bytecode, lost, fooled>>

\* LoadSource, file by file.  One that is missing ends it; on the very first
\* try that leaves the watch empty.
LoadSource ==
    LET f == Files[Cardinality(DOMAIN text) + 1]
    IN  /\ watcher = "read"
        /\ IF disk[f].worth = "missing"
           THEN /\ watcher' = "asleep" /\ text' = NoText
                /\ lost' = (lost \/ watch = NoText)
           ELSE /\ text' = [g \in DOMAIN text \cup {f} |-> IF g = f THEN disk[f].stamp ELSE text[g]]
                /\ watcher' = IF f = "include" THEN "reset" ELSE "read"
                /\ UNCHANGED lost
        /\ UNCHANGED <<loadedOnce, watch>>
        /\ UNCHANGED <<diskVars, sharedVars, slotVars, render, catalogDone, bytecode, fooled>>

\* FileWatch::Reset looks at the files again: an edit since they were read is
\* taken for what was read.
Reset ==
    /\ watcher = "reset" /\ watcher' = "compile"
    /\ watch' = [f \in File |-> TimestampOr(f, 0)]
    /\ lost' = \E f \in File : disk[f].worth # "missing" /\ watch'[f] # text[f]
    /\ UNCHANGED <<loadedOnce, text>>
    /\ UNCHANGED <<diskVars, sharedVars, slotVars, render, catalogDone, bytecode, fooled>>

\* A typo keeps what is there.  What was read is good if it is what is on
\* disk now and that is fine; of a version gone since, nobody can tell.
CompileText ==
    /\ watcher = "compile"
    /\ \/ /\ \A f \in File : text[f] # disk[f].stamp \/ disk[f].worth # "broken"
          /\ watcher' = "publish" /\ UNCHANGED text
       \/ /\ \E f \in File : text[f] # disk[f].stamp \/ disk[f].worth = "broken"
          /\ watcher' = "asleep" /\ text' = NoText
    /\ UNCHANGED <<loadedOnce, watch>>
    /\ UNCHANGED <<diskVars, sharedVars, slotVars, render, catalogDone, bytecode, lost, fooled>>

\* Mutant: the flag goes up before the bytecode is there.
Publish_FlagFirst ==
    /\ \/ watcher = "publish" /\ watcher' = "flag" /\ hasPending' = TRUE /\ UNCHANGED pending
       \/ watcher = "flag" /\ watcher' = "asleep" /\ pending' = text /\ UNCHANGED hasPending
    /\ UNCHANGED <<stop, loadedOnce, watch, text>>
    /\ UNCHANGED <<diskVars, slotVars, render, catalogDone, bytecode, lost, fooled>>

\* The bytecode under the lock, then the flag.
Publish ==
    /\ \/ watcher = "publish" /\ watcher' = "flag" /\ pending' = text /\ UNCHANGED hasPending
       \/ watcher = "flag" /\ watcher' = "asleep" /\ hasPending' = TRUE /\ UNCHANGED pending
    /\ text' = IF watcher = "publish" THEN text ELSE NoText
    /\ UNCHANGED <<stop, loadedOnce, watch>>
    /\ UNCHANGED <<diskVars, slotVars, render, catalogDone, bytecode, lost, fooled>>

-----------------------------------------------------------------------------
(* The render thread                                                       *)

TintSetup ==
    /\ render = "off"
    /\ render' = "idle"
    /\ stop' = FALSE /\ catalogDone' = FALSE
    /\ watcher' = "asleep" /\ loadedOnce' = FALSE
    /\ UNCHANGED <<watch, text, pending, hasPending>>
    /\ UNCHANGED <<diskVars, slotVars, bytecode, lost, fooled>>

\* Adopt: the slot, and whatever is in it.
Adopt(s) ==
    /\ adopted' = s /\ original' = shader[s]
    /\ fooled' = (fooled \/ shader[s].of = "ours" \/ ours # NoShader)

\* TryCatalog, on the frames that ask: no pass yet, none that will do, or one.
TryCatalog ==
    \/ UNCHANGED <<catalogDone, adopted, original, fooled>>
    \/ /\ ~catalogDone /\ catalogDone' = TRUE
       /\ (UNCHANGED <<adopted, original, fooled>> \/ \E s \in Slot : Adopt(s))

TintFrame ==
    /\ render = "idle" /\ render' = "drain"
    /\ TryCatalog
    /\ UNCHANGED <<ours, previous, shader, loads>>
    /\ UNCHANGED <<diskVars, watchVars, sharedVars, bytecode, lost>>

\* The bytecode stays where it is until there is a slot to put it in.
Drain ==
    /\ render = "drain"
    /\ IF adopted # "none" /\ hasPending THEN render' = "take" /\ hasPending' = FALSE
       ELSE render' = "guard" /\ UNCHANGED hasPending
    /\ UNCHANGED <<pending, stop, catalogDone, bytecode>>
    /\ UNCHANGED <<diskVars, watchVars, slotVars, lost, fooled>>

Take ==
    /\ render = "take" /\ render' = "install"
    /\ bytecode' = pending /\ pending' = NoText
    /\ UNCHANGED <<hasPending, stop, catalogDone>>
    /\ UNCHANGED <<diskVars, watchVars, slotVars, lost, fooled>>

\* The other thread was quicker than the flag and there is nothing to take,
\* or the device refuses: the bytecode is gone.
InstallNot ==
    /\ render = "install" /\ render' = "guard"
    /\ bytecode' = NoText
    /\ lost' = (lost \/ bytecode # NoText)
    /\ UNCHANGED <<diskVars, watchVars, sharedVars, slotVars, catalogDone, fooled>>

\* Mutant: the old one is released before the slot points at the new one.
Install_ReleasesFirst ==
    /\ render = "install" /\ bytecode # NoText
    /\ IF ours # NoShader THEN ours' = NoShader /\ UNCHANGED <<shader, render, bytecode>>
       ELSE /\ ours' = NewShader(bytecode) /\ shader' = [shader EXCEPT ![adopted] = ours']
            /\ render' = "release" /\ bytecode' = NoText
    /\ UNCHANGED <<adopted, original, previous, loads>>
    /\ UNCHANGED <<diskVars, watchVars, sharedVars, catalogDone, lost, fooled>>

Install ==
    /\ render = "install" /\ bytecode # NoText
    /\ ours' = NewShader(bytecode) /\ previous' = ours
    /\ shader' = [shader EXCEPT ![adopted] = ours']
    /\ render' = "release" /\ bytecode' = NoText
    /\ UNCHANGED <<adopted, original, loads>>
    /\ UNCHANGED <<diskVars, watchVars, sharedVars, catalogDone, lost, fooled>>

Release ==
    /\ render \in {"release", "restored"}
    /\ previous' = NoShader
    /\ IF render = "release"
       THEN render' = "guard" /\ UNCHANGED <<pending, hasPending, catalogDone>>
       ELSE render' = "off" /\ pending' = NoText /\ hasPending' = FALSE /\ catalogDone' = FALSE
    /\ UNCHANGED <<adopted, original, ours, shader, loads, stop, bytecode>>
    /\ UNCHANGED <<diskVars, watchVars, lost, fooled>>

\* The engine's newer shader becomes the original, ours goes back on top.
Guard ==
    /\ render = "guard" /\ render' = "idle"
    /\ IF adopted # "none" /\ ours # NoShader /\ shader[adopted] # ours
       THEN /\ original' = shader[adopted]
            /\ shader' = [shader EXCEPT ![adopted] = ours]
       ELSE UNCHANGED <<original, shader>>
    /\ UNCHANGED <<adopted, ours, previous, loads>>
    /\ UNCHANGED <<diskVars, watchVars, sharedVars, catalogDone, bytecode, lost, fooled>>

TintShutdown ==
    /\ render = "idle" /\ render' = "joining"
    /\ stop' = TRUE
    /\ UNCHANGED <<pending, hasPending, catalogDone, bytecode>>
    /\ UNCHANGED <<diskVars, watchVars, slotVars, lost, fooled>>

Joined == render = "joining" /\ watcher = "gone"

\* Restore: what was noted goes back, whatever is in the slot by now.
Restore ==
    /\ Joined /\ render' = "restored"
    /\ IF adopted = "none" THEN UNCHANGED <<shader, ours, previous>>
       ELSE /\ shader' = [shader EXCEPT ![adopted] = original]
            /\ previous' = ours /\ ours' = NoShader
    /\ UNCHANGED <<adopted, original, loads>>
    /\ UNCHANGED <<diskVars, watchVars, sharedVars, catalogDone, bytecode, lost, fooled>>

-----------------------------------------------------------------------------
Watches   == WatcherLoop \/ LoadSource \/ Reset \/ CompileText \/ Publish
Installs  == Drain \/ Take \/ InstallNot \/ Install \/ Release \/ Guard
Frames    == TintFrame \/ Installs
ReplacementNext ==
    \/ \E f \in File : Edit(f)
    \/ \E s \in Slot : EngineLoads(s)
    \/ Watches \/ Frames
    \/ TintSetup \/ TintShutdown \/ Restore

ReplacementSpec ==
    /\ ReplacementInit /\ [][ReplacementNext]_tintVars
    /\ WF_tintVars(Watches) /\ WF_tintVars(Frames) /\ WF_tintVars(Restore)

-----------------------------------------------------------------------------
\* ShaderOverride.cpp:45: there is no instant at which the engine could bind
\* a dead shader of ours, in the middle of Install and of Restore and over
\* any number of edits, unless what Adopt found was ours.
SlotIsAlive ==
    ~fooled => \A s \in Slot : shader[s].of = "ours" => shader[s] \in {ours, previous}

\* Switched off, nothing of the feature is left to act on the engine later:
\* no thread, no build, no shader of ours.
OffIsQuiet ==
    render = "off" =>
        /\ watcher = "gone"
        /\ pending = NoText /\ ~hasPending
        /\ ours = NoShader /\ previous = NoShader

\* No object of the replacement is used after its end, by the engine or by
\* our own thread.
ReplacementIsSafe == SlotIsAlive /\ OffIsQuiet

\* Whatever is edited while whoever reads, the last edit that compiles is
\* drawn with in the end, if a pass was found and the feature stays on.  Not
\* so, and marked lost: an edit between the reading of the files and the
\* noting of their times, a file missing on the very first try, and a shader
\* the device refuses to create.
EditsShown ==
    <>[](/\ render \notin {"off", "joining", "restored"} /\ adopted # "none" /\ ~lost
         /\ \A f \in File : disk[f].worth = "fine")
        => <>[](ours.text = Stamps /\ \E s \in Slot : s = adopted /\ shader[s] = ours)

\* ShaderOverride.h:29: Restore puts the engine's own shader back.
EnginesOwnBack == render = "off" => \A s \in Slot : shader[s] = Engines(s, loads[s])
=============================================================================
