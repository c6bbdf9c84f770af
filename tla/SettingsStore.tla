---------------------------- MODULE SettingsStore ----------------------------
(***************************************************************************)
(* Settings/Store, Util/FileWatch and Menu/SettingsPanel: the settings     *)
(* live in memory and in a JSON file that the player may edit while the    *)
(* game runs.  The plugin polls the file's timestamp every frame, reloads  *)
(* what somebody else wrote, and writes the file itself when the player    *)
(* has changed something in the overlay: at once, or when the slider is    *)
(* let go.  The plugin is one thread, but between its looks at the file    *)
(* and its writes of it the player's editor has its turn.                  *)
(***************************************************************************)
EXTENDS Naturals, FiniteSets

CONSTANTS
    Paths,        \* declared settings
    Strays,       \* keys of the file nobody declared
    Blocks,       \* the objects of the file, each the set of the keys it has room for
    Values,
    Default,      \* the declared default, of every setting
    MaxStamp      \* bound: writes of the file

Nothing == "nothing"   \* no slider
Steps == {"inspect", "read", "write", "rebase", "load", "watch", "reload"}

ASSUME ConstantsAssumption ==
    /\ Default \in Values
    /\ Paths \cap Strays = {}
    /\ Blocks \subseteq SUBSET (Paths \cup Strays)
    /\ \A b, c \in Blocks : b = c \/ b \cap c = {}
    /\ Nothing \notin Paths
    /\ MaxStamp \in Nat \ {0}

VARIABLES
    file,    \* the file: is it there, is it JSON, its keys, the blocks the player gave
             \*   a plain value instead of an object, its timestamp
    pc,      \* the plugin: the step of Init, Save or ConsumeChanged it is at
    mode,    \* WriteFile's mode
    root,    \* WriteFile's tree: keys and plain blocks
    value,   \* the values in memory
    dirty,   \* Dirty()
    open,    \* the overlay is open
    held,    \* the slider the player has hold of, or Nothing
    watched, \* the timestamp FileWatch has
    foreign, \* history: somebody has written the file since FileWatch looked at it, or
             \*   held it when FileWatch wanted to look
    unread,  \* history: what the editor wrote last was neither loaded nor overwritten
    struck,  \* history: ... and fell between the plugin's own load or write of the file
             \*   and its look at the timestamp
    raced,   \* history: somebody wrote the file under WriteFile's hands
    synced   \* history: file and memory were one, and nobody has touched the file since,
             \*   no write has failed and no slider was left half way

memory  == <<value, dirty>>
panel   == <<open, held>>
editor  == <<struck, raced>>
vars == <<file, pc, mode, root, memory, panel, watched, foreign, unread, editor, synced>>

Keys     == Paths \cup Strays
Texts    == UNION {[S -> Values] : S \in SUBSET Keys}
\* What a file can hold: a block with a plain value has no keys.
Trees    == {t \in [keys : Texts, plain : SUBSET Blocks] :
                DOMAIN t.keys \cap UNION t.plain = {}}
Empty    == [keys |-> [k \in {} |-> Default], plain |-> {}]
Declared == {b \in Blocks : b \cap Paths # {}}
Defaults == [p \in Paths |-> Default]

File(there, json, t, stamp) ==
    [there |-> there, json |-> json, keys |-> t.keys, plain |-> t.plain, stamp |-> stamp]
NoFile   == File(FALSE, FALSE, Empty, 0)
Written(t, json) == File(TRUE, json, t, file.stamp + 1)

\* The file as the player left it; the values are the declared defaults.
Init ==
    /\ \/ file = NoFile
       \/ file = File(TRUE, FALSE, Empty, 1)
       \/ \E t \in Trees : file = File(TRUE, TRUE, t, 1)
    /\ pc = "inspect" /\ mode = "fill" /\ root = Empty
    /\ value = Defaults /\ dirty = FALSE
    /\ open = FALSE /\ held = Nothing
    /\ watched = 0
    /\ foreign = FALSE /\ unread = FALSE /\ synced = FALSE
    /\ struck = FALSE /\ raced = FALSE

-----------------------------------------------------------------------------
(* The player's editor, at any moment *)

\* What WriteFile has read, or Init's Inspect has seen, is what it writes back.
UnderItsHands == pc = "write" \/ (pc = "read" /\ mode = "fill")

Edit ==
    /\ file.stamp < MaxStamp
    /\ \/ file' = Written(Empty, FALSE)
       \/ \E t \in Trees : file' = Written(t, TRUE)
    /\ foreign' = TRUE /\ unread' = TRUE /\ synced' = FALSE
    /\ struck' = (pc \in {"watch", "rebase"})
    /\ raced' = (raced \/ UnderItsHands)
    /\ UNCHANGED <<panel, pc, mode, root, memory, watched>>

Delete ==
    /\ file.there
    /\ file' = [NoFile EXCEPT !.stamp = file.stamp]
    /\ foreign' = TRUE /\ unread' = FALSE /\ synced' = FALSE
    /\ struck' = FALSE
    /\ raced' = (raced \/ UnderItsHands)
    /\ UNCHANGED <<panel, pc, mode, root, memory, watched>>

-----------------------------------------------------------------------------
(* Init *)

Complete == Paths \subseteq DOMAIN file.keys

\* A file that is missing is written, an incomplete one extended, and one
\* that is not JSON left alone.
Inspect ==
    /\ pc = "inspect"
    /\ pc' = IF file.there /\ (~file.json \/ Complete) THEN "load" ELSE "read"
    /\ UNCHANGED <<panel, file, mode, root, memory, watched, foreign, unread, editor, synced>>

\* FJsonSettingStore::Load: what the file says, and the declared default of
\* a key it does not hold.
Effective == [p \in Paths |-> IF p \in DOMAIN file.keys THEN file.keys[p] ELSE Default]

\* A file it cannot read leaves the values or resets them.
Load == IF file.json
        THEN value' = Effective /\ synced' = TRUE
        ELSE value' \in {value, Defaults} /\ synced' = FALSE

InitLoad ==
    /\ pc = "load"
    /\ Load
    /\ unread' = FALSE /\ struck' = FALSE
    /\ pc' = "watch"
    /\ UNCHANGED <<panel, file, mode, root, dirty, watched, foreign, raced>>

Timestamp == IF file.there THEN file.stamp ELSE watched

\* FileWatch::Reset.
InitWatch ==
    /\ pc = "watch"
    /\ watched' = Timestamp
    /\ foreign' = FALSE
    /\ dirty' = FALSE
    /\ pc' = "idle"
    /\ UNCHANGED <<panel, file, mode, root, value, unread, editor, synced>>

-----------------------------------------------------------------------------
(* WriteFile, for Init and for Save *)

\* Nothing, if there is no file or it is not JSON.
Root == [keys |-> file.keys, plain |-> file.plain]

ReadRoot ==
    /\ pc = "read"
    /\ root' = Root
    /\ pc' = "write"
    /\ UNCHANGED <<panel, file, mode, memory, watched, foreign, unread, editor, synced>>

\* kFillMissing keeps the value of a key that is there.
Keeps(p) == mode = "fill" /\ p \in DOMAIN root.keys

\* Mutant: the declared settings alone, not written onto what was read.
Merged_FromNothing == [keys |-> [p \in Paths |-> IF Keeps(p) THEN root.keys[p] ELSE value[p]],
                       plain |-> {}]

\* ObjectAt: a block of ours that is not an object is made one.
Merged == [keys |-> [k \in DOMAIN root.keys \cup Paths |->
                       IF k \in Paths /\ ~Keeps(k) THEN value[k] ELSE root.keys[k]],
           plain |-> root.plain \ Declared]

\* WriteFile's tree goes with it.
Done == root' = Empty /\ raced' = FALSE

WriteRoot ==
    /\ pc = "write" /\ file.stamp < MaxStamp
    /\ file' = Written(Merged, TRUE)
    /\ pc' = IF mode = "fill" THEN "load" ELSE "rebase"
    /\ unread' = FALSE
    /\ synced' = (mode = "overwrite")
    /\ Done
    /\ struck' = FALSE
    /\ UNCHANGED <<panel, mode, memory, watched, foreign>>

WriteFails ==
    /\ pc = "write"
    /\ pc' = IF mode = "fill" THEN "load" ELSE "idle"
    /\ synced' = FALSE
    /\ Done
    /\ UNCHANGED <<panel, file, mode, memory, watched, foreign, unread, struck>>

-----------------------------------------------------------------------------
(* The overlay.  It is drawn between two polls, and a change of a setting   *)
(* and the save behind it are one step of the plugin, up to the file.      *)

Set(new) == value' = new /\ dirty' = TRUE
Save     == mode' = "overwrite" /\ pc' = "read"

\* Mutant: a pick is left for the release of the item to save.
Click_OnlySets ==
    /\ pc = "idle" /\ held = Nothing
    /\ \E p \in Paths, v \in Values : Set([value EXCEPT ![p] = v])
    /\ UNCHANGED <<pc, mode, file, root, panel, watched, foreign, unread, editor, synced>>

\* A checkbox, a choice, or a key that was captured: set and saved at once.
Click ==
    /\ pc = "idle" /\ held = Nothing
    /\ \E p \in Paths, v \in Values : Set([value EXCEPT ![p] = v])
    /\ Save
    /\ UNCHANGED <<file, root, panel, watched, foreign, unread, editor, synced>>

RestoreDefaults ==
    /\ pc = "idle" /\ open /\ held = Nothing
    /\ Set(Defaults)
    /\ Save
    /\ UNCHANGED <<file, root, panel, watched, foreign, unread, editor, synced>>

\* A slider is set in every frame it is dragged in.
DrawSlider(p) ==
    /\ pc = "idle" /\ open /\ held \in {Nothing, p}
    /\ held' = p
    /\ \E v \in Values \ {value[p]} : Set([value EXCEPT ![p] = v])
    /\ UNCHANGED <<file, pc, mode, root, open, watched, foreign, unread, editor, synced>>

\* It is saved in the frame the player lets it go.
CommitOnRelease ==
    /\ pc = "idle" /\ open /\ held # Nothing
    /\ held' = Nothing
    /\ Save
    /\ UNCHANGED <<file, root, memory, open, watched, foreign, unread, editor, synced>>

\* The overlay opens or closes.  Closed it is drawn no longer, and a slider
\* the player had hold of is never seen to be let go.
Toggle ==
    /\ pc = "idle"
    /\ open' = ~open
    /\ held' = Nothing
    /\ synced' = (synced /\ held = Nothing)
    /\ UNCHANGED <<file, pc, mode, root, memory, watched, foreign, unread, editor>>

\* The current timestamp, or the old one while somebody holds the file.
Rebase ==
    /\ pc = "rebase"
    /\ watched' \in {Timestamp, watched}
    /\ foreign' = (watched' # Timestamp)
    /\ pc' = "idle"
    /\ UNCHANGED <<panel, file, mode, root, memory, unread, editor, synced>>

-----------------------------------------------------------------------------
(* ConsumeChanged *)

Changed == Timestamp # watched

\* Mutant: the timestamp is brought up to date and nothing done about it.
Poll_OnlyRebases ==
    /\ pc = "idle" /\ Changed
    /\ watched' = Timestamp
    /\ foreign' = FALSE
    /\ UNCHANGED <<panel, file, pc, mode, root, memory, unread, editor, synced>>

Poll ==
    /\ pc = "idle" /\ Changed
    /\ watched' = Timestamp
    /\ foreign' = FALSE
    /\ pc' = "reload"
    /\ UNCHANGED <<panel, file, mode, root, memory, unread, editor, synced>>

Reload ==
    /\ pc = "reload"
    /\ Load
    /\ unread' = FALSE /\ struck' = FALSE
    /\ dirty' = FALSE
    /\ pc' = "idle"
    /\ UNCHANGED <<panel, file, mode, root, watched, foreign, raced>>

\* The file is as it was, or cannot be looked at right now.
PollQuiet ==
    /\ pc = "idle"
    /\ dirty' = FALSE
    /\ UNCHANGED <<panel, file, pc, mode, root, value, watched, foreign, unread, editor, synced>>

Plugin == \/ Inspect \/ InitLoad \/ InitWatch
          \/ ReadRoot \/ WriteRoot \/ WriteFails \/ Rebase
          \/ Click \/ RestoreDefaults \/ \E p \in Paths : DrawSlider(p)
          \/ CommitOnRelease \/ Toggle \/ Poll \/ Reload \/ PollQuiet

Next == Edit \/ Delete \/ Plugin

Spec == Init /\ [][Next]_vars

-----------------------------------------------------------------------------
\* Every variable has its type.
TypeOK ==
    /\ file.there \in BOOLEAN /\ file.json \in BOOLEAN
    /\ Root \in Trees /\ file.stamp \in 0 .. MaxStamp
    /\ pc \in {"idle"} \cup Steps
    /\ mode \in {"fill", "overwrite"} /\ root \in Trees
    /\ value \in [Paths -> Values] /\ dirty \in BOOLEAN
    /\ open \in BOOLEAN /\ held \in Paths \cup {Nothing} /\ (held # Nothing => open)
    /\ watched \in 0 .. MaxStamp
    /\ {foreign, unread, struck, raced, synced} \subseteq BOOLEAN

\* Settings.h:149: our own write does not come back as somebody else's
\* change, or every click in the overlay would set every feature up again.
\* Only a file somebody holds while we look may.
OwnWriteIsQuiet == [][pc = "idle" /\ pc' = "reload" => foreign]_vars

\* Settings.h:153, ConsumeChanged is "true when the file changed on disk": an
\* edit that is neither loaded nor overwritten is one the next poll will see,
\* whatever the overlay saved before and after it.  The code keeps this of every
\* edit but one that falls between Init's load and Watch().Reset, or between
\* Save's write and Watch().Rebase: the look at the timestamp takes that edit for
\* the plugin's own, and it goes unseen until the file is written again.
EditsNoticed == pc = "idle" /\ unread => Changed \/ struck

\* Store.cpp:131: starting the plugin costs the player no value of a key the
\* file held, declared or not, and nothing at all of a file that is not JSON;
\* and (Store.cpp:182) a save costs no key nobody declared, and no block.  Two
\* things are not kept: a block of ours to which the player gave a plain value,
\* which becomes an object, and what somebody writes under WriteFile's hands.
WritesKeepTheRest ==
    [][pc = "write" /\ pc' # "write" /\ file' # file /\ ~raced =>
        /\ mode = "fill" => ~file.there \/ file.json
        /\ \A k \in DOMAIN file.keys : mode = "fill" \/ k \in Strays =>
              k \in DOMAIN file'.keys /\ file'.keys[k] = file.keys[k]
        /\ file'.plain = file.plain \ Declared]_vars

\* What the plugin writes by itself disturbs neither the player nor itself.
OwnWritesAreHarmless == OwnWriteIsQuiet /\ WritesKeepTheRest

\* SettingsPanel.cpp:30: a change is written when the player is done with
\* it.  As long as nobody else writes the file and no write fails, memory and
\* file agree whenever no slider is held: a restart finds what the player
\* saw, whatever he changed and however often the file was reloaded between.
\* (A slider held while the overlay closes is not written.)
InSync == pc = "idle" /\ held = Nothing /\ synced => value = Effective
=============================================================================
