------------------------- MODULE SettingsStoreProofs -------------------------
(***************************************************************************)
(* Theorems about SettingsStore, for every set of settings, of keys, of    *)
(* blocks and of values, whenever the editor strikes.                      *)
(***************************************************************************)
EXTENDS SettingsStore, TLAPS

-----------------------------------------------------------------------------
\* The watch has a timestamp the file has had.
WatchInv == watched <= file.stamp

\* Once the plugin is up, and but for its own write that it has not looked at
\* yet, a timestamp the watch does not have is somebody else's.
Settled == \/ pc \in {"idle", "reload"}
           \/ pc \in {"read", "write"} /\ mode = "overwrite"
QuietInv ==
    /\ pc = "inspect" => mode = "fill"
    /\ Settled /\ Changed => foreign

\* Memory and file are one, unless the plugin is about to write.
SyncInv == synced /\ held = Nothing /\ pc \notin {"read", "write"} => value = Effective

IInv == TypeOK /\ WatchInv /\ QuietInv /\ SyncInv

\* An edit the plugin has not seen fell into a window, or is younger than the
\* watch's timestamp, or about to be loaded.
NoticedInv ==
    unread => /\ file.there
              /\ \/ struck
                 \/ /\ pc \notin {"watch", "rebase"}
                    /\ watched < file.stamp \/ pc = "reload"

\* What WriteFile is about to write back is what the file holds.
WriteInv ==
    /\ pc \in {"read", "write"} /\ mode = "fill" /\ ~raced => ~file.there \/ file.json
    /\ pc = "write" /\ ~raced => root = Root

\* TypeOK of the file.
FileOK ==
    /\ file.there \in BOOLEAN /\ file.json \in BOOLEAN
    /\ Root \in Trees /\ file.stamp \in 0 .. MaxStamp

-----------------------------------------------------------------------------
\* What is known of a text: its keys and their values.
LEMMA TextsAre ==
    /\ \A t \in Texts : DOMAIN t \subseteq Keys /\ \A k \in DOMAIN t : t[k] \in Values
    /\ \A S \in SUBSET Keys : \A t \in [S -> Values] : t \in Texts
<1>1. ASSUME NEW t \in Texts
      PROVE  DOMAIN t \subseteq Keys /\ \A k \in DOMAIN t : t[k] \in Values
  <2>1. PICK S \in SUBSET Keys : t \in [S -> Values]
    BY DEF Texts
  <2> QED
    BY <2>1
<1> QED
  BY <1>1 DEF Texts

\* ... and of a tree.
LEMMA TreesAre ==
    /\ \A t \in Trees : /\ t.keys \in Texts /\ t.plain \subseteq Blocks
                        /\ DOMAIN t.keys \cap UNION t.plain = {}
    /\ \A k \in Texts, p \in SUBSET Blocks :
         DOMAIN k \cap UNION p = {} => [keys |-> k, plain |-> p] \in Trees
  BY DEF Trees

\* The empty tree is a tree.
LEMMA EmptyIsTree == Empty \in Trees
<1> DEFINE e == [k \in {} |-> Default]
<1>1. e \in [{} -> Values] /\ DOMAIN e = {}
  OBVIOUS
<1>2. e \in Texts
  BY <1>1, TextsAre
<1>3. Empty = [keys |-> e, plain |-> {}]
  BY DEF Empty
<1> HIDE DEF e
<1> QED
  BY <1>1, <1>2, <1>3, TreesAre

\* What WriteFile writes is a tree that holds every declared setting.
LEMMA MergedIsTree ==
    ASSUME TypeOK
    PROVE  /\ Merged \in Trees
           /\ DOMAIN Merged.keys = DOMAIN root.keys \cup Paths
           /\ Merged.plain = root.plain \ Declared
           /\ mode = "overwrite" => \A p \in Paths : Merged.keys[p] = value[p]
           /\ \A k \in DOMAIN root.keys :
                mode = "fill" \/ k \in Strays => Merged.keys[k] = root.keys[k]
<1> DEFINE m == [k \in DOMAIN root.keys \cup Paths |->
                   IF k \in Paths /\ ~Keeps(k) THEN value[k] ELSE root.keys[k]]
           q == root.plain \ Declared
<1>1. /\ root.keys \in Texts /\ root.plain \subseteq Blocks
      /\ DOMAIN root.keys \cap UNION root.plain = {}
  BY TreesAre DEF TypeOK
<1>2. DOMAIN root.keys \cup Paths \in SUBSET Keys /\ \A k \in DOMAIN root.keys : root.keys[k] \in Values
  BY <1>1, TextsAre DEF Keys
<1>3. value \in [Paths -> Values] /\ mode \in {"fill", "overwrite"}
  BY DEF TypeOK
<1>4. m \in [DOMAIN root.keys \cup Paths -> Values]
  BY <1>2, <1>3 DEF Keeps
<1>5. m \in Texts
  BY <1>2, <1>4, TextsAre
<1>6. (DOMAIN root.keys \cup Paths) \cap UNION q = {}
  BY <1>1 DEF Declared
<1>7. /\ DOMAIN m = DOMAIN root.keys \cup Paths /\ q \subseteq Blocks
      /\ mode = "overwrite" => \A p \in Paths : m[p] = value[p]
      /\ \A k \in DOMAIN root.keys : mode = "fill" \/ k \in Strays => m[k] = root.keys[k]
  BY <1>1, <1>3, ConstantsAssumption DEF Keeps
<1>8. Merged = [keys |-> m, plain |-> q]
  BY DEF Merged
<1> HIDE DEF m, q
<1>9. Merged \in Trees
  BY <1>5, <1>6, <1>7, <1>8, TreesAre
<1> QED
  BY <1>7, <1>8, <1>9 DEF q

\* What is loaded is a value of every setting.
LEMMA EffectiveIsValue ==
    ASSUME TypeOK
    PROVE  Effective \in [Paths -> Values] /\ Defaults \in [Paths -> Values]
<1>1. Root.keys = file.keys
  BY DEF Root
<1>2. \A k \in DOMAIN file.keys : file.keys[k] \in Values
  BY <1>1, TextsAre, TreesAre DEF TypeOK
<1> QED
  BY <1>2, ConstantsAssumption DEF Effective, Defaults

\* What a file is made of.
LEMMA FileIs ==
    ASSUME NEW there \in BOOLEAN, NEW json \in BOOLEAN, NEW t \in Trees, NEW n \in 0 .. MaxStamp,
           NEW g, g = File(there, json, t, n)
    PROVE  /\ g.there = there /\ g.json = json /\ g.keys = t.keys /\ g.plain = t.plain
           /\ g.stamp = n
           /\ [keys |-> g.keys, plain |-> g.plain] \in Trees
  BY TreesAre DEF File

\* The invariant holds at the start.
LEMMA InitInv == Init => IInv
<1> SUFFICES ASSUME Init PROVE IInv
  OBVIOUS
<1>1. FileOK
  <2>1. PICK there \in BOOLEAN, json \in BOOLEAN, t \in Trees, n \in 0 .. MaxStamp :
          file = File(there, json, t, n)
    <3>1. 0 \in 0 .. MaxStamp /\ 1 \in 0 .. MaxStamp
      BY ConstantsAssumption
    <3> QED
      BY <3>1, EmptyIsTree DEF Init, NoFile
  <2> QED
    BY <2>1, FileIs DEF FileOK, Root
<1>2. root \in Trees /\ value \in [Paths -> Values]
  BY EmptyIsTree, ConstantsAssumption DEF Init, Defaults
<1>3. TypeOK
  <2>1. 0 \in 0 .. MaxStamp
    BY ConstantsAssumption
  <2> QED
    BY <1>1, <1>2, <2>1 DEF Init, TypeOK, FileOK, Steps
<1>4. WatchInv /\ QuietInv /\ SyncInv
  BY <1>1 DEF Init, FileOK, WatchInv, QuietInv, Settled, SyncInv
<1> QED
  BY <1>3, <1>4 DEF IInv

\* The file after somebody has written it.
LEMMA WrittenFile ==
    ASSUME FileOK, NEW t \in Trees, NEW j \in BOOLEAN, file.stamp < MaxStamp,
           file' = Written(t, j)
    PROVE  /\ FileOK'
           /\ file'.there /\ file'.json = j /\ file'.keys = t.keys /\ file'.plain = t.plain
           /\ file'.stamp = file.stamp + 1
<1>1. file.stamp + 1 \in 0 .. MaxStamp
  BY ConstantsAssumption DEF FileOK
<1>2. file' = File(TRUE, j, t, file.stamp + 1)
  BY DEF Written
<1>3. /\ file'.there = TRUE /\ file'.json = j /\ file'.keys = t.keys /\ file'.plain = t.plain
      /\ file'.stamp = file.stamp + 1
  BY <1>2 DEF File
<1>4. Root' \in Trees
  <2>1. [keys |-> t.keys, plain |-> t.plain] \in Trees
    BY TreesAre
  <2> QED
    BY <1>3, <2>1 DEF Root
<1> QED
  BY <1>1, <1>3, <1>4 DEF FileOK

\* A file somebody else has written or deleted.
LEMMA ForeignStep == IInv /\ (Edit \/ Delete) => IInv'
<1> SUFFICES ASSUME IInv, Edit \/ Delete PROVE IInv'
  OBVIOUS
<1>1. /\ UNCHANGED <<panel, pc, mode, root, memory, watched>>
      /\ foreign' = TRUE /\ unread' \in BOOLEAN /\ synced' = FALSE
  BY DEF Edit, Delete
<1>h. struck' \in BOOLEAN /\ raced' \in BOOLEAN
  <2>1. CASE Edit
    BY <2>1 DEF Edit
  <2>2. CASE Delete
    BY <2>2 DEF Delete
  <2> QED
    BY <2>1, <2>2
<1>2. FileOK' /\ file'.stamp >= file.stamp
  <2>1. CASE Edit
    <3>1. PICK t \in Trees, j \in BOOLEAN : file' = Written(t, j)
      BY <2>1, EmptyIsTree DEF Edit
    <3> QED
      BY <2>1, <3>1, WrittenFile, ConstantsAssumption DEF Edit, IInv, TypeOK, FileOK
  <2>2. CASE Delete
    <3>1. /\ file'.there = FALSE /\ file'.json = FALSE /\ file'.stamp = file.stamp
          /\ file'.keys = Empty.keys /\ file'.plain = Empty.plain
      BY <2>2 DEF Delete, NoFile, File
    <3>2. [keys |-> Empty.keys, plain |-> Empty.plain] \in Trees
      BY EmptyIsTree, TreesAre
    <3>3. Root' \in Trees
      BY <3>1, <3>2 DEF Root
    <3>4. file.stamp \in 0 .. MaxStamp /\ file.stamp >= file.stamp
      BY ConstantsAssumption DEF IInv, TypeOK
    <3> QED
      BY <3>1, <3>3, <3>4 DEF FileOK
  <2> QED
    BY <2>1, <2>2
<1>3. TypeOK'
  BY <1>1, <1>2, <1>h DEF IInv, TypeOK, FileOK, panel, memory
<1>4. WatchInv'
  BY <1>1, <1>2, ConstantsAssumption DEF IInv, WatchInv, TypeOK, FileOK
<1>5. QuietInv' /\ SyncInv'
  BY <1>1 DEF IInv, QuietInv, SyncInv, panel
<1> QED
  BY <1>3, <1>4, <1>5 DEF IInv

\* A file WriteFile has written, or could not.
LEMMA WriteStep == IInv /\ (WriteRoot \/ WriteFails) => IInv'
<1> SUFFICES ASSUME IInv, WriteRoot \/ WriteFails PROVE IInv'
  OBVIOUS
<1>1. CASE WriteRoot
  <2>1. /\ FileOK' /\ file'.stamp = file.stamp + 1 /\ file'.keys = Merged.keys
    BY <1>1, WrittenFile, MergedIsTree DEF WriteRoot, IInv, TypeOK, FileOK
  <2>2. TypeOK'
    BY <1>1, <2>1, EmptyIsTree DEF WriteRoot, Done, IInv, TypeOK, FileOK, Steps, panel, memory
  <2>3. WatchInv'
    <3>1. watched' = watched /\ watched <= file.stamp /\ watched \in Nat
      BY <1>1, ConstantsAssumption DEF WriteRoot, IInv, WatchInv, TypeOK
    <3>2. file.stamp \in Nat
      BY ConstantsAssumption DEF IInv, TypeOK
    <3> QED
      BY <2>1, <3>1, <3>2 DEF WatchInv
  <2>4. QuietInv'
    BY <1>1 DEF WriteRoot, IInv, QuietInv, Settled
  <2>5. synced' => value' = Effective'
    <3> SUFFICES ASSUME mode = "overwrite" PROVE value' = Effective'
      BY <1>1 DEF WriteRoot
    <3>1. \A p \in Paths : p \in DOMAIN file'.keys /\ file'.keys[p] = value[p]
      BY <2>1, MergedIsTree DEF IInv
    <3>2. Effective' = [p \in Paths |-> value[p]]
      BY <3>1 DEF Effective
    <3> QED
      BY <1>1, <3>2 DEF WriteRoot, memory, IInv, TypeOK
  <2> QED
    BY <2>2, <2>3, <2>4, <2>5 DEF IInv, SyncInv
<1>2. CASE WriteFails
  <2>1. TypeOK'
    BY <1>2, EmptyIsTree DEF WriteFails, Done, IInv, TypeOK, Root, Steps, panel, memory
  <2> QED
    BY <1>2, <2>1
       DEF WriteFails, IInv, TypeOK, WatchInv, QuietInv, Settled, Changed, Timestamp, SyncInv
<1> QED
  BY <1>1, <1>2

\* A file that was loaded.
LEMMA LoadStep == IInv /\ (InitLoad \/ Reload) => IInv'
<1> SUFFICES ASSUME IInv, InitLoad \/ Reload PROVE IInv'
  OBVIOUS
<1>1. /\ Load
      /\ UNCHANGED <<panel, file, mode, root, watched, foreign, raced>>
      /\ dirty' \in BOOLEAN /\ struck' = FALSE /\ unread' = FALSE
      /\ \/ pc = "load" /\ pc' = "watch"
         \/ pc = "reload" /\ pc' = "idle"
  BY DEF InitLoad, Reload, IInv, TypeOK
<1>2. /\ value' \in [Paths -> Values] /\ synced' \in BOOLEAN
      /\ synced' => value' = Effective
  BY <1>1, EffectiveIsValue DEF Load, IInv, TypeOK
<1>3. TypeOK'
  BY <1>1, <1>2 DEF IInv, TypeOK, Root, Steps, panel, editor
<1>4. WatchInv' /\ QuietInv'
  BY <1>1 DEF IInv, WatchInv, QuietInv, Settled, Changed, Timestamp
<1>5. SyncInv'
  BY <1>1, <1>2 DEF SyncInv, Effective
<1> QED
  BY <1>3, <1>4, <1>5 DEF IInv

\* A look at the file's timestamp.
LEMMA LookStep == IInv /\ (InitWatch \/ Rebase \/ Poll) => IInv'
<1> SUFFICES ASSUME IInv, InitWatch \/ Rebase \/ Poll PROVE IInv'
  OBVIOUS
<1>1. /\ UNCHANGED <<panel, file, mode, root, value, unread, editor, synced>>
      /\ watched' \in {Timestamp, watched} /\ foreign' = (watched' # Timestamp)
      /\ dirty' \in BOOLEAN
      /\ pc \in {"watch", "rebase", "idle"} /\ pc' \in {"idle", "reload"}
  BY DEF InitWatch, Rebase, Poll, IInv, TypeOK, memory
<1>2. Timestamp \in 0 .. MaxStamp /\ Timestamp <= file.stamp
  BY ConstantsAssumption DEF Timestamp, IInv, TypeOK, WatchInv
<1>3. TypeOK'
  BY <1>1, <1>2 DEF IInv, TypeOK, Root, Steps, panel, editor
<1>4. WatchInv'
  BY <1>1, <1>2 DEF IInv, WatchInv
<1>5. QuietInv'
  BY <1>1 DEF IInv, QuietInv, Changed, Timestamp
<1>6. SyncInv'
  BY <1>1 DEF IInv, SyncInv, Effective, panel
<1> QED
  BY <1>3, <1>4, <1>5, <1>6 DEF IInv

\* The steps of Init and of WriteFile that only look at what is there.
LEMMA ReadStep == IInv /\ (Inspect \/ ReadRoot \/ PollQuiet) => IInv'
<1> SUFFICES ASSUME IInv, Inspect \/ ReadRoot \/ PollQuiet PROVE IInv'
  OBVIOUS
<1>1. /\ UNCHANGED <<panel, file, mode, value, watched, foreign, unread, editor, synced>>
      /\ dirty' \in BOOLEAN /\ root' \in {root, Root}
      /\ \/ pc = "inspect" /\ pc' \in {"load", "read"}
         \/ pc = "read" /\ pc' = "write"
         \/ pc = "idle" /\ pc' = "idle"
  BY DEF Inspect, ReadRoot, PollQuiet, IInv, TypeOK, memory
<1>2. TypeOK'
  BY <1>1 DEF IInv, TypeOK, Root, Steps, panel, editor
<1>3. WatchInv'
  BY <1>1 DEF IInv, WatchInv
<1>4. QuietInv'
  BY <1>1 DEF IInv, QuietInv, Settled, Changed, Timestamp
<1>5. SyncInv'
  BY <1>1 DEF IInv, SyncInv, Effective, panel
<1> QED
  BY <1>2, <1>3, <1>4, <1>5 DEF IInv

\* What the player does in the overlay.
LEMMA PanelStep ==
    IInv /\ (Click \/ RestoreDefaults \/ CommitOnRelease \/ Toggle) => IInv'
<1> SUFFICES ASSUME IInv, Click \/ RestoreDefaults \/ CommitOnRelease \/ Toggle
             PROVE  IInv'
  OBVIOUS
<1>1. /\ pc = "idle" /\ UNCHANGED <<file, root, watched, foreign, unread, editor>>
      /\ open' \in BOOLEAN /\ dirty' \in BOOLEAN
      /\ held' = Nothing
      /\ \/ Save /\ synced' = synced
         \/ /\ UNCHANGED <<pc, mode, value>>
            /\ synced' = (synced /\ held = Nothing)
  BY DEF Click, RestoreDefaults, CommitOnRelease, Toggle, Set, IInv, TypeOK, panel, memory
<1>2. value' \in [Paths -> Values]
  BY EffectiveIsValue
     DEF Click, RestoreDefaults, CommitOnRelease, Toggle, Set, IInv, TypeOK, memory
<1>3. TypeOK'
  BY <1>1, <1>2 DEF IInv, TypeOK, Root, Steps, Save, editor
<1>4. WatchInv'
  BY <1>1 DEF IInv, WatchInv
<1>5. QuietInv'
  BY <1>1 DEF IInv, QuietInv, Settled, Changed, Timestamp, Save
<1>6. SyncInv'
  BY <1>1 DEF IInv, SyncInv, Effective, Save
<1> QED
  BY <1>3, <1>4, <1>5, <1>6 DEF IInv

\* A slider in the player's hand.
LEMMA SliderStep == ASSUME IInv, NEW p \in Paths, DrawSlider(p) PROVE IInv'
<1>1. /\ pc = "idle" /\ open /\ held' = p /\ value' \in [Paths -> Values] /\ dirty'
      /\ UNCHANGED <<file, pc, mode, root, open, watched, foreign, unread, editor, synced>>
  BY DEF DrawSlider, Set, IInv, TypeOK
<1>2. held' # Nothing
  BY <1>1, ConstantsAssumption
<1>3. TypeOK'
  BY <1>1, <1>2 DEF IInv, TypeOK, Root, DrawSlider, Set, editor
<1>4. WatchInv' /\ QuietInv'
  BY <1>1 DEF IInv, WatchInv, QuietInv, Settled, Changed, Timestamp
<1>5. SyncInv'
  BY <1>2 DEF SyncInv
<1> QED
  BY <1>3, <1>4, <1>5 DEF IInv

\* Every step keeps the invariant.
LEMMA StepInv == IInv /\ [Next]_vars => IInv'
<1>1. IInv /\ UNCHANGED vars => IInv'
  BY DEF vars, panel, memory, editor, Root, IInv, TypeOK, WatchInv, QuietInv, Settled, Changed,
         Timestamp, SyncInv, Effective
<1> QED
  BY <1>1, ForeignStep, WriteStep, LoadStep, LookStep, ReadStep, PanelStep, SliderStep
     DEF Next, Plugin

\* The inductive invariant, whenever the editor strikes.
THEOREM Inductive == Spec => []IInv
<1> QED
  BY InitInv, StepInv, PTL DEF Spec

-----------------------------------------------------------------------------
\* SettingsPanel.cpp:30: as long as nobody else writes the file and no write
\* fails, memory and file agree whenever no slider is held.
THEOREM MemoryIsFile == Spec => []InSync
<1>1. IInv => InSync
  BY DEF IInv, SyncInv, InSync
<1> QED
  BY <1>1, Inductive, PTL

\* Settings.h:149: our own write does not come back as somebody else's change.
LEMMA Quiet == Spec => OwnWriteIsQuiet
<1>1. IInv /\ [Next]_vars => [pc = "idle" /\ pc' = "reload" => foreign]_vars
  <2> SUFFICES ASSUME IInv, Next, pc = "idle", pc' = "reload" PROVE foreign
    OBVIOUS
  <2>1. Poll
    BY DEF Next, Plugin, Edit, Delete, Inspect, InitLoad, InitWatch, ReadRoot, WriteRoot,
           WriteFails, Rebase, Click, RestoreDefaults, DrawSlider, CommitOnRelease, Toggle,
           Save, Reload, PollQuiet
  <2> QED
    BY <2>1 DEF Poll, IInv, QuietInv, Settled
<1> QED
  BY <1>1, Inductive, PTL DEF Spec, OwnWriteIsQuiet

-----------------------------------------------------------------------------
\* An edit that hits no look at the timestamp stays visible to the next one.
LEMMA NoticedStep == IInv /\ NoticedInv /\ [Next]_vars => NoticedInv'
<1> SUFFICES ASSUME IInv, NoticedInv, [Next]_vars, unread' PROVE NoticedInv'
  BY DEF NoticedInv
<1> USE DEF NoticedInv
<1>0. watched \in Nat /\ file.stamp \in Nat /\ watched <= file.stamp
  BY ConstantsAssumption DEF IInv, TypeOK, WatchInv
<1>1. CASE Edit
  <2>1. PICK t \in Trees, j \in BOOLEAN : file' = Written(t, j)
    BY <1>1, EmptyIsTree DEF Edit
  <2>2. file'.there /\ file'.stamp = file.stamp + 1
    BY <2>1 DEF Written, File
  <2>3. pc' = pc /\ watched' = watched /\ (struck' <=> pc \in {"watch", "rebase"})
    BY <1>1 DEF Edit
  <2> QED
    BY <1>0, <2>2, <2>3
<1>2. CASE /\ unread /\ UNCHANGED <<file, watched, struck>>
           /\ pc' \notin {"watch", "rebase", "reload"} /\ pc # "reload"
  BY <1>2
<1>3. CASE Poll
  BY <1>3 DEF Poll, editor
<1>4. CASE UNCHANGED vars
  BY <1>4 DEF vars, editor
<1>5. CASE InitWatch \/ Rebase
  BY <1>5 DEF InitWatch, Rebase, editor
<1>6. CASE Delete \/ InitLoad \/ Reload \/ WriteRoot
  BY <1>6 DEF Delete, InitLoad, Reload, WriteRoot
<1>7. CASE Inspect \/ ReadRoot \/ WriteFails \/ PollQuiet
  BY <1>2, <1>7 DEF Inspect, ReadRoot, WriteFails, PollQuiet, editor
<1>8. CASE Click \/ RestoreDefaults \/ CommitOnRelease \/ Toggle
           \/ \E p \in Paths : DrawSlider(p)
  BY <1>2, <1>8 DEF Click, RestoreDefaults, CommitOnRelease, Toggle, DrawSlider, Save, editor
<1> QED
  BY <1>1, <1>3, <1>4, <1>5, <1>6, <1>7, <1>8 DEF Next, Plugin

\* Settings.h:153: an edit that is neither loaded nor overwritten is one the
\* next poll will see, unless it fell into one of the two windows before the
\* plugin notes a timestamp: after Init's load, or after Save's own write.
THEOREM Noticed == Spec => []EditsNoticed
<1>1. Init => NoticedInv
  BY DEF Init, NoticedInv
<1>2. IInv /\ NoticedInv /\ [Next]_vars => NoticedInv'
  BY NoticedStep
<1>3. IInv /\ NoticedInv => EditsNoticed
  BY ConstantsAssumption
     DEF IInv, TypeOK, NoticedInv, EditsNoticed, Changed, Timestamp
<1> QED
  BY <1>1, <1>2, <1>3, Inductive, PTL DEF Spec

-----------------------------------------------------------------------------
\* WriteFile writes onto what it read.
LEMMA WriteFileStep == IInv /\ WriteInv /\ [Next]_vars => WriteInv'
<1> SUFFICES ASSUME IInv, WriteInv, [Next]_vars, ~raced',
                    pc' \in {"read", "write"}
             PROVE  WriteInv'
  BY DEF WriteInv
<1> USE DEF WriteInv
<1>1. CASE Inspect
  BY <1>1 DEF Inspect, editor
<1>2. CASE ReadRoot
  BY <1>2 DEF ReadRoot, editor, Root
<1>3. CASE UNCHANGED vars
  BY <1>3 DEF vars, editor, Root
<1>4. CASE Edit \/ Delete
  BY <1>4 DEF Edit, Delete, UnderItsHands
<1>5. CASE InitLoad \/ InitWatch \/ WriteRoot \/ WriteFails \/ Rebase \/ Poll \/ Reload
  BY <1>5 DEF InitLoad, InitWatch, WriteRoot, WriteFails, Rebase, Poll, Reload
<1>6. CASE Click \/ RestoreDefaults \/ CommitOnRelease \/ Toggle \/ PollQuiet
           \/ \E p \in Paths : DrawSlider(p)
  BY <1>6 DEF Click, RestoreDefaults, CommitOnRelease, Toggle, PollQuiet, DrawSlider, Save
<1> QED
  BY <1>1, <1>2, <1>3, <1>4, <1>5, <1>6 DEF Next, Plugin

\* Settings.h:149, Store.cpp:131 and Store.cpp:182: what the plugin writes by
\* itself is not taken for somebody else's, starting it costs no key the file
\* held, and saving no key nobody declared, unless somebody writes the file
\* between its being read and its being written back.
THEOREM WritesAreHarmless == Spec => OwnWritesAreHarmless
<1>1. Init => WriteInv
  BY DEF Init, WriteInv
<1>2. IInv /\ WriteInv /\ [Next]_vars => WriteInv'
  BY WriteFileStep
<1>3. IInv /\ WriteInv /\ [Next]_vars =>
        [pc = "write" /\ pc' # "write" /\ file' # file /\ ~raced =>
            /\ mode = "fill" => ~file.there \/ file.json
            /\ \A k \in DOMAIN file.keys : mode = "fill" \/ k \in Strays =>
                  k \in DOMAIN file'.keys /\ file'.keys[k] = file.keys[k]
            /\ file'.plain = file.plain \ Declared]_vars
  <2> SUFFICES ASSUME IInv, WriteInv, Next, pc = "write", pc' # "write", file' # file, ~raced
               PROVE  /\ mode = "fill" => ~file.there \/ file.json
                      /\ \A k \in DOMAIN file.keys : mode = "fill" \/ k \in Strays =>
                            k \in DOMAIN file'.keys /\ file'.keys[k] = file.keys[k]
                      /\ file'.plain = file.plain \ Declared
    OBVIOUS
  <2>1. WriteRoot
    BY DEF Next, Plugin, Edit, Delete, Inspect, InitLoad, InitWatch, ReadRoot,
           WriteFails, Rebase, Click, RestoreDefaults, DrawSlider, CommitOnRelease, Toggle,
           Poll, Reload, PollQuiet
  <2>2. file'.keys = Merged.keys /\ file'.plain = Merged.plain
    BY <2>1 DEF WriteRoot, Written, File
  <2>3. root.keys = file.keys /\ root.plain = file.plain
    BY DEF WriteInv, Root
  <2> QED
    BY <2>2, <2>3, MergedIsTree DEF IInv, WriteInv
<1>4. Spec => WritesKeepTheRest
  BY <1>1, <1>2, <1>3, Inductive, PTL DEF Spec, WritesKeepTheRest
<1> QED
  BY <1>4, Quiet DEF OwnWritesAreHarmless
=============================================================================
