----------------------------- MODULE PhaseProofs -----------------------------
(***************************************************************************)
(* Theorems about the two halves of the frame's phases.  PhaseDispatcher:  *)
(* for every size of the array, every number of subscriptions and whatever *)
(* callbacks may call.  TechniqueHooks: for every number of switches and   *)
(* presses, where protection calls succeed and no call comes before the    *)
(* hooks are in place.                                                     *)
(***************************************************************************)
EXTENDS PhaseDispatcher, TechniqueHooks, FiniteSetTheorems, SequenceTheorems, TLAPS

-----------------------------------------------------------------------------
\* The number of active entries is a number.
LEMMA CountIsNat == Count \in Nat
<1>1. IsFiniteSet(Slots)
  BY FS_Interval, ConstantsAssumption DEF Slots
<1>2. IsFiniteSet(ActiveSlots)
  BY <1>1, FS_Subset DEF ActiveSlots
<1> QED
  BY <1>2, FS_CardinalityType DEF Count

\* Sweeping an entry leaves a proper entry.
LEMMA SweptType == \A e \in Entry : Swept(e) \in Entry
<1> SUFFICES ASSUME NEW e \in Entry PROVE Swept(e) \in Entry
  OBVIOUS
<1>1. kNoToken \in 0 .. MaxToken
  BY ConstantsAssumption DEF kNoToken
<1> QED
  BY <1>1 DEF Swept, Entry

\* Retiring an entry leaves a proper entry.
LEMMA RetireType == \A e \in Entry : Retire(e) \in Entry
<1> SUFFICES ASSUME NEW e \in Entry PROVE Retire(e) \in Entry
  OBVIOUS
<1>1. kNoToken \in 0 .. MaxToken
  BY ConstantsAssumption DEF kNoToken
<1> QED
  BY <1>1 DEF Retire, Entry

-----------------------------------------------------------------------------
\* A callback on the stack was called from a proper entry.
LoopInv == executing # kNoToken => running /\ cursor \in Slots

\* What re-use and deferred clean-up preserve of an entry.
EntryOK(s) ==
    /\ entries[s].retiring => running /\ ~entries[s].active
    /\ entries[s].active => /\ entries[s].callback = entries[s].token
                            /\ entries[s].token \in 1 .. next - 1
                            /\ entries[s].token \notin unsubscribed
    /\ ~entries[s].active /\ ~entries[s].retiring => entries[s] = Free

EntryInv ==
    /\ \A s \in Slots : EntryOK(s)
    /\ TokensUnique
    /\ unsubscribed \subseteq 1 .. next - 1

\* The entries a dispatch under way may still call.
Ahead(s) == s \in ActiveSlots /\ s >= cursor /\ (executing # kNoToken => s # cursor)

\* What has been called in this frame: nothing before its dispatch, and
\* during it nobody who is still ahead of the cursor.
CallsInv ==
    /\ ~AlreadyDispatched => ~running /\ calls = <<>>
    /\ lastFrame <= frame
    /\ \A i \in 1 .. Len(calls) : calls[i] \in 1 .. next - 1
    /\ running => \A i \in 1 .. Len(calls), s \in Slots :
                     Ahead(s) => calls[i] # entries[s].token

TypeInv == TypeOK /\ LoopInv
IInv    == TypeInv /\ EntryInv /\ CallsInv /\ AtMostOncePerFrame

-----------------------------------------------------------------------------
\* Nothing is subscribed, retired or called at the start.
LEMMA InitIInv == Init => IInv
<1> SUFFICES ASSUME Init PROVE IInv
  OBVIOUS
<1> USE ConstantsAssumption DEF Init, kNoToken
<1>1. kNoToken \in 0 .. MaxToken /\ Free \in Entry
  BY DEF Entry, Free
<1>2. TypeInv
  <2>1. entries \in [Slots -> Entry]
    BY <1>1
  <2>2. next \in 1 .. MaxToken + 1 /\ cursor \in 1 .. kMaxSubscribers + 1
    OBVIOUS
  <2>3. calls \in Seq(0 .. MaxToken)
    OBVIOUS
  <2> QED
    <3>1. LoopInv
      BY DEF LoopInv
    <3>2. planned \in Nat /\ ran \in Nat /\ executing \in 0 .. MaxToken
      OBVIOUS
    <3>3. frame \in 0 .. MaxFrame /\ lastFrame \in 0 .. MaxFrame
      OBVIOUS
    <3>4. subscribed \subseteq 0 .. MaxToken /\ unsubscribed \subseteq 0 .. MaxToken
      OBVIOUS
    <3>5. running \in BOOLEAN /\ dispatched \in BOOLEAN
      OBVIOUS
    <3> QED
      BY <3>1, <3>2, <3>3, <3>4, <3>5, <2>1, <2>2, <2>3 DEF TypeInv, TypeOK
<1>3. ActiveSlots = {}
  BY DEF ActiveSlots, Free
<1>4. EntryInv
  BY <1>3 DEF EntryInv, EntryOK, TokensUnique, Free
<1>5. CallsInv /\ AtMostOncePerFrame
  BY DEF CallsInv, AtMostOncePerFrame, AlreadyDispatched
<1> QED
  BY <1>2, <1>4, <1>5 DEF IInv

\* Every action of the dispatcher and of the engine keeps the types.
LEMMA TypeStep == TypeInv /\ [Next]_vars => TypeInv'
<1> SUFFICES ASSUME TypeInv, [Next]_vars PROVE TypeInv'
  OBVIOUS
<1> USE ConstantsAssumption DEF kNoToken, TypeInv, TypeOK, LoopInv, subVars, loopVars, seenVars
<1>1. ASSUME NEW s \in Slots, Subscribe(s) PROVE TypeInv'
  BY <1>1 DEF Subscribe, Entry, Tokens
<1>2. ASSUME NEW s \in Slots, Unsubscribe(s) PROVE TypeInv'
  <2>1. entries' \in [Slots -> Entry]
    BY <1>2, RetireType DEF Unsubscribe
  <2>2. entries[s].token \in 0 .. MaxToken
    BY DEF Entry
  <2> QED
    BY <1>2, <2>1, <2>2 DEF Unsubscribe
<1>3. CASE BeginDispatch
  <2>1. ActiveTokens \subseteq 0 .. MaxToken
    BY DEF ActiveTokens, ActiveSlots, Entry
  <2> QED
    BY <1>3, <2>1, CountIsNat DEF BeginDispatch
<1>4. ASSUME NEW s \in Slots, CallNext(s) PROVE TypeInv'
  <2>1. entries[s].callback \in 0 .. MaxToken
    BY DEF Entry
  <2>2. s \in 1 .. kMaxSubscribers + 1
    BY DEF Slots
  <2> QED
    BY <1>4, <2>1, <2>2 DEF CallNext
<1>5. CASE Return
  BY <1>5 DEF Return, Slots
<1>6. CASE EndDispatch
  BY <1>6, SweptType DEF EndDispatch
<1>7. CASE Present
  BY <1>7 DEF Present
<1>8. CASE UNCHANGED vars
  BY <1>8 DEF vars
<1> QED
  BY <1>1, <1>2, <1>3, <1>4, <1>5, <1>6, <1>7, <1>8 DEF Next, Dispatch

-----------------------------------------------------------------------------
\* Every action keeps entries consistent: what is active holds its own
\* callback under a token of its own, what is not is free or retiring.
LEMMA EntryStep == TypeInv /\ EntryInv /\ [Next]_vars => EntryInv'
<1> SUFFICES ASSUME TypeInv, EntryInv, [Next]_vars PROVE EntryInv'
  OBVIOUS
<1> USE ConstantsAssumption DEF kNoToken, TypeInv, TypeOK, LoopInv, subVars, loopVars, seenVars,
        EntryInv, EntryOK, TokensUnique, ActiveSlots
<1>1. ASSUME NEW s \in Slots, Subscribe(s) PROVE EntryInv'
  BY <1>1 DEF Subscribe, Entry, Tokens
<1>2. ASSUME NEW s \in Slots, Unsubscribe(s) PROVE EntryInv'
  <2>1. entries' = [entries EXCEPT ![s] = Retire(entries[s])] /\ UNCHANGED <<running, next>>
    BY <1>2 DEF Unsubscribe
  <2>2. entries[s] \in Entry /\ entries'[s] = Retire(entries[s])
    BY <2>1
  <2>3. /\ ~Retire(entries[s]).active
        /\ IF running THEN Retire(entries[s]).retiring
                      ELSE Retire(entries[s]) = Free
    BY <2>2, <1>2 DEF Retire, Entry, Free, Unsubscribe
  <2>4. EntryOK(s)'
    BY <2>1, <2>2, <2>3 DEF Free
  <2> QED
    <3>1. ASSUME NEW r \in Slots \ {s} PROVE entries'[r] = entries[r] /\ EntryOK(r)'
      BY <1>2, <2>1 DEF Unsubscribe
    <3>2. unsubscribed' \subseteq 1 .. next' - 1
      BY <1>2, <2>1 DEF Unsubscribe
    <3>3. TokensUnique'
      BY <2>1, <2>2, <2>3, <3>1
    <3> QED
      BY <2>4, <3>1, <3>2, <3>3
<1>3. CASE BeginDispatch
  BY <1>3 DEF BeginDispatch
<1>4. ASSUME NEW s \in Slots, CallNext(s) PROVE EntryInv'
  BY <1>4 DEF CallNext
<1>5. CASE Return
  BY <1>5 DEF Return
<1>6. CASE EndDispatch
  <2>1. ASSUME NEW s \in Slots PROVE EntryOK(s)' /\ entries'[s].active = entries[s].active
                                     /\ (entries[s].active => entries'[s] = entries[s])
    BY <1>6 DEF EndDispatch, Swept, Entry, Free
  <2>2. UNCHANGED <<unsubscribed, next>>
    BY <1>6 DEF EndDispatch
  <2>3. TokensUnique'
    BY <2>1
  <2> QED
    BY <2>1, <2>2, <2>3
<1>7. CASE Present
  BY <1>7 DEF Present
<1>8. CASE UNCHANGED vars
  BY <1>8 DEF vars
<1> QED
  BY <1>1, <1>2, <1>3, <1>4, <1>5, <1>6, <1>7, <1>8 DEF Next, Dispatch

-----------------------------------------------------------------------------
\* Every action keeps the list of calls in step with the frame: nothing has
\* been called before the dispatch, and nothing comes twice.
LEMMA CallsStep ==
    TypeInv /\ EntryInv /\ CallsInv /\ AtMostOncePerFrame /\ [Next]_vars
        => CallsInv' /\ AtMostOncePerFrame'
<1> SUFFICES ASSUME TypeInv, EntryInv, CallsInv, AtMostOncePerFrame, [Next]_vars
             PROVE  CallsInv' /\ AtMostOncePerFrame'
  OBVIOUS
<1> USE ConstantsAssumption DEF kNoToken, TypeInv, TypeOK, LoopInv, subVars, loopVars, seenVars,
        CallsInv, AtMostOncePerFrame, AlreadyDispatched, Ahead, ActiveSlots, Slots
<1>1. ASSUME NEW s \in Slots, Subscribe(s) PROVE CallsInv' /\ AtMostOncePerFrame'
  <2>1. entries'[s].token = next /\ \A r \in Slots \ {s} : entries'[r] = entries[r]
    BY <1>1 DEF Subscribe
  <2> QED
    BY <1>1, <2>1 DEF Subscribe
<1>2. ASSUME NEW s \in Slots, Unsubscribe(s) PROVE CallsInv' /\ AtMostOncePerFrame'
  <2>1. \A r \in Slots \ {s} : entries'[r] = entries[r]
    BY <1>2 DEF Unsubscribe
  <2>2. entries'[s] = Retire(entries[s]) /\ entries[s] \in Entry
    BY <1>2 DEF Unsubscribe
  <2>3. ~entries'[s].active
    BY <2>2 DEF Retire, Entry
  <2> QED
    BY <1>2, <2>1, <2>3 DEF Unsubscribe
<1>3. CASE BeginDispatch
  BY <1>3 DEF BeginDispatch
<1>4. ASSUME NEW s \in Slots, CallNext(s) PROVE CallsInv' /\ AtMostOncePerFrame'
  <2> DEFINE t == entries[s].token
  <2>1. /\ s \in ActiveSlots /\ Ahead(s)
        /\ entries[s].callback = t /\ t \in 1 .. next - 1
    BY <1>4 DEF CallNext, Runnable, EntryInv, EntryOK
  <2>2. /\ Len(calls') = Len(calls) + 1
        /\ calls'[Len(calls) + 1] = t
        /\ \A i \in 1 .. Len(calls) : calls'[i] = calls[i]
    BY <1>4, <2>1 DEF CallNext
  <2>3. \A i \in 1 .. Len(calls) : calls[i] # t
    BY <1>4, <2>1 DEF CallNext
  <2>4. ASSUME NEW r \in Slots, Ahead(r)' PROVE Ahead(r) /\ entries[r].token # t
    BY <1>4, <2>1, <2>4 DEF CallNext, EntryInv, TokensUnique
  <2>5. AtMostOncePerFrame'
    <3> SUFFICES ASSUME NEW i \in 1 .. Len(calls'), NEW j \in 1 .. Len(calls'),
                        calls'[i] = calls'[j]
                 PROVE  i = j
      OBVIOUS
    <3>1. Len(calls) \in Nat
      OBVIOUS
    <3>2. \A k \in 1 .. Len(calls') : k \in 1 .. Len(calls) \/ k = Len(calls) + 1
      BY <3>1, <2>2
    <3> QED
      BY <3>1, <3>2, <2>2, <2>3
  <2>6. \A i \in 1 .. Len(calls'), r \in Slots : Ahead(r)' => calls'[i] # entries'[r].token
    BY <1>4, <2>2, <2>4 DEF CallNext
  <2>7. \A i \in 1 .. Len(calls') : calls'[i] \in 1 .. next' - 1
    BY <1>4, <2>1, <2>2 DEF CallNext
  <2> QED
    BY <1>4, <2>5, <2>6, <2>7 DEF CallNext
<1>5. CASE Return
  BY <1>5 DEF Return
<1>6. CASE EndDispatch
  BY <1>6 DEF EndDispatch
<1>7. CASE Present
  BY <1>7 DEF Present
<1>8. CASE UNCHANGED vars
  BY <1>8 DEF vars
<1> QED
  BY <1>1, <1>2, <1>3, <1>4, <1>5, <1>6, <1>7, <1>8 DEF Next, Dispatch

-----------------------------------------------------------------------------
\* The inductive invariant holds in every reachable state.
THEOREM Inductive == Spec => []IInv
<1>1. IInv /\ [Next]_vars => IInv'
  BY TypeStep, EntryStep, CallsStep DEF IInv
<1> QED
  BY InitIInv, <1>1, PTL DEF Spec

\* Every variable keeps its type.
THEOREM TypeCorrect == Spec => []TypeOK
<1>1. IInv => TypeOK
  BY DEF IInv, TypeInv
<1> QED
  BY <1>1, Inductive, PTL

\* Re-using an entry in the middle of a dispatch never empties its new owner.
THEOREM KeepsCallback == Spec => []LiveSubscriberKeepsCallback
<1>1. IInv => LiveSubscriberKeepsCallback
  BY DEF IInv, EntryInv, EntryOK, LiveSubscriberKeepsCallback, ActiveSlots, kNoToken, TypeInv, TypeOK
<1> QED
  BY <1>1, Inductive, PTL

\* Nothing retired during a dispatch outlives it.
THEOREM NoLingering == Spec => []NothingRetiredLingers
<1>1. IInv => NothingRetiredLingers
  BY DEF IInv, EntryInv, EntryOK, NothingRetiredLingers, ActiveSlots
<1> QED
  BY <1>1, Inductive, PTL

\* A callback runs at most once per presented frame.
THEOREM OncePerFrame == Spec => []AtMostOncePerFrame
<1>1. IInv => AtMostOncePerFrame
  BY DEF IInv
<1> QED
  BY <1>1, Inductive, PTL

\* The three together: what a subscriber may rely on whatever the others do.
THEOREM SubscribersServed == Spec => []SubscribersAreServed
  BY KeepsCallback, NoLingering, OncePerFrame, PTL DEF SubscribersAreServed

\* A callback taken back is never started again.
THEOREM NeverRunsAgain == Spec => UnsubscribedNeverRuns
<1>1. IInv /\ [Next]_vars => [\A t \in unsubscribed : executing' = t => executing = t]_vars
  <2> SUFFICES ASSUME IInv, [Next]_vars, NEW t \in unsubscribed, executing' = t
               PROVE  executing = t \/ UNCHANGED vars
    OBVIOUS
  <2> USE DEF subVars, loopVars, seenVars
  <2>1. t # kNoToken
    BY DEF IInv, EntryInv, TypeInv, TypeOK, kNoToken
  <2>2. ASSUME NEW s \in Slots, CallNext(s) PROVE FALSE
    BY <2>1, <2>2 DEF CallNext, Runnable, IInv, EntryInv, EntryOK
  <2>3. ASSUME NEW s \in Slots, Subscribe(s) \/ Unsubscribe(s) PROVE executing = t
    BY <2>3 DEF Subscribe, Unsubscribe
  <2>4. CASE Return
    BY <2>1, <2>4 DEF Return
  <2>5. CASE BeginDispatch \/ EndDispatch \/ Present
    BY <2>5 DEF BeginDispatch, EndDispatch, Present
  <2> QED
    BY <2>2, <2>3, <2>4, <2>5 DEF Next, Dispatch
<1> QED
  BY <1>1, Inductive, PTL DEF Spec, UnsubscribedNeverRuns

\* A dispatch under way has called as many as it counted, means to call as many as
\* were there when it began, and has each of those still ahead of it unless it
\* was called or has been taken back.
SurvivorInv ==
    running =>
        /\ IsFiniteSet(Called) /\ Cardinality(Called) = ran + (IF executing = kNoToken THEN 0 ELSE 1)
        /\ IsFiniteSet(subscribed) /\ Cardinality(subscribed) = planned
        /\ \A t \in Missed : \E s \in Slots : Ahead(s) /\ entries[s].token = t

\* There are as many active tokens as active entries.
LEMMA TokensCounted ==
    ASSUME TypeInv, EntryInv
    PROVE  IsFiniteSet(ActiveTokens) /\ Cardinality(ActiveTokens) = Count
<1>1. IsFiniteSet(Slots)
  BY FS_Interval, ConstantsAssumption DEF Slots
<1>2. IsFiniteSet(ActiveSlots)
  BY <1>1, FS_Subset DEF ActiveSlots
<1> DEFINE f == [s \in ActiveSlots |-> entries[s].token]
<1>3. f \in [ActiveSlots -> ActiveTokens]
  BY DEF ActiveTokens
<1>4. \A r, s \in ActiveSlots : f[r] = f[s] => r = s
  BY DEF EntryInv, TokensUnique
<1>5. \A t \in ActiveTokens : \E s \in ActiveSlots : f[s] = t
  BY DEF ActiveTokens
<1> HIDE DEF f
<1>6. f \in Bijection(ActiveSlots, ActiveTokens)
  BY <1>3, <1>4, <1>5 DEF Bijection, Injection, Surjection, IsInjective
<1>7. ExistsBijection(ActiveSlots, ActiveTokens)
  BY <1>6 DEF ExistsBijection
<1> QED
  BY <1>2, <1>7, FS_Bijection DEF Count

LEMMA SurvivorStep ==
    ASSUME IInv, SurvivorInv, [Next]_vars
    PROVE  SurvivorInv'
<1>1. TypeInv /\ EntryInv /\ CallsInv
  BY DEF IInv
<1>2. \A s \in Slots : s \in Nat
  BY ConstantsAssumption DEF Slots
<1>3. ASSUME NEW s \in Slots, Subscribe(s) PROVE SurvivorInv'
  <2>1. UNCHANGED <<running, planned, ran, cursor, executing, subscribed, calls, unsubscribed>>
    BY <1>3 DEF Subscribe, loopVars
  <2>2. \A r \in Slots : Ahead(r) => entries'[r] = entries[r] /\ Ahead(r)'
    BY <1>1, <1>3, <2>1 DEF Subscribe, IsFirstFree, Ahead, ActiveSlots, TypeInv, TypeOK
  <2> QED
    BY <2>1, <2>2 DEF SurvivorInv, Called, Missed
<1>4. ASSUME NEW s \in Slots, Unsubscribe(s) PROVE SurvivorInv'
  <2>1. /\ UNCHANGED <<running, planned, ran, cursor, executing, subscribed, calls>>
        /\ unsubscribed' = unsubscribed \cup {entries[s].token}
    BY <1>4 DEF Unsubscribe, loopVars
  <2>2. \A r \in Slots : r # s => entries'[r] = entries[r]
    BY <1>1, <1>4 DEF Unsubscribe, TypeInv, TypeOK
  <2>3. \A r \in Slots : Ahead(r) /\ r # s => Ahead(r)'
    BY <2>1, <2>2 DEF Ahead, ActiveSlots
  <2> QED
    BY <2>1, <2>2, <2>3 DEF SurvivorInv, Called, Missed
<1>5. CASE BeginDispatch
  <2> SUFFICES ASSUME running' PROVE SurvivorInv'
    BY DEF SurvivorInv
  <2>1. /\ ~running /\ ~AlreadyDispatched /\ planned' = Count /\ ran' = 0 /\ cursor' = 1
        /\ subscribed' = ActiveTokens
        /\ UNCHANGED <<entries, unsubscribed, executing, calls>>
    BY <1>5 DEF BeginDispatch, subVars
  <2>2. executing = kNoToken /\ calls = <<>>
    BY <1>1, <2>1 DEF TypeInv, LoopInv, CallsInv
  <2>3. Called' = {}
    BY <2>1, <2>2 DEF Called
  <2>4. IsFiniteSet(Called') /\ Cardinality(Called') = 0
    BY <2>3, FS_EmptySet
  <2>5. IsFiniteSet(subscribed') /\ Cardinality(subscribed') = planned'
    BY <1>1, <2>1, TokensCounted
  <2>6. ASSUME NEW t \in subscribed' PROVE \E s \in Slots : Ahead(s)' /\ entries'[s].token = t
    <3>1. PICK s \in ActiveSlots : entries[s].token = t
      BY <2>1 DEF ActiveTokens
    <3>2. s \in Slots /\ s >= 1
      BY ConstantsAssumption DEF ActiveSlots, Slots
    <3>3. Ahead(s)'
      BY <2>1, <2>2, <3>2 DEF Ahead, ActiveSlots
    <3> QED
      BY <2>1, <3>1, <3>2, <3>3
  <2>7. Missed' \subseteq subscribed'
    BY DEF Missed
  <2> QED
    BY <2>1, <2>2, <2>4, <2>5, <2>6, <2>7 DEF SurvivorInv
<1>6. ASSUME NEW s \in Slots, CallNext(s) PROVE SurvivorInv'
  <2> DEFINE t == entries[s].token
  <2>1. /\ running /\ executing = kNoToken /\ Runnable(s) /\ \A r \in 1 .. s - 1 : ~Runnable(r)
        /\ cursor' = s /\ executing' = entries[s].callback /\ calls' = Append(calls, entries[s].callback)
        /\ UNCHANGED <<entries, unsubscribed, running, planned, ran, subscribed>>
    BY <1>6 DEF CallNext, subVars
  <2>2. s \in ActiveSlots /\ Ahead(s) /\ entries[s].callback = t /\ t \in Nat /\ t # kNoToken
    BY <1>1, <2>1 DEF Runnable, EntryInv, EntryOK, Ahead, ActiveSlots, TypeInv, TypeOK, kNoToken
  <2>3. calls \in Seq(0 .. MaxToken)
    BY <1>1 DEF TypeInv, TypeOK
  <2>4. t \notin Called
    <3>1. \A i \in 1 .. Len(calls) : calls[i] # t
      BY <1>1, <2>1, <2>2 DEF CallsInv
    <3> QED
      BY <2>3, <3>1 DEF Called
  <2>5. Called' = Called \cup {t}
    <3> DEFINE c == Append(calls, t)
    <3>1. /\ DOMAIN c = DOMAIN calls \cup {Len(calls) + 1} /\ c[Len(calls) + 1] = t
          /\ \A i \in DOMAIN calls : c[i] = calls[i]
      BY <2>3
    <3>2. calls' = c
      BY <2>1, <2>2
    <3> HIDE DEF c
    <3> QED
      BY <3>1, <3>2 DEF Called
  <2> HIDE DEF t
  <2>6. /\ IsFiniteSet(Called) /\ Cardinality(Called) = ran
        /\ IsFiniteSet(subscribed) /\ Cardinality(subscribed) = planned
    <3>1. ran \in Nat
      BY <1>1 DEF TypeInv, TypeOK
    <3> QED
      BY <2>1, <3>1 DEF SurvivorInv
  <2>7. IsFiniteSet(Called') /\ Cardinality(Called') = ran + 1
    BY <2>4, <2>5, <2>6, FS_AddElement
  <2>8. ASSUME NEW x \in Missed'
        PROVE  \E r \in Slots : Ahead(r)' /\ entries'[r].token = x
    <3>1. x # t /\ x \in Missed
      BY <2>1, <2>5 DEF Missed
    <3>2. PICK r \in Slots : Ahead(r) /\ entries[r].token = x
      BY <2>1, <3>1 DEF SurvivorInv
    <3>3. r # s
      BY <3>1, <3>2 DEF t
    <3>4. Runnable(r)
      BY <1>1, <3>2 DEF Runnable, EntryInv, EntryOK, Ahead, ActiveSlots, kNoToken
    <3>5. r >= s
      <4>1. r \in Nat /\ s \in Nat /\ r >= 1
        BY ConstantsAssumption DEF Slots
      <4>2. r \notin 1 .. s - 1
        BY <2>1, <3>4
      <4> QED
        BY <4>1, <4>2
    <3>6. Ahead(r)'
      BY <2>1, <3>2, <3>3, <3>5 DEF Ahead, ActiveSlots
    <3> QED
      BY <2>1, <3>2, <3>6
  <2>9. executing' # kNoToken
    BY <2>1, <2>2
  <2> QED
    BY <2>1, <2>6, <2>7, <2>8, <2>9 DEF SurvivorInv
<1>7. CASE Return
  <2>1. /\ executing # kNoToken /\ executing' = kNoToken /\ ran' = ran + 1 /\ cursor' = cursor + 1
        /\ UNCHANGED <<entries, unsubscribed, calls, running, planned, subscribed>>
    BY <1>7 DEF Return, subVars
  <2>2. running /\ cursor \in Nat
    BY <1>1, <2>1, ConstantsAssumption DEF TypeInv, TypeOK, LoopInv
  <2>3. /\ IsFiniteSet(Called) /\ Cardinality(Called) = ran + 1
        /\ IsFiniteSet(subscribed) /\ Cardinality(subscribed) = planned
        /\ \A t \in Missed : \E s \in Slots : Ahead(s) /\ entries[s].token = t
    BY <2>1, <2>2 DEF SurvivorInv
  <2>4. \A s \in Slots : Ahead(s) => Ahead(s)'
    BY <1>2, <2>1, <2>2 DEF Ahead, ActiveSlots
  <2>5. Called' = Called /\ Missed' = Missed
    BY <2>1 DEF Called, Missed
  <2>6. ran' + 0 = ran + 1
    BY <1>1, <2>1 DEF TypeInv, TypeOK
  <2> QED
    BY <2>1, <2>3, <2>4, <2>5, <2>6 DEF SurvivorInv
<1>8. CASE EndDispatch
  BY <1>8 DEF EndDispatch, SurvivorInv
<1>9. CASE Present
  BY <1>9 DEF Present, SurvivorInv, loopVars
<1>10. CASE UNCHANGED vars
  BY <1>10 DEF vars, subVars, loopVars, SurvivorInv, Called, Missed, Ahead, ActiveSlots
<1> QED
  BY <1>3, <1>4, <1>5, <1>6, <1>7, <1>8, <1>9, <1>10 DEF Next, Dispatch

\* A dispatch that ends has missed no more than it called newcomers.
LEMMA MissedForNewcomers ==
    ASSUME IInv, SurvivorInv, EndDispatch
    PROVE  Cardinality(Missed) <= Cardinality(Called \ subscribed)
<1>1. /\ running /\ executing = kNoToken
      /\ ran = planned \/ \A s \in Slots : ~Runnable(s)
  BY DEF EndDispatch
<1>2. ran \in Nat
  BY DEF IInv, TypeInv, TypeOK
<1>3. /\ IsFiniteSet(Called) /\ Cardinality(Called) = ran
      /\ IsFiniteSet(subscribed) /\ Cardinality(subscribed) = planned
  BY <1>1, <1>2 DEF SurvivorInv
<1>4. /\ IsFiniteSet(Called \ subscribed) /\ Cardinality(Called \ subscribed) \in Nat
  <2>1. (Called \ subscribed) \in SUBSET Called
    OBVIOUS
  <2>2. IsFiniteSet(Called \ subscribed)
    BY <1>3, <2>1, FS_Subset
  <2> QED
    BY <2>2, FS_CardinalityType
<1>5. CASE ran = planned
  <2> DEFINE both == subscribed \cap Called
  <2>1. Cardinality(subscribed \ Called) = planned - Cardinality(both) /\ IsFiniteSet(subscribed \ Called)
    BY <1>3, FS_Difference
  <2>2. Called \cap subscribed = both
    OBVIOUS
  <2>3. Cardinality(Called \ subscribed) = ran - Cardinality(both)
    BY <1>3, <2>2, FS_Difference
  <2>4. Missed \in SUBSET (subscribed \ Called)
    BY DEF Missed
  <2>5. Cardinality(Missed) <= Cardinality(subscribed \ Called)
    BY <2>1, <2>4, FS_Subset
  <2> QED
    BY <1>5, <2>1, <2>3, <2>5
<1>6. CASE \A s \in Slots : ~Runnable(s)
  <2>1. Missed = {}
    <3> SUFFICES ASSUME NEW t \in Missed PROVE FALSE
      OBVIOUS
    <3>1. PICK s \in Slots : Ahead(s) /\ entries[s].token = t
      BY <1>1 DEF SurvivorInv
    <3>2. Runnable(s)
      BY <3>1 DEF IInv, Runnable, EntryInv, EntryOK, Ahead, ActiveSlots, kNoToken
    <3> QED
      BY <1>6, <3>2
  <2>2. Cardinality(Missed) = 0
    BY <2>1, FS_EmptySet
  <2> QED
    BY <1>4, <2>2
<1> QED
  BY <1>1, <1>5, <1>6

\* A dispatch passes over a subscriber it began with, and that nobody took back,
\* only for a newcomer that ran in its place, for every size of the array.
THEOREM SurvivorsAreRun == Spec => SurvivorsRun
<1>1. Init => SurvivorInv
  BY DEF Init, SurvivorInv
<1>2. IInv /\ SurvivorInv /\ [Next]_vars => SurvivorInv'
  BY SurvivorStep
<1>3. IInv /\ SurvivorInv /\ [Next]_vars
        => [running /\ ~running' => Cardinality(Missed) <= Cardinality(Called \ subscribed)]_vars
  <2> SUFFICES ASSUME IInv, SurvivorInv, [Next]_vars, running, ~running'
               PROVE  Cardinality(Missed) <= Cardinality(Called \ subscribed)
    OBVIOUS
  <2>1. EndDispatch
    <3>1. ~UNCHANGED vars
      BY DEF vars, loopVars
    <3>2. \A s \in Slots : ~Subscribe(s) /\ ~Unsubscribe(s) /\ ~CallNext(s)
      BY DEF Subscribe, Unsubscribe, CallNext, loopVars
    <3>3. ~BeginDispatch /\ ~Return /\ ~Present
      BY DEF BeginDispatch, Return, Present
    <3> QED
      BY <3>1, <3>2, <3>3 DEF Next, Dispatch
  <2> QED
    BY <2>1, MissedForNewcomers
<1> QED
  BY <1>1, <1>2, <1>3, Inductive, PTL DEF Spec, SurvivorsRun

-----------------------------------------------------------------------------
(* TechniqueHooks: the inductive invariant *)

Names == {"engine", "null", "census", "trace", "tracker",
          "kBeforeComposite", "kComposite", "kAfterOpaque", "kSkyMarker"}

Calls == [class : Classes, technique : {"0x40", "other"}, at : Names, context : BOOLEAN]
Marks == Classes \X {"0x40", "other"}

HooksTypeOK ==
    /\ known \in SUBSET Classes
    /\ slot \in [Classes -> Names] /\ original \in [Patches -> Names]
    /\ m_original \in [Patches -> Names]
    /\ startup \in 1 .. 8 /\ noting \in BOOLEAN
    /\ wanted \in SUBSET Features /\ state \in [Features -> {"off", "running", "refused"}]
    /\ g_installed \in BOOLEAN /\ switches \in Nat
    /\ call \in {NoCall} \cup Calls
    /\ seen \in SUBSET Phases /\ called \in SUBSET Marks /\ due \in Seq(Marks)
    /\ pressed \in BOOLEAN /\ g_armed \in BOOLEAN /\ g_recording \in BOOLEAN
    /\ records \in Seq(Marks) /\ overflow \in Nat

\* What a resident finds in the slot.
Finds == <<"engine", "engine", "kBeforeComposite", "engine",
           "kComposite", "kAfterOpaque", "kSkyMarker">>

\* What is in the slot of a class with the first k residents in place.
Top(c, k) ==
    IF c = "composite"
    THEN IF k < 1 THEN "engine" ELSE IF k < 3 THEN "kBeforeComposite"
         ELSE IF k < 5 THEN "kComposite" ELSE "tracker"
    ELSE IF c = "effect"
    THEN IF k < 2 THEN "engine" ELSE IF k < 6 THEN "kAfterOpaque" ELSE "tracker"
    ELSE IF k < 4 THEN "engine" ELSE IF k < 7 THEN "kSkyMarker" ELSE "tracker"

Placed == IF noting THEN startup ELSE startup - 1
Traced(c) == g_installed /\ c \in known
Counted(c) == m_original[<<"census", c>>] # "null"
\* Beneath the census.
Beneath(c) == IF Traced(c) THEN "trace" ELSE IF c \in known THEN Top(c, Placed) ELSE "engine"

ResidentInv ==
    /\ \A i \in 1 .. 7 :
          original[Residents[i]] =
             IF i < startup /\ Residents[i][2] \in known THEN Finds[i] ELSE "null"
    /\ noting => ~Started /\ Resident[2] \in known /\ m_original[Resident] = Finds[startup]

SlotInv ==
    \A c \in Classes :
       /\ slot[c] = IF Counted(c) THEN "census" ELSE Beneath(c)
       /\ Counted(c) => /\ c \in known /\ state["census"] = "running"
                        /\ m_original[<<"census", c>>] = Beneath(c)
                        /\ original[<<"census", c>>] = Beneath(c)
       /\ original[<<"trace", c>>] = IF Traced(c) THEN "tracker" ELSE "null"
       /\ c \notin known => original[<<"census", c>>] = "null"
       /\ ~Traced(c) => m_original[<<"trace", c>>] = "null"

QuietInv ==
    /\ ~Started => call = NoCall /\ ~g_installed /\ \A f \in Features : state[f] = "off"
    /\ state["trace"] = "running" => g_installed
    /\ g_recording => state["trace"] = "running"
    /\ ~g_recording => records = <<>>

Own(c) == IF c = "composite" THEN {"kComposite", "kBeforeComposite"}
          ELSE IF c = "effect" THEN {"kAfterOpaque"} ELSE {"kSkyMarker"}

Way(c) == {"engine"} \cup (IF c \in known THEN {"tracker"} \cup Own(c) ELSE {})
          \cup (IF Traced(c) THEN {"trace"} ELSE {})
          \cup (IF Counted(c) THEN {"census"} ELSE {})

CallInv ==
    call # NoCall =>
       /\ call.at \in Way(call.class)
       /\ call.technique \in Techniques(call.class)
       /\ <<call.class, call.technique>> \in called

PhaseInv ==
    /\ "kSkyMarker" \in seen => <<"sky", "other">> \in called
    /\ PhasesWait
    /\ call.class = "composite" /\ "composite" \in known =>
          /\ call.at = "engine" => "kBeforeComposite" \in seen
          /\ call.at \in {"engine", "kBeforeComposite"} /\ call.technique = "0x40"
                => "kComposite" \in seen
    /\ call.class = "effect" /\ "effect" \in known /\ call.at = "engine" /\ "kSkyMarker" \in seen
          => "kAfterOpaque" \in seen

\* A call the trace is due to record has not got to its thunk yet: it is the last
\* of those due.
Pending == call.at \in {"census", "trace"} /\ Traced(call.class) /\ call.context
Reached == IF Pending THEN Len(due) - 1 ELSE Len(due)

RecordInv ==
    g_recording =>
       /\ Pending => Len(due) > 0 /\ due[Len(due)] = <<call.class, call.technique>>
       /\ Recorded(Reached)

HooksInv == /\ HooksTypeOK /\ ResidentInv /\ SlotInv /\ QuietInv
            /\ CallInv /\ PhaseInv /\ RecordInv

-----------------------------------------------------------------------------
LEMMA ResidentsAre ==
    /\ Len(Residents) = 7 /\ DOMAIN Residents = 1 .. 7
    /\ Residents[1] = <<"kBeforeComposite", "composite">>
    /\ Residents[2] = <<"kAfterOpaque", "effect">>
    /\ Residents[3] = <<"kComposite", "composite">>
    /\ Residents[4] = <<"kSkyMarker", "sky">>
    /\ Residents[5] = <<"tracker", "composite">>
    /\ Residents[6] = <<"tracker", "effect">>
    /\ Residents[7] = <<"tracker", "sky">>
<1> DEFINE T == Names \X Classes
<1>1. Anchors \in Seq(T) /\ Len(Anchors) = 4
  BY DEF Anchors, Names, Classes
<1>2. Trackers \in Seq(T) /\ Len(Trackers) = 3
  BY DEF Trackers, Names, Classes
<1> HIDE DEF T
<1>3. /\ Len(Residents) = 7 /\ Residents \in Seq(T)
      /\ \A i \in 1 .. 7 : Residents[i] = IF i <= 4 THEN Anchors[i] ELSE Trackers[i - 4]
  <2>1. Anchors \o Trackers \in Seq(T)
    BY <1>1, <1>2, ConcatProperties
  <2>2. Len(Anchors \o Trackers) = Len(Anchors) + Len(Trackers)
    BY <1>1, <1>2, ConcatProperties
  <2>3. \A i \in 1 .. Len(Anchors) + Len(Trackers) :
           (Anchors \o Trackers)[i] = IF i <= Len(Anchors) THEN Anchors[i]
                                      ELSE Trackers[i - Len(Anchors)]
    BY <1>1, <1>2, ConcatProperties, Zenon
  <2> QED
    BY <1>1, <1>2, <2>1, <2>2, <2>3 DEF Residents
<1>4. DOMAIN Residents = 1 .. 7
  BY <1>3
<1>5. /\ Residents[1] = Anchors[1] /\ Residents[2] = Anchors[2] /\ Residents[3] = Anchors[3]
      /\ Residents[4] = Anchors[4] /\ Residents[5] = Trackers[1] /\ Residents[6] = Trackers[2]
      /\ Residents[7] = Trackers[3]
  BY <1>3
<1> QED
  BY <1>3, <1>4, <1>5 DEF Anchors, Trackers

\* Which patches there are.
Pairs == {<<"kBeforeComposite", "composite">>, <<"kAfterOpaque", "effect">>,
          <<"kComposite", "composite">>, <<"kSkyMarker", "sky">>, <<"tracker", "composite">>,
          <<"tracker", "effect">>, <<"tracker", "sky">>}

LEMMA PatchesAre == Patches = Pairs \cup ({"census", "trace"} \X Classes)
<1>1. {Residents[i] : i \in DOMAIN Residents} = {Residents[i] : i \in 1 .. 7}
  BY ResidentsAre
<1>2. \A i \in 1 .. 7 : Residents[i] \in Pairs
  <2> SUFFICES ASSUME NEW i \in 1 .. 7 PROVE Residents[i] \in Pairs
    OBVIOUS
  <2>1. i = 1 \/ i = 2 \/ i = 3 \/ i = 4 \/ i = 5 \/ i = 6 \/ i = 7
    OBVIOUS
  <2> QED
    BY <2>1, ResidentsAre DEF Pairs
<1>3. \A p \in Pairs : \E i \in 1 .. 7 : p = Residents[i]
  BY ResidentsAre, 1 \in 1 .. 7, 2 \in 1 .. 7, 3 \in 1 .. 7, 4 \in 1 .. 7, 5 \in 1 .. 7,
     6 \in 1 .. 7, 7 \in 1 .. 7 DEF Pairs
<1> QED
  BY <1>1, <1>2, <1>3 DEF Patches

\* A patch is who made it and the class.
LEMMA PatchWords ==
    /\ \A p \in Patches : p = <<p[1], p[2]>> /\ p[2] \in Classes
    /\ \A c \in Classes : <<"census", c>> \in Patches /\ <<"trace", c>> \in Patches
    /\ \A i \in 1 .. 7 : Residents[i] \in Patches
<1>1. \A p \in Pairs : p = <<p[1], p[2]>> /\ p[2] \in Classes
  BY DEF Pairs, Classes
<1>2. \A p \in {"census", "trace"} \X Classes : p = <<p[1], p[2]>> /\ p[2] \in Classes
  OBVIOUS
<1>3. \A i \in 1 .. 7 : Residents[i] \in Patches
  BY ResidentsAre DEF Patches
<1> QED
  BY <1>1, <1>2, <1>3, PatchesAre

\* A resident is there once.
LEMMA ResidentsDiffer ==
    /\ \A i, j \in 1 .. 7 : Residents[i] = Residents[j] => i = j
    /\ \A i \in 1 .. 7 : Residents[i][1] \notin {"census", "trace"}
<1> SUFFICES ASSUME NEW i \in 1 .. 7
             PROVE  /\ \A j \in 1 .. 7 : Residents[i] = Residents[j] => i = j
                    /\ Residents[i][1] \notin {"census", "trace"}
  OBVIOUS
<1>1. i = 1 \/ i = 2 \/ i = 3 \/ i = 4 \/ i = 5 \/ i = 6 \/ i = 7
  OBVIOUS
<1>2. Residents[i][1] \notin {"census", "trace"}
  BY <1>1, ResidentsAre
<1>3. ASSUME NEW j \in 1 .. 7, Residents[i] = Residents[j] PROVE i = j
  <2>1. j = 1 \/ j = 2 \/ j = 3 \/ j = 4 \/ j = 5 \/ j = 6 \/ j = 7
    OBVIOUS
  <2>2. Residents[i][1] = Residents[j][1] /\ Residents[i][2] = Residents[j][2]
    BY <1>3
  <2> QED
    BY <1>1, <2>1, <2>2, ResidentsAre
<1> QED
  BY <1>2, <1>3

\* A resident finds what the one before it of its class left in the slot.
LEMMA TopsStack ==
    ASSUME NEW i \in 1 .. 7
    PROVE  /\ Top(Residents[i][2], i) = Residents[i][1]
           /\ Top(Residents[i][2], i - 1) = Finds[i]
           /\ \A c \in Classes : c # Residents[i][2] => Top(c, i) = Top(c, i - 1)
           /\ Residents[i][1] \in Names /\ Residents[i][2] \in Classes
           /\ Finds[i] \in Names /\ Finds[i] # "null"
<1>1. i = 1 \/ i = 2 \/ i = 3 \/ i = 4 \/ i = 5 \/ i = 6 \/ i = 7
  OBVIOUS
<1> QED
  BY <1>1, ResidentsAre DEF Top, Finds, Classes, Names

-----------------------------------------------------------------------------
\* VirtualProtect does not fail: all classes asked for are patched.
LEMMA AllAreDone ==
    ASSUME ~ProtectFails, NEW S, NEW outcome \in [S -> Outcomes]
    PROVE  Done(outcome) = S /\ Written(outcome) = S
BY DEF Done, Written, Outcomes

LEMMA InstallDoes ==
    ASSUME ~ProtectFails, NEW S \in SUBSET Classes, NEW outcome \in [S -> Outcomes], NEW who,
           InstallAtTable(who, outcome)
    PROVE  /\ slot' = [c \in Classes |-> IF c \in S THEN who ELSE slot[c]]
           /\ m_original' = [p \in Patches |-> IF p[1] = who /\ p[2] \in S
                                               THEN slot[p[2]] ELSE m_original[p]]
BY AllAreDone DEF InstallAtTable

LEMMA RestoreDoes ==
    ASSUME ~ProtectFails, NEW S \in SUBSET Classes, NEW outcome \in [S -> Outcomes], NEW who,
           Restore(who, outcome)
    PROVE  /\ slot' = [c \in Classes |-> IF c \in S THEN m_original[<<who, c>>] ELSE slot[c]]
           /\ m_original' = [p \in Patches |-> IF p[1] = who /\ p[2] \in S
                                               THEN "null" ELSE m_original[p]]
BY AllAreDone DEF Restore

LEMMA StartedIs ==
    ASSUME HooksInv
    PROVE  /\ Started <=> startup = 8
           /\ ~Started <=> startup \in 1 .. 7
           /\ Started => ~noting /\ Placed = 7
BY ResidentsAre DEF HooksInv, HooksTypeOK, ResidentInv, Started, Placed

\* Before that nothing is traced or counted.
LEMMA UnstartedIs ==
    ASSUME HooksInv, ~Started, NEW c \in Classes
    PROVE  ~Traced(c) /\ ~Counted(c) /\ call = NoCall
<1>1. state["census"] = "off" /\ ~g_installed /\ call = NoCall
  BY DEF HooksInv, QuietInv, Features
<1> QED
  BY <1>1 DEF HooksInv, SlotInv, Traced

\* With the hooks in place the tracker is on top of the residents.
LEMMA SettledIs ==
    ASSUME HooksInv, Started, NEW c \in Classes
    PROVE  Beneath(c) = IF Traced(c) THEN "trace" ELSE IF c \in known THEN "tracker" ELSE "engine"
<1>1. Top(c, 7) = "tracker"
  BY DEF Top, Classes
<1> QED
  BY <1>1, StartedIs DEF Beneath

\* ... and each of them leads to the onto.
LEMMA ChainIs ==
    ASSUME HooksInv, Started
    PROVE  /\ "composite" \in known =>
                 /\ original[<<"tracker", "composite">>] = "kComposite"
                 /\ original[<<"kComposite", "composite">>] = "kBeforeComposite"
                 /\ original[<<"kBeforeComposite", "composite">>] = "engine"
           /\ "effect" \in known =>
                 /\ original[<<"tracker", "effect">>] = "kAfterOpaque"
                 /\ original[<<"kAfterOpaque", "effect">>] = "engine"
           /\ "sky" \in known =>
                 /\ original[<<"tracker", "sky">>] = "kSkyMarker"
                 /\ original[<<"kSkyMarker", "sky">>] = "engine"
<1>1. startup = 8
  BY StartedIs
<1>2. \A i \in 1 .. 7 : Residents[i][2] \in known => original[Residents[i]] = Finds[i]
  BY <1>1 DEF HooksInv, ResidentInv
<1>3. /\ 1 \in 1 .. 7 /\ 2 \in 1 .. 7 /\ 3 \in 1 .. 7 /\ 4 \in 1 .. 7 /\ 5 \in 1 .. 7
      /\ 6 \in 1 .. 7 /\ 7 \in 1 .. 7
  OBVIOUS
<1>4. /\ Finds[1] = "engine" /\ Finds[2] = "engine" /\ Finds[3] = "kBeforeComposite"
      /\ Finds[4] = "engine" /\ Finds[5] = "kComposite" /\ Finds[6] = "kAfterOpaque"
      /\ Finds[7] = "kSkyMarker"
  BY DEF Finds
<1>5. "composite" \in known => /\ original[Residents[5]] = Finds[5]
                               /\ original[Residents[3]] = Finds[3]
                               /\ original[Residents[1]] = Finds[1]
  BY <1>2, <1>3, ResidentsAre
<1>6. "effect" \in known => /\ original[Residents[6]] = Finds[6]
                            /\ original[Residents[2]] = Finds[2]
  BY <1>2, <1>3, ResidentsAre
<1>7. "sky" \in known => /\ original[Residents[7]] = Finds[7]
                         /\ original[Residents[4]] = Finds[4]
  BY <1>2, <1>3, ResidentsAre
<1> QED
  BY <1>4, <1>5, <1>6, <1>7, ResidentsAre

-----------------------------------------------------------------------------
\* The kinds of steps keep the parts they do not touch: outside a call ...
LEMMA QuietCalls ==
    ASSUME CallInv, PhaseInv, UNCHANGED <<known, callVars>>, call = NoCall
    PROVE  CallInv' /\ PhaseInv'
BY DEF CallInv, PhaseInv, PhasesWait, callVars, NoCall

\* ... and where nothing that is traced changes.
LEMMA QuietRecords ==
    ASSUME RecordInv, UNCHANGED <<known, g_installed, g_recording, records, overflow, callVars>>
    PROVE  RecordInv'
BY DEF RecordInv, Recorded, Reached, Pending, Traced, callVars

LEMMA LeftAloneKeeps ==
    ASSUME HooksInv, LeftAlone
    PROVE  HooksInv'
<1> USE DEF HooksInv
<1>1. /\ ~Started /\ startup \in 1 .. 7 /\ ~noting /\ startup' = startup + 1
      /\ Residents[startup][2] \notin known /\ UNCHANGED noting
  BY StartedIs DEF LeftAlone, Resident
<1>2. UNCHANGED <<hookVars, featureVars, callVars, traceVars>>
  BY DEF LeftAlone
<1> USE DEF hookVars, featureVars, callVars, traceVars
<1>3. HooksTypeOK'
  BY <1>1, <1>2 DEF HooksTypeOK
<1>4. ResidentInv'
  <2>1. \A i \in 1 .. 7 : i < startup' /\ Residents[i][2] \in known
                             <=> i < startup /\ Residents[i][2] \in known
    BY <1>1
  <2> QED
    BY <1>1, <1>2, <2>1 DEF ResidentInv
<1>5. SlotInv'
  <2> SUFFICES ASSUME NEW c \in Classes
               PROVE  Beneath(c)' = Beneath(c)
    BY <1>1, <1>2 DEF SlotInv, Traced, Counted
  <2>1. c \in known => Top(c, startup) = Top(c, startup - 1)
    BY <1>1, TopsStack
  <2>2. Placed = startup - 1 /\ Placed' = startup
    BY <1>1 DEF Placed, HooksTypeOK
  <2> QED
    BY <1>2, <2>1, <2>2 DEF Beneath, Traced
<1>6. QuietInv'
  BY <1>1, <1>2 DEF QuietInv
<1>7. CallInv' /\ PhaseInv' /\ RecordInv'
  BY <1>1, <1>2, QuietCalls, QuietRecords DEF QuietInv
<1> QED
  BY <1>3, <1>4, <1>5, <1>6, <1>7

LEMMA PatchResidentKeeps ==
    ASSUME HooksInv, PatchResident, ~ProtectFails
    PROVE  HooksInv'
<1> USE DEF HooksInv
<1> DEFINE who == Residents[startup][1]
           cls == Residents[startup][2]
<1>1. ~Started /\ startup \in 1 .. 7 /\ ~noting /\ cls \in known
  BY StartedIs DEF PatchResident, Resident
<1>2. /\ slot' = [c \in Classes |-> IF c = cls THEN who ELSE slot[c]]
      /\ m_original' = [p \in Patches |-> IF p[1] = who /\ p[2] = cls
                                          THEN slot[p[2]] ELSE m_original[p]]
      /\ noting' = TRUE /\ startup' = startup
  <2>1. PICK outcome \in [{cls} -> Outcomes] :
           /\ InstallAtTable(who, outcome)
           /\ noting' = (Done(outcome) # {})
           /\ startup' = IF noting' THEN startup ELSE startup + 1
    BY DEF PatchResident, Resident
  <2>2. cls \in Classes
    BY <1>1, TopsStack
  <2>3. Done(outcome) = {cls}
    BY AllAreDone
  <2> HIDE DEF who, cls
  <2>4. noting' = TRUE /\ startup' = startup
    BY <2>1, <2>3
  <2> DEFINE S == {cls}
  <2>5. S \in SUBSET Classes /\ \A c : c \in S <=> c = cls
    BY <2>2
  <2>6. outcome \in [S -> Outcomes]
    BY <2>1
  <2> HIDE DEF S
  <2>7. /\ slot' = [c \in Classes |-> IF c \in S THEN who ELSE slot[c]]
        /\ m_original' = [p \in Patches |-> IF p[1] = who /\ p[2] \in S
                                            THEN slot[p[2]] ELSE m_original[p]]
    BY <2>1, <2>5, <2>6, InstallDoes
  <2> QED
    BY <2>4, <2>5, <2>7
<1>3. UNCHANGED <<known, original, featureVars, callVars, traceVars>>
  BY DEF PatchResident
<1> USE DEF featureVars, callVars, traceVars
<1>4. /\ cls \in Classes /\ who \in Names /\ who \notin {"census", "trace"}
      /\ slot[cls] = Finds[startup] /\ Finds[startup] # "null"
      /\ Residents[startup] \in Patches /\ Residents[startup] = <<who, cls>>
  <2>1. slot[cls] = Top(cls, startup - 1)
    BY <1>1, TopsStack, UnstartedIs DEF SlotInv, Beneath, Placed
  <2> QED
    BY <1>1, <2>1, TopsStack, ResidentsDiffer, PatchWords
<1>5. HooksTypeOK'
  <2>1. slot' \in [Classes -> Names]
    BY <1>2, <1>4 DEF HooksTypeOK
  <2>2. m_original' \in [Patches -> Names]
    <3>1. \A p \in Patches : p[2] \in Classes
      BY PatchWords
    <3> QED
      BY <1>2, <3>1 DEF HooksTypeOK
  <2> QED
    BY <1>1, <1>2, <1>3, <2>1, <2>2 DEF HooksTypeOK
<1>6. ResidentInv'
  <2>1. m_original'[Residents[startup]] = Finds[startup]
    BY <1>2, <1>4
  <2>2. Started' = Started /\ Resident' = Residents[startup]
    BY <1>2 DEF Started, Resident
  <2> QED
    BY <1>1, <1>2, <1>3, <2>1, <2>2 DEF ResidentInv
<1>7. SlotInv'
  <2> SUFFICES ASSUME NEW c \in Classes
               PROVE  /\ Counted(c)' = Counted(c) /\ Traced(c)' = Traced(c)
                      /\ m_original'[<<"trace", c>>] = m_original[<<"trace", c>>]
                      /\ slot'[c] = Beneath(c)'
    BY <1>1, <1>3, UnstartedIs DEF SlotInv
  <2>1. /\ m_original'[<<"trace", c>>] = m_original[<<"trace", c>>]
        /\ m_original'[<<"census", c>>] = m_original[<<"census", c>>]
    BY <1>2, <1>4, PatchWords
  <2>2. Placed = startup - 1 /\ Placed' = startup
    BY <1>1, <1>2 DEF Placed
  <2>3. ~Traced(c) /\ ~Counted(c) /\ slot[c] = Beneath(c)
    BY <1>1, UnstartedIs DEF SlotInv
  <2>4. Beneath(c)' = IF c \in known THEN Top(c, startup) ELSE "engine"
    BY <1>3, <2>2, <2>3 DEF Beneath, Traced
  <2>5. slot'[c] = Beneath(c)'
    <3>1. CASE c = cls
      BY <1>1, <1>2, <2>4, <3>1, TopsStack
    <3>2. CASE c # cls
      <4>1. Top(c, startup) = Top(c, startup - 1)
        BY <1>1, <3>2, TopsStack
      <4> QED
        BY <1>2, <2>2, <2>3, <2>4, <3>2, <4>1 DEF Beneath
    <3> QED
      BY <3>1, <3>2
  <2> QED
    BY <1>3, <2>1, <2>5 DEF Counted, Traced
<1>8. QuietInv'
  BY <1>2, <1>3 DEF QuietInv, Started
<1>9. CallInv' /\ PhaseInv' /\ RecordInv'
  BY <1>1, <1>3, QuietCalls, QuietRecords DEF QuietInv
<1> QED
  BY <1>5, <1>6, <1>7, <1>8, <1>9

LEMMA NoteOriginalKeeps ==
    ASSUME HooksInv, NoteOriginal
    PROVE  HooksInv'
<1> USE DEF HooksInv
<1>1. /\ ~Started /\ startup \in 1 .. 7 /\ noting
      /\ Resident[2] \in known /\ m_original[Resident] = Finds[startup]
  BY StartedIs DEF NoteOriginal, ResidentInv
<1>2. /\ original' = [original EXCEPT ![Residents[startup]] = Finds[startup]]
      /\ noting' = FALSE /\ startup' = startup + 1
      /\ UNCHANGED <<known, slot, m_original, featureVars, callVars, traceVars>>
  BY <1>1 DEF NoteOriginal, Resident
<1> USE DEF featureVars, callVars, traceVars
<1>3. /\ Residents[startup] \in Patches /\ Finds[startup] \in Names
      /\ Residents[startup][1] \notin {"census", "trace"}
  BY <1>1, TopsStack, ResidentsDiffer, PatchWords
<1>4. HooksTypeOK'
  <2>1. original' \in [Patches -> Names]
    BY <1>2, <1>3 DEF HooksTypeOK
  <2>2. startup' \in 1 .. 8
    BY <1>1, <1>2
  <2> QED
    BY <1>2, <2>1, <2>2 DEF HooksTypeOK
<1>5. ResidentInv'
  <2> SUFFICES ASSUME NEW i \in 1 .. 7
               PROVE  original'[Residents[i]] =
                         IF i < startup' /\ Residents[i][2] \in known THEN Finds[i] ELSE "null"
    BY <1>2 DEF ResidentInv
  <2>1. CASE i = startup
    BY <1>1, <1>2, <1>3, <2>1 DEF HooksTypeOK, Resident
  <2>2. CASE i # startup
    <3>1. Residents[i] # Residents[startup] /\ (i < startup' <=> i < startup)
      BY <1>1, <1>2, <2>2, ResidentsDiffer
    <3>2. original'[Residents[i]] = original[Residents[i]]
      BY <1>2, <3>1, PatchWords DEF HooksTypeOK
    <3> QED
      BY <3>1, <3>2 DEF ResidentInv
  <2> QED
    BY <2>1, <2>2
<1>6. SlotInv'
  <2> SUFFICES ASSUME NEW c \in Classes
               PROVE  /\ original'[<<"trace", c>>] = original[<<"trace", c>>]
                      /\ original'[<<"census", c>>] = original[<<"census", c>>]
                      /\ Beneath(c)' = Beneath(c)
    BY <1>2 DEF SlotInv, Counted, Traced
  <2>1. <<"trace", c>> # Residents[startup] /\ <<"census", c>> # Residents[startup]
    BY <1>3
  <2>2. Placed' = Placed
    BY <1>1, <1>2 DEF Placed
  <2> QED
    BY <1>2, <2>1, <2>2, PatchWords DEF HooksTypeOK, Beneath, Traced
<1>7. QuietInv'
  BY <1>1, <1>2 DEF QuietInv
<1>8. CallInv' /\ PhaseInv' /\ RecordInv'
  BY <1>1, <1>2, QuietCalls, QuietRecords DEF QuietInv
<1> QED
  BY <1>4, <1>5, <1>6, <1>7, <1>8

-----------------------------------------------------------------------------
\* Between calls, with the hooks in place.
LEMMA TicksKeep ==
    ASSUME HooksInv, Ticking, UNCHANGED <<known, startVars, callVars>>,
           \A i \in 1 .. 7 : original'[Residents[i]] = original[Residents[i]]
    PROVE  /\ ResidentInv' /\ CallInv' /\ PhaseInv'
           /\ Started' /\ Placed' = Placed /\ call = NoCall
<1>1. Started /\ ~noting /\ call = NoCall /\ startup = 8
  BY StartedIs DEF Ticking
<1>2. ResidentInv'
  BY <1>1 DEF HooksInv, ResidentInv, startVars
<1>3. CallInv' /\ PhaseInv'
  BY <1>1, QuietCalls DEF HooksInv
<1> QED
  BY <1>1, <1>2, <1>3 DEF startVars, Started, Placed

\* What changes neither the hooks nor whether the census runs leaves the slots as they are.
LEMMA SlotsStay ==
    ASSUME SlotInv, UNCHANGED <<hookVars, g_installed>>, Placed' = Placed,
           state["census"] = "running" => state'["census"] = "running"
    PROVE  SlotInv'
<1>1. UNCHANGED <<known, slot, original, m_original, g_installed>>
  BY DEF hookVars
<1>2. \A c : /\ Traced(c)' = Traced(c) /\ Counted(c)' = Counted(c)
           /\ Beneath(c)' = Beneath(c)
  BY <1>1 DEF Traced, Counted, Beneath
<1> QED
  BY <1>1, <1>2 DEF SlotInv

LEMMA SwitchKeeps ==
    ASSUME HooksInv, Switch
    PROVE  HooksInv'
<1> USE DEF HooksInv
<1>1. /\ Ticking /\ switches' = switches + 1 /\ wanted' \in SUBSET Features
      /\ state' = [f \in Features |-> IF state[f] = "refused" THEN "off" ELSE state[f]]
      /\ UNCHANGED <<hookVars, startVars, g_installed, callVars, traceVars>>
  BY DEF Switch
<1>2. HooksTypeOK'
  BY <1>1 DEF HooksTypeOK, hookVars, startVars, callVars, traceVars
<1>3. ResidentInv' /\ CallInv' /\ PhaseInv' /\ Started' /\ Placed' = Placed
  BY <1>1, TicksKeep DEF hookVars
<1>4. \A f \in Features : state'[f] = "running" <=> state[f] = "running"
  BY <1>1
<1>5. SlotInv'
  BY <1>1, <1>3, <1>4, SlotsStay DEF Features
<1>6. QuietInv'
  BY <1>1, <1>3, <1>4 DEF QuietInv, traceVars, Features
<1>7. RecordInv'
  BY <1>1, QuietRecords DEF hookVars, traceVars
<1> QED
  BY <1>2, <1>3, <1>5, <1>6, <1>7

\* What a feature has noted of the patches it installed.
LEMMA NotedIs ==
    ASSUME HooksTypeOK, NEW who \in {"census", "trace"}, original' = Noted(who),
           m_original' \in [Patches -> Names]
    PROVE  /\ original' \in [Patches -> Names]
           /\ \A i \in 1 .. 7 : original'[Residents[i]] = original[Residents[i]]
           /\ \A c \in Classes, w \in {"census", "trace"} :
                 original'[<<w, c>>] = IF w = who /\ m_original'[<<w, c>>] # m_original[<<w, c>>]
                                       THEN m_original'[<<w, c>>] ELSE original[<<w, c>>]
<1>1. original' = [p \in Patches |-> IF p[1] = who /\ m_original'[p] # m_original[p]
                                      THEN m_original'[p] ELSE original[p]]
  BY DEF Noted
<1>2. original' \in [Patches -> Names]
  BY <1>1 DEF HooksTypeOK
<1>3. \A i \in 1 .. 7 : Residents[i] \in Patches /\ Residents[i][1] # who
  BY ResidentsDiffer, PatchWords
<1>4. \A c \in Classes, w \in {"census", "trace"} : <<w, c>> \in Patches
  BY PatchWords
<1> QED
  BY <1>1, <1>2, <1>3, <1>4

LEMMA TraceSetupKeeps ==
    ASSUME HooksInv, TraceSetup, ~ProtectFails
    PROVE  HooksInv'
<1> USE DEF HooksInv
<1>1. /\ Ticking /\ Started /\ TornDown /\ state["trace"] = "off" /\ "trace" \in wanted
      /\ UNCHANGED <<startVars, wanted, switches, callVars, traceVars>>
      /\ ~g_recording
  BY DEF TraceSetup, Ticking, QuietInv
<1>2. CASE \E s \in {"running", "refused"} :
              /\ state' = [state EXCEPT !["trace"] = s] /\ (s = "running" => g_installed)
              /\ UNCHANGED <<hookVars, g_installed>>
  <2>1. PICK s \in {"running", "refused"} :
              /\ state' = [state EXCEPT !["trace"] = s] /\ (s = "running" => g_installed)
              /\ UNCHANGED <<hookVars, g_installed>>
    BY <1>2
  <2>2. HooksTypeOK'
    BY <1>1, <2>1 DEF HooksTypeOK, hookVars, startVars, callVars, traceVars
  <2>3. ResidentInv' /\ CallInv' /\ PhaseInv' /\ Started' /\ Placed' = Placed
    BY <1>1, <2>1, TicksKeep DEF hookVars
  <2>4. state'["census"] = state["census"] /\ state'["trace"] = s
    BY <2>1 DEF HooksTypeOK, Features
  <2>5. SlotInv'
    BY <2>1, <2>3, <2>4, SlotsStay
  <2>6. QuietInv'
    BY <1>1, <2>1, <2>3, <2>4 DEF QuietInv, traceVars
  <2>7. RecordInv'
    BY <1>1, <2>1, QuietRecords DEF hookVars, traceVars
  <2> QED
    BY <2>2, <2>3, <2>5, <2>6, <2>7
<1>3. CASE /\ "census" \notin wanted /\ ~g_installed
           /\ \E outcome \in [known -> Outcomes], s \in {"running", "refused"} :
                 /\ InstallAtTable("trace", outcome)
                 /\ g_installed' = (Done(outcome) # {})
                 /\ state' = [state EXCEPT !["trace"] = IF g_installed' THEN s ELSE "refused"]
           /\ original' = Noted("trace") /\ UNCHANGED known
  <2>1. PICK s \in {"running", "refused"} :
           /\ slot' = [c \in Classes |-> IF c \in known THEN "trace" ELSE slot[c]]
           /\ m_original' = [p \in Patches |-> IF p[1] = "trace" /\ p[2] \in known
                                               THEN slot[p[2]] ELSE m_original[p]]
           /\ g_installed' = (known # {})
           /\ state' = [state EXCEPT !["trace"] = IF g_installed' THEN s ELSE "refused"]
    <3>1. PICK outcome \in [known -> Outcomes], s \in {"running", "refused"} :
                 /\ InstallAtTable("trace", outcome)
                 /\ g_installed' = (Done(outcome) # {})
                 /\ state' = [state EXCEPT !["trace"] = IF g_installed' THEN s ELSE "refused"]
      BY <1>3
    <3>2. Done(outcome) = known /\ known \in SUBSET Classes
      BY <3>1, AllAreDone DEF HooksTypeOK
    <3>3. /\ slot' = [c \in Classes |-> IF c \in known THEN "trace" ELSE slot[c]]
          /\ m_original' = [p \in Patches |-> IF p[1] = "trace" /\ p[2] \in known
                                              THEN slot[p[2]] ELSE m_original[p]]
      BY <3>1, <3>2, InstallDoes
    <3> QED
      BY <3>1, <3>2, <3>3
  <2>2. state'["census"] = state["census"] /\ (state'["trace"] = "running" => g_installed')
        /\ state' \in [Features -> {"off", "running", "refused"}]
    BY <2>1 DEF HooksTypeOK, Features
  <2>3. \A c \in Classes : ~Counted(c)
    BY <1>1, <1>3 DEF TornDown, SlotInv, Features
  <2>4. slot' \in [Classes -> Names] /\ m_original' \in [Patches -> Names]
    <3>1. \A p \in Patches : p[2] \in Classes
      BY PatchWords
    <3> QED
      BY <2>1, <3>1 DEF HooksTypeOK, Names
  <2>5. /\ original' \in [Patches -> Names]
        /\ \A i \in 1 .. 7 : original'[Residents[i]] = original[Residents[i]]
        /\ \A c \in Classes : /\ original'[<<"census", c>>] = original[<<"census", c>>]
                              /\ original'[<<"trace", c>>] =
                                    IF m_original'[<<"trace", c>>] # m_original[<<"trace", c>>]
                                    THEN m_original'[<<"trace", c>>] ELSE original[<<"trace", c>>]
    BY <1>3, <2>4, NotedIs
  <2>6. HooksTypeOK'
    BY <1>1, <1>3, <2>1, <2>2, <2>4, <2>5 DEF HooksTypeOK, startVars, callVars, traceVars
  <2>7. ResidentInv' /\ CallInv' /\ PhaseInv' /\ Started' /\ Placed' = Placed
    BY <1>1, <1>3, <2>5, TicksKeep
  <2>8. SlotInv'
    <3> SUFFICES ASSUME NEW c \in Classes
                 PROVE  /\ slot'[c] = Beneath(c)' /\ ~Counted(c)'
                        /\ original'[<<"trace", c>>] = IF Traced(c)' THEN "tracker" ELSE "null"
                        /\ c \notin known => original'[<<"census", c>>] = "null"
                        /\ ~Traced(c)' => m_original'[<<"trace", c>>] = "null"
      BY <1>3 DEF SlotInv
    <3>1. /\ slot[c] = IF c \in known THEN "tracker" ELSE "engine"
          /\ m_original[<<"trace", c>>] = "null" /\ original[<<"trace", c>>] = "null"
          /\ m_original[<<"census", c>>] = "null"
          /\ c \notin known => original[<<"census", c>>] = "null"
      BY <1>1, <1>3, <2>3, SettledIs DEF SlotInv, Traced, Counted
    <3>2. /\ m_original'[<<"trace", c>>] = IF c \in known THEN "tracker" ELSE "null"
          /\ m_original'[<<"census", c>>] = "null"
      BY <2>1, <3>1, PatchWords
    <3>3. (Traced(c)' <=> c \in known) /\ known' = known
      BY <1>3, <2>1 DEF Traced
    <3>4. original'[<<"trace", c>>] = IF c \in known THEN "tracker" ELSE "null"
      BY <2>5, <3>1, <3>2
    <3>5. slot'[c] = Beneath(c)'
      BY <2>1, <3>1, <3>3 DEF Beneath
    <3> QED
      BY <2>5, <3>1, <3>2, <3>3, <3>4, <3>5 DEF Counted
  <2>9. QuietInv'
    BY <1>1, <2>2, <2>7 DEF QuietInv, traceVars
  <2>10. RecordInv'
    BY <1>1 DEF RecordInv, traceVars
  <2> QED
    BY <2>6, <2>7, <2>8, <2>9, <2>10
<1> QED
  BY <1>2, <1>3 DEF TraceSetup

LEMMA TraceShutdownKeeps ==
    ASSUME HooksInv, TraceShutdown
    PROVE  HooksInv'
<1> USE DEF HooksInv
<1>1. /\ Ticking /\ state' = [state EXCEPT !["trace"] = "off"]
      /\ g_armed' = FALSE /\ g_recording' = FALSE /\ records' = <<>> /\ overflow' \in Nat
      /\ UNCHANGED <<hookVars, startVars, wanted, g_installed, switches, callVars, pressed>>
  BY DEF TraceShutdown, Clear, QuietInv, HooksTypeOK
<1>2. HooksTypeOK'
  <2>1. records' \in Seq(Marks)
    BY <1>1
  <2>2. g_armed' \in BOOLEAN /\ g_recording' \in BOOLEAN
    BY <1>1
  <2>3. state' \in [Features -> {"off", "running", "refused"}]
    BY <1>1 DEF HooksTypeOK
  <2> QED
    BY <1>1, <2>1, <2>2, <2>3 DEF HooksTypeOK, hookVars, startVars, callVars
<1>3. ResidentInv' /\ CallInv' /\ PhaseInv' /\ Started' /\ Placed' = Placed
  BY <1>1, TicksKeep DEF hookVars
<1>4. state'["census"] = state["census"] /\ state'["trace"] = "off"
  BY <1>1 DEF HooksTypeOK, Features
<1>5. SlotInv'
  BY <1>1, <1>3, <1>4, SlotsStay
<1>6. QuietInv'
  BY <1>1, <1>3, <1>4 DEF QuietInv
<1>7. RecordInv'
  BY <1>1 DEF RecordInv
<1> QED
  BY <1>2, <1>3, <1>5, <1>6, <1>7

LEMMA TraceKeyKeeps ==
    ASSUME HooksInv, TraceKey
    PROVE  HooksInv'
<1> USE DEF TraceKey, hookVars, startVars, featureVars, callVars, HooksInv
<1>1. HooksTypeOK' /\ ResidentInv'
  BY DEF HooksTypeOK, ResidentInv, Started, Resident
<1>2. SlotInv' /\ QuietInv'
  BY DEF SlotInv, QuietInv, Beneath, Placed, Traced, Counted, Started
<1>3. CallInv' /\ PhaseInv'
  BY DEF CallInv, PhaseInv, PhasesWait, Way, Traced, Counted
<1>4. RecordInv'
  BY QuietRecords
<1> QED
  BY <1>1, <1>2, <1>3, <1>4

LEMMA CensusSetupKeeps ==
    ASSUME HooksInv, CensusSetup, ~ProtectFails
    PROVE  HooksInv'
<1> USE DEF HooksInv
<1>1. /\ Ticking /\ Started /\ state["census"] = "off"
      /\ original' = Noted("census")
      /\ UNCHANGED <<known, startVars, wanted, g_installed, switches, callVars, traceVars>>
  BY DEF CensusSetup, Ticking
<1>2. \A c \in Classes : ~Counted(c)
  BY <1>1 DEF SlotInv
<1>3. Installed("census") = {}
  BY <1>2, PatchWords DEF Installed, Counted
<1>4. /\ slot' = [c \in Classes |-> IF c \in known THEN "census" ELSE slot[c]]
      /\ m_original' = [p \in Patches |-> IF p[1] = "census" /\ p[2] \in known
                                          THEN slot[p[2]] ELSE m_original[p]]
      /\ state' = [state EXCEPT !["census"] = IF known # {} THEN "running" ELSE "refused"]
  <2>1. PICK outcome \in [known \ Installed("census") -> Outcomes] :
          /\ InstallAtTable("census", outcome)
          /\ state' = [state EXCEPT !["census"] = IF Done(outcome) # {} THEN "running"
                                                  ELSE "refused"]
    BY DEF CensusSetup
  <2>2. /\ outcome \in [known -> Outcomes] /\ known \in SUBSET Classes
        /\ InstallAtTable("census", outcome)
    BY <1>3, <2>1 DEF HooksTypeOK
  <2>3. Done(outcome) = known
    BY <2>2, AllAreDone
  <2>4. /\ slot' = [c \in Classes |-> IF c \in known THEN "census" ELSE slot[c]]
        /\ m_original' = [p \in Patches |-> IF p[1] = "census" /\ p[2] \in known
                                            THEN slot[p[2]] ELSE m_original[p]]
    BY <2>2, InstallDoes
  <2> QED
    BY <2>1, <2>3, <2>4
<1>5. /\ state'["trace"] = state["trace"] /\ (known # {} => state'["census"] = "running")
      /\ state' \in [Features -> {"off", "running", "refused"}]
  BY <1>4 DEF HooksTypeOK, Features
<1>6. slot' \in [Classes -> Names] /\ m_original' \in [Patches -> Names]
  <2>1. \A p \in Patches : p[2] \in Classes
    BY PatchWords
  <2> QED
    BY <1>4, <2>1 DEF HooksTypeOK, Names
<1>7. /\ original' \in [Patches -> Names]
      /\ \A i \in 1 .. 7 : original'[Residents[i]] = original[Residents[i]]
      /\ \A c \in Classes : /\ original'[<<"trace", c>>] = original[<<"trace", c>>]
                            /\ original'[<<"census", c>>] =
                                  IF m_original'[<<"census", c>>] # m_original[<<"census", c>>]
                                  THEN m_original'[<<"census", c>>] ELSE original[<<"census", c>>]
  BY <1>1, <1>6, NotedIs
<1>8. HooksTypeOK'
  BY <1>1, <1>5, <1>6, <1>7 DEF HooksTypeOK, startVars, callVars, traceVars
<1>9. ResidentInv' /\ CallInv' /\ PhaseInv' /\ Started' /\ Placed' = Placed
  BY <1>1, <1>7, TicksKeep
<1>10. SlotInv'
  <2> SUFFICES ASSUME NEW c \in Classes
               PROVE  /\ slot'[c] = IF Counted(c)' THEN "census" ELSE Beneath(c)'
                      /\ Counted(c)' => /\ c \in known' /\ state'["census"] = "running"
                                        /\ m_original'[<<"census", c>>] = Beneath(c)'
                                        /\ original'[<<"census", c>>] = Beneath(c)'
                      /\ original'[<<"trace", c>>] = IF Traced(c)' THEN "tracker" ELSE "null"
                      /\ c \notin known' => original'[<<"census", c>>] = "null"
                      /\ ~Traced(c)' => m_original'[<<"trace", c>>] = "null"
    BY DEF SlotInv
  <2>1. slot[c] = Beneath(c) /\ m_original[<<"census", c>>] = "null" /\ Beneath(c) # "null"
    BY <1>1, <1>2, SettledIs DEF SlotInv, Counted
  <2>2. /\ m_original'[<<"trace", c>>] = m_original[<<"trace", c>>]
        /\ m_original'[<<"census", c>>] = IF c \in known THEN Beneath(c) ELSE "null"
    BY <1>4, <2>1, PatchWords
  <2>3. Beneath(c)' = Beneath(c) /\ Traced(c)' = Traced(c)
    BY <1>1, <1>9 DEF Beneath, Traced
  <2>4. slot'[c] = IF c \in known THEN "census" ELSE slot[c]
    BY <1>4
  <2>5. /\ c \notin known => original[<<"census", c>>] = "null"
        /\ original[<<"trace", c>>] = IF Traced(c) THEN "tracker" ELSE "null"
        /\ ~Traced(c) => m_original[<<"trace", c>>] = "null"
    BY DEF SlotInv
  <2>6. Counted(c)' <=> c \in known
    BY <2>1, <2>2 DEF Counted
  <2>7. original'[<<"census", c>>] = IF c \in known THEN Beneath(c) ELSE "null"
    BY <1>7, <2>1, <2>2, <2>5
  <2> QED
    BY <1>1, <1>5, <1>7, <2>1, <2>2, <2>3, <2>4, <2>5, <2>6, <2>7
<1>11. QuietInv'
  BY <1>1, <1>5, <1>9 DEF QuietInv, traceVars
<1>12. RecordInv'
  BY <1>1, QuietRecords DEF traceVars
<1> QED
  BY <1>8, <1>9, <1>10, <1>11, <1>12

\* The census gives some of its classes back.
LEMMA CensusRestores ==
    ASSUME HooksInv, NEW S \in SUBSET Classes, \A c \in S : Counted(c),
           slot' = [c \in Classes |-> IF c \in S THEN m_original[<<"census", c>>] ELSE slot[c]],
           m_original' = [p \in Patches |-> IF p[1] = "census" /\ p[2] \in S
                                             THEN "null" ELSE m_original[p]],
           Ticking, UNCHANGED <<known, original, startVars, g_installed, callVars, traceVars>>,
           wanted' = wanted, switches' = switches,
           state' \in [Features -> {"off", "running", "refused"}],
           state'["trace"] = state["trace"],
           state'["census"] = state["census"] \/ \A c \in Classes : Counted(c) => c \in S
    PROVE  HooksInv'
<1> USE DEF HooksInv
<1>1. slot' \in [Classes -> Names] /\ m_original' \in [Patches -> Names]
  <2>1. \A c \in Classes : m_original[<<"census", c>>] \in Names
    BY PatchWords DEF HooksTypeOK
  <2> QED
    BY <2>1 DEF HooksTypeOK, Names
<1>2. HooksTypeOK'
  BY <1>1 DEF HooksTypeOK, startVars, callVars, traceVars
<1>3. ResidentInv' /\ CallInv' /\ PhaseInv' /\ Started' /\ Placed' = Placed
  BY TicksKeep
<1>4. SlotInv'
  <2> SUFFICES ASSUME NEW c \in Classes
               PROVE  /\ slot'[c] = IF Counted(c)' THEN "census" ELSE Beneath(c)'
                      /\ Counted(c)' => /\ c \in known' /\ state'["census"] = "running"
                                        /\ m_original'[<<"census", c>>] = Beneath(c)'
                                        /\ original'[<<"census", c>>] = Beneath(c)'
                      /\ original'[<<"trace", c>>] = IF Traced(c)' THEN "tracker" ELSE "null"
                      /\ c \notin known' => original'[<<"census", c>>] = "null"
                      /\ ~Traced(c)' => m_original'[<<"trace", c>>] = "null"
    BY DEF SlotInv
  <2>1. Beneath(c)' = Beneath(c) /\ Traced(c)' = Traced(c)
    BY <1>3 DEF Beneath, Traced
  <2>2. /\ m_original'[<<"trace", c>>] = m_original[<<"trace", c>>]
        /\ m_original'[<<"census", c>>] = IF c \in S THEN "null" ELSE m_original[<<"census", c>>]
    BY PatchWords
  <2>3. Counted(c)' <=> Counted(c) /\ c \notin S
    BY <2>2 DEF Counted
  <2>4. /\ Counted(c) => /\ c \in known /\ state["census"] = "running"
                         /\ m_original[<<"census", c>>] = Beneath(c)
                         /\ original[<<"census", c>>] = Beneath(c)
        /\ slot[c] = IF Counted(c) THEN "census" ELSE Beneath(c)
        /\ c \notin known => original[<<"census", c>>] = "null"
        /\ original[<<"trace", c>>] = IF Traced(c) THEN "tracker" ELSE "null"
        /\ ~Traced(c) => m_original[<<"trace", c>>] = "null"
    BY DEF SlotInv
  <2>5. slot'[c] = IF c \in S THEN m_original[<<"census", c>>] ELSE slot[c]
    OBVIOUS
  <2>6. /\ c \in S => Counted(c)
        /\ c \notin S => ~Counted(c) \/ state'["census"] = state["census"]
    OBVIOUS
  <2> QED
    BY <2>1, <2>2, <2>3, <2>4, <2>5, <2>6
<1>5. QuietInv'
  BY <1>3 DEF QuietInv, traceVars
<1>6. RecordInv'
  BY QuietRecords DEF traceVars
<1> QED
  BY <1>2, <1>3, <1>4, <1>5, <1>6

LEMMA CensusReportsKeeps ==
    ASSUME HooksInv, NEW c \in Classes, CensusReports(c), ~ProtectFails
    PROVE  HooksInv'
<1>1. /\ Ticking /\ c \in Installed("census")
      /\ UNCHANGED <<known, original, startVars, featureVars, callVars, traceVars>>
  BY DEF CensusReports
<1>2. PICK outcome \in [{c} -> Outcomes] : Restore("census", outcome)
  BY DEF CensusReports
<1> DEFINE S == {c}
<1>3. S \in SUBSET Classes /\ outcome \in [S -> Outcomes] /\ \A d \in S : Counted(d)
  BY <1>1, <1>2 DEF Installed, Counted
<1> HIDE DEF S
<1>4. /\ slot' = [d \in Classes |-> IF d \in S THEN m_original[<<"census", d>>] ELSE slot[d]]
      /\ m_original' = [p \in Patches |-> IF p[1] = "census" /\ p[2] \in S
                                          THEN "null" ELSE m_original[p]]
  BY <1>2, <1>3, RestoreDoes
<1>5. state' = state /\ state \in [Features -> {"off", "running", "refused"}]
      /\ UNCHANGED <<wanted, switches, g_installed>>
  BY <1>1 DEF featureVars, HooksInv, HooksTypeOK
<1> QED
  BY <1>1, <1>3, <1>4, <1>5, CensusRestores

LEMMA CensusShutdownKeeps ==
    ASSUME HooksInv, CensusShutdown, ~ProtectFails
    PROVE  HooksInv'
<1>1. /\ Ticking /\ state' = [state EXCEPT !["census"] = "off"]
      /\ UNCHANGED <<known, original, startVars, wanted, g_installed, switches, callVars, traceVars>>
  BY DEF CensusShutdown
<1>2. PICK outcome \in [Installed("census") -> Outcomes] : Restore("census", outcome)
  BY DEF CensusShutdown
<1> DEFINE S == Installed("census")
<1>3. /\ S \in SUBSET Classes /\ outcome \in [S -> Outcomes]
      /\ \A d \in Classes : d \in S <=> Counted(d)
  BY <1>2, PatchWords DEF Installed, Counted
<1> HIDE DEF S
<1>4. /\ slot' = [d \in Classes |-> IF d \in S THEN m_original[<<"census", d>>] ELSE slot[d]]
      /\ m_original' = [p \in Patches |-> IF p[1] = "census" /\ p[2] \in S
                                          THEN "null" ELSE m_original[p]]
  BY <1>2, <1>3, RestoreDoes
<1>5. /\ state' \in [Features -> {"off", "running", "refused"}]
      /\ state'["trace"] = state["trace"]
  BY <1>1 DEF HooksInv, HooksTypeOK, Features
<1> QED
  BY <1>1, <1>3, <1>4, <1>5, CensusRestores

-----------------------------------------------------------------------------
\* In a call and at the end of a frame the hooks are as they were.
LEMMA CallsLeaveHooks ==
    ASSUME HooksInv, UNCHANGED <<hookVars, startVars, featureVars>>
    PROVE  /\ ResidentInv' /\ SlotInv' /\ Started' = Started
           /\ \A c : /\ Way(c)' = Way(c) /\ Traced(c)' = Traced(c)
                    /\ Counted(c)' = Counted(c) /\ Beneath(c)' = Beneath(c)
BY DEF HooksInv, ResidentInv, SlotInv, Started, Resident, Way, Traced, Counted, Beneath, Placed,
       hookVars, startVars, featureVars

\* What a call meets first.
LEMMA SlotIs ==
    ASSUME HooksInv, Started, NEW c \in Classes
    PROVE  /\ slot[c] \in Way(c)
           /\ c \in known => slot[c] \in {"census", "trace", "tracker"}
           /\ Traced(c) => slot[c] \in {"census", "trace"}
           /\ slot[c] \in Names
BY SettledIs DEF HooksInv, SlotInv, Way, Names, Traced

LEMMA CallBeginKeeps ==
    ASSUME HooksInv, CallBegin, ~RenderingAtStartup
    PROVE  HooksInv'
<1> USE DEF HooksInv
<1>1. /\ call = NoCall /\ Started
      /\ UNCHANGED <<hookVars, startVars, featureVars, seen, traceVars>>
  BY DEF CallBegin
<1>2. PICK c \in Classes, context \in BOOLEAN : \E t \in Techniques(c) :
          /\ call' = [class |-> c, technique |-> t, at |-> slot[c], context |-> context]
          /\ called' = called \cup {<<c, t>>}
          /\ due' = IF Watches(c) /\ context THEN Append(due, <<c, t>>) ELSE due
  BY DEF CallBegin
<1>3. PICK t \in Techniques(c) :
          /\ call' = [class |-> c, technique |-> t, at |-> slot[c], context |-> context]
          /\ called' = called \cup {<<c, t>>}
          /\ due' = IF Watches(c) /\ context THEN Append(due, <<c, t>>) ELSE due
  BY <1>2
<1>4. /\ ResidentInv' /\ SlotInv' /\ Started' = Started
      /\ \A d : Way(d)' = Way(d) /\ Traced(d)' = Traced(d)
  BY <1>1, CallsLeaveHooks
<1>5. /\ slot[c] \in Way(c) /\ slot[c] \in Names
      /\ c \in known => slot[c] \in {"census", "trace", "tracker"}
      /\ Traced(c) => slot[c] \in {"census", "trace"}
  BY <1>1, SlotIs
<1>6. t \in {"0x40", "other"} /\ t \in Techniques(c) /\ <<c, t>> \in Marks
  BY DEF Techniques, Marks
<1>7. HooksTypeOK'
  <2>1. call' \in Calls /\ called' \in SUBSET Marks
    BY <1>3, <1>5, <1>6 DEF Calls, HooksTypeOK
  <2>2. due' \in Seq(Marks)
    BY <1>3, <1>6 DEF HooksTypeOK
  <2> QED
    BY <1>1, <2>1, <2>2 DEF HooksTypeOK, hookVars, startVars, featureVars, traceVars
<1>8. QuietInv'
  BY <1>1, <1>4 DEF QuietInv, featureVars, traceVars
<1>9. CallInv'
  BY <1>3, <1>4, <1>5, <1>6 DEF CallInv
<1>10. PhaseInv'
  BY <1>1, <1>3, <1>5 DEF PhaseInv, PhasesWait, hookVars
<1>11. RecordInv'
  <2> SUFFICES ASSUME g_recording PROVE RecordInv'
    BY <1>1 DEF RecordInv, traceVars
  <2>1. Recorded(Len(due)) /\ due \in Seq(Marks)
    BY <1>1 DEF RecordInv, Reached, Pending, NoCall, HooksTypeOK
  <2>2. Watches(c) <=> Traced(c)
    BY DEF Watches, SlotInv
  <2>3. /\ UNCHANGED <<records, overflow>>
        /\ Pending' <=> slot[c] \in {"census", "trace"} /\ Traced(c) /\ context
    BY <1>1, <1>3, <1>4 DEF Pending, traceVars
  <2>4. CASE Traced(c) /\ context
    <3>1. /\ due' = Append(due, <<c, t>>) /\ Pending'
          /\ Len(due') = Len(due) + 1 /\ due'[Len(due')] = <<c, t>> /\ Len(due) \in Nat
          /\ \A i \in 1 .. Len(due) : due'[i] = due[i]
      BY <1>3, <1>5, <2>1, <2>2, <2>3, <2>4
    <3>2. Reached' = Len(due)
      BY <3>1 DEF Reached
    <3>3. /\ Len(records) = IF Len(due) < kMaxRecords THEN Len(due) ELSE kMaxRecords
          /\ overflow = Len(due) - Len(records)
          /\ \A i \in 1 .. Len(records) : records[i] = due[i]
      BY <2>1 DEF Recorded
    <3>4. \A i \in 1 .. Len(records) : i \in 1 .. Len(due)
      BY <3>1, <3>3, HooksAssumption
    <3>5. \A i \in 1 .. Len(records) : records[i] = due'[i]
      BY <3>1, <3>3, <3>4
    <3>6. call'.class = c /\ call'.technique = t
      BY <1>3
    <3> QED
      BY <2>3, <3>1, <3>2, <3>3, <3>5, <3>6 DEF RecordInv, Recorded
  <2>5. CASE ~(Traced(c) /\ context)
    BY <1>3, <2>1, <2>2, <2>3, <2>5 DEF RecordInv, Recorded, Reached
  <2> QED
    BY <2>4, <2>5
<1> QED
  BY <1>4, <1>7, <1>8, <1>9, <1>10, <1>11

LEMMA EngineKeeps ==
    ASSUME HooksInv, Engine
    PROVE  HooksInv'
<1> USE DEF HooksInv
<1>1. /\ call.at = "engine" /\ call' = NoCall
      /\ UNCHANGED <<hookVars, startVars, featureVars, seen, called, due, traceVars>>
  BY DEF Engine
<1>2. /\ ResidentInv' /\ SlotInv' /\ Started' = Started
      /\ \A d : Way(d)' = Way(d) /\ Traced(d)' = Traced(d)
  BY <1>1, CallsLeaveHooks
<1>3. HooksTypeOK'
  BY <1>1 DEF HooksTypeOK, hookVars, startVars, featureVars, traceVars
<1>4. QuietInv'
  BY <1>1, <1>2 DEF QuietInv, featureVars, traceVars
<1>5. CallInv' /\ PhaseInv'
  BY <1>1 DEF CallInv, PhaseInv, PhasesWait, NoCall
<1>6. RecordInv'
  <2>1. Reached' = Reached /\ ~Pending'
    BY <1>1 DEF Reached, Pending, NoCall
  <2> QED
    BY <1>1, <2>1 DEF RecordInv, Recorded, traceVars
<1> QED
  BY <1>2, <1>3, <1>4, <1>5, <1>6

LEMMA FrameEndsKeeps ==
    ASSUME HooksInv, FrameEnds
    PROVE  HooksInv'
<1> USE DEF HooksInv
<1>1. /\ call = NoCall /\ seen' = {} /\ called' = {} /\ due' = <<>>
      /\ UNCHANGED <<hookVars, startVars, featureVars, call>>
      /\ IF state["trace"] = "running" THEN TraceFrame ELSE UNCHANGED traceVars
  BY DEF FrameEnds
<1>2. /\ ResidentInv' /\ SlotInv' /\ Started' = Started
      /\ \A d : Way(d)' = Way(d) /\ Traced(d)' = Traced(d)
  BY <1>1, CallsLeaveHooks
<1>3. /\ pressed' \in BOOLEAN /\ g_armed' \in BOOLEAN /\ g_recording' \in BOOLEAN
      /\ records' = <<>> /\ (g_recording' => state["trace"] = "running" /\ overflow' = 0)
      /\ overflow' \in Nat
  <2>1. /\ pressed \in BOOLEAN /\ g_armed \in BOOLEAN /\ g_recording \in BOOLEAN
        /\ overflow \in Nat /\ (~g_recording => records = <<>>)
        /\ (g_recording => state["trace"] = "running")
    BY DEF QuietInv, HooksTypeOK
  <2>2. CASE state["trace"] = "running"
    <3>1. TraceFrame
      BY <1>1, <2>2
    <3>2. CASE g_recording
      <4>1. /\ pressed' = FALSE /\ g_recording' = FALSE /\ g_armed' = (g_armed \/ pressed)
            /\ records' = <<>> /\ overflow' = 0
        BY <3>1, <3>2 DEF TraceFrame, Clear
      <4>2. pressed' \in BOOLEAN /\ g_armed' \in BOOLEAN /\ g_recording' \in BOOLEAN
        BY <4>1
      <4>3. overflow' \in Nat
        BY <4>1
      <4> QED
        BY <4>1, <4>2, <4>3
    <3>3. CASE ~g_recording
      <4>1. /\ pressed' = FALSE /\ g_recording' = (g_armed \/ pressed) /\ g_armed' = FALSE
            /\ IF g_recording' THEN Clear ELSE UNCHANGED <<records, overflow>>
        BY <3>1, <3>3 DEF TraceFrame
      <4>2. pressed' \in BOOLEAN /\ g_armed' \in BOOLEAN /\ g_recording' \in BOOLEAN
        BY <4>1
      <4>3. records' = <<>> /\ overflow' \in Nat /\ (g_recording' => overflow' = 0)
        <5>1. CASE g_recording'
          BY <4>1, <5>1 DEF Clear
        <5>2. CASE ~g_recording'
          BY <2>1, <3>3, <4>1, <5>2
        <5> QED
          BY <5>1, <5>2
      <4> QED
        BY <2>2, <4>2, <4>3
    <3> QED
      BY <3>2, <3>3
  <2>3. CASE state["trace"] # "running"
    BY <1>1, <2>1, <2>3 DEF traceVars
  <2> QED
    BY <2>2, <2>3
<1>4. HooksTypeOK'
  <2>1. records' \in Seq(Marks) /\ due' \in Seq(Marks)
    BY <1>1, <1>3
  <2> QED
    BY <1>1, <1>3, <2>1 DEF HooksTypeOK, hookVars, startVars, featureVars
<1>5. QuietInv'
  BY <1>1, <1>2, <1>3 DEF QuietInv, featureVars
<1>6. CallInv' /\ PhaseInv'
  BY <1>1 DEF CallInv, PhaseInv, PhasesWait, NoCall
<1>7. RecordInv'
  <2>1. Reached' = 0 /\ ~Pending'
    BY <1>1 DEF Reached, Pending, NoCall
  <2> SUFFICES ASSUME g_recording' PROVE Recorded(0)'
    BY <2>1 DEF RecordInv, Recorded
  <2>2. records' = <<>> /\ overflow' = 0 /\ Len(records') = 0
    BY <1>3
  <2>3. Len(records') = IF 0 < kMaxRecords THEN 0 ELSE kMaxRecords
    BY <2>2, HooksAssumption
  <2>4. \A i \in 1 .. Len(records') : records'[i] = due'[i]
    BY <2>2
  <2>5. Len(records') = 0 /\ overflow' = 0
    BY <2>2
  <2>6. overflow' = 0 - Len(records')
    BY ONLY <2>5
  <2> QED
    BY <2>3, <2>4, <2>6 DEF Recorded
<1> QED
  BY <1>2, <1>4, <1>5, <1>6, <1>7

\* Where a thunk goes on to.
LEMMA NextIs ==
    ASSUME HooksInv, Started, NEW c \in Classes, NEW f, f \in Way(c), f # "engine"
    PROVE  /\ f \in {"census", "trace", "tracker", "kBeforeComposite", "kComposite",
                     "kAfterOpaque", "kSkyMarker"}
           /\ c \in known
           /\ f = "census" => original[<<f, c>>] = IF Traced(c) THEN "trace" ELSE "tracker"
           /\ f = "trace" => Traced(c) /\ original[<<f, c>>] = "tracker"
           /\ f = "tracker" =>
                 original[<<f, c>>] = IF c = "composite" THEN "kComposite"
                                      ELSE IF c = "effect" THEN "kAfterOpaque" ELSE "kSkyMarker"
           /\ f = "kComposite" => c = "composite" /\ original[<<f, c>>] = "kBeforeComposite"
           /\ f = "kBeforeComposite" => c = "composite" /\ original[<<f, c>>] = "engine"
           /\ f = "kAfterOpaque" => c = "effect" /\ original[<<f, c>>] = "engine"
           /\ f = "kSkyMarker" => c = "sky" /\ original[<<f, c>>] = "engine"
<1>1. Counted(c) => c \in known
  BY DEF HooksInv, SlotInv
<1>2. c \in known
  BY <1>1 DEF Way, Traced
<1>3. f \in {"tracker"} \cup Own(c) \/ (f = "trace" /\ Traced(c)) \/ (f = "census" /\ Counted(c))
  BY DEF Way
<1>4. /\ Counted(c) => original[<<"census", c>>] = IF Traced(c) THEN "trace" ELSE "tracker"
      /\ Traced(c) => original[<<"trace", c>>] = "tracker"
  BY <1>2, SettledIs DEF HooksInv, SlotInv
<1>5. c = "composite" \/ c = "effect" \/ c = "sky"
  BY DEF Classes
<1> QED
  BY <1>2, <1>3, <1>4, <1>5, ChainIs DEF Own

\* The recorder takes the next call due, or counts it.
LEMMA PushRecords ==
    ASSUME NEW record \in Marks, records \in Seq(Marks), due \in Seq(Marks),
           Len(due) > 0, due[Len(due)] = record, Recorded(Len(due) - 1),
           Push(record), due' = due
    PROVE  Recorded(Len(due))'
<1> DEFINE n == Len(due) - 1
<1>1. n \in Nat /\ Len(records) \in Nat /\ kMaxRecords \in Nat
  BY HooksAssumption
<1>2. /\ Len(records) = IF n < kMaxRecords THEN n ELSE kMaxRecords
      /\ \A i \in 1 .. Len(records) : records[i] = due[i]
      /\ overflow = n - Len(records)
  BY DEF Recorded
<1>3. CASE Len(records) < kMaxRecords
  <2>1. n < kMaxRecords /\ Len(records) = n
    BY <1>1, <1>2, <1>3
  <2>2. records' = Append(records, record) /\ overflow' = overflow
    BY <1>3 DEF Push
  <2>3. /\ Len(records') = n + 1 /\ records'[n + 1] = record
        /\ \A i \in 1 .. n : records'[i] = records[i]
    BY <2>1, <2>2
  <2>4. \A i \in 1 .. n + 1 : records'[i] = due[i]
    BY <1>1, <1>2, <2>1, <2>3
  <2> QED
    BY <1>1, <1>2, <2>1, <2>2, <2>3, <2>4 DEF Recorded
<1>4. CASE ~(Len(records) < kMaxRecords)
  BY <1>1, <1>2, <1>4 DEF Push, Recorded
<1> QED
  BY <1>3, <1>4

LEMMA ThunkKeeps ==
    ASSUME HooksInv, Thunk
    PROVE  HooksInv'
<1> USE DEF HooksInv
<1> DEFINE c == call.class
           t == call.technique
           f == call.at
           onto == original[<<f, c>>]
<1>1. /\ f \notin {"engine", "none", "null"} /\ Captured
      /\ seen' = seen \cup {phase \in {f} \cap Phases : Dispatches(phase)}
      /\ call' = [call EXCEPT !.at = onto]
      /\ UNCHANGED <<hookVars, startVars, featureVars, called, due, pressed, g_armed, g_recording>>
  BY DEF Thunk
<1>2. /\ call # NoCall /\ call \in Calls /\ c \in Classes /\ Started
      /\ f \in Way(c) /\ t \in Techniques(c) /\ <<c, t>> \in called
  BY <1>1 DEF NoCall, CallInv, HooksTypeOK, Calls, QuietInv
<1>3. /\ ResidentInv' /\ SlotInv' /\ Started' = Started
      /\ \A d : Way(d)' = Way(d) /\ Traced(d)' = Traced(d)
  BY <1>1, CallsLeaveHooks
<1>4. /\ f \in {"census", "trace", "tracker", "kBeforeComposite", "kComposite",
                "kAfterOpaque", "kSkyMarker"}
      /\ c \in known
      /\ f = "census" => onto = IF Traced(c) THEN "trace" ELSE "tracker"
      /\ f = "trace" => Traced(c) /\ onto = "tracker"
      /\ f = "tracker" => onto = IF c = "composite" THEN "kComposite"
                                 ELSE IF c = "effect" THEN "kAfterOpaque" ELSE "kSkyMarker"
      /\ f = "kComposite" => c = "composite" /\ onto = "kBeforeComposite"
      /\ f = "kBeforeComposite" => c = "composite" /\ onto = "engine"
      /\ f = "kAfterOpaque" => c = "effect" /\ onto = "engine"
      /\ f = "kSkyMarker" => c = "sky" /\ onto = "engine"
  BY <1>1, <1>2, NextIs
<1>5. call' = [class |-> c, technique |-> t, at |-> onto, context |-> call.context]
  BY <1>1, <1>2 DEF Calls
<1>6. onto \in Way(c) /\ onto \in Names
  BY <1>2, <1>4 DEF Way, Own, Names, Classes
<1>7. \A phase : phase \in seen' <=> phase \in seen \/ (phase = f /\ f \in Phases /\ Dispatches(f))
  BY <1>1
<1> HIDE DEF onto
<1>8. HooksTypeOK'
  <2>1. call' \in Calls
    BY <1>2, <1>5, <1>6 DEF Calls
  <2>2. seen' \in SUBSET Phases
    BY <1>1 DEF HooksTypeOK
  <2>3. records' \in Seq(Marks) /\ overflow' \in Nat
    <3>1. <<c, t>> \in Marks
      BY <1>2 DEF Marks, Calls
    <3>2. records \in Seq(Marks) /\ overflow \in Nat
      BY DEF HooksTypeOK
    <3>3. Append(records, <<c, t>>) \in Seq(Marks)
      BY <3>1, <3>2
    <3>4. CASE UNCHANGED <<records, overflow>>
      BY <3>2, <3>4
    <3>5. CASE Push(<<c, t>>)
      <4>1. CASE records' = Append(records, <<c, t>>) /\ overflow' = overflow
        BY <3>2, <3>3, <4>1
      <4>2. CASE records' = records /\ overflow' = overflow + 1
        BY <3>2, <4>2
      <4> QED
        BY <3>5, <4>1, <4>2 DEF Push
    <3> QED
      BY <1>1, <3>4, <3>5 DEF Captured
  <2> QED
    BY <1>1, <2>1, <2>2, <2>3 DEF HooksTypeOK, hookVars, startVars, featureVars
<1>9. QuietInv'
  BY <1>1, <1>2, <1>3 DEF QuietInv, featureVars, Captured, Push
<1>10. CallInv'
  BY <1>1, <1>2, <1>3, <1>5, <1>6 DEF CallInv
<1>11. PhaseInv'
  <2>1. "kSkyMarker" \in seen' => <<"sky", "other">> \in called
    BY <1>2, <1>4, <1>7 DEF PhaseInv, Techniques
  <2>2. PhasesWait'
    BY <1>1, <1>2, <1>4, <1>7 DEF PhaseInv, PhasesWait, Techniques, Dispatches
  <2>3. Phases = {"kBeforeComposite", "kAfterOpaque", "kComposite", "kSkyMarker"}
    BY DEF Phases, Anchors
  <2>4. c = "composite" => /\ onto = "engine" => f = "kBeforeComposite"
                           /\ onto = "kBeforeComposite" => f = "kComposite"
    BY <1>4
  <2>5. c = "effect" /\ onto = "engine" => f = "kAfterOpaque"
    BY <1>4
  <2>6. c = "composite" => /\ onto = "engine" => "kBeforeComposite" \in seen'
                           /\ onto \in {"engine", "kBeforeComposite"} /\ t = "0x40"
                                 => "kComposite" \in seen'
    BY <1>4, <1>7, <2>3, <2>4 DEF PhaseInv, Dispatches
  <2>7. c = "effect" /\ onto = "engine" /\ "kSkyMarker" \in seen' => "kAfterOpaque" \in seen'
    BY <1>4, <1>7, <2>3, <2>5 DEF Dispatches
  <2> QED
    BY <1>1, <1>5, <2>1, <2>2, <2>6, <2>7 DEF PhaseInv, hookVars
<1>12. RecordInv'
  <2> SUFFICES ASSUME g_recording PROVE RecordInv'
    BY <1>1 DEF RecordInv
  <2>1. /\ Pending <=> f \in {"census", "trace"} /\ Traced(c) /\ call.context
        /\ Pending' <=> onto \in {"census", "trace"} /\ Traced(c) /\ call.context
    BY <1>3, <1>5 DEF Pending
  <2>2. due' = due /\ due \in Seq(Marks) /\ Len(due) \in Nat
    BY <1>1 DEF HooksTypeOK
  <2>3. CASE f = "trace" /\ call.context
    <3>1. Pending /\ ~Pending'
      BY <1>4, <2>1, <2>3
    <3>2. /\ Len(due) > 0 /\ due[Len(due)] = <<c, t>> /\ Recorded(Len(due) - 1)
          /\ Reached' = Len(due)
      BY <2>2, <3>1 DEF RecordInv, Reached
    <3>3. Push(<<c, t>>)
      BY <1>1, <2>3 DEF Captured
    <3>4. <<c, t>> \in Marks /\ records \in Seq(Marks) /\ overflow \in Nat
      BY <1>2 DEF Marks, Calls, HooksTypeOK
    <3>5. Recorded(Len(due))'
      BY <2>2, <3>2, <3>3, <3>4, PushRecords
    <3> QED
      BY <2>2, <3>1, <3>2, <3>5 DEF RecordInv, Recorded
  <2>4. CASE ~(f = "trace" /\ call.context)
    <3>1. UNCHANGED <<records, overflow>>
      BY <1>1, <2>4 DEF Captured
    <3>2. Pending' <=> Pending
      BY <1>4, <2>1, <2>4
    <3>3. Reached' = Reached
      BY <2>2, <3>2 DEF Reached
    <3> QED
      BY <1>5, <2>2, <3>1, <3>2, <3>3 DEF RecordInv, Recorded
  <2> QED
    BY <2>3, <2>4
<1> QED
  BY <1>3, <1>8, <1>9, <1>10, <1>11, <1>12

-----------------------------------------------------------------------------
LEMMA HooksStart ==
    ASSUME HooksInit PROVE HooksInv
<1> USE DEF HooksInit
<1>1. Len(Residents) = 7 /\ ~Started /\ Placed = 0
  BY ResidentsAre DEF Started, Placed
<1>2. HooksTypeOK
  <2>1. slot \in [Classes -> Names] /\ original \in [Patches -> Names]
        /\ m_original \in [Patches -> Names]
    BY DEF Names
  <2>2. state \in [Features -> {"off", "running", "refused"}]
    OBVIOUS
  <2>3. known \in SUBSET Classes /\ wanted \in SUBSET Features /\ seen \in SUBSET Phases
        /\ called \in SUBSET Marks /\ due \in Seq(Marks)
        /\ records \in Seq(Marks) /\ overflow \in Nat
    OBVIOUS
  <2>4. startup \in 1 .. 8 /\ switches \in Nat /\ call \in {NoCall} \cup Calls
    OBVIOUS
  <2>5. /\ noting \in BOOLEAN /\ g_installed \in BOOLEAN
        /\ pressed \in BOOLEAN /\ g_armed \in BOOLEAN /\ g_recording \in BOOLEAN
    OBVIOUS
  <2> HIDE DEF HooksInit
  <2> QED
    BY <2>1, <2>2, <2>3, <2>4, <2>5 DEF HooksTypeOK
<1>3. ResidentInv
  BY PatchWords DEF ResidentInv
<1>4. SlotInv
  <2>1. \A c \in Classes : Top(c, 0) = "engine"
    BY DEF Top, Classes
  <2> QED
    BY <1>1, <2>1, PatchWords DEF SlotInv, Counted, Traced, Beneath
<1>5. QuietInv
  BY <1>1 DEF QuietInv, Features
<1>6. CallInv /\ PhaseInv /\ RecordInv
  BY DEF CallInv, PhaseInv, PhasesWait, NoCall, RecordInv
<1> QED
  BY <1>2, <1>3, <1>4, <1>5, <1>6 DEF HooksInv

LEMMA HooksStep ==
    ASSUME HooksInv, [HooksNext]_techniqueVars, ~RenderingAtStartup, ~ProtectFails
    PROVE  HooksInv'
<1>1. CASE UNCHANGED techniqueVars
  <2> USE <1>1 DEF techniqueVars, hookVars, startVars, featureVars, callVars, traceVars, HooksInv
  <2>1. HooksTypeOK' /\ ResidentInv'
    BY DEF HooksTypeOK, ResidentInv, Started, Resident
  <2>2. SlotInv' /\ QuietInv'
    BY DEF SlotInv, QuietInv, Beneath, Placed, Traced, Counted, Started
  <2>3. CallInv' /\ PhaseInv'
    BY DEF CallInv, PhaseInv, PhasesWait, Way, Traced, Counted
  <2>4. RecordInv'
    BY DEF RecordInv, Recorded, Reached, Pending, Traced
  <2> QED
    BY <2>1, <2>2, <2>3, <2>4
<1>2. CASE HooksNext
  BY <1>2, LeftAloneKeeps, PatchResidentKeeps, NoteOriginalKeeps, SwitchKeeps, TraceSetupKeeps,
     TraceShutdownKeeps, TraceKeyKeeps, CensusSetupKeeps, CensusShutdownKeeps, CensusReportsKeeps,
     CallBeginKeeps, ThunkKeeps, EngineKeeps, FrameEndsKeeps DEF HooksNext
<1> QED
  BY <1>1, <1>2

-----------------------------------------------------------------------------
(* The chains of patches *)

LEMMA SevenWhos == Cardinality(Whos) = 7
<1> DEFINE S1 == {"tracker"}
           S2 == S1 \cup {"kBeforeComposite"}
           S3 == S2 \cup {"kAfterOpaque"}
           S4 == S3 \cup {"kComposite"}
           S5 == S4 \cup {"kSkyMarker"}
           S6 == S5 \cup {"census"}
           S7 == S6 \cup {"trace"}
<1>1. Whos = S7
  <2>1. \A p \in Pairs : p[1] \in S7
    BY DEF Pairs
  <2>2. \A p \in {"census", "trace"} \X Classes : p[1] \in S7
    OBVIOUS
  <2>3. \A w \in S7 : \E p \in Pairs \cup ({"census", "trace"} \X Classes) : p[1] = w
    <3>1. /\ <<"tracker", "sky">> \in Pairs /\ <<"kBeforeComposite", "composite">> \in Pairs
          /\ <<"kAfterOpaque", "effect">> \in Pairs /\ <<"kComposite", "composite">> \in Pairs
          /\ <<"kSkyMarker", "sky">> \in Pairs
      BY DEF Pairs
    <3>2. /\ <<"census", "sky">> \in {"census", "trace"} \X Classes
          /\ <<"trace", "sky">> \in {"census", "trace"} \X Classes
      BY DEF Classes
    <3> QED
      BY <3>1, <3>2
  <2> QED
    BY <2>1, <2>2, <2>3, PatchesAre DEF Whos
<1>2. IsFiniteSet(S1) /\ Cardinality(S1) = 1
  BY FS_Singleton
<1>3. IsFiniteSet(S2) /\ Cardinality(S2) = 2
  BY <1>2, FS_AddElement, "kBeforeComposite" \notin S1
<1>4. IsFiniteSet(S3) /\ Cardinality(S3) = 3
  BY <1>3, FS_AddElement, "kAfterOpaque" \notin S2
<1>5. IsFiniteSet(S4) /\ Cardinality(S4) = 4
  BY <1>4, FS_AddElement, "kComposite" \notin S3
<1>6. IsFiniteSet(S5) /\ Cardinality(S5) = 5
  BY <1>5, FS_AddElement, "kSkyMarker" \notin S4
<1>7. IsFiniteSet(S6) /\ Cardinality(S6) = 6
  BY <1>6, FS_AddElement, "census" \notin S5
<1>8. IsFiniteSet(S7) /\ Cardinality(S7) = 7
  BY <1>7, FS_AddElement, "trace" \notin S6
<1> QED
  BY <1>1, <1>8

\* A step along the patches of a class.
Onward(c, above) == above \cup {original[<<g, c>>] : g \in above \ {"engine", "null"}}

Reaching(c, f, reach) == /\ reach[0] = {f}
                         /\ \A n \in 1 .. 7 : reach[n] = Onward(c, reach[n - 1])
                         /\ Chain(c, f) = reach[7]

LEMMA ChainReaches ==
    ASSUME NEW c, NEW f
    PROVE  \E reach : Reaching(c, f, reach)
<1> DEFINE R1 == Onward(c, {f})
           R2 == Onward(c, R1)
           R3 == Onward(c, R2)
           R4 == Onward(c, R3)
           R5 == Onward(c, R4)
           R6 == Onward(c, R5)
           R7 == Onward(c, R6)
           h == [n \in 0 .. 7 |-> IF n = 0 THEN {f} ELSE IF n = 1 THEN R1 ELSE IF n = 2 THEN R2
                                  ELSE IF n = 3 THEN R3 ELSE IF n = 4 THEN R4
                                  ELSE IF n = 5 THEN R5 ELSE IF n = 6 THEN R6 ELSE R7]
           Fits(r) == r = [n \in 0 .. Cardinality(Whos) |->
                              IF n = 0 THEN {f}
                              ELSE LET above == r[n - 1]
                                   IN above \cup {original[<<g, c>>] : g \in above \ {"engine", "null"}}]
           reach == CHOOSE r : Fits(r)
<1>1. h[0] = {f} /\ \A n \in 1 .. 7 : h[n] = Onward(c, h[n - 1])
  <2> HIDE DEF R1, R2, R3, R4, R5, R6, R7
  <2>1. /\ h[0] = {f} /\ h[1] = R1 /\ h[2] = R2 /\ h[3] = R3 /\ h[4] = R4 /\ h[5] = R5
        /\ h[6] = R6 /\ h[7] = R7
    OBVIOUS
  <2> HIDE DEF h
  <2>2. /\ R1 = Onward(c, {f}) /\ R2 = Onward(c, R1) /\ R3 = Onward(c, R2) /\ R4 = Onward(c, R3)
        /\ R5 = Onward(c, R4) /\ R6 = Onward(c, R5) /\ R7 = Onward(c, R6)
    BY DEF R1, R2, R3, R4, R5, R6, R7
  <2> SUFFICES ASSUME NEW n \in 1 .. 7 PROVE h[n] = Onward(c, h[n - 1])
    BY <2>1
  <2>3. n = 1 \/ n = 2 \/ n = 3 \/ n = 4 \/ n = 5 \/ n = 6 \/ n = 7
    OBVIOUS
  <2> QED
    BY <2>1, <2>2, <2>3
<1>2. h = [n \in 0 .. 7 |-> IF n = 0 THEN {f} ELSE Onward(c, h[n - 1])]
  <2> HIDE DEF R1, R2, R3, R4, R5, R6, R7
  <2>1. DOMAIN h = 0 .. 7 /\ h = [n \in 0 .. 7 |-> h[n]]
    OBVIOUS
  <2> HIDE DEF h
  <2> QED
    BY <1>1, <2>1
<1>3. Fits(h)
  <2> HIDE DEF h
  <2> QED
    BY <1>2, SevenWhos DEF Onward
<1>4. Fits(reach)
  <2> HIDE DEF h, Fits
  <2> QED
    BY <1>3
<1>5. reach = [n \in 0 .. 7 |-> IF n = 0 THEN {f} ELSE Onward(c, reach[n - 1])]
  <2> HIDE DEF reach
  <2> QED
    BY <1>4, SevenWhos DEF Onward
<1>6. Chain(c, f) = reach[Cardinality(Whos)]
  BY DEF Chain
<1> HIDE DEF reach
<1>7. Reaching(c, f, reach)
  BY <1>5, <1>6, SevenWhos DEF Reaching
<1> QED
  BY <1>7

\* What the first five of a chain are.
LEMMA ChainHas ==
    ASSUME NEW c, NEW f
    PROVE  LET On(g) == original[<<g, c>>]
               Ends(g) == g \in {"engine", "null"}
           IN /\ f \in Chain(c, f)
              /\ ~Ends(f) => On(f) \in Chain(c, f)
              /\ ~Ends(f) /\ ~Ends(On(f)) => On(On(f)) \in Chain(c, f)
              /\ ~Ends(f) /\ ~Ends(On(f)) /\ ~Ends(On(On(f)))
                    => On(On(On(f))) \in Chain(c, f)
              /\ ~Ends(f) /\ ~Ends(On(f)) /\ ~Ends(On(On(f))) /\ ~Ends(On(On(On(f))))
                    => On(On(On(On(f)))) \in Chain(c, f)
<1>1. PICK reach : Reaching(c, f, reach)
  BY ChainReaches
<1>2. /\ reach[0] = {f}
      /\ \A n \in 1 .. 7 : reach[n] = Onward(c, reach[n - 1])
      /\ Chain(c, f) = reach[7]
  BY <1>1 DEF Reaching
<1> DEFINE On(g) == original[<<g, c>>]
           Ends(g) == g \in {"engine", "null"}
<1>3. ASSUME NEW A, NEW B, B = Onward(c, A)
      PROVE  A \subseteq B /\ \A g \in A : ~Ends(g) => On(g) \in B
  BY <1>3 DEF Onward
<1>4. /\ reach[1] = Onward(c, reach[0]) /\ reach[2] = Onward(c, reach[1])
      /\ reach[3] = Onward(c, reach[2]) /\ reach[4] = Onward(c, reach[3])
      /\ reach[5] = Onward(c, reach[4]) /\ reach[6] = Onward(c, reach[5])
      /\ reach[7] = Onward(c, reach[6])
  <2>1. 1 \in 1 .. 7 /\ 2 \in 1 .. 7 /\ 3 \in 1 .. 7 /\ 4 \in 1 .. 7 /\ 5 \in 1 .. 7 /\ 6 \in 1 .. 7
        /\ 7 \in 1 .. 7 /\ 1 - 1 = 0 /\ 2 - 1 = 1 /\ 3 - 1 = 2 /\ 4 - 1 = 3 /\ 5 - 1 = 4
        /\ 6 - 1 = 5 /\ 7 - 1 = 6
    OBVIOUS
  <2> QED
    BY <1>2, <2>1
<1> HIDE DEF On, Ends
<1>5. f \in reach[0]
  BY <1>2
<1>6. reach[0] \subseteq reach[1] /\ \A g \in reach[0] : ~Ends(g) => On(g) \in reach[1]
  BY <1>3, <1>4
<1>7. reach[1] \subseteq reach[2] /\ \A g \in reach[1] : ~Ends(g) => On(g) \in reach[2]
  BY <1>3, <1>4
<1>8. reach[2] \subseteq reach[3] /\ \A g \in reach[2] : ~Ends(g) => On(g) \in reach[3]
  BY <1>3, <1>4
<1>9. reach[3] \subseteq reach[4] /\ \A g \in reach[3] : ~Ends(g) => On(g) \in reach[4]
  BY <1>3, <1>4
<1>10. reach[4] \subseteq reach[5] /\ reach[5] \subseteq reach[6] /\ reach[6] \subseteq reach[7]
  BY <1>3, <1>4
<1>11. /\ f \in Chain(c, f)
       /\ ~Ends(f) => On(f) \in Chain(c, f)
       /\ ~Ends(f) /\ ~Ends(On(f)) => On(On(f)) \in Chain(c, f)
       /\ ~Ends(f) /\ ~Ends(On(f)) /\ ~Ends(On(On(f))) => On(On(On(f))) \in Chain(c, f)
       /\ ~Ends(f) /\ ~Ends(On(f)) /\ ~Ends(On(On(f))) /\ ~Ends(On(On(On(f))))
             => On(On(On(On(f)))) \in Chain(c, f)
  BY <1>2, <1>5, <1>6, <1>7, <1>8, <1>9, <1>10
<1> QED
  BY <1>11 DEF On, Ends

\* A chain does not leave a set that every patch in it stays in.
LEMMA ChainStays ==
    ASSUME NEW c, NEW f, NEW S
    PROVE  f \in S /\ (\A g \in S \ {"engine", "null"} : original[<<g, c>>] \in S)
              => Chain(c, f) \subseteq S
<1>1. PICK reach : Reaching(c, f, reach)
  BY ChainReaches
<1>2. /\ reach[0] = {f}
      /\ \A n \in 1 .. 7 : reach[n] = Onward(c, reach[n - 1])
      /\ Chain(c, f) = reach[7]
  BY <1>1 DEF Reaching
<1> SUFFICES ASSUME f \in S, \A g \in S \ {"engine", "null"} : original[<<g, c>>] \in S
             PROVE  Chain(c, f) \subseteq S
  OBVIOUS
<1>3. ASSUME NEW A \in SUBSET S PROVE Onward(c, A) \subseteq S
  BY <1>3 DEF Onward
<1>4. \A n \in 1 .. 7 : reach[n - 1] \subseteq S => reach[n] \subseteq S
  BY <1>2, <1>3
<1>5. 1 \in 1 .. 7 /\ 2 \in 1 .. 7 /\ 3 \in 1 .. 7 /\ 4 \in 1 .. 7 /\ 5 \in 1 .. 7 /\ 6 \in 1 .. 7
      /\ 7 \in 1 .. 7 /\ 1 - 1 = 0 /\ 2 - 1 = 1 /\ 3 - 1 = 2 /\ 4 - 1 = 3 /\ 5 - 1 = 4
      /\ 6 - 1 = 5 /\ 7 - 1 = 6
  OBVIOUS
<1> QED
  BY <1>2, <1>4, <1>5

\* The residents of a class are at most three deep.
LEMMA ResidentsReach ==
    ASSUME HooksInv, ~noting, NEW i \in 1 .. 7, i < startup, Residents[i][2] \in known
    PROVE  LET c == Residents[i][2]
               T == Top(c, startup - 1)
               On(g) == original[<<g, c>>]
               Ends(g) == g \in {"engine", "null"}
           IN \/ Residents[i][1] = T
              \/ ~Ends(T) /\ Residents[i][1] = On(T)
              \/ ~Ends(T) /\ ~Ends(On(T)) /\ Residents[i][1] = On(On(T))
<1>1. startup \in 1 .. 8
  BY DEF HooksInv, HooksTypeOK
<1>2. ASSUME NEW j \in 1 .. 7, j < startup, Residents[j][2] \in known
      PROVE  original[Residents[j]] = Finds[j]
  BY <1>2 DEF HooksInv, ResidentInv
<1>3. /\ Finds[3] = "kBeforeComposite" /\ Finds[5] = "kComposite" /\ Finds[6] = "kAfterOpaque"
      /\ Finds[7] = "kSkyMarker"
  BY DEF Finds
<1>4. /\ "composite" \in known /\ 3 < startup
            => original[<<"kComposite", "composite">>] = "kBeforeComposite"
      /\ "composite" \in known /\ 5 < startup
            => original[<<"tracker", "composite">>] = "kComposite"
      /\ "effect" \in known /\ 6 < startup => original[<<"tracker", "effect">>] = "kAfterOpaque"
      /\ "sky" \in known /\ 7 < startup => original[<<"tracker", "sky">>] = "kSkyMarker"
  BY <1>2, <1>3, ResidentsAre
<1>5. i = 1 \/ i = 2 \/ i = 3 \/ i = 4 \/ i = 5 \/ i = 6 \/ i = 7
  OBVIOUS
<1>6. CASE Residents[i][2] = "composite"
  <2>1. \/ i = 1 /\ Residents[i][1] = "kBeforeComposite"
        \/ i = 3 /\ Residents[i][1] = "kComposite"
        \/ i = 5 /\ Residents[i][1] = "tracker"
    BY <1>5, <1>6, ResidentsAre
  <2>2. Top("composite", startup - 1) =
           IF startup - 1 < 3 THEN "kBeforeComposite"
           ELSE IF startup - 1 < 5 THEN "kComposite" ELSE "tracker"
    BY <1>1, <2>1 DEF Top
  <2> QED
    BY <1>1, <1>4, <1>6, <2>1, <2>2
<1>7. CASE Residents[i][2] = "effect"
  <2>1. \/ i = 2 /\ Residents[i][1] = "kAfterOpaque"
        \/ i = 6 /\ Residents[i][1] = "tracker"
    BY <1>5, <1>7, ResidentsAre
  <2>2. Top("effect", startup - 1) = IF startup - 1 < 6 THEN "kAfterOpaque" ELSE "tracker"
    BY <1>1, <2>1 DEF Top
  <2> QED
    BY <1>1, <1>4, <1>7, <2>1, <2>2
<1>8. CASE Residents[i][2] = "sky"
  <2>1. \/ i = 4 /\ Residents[i][1] = "kSkyMarker"
        \/ i = 7 /\ Residents[i][1] = "tracker"
    BY <1>5, <1>8, ResidentsAre
  <2>2. Top("sky", startup - 1) = IF startup - 1 < 7 THEN "kSkyMarker" ELSE "tracker"
    BY <1>1, <2>1 DEF Top
  <2> QED
    BY <1>1, <1>4, <1>8, <2>1, <2>2
<1> QED
  BY <1>5, <1>6, <1>7, <1>8, ResidentsAre

LEMMA NoneIsLost == ASSUME HooksInv PROVE StayersStay
<1> SUFFICES ASSUME ~noting, NEW p \in Patches, p[1] # "census", original[p] # "null"
             PROVE  p[1] \in Chain(p[2], slot[p[2]])
  BY DEF StayersStay
<1> DEFINE c == p[2]
           On(g) == original[<<g, c>>]
           Ends(g) == g \in {"engine", "null"}
<1>1. c \in Classes /\ p = <<p[1], c>>
  BY PatchWords
<1>2. /\ slot[c] = IF Counted(c) THEN "census" ELSE Beneath(c)
      /\ Counted(c) => On("census") = Beneath(c)
      /\ Traced(c) => Started /\ On("trace") = "tracker"
      /\ original[<<"trace", c>>] # "null" => Traced(c)
  BY <1>1, StartedIs DEF HooksInv, SlotInv, QuietInv, Traced
<1>3. /\ slot[c] \in Chain(c, slot[c])
      /\ ~Ends(slot[c]) => On(slot[c]) \in Chain(c, slot[c])
      /\ ~Ends(slot[c]) /\ ~Ends(On(slot[c])) => On(On(slot[c])) \in Chain(c, slot[c])
      /\ ~Ends(slot[c]) /\ ~Ends(On(slot[c])) /\ ~Ends(On(On(slot[c])))
            => On(On(On(slot[c]))) \in Chain(c, slot[c])
      /\ ~Ends(slot[c]) /\ ~Ends(On(slot[c])) /\ ~Ends(On(On(slot[c])))
         /\ ~Ends(On(On(On(slot[c]))))
            => On(On(On(On(slot[c])))) \in Chain(c, slot[c])
  BY ChainHas
<1>4. CASE p[1] = "trace"
  BY <1>1, <1>2, <1>3, <1>4 DEF Beneath
<1>5. CASE p[1] # "trace"
  <2>1. PICK i \in 1 .. 7 : p = Residents[i]
    <3>1. p \in {Residents[i] : i \in DOMAIN Residents} \/ p \in {"census", "trace"} \X Classes
      BY DEF Patches
    <3>2. p \notin {"census", "trace"} \X Classes
      BY <1>5
    <3> QED
      BY <3>1, <3>2, ResidentsAre
  <2>2. i < startup /\ c \in known
    BY <2>1 DEF HooksInv, ResidentInv
  <2> DEFINE T == Top(c, startup - 1)
  <2>3. \/ p[1] = T
        \/ ~Ends(T) /\ p[1] = On(T)
        \/ ~Ends(T) /\ ~Ends(On(T)) /\ p[1] = On(On(T))
    BY <2>1, <2>2, ResidentsReach
  <2>4. Beneath(c) = IF Traced(c) THEN "trace" ELSE T
    BY <2>2 DEF Beneath, Placed
  <2>5. Started => T = "tracker"
    BY <1>1, StartedIs DEF Top, Classes
  <2> HIDE DEF T, On, Ends
  <2>6. ~Ends("census") /\ ~Ends("trace")
    BY DEF Ends
  <2> QED
    BY <1>2, <1>3, <2>3, <2>4, <2>5, <2>6
<1> QED
  BY <1>4, <1>5

LEMMA NoneIsLeft == ASSUME HooksInv PROVE CensusLeaves
<1> SUFFICES ASSUME Started, state["census"] # "running", NEW c \in Classes
             PROVE  "census" \notin Chain(c, slot[c])
  BY DEF CensusLeaves
<1>1. ~Counted(c)
  BY DEF HooksInv, SlotInv
<1>2. "census" \notin Way(c)
  BY <1>1 DEF Way, Own
<1>3. slot[c] \in Way(c)
  BY SlotIs
<1>4. ASSUME NEW g \in Way(c) \ {"engine", "null"} PROVE original[<<g, c>>] \in Way(c)
  <2>1. g # "census"
    BY <1>2
  <2> QED
    BY <2>1, NextIs DEF Way, Own, Classes
<1> QED
  BY <1>2, <1>3, <1>4, ChainStays

-----------------------------------------------------------------------------
\* A phase that has an original is one whose class was patched.
LEMMA PatchedIsKnown ==
    ASSUME HooksInv
    PROVE  /\ Is("kBeforeComposite") \/ Is("kComposite") => "composite" \in known
           /\ Is("kAfterOpaque") => "effect" \in known
<1> SUFFICES ASSUME NEW p \in Patches, original[p] # "null",
                    p[1] \in {"kBeforeComposite", "kComposite", "kAfterOpaque"}
             PROVE  p[2] \in known /\ p[2] = IF p[1] = "kAfterOpaque" THEN "effect" ELSE "composite"
  BY DEF Is
<1>1. PICK i \in 1 .. 7 : p = Residents[i]
  <2>1. p \in {Residents[i] : i \in DOMAIN Residents} \/ p \in {"census", "trace"} \X Classes
    BY DEF Patches
  <2> QED
    BY <2>1, ResidentsAre
<1>2. p[2] \in known
  BY <1>1 DEF HooksInv, ResidentInv
<1>3. i = 1 \/ i = 2 \/ i = 3 \/ i = 4 \/ i = 5 \/ i = 6 \/ i = 7
  OBVIOUS
<1> QED
  BY <1>1, <1>2, <1>3, ResidentsAre

\* The inductive invariant: who is in which slot and what each patch found there,
\* where a call can be, which phases have fired and what the trace holds fit each other.
THEOREM HooksInductive ==
    ASSUME ~RenderingAtStartup, ~ProtectFails
    PROVE  HooksSpec => []HooksInv
BY HooksStart, HooksStep, PTL DEF HooksSpec

\* However the features are switched, each of the patches that stay is in the chain of
\* its class, a census that is off is in none, and no call goes where there is nothing.
THEOREM PatchesStayStanding ==
    ASSUME ~RenderingAtStartup, ~ProtectFails
    PROVE  HooksSpec => []PatchesStand
<1>1. HooksInv => PatchesStand
  <2> SUFFICES ASSUME HooksInv PROVE PatchesStand
    OBVIOUS
  <2>1. CallsReachSomething
    BY DEF HooksInv, CallInv, Way, Own, NoCall, CallsReachSomething
  <2> QED
    BY <2>1, NoneIsLost, NoneIsLeft DEF PatchesStand
<1> QED
  BY <1>1, HooksInductive, PTL

\* A phase fires before the engine gets the call it waits for, and not a call too early,
\* with whatever is patched above and below FramePhase's own thunks.
THEOREM PhasesFireOnTime ==
    ASSUME ~RenderingAtStartup, ~ProtectFails
    PROVE  HooksSpec => []PhasesOnTime
<1>1. HooksInv => PhasesOnTime
  <2> SUFFICES ASSUME HooksInv PROVE PhasesOnTime
    OBVIOUS
  <2>1. call.technique = "0x40" => call.class = "composite"
    BY DEF HooksInv, CallInv, Techniques, NoCall
  <2>2. PhasesPrecedeDraw
    BY <2>1, PatchedIsKnown DEF HooksInv, PhaseInv, PhasesPrecedeDraw
  <2> QED
    BY <2>2 DEF HooksInv, PhaseInv, PhasesOnTime
<1> QED
  BY <1>1, HooksInductive, PTL

\* A recording holds the calls of one whole frame to the classes it watches, in
\* their order, as far as the recorder has room, and counts the rest, with a census
\* over it or without, whatever the room.
THEOREM TraceStaysOneFrame ==
    ASSUME ~RenderingAtStartup, ~ProtectFails
    PROVE  HooksSpec => []TraceIsOneFrame
<1>1. HooksInv => TraceIsOneFrame
  BY DEF TraceIsOneFrame, HooksInv, QuietInv, RecordInv, Reached, Pending, NoCall
<1> QED
  BY <1>1, HooksInductive, PTL
=============================================================================
