--------------------------- MODULE PhaseDispatcher ---------------------------
(***************************************************************************)
(* Render/PhaseDispatcher: who gets called once per frame at one point of  *)
(* the frame.  Subscribers sit in a fixed array.  Everything runs on the   *)
(* render thread, so the only interleaving is re-entrancy: while Dispatch  *)
(* walks the array, the callback it is running may itself subscribe and    *)
(* unsubscribe.  Callbacks are arbitrary code, so while one runs the       *)
(* operations named in Reentrant may be called any number of times.        *)
(*                                                                         *)
(* A call that changes nothing (a second Dispatch of a frame, Subscribe    *)
(* with every entry taken, Unsubscribe of an unknown token) is a           *)
(* stuttering step and has no action.                                      *)
(***************************************************************************)
EXTENDS Naturals, FiniteSets, Sequences

CONSTANTS
    kMaxSubscribers, \* entries of the array, 16 in the code
    Reentrant,       \* what a running callback may call: "subscribe", "unsubscribe"
    MaxToken,        \* bound: tokens handed out
    MaxFrame         \* bound: frames presented

ASSUME ConstantsAssumption ==
    /\ kMaxSubscribers \in Nat \ {0}
    /\ Reentrant \subseteq {"subscribe", "unsubscribe"}
    /\ MaxToken \in Nat
    /\ MaxFrame \in Nat

VARIABLES
    entries,     \* _entries; a callback is named by the token it was subscribed under
    next,        \* NextToken()'s counter
    lastFrame,   \* _lastFrame
    dispatched,  \* _dispatched
    running,     \* _running
    planned,     \* Dispatch's locals: how many are to run,
    ran,         \*   how many have,
    cursor,      \*   the entry the loop is at,
    executing,   \*   and the callback on the stack, or kNoToken
    frame,       \* the present counter the caller passes as a_frame
    subscribed,  \* history: the tokens active when this dispatch began
    unsubscribed,\* history: the tokens taken back by Unsubscribe
    calls        \* history: the callbacks run in this frame, in order

subVars  == <<entries, next, unsubscribed>>
loopVars == <<running, planned, ran, cursor, executing, subscribed>>
seenVars == <<lastFrame, dispatched>>
vars == <<subVars, loopVars, seenVars, frame, calls>>

kNoToken == 0
Slots    == 1 .. kMaxSubscribers
Tokens   == 1 .. MaxToken

Free == [token |-> kNoToken, callback |-> kNoToken, active |-> FALSE, retiring |-> FALSE]

ActiveSlots  == {s \in Slots : entries[s].active}
ActiveTokens == {entries[s].token : s \in ActiveSlots}
Count        == Cardinality(ActiveSlots)

Init ==
    /\ entries = [s \in Slots |-> Free]
    /\ next = 1
    /\ lastFrame = 0
    /\ dispatched = FALSE
    /\ running = FALSE
    /\ planned = 0 /\ ran = 0 /\ cursor = 1 /\ executing = kNoToken
    /\ frame = 0
    /\ subscribed = {} /\ unsubscribed = {} /\ calls = <<>>

-----------------------------------------------------------------------------
\* Between dispatches anyone may call; during one only the callback running.
MayCall(op) == running => executing # kNoToken /\ op \in Reentrant

\* The first entry that is not active, even one whose retirement is pending.
IsFirstFree(s) == /\ ~entries[s].active
                  /\ \A r \in 1 .. s - 1 : entries[r].active

\* Mutant: a re-used entry keeps its pending retirement.
Subscribe_KeepsRetiring(s) ==
    /\ MayCall("subscribe")
    /\ IsFirstFree(s)
    /\ next \in Tokens
    /\ entries' = [entries EXCEPT ![s] = [token |-> next, callback |-> next,
                                          active |-> TRUE, retiring |-> @.retiring]]
    /\ next' = next + 1
    /\ UNCHANGED <<loopVars, seenVars, frame, calls, unsubscribed>>

Subscribe(s) ==
    /\ MayCall("subscribe")
    /\ IsFirstFree(s)
    /\ next \in Tokens
    /\ entries' = [entries EXCEPT ![s] = [token |-> next, callback |-> next,
                                          active |-> TRUE, retiring |-> FALSE]]
    /\ next' = next + 1
    /\ UNCHANGED <<loopVars, seenVars, frame, calls, unsubscribed>>

\* Mutant: a retirement during a dispatch waits for its end altogether.
Retire_StaysActive(entry) ==
    IF running THEN [entry EXCEPT !.retiring = TRUE]
               ELSE [entry EXCEPT !.active = FALSE, !.token = kNoToken, !.callback = kNoToken]

\* During a dispatch the callback may be the one on the stack: only mark it.
Retire(entry) == IF running THEN [entry EXCEPT !.active = FALSE, !.retiring = TRUE]
                            ELSE [entry EXCEPT !.active = FALSE, !.token = kNoToken,
                                               !.callback = kNoToken]

Unsubscribe(s) ==
    /\ MayCall("unsubscribe")
    /\ entries[s].active
    /\ entries' = [entries EXCEPT ![s] = Retire(@)]
    /\ unsubscribed' = unsubscribed \cup {entries[s].token}
    /\ UNCHANGED <<loopVars, seenVars, frame, calls, next>>

-----------------------------------------------------------------------------
(* Dispatch(frame), in three kinds of step: up to the loop, one callback   *)
(* called or returned from, and the end.  Nothing else runs in between     *)
(* except what the callback calls.                                         *)

AlreadyDispatched == dispatched /\ lastFrame = frame

BeginDispatch ==
    /\ ~running
    /\ ~AlreadyDispatched
    /\ lastFrame' = frame
    /\ dispatched' = TRUE
    /\ planned' = Count
    /\ running' = (Count # 0)
    /\ ran' = 0 /\ cursor' = 1
    /\ subscribed' = ActiveTokens
    /\ UNCHANGED <<subVars, executing, frame, calls>>

\* The entries from the cursor on that the loop would call.
Runnable(s) == s >= cursor /\ entries[s].active /\ entries[s].callback # kNoToken

CallNext(s) ==
    /\ running /\ executing = kNoToken
    /\ ran # planned
    /\ Runnable(s) /\ \A r \in 1 .. s - 1 : ~Runnable(r)
    /\ cursor' = s
    /\ executing' = entries[s].callback
    /\ calls' = Append(calls, entries[s].callback)
    /\ UNCHANGED <<subVars, seenVars, frame, running, planned, ran, subscribed>>

\* Mutant: the loop counts the entries it passes, not those it ran.
Return_CountsPassed ==
    /\ executing # kNoToken
    /\ executing' = kNoToken
    /\ ran' = cursor
    /\ cursor' = cursor + 1
    /\ UNCHANGED <<subVars, seenVars, frame, calls, running, planned, subscribed>>

Return ==
    /\ executing # kNoToken
    /\ executing' = kNoToken
    /\ ran' = ran + 1
    /\ cursor' = cursor + 1
    /\ UNCHANGED <<subVars, seenVars, frame, calls, running, planned, subscribed>>

Swept(entry) == IF entry.retiring
                THEN [entry EXCEPT !.retiring = FALSE, !.callback = kNoToken, !.token = kNoToken]
                ELSE entry

\* Mutant: the loop waits for the planned number although some were taken back.
EndDispatch_InsistsOnPlanned ==
    /\ running /\ executing = kNoToken
    /\ ran = planned
    /\ running' = FALSE
    /\ entries' = [s \in Slots |-> Swept(entries[s])]
    /\ UNCHANGED <<next, unsubscribed, seenVars, frame, calls,
                   planned, ran, cursor, executing, subscribed>>

EndDispatch ==
    /\ running /\ executing = kNoToken
    /\ ran = planned \/ \A s \in Slots : ~Runnable(s)
    /\ running' = FALSE
    /\ entries' = [s \in Slots |-> Swept(entries[s])]
    /\ UNCHANGED <<next, unsubscribed, seenVars, frame, calls,
                   planned, ran, cursor, executing, subscribed>>

\* The present counter moves on; a dispatch never spans a present.
Present ==
    /\ ~running
    /\ frame < MaxFrame
    /\ frame' = frame + 1
    /\ calls' = <<>>
    /\ UNCHANGED <<subVars, loopVars, seenVars>>

Dispatch == BeginDispatch \/ (\E s \in Slots : CallNext(s)) \/ Return \/ EndDispatch

Next ==
    \/ \E s \in Slots : Subscribe(s) \/ Unsubscribe(s)
    \/ Dispatch
    \/ Present

\* The loop is straight-line code: once entered it goes on as long as its
\* callbacks return.  Nothing obliges the engine to present or to dispatch.
Fairness == /\ \A s \in Slots : WF_vars(CallNext(s))
            /\ WF_vars(Return)
            /\ WF_vars(EndDispatch)

Spec     == Init /\ [][Next]_vars
FairSpec == Spec /\ Fairness

-----------------------------------------------------------------------------
Entry == [token : 0 .. MaxToken, callback : 0 .. MaxToken,
          active : BOOLEAN, retiring : BOOLEAN]

\* Every variable has its type.
TypeOK ==
    /\ entries \in [Slots -> Entry]
    /\ next \in 1 .. MaxToken + 1
    /\ lastFrame \in 0 .. MaxFrame /\ dispatched \in BOOLEAN
    /\ running \in BOOLEAN
    /\ planned \in Nat /\ ran \in Nat
    /\ cursor \in 1 .. kMaxSubscribers + 1
    /\ executing \in 0 .. MaxToken
    /\ frame \in 0 .. MaxFrame
    /\ subscribed \subseteq 0 .. MaxToken
    /\ unsubscribed \subseteq 0 .. MaxToken
    /\ calls \in Seq(0 .. MaxToken)

\* A live subscriber is never emptied: whatever was retired and re-used in
\* the middle of a dispatch, an active entry holds the callback that was
\* subscribed under its token (Subscribe's reset of retiring, the sweep at
\* the end of Dispatch).
LiveSubscriberKeepsCallback ==
    \A s \in ActiveSlots : entries[s].callback = entries[s].token
                           /\ entries[s].token # kNoToken

\* Nothing retired outlives the dispatch it was retired in: between
\* dispatches an entry nobody subscribes holds neither callback nor token.
NothingRetiredLingers ==
    ~running => \A s \in Slots \ ActiveSlots : entries[s] = Free

\* No two active entries share a token: Unsubscribe takes down the subscriber
\* named and no other.  Part of the inductive invariant, checked by no run.
TokensUnique ==
    \A r, s \in ActiveSlots : entries[r].token = entries[s].token => r = s

\* A callback runs at most once per presented frame, however often the
\* anchor is reached and whatever callbacks do to the array meanwhile.
AtMostOncePerFrame ==
    \A i, j \in 1 .. Len(calls) : calls[i] = calls[j] => i = j

\* What a subscriber may rely on whatever the others do in the middle of a
\* dispatch: its callback stays its own, runs at most once a frame, and what
\* others took back is gone when the dispatch ends.
SubscribersAreServed ==
    LiveSubscriberKeepsCallback /\ NothingRetiredLingers /\ AtMostOncePerFrame

\* Unsubscribe takes effect immediately: once it has returned the callback
\* is never started again, not even by a dispatch already under way.
UnsubscribedNeverRuns ==
    [][\A t \in unsubscribed : executing' = t => executing = t]_vars

Called == {calls[i] : i \in DOMAIN calls}
Missed == subscribed \ (Called \cup unsubscribed)

\* A dispatch passes over a subscriber it began with, and that nobody took
\* back meanwhile, only for a newcomer that ran in its place (the number to
\* run is fixed before the loop, who runs is not).
SurvivorsRun ==
    [][running /\ ~running' => Cardinality(Missed) <= Cardinality(Called \ subscribed)]_vars

\* Every dispatch comes to its end, although callbacks can go on adding
\* subscribers ahead of the cursor.
DispatchEnds == running ~> ~running
=============================================================================
