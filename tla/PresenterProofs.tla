--------------------------- MODULE PresenterProofs ---------------------------
(***************************************************************************)
(* Theorems about Presenter, for every number of slots, frames and         *)
(* resizes: a slot serves one frame at a time, D3D11 never writes a slot   *)
(* that D3D12 has yet to read for an earlier frame, a resize frees nothing *)
(* that is in use, and what is shown is a FrameStream.  Where the event of *)
(* a drain that timed out ends a later wait too early, the theorems say    *)
(* what still holds.                                                       *)
(***************************************************************************)
EXTENDS Presenter, SequenceTheorems, NaturalsInduction, FiniteSetTheorems, TLAPS

-----------------------------------------------------------------------------
(* The two queues: what D3D11 has to do, flushed or not, and queue12.  The   *)
(* parts of the invariant are stated of any two sequences of commands.       *)

stream == queue11 \o recorded

Pos(S)     == 1 .. Len(S)
Waits(c)   == c.op = "wait"
Signals(c) == c.op = "signal"
Writes(c)  == c.op = "write"
Draws(c)   == c.op = "frame"

\* A fence's signals are in order, beyond what it has reached.
Fenced(S, done, value) ==
    /\ done <= value
    /\ \A i \in Pos(S) : Signals(S[i]) => done < S[i].value /\ S[i].value <= value
    /\ \A i, j \in Pos(S) : i < j /\ Signals(S[i]) /\ Signals(S[j]) => S[i].value < S[j].value

\* A draw is followed by a signal its slot's release value covers.
Released(q, rel) ==
    \A j \in Pos(q) : Draws(q[j]) =>
        \E k \in Pos(q) : j < k /\ Signals(q[k]) /\ q[k].value <= rel[q[j].slot]

\* There is a wait before place n that lets nothing pass before the draw at j
\* is done.
Guarded(S, q, n, j) ==
    \E h \in Pos(S), k \in Pos(q) : /\ h < n /\ Waits(S[h])
                                    /\ j < k /\ Signals(q[k]) /\ q[k].value <= S[h].value

\* ... and one for every draw of slot s.
SlotGuarded(S, q, n, s) ==
    \A j \in Pos(q) : Draws(q[j]) /\ q[j].slot = s => Guarded(S, q, n, j)

\* A write waits for the draws of its slot that belong to earlier frames.
Protected(S, q) ==
    \A i \in Pos(S), j \in Pos(q) :
        Writes(S[i]) /\ Draws(q[j]) /\ S[i].slot = q[j].slot /\ q[j].frame < S[i].frame
            => Guarded(S, q, i, j)

\* A draw waits for the writes of its frame and of those before.
Handed(S, q) ==
    \A i \in Pos(S), j \in Pos(q) :
        Writes(S[i]) /\ Draws(q[j]) /\ S[i].frame <= q[j].frame => Guarded(q, S, j, i)

\* Everything written so far is handed over to what D3D12 gets next.
HandedOver(S, q) == \A i \in Pos(S) : Writes(S[i]) => Guarded(q, S, Len(q) + 1, i)

\* What part p of slot s is written for, of all that is written to it.
WritesTo(c, s, p) == Writes(c) /\ c.slot = s /\ c.part = p

\* Part p of slot s is frame f's own, or will be before D3D11 is done with f.
Own(S, held, s, p, f) ==
    \/ /\ held[s][p] \in (IF p = "final" THEN {f} ELSE {f, None})
       /\ \A i \in Pos(S) : WritesTo(S[i], s, p) => f <= S[i].frame
    \/ \E i \in Pos(S) : WritesTo(S[i], s, p) /\ S[i].frame = f

\* Every draw gets its own picture, and its own inputs if it reads them.
Owned(S, q, held) ==
    \A j \in Pos(q) : Draws(q[j]) =>
        /\ Own(S, held, q[j].slot, "final", q[j].frame)
        /\ q[j].reads => \A p \in {"hudless", "inputs"} : Own(S, held, q[j].slot, p, q[j].frame)

\* Frames follow each other, in the writes as in the draws.
Ordered(S, q, f) ==
    /\ \A i \in Pos(S) : Writes(S[i]) => S[i].frame <= f
    /\ \A i, j \in Pos(S) : i < j /\ Writes(S[i]) /\ Writes(S[j]) => S[i].frame <= S[j].frame
    /\ \A j \in Pos(q) : Draws(q[j]) => q[j].frame < f
    /\ \A i, j \in Pos(q) : i < j /\ Draws(q[i]) /\ Draws(q[j]) => q[i].frame < q[j].frame

-----------------------------------------------------------------------------
(* The invariant *)

TypeInv ==
    /\ TypeOK
    /\ pc \in {"blocked", "submit"} => frame < MaxFrame

\* Values are given to both fences in turn; a slot's has been given.
FenceInv ==
    /\ Fenced(stream, readyDone, readyValue)
    /\ Fenced(queue12, releaseDone, releaseValue)
    /\ \A s \in Slots : release[s] <= releaseValue

RingInv ==
    /\ Released(queue12, release)
    /\ Protected(stream, queue12)
    /\ \/ waitedFor <= releaseDone
       \/ \E h \in Pos(stream) : Waits(stream[h]) /\ stream[h].value = waitedFor

HandInv ==
    /\ Handed(stream, queue12)
    /\ pc \in {"blocked", "submit"} => HandedOver(stream, queue12)

OwnInv ==
    /\ Ordered(stream, queue12, frame)
    /\ Owned(stream, queue12, slots)
    /\ inputs => Own(stream, slots, current, "inputs", frame)
    /\ hudless => Own(stream, slots, current, "hudless", frame)
    /\ pc \in {"blocked", "submit"} => Own(stream, slots, current, "final", frame)

\* A wait that finds no event left behind ends only with the value it is for,
\* and leaves none; a drain that times out does.
EventInv ==
    /\ ~late => ~hurried /\ (pc \in {"render", "submit"} => ~LeftOver)
    /\ ~hurried =>
         /\ pc = "drain" => ~LeftOver
         /\ pc = "blocked" => /\ registered \subseteq {ReleaseValue}
                              /\ signaled => registered = {} /\ ReleaseValue <= releaseDone
         /\ pc = "draining" => /\ registered \subseteq {releaseValue}
                               /\ signaled => registered = {} /\ releaseValue <= releaseDone
         /\ pc = "submit" => ReleaseValue <= releaseDone

IInv == TypeInv /\ FenceInv /\ RingInv /\ HandInv /\ OwnInv /\ EventInv

-----------------------------------------------------------------------------
(* Commands, and what happens to a queue *)

LEMMA CommandsAre ==
    \A c \in Command :
      /\ Waits(c) \/ Signals(c) => c.value \in Nat
      /\ Writes(c) \/ Draws(c) => c.frame \in Nat
      /\ Writes(c) => c.slot \in Slots \cup {Gone} /\ c.part \in Parts /\ c.frame \in Frames
      /\ Draws(c) => c.slot \in Slots /\ c.reads \in BOOLEAN
      /\ ~(Writes(c) /\ Draws(c)) /\ ~(Signals(c) /\ (Waits(c) \/ Writes(c) \/ Draws(c)))
      /\ ~(Waits(c) /\ (Writes(c) \/ Draws(c)))
  BY DEF Command, Waits, Signals, Writes, Draws, Frames

LEMMA NumbersAre ==
    /\ kSlots \in Nat /\ kSlots > 0 /\ MaxFrame \in Nat /\ MaxFrame > 0
    /\ Slots \subseteq Nat /\ Gone \notin Slots /\ Frames \subseteq Nat /\ None \notin Frames
    /\ 0 \in Slots
  BY ConstantsAssumption DEF Slots, Gone, Frames, None

LEMMA MadeCommands ==
    /\ \A v \in Nat : /\ Wait(v) \in Command /\ Waits(Wait(v)) /\ Wait(v).value = v
                      /\ ~Writes(Wait(v)) /\ ~Signals(Wait(v)) /\ ~Draws(Wait(v))
                      /\ Signal(v) \in Command /\ Signals(Signal(v)) /\ Signal(v).value = v
                      /\ ~Writes(Signal(v)) /\ ~Waits(Signal(v)) /\ ~Draws(Signal(v))
    /\ frame \in Frames => \A s \in Slots, p \in Parts :
         /\ Write(s, p) \in Command /\ Writes(Write(s, p)) /\ WritesTo(Write(s, p), s, p)
         /\ Write(s, p).frame = frame /\ Write(s, p).slot = s /\ Write(s, p).part = p
         /\ ~Waits(Write(s, p)) /\ ~Signals(Write(s, p)) /\ ~Draws(Write(s, p))
    /\ frame \in Frames => \A s \in Slots, r \in BOOLEAN :
         /\ Draw(s, r) \in Command /\ Draws(Draw(s, r))
         /\ Draw(s, r).frame = frame /\ Draw(s, r).slot = s /\ Draw(s, r).reads = r
         /\ ~Waits(Draw(s, r)) /\ ~Signals(Draw(s, r)) /\ ~Writes(Draw(s, r))
  BY DEF Command, Wait, Signal, Write, Draw, Waits, Signals, Writes, Draws, WritesTo

LEMMA Elements ==
    ASSUME NEW S \in Seq(Command)
    PROVE  /\ Len(S) \in Nat /\ \A i \in Pos(S) : i \in Nat /\ 1 <= i /\ S[i] \in Command
           /\ DOMAIN S = Pos(S)
           /\ S # <<>> => 1 \in Pos(S) /\ Head(S) = S[1]
  BY DEF Pos

\* T is S with c behind it.
Extended(S, T, c) ==
    /\ Len(S) \in Nat /\ Len(T) = Len(S) + 1 /\ Len(T) \in Nat
    /\ \A i \in Pos(S) : i \in Pos(T) /\ T[i] = S[i] /\ i < Len(T) /\ ~(Len(T) < i)
    /\ Len(T) \in Pos(T) /\ T[Len(T)] = c /\ ~(Len(T) < Len(T))
    /\ \A i \in Pos(T) : i \in Pos(S) \/ i = Len(T)

LEMMA Extends ==
    ASSUME NEW S \in Seq(Command), NEW c \in Command, NEW T, T = S \o <<c>>
    PROVE  T \in Seq(Command) /\ Extended(S, T, c)
<1>1. T \in Seq(Command) /\ Len(S) \in Nat /\ Len(T) = Len(S) + 1
  OBVIOUS
<1>2. \A i \in 1 .. Len(S) : T[i] = S[i]
  OBVIOUS
<1>3. T[Len(S) + 1] = c
  OBVIOUS
<1> DEFINE n == Len(S)
           m == Len(T)
<1>4. n \in Nat /\ m = n + 1
  BY <1>1
<1> HIDE DEF n, m
<1>5. /\ m \in Nat /\ \A i \in 1 .. n : i \in 1 .. m /\ i < m /\ ~(m < i)
      /\ m \in 1 .. m /\ ~(m < m) /\ \A i \in 1 .. m : i \in 1 .. n \/ i = m
  BY <1>4
<1> QED
  BY <1>1, <1>2, <1>3, <1>5 DEF Extended, Pos, n, m

\* T is S without its first command.
Dropped(S, T) ==
    /\ 1 \in Pos(S) /\ Len(T) \in Nat /\ Len(S) = Len(T) + 1
    /\ \A i \in Pos(T) : i \in Nat /\ i + 1 \in Pos(S) /\ 1 < i + 1 /\ T[i] = S[i + 1]
    /\ \A i \in Pos(S) : i \in Nat /\ (i = 1 \/ (i - 1 \in Pos(T) /\ T[i - 1] = S[i]))

LEMMA Drops ==
    ASSUME NEW S \in Seq(Command), S # <<>>, NEW T, T = Tail(S)
    PROVE  T \in Seq(Command) /\ Dropped(S, T)
<1>1. Len(S) \in Nat /\ Len(S) > 0
  OBVIOUS
<1>2. /\ T \in Seq(Command) /\ Len(T) = Len(S) - 1
      /\ \A i \in 1 .. Len(T) : T[i] = S[i + 1]
  BY <1>1
<1>3. ASSUME NEW i \in Pos(T)
      PROVE  i \in Nat /\ i + 1 \in Pos(S) /\ 1 < i + 1 /\ T[i] = S[i + 1]
  BY <1>1, <1>2 DEF Pos
<1>4. ASSUME NEW i \in Pos(S), i # 1 PROVE i - 1 \in Pos(T) /\ T[i - 1] = S[i]
  <2>1. i - 1 \in 1 .. Len(T) /\ (i - 1) + 1 = i
    BY <1>1, <1>2, <1>4 DEF Pos
  <2> QED
    BY <1>2, <2>1 DEF Pos
<1>5. 1 \in Pos(S) /\ Len(T) \in Nat /\ Len(S) = Len(T) + 1 /\ \A i \in Pos(S) : i \in Nat
  BY <1>1, <1>2 DEF Pos
<1> QED
  BY <1>2, <1>3, <1>4, <1>5 DEF Dropped

-----------------------------------------------------------------------------
(* Fences *)

LEMMA FencedMore ==
    ASSUME NEW S \in Seq(Command), NEW T, NEW c \in Command, Extended(S, T, c),
           NEW d \in Nat, NEW v \in Nat, d <= v, Fenced(S, d, v),
           NEW w \in Nat, v <= w, Signals(c) => v < c.value /\ c.value <= w
    PROVE  Fenced(T, d, w)
<1>1. ASSUME NEW i \in Pos(S), Signals(S[i])
      PROVE  S[i].value \in Nat /\ d < S[i].value /\ S[i].value <= v
  BY <1>1, Elements, CommandsAre DEF Fenced
<1>2. Signals(c) => c.value \in Nat
  BY CommandsAre
<1>3. ASSUME NEW i \in Pos(T), Signals(T[i]) PROVE d < T[i].value /\ T[i].value <= w
  <2>1. CASE i \in Pos(S)
    <3>1. T[i] = S[i] /\ Signals(S[i])
      BY <1>3, <2>1 DEF Extended
    <3> QED
      BY <1>1, <2>1, <3>1
  <2>2. CASE i = Len(T)
    <3>1. T[i] = c /\ Signals(c)
      BY <1>3, <2>2 DEF Extended
    <3> QED
      BY <1>2, <3>1
  <2> QED
    BY <2>1, <2>2 DEF Extended
<1>4. ASSUME NEW i \in Pos(T), NEW j \in Pos(T), i < j, Signals(T[i]), Signals(T[j])
      PROVE  T[i].value < T[j].value
  <2>1. i \in Pos(S) /\ T[i] = S[i]
    BY <1>4 DEF Extended
  <2>2. CASE j \in Pos(S)
    BY <1>4, <2>1, <2>2 DEF Extended, Fenced
  <2>3. CASE j = Len(T)
    <3>1. T[j] = c /\ Signals(c)
      BY <1>4, <2>3 DEF Extended
    <3> QED
      BY <1>1, <1>2, <1>4, <2>1, <3>1
  <2> QED
    BY <2>2, <2>3 DEF Extended
<1>5. d <= w
  BY DEF Fenced
<1> QED
  BY <1>3, <1>4, <1>5 DEF Fenced

\* The fence is where the first signal puts it, or where it was.
LEMMA FencedLess ==
    ASSUME NEW S \in Seq(Command), NEW T, Dropped(S, T),
           NEW d \in Nat, NEW v \in Nat, Fenced(S, d, v), NEW e,
           e = d \/ (Signals(S[1]) /\ e = S[1].value)
    PROVE  Fenced(T, e, v)
<1>1. ASSUME NEW i \in Pos(T), Signals(T[i]) PROVE e < T[i].value /\ T[i].value <= v
  <2>1. i + 1 \in Pos(S) /\ 1 < i + 1 /\ T[i] = S[i + 1] /\ 1 \in Pos(S)
    BY DEF Dropped
  <2> QED
    BY <1>1, <2>1 DEF Fenced
<1>2. ASSUME NEW i \in Pos(T), NEW j \in Pos(T), i < j, Signals(T[i]), Signals(T[j])
      PROVE  T[i].value < T[j].value
  <2>1. /\ i + 1 \in Pos(S) /\ T[i] = S[i + 1]
        /\ j + 1 \in Pos(S) /\ T[j] = S[j + 1] /\ i + 1 < j + 1
    BY <1>2 DEF Dropped
  <2> QED
    BY <1>2, <2>1 DEF Fenced
<1>3. e <= v
  BY DEF Fenced, Dropped
<1> QED
  BY <1>1, <1>2, <1>3 DEF Fenced

-----------------------------------------------------------------------------
(* Guards *)

LEMMA GuardedMore ==
    ASSUME NEW S, NEW q, NEW n, NEW j, Guarded(S, q, n, j), NEW T, NEW c
    PROVE  /\ Extended(S, T, c) => Guarded(T, q, n, j)
           /\ Extended(q, T, c) => Guarded(S, T, n, j)
  BY DEF Guarded, Extended

\* The draw comes nearer ...
LEMMA GuardedDraw ==
    ASSUME NEW S, NEW q, NEW r, Dropped(q, r), NEW n, NEW j \in Pos(r), Guarded(S, q, n, j + 1)
    PROVE  Guarded(S, r, n, j)
<1> PICK h \in Pos(S), k \in Pos(q) :
       /\ h < n /\ Waits(S[h])
       /\ j + 1 < k /\ Signals(q[k]) /\ q[k].value <= S[h].value
  BY DEF Guarded
<1>1. k # 1 /\ k \in Nat /\ j \in Nat
  BY DEF Dropped
<1>2. k - 1 \in Pos(r) /\ r[k - 1] = q[k] /\ j < k - 1
  BY <1>1 DEF Dropped
<1> QED
  BY <1>2 DEF Guarded

\* ... and so does the guard, which passes only when the draw is done.
LEMMA GuardedWait ==
    ASSUME NEW S \in Seq(Command), NEW q \in Seq(Command), NEW T, Dropped(S, T),
           NEW d \in Nat, NEW v \in Nat, Fenced(q, d, v), Waits(S[1]) => S[1].value <= d,
           NEW n \in Nat, NEW j, Guarded(S, q, n + 1, j)
    PROVE  Guarded(T, q, n, j)
<1> PICK h \in Pos(S), k \in Pos(q) :
       /\ h < n + 1 /\ Waits(S[h])
       /\ j < k /\ Signals(q[k]) /\ q[k].value <= S[h].value
  BY DEF Guarded
<1>1. h # 1
  <2> SUFFICES ASSUME h = 1 PROVE FALSE
    OBVIOUS
  <2>1. S[1].value \in Nat /\ q[k].value \in Nat /\ d < q[k].value
    BY Elements, CommandsAre DEF Fenced
  <2> QED
    BY <2>1
<1>2. h \in Nat /\ h - 1 \in Pos(T) /\ T[h - 1] = S[h]
  BY <1>1 DEF Dropped
<1>3. h - 1 < n
  BY <1>2
<1> QED
  BY <1>2, <1>3 DEF Guarded

LEMMA NoGuardAhead ==
    ASSUME NEW S \in Seq(Command), NEW q, NEW j PROVE ~Guarded(S, q, 1, j)
<1>1. \A h \in Pos(S) : ~(h < 1)
  BY Elements
<1> QED
  BY <1>1 DEF Guarded

-----------------------------------------------------------------------------
(* Writes wait for draws *)

LEMMA ProtectedMore ==
    ASSUME NEW S, NEW q, NEW T, NEW c, Extended(S, T, c), Protected(S, q),
           Writes(c) => \A j \in Pos(q) : Draws(q[j]) /\ c.slot = q[j].slot /\ q[j].frame < c.frame
                          => Guarded(S, q, Len(T), j)
    PROVE  Protected(T, q)
<1> SUFFICES ASSUME NEW i \in Pos(T), NEW j \in Pos(q), Writes(T[i]), Draws(q[j]),
                    T[i].slot = q[j].slot, q[j].frame < T[i].frame
             PROVE  Guarded(T, q, i, j)
  BY DEF Protected
<1>1. CASE i \in Pos(S)
  <2>1. T[i] = S[i]
    BY <1>1 DEF Extended
  <2>2. Guarded(S, q, i, j)
    BY <1>1, <2>1 DEF Protected
  <2> QED
    BY <2>2, GuardedMore
<1>2. CASE i = Len(T)
  <2>1. T[i] = c
    BY <1>2 DEF Extended
  <2>2. Guarded(S, q, i, j)
    BY <1>2, <2>1
  <2> QED
    BY <2>2, GuardedMore
<1> QED
  BY <1>1, <1>2 DEF Extended

LEMMA ProtectedLess ==
    ASSUME NEW S \in Seq(Command), NEW q \in Seq(Command), NEW T, Dropped(S, T),
           NEW d \in Nat, NEW v \in Nat, Fenced(q, d, v), Waits(S[1]) => S[1].value <= d,
           Protected(S, q)
    PROVE  Protected(T, q)
<1> SUFFICES ASSUME NEW i \in Pos(T), NEW j \in Pos(q), Writes(T[i]), Draws(q[j]),
                    T[i].slot = q[j].slot, q[j].frame < T[i].frame
             PROVE  Guarded(T, q, i, j)
  BY DEF Protected
<1>1. i \in Nat /\ i + 1 \in Pos(S) /\ T[i] = S[i + 1]
  BY DEF Dropped
<1>2. Guarded(S, q, i + 1, j)
  BY <1>1 DEF Protected
<1> QED
  BY <1>1, <1>2, GuardedWait

LEMMA ProtectedDrawn ==
    ASSUME NEW S \in Seq(Command), NEW q, NEW r, NEW c \in Command, Extended(q, r, c),
           Protected(S, q), Draws(c) => \A i \in Pos(S) : Writes(S[i]) => S[i].frame <= c.frame
    PROVE  Protected(S, r)
<1> SUFFICES ASSUME NEW i \in Pos(S), NEW j \in Pos(r), Writes(S[i]), Draws(r[j]),
                    S[i].slot = r[j].slot, r[j].frame < S[i].frame
             PROVE  Guarded(S, r, i, j)
  BY DEF Protected
<1>1. CASE j \in Pos(q)
  <2>1. r[j] = q[j]
    BY <1>1 DEF Extended
  <2>2. Guarded(S, q, i, j)
    BY <1>1, <2>1 DEF Protected
  <2> QED
    BY <2>2, GuardedMore
<1>2. CASE j = Len(r)
  <2>1. r[j] = c
    BY <1>2 DEF Extended
  <2>2. S[i].frame <= c.frame /\ S[i].frame \in Nat /\ c.frame \in Nat
    BY <2>1, Elements, CommandsAre
  <2> QED
    BY <2>1, <2>2
<1> QED
  BY <1>1, <1>2 DEF Extended

LEMMA ProtectedDone ==
    ASSUME NEW S, NEW q, NEW r, Dropped(q, r), Protected(S, q)
    PROVE  Protected(S, r)
<1> SUFFICES ASSUME NEW i \in Pos(S), NEW j \in Pos(r), Writes(S[i]), Draws(r[j]),
                    S[i].slot = r[j].slot, r[j].frame < S[i].frame
             PROVE  Guarded(S, r, i, j)
  BY DEF Protected
<1>1. j + 1 \in Pos(q) /\ r[j] = q[j + 1]
  BY DEF Dropped
<1>2. Guarded(S, q, i, j + 1)
  BY <1>1 DEF Protected
<1> QED
  BY <1>2, GuardedDraw

-----------------------------------------------------------------------------
(* Draws wait for writes *)

LEMMA HandedMore ==
    ASSUME NEW S, NEW q \in Seq(Command), NEW T, NEW c \in Command, Extended(S, T, c),
           Handed(S, q), Writes(c) => \A j \in Pos(q) : Draws(q[j]) => q[j].frame < c.frame
    PROVE  Handed(T, q)
<1> SUFFICES ASSUME NEW i \in Pos(T), NEW j \in Pos(q), Writes(T[i]), Draws(q[j]),
                    T[i].frame <= q[j].frame
             PROVE  Guarded(q, T, j, i)
  BY DEF Handed
<1>1. CASE i \in Pos(S)
  <2>1. T[i] = S[i]
    BY <1>1 DEF Extended
  <2>2. Guarded(q, S, j, i)
    BY <1>1, <2>1 DEF Handed
  <2> QED
    BY <2>2, GuardedMore
<1>2. CASE i = Len(T)
  <2>1. T[i] = c
    BY <1>2 DEF Extended
  <2>2. q[j].frame < c.frame /\ q[j].frame \in Nat /\ c.frame \in Nat
    BY <2>1, Elements, CommandsAre
  <2> QED
    BY <2>1, <2>2
<1> QED
  BY <1>1, <1>2 DEF Extended

LEMMA HandedLess ==
    ASSUME NEW S, NEW q, NEW T, Dropped(S, T), Handed(S, q)
    PROVE  Handed(T, q)
<1> SUFFICES ASSUME NEW i \in Pos(T), NEW j \in Pos(q), Writes(T[i]), Draws(q[j]),
                    T[i].frame <= q[j].frame
             PROVE  Guarded(q, T, j, i)
  BY DEF Handed
<1>1. i + 1 \in Pos(S) /\ T[i] = S[i + 1]
  BY DEF Dropped
<1>2. Guarded(q, S, j, i + 1)
  BY <1>1 DEF Handed
<1> QED
  BY <1>2, GuardedDraw

LEMMA HandedDrawn ==
    ASSUME NEW S, NEW q, NEW r, NEW c, Extended(q, r, c), Handed(S, q),
           Draws(c) => HandedOver(S, q)
    PROVE  Handed(S, r)
<1> SUFFICES ASSUME NEW i \in Pos(S), NEW j \in Pos(r), Writes(S[i]), Draws(r[j]),
                    S[i].frame <= r[j].frame
             PROVE  Guarded(r, S, j, i)
  BY DEF Handed
<1>1. CASE j \in Pos(q)
  <2>1. r[j] = q[j]
    BY <1>1 DEF Extended
  <2>2. Guarded(q, S, j, i)
    BY <1>1, <2>1 DEF Handed
  <2> QED
    BY <2>2, GuardedMore
<1>2. CASE j = Len(r)
  <2>1. r[j] = c /\ j = Len(q) + 1
    BY <1>2 DEF Extended
  <2>2. Guarded(q, S, Len(q) + 1, i)
    BY <2>1 DEF HandedOver
  <2> QED
    BY <2>1, <2>2, GuardedMore
<1> QED
  BY <1>1, <1>2 DEF Extended

LEMMA HandedDone ==
    ASSUME NEW S \in Seq(Command), NEW q \in Seq(Command), NEW r, Dropped(q, r),
           NEW d \in Nat, NEW v \in Nat, Fenced(S, d, v), Waits(q[1]) => q[1].value <= d,
           Handed(S, q)
    PROVE  Handed(S, r)
<1> SUFFICES ASSUME NEW i \in Pos(S), NEW j \in Pos(r), Writes(S[i]), Draws(r[j]),
                    S[i].frame <= r[j].frame
             PROVE  Guarded(r, S, j, i)
  BY DEF Handed
<1>1. j \in Nat /\ j + 1 \in Pos(q) /\ r[j] = q[j + 1]
  BY DEF Dropped
<1>2. Guarded(q, S, j + 1, i)
  BY <1>1 DEF Handed
<1> QED
  BY <1>1, <1>2, GuardedWait

LEMMA HandedOverLess ==
    ASSUME NEW S, NEW q, NEW T, Dropped(S, T), HandedOver(S, q)
    PROVE  HandedOver(T, q)
<1> SUFFICES ASSUME NEW i \in Pos(T), Writes(T[i]) PROVE Guarded(q, T, Len(q) + 1, i)
  BY DEF HandedOver
<1>1. i + 1 \in Pos(S) /\ T[i] = S[i + 1]
  BY DEF Dropped
<1>2. Guarded(q, S, Len(q) + 1, i + 1)
  BY <1>1 DEF HandedOver
<1> QED
  BY <1>2, GuardedDraw

LEMMA HandedOverDone ==
    ASSUME NEW S \in Seq(Command), NEW q \in Seq(Command), NEW r, Dropped(q, r),
           NEW d \in Nat, NEW v \in Nat, Fenced(S, d, v), Waits(q[1]) => q[1].value <= d,
           HandedOver(S, q)
    PROVE  HandedOver(S, r)
<1> SUFFICES ASSUME NEW i \in Pos(S), Writes(S[i]) PROVE Guarded(r, S, Len(r) + 1, i)
  BY DEF HandedOver
<1>1. Len(r) + 1 \in Nat /\ Len(q) = Len(r) + 1
  BY DEF Dropped
<1>2. Guarded(q, S, (Len(r) + 1) + 1, i)
  BY <1>1 DEF HandedOver
<1> QED
  BY <1>1, <1>2, GuardedWait

\* The signal behind what was written, and the wait for it.
LEMMA HandsOver ==
    ASSUME NEW S, NEW T, NEW q, NEW r, NEW v \in Nat,
           NEW c, Extended(S, T, c), Signals(c), c.value = v, ~Writes(c),
           NEW w, Extended(q, r, w), Waits(w), w.value = v
    PROVE  HandedOver(T, r)
<1> SUFFICES ASSUME NEW i \in Pos(T), Writes(T[i]) PROVE Guarded(r, T, Len(r) + 1, i)
  BY DEF HandedOver
<1>1. i < Len(T) /\ Len(T) \in Pos(T) /\ T[Len(T)] = c
  BY DEF Extended
<1>2. Len(r) < Len(r) + 1 /\ Len(r) \in Pos(r) /\ r[Len(r)] = w /\ v <= v
  BY DEF Extended
<1> QED
  BY <1>1, <1>2 DEF Guarded

-----------------------------------------------------------------------------
(* The order of frames *)

LEMMA OrderedMore ==
    ASSUME NEW S \in Seq(Command), NEW q, NEW T, NEW c, Extended(S, T, c),
           NEW f \in Nat, Ordered(S, q, f), Writes(c) => c.frame = f
    PROVE  Ordered(T, q, f)
<1>1. ASSUME NEW i \in Pos(T), Writes(T[i]) PROVE T[i].frame <= f
  <2>1. CASE i \in Pos(S)
    BY <1>1, <2>1 DEF Extended, Ordered
  <2>2. CASE i = Len(T)
    BY <1>1, <2>2 DEF Extended
  <2> QED
    BY <2>1, <2>2 DEF Extended
<1>2. ASSUME NEW i \in Pos(T), NEW j \in Pos(T), i < j, Writes(T[i]), Writes(T[j])
      PROVE  T[i].frame <= T[j].frame
  <2>1. i \in Pos(S) /\ T[i] = S[i]
    BY <1>2 DEF Extended
  <2>2. CASE j \in Pos(S)
    BY <1>2, <2>1, <2>2 DEF Extended, Ordered
  <2>3. CASE j = Len(T)
    <3>1. T[j].frame = f
      BY <1>2, <2>3 DEF Extended
    <3> QED
      BY <1>1, <1>2, <3>1
  <2> QED
    BY <2>2, <2>3 DEF Extended
<1> QED
  BY <1>1, <1>2 DEF Ordered

LEMMA OrderedLess ==
    ASSUME NEW S, NEW q, NEW T, Dropped(S, T), NEW f, Ordered(S, q, f)
    PROVE  Ordered(T, q, f)
<1>1. \A i \in Pos(T) : Writes(T[i]) => T[i].frame <= f
  BY DEF Ordered, Dropped
<1>2. ASSUME NEW i \in Pos(T), NEW j \in Pos(T), i < j, Writes(T[i]), Writes(T[j])
      PROVE  T[i].frame <= T[j].frame
  <2>1. /\ i + 1 \in Pos(S) /\ T[i] = S[i + 1]
        /\ j + 1 \in Pos(S) /\ T[j] = S[j + 1] /\ i + 1 < j + 1
    BY <1>2 DEF Dropped
  <2> QED
    BY <1>2, <2>1 DEF Ordered
<1> QED
  BY <1>1, <1>2 DEF Ordered

LEMMA OrderedDrawn ==
    ASSUME NEW S \in Seq(Command), NEW q \in Seq(Command), NEW r, NEW c, Extended(q, r, c),
           NEW f \in Nat, Ordered(S, q, f), NEW g \in Nat,
           \/ ~Draws(c) /\ f <= g
           \/ Draws(c) /\ c.frame = f /\ g = f + 1
    PROVE  Ordered(S, r, g)
<1>n. f <= g /\ (Draws(c) => c.frame = f /\ f < g)
  OBVIOUS
<1>1. ASSUME NEW i \in Pos(S), Writes(S[i]) PROVE S[i].frame <= g
  <2>1. S[i].frame <= f /\ S[i].frame \in Nat
    BY <1>1, Elements, CommandsAre DEF Ordered
  <2> QED
    BY <1>n, <2>1
<1>2. ASSUME NEW j \in Pos(r), Draws(r[j]) PROVE r[j].frame < g
  <2>1. CASE j \in Pos(q)
    <3>1. r[j] = q[j] /\ q[j].frame < f /\ q[j].frame \in Nat
      BY <1>2, <2>1, Elements, CommandsAre DEF Ordered, Extended
    <3> QED
      BY <1>n, <3>1
  <2>2. CASE j = Len(r)
    BY <1>n, <1>2, <2>2 DEF Extended
  <2> QED
    BY <2>1, <2>2 DEF Extended
<1>3. ASSUME NEW i \in Pos(r), NEW j \in Pos(r), i < j, Draws(r[i]), Draws(r[j])
      PROVE  r[i].frame < r[j].frame
  <2>1. i \in Pos(q) /\ r[i] = q[i]
    BY <1>3 DEF Extended
  <2>2. CASE j \in Pos(q)
    BY <1>3, <2>1, <2>2 DEF Extended, Ordered
  <2>3. CASE j = Len(r)
    <3>1. r[j].frame = f
      BY <1>n, <1>3, <2>3 DEF Extended
    <3> QED
      BY <1>3, <2>1, <3>1 DEF Ordered
  <2> QED
    BY <2>2, <2>3 DEF Extended
<1>4. \A i, j \in Pos(S) : i < j /\ Writes(S[i]) /\ Writes(S[j]) => S[i].frame <= S[j].frame
  BY DEF Ordered
<1> QED
  BY <1>1, <1>2, <1>3, <1>4 DEF Ordered

LEMMA OrderedDone ==
    ASSUME NEW S, NEW q, NEW r, Dropped(q, r), NEW f, Ordered(S, q, f)
    PROVE  Ordered(S, r, f)
<1>1. \A i \in Pos(r) : Draws(r[i]) => r[i].frame < f
  BY DEF Ordered, Dropped
<1>2. ASSUME NEW i \in Pos(r), NEW j \in Pos(r), i < j, Draws(r[i]), Draws(r[j])
      PROVE  r[i].frame < r[j].frame
  <2>1. /\ i + 1 \in Pos(q) /\ r[i] = q[i + 1]
        /\ j + 1 \in Pos(q) /\ r[j] = q[j + 1] /\ i + 1 < j + 1
    BY <1>2 DEF Dropped
  <2> QED
    BY <1>2, <2>1 DEF Ordered
<1> QED
  BY <1>1, <1>2 DEF Ordered

-----------------------------------------------------------------------------
(* A frame's own *)

LEMMA OwnMore ==
    ASSUME NEW S, NEW held, NEW s, NEW p, NEW f, Own(S, held, s, p, f),
           NEW T, NEW c, Extended(S, T, c), WritesTo(c, s, p) => f <= c.frame
    PROVE  Own(T, held, s, p, f)
<1>1. CASE \E i \in Pos(S) : WritesTo(S[i], s, p) /\ S[i].frame = f
  BY <1>1 DEF Own, Extended
<1>2. CASE /\ held[s][p] \in (IF p = "final" THEN {f} ELSE {f, None})
           /\ \A i \in Pos(S) : WritesTo(S[i], s, p) => f <= S[i].frame
  BY <1>2 DEF Own, Extended
<1> QED
  BY <1>1, <1>2 DEF Own

LEMMA OwnWritten ==
    ASSUME NEW S, NEW held, NEW s, NEW p, NEW f,
           NEW T, NEW c, Extended(S, T, c), WritesTo(c, s, p), c.frame = f
    PROVE  Own(T, held, s, p, f)
  BY DEF Own, Extended

\* D3D11 does the first command.
Does(c, held, new) ==
    \A s \in Slots, p \in Parts : new[s][p] = IF WritesTo(c, s, p) THEN c.frame ELSE held[s][p]

LEMMA OwnLess ==
    ASSUME NEW S \in Seq(Command), NEW q, NEW held, NEW s \in Slots, NEW p \in Parts,
           NEW f \in Nat, Own(S, held, s, p, f), NEW g, Ordered(S, q, g),
           NEW T, Dropped(S, T), NEW new, Does(S[1], held, new),
           WritesTo(S[1], s, p) => S[1].frame <= f
    PROVE  Own(T, new, s, p, f)
<1>d. /\ 1 \in Pos(S)
      /\ \A i \in Pos(T) : i + 1 \in Pos(S) /\ T[i] = S[i + 1] /\ 1 < i + 1
      /\ \A i \in Pos(S) : i = 1 \/ (i - 1 \in Pos(T) /\ T[i - 1] = S[i])
  BY DEF Dropped
<1>n. new[s][p] = IF WritesTo(S[1], s, p) THEN S[1].frame ELSE held[s][p]
  BY DEF Does
<1>1. ASSUME NEW i \in Pos(S), i # 1, WritesTo(S[i], s, p), S[i].frame = f
      PROVE  Own(T, new, s, p, f)
  BY <1>1, <1>d DEF Own
<1>2. ASSUME WritesTo(S[1], s, p), S[1].frame = f PROVE Own(T, new, s, p, f)
  <2>1. \A i \in Pos(T) : WritesTo(T[i], s, p) => f <= T[i].frame
    BY <1>2, <1>d DEF Ordered, WritesTo
  <2>2. new[s][p] = f
    BY <1>2, <1>n
  <2> QED
    BY <2>1, <2>2 DEF Own
<1>3. ASSUME held[s][p] \in (IF p = "final" THEN {f} ELSE {f, None}),
             \A i \in Pos(S) : WritesTo(S[i], s, p) => f <= S[i].frame
      PROVE  Own(T, new, s, p, f)
  <2>1. CASE WritesTo(S[1], s, p)
    <3>1. S[1].frame = f
      <4>1. S[1].frame \in Nat /\ f <= S[1].frame /\ S[1].frame <= f
        BY <1>3, <1>d, <2>1, Elements, CommandsAre DEF WritesTo
      <4> QED
        BY <4>1
    <3> QED
      BY <1>2, <2>1, <3>1
  <2>2. CASE ~WritesTo(S[1], s, p)
    <3>1. new[s][p] = held[s][p]
      BY <1>n, <2>2
    <3>2. \A i \in Pos(T) : WritesTo(T[i], s, p) => f <= T[i].frame
      BY <1>3, <1>d
    <3> QED
      BY <1>3, <3>1, <3>2 DEF Own
  <2> QED
    BY <2>1, <2>2
<1> QED
  BY <1>1, <1>2, <1>3 DEF Own

LEMMA OwnedMore ==
    ASSUME NEW S, NEW q \in Seq(Command), NEW held, Owned(S, q, held),
           NEW T, NEW c \in Command, Extended(S, T, c),
           Writes(c) => \A j \in Pos(q) : Draws(q[j]) => q[j].frame < c.frame
    PROVE  Owned(T, q, held)
<1> SUFFICES ASSUME NEW j \in Pos(q), Draws(q[j]), NEW p,
                    Own(S, held, q[j].slot, p, q[j].frame)
             PROVE  Own(T, held, q[j].slot, p, q[j].frame)
  BY DEF Owned
<1>1. ASSUME WritesTo(c, q[j].slot, p) PROVE q[j].frame <= c.frame
  <2>1. q[j].frame < c.frame /\ q[j].frame \in Nat /\ c.frame \in Nat
    BY <1>1, Elements, CommandsAre DEF WritesTo
  <2> QED
    BY <2>1
<1> QED
  BY <1>1, OwnMore

\* The first write does not disturb a draw: it has waited for it, if it is for
\* a later frame.
LEMMA OwnedLess ==
    ASSUME NEW S \in Seq(Command), NEW q \in Seq(Command), NEW held, Owned(S, q, held),
           NEW g, Ordered(S, q, g), Protected(S, q),
           NEW T, Dropped(S, T), NEW new, Does(S[1], held, new)
    PROVE  Owned(T, q, new)
<1> SUFFICES ASSUME NEW j \in Pos(q), Draws(q[j]), NEW p \in Parts,
                    Own(S, held, q[j].slot, p, q[j].frame)
             PROVE  Own(T, new, q[j].slot, p, q[j].frame)
  BY DEF Owned, Parts
<1>1. q[j].slot \in Slots /\ q[j].frame \in Nat
  BY Elements, CommandsAre
<1>2. ASSUME WritesTo(S[1], q[j].slot, p) PROVE S[1].frame <= q[j].frame
  <2>1. 1 \in Pos(S) /\ Writes(S[1]) /\ S[1].slot = q[j].slot /\ S[1].frame \in Nat
    BY <1>2, Elements, CommandsAre DEF WritesTo, Dropped
  <2>2. ~(q[j].frame < S[1].frame)
    BY <2>1, NoGuardAhead DEF Protected
  <2> QED
    BY <1>1, <2>1, <2>2
<1> QED
  BY <1>1, <1>2, OwnLess

LEMMA OwnedDrawn ==
    ASSUME NEW S, NEW q, NEW held, Owned(S, q, held), NEW r, NEW c, Extended(q, r, c),
           Draws(c) =>
             /\ Own(S, held, c.slot, "final", c.frame)
             /\ c.reads => \A p \in {"hudless", "inputs"} : Own(S, held, c.slot, p, c.frame)
    PROVE  Owned(S, r, held)
  BY DEF Owned, Extended

LEMMA OwnedDone ==
    ASSUME NEW S, NEW q, NEW held, Owned(S, q, held), NEW r, Dropped(q, r)
    PROVE  Owned(S, r, held)
  BY DEF Owned, Dropped

-----------------------------------------------------------------------------
(* The ring *)

LEMMA ReleasedMore ==
    ASSUME NEW q, NEW rel, Released(q, rel), NEW r, NEW c, Extended(q, r, c), ~Draws(c)
    PROVE  Released(r, rel)
  BY DEF Released, Extended

LEMMA ReleasedLess ==
    ASSUME NEW q, NEW rel, Released(q, rel), NEW r, Dropped(q, r)
    PROVE  Released(r, rel)
<1> SUFFICES ASSUME NEW j \in Pos(r), Draws(r[j])
             PROVE  \E k \in Pos(r) : j < k /\ Signals(r[k]) /\ r[k].value <= rel[r[j].slot]
  BY DEF Released
<1>1. j \in Nat /\ j + 1 \in Pos(q) /\ r[j] = q[j + 1] /\ 1 < j + 1
  BY DEF Dropped
<1> PICK k \in Pos(q) : j + 1 < k /\ Signals(q[k]) /\ q[k].value <= rel[r[j].slot]
  BY <1>1 DEF Released
<1>2. k \in Nat /\ k # 1
  BY <1>1 DEF Dropped
<1>3. k - 1 \in Pos(r) /\ r[k - 1] = q[k] /\ j < k - 1
  BY <1>1, <1>2 DEF Dropped
<1> QED
  BY <1>3 DEF Released

\* A draw of the current slot and its signal; the signals are in order.
LEMMA ReleasedDrawn ==
    ASSUME NEW q \in Seq(Command), NEW rel \in [Slots -> Nat], Released(q, rel),
           NEW s \in Slots, NEW v \in Nat, \A t \in Slots : rel[t] <= v,
           NEW c, NEW r, Extended(q, r, c), Draws(c), c.slot = s,
           NEW w, NEW u, Extended(r, u, w), Signals(w), w.value = v, ~Draws(w)
    PROVE  Released(u, [rel EXCEPT ![s] = v])
<1> SUFFICES ASSUME NEW j \in Pos(u), Draws(u[j])
             PROVE  \E k \in Pos(u) : /\ j < k /\ Signals(u[k])
                                      /\ u[k].value <= [rel EXCEPT ![s] = v][u[j].slot]
  BY DEF Released
<1>1. /\ Len(u) \in Pos(u) /\ u[Len(u)] = w /\ v <= v
      /\ j \in Pos(r) /\ u[j] = r[j] /\ j < Len(u)
  BY DEF Extended
<1>2. CASE r[j].slot = s
  <2>1. [rel EXCEPT ![s] = v][u[j].slot] = v
    BY <1>1, <1>2
  <2> QED
    BY <1>1, <2>1
<1>3. CASE r[j].slot # s
  <2>1. j \in Pos(q) /\ r[j] = q[j] /\ q[j].slot \in Slots
    BY <1>1, <1>3, Elements, CommandsAre DEF Extended
  <2>2. [rel EXCEPT ![s] = v][u[j].slot] = rel[q[j].slot]
    BY <1>1, <1>3, <2>1
  <2>3. PICK k \in Pos(q) : j < k /\ Signals(q[k]) /\ q[k].value <= rel[q[j].slot]
    BY <1>1, <2>1 DEF Released
  <2>4. k \in Pos(u) /\ u[k] = q[k]
    BY DEF Extended
  <2> QED
    BY <2>2, <2>3, <2>4
<1> QED
  BY <1>2, <1>3

\* What a fence that is past a slot's value says of the slot.
LEMMA NotReading ==
    ASSUME NEW q \in Seq(Command), NEW rel \in [Slots -> Nat], Released(q, rel),
           NEW d \in Nat, NEW v, Fenced(q, d, v), NEW s \in Slots, rel[s] <= d
    PROVE  \A j \in Pos(q) : ~(Draws(q[j]) /\ q[j].slot = s)
<1> SUFFICES ASSUME NEW j \in Pos(q), Draws(q[j]), q[j].slot = s PROVE FALSE
  OBVIOUS
<1> PICK k \in Pos(q) : Signals(q[k]) /\ q[k].value <= rel[s]
  BY DEF Released
<1>1. q[k].value \in Nat /\ d < q[k].value /\ rel[s] \in Nat
  BY Elements, CommandsAre DEF Fenced
<1> QED
  BY <1>1

-----------------------------------------------------------------------------
(* The stream *)

LEMMA StreamIs ==
    ASSUME TypeOK
    PROVE  /\ queue11 \in Seq(Command) /\ recorded \in Seq(Command)
           /\ queue12 \in Seq(Command) /\ stream \in Seq(Command)
  BY DEF TypeOK, stream

\* Concatenation by name: the provers rewrite chains of it where they see them.
Cat(x, y) == x \o y

LEMMA Joined ==
    ASSUME NEW x \in Seq(Command), NEW y \in Seq(Command), NEW p, p = x \o y
    PROVE  /\ p \in Seq(Command) /\ Len(p) = Len(x) + Len(y)
           /\ Len(x) \in Nat /\ Len(y) \in Nat
           /\ \A i \in 1 .. Len(p) : p[i] = IF i <= Len(x) THEN x[i] ELSE y[i - Len(x)]
  BY ConcatProperties

LEMMA JoinedTwice ==
    ASSUME NEW x \in Seq(Command), NEW y \in Seq(Command), NEW z \in Seq(Command),
           NEW p, p = x \o y, NEW q, q = y \o z, NEW a, a = x \o q, NEW b, b = p \o z
    PROVE  a = b
<1>1. /\ p \in Seq(Command) /\ Len(p) = Len(x) + Len(y)
      /\ Len(x) \in Nat /\ Len(y) \in Nat
      /\ \A i \in 1 .. Len(p) : p[i] = IF i <= Len(x) THEN x[i] ELSE y[i - Len(x)]
  BY Joined
<1>2. /\ q \in Seq(Command) /\ Len(q) = Len(y) + Len(z) /\ Len(z) \in Nat
      /\ \A i \in 1 .. Len(q) : q[i] = IF i <= Len(y) THEN y[i] ELSE z[i - Len(y)]
  BY Joined
<1>3. /\ a \in Seq(Command) /\ Len(a) = Len(x) + Len(q)
      /\ \A i \in 1 .. Len(a) : a[i] = IF i <= Len(x) THEN x[i] ELSE q[i - Len(x)]
  BY <1>2, Joined
<1>4. /\ b \in Seq(Command) /\ Len(b) = Len(p) + Len(z)
      /\ \A i \in 1 .. Len(b) : b[i] = IF i <= Len(p) THEN p[i] ELSE z[i - Len(p)]
  BY <1>1, Joined
<1>5. Len(a) = Len(b)
  BY <1>1, <1>2, <1>3, <1>4
<1>6. ASSUME NEW i \in 1 .. Len(a) PROVE a[i] = b[i]
  <2>1. CASE i <= Len(x)
    BY <2>1, <1>1, <1>2, <1>3, <1>4
  <2>2. CASE i > Len(x) /\ i <= Len(p)
    BY <2>2, <1>1, <1>2, <1>3, <1>4
  <2>3. CASE i > Len(p)
    BY <2>3, <1>1, <1>2, <1>3, <1>4
  <2> QED
    BY <1>1, <1>2, <1>3, <2>1, <2>2, <2>3
<1> QED
  BY ONLY <1>3, <1>4, <1>5, <1>6, SeqEqual

LEMMA Associates ==
    \A x, y, z \in Seq(Command) : /\ Cat(x, Cat(y, z)) = Cat(Cat(x, y), z)
                                  /\ Cat(x, y) \in Seq(Command)
<1> SUFFICES ASSUME NEW x \in Seq(Command), NEW y \in Seq(Command), NEW z \in Seq(Command)
             PROVE  Cat(x, Cat(y, z)) = Cat(Cat(x, y), z) /\ Cat(x, y) \in Seq(Command)
  OBVIOUS
<1> DEFINE p == Cat(x, y)
           q == Cat(y, z)
<1>1. p = x \o y /\ q = y \o z
  BY DEF Cat
<1> HIDE DEF p, q
<1>2. Cat(x, q) = x \o q /\ Cat(p, z) = p \o z
  BY DEF Cat
<1>3. p \in Seq(Command)
  BY <1>1, Joined
<1>4. Cat(x, q) = Cat(p, z)
  BY <1>1, <1>2, JoinedTwice
<1> QED
  BY <1>3, <1>4 DEF p, q

LEMMA Pairs ==
    \A x, y : <<x, y>> = Cat(<<x>>, <<y>>)
<1> SUFFICES ASSUME NEW x, NEW y PROVE <<x, y>> = <<x>> \o <<y>>
  BY DEF Cat
<1>1. <<x>> \in Seq({x, y}) /\ y \in {x, y}
  OBVIOUS
<1>2. Append(<<x>>, y) = <<x>> \o <<y>>
  BY <1>1, AppendIsConcat
<1>3. Append(<<x>>, y) = <<x, y>>
  <2>1. /\ Append(<<x>>, y) \in Seq({x, y}) /\ Len(Append(<<x>>, y)) = 2
        /\ Append(<<x>>, y)[1] = x /\ Append(<<x>>, y)[2] = y
    BY <1>1
  <2> DEFINE s == Append(<<x>>, y)
             t == <<x, y>>
  <2>2. t \in Seq({x, y}) /\ Len(t) = 2 /\ t[1] = x /\ t[2] = y
    OBVIOUS
  <2>3. s \in Seq({x, y}) /\ Len(s) = 2 /\ s[1] = x /\ s[2] = y
    BY <2>1
  <2> HIDE DEF s, t
  <2>4. \A i \in 1 .. 2 : i = 1 \/ i = 2
    OBVIOUS
  <2>5. Len(s) = Len(t) /\ \A i \in 1 .. Len(s) : s[i] = t[i]
    BY <2>2, <2>3, <2>4
  <2>6. s = t
    BY <2>2, <2>3, <2>5, SeqEqual
  <2> QED
    BY <2>6 DEF s, t
<1> QED
  BY <1>2, <1>3

\* What is recorded, in two parts: u and y on what was recorded is T and y on
\* the stream.
LEMMA StreamRecorded ==
    ASSUME TypeOK, NEW x \in Seq(Command), NEW y \in Seq(Command),
           NEW u, u = Cat(recorded, x), NEW T, T = Cat(stream, x)
    PROVE  /\ u \in Seq(Command) /\ T \in Seq(Command)
           /\ Cat(u, y) \in Seq(Command) /\ Cat(T, y) \in Seq(Command)
           /\ Cat(queue11, u) = T /\ Cat(queue11, Cat(u, y)) = Cat(T, y)
<1>1. queue11 \in Seq(Command) /\ recorded \in Seq(Command) /\ stream \in Seq(Command)
  BY StreamIs
<1>2. u \in Seq(Command) /\ T \in Seq(Command) /\ stream = Cat(queue11, recorded)
  BY <1>1, Associates DEF stream, Cat
<1> QED
  BY <1>1, <1>2, Associates

LEMMA StreamTakes ==
    ASSUME TypeOK, NEW x \in Seq(Command)
    PROVE  Cat(queue11, Cat(recorded, x)) = Cat(stream, x)
<1>1. queue11 \in Seq(Command) /\ recorded \in Seq(Command)
  BY StreamIs
<1>2. stream = Cat(queue11, recorded)
  BY DEF stream, Cat
<1> QED
  BY <1>1, <1>2, Associates

LEMMA StreamDone ==
    ASSUME TypeOK, queue11 # <<>>
    PROVE  /\ stream # <<>> /\ Head(queue11) = stream[1]
           /\ Tail(queue11) \in Seq(Command) /\ Tail(queue11) \o recorded = Tail(stream)
<1>1. queue11 \in Seq(Command) /\ recorded \in Seq(Command) /\ stream \in Seq(Command)
  BY StreamIs
<1>2. /\ Len(queue11) \in Nat /\ Len(queue11) > 0 /\ Head(queue11) = queue11[1]
      /\ Len(recorded) \in Nat
  BY <1>1
<1>3. /\ Len(stream) = Len(queue11) + Len(recorded)
      /\ \A i \in 1 .. Len(queue11) + Len(recorded) :
            stream[i] = IF i <= Len(queue11) THEN queue11[i] ELSE recorded[i - Len(queue11)]
  BY <1>1, ConcatProperties DEF stream
<1>4. Len(stream) > 0 /\ stream[1] = queue11[1] /\ stream # <<>>
  <2>1. Len(stream) > 0 /\ 1 \in 1 .. Len(queue11) + Len(recorded) /\ 1 <= Len(queue11)
    BY <1>2, <1>3
  <2> QED
    BY <1>3, <2>1, EmptySeq
<1>5. /\ Tail(queue11) \in Seq(Command) /\ Len(Tail(queue11)) = Len(queue11) - 1
      /\ \A i \in 1 .. Len(Tail(queue11)) : Tail(queue11)[i] = queue11[i + 1]
  BY <1>1, <1>2
<1>6. /\ Tail(stream) \in Seq(Command) /\ Len(Tail(stream)) = Len(stream) - 1
      /\ \A i \in 1 .. Len(Tail(stream)) : Tail(stream)[i] = stream[i + 1]
  BY <1>1, <1>4
<1> DEFINE n == Len(queue11) - 1
           m == Len(recorded)
           t == Tail(queue11)
<1>7. n \in Nat /\ m \in Nat /\ Len(queue11) = n + 1 /\ Len(stream) = n + 1 + m
  BY <1>2, <1>3
<1>8. /\ t \o recorded \in Seq(Command) /\ Len(t \o recorded) = n + m
      /\ \A i \in 1 .. n + m : (t \o recorded)[i] = IF i <= n THEN t[i] ELSE recorded[i - n]
  BY <1>1, <1>5, ConcatProperties
<1>9. ASSUME NEW i \in 1 .. n + m PROVE (t \o recorded)[i] = Tail(stream)[i]
  <2>1. i \in 1 .. Len(Tail(stream)) /\ i + 1 \in 1 .. Len(queue11) + Len(recorded)
    BY <1>6, <1>7
  <2>2. Tail(stream)[i] = IF i + 1 <= Len(queue11) THEN queue11[i + 1]
                                                  ELSE recorded[(i + 1) - Len(queue11)]
    BY <1>3, <1>6, <2>1
  <2>3. CASE i <= n
    <3>1. i \in 1 .. Len(t) /\ i + 1 <= Len(queue11)
      BY <1>5, <1>7, <2>3
    <3> QED
      BY <1>5, <1>8, <2>2, <2>3, <3>1
  <2>4. CASE ~(i <= n)
    <3>1. ~(i + 1 <= Len(queue11)) /\ (i + 1) - Len(queue11) = i - n
      BY <1>7, <2>4
    <3> QED
      BY <1>8, <2>2, <2>4, <3>1
  <2> QED
    BY <2>3, <2>4
<1>10. Len(Tail(stream)) = n + m
  BY <1>6, <1>7
<1>11. t \o recorded = Tail(stream)
  BY <1>6, <1>8, <1>9, <1>10, SeqEqual
<1> QED
  BY <1>2, <1>4, <1>5, <1>11

\* A resize turns the writes away from the slots and leaves the rest alone.
LEMMA OrphanedIs ==
    ASSUME NEW S \in Seq(Command)
    PROVE  /\ Orphaned(S) \in Seq(Command) /\ Len(Orphaned(S)) = Len(S)
           /\ \A i \in Pos(S) :
                /\ Orphaned(S)[i].op = S[i].op
                /\ ~Writes(S[i]) => Orphaned(S)[i] = S[i]
                /\ Writes(S[i]) => Orphaned(S)[i].slot = Gone /\ Orphaned(S)[i].frame = S[i].frame
<1> DEFINE O == Orphaned(S)
<1>1. /\ DOMAIN S = Pos(S) /\ Len(S) \in Nat /\ Pos(S) = 1 .. Len(S)
      /\ \A i \in Pos(S) : S[i] \in Command
  BY Elements DEF Pos
<1>2. O = [i \in Pos(S) |-> IF S[i].op = "write" THEN [S[i] EXCEPT !.slot = Gone] ELSE S[i]]
  BY <1>1 DEF Orphaned
<1>3. ASSUME NEW c \in Command, Writes(c)
      PROVE  LET d == [c EXCEPT !.slot = Gone]
             IN  d \in Command /\ d.op = c.op /\ d.slot = Gone /\ d.frame = c.frame
  <2>1. c \in [op : {"write"}, slot : Slots \cup {Gone}, part : Parts, frame : Frames]
    BY <1>3 DEF Command, Writes
  <2> QED
    BY <2>1 DEF Command
<1>4. \A i \in Pos(S) : O[i] = IF S[i].op = "write" THEN [S[i] EXCEPT !.slot = Gone] ELSE S[i]
  BY <1>2
<1>5. \A i \in Pos(S) : /\ O[i] \in Command /\ O[i].op = S[i].op
                        /\ ~Writes(S[i]) => O[i] = S[i]
                        /\ Writes(S[i]) => O[i].slot = Gone /\ O[i].frame = S[i].frame
  BY <1>1, <1>3, <1>4 DEF Writes
<1>6. O \in [1 .. Len(S) -> Command]
  BY <1>1, <1>2, <1>5
<1>7. O \in Seq(Command) /\ Len(O) = Len(S)
  BY <1>1, <1>6
<1> QED
  BY <1>5, <1>7

LEMMA StreamOrphaned ==
    ASSUME TypeOK
    PROVE  /\ Orphaned(queue11) \in Seq(Command) /\ Orphaned(recorded) \in Seq(Command)
           /\ Orphaned(queue11) \o Orphaned(recorded) = Orphaned(stream)
<1>1. /\ queue11 \in Seq(Command) /\ recorded \in Seq(Command) /\ stream \in Seq(Command)
  BY StreamIs
<1> DEFINE a == queue11
           b == recorded
           n == Len(a)
           m == Len(b)
<1>2. /\ n \in Nat /\ m \in Nat /\ Len(stream) = n + m
      /\ \A i \in 1 .. n + m : stream[i] = IF i <= n THEN a[i] ELSE b[i - n]
  BY <1>1, ConcatProperties DEF stream
<1>3. /\ Orphaned(a) \in Seq(Command) /\ Len(Orphaned(a)) = n
      /\ Orphaned(b) \in Seq(Command) /\ Len(Orphaned(b)) = m
      /\ Orphaned(stream) \in Seq(Command) /\ Len(Orphaned(stream)) = n + m
  BY <1>1, <1>2, OrphanedIs
<1>4. /\ Orphaned(a) \o Orphaned(b) \in Seq(Command)
      /\ Len(Orphaned(a) \o Orphaned(b)) = n + m
      /\ \A i \in 1 .. n + m : (Orphaned(a) \o Orphaned(b))[i] =
            IF i <= n THEN Orphaned(a)[i] ELSE Orphaned(b)[i - n]
  <2> DEFINE u == Orphaned(a)
             w == Orphaned(b)
  <2>1. u \in Seq(Command) /\ w \in Seq(Command) /\ Len(u) = n /\ Len(w) = m
    BY <1>3
  <2> HIDE DEF u, w, n, m
  <2>2. /\ u \o w \in Seq(Command) /\ Len(u \o w) = Len(u) + Len(w)
        /\ \A i \in 1 .. Len(u) + Len(w) : (u \o w)[i] =
              IF i <= Len(u) THEN u[i] ELSE w[i - Len(u)]
    BY <2>1, ConcatProperties
  <2>3. /\ u \o w \in Seq(Command) /\ Len(u \o w) = n + m
        /\ \A i \in 1 .. n + m : (u \o w)[i] = IF i <= n THEN u[i] ELSE w[i - n]
    BY <2>1, <2>2
  <2> QED
    BY <2>3 DEF u, w
<1>5. /\ DOMAIN a = 1 .. n /\ DOMAIN b = 1 .. m /\ DOMAIN stream = 1 .. n + m
  BY <1>1, <1>2
<1>6. ASSUME NEW i \in 1 .. n + m
      PROVE  (Orphaned(a) \o Orphaned(b))[i] = Orphaned(stream)[i]
  <2>0. Orphaned(stream)[i] = IF stream[i].op = "write" THEN [stream[i] EXCEPT !.slot = Gone]
                                                       ELSE stream[i]
    BY <1>5 DEF Orphaned
  <2>1. CASE i <= n
    <3>1. i \in 1 .. n /\ stream[i] = a[i]
      BY <1>2, <2>1
    <3>2. Orphaned(a)[i] = IF a[i].op = "write" THEN [a[i] EXCEPT !.slot = Gone] ELSE a[i]
      BY <1>5, <3>1 DEF Orphaned
    <3> QED
      BY <1>4, <2>0, <2>1, <3>1, <3>2
  <2>2. CASE ~(i <= n)
    <3>1. i - n \in 1 .. m /\ stream[i] = b[i - n]
      BY <1>2, <2>2
    <3>2. Orphaned(b)[i - n] = IF b[i - n].op = "write" THEN [b[i - n] EXCEPT !.slot = Gone]
                                                       ELSE b[i - n]
      BY <1>5, <3>1 DEF Orphaned
    <3> QED
      BY <1>4, <2>0, <2>2, <3>1, <3>2
  <2> QED
    BY <2>1, <2>2
<1>7. Orphaned(a) \o Orphaned(b) = Orphaned(stream)
  BY <1>3, <1>4, <1>6, SeqEqual
<1> QED
  BY <1>3, <1>7

-----------------------------------------------------------------------------
(* All that is kept of the two queues at once *)

Kept(S, q, held, done, value, f) ==
    /\ Fenced(S, done, value)
    /\ Protected(S, q) /\ Handed(S, q)
    /\ Ordered(S, q, f) /\ Owned(S, q, held)

\* The thread records a wait or a signal ...
LEMMA KeptQuiet ==
    ASSUME NEW S \in Seq(Command), NEW q \in Seq(Command), NEW held,
           NEW d \in Nat, NEW v \in Nat, NEW f \in Nat, Kept(S, q, held, d, v, f),
           NEW T, NEW c \in Command, Extended(S, T, c), ~Writes(c),
           NEW w \in Nat, v <= w, Signals(c) => v < c.value /\ c.value <= w
    PROVE  /\ Kept(T, q, held, d, w, f)
           /\ \A s \in Slots, p \in Parts : Own(S, held, s, p, f) => Own(T, held, s, p, f)
<1>1. /\ Fenced(S, d, v) /\ d <= v /\ Protected(S, q) /\ Handed(S, q)
      /\ Ordered(S, q, f) /\ Owned(S, q, held)
  BY DEF Kept, Fenced
<1>2. Fenced(T, d, w)
  BY <1>1, FencedMore
<1>3. Protected(T, q)
  BY <1>1, ProtectedMore
<1>4. Handed(T, q)
  BY <1>1, HandedMore
<1>5. Ordered(T, q, f)
  BY <1>1, OrderedMore
<1>6. Owned(T, q, held)
  BY <1>1, OwnedMore
<1>7. \A s \in Slots, p \in Parts : Own(S, held, s, p, f) => Own(T, held, s, p, f)
  BY OwnMore DEF WritesTo
<1> QED
  BY <1>2, <1>3, <1>4, <1>5, <1>6, <1>7 DEF Kept

\* ... or a write of the frame, to a slot whose draws it waits for.
LEMMA KeptWrite ==
    ASSUME NEW S \in Seq(Command), NEW q \in Seq(Command), NEW held,
           NEW d \in Nat, NEW v \in Nat, NEW f \in Nat, Kept(S, q, held, d, v, f),
           NEW T, NEW c \in Command, Extended(S, T, c), Writes(c), c.frame = f,
           SlotGuarded(S, q, Len(T), c.slot)
    PROVE  Kept(T, q, held, d, v, f)
<1>1. /\ Fenced(S, d, v) /\ d <= v /\ Protected(S, q) /\ Handed(S, q)
      /\ Ordered(S, q, f) /\ Owned(S, q, held) /\ ~Signals(c)
  BY CommandsAre DEF Kept, Fenced
<1>2. Fenced(T, d, v)
  BY <1>1, FencedMore
<1>g. \A j \in Pos(q) : Draws(q[j]) /\ c.slot = q[j].slot => Guarded(S, q, Len(T), j)
  BY DEF SlotGuarded
<1>3. Protected(T, q)
  BY <1>1, <1>g, ProtectedMore
<1>d. \A j \in Pos(q) : Draws(q[j]) => q[j].frame < c.frame
  BY <1>1 DEF Ordered
<1>4. Handed(T, q)
  BY <1>1, <1>d, HandedMore
<1>5. Ordered(T, q, f)
  BY <1>1, OrderedMore
<1>6. Owned(T, q, held)
  BY <1>1, <1>d, OwnedMore
<1> QED
  BY <1>2, <1>3, <1>4, <1>5, <1>6 DEF Kept

\* D3D12 is given a wait or a signal, or the frame's draw.
LEMMA KeptDrawn ==
    ASSUME NEW S \in Seq(Command), NEW q \in Seq(Command), NEW held,
           NEW d, NEW v, NEW f \in Nat, Kept(S, q, held, d, v, f),
           NEW r, NEW c \in Command, Extended(q, r, c), NEW g \in Nat,
           \/ ~Draws(c) /\ f <= g
           \/ /\ Draws(c) /\ c.frame = f /\ g = f + 1 /\ HandedOver(S, q)
              /\ Own(S, held, c.slot, "final", f)
              /\ c.reads => \A p \in {"hudless", "inputs"} : Own(S, held, c.slot, p, f)
    PROVE  Kept(S, r, held, d, v, g)
<1>1. /\ Fenced(S, d, v) /\ Protected(S, q) /\ Handed(S, q)
      /\ Ordered(S, q, f) /\ Owned(S, q, held)
  BY DEF Kept
<1>2. Draws(c) => \A i \in Pos(S) : Writes(S[i]) => S[i].frame <= c.frame
  BY <1>1 DEF Ordered
<1>3. Protected(S, r)
  BY <1>1, <1>2, ProtectedDrawn
<1>4. Handed(S, r)
  BY <1>1, HandedDrawn
<1>5. Ordered(S, r, g)
  BY <1>1, OrderedDrawn
<1>6. Owned(S, r, held)
  BY <1>1, OwnedDrawn
<1> QED
  BY <1>1, <1>3, <1>4, <1>5, <1>6 DEF Kept

\* D3D11 does the first command ...
LEMMA KeptLess ==
    ASSUME NEW S \in Seq(Command), NEW q \in Seq(Command), NEW held,
           NEW d \in Nat, NEW v \in Nat, NEW f \in Nat, Kept(S, q, held, d, v, f),
           NEW T, Dropped(S, T), NEW new, Does(S[1], held, new),
           NEW a \in Nat, NEW b \in Nat, Fenced(q, a, b), Waits(S[1]) => S[1].value <= a,
           NEW e, e = d \/ (Signals(S[1]) /\ e = S[1].value)
    PROVE  /\ Kept(T, q, new, e, v, f)
           /\ \A s \in Slots, p \in Parts : Own(S, held, s, p, f) => Own(T, new, s, p, f)
<1>1. /\ Fenced(S, d, v) /\ Protected(S, q) /\ Handed(S, q)
      /\ Ordered(S, q, f) /\ Owned(S, q, held)
  BY DEF Kept
<1>2. Fenced(T, e, v)
  BY <1>1, FencedLess
<1>3. Protected(T, q)
  BY <1>1, ProtectedLess
<1>4. Handed(T, q)
  BY <1>1, HandedLess
<1>5. Ordered(T, q, f)
  BY <1>1, OrderedLess
<1>6. Owned(T, q, new)
  BY <1>1, OwnedLess
<1>7. ASSUME NEW s \in Slots, NEW p \in Parts, Own(S, held, s, p, f)
      PROVE  Own(T, new, s, p, f)
  <2>1. WritesTo(S[1], s, p) => S[1].frame <= f
    BY <1>1 DEF WritesTo, Ordered, Dropped
  <2> QED
    BY <1>1, <1>7, <2>1, OwnLess
<1> QED
  BY <1>2, <1>3, <1>4, <1>5, <1>6, <1>7 DEF Kept

\* ... and so does D3D12.
LEMMA KeptDone ==
    ASSUME NEW S \in Seq(Command), NEW q \in Seq(Command), NEW held,
           NEW d \in Nat, NEW v \in Nat, NEW f, Kept(S, q, held, d, v, f),
           NEW r, Dropped(q, r), Waits(q[1]) => q[1].value <= d
    PROVE  Kept(S, r, held, d, v, f)
<1>1. /\ Fenced(S, d, v) /\ Protected(S, q) /\ Handed(S, q)
      /\ Ordered(S, q, f) /\ Owned(S, q, held)
  BY DEF Kept
<1>2. Protected(S, r)
  BY <1>1, ProtectedDone
<1>3. Handed(S, r)
  BY <1>1, HandedDone
<1>4. Ordered(S, r, f)
  BY <1>1, OrderedDone
<1>5. Owned(S, r, held)
  BY <1>1, OwnedDone
<1> QED
  BY <1>1, <1>2, <1>3, <1>4, <1>5 DEF Kept
-----------------------------------------------------------------------------
(* Taking the slot *)

LEMMA Numbers ==
    ASSUME IInv
    PROVE  /\ TypeOK /\ frame \in Frames /\ frame \in Nat /\ current \in Slots
           /\ release \in [Slots -> Nat] /\ ReleaseValue \in Nat /\ waitedFor \in Nat
           /\ readyValue \in Nat /\ releaseValue \in Nat
           /\ readyDone \in Nat /\ releaseDone \in Nat
           /\ slots \in [Slots -> [Parts -> Frames \cup {None}]]
           /\ Kept(stream, queue12, slots, readyDone, readyValue, frame)
           /\ stream \in Seq(Command) /\ queue11 \in Seq(Command)
           /\ recorded \in Seq(Command) /\ queue12 \in Seq(Command)
<1>1. TypeOK
  BY DEF IInv, TypeInv
<1>2. Kept(stream, queue12, slots, readyDone, readyValue, frame)
  BY DEF IInv, FenceInv, RingInv, HandInv, OwnInv, Kept
<1>3. /\ frame \in Frames /\ current \in Slots /\ release \in [Slots -> Nat]
      /\ waitedFor \in Nat /\ slots \in [Slots -> [Parts -> Frames \cup {None}]]
      /\ readyValue \in Nat /\ releaseValue \in Nat /\ readyDone \in Nat /\ releaseDone \in Nat
  BY <1>1 DEF TypeOK
<1> QED
  BY <1>1, <1>2, <1>3, NumbersAre, StreamIs DEF ReleaseValue

\* What the slot's wait makes of waitedFor.
NowWaited == IF ReleaseValue = 0 THEN waitedFor ELSE ReleaseValue

LEMMA SlotWaitIs ==
    ASSUME IInv
    PROVE  \/ SlotWait = <<>> /\ (ReleaseValue = 0 \/ ReleaseValue = waitedFor)
           \/ SlotWait = <<Wait(ReleaseValue)>> /\ ReleaseValue # 0
  BY DEF SlotWait

\* After the wait nothing that reads the slot is ahead of what comes next.
LEMMA TakesSlot ==
    ASSUME IInv, NEW T, T = Cat(stream, SlotWait)
    PROVE  /\ SlotWait \in Seq(Command) /\ T \in Seq(Command) /\ NowWaited \in Nat
           /\ Kept(T, queue12, slots, readyDone, readyValue, frame)
           /\ \A s \in Slots, p \in Parts :
                Own(stream, slots, s, p, frame) => Own(T, slots, s, p, frame)
           /\ \/ NowWaited <= releaseDone
              \/ \E h \in Pos(T) : Waits(T[h]) /\ T[h].value = NowWaited
           /\ SlotGuarded(T, queue12, Len(T) + 1, current)
<1>n. /\ ReleaseValue \in Nat /\ waitedFor \in Nat /\ NowWaited \in Nat
      /\ stream \in Seq(Command) /\ queue12 \in Seq(Command)
      /\ current \in Slots /\ release \in [Slots -> Nat] /\ releaseDone \in Nat
      /\ readyValue \in Nat /\ readyDone \in Nat /\ frame \in Nat
      /\ Kept(stream, queue12, slots, readyDone, readyValue, frame)
  BY Numbers DEF NowWaited
<1>r. /\ Released(queue12, release) /\ Fenced(queue12, releaseDone, releaseValue)
      /\ \/ waitedFor <= releaseDone
         \/ \E h \in Pos(stream) : Waits(stream[h]) /\ stream[h].value = waitedFor
  BY DEF IInv, RingInv, FenceInv
<1>1. CASE SlotWait = <<>> /\ (ReleaseValue = 0 \/ ReleaseValue = waitedFor)
  <2>1. SlotWait \in Seq(Command) /\ T = stream
    BY <1>1, <1>n, ConcatEmptySeq DEF Cat
  <2>2. NowWaited = waitedFor
    BY <1>1 DEF NowWaited
  <2>3. CASE ReleaseValue <= releaseDone
    <3>1. \A j \in Pos(queue12) : ~(Draws(queue12[j]) /\ queue12[j].slot = current)
      BY <1>n, <1>r, <2>3, NotReading DEF ReleaseValue
    <3> QED
      BY <1>n, <1>r, <2>1, <2>2, <3>1 DEF SlotGuarded
  <2>4. CASE ~(ReleaseValue <= releaseDone)
    <3>1. ReleaseValue = waitedFor
      BY <1>1, <1>n, <2>4
    <3>2. PICK h \in Pos(stream) : Waits(stream[h]) /\ stream[h].value = ReleaseValue
      BY <1>r, <2>4, <3>1
    <3>3. h < Len(stream) + 1
      BY <1>n, Elements DEF Pos
    <3>4. ASSUME NEW j \in Pos(queue12), Draws(queue12[j]), queue12[j].slot = current
          PROVE  Guarded(stream, queue12, Len(stream) + 1, j)
      <4>1. PICK k \in Pos(queue12) : /\ j < k /\ Signals(queue12[k])
                                      /\ queue12[k].value <= ReleaseValue
        BY <1>r, <3>4 DEF Released, ReleaseValue
      <4> QED
        BY <3>2, <3>3, <4>1 DEF Guarded
    <3> QED
      BY <1>n, <1>r, <2>1, <2>2, <3>4 DEF SlotGuarded
  <2> QED
    BY <2>3, <2>4
<1>2. CASE SlotWait = <<Wait(ReleaseValue)>> /\ ReleaseValue # 0
  <2> DEFINE c == Wait(ReleaseValue)
  <2>1. /\ c \in Command /\ Waits(c) /\ c.value = ReleaseValue
        /\ ~Writes(c) /\ ~Signals(c) /\ ~Draws(c)
    BY <1>n, MadeCommands
  <2>2. SlotWait \in Seq(Command) /\ T = stream \o <<c>>
    <3>1. SlotWait = <<c>>
      BY <1>2
    <3> HIDE DEF c
    <3> QED
      BY <2>1, <3>1 DEF Cat
  <2>3. NowWaited = ReleaseValue
    BY <1>2 DEF NowWaited
  <2> HIDE DEF c
  <2>4. T \in Seq(Command) /\ Extended(stream, T, c)
    BY <1>n, <2>1, <2>2, Extends
  <2>5. /\ Kept(T, queue12, slots, readyDone, readyValue, frame)
        /\ \A s \in Slots, p \in Parts :
             Own(stream, slots, s, p, frame) => Own(T, slots, s, p, frame)
    <3>1. readyValue <= readyValue
      BY <1>n
    <3> QED
      BY <1>n, <2>1, <2>4, <3>1, KeptQuiet
  <2>6. Len(T) \in Pos(T) /\ T[Len(T)] = c /\ Len(T) < Len(T) + 1
    BY <2>4 DEF Extended
  <2>7. ASSUME NEW j \in Pos(queue12), Draws(queue12[j]), queue12[j].slot = current
        PROVE  Guarded(T, queue12, Len(T) + 1, j)
    <3>1. PICK k \in Pos(queue12) : /\ j < k /\ Signals(queue12[k])
                                    /\ queue12[k].value <= ReleaseValue
      BY <1>r, <2>7 DEF Released, ReleaseValue
    <3> QED
      BY <2>1, <2>6, <3>1 DEF Guarded
  <2> QED
    BY <1>n, <2>1, <2>2, <2>3, <2>4, <2>5, <2>6, <2>7 DEF SlotGuarded
<1> QED
  BY <1>1, <1>2, SlotWaitIs

\* A write of the frame to the current slot, behind the wait.
LEMMA TakesWrite ==
    ASSUME IInv, NEW p \in Parts, NEW T, T = Cat(stream, SlotWait),
           NEW U, U = Cat(T, <<Write(current, p)>>)
    PROVE  /\ <<Write(current, p)>> \in Seq(Command) /\ U \in Seq(Command)
           /\ Kept(U, queue12, slots, readyDone, readyValue, frame)
           /\ Own(U, slots, current, p, frame)
           /\ \A s \in Slots, r \in Parts :
                Own(stream, slots, s, r, frame) => Own(U, slots, s, r, frame)
           /\ \/ NowWaited <= releaseDone
              \/ \E h \in Pos(U) : Waits(U[h]) /\ U[h].value = NowWaited
<1> DEFINE c == Write(current, p)
<1>n. /\ frame \in Frames /\ frame \in Nat /\ current \in Slots
      /\ readyValue \in Nat /\ readyDone \in Nat /\ queue12 \in Seq(Command)
  BY Numbers
<1>1. /\ c \in Command /\ Writes(c) /\ c.frame = frame /\ c.slot = current /\ c.part = p
      /\ ~Waits(c)
  BY <1>n, MadeCommands
<1>2. /\ T \in Seq(Command)
      /\ Kept(T, queue12, slots, readyDone, readyValue, frame)
      /\ \A s \in Slots, r \in Parts :
           Own(stream, slots, s, r, frame) => Own(T, slots, s, r, frame)
      /\ \/ NowWaited <= releaseDone
         \/ \E h \in Pos(T) : Waits(T[h]) /\ T[h].value = NowWaited
      /\ SlotGuarded(T, queue12, Len(T) + 1, current)
  BY TakesSlot
<1> HIDE DEF c
<1>3. <<c>> \in Seq(Command) /\ U = T \o <<c>>
  <2>1. U = Cat(T, <<c>>)
    BY DEF c
  <2> QED
    BY <1>1, <2>1 DEF Cat
<1>4. U \in Seq(Command) /\ Extended(T, U, c)
  BY <1>1, <1>2, <1>3, Extends
<1>5. SlotGuarded(T, queue12, Len(U), c.slot)
  BY <1>1, <1>2, <1>4 DEF Extended
<1>6. Kept(U, queue12, slots, readyDone, readyValue, frame)
  <2>1. /\ T \in Seq(Command) /\ queue12 \in Seq(Command)
        /\ readyDone \in Nat /\ readyValue \in Nat /\ frame \in Nat
        /\ Kept(T, queue12, slots, readyDone, readyValue, frame)
        /\ c \in Command /\ Extended(T, U, c) /\ Writes(c) /\ c.frame = frame
    BY <1>n, <1>1, <1>2, <1>4
  <2> QED
    BY <2>1, <1>5, KeptWrite
<1>o. /\ Own(U, slots, current, p, frame)
      /\ \A s \in Slots, r \in Parts :
           Own(T, slots, s, r, frame) => Own(U, slots, s, r, frame)
  <2>1. WritesTo(c, current, p) /\ frame <= c.frame
    BY <1>n, <1>1 DEF WritesTo
  <2> QED
    BY <1>1, <1>4, <2>1, OwnWritten, OwnMore
<1>7. \/ NowWaited <= releaseDone
      \/ \E h \in Pos(U) : Waits(U[h]) /\ U[h].value = NowWaited
  BY <1>2, <1>4 DEF Extended
<1> QED
  BY <1>1, <1>2, <1>3, <1>4, <1>6, <1>7, <1>o DEF c
-----------------------------------------------------------------------------
(* The initial state, and the frame's steps *)

LEMMA EmptyKept ==
    /\ <<>> \in Seq(Command) /\ Pos(<<>>) = {}
    /\ <<>> \o <<>> = <<>> /\ Len(<<>>) = 0
  BY DEF Pos

LEMMA InitInv ==
    Init => IInv
<1> SUFFICES ASSUME Init PROVE IInv
  OBVIOUS
<1> USE NumbersAre
<1>1. stream = <<>> /\ queue12 = <<>> /\ Pos(stream) = {} /\ Pos(queue12) = {}
  BY EmptyKept DEF Init, stream
<1>2. TypeInv
  <2>1. frame \in Frames
    BY DEF Init, Frames
  <2>2. slots \in [Slots -> [Parts -> Frames \cup {None}]] /\ release \in [Slots -> Nat]
    BY DEF Init, Blank
  <2>3. /\ {readyValue, releaseValue, readyDone, releaseDone} \subseteq Nat
        /\ current \in Slots /\ waitedFor \in Nat /\ registered \subseteq Nat
    BY DEF Init
  <2>4. /\ {recorded, queue11, queue12} \subseteq Seq(Command)
        /\ shown \in Seq(Frames \cup {None})
    BY EmptyKept DEF Init
  <2>5. resizes \in 0 .. MaxResize
    BY ConstantsAssumption DEF Init
  <2>6. /\ pc \in {"render", "blocked", "submit", "drain", "draining", "undefined"}
        /\ pc \notin {"blocked", "submit"}
        /\ usable \in BOOLEAN /\ inputs \in BOOLEAN /\ hudless \in BOOLEAN
        /\ signaled \in BOOLEAN /\ late \in BOOLEAN /\ hurried \in BOOLEAN
    BY DEF Init
  <2> QED
    BY <2>1, <2>2, <2>3, <2>4, <2>5, <2>6 DEF TypeInv, TypeOK
<1>3. FenceInv
  <2>1. readyDone <= readyValue /\ releaseDone <= releaseValue
    BY DEF Init
  <2>2. \A s \in Slots : release[s] <= releaseValue
    BY DEF Init
  <2> QED
    BY <1>1, <2>1, <2>2 DEF FenceInv, Fenced
<1>4. RingInv
  <2>1. waitedFor <= releaseDone
    BY DEF Init
  <2> QED
    BY <1>1, <2>1 DEF RingInv, Released, Protected
<1>5. HandInv
  BY <1>1 DEF HandInv, Handed, Init
<1>6. OwnInv
  BY <1>1 DEF OwnInv, Ordered, Owned, Init
<1>7. EventInv
  BY DEF EventInv, LeftOver, Init
<1> QED
  BY <1>2, <1>3, <1>4, <1>5, <1>6, <1>7 DEF IInv

LEMMA StreamNext ==
    stream' = Cat(queue11', recorded')
  BY DEF stream, Cat

LEMMA StepRenderStart ==
    ASSUME IInv, RenderStart
    PROVE  IInv'
<1> DEFINE T == Cat(stream, SlotWait)
           u == Cat(recorded, SlotWait)
<1>n. TypeOK /\ recorded \in Seq(Command)
  BY Numbers
<1>1. /\ SlotWait \in Seq(Command) /\ T \in Seq(Command) /\ NowWaited \in Nat
      /\ Kept(T, queue12, slots, readyDone, readyValue, frame)
      /\ \A s \in Slots, p \in Parts :
           Own(stream, slots, s, p, frame) => Own(T, slots, s, p, frame)
      /\ \/ NowWaited <= releaseDone
         \/ \E h \in Pos(T) : Waits(T[h]) /\ T[h].value = NowWaited
  BY TakesSlot
<1>2. u \in Seq(Command) /\ Cat(queue11, u) = T
  <2>1. SlotWait \in Seq(Command) /\ <<>> \in Seq(Command)
    BY <1>1
  <2> HIDE DEF T, u
  <2>2. u = Cat(recorded, SlotWait) /\ T = Cat(stream, SlotWait)
    BY DEF T, u
  <2>3. Cat(queue11, Cat(recorded, SlotWait)) = Cat(stream, SlotWait)
    BY <1>n, <2>1, StreamTakes
  <2>4. Cat(recorded, SlotWait) \in Seq(Command)
    BY <1>n, <2>1, Associates
  <2> QED
    BY <2>2, <2>3, <2>4
<1>3. recorded' = u /\ waitedFor' = NowWaited
  BY DEF RenderStart, SlotWaited, NowWaited, Cat
<1> HIDE DEF T, u
<1>u. UNCHANGED <<pc, frame, usable, current, release, inputs, hudless, readyValue,
                  releaseValue, readyDone, releaseDone, slots, shown, registered, signaled,
                  queue11, queue12, resizes, late, hurried>> /\ pc = "render"
  BY DEF RenderStart, flagVars, gpuVars, fenceVars, eventVars, pastVars
<1>4. stream' = T
  BY <1>2, <1>3, <1>u, StreamNext
<1>5. TypeInv'
  BY <1>n, <1>1, <1>2, <1>3, <1>u DEF TypeInv, TypeOK, IInv
<1>6. FenceInv'
  BY <1>1, <1>4, <1>u DEF IInv, FenceInv, Kept
<1>7. RingInv'
  BY <1>1, <1>3, <1>4, <1>u DEF IInv, RingInv, Kept
<1>8. HandInv'
  BY <1>1, <1>4, <1>u DEF HandInv, Kept
<1>9. OwnInv'
  <2>1. current \in Slots
    BY Numbers
  <2> QED
    BY <1>1, <1>4, <1>u, <2>1 DEF IInv, OwnInv, Kept, Parts
<1>10. EventInv'
  BY <1>u DEF IInv, EventInv, LeftOver, ReleaseValue
<1> QED
  BY <1>5, <1>6, <1>7, <1>8, <1>9, <1>10 DEF IInv

\* Of a capture, whose flag is the part's.
LEMMA StepCapture ==
    ASSUME IInv, NEW p \in {"inputs", "hudless"}, Capture(p), pc = "render",
           inputs' = (p = "inputs" \/ inputs), hudless' = (p = "hudless" \/ hudless)
    PROVE  IInv'
<1> DEFINE T == Cat(stream, SlotWait)
           w == <<Write(current, p)>>
           U == Cat(T, w)
           u == Cat(recorded, SlotWait)
<1>n. TypeOK /\ recorded \in Seq(Command) /\ current \in Slots /\ p \in Parts
  BY Numbers DEF Parts
<1>1. SlotWait \in Seq(Command) /\ T \in Seq(Command) /\ NowWaited \in Nat
  BY TakesSlot
<1>2. /\ w \in Seq(Command) /\ U \in Seq(Command)
      /\ Kept(U, queue12, slots, readyDone, readyValue, frame)
      /\ Own(U, slots, current, p, frame)
      /\ \A s \in Slots, r \in Parts :
           Own(stream, slots, s, r, frame) => Own(U, slots, s, r, frame)
      /\ \/ NowWaited <= releaseDone
         \/ \E h \in Pos(U) : Waits(U[h]) /\ U[h].value = NowWaited
  BY <1>n, TakesWrite
<1>3. recorded' = Cat(u, w) /\ waitedFor' = NowWaited
  BY DEF Capture, SlotWaited, NowWaited, Cat
<1> HIDE DEF w
<1>4. Cat(u, w) \in Seq(Command) /\ Cat(queue11, Cat(u, w)) = U
  BY <1>n, <1>1, <1>2, StreamRecorded
<1> HIDE DEF T, u, U
<1>u. UNCHANGED <<pc, frame, usable, current, release, readyValue,
                  releaseValue, readyDone, releaseDone, slots, shown, registered, signaled,
                  queue11, queue12, resizes, late, hurried>>
  BY DEF Capture, gpuVars, fenceVars, eventVars, pastVars
<1>5. stream' = U
  BY <1>3, <1>4, <1>u, StreamNext
<1>6. TypeInv'
  <2>1. inputs' \in BOOLEAN /\ hudless' \in BOOLEAN
    OBVIOUS
  <2> QED
    BY <1>n, <1>1, <1>3, <1>4, <1>u, <2>1 DEF TypeInv, TypeOK, IInv
<1>7. FenceInv'
  BY <1>2, <1>5, <1>u DEF IInv, FenceInv, Kept
<1>8. RingInv'
  BY <1>2, <1>3, <1>5, <1>u DEF IInv, RingInv, Kept
<1>9. HandInv'
  BY <1>2, <1>5, <1>u DEF HandInv, Kept
<1>10. OwnInv'
  <2>1. Ordered(U, queue12, frame) /\ Owned(U, queue12, slots)
    BY <1>2 DEF Kept
  <2>2. inputs' => Own(U, slots, current, "inputs", frame)
    BY <1>n, <1>2 DEF IInv, OwnInv, Parts
  <2>3. hudless' => Own(U, slots, current, "hudless", frame)
    BY <1>n, <1>2 DEF IInv, OwnInv, Parts
  <2> QED
    BY <1>5, <1>u, <2>1, <2>2, <2>3 DEF OwnInv
<1>11. EventInv'
  BY <1>u DEF IInv, EventInv, LeftOver, ReleaseValue
<1> QED
  BY <1>6, <1>7, <1>8, <1>9, <1>10, <1>11 DEF IInv

LEMMA StepPresentRefused ==
    ASSUME IInv, PresentRefused
    PROVE  IInv'
<1>n. /\ TypeOK /\ frame \in Nat /\ stream \in Seq(Command) /\ queue12 \in Seq(Command)
      /\ Ordered(stream, queue12, frame)
  BY Numbers DEF IInv, OwnInv
<1>u. /\ UNCHANGED <<pc, usable, current, release, waitedFor, readyValue,
                     releaseValue, readyDone, releaseDone, slots, shown, registered, signaled,
                     recorded, queue11, queue12, resizes, late, hurried>>
      /\ frame' = frame + 1 /\ frame < MaxFrame /\ inputs' = FALSE /\ hudless' = FALSE
      /\ pc = "render"
  BY DEF PresentRefused, EndFrame, ringVars, gpuVars, fenceVars, eventVars, pastVars
<1>1. stream' = stream
  BY <1>u DEF stream
<1>2. TypeInv'
  <2>1. frame' \in Frames
    BY <1>n, <1>u, NumbersAre DEF Frames
  <2> QED
    BY <1>n, <1>u, <2>1 DEF TypeInv, TypeOK, IInv
<1>3. FenceInv' /\ RingInv' /\ HandInv'
  BY <1>1, <1>u DEF IInv, FenceInv, RingInv, HandInv
<1>4. OwnInv'
  <2>1. Ordered(stream, queue12, frame + 1)
    <3>1. \A i \in Pos(stream) : Writes(stream[i]) => stream[i].frame \in Nat
      BY <1>n, Elements, CommandsAre
    <3>2. \A j \in Pos(queue12) : Draws(queue12[j]) => queue12[j].frame \in Nat
      BY <1>n, Elements, CommandsAre
    <3> QED
      BY <1>n, <3>1, <3>2 DEF Ordered
  <2> QED
    BY <1>1, <1>u, <2>1 DEF IInv, OwnInv
<1>5. EventInv'
  BY <1>u DEF IInv, EventInv, LeftOver, ReleaseValue
<1> QED
  BY <1>2, <1>3, <1>4, <1>5 DEF IInv
-----------------------------------------------------------------------------
(* Presenting *)

LEMMA StepPresentBegin ==
    ASSUME IInv, PresentBegin
    PROVE  IInv'
<1> DEFINE T == Cat(stream, SlotWait)
           w == <<Write(current, "final")>>
           U == Cat(T, w)
           c == Signal(readyValue + 1)
           V == Cat(U, <<c>>)
           d == Wait(readyValue + 1)
<1>n. /\ TypeOK /\ queue11 \in Seq(Command) /\ recorded \in Seq(Command)
      /\ stream \in Seq(Command) /\ queue12 \in Seq(Command)
      /\ current \in Slots /\ "final" \in Parts
      /\ readyDone \in Nat /\ readyValue \in Nat /\ releaseDone \in Nat
      /\ releaseValue \in Nat /\ frame \in Nat
  BY Numbers DEF Parts
<1>v. readyValue + 1 \in Nat /\ readyValue <= readyValue + 1 /\ readyValue < readyValue + 1
      /\ readyValue + 1 <= readyValue + 1 /\ releaseValue <= releaseValue /\ frame <= frame
  BY <1>n
<1>1. SlotWait \in Seq(Command) /\ T \in Seq(Command) /\ NowWaited \in Nat
  BY TakesSlot
<1>2. /\ w \in Seq(Command) /\ U \in Seq(Command)
      /\ Kept(U, queue12, slots, readyDone, readyValue, frame)
      /\ Own(U, slots, current, "final", frame)
      /\ \A s \in Slots, r \in Parts :
           Own(stream, slots, s, r, frame) => Own(U, slots, s, r, frame)
      /\ \/ NowWaited <= releaseDone
         \/ \E h \in Pos(U) : Waits(U[h]) /\ U[h].value = NowWaited
  BY <1>n, TakesWrite
<1>3. /\ c \in Command /\ Signals(c) /\ c.value = readyValue + 1 /\ ~Writes(c)
      /\ d \in Command /\ Waits(d) /\ d.value = readyValue + 1 /\ ~Draws(d) /\ ~Signals(d)
  BY <1>v, MadeCommands
<1>4. <<Write(current, "final"), c>> = Cat(w, <<c>>)
  BY Pairs
<1> HIDE DEF w, c, d
<1>5. /\ recorded' = <<>> /\ readyValue' = readyValue + 1 /\ waitedFor' = NowWaited
      /\ queue11' = Cat(Cat(stream, SlotWait), Cat(w, <<c>>))
      /\ queue12' = Append(queue12, d)
  BY <1>4 DEF PresentBegin, SlotWaited, NowWaited, Cat, stream, c, d
<1>6. <<c>> \in Seq(Command)
  BY <1>3
<1>7. queue11' = V
  <2>1. U = Cat(T, w) /\ V = Cat(U, <<c>>) /\ queue11' = Cat(T, Cat(w, <<c>>))
    BY <1>5
  <2> DEFINE one == <<c>>
  <2>2. T \in Seq(Command) /\ w \in Seq(Command) /\ one \in Seq(Command)
    BY <1>1, <1>2, <1>6
  <2> HIDE DEF T, U, V, one
  <2>3. Cat(T, Cat(w, one)) = Cat(Cat(T, w), one)
    BY <2>2, Associates
  <2> QED
    BY <2>1, <2>3 DEF one
<1> HIDE DEF T, U, V
<1>8. V = U \o <<c>> /\ queue12' = queue12 \o <<d>>
  BY <1>n, <1>3, <1>5, AppendIsConcat DEF V, Cat
<1>9. /\ V \in Seq(Command) /\ Extended(U, V, c)
      /\ queue12' \in Seq(Command) /\ Extended(queue12, queue12', d)
  BY <1>n, <1>2, <1>3, <1>8, Extends
<1>10. stream' = V
  <2>1. stream' = Cat(V, <<>>)
    BY <1>5, <1>7, StreamNext
  <2>2. V \o <<>> = V
    BY <1>9, ConcatEmptySeq
  <2> QED
    BY <2>1, <2>2 DEF Cat
<1>11. /\ Kept(V, queue12, slots, readyDone, readyValue + 1, frame)
       /\ \A s \in Slots, r \in Parts : Own(U, slots, s, r, frame) => Own(V, slots, s, r, frame)
  <2>1. Signals(c) => readyValue < c.value /\ c.value <= readyValue + 1
    BY <1>v, <1>3
  <2>2. Kept(U, queue12, slots, readyDone, readyValue, frame)
    BY <1>2
  <2>3. /\ U \in Seq(Command) /\ queue12 \in Seq(Command) /\ c \in Command
        /\ ~Writes(c) /\ Extended(U, V, c)
        /\ readyDone \in Nat /\ readyValue \in Nat /\ frame \in Nat
    BY <1>n, <1>2, <1>3, <1>9
  <2>4. ASSUME NEW m \in Nat, readyValue <= m, Signals(c) => readyValue < c.value /\ c.value <= m
        PROVE  /\ Kept(V, queue12, slots, readyDone, m, frame)
               /\ \A s \in Slots, r \in Parts :
                    Own(U, slots, s, r, frame) => Own(V, slots, s, r, frame)
    BY <2>2, <2>3, <2>4, KeptQuiet
  <2> QED
    BY <1>v, <2>1, <2>4
<1>12. Kept(V, queue12', slots, readyDone, readyValue + 1, frame)
  BY <1>n, <1>v, <1>3, <1>9, <1>11, KeptDrawn
<1>13. HandedOver(V, queue12')
  BY <1>v, <1>3, <1>9, HandsOver
<1>u. /\ UNCHANGED <<frame, usable, current, release, inputs, hudless,
                     releaseValue, readyDone, releaseDone, slots, shown, signaled, resizes, late>>
      /\ pc = "render" /\ frame < MaxFrame
      /\ \/ Reusable /\ pc' = "submit" /\ registered' = registered
         \/ ~Reusable /\ pc' = "blocked" /\ registered' = registered \cup {ReleaseValue}
      /\ hurried' = (LeftOver /\ ~Reusable)
  BY DEF PresentBegin, flagVars, gpuVars, fenceVars, pastVars
<1>14. TypeInv'
  <2>1. registered' \subseteq Nat /\ pc' \in {"submit", "blocked"} /\ recorded' \in Seq(Command)
    BY <1>n, <1>5, <1>u, Numbers, EmptyKept DEF TypeOK
  <2>2. hurried' \in BOOLEAN
    BY <1>u
  <2> QED
    BY <1>n, <1>v, <1>1, <1>5, <1>7, <1>9, <1>u, <2>1, <2>2 DEF TypeInv, TypeOK
<1>15. FenceInv'
  <2>1. Fenced(queue12', releaseDone, releaseValue)
    <3>1. Fenced(queue12, releaseDone, releaseValue) /\ releaseDone <= releaseValue
      BY DEF IInv, FenceInv, Fenced
    <3> QED
      BY <1>n, <1>v, <1>3, <1>9, <3>1, FencedMore
  <2> QED
    BY <1>5, <1>10, <1>12, <1>u, <2>1 DEF IInv, FenceInv, Kept
<1>16. RingInv'
  <2>1. Released(queue12', release)
    BY <1>n, <1>3, <1>9, ReleasedMore DEF IInv, RingInv
  <2>2. \/ NowWaited <= releaseDone
        \/ \E h \in Pos(V) : Waits(V[h]) /\ V[h].value = NowWaited
    BY <1>2, <1>9 DEF Extended
  <2> QED
    BY <1>5, <1>10, <1>12, <1>u, <2>1, <2>2 DEF RingInv, Kept
<1>17. HandInv'
  BY <1>10, <1>12, <1>13 DEF HandInv, Kept
<1>18. OwnInv'
  <2>1. Ordered(V, queue12', frame) /\ Owned(V, queue12', slots)
    BY <1>12 DEF Kept
  <2>2. /\ inputs => Own(V, slots, current, "inputs", frame)
        /\ hudless => Own(V, slots, current, "hudless", frame)
        /\ Own(V, slots, current, "final", frame)
    BY <1>n, <1>2, <1>11 DEF IInv, OwnInv, Parts
  <2> QED
    BY <1>10, <1>u, <2>1, <2>2 DEF OwnInv
<1>19. EventInv'
  BY <1>u DEF IInv, EventInv, LeftOver, ReleaseValue, Reusable
<1> QED
  BY <1>14, <1>15, <1>16, <1>17, <1>18, <1>19 DEF IInv

LEMMA StepPresentWake ==
    ASSUME IInv, PresentWake
    PROVE  IInv'
<1>u. /\ UNCHANGED <<frame, usable, current, release, waitedFor, inputs, hudless, readyValue,
                     releaseValue, readyDone, releaseDone, slots, shown, registered, recorded,
                     queue11, queue12, resizes, late, hurried>>
      /\ pc = "blocked" /\ pc' = "submit" /\ signaled /\ signaled' = FALSE
  BY DEF PresentWake, ringVars, flagVars, gpuVars, fenceVars, pastVars
<1>1. stream' = stream
  BY <1>u DEF stream
<1>2. TypeInv'
  BY <1>u DEF IInv, TypeInv, TypeOK
<1>3. FenceInv' /\ RingInv' /\ HandInv' /\ OwnInv'
  BY <1>1, <1>u DEF IInv, FenceInv, RingInv, HandInv, OwnInv
<1>4. EventInv'
  BY <1>u DEF IInv, EventInv, LeftOver, ReleaseValue
<1> QED
  BY <1>2, <1>3, <1>4 DEF IInv

LEMMA StepPresentSubmit ==
    ASSUME IInv, PresentSubmit
    PROVE  IInv'
<1> DEFINE c == Draw(current, inputs /\ hudless)
           d == Signal(releaseValue + 1)
           r == queue12 \o <<c>>
<1>n. /\ TypeOK /\ queue11 \in Seq(Command) /\ recorded \in Seq(Command)
      /\ stream \in Seq(Command) /\ queue12 \in Seq(Command)
      /\ current \in Slots /\ release \in [Slots -> Nat] /\ frame \in Frames
      /\ readyDone \in Nat /\ readyValue \in Nat /\ releaseDone \in Nat
      /\ releaseValue \in Nat /\ frame \in Nat
      /\ Kept(stream, queue12, slots, readyDone, readyValue, frame)
  BY Numbers
<1>v. /\ releaseValue + 1 \in Nat /\ releaseValue <= releaseValue + 1
      /\ releaseValue < releaseValue + 1 /\ releaseValue + 1 <= releaseValue + 1
      /\ releaseValue <= releaseValue /\ frame + 1 \in Nat /\ frame + 1 <= frame + 1
  BY <1>n
<1>0. inputs \in BOOLEAN /\ hudless \in BOOLEAN /\ (inputs /\ hudless) \in BOOLEAN
  BY <1>n DEF TypeOK
<1>1. /\ c \in Command /\ Draws(c) /\ c.frame = frame /\ c.slot = current
      /\ c.reads = (inputs /\ hudless) /\ ~Signals(c)
      /\ d \in Command /\ Signals(d) /\ d.value = releaseValue + 1 /\ ~Draws(d)
  BY <1>n, <1>v, <1>0, MadeCommands
<1>2. /\ releaseValue' = releaseValue + 1 /\ frame' = frame + 1
      /\ release' = [release EXCEPT ![current] = releaseValue + 1]
      /\ current' = (current + 1) % kSlots
      /\ inputs' = FALSE /\ hudless' = FALSE
      /\ pc = "submit" /\ pc' = "render"
      /\ queue12' = queue12 \o <<c, d>>
  BY DEF PresentSubmit, Submit, EndFrame
<1>u. UNCHANGED <<usable, waitedFor, readyValue, readyDone, releaseDone, slots, shown,
                  registered, signaled, recorded, queue11, resizes, late, hurried>>
  BY DEF PresentSubmit, gpuVars, fenceVars, eventVars, pastVars
<1> HIDE DEF c, d
<1>3. r \in Seq(Command) /\ Extended(queue12, r, c)
  BY <1>n, <1>1, Extends
<1>4. queue12' = r \o <<d>>
  <2>1. <<c, d>> = Cat(<<c>>, <<d>>)
    BY Pairs
  <2> DEFINE first == <<c>>
             second == <<d>>
  <2>2. first \in Seq(Command) /\ second \in Seq(Command) /\ queue12 \in Seq(Command)
    BY <1>n, <1>1
  <2>3. queue12' = Cat(queue12, Cat(first, second))
    BY <1>2, <2>1 DEF Cat
  <2> HIDE DEF first, second
  <2>4. queue12' = Cat(Cat(queue12, first), second)
    BY <2>2, <2>3, Associates
  <2> QED
    BY <2>4 DEF Cat, first, second
<1> HIDE DEF r
<1>5. queue12' \in Seq(Command) /\ Extended(r, queue12', d)
  BY <1>1, <1>3, <1>4, Extends
<1>6. stream' = stream
  BY <1>u DEF stream
<1>7. Kept(stream, r, slots, readyDone, readyValue, frame + 1)
  <2>1. /\ HandedOver(stream, queue12)
        /\ Own(stream, slots, c.slot, "final", frame)
        /\ c.reads => \A p \in {"hudless", "inputs"} : Own(stream, slots, c.slot, p, frame)
    BY <1>1, <1>2 DEF IInv, HandInv, OwnInv
  <2> QED
    BY <1>n, <1>v, <1>1, <1>3, <2>1, KeptDrawn
<1>8. Kept(stream, queue12', slots, readyDone, readyValue, frame + 1)
  BY <1>n, <1>v, <1>1, <1>3, <1>5, <1>7, KeptDrawn
<1>9. TypeInv'
  <2>1. frame' \in Frames
    BY <1>n, <1>2, NumbersAre DEF IInv, TypeInv, Frames
  <2>2. current' \in Slots
    <3>1. kSlots \in Nat /\ kSlots > 0 /\ current \in Nat
      BY <1>n, NumbersAre
    <3>2. (current + 1) % kSlots \in 0 .. kSlots - 1
      BY <3>1
    <3> QED
      BY <1>2, <3>2 DEF Slots
  <2>3. release' \in [Slots -> Nat]
    BY <1>n, <1>v, <1>2
  <2> QED
    BY <1>n, <1>v, <1>2, <1>5, <1>u, <2>1, <2>2, <2>3 DEF TypeInv, TypeOK
<1>10. FenceInv'
  <2>1. Fenced(queue12, releaseDone, releaseValue) /\ releaseDone <= releaseValue
    BY DEF IInv, FenceInv, Fenced
  <2>2. Fenced(r, releaseDone, releaseValue)
    BY <1>n, <1>v, <1>1, <1>3, <2>1, FencedMore
  <2>3. Fenced(queue12', releaseDone, releaseValue + 1)
    <3>1. Signals(d) => releaseValue < d.value /\ d.value <= releaseValue + 1
      BY <1>v, <1>1
    <3> QED
      BY <1>n, <1>v, <1>1, <1>3, <1>5, <2>1, <2>2, <3>1, FencedMore
  <2>4. ASSUME NEW s \in Slots PROVE release'[s] <= releaseValue + 1
    <3>1. release[s] \in Nat /\ release[s] <= releaseValue
      BY <1>n DEF IInv, FenceInv
    <3> QED
      BY <1>n, <1>v, <1>2, <3>1
  <2> QED
    BY <1>2, <1>6, <1>8, <1>u, <2>3, <2>4 DEF FenceInv, Kept
<1>11. RingInv'
  <2>1. \A s \in Slots : release[s] <= releaseValue + 1
    <3>1. \A s \in Slots : release[s] \in Nat /\ release[s] <= releaseValue
      BY <1>n DEF IInv, FenceInv
    <3> QED
      BY <1>n, <3>1
  <2>2. Released(queue12, release)
    BY DEF IInv, RingInv
  <2>3. Released(queue12', release')
    BY <1>n, <1>v, <1>1, <1>2, <1>3, <1>5, <2>1, <2>2, ReleasedDrawn
  <2> QED
    BY <1>6, <1>8, <1>u, <2>3 DEF IInv, RingInv, Kept
<1>12. HandInv'
  BY <1>2, <1>6, <1>8 DEF HandInv, Kept
<1>13. OwnInv'
  BY <1>2, <1>6, <1>8, <1>u DEF OwnInv, Kept
<1>14. EventInv'
  BY <1>2, <1>u DEF IInv, EventInv, LeftOver, ReleaseValue
<1> QED
  BY <1>9, <1>10, <1>11, <1>12, <1>13, <1>14 DEF IInv
-----------------------------------------------------------------------------
(* Resizing *)

LEMMA StepResizeBegin ==
    ASSUME IInv, ResizeBegin
    PROVE  IInv'
<1> DEFINE d == Signal(releaseValue + 1)
<1>n. /\ TypeOK /\ queue12 \in Seq(Command)
      /\ release \in [Slots -> Nat] /\ frame \in Nat
      /\ readyDone \in Nat /\ readyValue \in Nat /\ releaseDone \in Nat /\ releaseValue \in Nat
      /\ stream \in Seq(Command)
      /\ Kept(stream, queue12, slots, readyDone, readyValue, frame)
  BY Numbers
<1>v. /\ releaseValue + 1 \in Nat /\ releaseValue <= releaseValue + 1
      /\ releaseValue < releaseValue + 1 /\ releaseValue + 1 <= releaseValue + 1
      /\ frame <= frame
  BY <1>n
<1>1. d \in Command /\ Signals(d) /\ d.value = releaseValue + 1 /\ ~Draws(d)
  BY <1>v, MadeCommands
<1>u. /\ UNCHANGED <<frame, usable, current, release, waitedFor, inputs, hudless, readyValue,
                     readyDone, releaseDone, slots, shown, registered, signaled, recorded,
                     queue11, late>>
      /\ pc = "render" /\ pc' = "drain" /\ resizes < MaxResize /\ resizes' = resizes + 1
      /\ releaseValue' = releaseValue + 1 /\ queue12' = Append(queue12, d)
      /\ hurried' = LeftOver
  BY DEF ResizeBegin, ringVars, flagVars, gpuVars, fenceVars, eventVars
<1> HIDE DEF d
<1>2. queue12' \in Seq(Command) /\ Extended(queue12, queue12', d)
  <2>1. queue12' = queue12 \o <<d>>
    BY <1>n, <1>1, <1>u, AppendIsConcat
  <2> QED
    BY <1>n, <1>1, <2>1, Extends
<1>3. stream' = stream
  BY <1>u DEF stream
<1>4. Kept(stream, queue12', slots, readyDone, readyValue, frame)
  BY <1>n, <1>v, <1>1, <1>2, KeptDrawn
<1>5. TypeInv'
  <2>1. resizes' \in 0 .. MaxResize
    BY <1>n, <1>u, ConstantsAssumption DEF TypeOK
  <2>2. hurried' \in BOOLEAN
    BY <1>n, <1>u DEF TypeOK, LeftOver
  <2> QED
    BY <1>n, <1>v, <1>u, <1>2, <2>1, <2>2 DEF TypeInv, TypeOK
<1>6. FenceInv'
  <2>1. Fenced(queue12, releaseDone, releaseValue) /\ releaseDone <= releaseValue
    BY DEF IInv, FenceInv, Fenced
  <2>2. Fenced(queue12', releaseDone, releaseValue + 1)
    <3>1. Signals(d) => releaseValue < d.value /\ d.value <= releaseValue + 1
      BY <1>v, <1>1
    <3> QED
      BY <1>n, <1>v, <1>1, <1>2, <2>1, <3>1, FencedMore
  <2>3. \A s \in Slots : release[s] <= releaseValue + 1
    <3>1. \A s \in Slots : release[s] \in Nat /\ release[s] <= releaseValue
      BY <1>n DEF IInv, FenceInv
    <3> QED
      BY <1>n, <3>1
  <2> QED
    BY <1>3, <1>4, <1>u, <2>2, <2>3 DEF FenceInv, Kept
<1>7. RingInv'
  <2>1. Released(queue12', release)
    BY <1>1, <1>2, ReleasedMore DEF IInv, RingInv
  <2> QED
    BY <1>3, <1>4, <1>u, <2>1 DEF IInv, RingInv, Kept
<1>8. HandInv' /\ OwnInv'
  BY <1>3, <1>4, <1>u DEF IInv, HandInv, OwnInv, Kept
<1>9. EventInv'
  BY <1>u DEF IInv, EventInv, LeftOver, ReleaseValue
<1> QED
  BY <1>5, <1>6, <1>7, <1>8, <1>9 DEF IInv

LEMMA StepResizeWait ==
    ASSUME IInv, ResizeWait \/ ResizeTimedOut \/ ResizeFailed \/ FreedInUse
    PROVE  IInv'
<1>u. UNCHANGED <<frame, current, release, waitedFor, inputs, hudless, readyValue,
                  releaseValue, readyDone, releaseDone, slots, shown, recorded, queue11,
                  queue12, resizes, hurried>>
  BY DEF ResizeWait, ResizeTimedOut, ResizeFailed, FreedInUse, ringVars, flagVars, gpuVars, fenceVars,
         eventVars, pastVars
<1>p. /\ pc \in {"drain", "draining"} /\ pc' \in {"draining", "render", "undefined"}
  BY DEF ResizeWait, ResizeTimedOut, ResizeFailed, FreedInUse, Drained
<1>1. stream' = stream
  BY <1>u DEF stream
<1>2. TypeInv'
  <2>1. usable' \in BOOLEAN /\ late' \in BOOLEAN
    BY DEF IInv, TypeInv, TypeOK, ResizeWait, ResizeTimedOut, ResizeFailed, FreedInUse, pastVars
  <2>2. signaled' \in BOOLEAN
    BY DEF IInv, TypeInv, TypeOK, ResizeWait, ResizeTimedOut, ResizeFailed, FreedInUse, Drained, eventVars
  <2>3. registered' \subseteq Nat
    BY Numbers DEF TypeOK, ResizeWait, ResizeTimedOut, ResizeFailed, FreedInUse, eventVars
  <2>4. TypeOK
    BY DEF IInv, TypeInv
  <2> QED
    BY <1>u, <1>p, <2>1, <2>2, <2>3, <2>4 DEF TypeInv, TypeOK
<1>3. FenceInv' /\ RingInv' /\ HandInv' /\ OwnInv'
  BY <1>1, <1>u, <1>p DEF IInv, FenceInv, RingInv, HandInv, OwnInv
<1>4. EventInv'
  <2>1. CASE ResizeWait
    BY <1>u, <2>1 DEF IInv, EventInv, LeftOver, ReleaseValue, ResizeWait, eventVars, pastVars
  <2>2. CASE ResizeTimedOut
    BY <1>u, <2>2 DEF IInv, EventInv, LeftOver, ReleaseValue, ResizeTimedOut
  <2>3. CASE ResizeFailed
    BY <1>u, <2>3 DEF IInv, EventInv, LeftOver, ReleaseValue, ResizeFailed, Drained, pastVars
  <2>4. CASE FreedInUse
    BY <1>u, <2>4 DEF IInv, EventInv, LeftOver, ReleaseValue, FreedInUse, Drained, pastVars
  <2> QED
    BY <2>1, <2>2, <2>3, <2>4
<1> QED
  BY <1>2, <1>3, <1>4 DEF IInv

LEMMA IdleIs ==
    ASSUME IInv
    PROVE  Idle <=> \A j \in Pos(queue12) : ~Draws(queue12[j])
<1>1. DOMAIN queue12 = Pos(queue12)
  BY Numbers, Elements
<1>2. ASSUME NEW j \in Pos(queue12), Draws(queue12[j]) PROVE queue12[j].slot \in Slots
  BY <1>2, Numbers, Elements, CommandsAre
<1> QED
  BY <1>1, <1>2 DEF Idle, Reading, Draws

\* A drain that is not hurried ends only when D3D12 has no draw left.
LEMMA DrainedIsIdle ==
    ASSUME IInv, \/ pc = "drain" /\ releaseDone >= releaseValue
                 \/ pc = "draining" /\ signaled /\ ~hurried
    PROVE  \A j \in Pos(queue12) : ~Draws(queue12[j])
<1>n. /\ release \in [Slots -> Nat] /\ releaseDone \in Nat /\ releaseValue \in Nat
      /\ queue12 \in Seq(Command)
  BY Numbers
<1>1. releaseValue <= releaseDone
  BY <1>n DEF IInv, EventInv, LeftOver
<1>2. ASSUME NEW s \in Slots PROVE release[s] <= releaseDone
  <2>1. release[s] \in Nat /\ release[s] <= releaseValue
    BY <1>n DEF IInv, FenceInv
  <2> QED
    BY <1>n, <1>1, <2>1
<1> SUFFICES ASSUME NEW j \in Pos(queue12), Draws(queue12[j]) PROVE FALSE
  OBVIOUS
<1>3. queue12[j].slot \in Slots
  BY <1>n, Elements, CommandsAre
<1>4. Released(queue12, release) /\ Fenced(queue12, releaseDone, releaseValue)
  BY DEF IInv, RingInv, FenceInv
<1> QED
  BY <1>n, <1>2, <1>3, <1>4, NotReading

LEMMA StepResizeDone ==
    ASSUME IInv, ResizeDone
    PROVE  IInv'
<1> DEFINE O == Orphaned(stream)
<1>n. /\ TypeOK /\ queue12 \in Seq(Command) /\ stream \in Seq(Command)
      /\ frame \in Nat /\ readyDone \in Nat /\ readyValue \in Nat
      /\ releaseDone \in Nat /\ releaseValue \in Nat
      /\ Kept(stream, queue12, slots, readyDone, readyValue, frame)
  BY Numbers
<1>u. /\ UNCHANGED <<frame, inputs, hudless, readyValue, releaseValue, readyDone, releaseDone,
                     shown, registered, queue12, resizes, late, hurried>>
      /\ pc' = "render" /\ usable' = TRUE /\ current' = 0 /\ waitedFor' = 0
      /\ release' = [s \in Slots |-> 0] /\ slots' = [s \in Slots |-> Blank]
      /\ recorded' = Orphaned(recorded) /\ queue11' = Orphaned(queue11)
      /\ \/ pc = "drain" /\ releaseDone >= releaseValue /\ signaled' = signaled
         \/ pc = "draining" /\ signaled /\ signaled' = FALSE
  BY DEF ResizeDone, Drained, flagVars, fenceVars, pastVars
<1>1. \A j \in Pos(queue12) : ~Draws(queue12[j])
  <2>1. Idle
    BY DEF ResizeDone
  <2> QED
    BY <2>1, IdleIs
<1>2. /\ Orphaned(queue11) \in Seq(Command) /\ Orphaned(recorded) \in Seq(Command)
      /\ stream' = O
  BY <1>n, <1>u, StreamOrphaned, StreamNext DEF Cat
<1>3. /\ O \in Seq(Command) /\ Pos(O) = Pos(stream)
      /\ \A i \in Pos(stream) :
           /\ O[i].op = stream[i].op
           /\ ~Writes(stream[i]) => O[i] = stream[i]
           /\ Writes(stream[i]) => O[i].slot = Gone /\ O[i].frame = stream[i].frame
  BY <1>n, OrphanedIs DEF Pos
<1> HIDE DEF O
<1>4. ASSUME NEW i \in Pos(O)
      PROVE  /\ i \in Pos(stream) /\ (Writes(O[i]) <=> Writes(stream[i]))
             /\ (Signals(O[i]) <=> Signals(stream[i]))
             /\ Signals(O[i]) => O[i].value = stream[i].value
             /\ Writes(O[i]) => O[i].frame = stream[i].frame /\ O[i].slot \notin Slots
  BY <1>3, NumbersAre DEF Writes, Signals
<1>5. TypeInv'
  <2>1. slots' \in [Slots -> [Parts -> Frames \cup {None}]] /\ release' \in [Slots -> Nat]
    BY <1>u DEF Blank
  <2>2. current' \in Slots
    BY <1>u, NumbersAre
  <2>3. signaled' \in BOOLEAN
    BY <1>n, <1>u DEF TypeOK
  <2> QED
    BY <1>n, <1>u, <1>2, <2>1, <2>2, <2>3 DEF TypeInv, TypeOK
<1>6. FenceInv'
  <2>1. Fenced(stream, readyDone, readyValue)
    BY DEF IInv, FenceInv
  <2>2. Fenced(O, readyDone, readyValue)
    <3>1. \A i \in Pos(O) : Signals(O[i]) => readyDone < O[i].value /\ O[i].value <= readyValue
      BY <1>4, <2>1 DEF Fenced
    <3>2. \A i, j \in Pos(O) : i < j /\ Signals(O[i]) /\ Signals(O[j]) => O[i].value < O[j].value
      BY <1>4, <2>1 DEF Fenced
    <3> QED
      BY <2>1, <3>1, <3>2 DEF Fenced
  <2>3. \A s \in Slots : release'[s] <= releaseValue
    BY <1>n, <1>u
  <2> QED
    BY <1>2, <1>u, <2>2, <2>3 DEF IInv, FenceInv
<1>7. RingInv'
  <2>1. waitedFor' <= releaseDone
    BY <1>n, <1>u
  <2> QED
    BY <1>1, <1>u, <2>1 DEF RingInv, Released, Protected
<1>8. HandInv'
  BY <1>1, <1>u DEF HandInv, Handed
<1>9. OwnInv'
  <2>1. Ordered(stream, queue12, frame)
    BY DEF IInv, OwnInv
  <2>2. Ordered(O, queue12, frame)
    <3>1. \A i \in Pos(O) : Writes(O[i]) => O[i].frame <= frame
      BY <1>4, <2>1 DEF Ordered
    <3>2. \A i, j \in Pos(O) : i < j /\ Writes(O[i]) /\ Writes(O[j]) => O[i].frame <= O[j].frame
      BY <1>4, <2>1 DEF Ordered
    <3> QED
      BY <2>1, <3>1, <3>2 DEF Ordered
  <2>3. Owned(O, queue12, slots')
    BY <1>1 DEF Owned
  <2>4. ASSUME NEW p \in {"hudless", "inputs"} PROVE Own(O, slots', 0, p, frame)
    <3>1. slots'[0][p] = None
      BY <1>u, NumbersAre DEF Blank, Parts
    <3>2. \A i \in Pos(O) : ~WritesTo(O[i], 0, p)
      BY <1>4, NumbersAre DEF WritesTo
    <3> QED
      BY <3>1, <3>2 DEF Own
  <2> QED
    BY <1>2, <1>u, <2>2, <2>3, <2>4 DEF OwnInv
<1>10. EventInv'
  BY <1>n, <1>u DEF IInv, EventInv, LeftOver
<1> QED
  BY <1>5, <1>6, <1>7, <1>8, <1>9, <1>10 DEF IInv
-----------------------------------------------------------------------------
(* The two queues *)

LEMMA StepD3D11 ==
    ASSUME IInv, D3D11
    PROVE  IInv'
<1> DEFINE c == Head(queue11)
<1>n. /\ TypeOK /\ queue11 \in Seq(Command) /\ queue12 \in Seq(Command)
      /\ stream \in Seq(Command) /\ frame \in Nat /\ current \in Slots
      /\ readyDone \in Nat /\ readyValue \in Nat /\ releaseDone \in Nat /\ releaseValue \in Nat
      /\ slots \in [Slots -> [Parts -> Frames \cup {None}]]
      /\ Kept(stream, queue12, slots, readyDone, readyValue, frame)
  BY Numbers
<1>u. /\ UNCHANGED <<pc, frame, usable, current, release, waitedFor, inputs, hudless,
                     readyValue, releaseValue, releaseDone, shown, registered, signaled,
                     recorded, queue12, resizes, late, hurried>>
      /\ queue11 # <<>> /\ queue11' = Tail(queue11)
  BY DEF D3D11, ringVars, flagVars, eventVars, pastVars
<1>d. \/ c.op = "wait" /\ releaseDone >= c.value /\ slots' = slots /\ readyDone' = readyDone
      \/ /\ c.op = "write" /\ c.slot # Gone
         /\ slots' = [slots EXCEPT ![c.slot][c.part] = c.frame] /\ readyDone' = readyDone
      \/ c.op = "write" /\ c.slot = Gone /\ slots' = slots /\ readyDone' = readyDone
      \/ c.op = "signal" /\ readyDone' = c.value /\ slots' = slots
  BY DEF D3D11
<1>1. /\ stream # <<>> /\ c = stream[1] /\ queue11' \in Seq(Command)
      /\ stream' = Tail(stream)
  <2>1. Cat(Tail(queue11), recorded) = Tail(stream)
    BY <1>n, <1>u, StreamDone DEF Cat
  <2> QED
    BY <1>n, <1>u, <2>1, StreamDone, StreamNext
<1>2. 1 \in Pos(stream) /\ c \in Command
  BY <1>n, <1>1, Elements
<1> HIDE DEF c
<1>3. stream' \in Seq(Command) /\ Dropped(stream, stream')
  BY <1>n, <1>1, Drops
<1>4. /\ Writes(c) => c.slot \in Slots \cup {Gone} /\ c.part \in Parts /\ c.frame \in Frames
      /\ Signals(c) \/ Waits(c) => c.value \in Nat
  BY <1>2, CommandsAre
<1>5. slots' \in [Slots -> [Parts -> Frames \cup {None}]] /\ Does(c, slots, slots')
  <2>1. CASE Writes(c) /\ c.slot # Gone
    <3>1. slots' = [slots EXCEPT ![c.slot][c.part] = c.frame] /\ c.slot \in Slots
      BY <1>d, <1>4, <2>1 DEF Writes
    <3>2. slots' \in [Slots -> [Parts -> Frames \cup {None}]]
      BY <1>n, <1>4, <2>1, <3>1
    <3>3. \A s \in Slots, p \in Parts :
            slots'[s][p] = IF c.slot = s /\ c.part = p THEN c.frame ELSE slots[s][p]
      BY <1>n, <1>4, <2>1, <3>1
    <3> QED
      BY <2>1, <3>2, <3>3 DEF Does, WritesTo
  <2>2. CASE ~(Writes(c) /\ c.slot # Gone)
    <3>1. slots' = slots
      BY <1>d, <2>2 DEF Writes
    <3>2. \A s \in Slots, p \in Parts : ~WritesTo(c, s, p)
      BY <2>2, NumbersAre DEF WritesTo
    <3> QED
      BY <1>n, <3>1, <3>2 DEF Does
  <2> QED
    BY <2>1, <2>2
<1>6. /\ readyDone' \in Nat
      /\ readyDone' = readyDone \/ (Signals(stream[1]) /\ readyDone' = stream[1].value)
      /\ Waits(stream[1]) => stream[1].value <= releaseDone
  <2>1. Waits(c) => c.value <= releaseDone
    BY <1>n, <1>d, <1>4 DEF Waits
  <2>2. readyDone' = readyDone \/ (Signals(c) /\ readyDone' = c.value)
    BY <1>d DEF Signals
  <2> QED
    BY <1>n, <1>1, <1>4, <2>1, <2>2
<1>7. /\ Kept(stream', queue12, slots', readyDone', readyValue, frame)
      /\ \A s \in Slots, p \in Parts :
           Own(stream, slots, s, p, frame) => Own(stream', slots', s, p, frame)
  <2>1. Fenced(queue12, releaseDone, releaseValue)
    BY DEF IInv, FenceInv
  <2>2. Does(stream[1], slots, slots')
    BY <1>1, <1>5
  <2> QED
    BY <1>n, <1>3, <1>6, <2>1, <2>2, KeptLess
<1>8. TypeInv'
  BY <1>n, <1>u, <1>1, <1>5, <1>6 DEF IInv, TypeInv, TypeOK
<1>9. FenceInv'
  BY <1>u, <1>7 DEF IInv, FenceInv, Kept
<1>10. RingInv'
  <2>1. \/ waitedFor <= releaseDone
        \/ \E h \in Pos(stream') : Waits(stream'[h]) /\ stream'[h].value = waitedFor
    <3>1. CASE waitedFor <= releaseDone
      BY <3>1
    <3>2. ASSUME NEW h \in Pos(stream), Waits(stream[h]), stream[h].value = waitedFor
          PROVE  \/ waitedFor <= releaseDone
                 \/ \E g \in Pos(stream') : Waits(stream'[g]) /\ stream'[g].value = waitedFor
      <4>1. CASE h = 1
        BY <1>6, <3>2, <4>1
      <4>2. CASE h # 1
        <5>1. h - 1 \in Pos(stream') /\ stream'[h - 1] = stream[h]
          BY <1>3, <4>2 DEF Dropped
        <5> QED
          BY <3>2, <5>1
      <4> QED
        BY <4>1, <4>2
    <3> QED
      BY <3>1, <3>2 DEF IInv, RingInv
  <2> QED
    BY <1>u, <1>7, <2>1 DEF IInv, RingInv, Kept
<1>11. HandInv'
  BY <1>3, <1>u, <1>7, HandedOverLess DEF IInv, HandInv, Kept
<1>12. OwnInv'
  BY <1>n, <1>u, <1>7 DEF IInv, OwnInv, Kept, Parts
<1>13. EventInv'
  BY <1>u DEF IInv, EventInv, LeftOver, ReleaseValue
<1> QED
  BY <1>8, <1>9, <1>10, <1>11, <1>12, <1>13 DEF IInv

LEMMA StepD3D12 ==
    ASSUME IInv, D3D12
    PROVE  IInv'
<1> DEFINE c == Head(queue12)
<1>n. /\ TypeOK /\ queue12 \in Seq(Command)
      /\ stream \in Seq(Command) /\ frame \in Nat /\ current \in Slots
      /\ release \in [Slots -> Nat] /\ ReleaseValue \in Nat /\ waitedFor \in Nat
      /\ readyDone \in Nat /\ readyValue \in Nat /\ releaseDone \in Nat /\ releaseValue \in Nat
      /\ slots \in [Slots -> [Parts -> Frames \cup {None}]]
      /\ Kept(stream, queue12, slots, readyDone, readyValue, frame)
  BY Numbers
<1>u. /\ UNCHANGED <<pc, frame, usable, current, release, waitedFor, inputs, hudless,
                     readyValue, releaseValue, readyDone, slots, recorded, queue11, resizes, late, hurried>>
      /\ queue12 # <<>> /\ queue12' = Tail(queue12)
  BY DEF D3D12, ringVars, flagVars, pastVars
<1>d. \/ /\ c.op = "wait" /\ readyDone >= c.value /\ shown' = shown /\ releaseDone' = releaseDone
         /\ registered' = registered /\ signaled' = signaled
      \/ /\ c.op = "frame" /\ shown' = Append(shown, slots[c.slot].final)
         /\ releaseDone' = releaseDone /\ registered' = registered /\ signaled' = signaled
      \/ c.op = "signal" /\ Reach(c.value) /\ shown' = shown
  BY DEF D3D12, eventVars
<1>1. stream' = stream
  BY <1>u DEF stream
<1>2. 1 \in Pos(queue12) /\ c \in Command /\ c = queue12[1]
  BY <1>n, <1>u, Elements
<1> HIDE DEF c
<1>3. queue12' \in Seq(Command) /\ Dropped(queue12, queue12')
  BY <1>n, <1>u, Drops
<1>4. /\ Draws(c) => c.slot \in Slots
      /\ Signals(c) \/ Waits(c) => c.value \in Nat
  BY <1>2, CommandsAre
<1>5. Fenced(queue12, releaseDone, releaseValue)
  BY DEF IInv, FenceInv
<1>6. /\ releaseDone' \in Nat /\ releaseDone <= releaseDone'
      /\ \/ releaseDone' = releaseDone
         \/ Signals(c) /\ releaseDone' = c.value
  <2>1. CASE Signals(c)
    <3>1. releaseDone' = c.value
      BY <1>d, <2>1 DEF Signals, Reach
    <3>2. releaseDone < c.value
      BY <1>2, <1>5, <2>1 DEF Fenced
    <3> QED
      BY <1>n, <1>4, <2>1, <3>1, <3>2
  <2>2. CASE ~Signals(c)
    <3>1. releaseDone' = releaseDone
      BY <1>d, <2>2 DEF Signals
    <3> QED
      BY <1>n, <3>1
  <2> QED
    BY <2>1, <2>2
<1>7. Waits(queue12[1]) => queue12[1].value <= readyDone
  <2>1. Waits(c) => c.value <= readyDone
    BY <1>n, <1>d, <1>4 DEF Waits
  <2> QED
    BY <1>2, <2>1
<1>8. Kept(stream, queue12', slots, readyDone, readyValue, frame)
  BY <1>n, <1>3, <1>7, KeptDone
<1>9. /\ registered' \subseteq registered /\ signaled' \in BOOLEAN
      /\ signaled' => signaled \/ \E v \in registered : v <= releaseDone'
      /\ \A v \in registered : v \in registered' \/ (v <= releaseDone' /\ signaled')
      /\ \/ releaseDone' = releaseDone /\ registered' = registered /\ signaled' = signaled
         \/ \A v \in registered' : v > releaseDone'
  <2>0. registered \subseteq Nat /\ signaled \in BOOLEAN
    BY <1>n DEF TypeOK
  <2>1. CASE Signals(c)
    <3>1. Reach(c.value)
      BY <1>d, <2>1 DEF Signals
    <3>2. /\ registered' = {r \in registered : r > c.value}
          /\ releaseDone' = c.value
          /\ signaled' = (signaled \/ \E r \in registered : r <= c.value)
      BY <3>1 DEF Reach
    <3>3. \A v \in registered : v > c.value \/ v <= c.value
      BY <1>4, <2>0, <2>1
    <3> QED
      BY <3>2, <3>3
  <2>2. CASE ~Signals(c)
    <3>1. registered' = registered /\ signaled' = signaled /\ releaseDone' = releaseDone
      BY <1>d, <2>2 DEF Signals
    <3> QED
      BY <2>0, <3>1
  <2> QED
    BY <2>1, <2>2
<1>10. TypeInv'
  <2>1. shown' \in Seq(Frames \cup {None})
    <3>1. CASE Draws(c)
      <4>1. shown' = Append(shown, slots[c.slot].final)
        BY <1>d, <3>1 DEF Draws
      <4>2. slots[c.slot].final \in Frames \cup {None}
        BY <1>n, <1>4, <3>1 DEF Parts
      <4>3. shown \in Seq(Frames \cup {None})
        BY <1>n DEF TypeOK
      <4> QED
        BY <4>1, <4>2, <4>3
    <3>2. CASE ~Draws(c)
      BY <1>n, <1>d, <3>2 DEF Draws, TypeOK
    <3> QED
      BY <3>1, <3>2
  <2>2. registered' \subseteq Nat
    BY <1>n, <1>9 DEF TypeOK
  <2> QED
    BY <1>n, <1>u, <1>3, <1>6, <1>9, <2>1, <2>2 DEF IInv, TypeInv, TypeOK
<1>11. FenceInv'
  <2>1. Fenced(queue12', releaseDone', releaseValue)
    BY <1>n, <1>2, <1>3, <1>5, <1>6, FencedLess
  <2> QED
    BY <1>1, <1>8, <1>u, <2>1 DEF IInv, FenceInv, Kept
<1>12. RingInv'
  <2>1. Released(queue12', release)
    BY <1>3, ReleasedLess DEF IInv, RingInv
  <2>2. waitedFor <= releaseDone => waitedFor <= releaseDone'
    BY <1>n, <1>6
  <2> QED
    BY <1>1, <1>8, <1>u, <2>1, <2>2 DEF IInv, RingInv, Kept
<1>13. HandInv'
  <2>1. pc \in {"blocked", "submit"} => HandedOver(stream, queue12')
    <3>1. Fenced(stream, readyDone, readyValue)
      BY DEF IInv, FenceInv
    <3> QED
      BY <1>n, <1>3, <1>7, <3>1, HandedOverDone DEF IInv, HandInv
  <2> QED
    BY <1>1, <1>8, <1>u, <2>1 DEF HandInv, Kept
<1>14. OwnInv'
  BY <1>1, <1>8, <1>u DEF IInv, OwnInv, Kept
<1>15. EventInv'
  <2>1. ASSUME NEW v \in Nat, registered \subseteq {v},
               signaled => registered = {} /\ v <= releaseDone
        PROVE  registered' \subseteq {v} /\ (signaled' => registered' = {} /\ v <= releaseDone')
    <3>1. CASE signaled
      <4>1. registered' = {} /\ v <= releaseDone'
        BY <1>n, <1>6, <1>9, <2>1, <3>1
      <4> QED
        BY <4>1
    <3>2. CASE ~signaled
      <4>1. ASSUME signaled' PROVE registered' = {} /\ v <= releaseDone'
        <5>1. v <= releaseDone'
          <6>1. PICK u \in registered : u <= releaseDone'
            BY <1>9, <3>2, <4>1
          <6>2. u = v
            BY <2>1
          <6> QED
            BY <6>1, <6>2
        <5>2. \A u \in registered' : u > releaseDone'
          BY <1>9, <3>2, <4>1
        <5>3. v \notin registered'
          BY <1>6, <5>1, <5>2
        <5> QED
          BY <1>9, <2>1, <5>1, <5>3
      <4> QED
        BY <1>9, <2>1, <4>1
    <3> QED
      BY <3>1, <3>2
  <2>2. ASSUME ~signaled, registered = {} PROVE ~signaled' /\ registered' = {}
    BY <1>9, <2>2
  <2>3. ASSUME ReleaseValue <= releaseDone PROVE ReleaseValue <= releaseDone'
    BY <1>n, <1>6, <2>3
  <2>4. ReleaseValue' = ReleaseValue
    BY <1>u DEF ReleaseValue
  <2> QED
    BY <1>n, <1>u, <2>1, <2>2, <2>3, <2>4 DEF IInv, EventInv, LeftOver
<1> QED
  BY <1>10, <1>11, <1>12, <1>13, <1>14, <1>15 DEF IInv

-----------------------------------------------------------------------------
(* The theorems *)

LEMMA StepInv ==
    ASSUME IInv, [Next]_vars
    PROVE  IInv'
<1>1. CASE RenderStart
  BY <1>1, StepRenderStart
<1>2. CASE SubmitFrameInputs
  <2>1. /\ Capture("inputs") /\ pc = "render"
        /\ inputs' = TRUE /\ hudless' = hudless
    BY <1>2 DEF SubmitFrameInputs
  <2>2. "inputs" \in {"inputs", "hudless"} /\ "inputs" # "hudless" /\ hudless \in BOOLEAN
    BY Numbers DEF TypeOK
  <2> QED
    BY <2>1, <2>2, StepCapture
<1>3. CASE SubmitHudless
  <2>1. /\ Capture("hudless") /\ pc = "render"
        /\ hudless' = TRUE /\ inputs' = inputs
    BY <1>3 DEF SubmitHudless
  <2>2. "hudless" \in {"inputs", "hudless"} /\ "inputs" # "hudless" /\ inputs \in BOOLEAN
    BY Numbers DEF TypeOK
  <2> QED
    BY <2>1, <2>2, StepCapture
<1>4. CASE PresentRefused
  BY <1>4, StepPresentRefused
<1>5. CASE PresentStep
  BY <1>5, StepPresentBegin, StepPresentWake, StepPresentSubmit DEF PresentStep
<1>6. CASE ResizeBegin
  BY <1>6, StepResizeBegin
<1>7. CASE ResizeWait \/ ResizeTimedOut \/ ResizeFailed \/ FreedInUse
  BY <1>7, StepResizeWait
<1>8. CASE ResizeDone
  BY <1>8, StepResizeDone
<1>9. CASE D3D11
  BY <1>9, StepD3D11
<1>10. CASE D3D12
  BY <1>10, StepD3D12
<1>11. CASE UNCHANGED vars
  <2>1. UNCHANGED <<pc, frame, usable, current, release, waitedFor, inputs, hudless,
                    readyValue, releaseValue, readyDone, releaseDone, slots, shown, registered,
                    signaled, recorded, queue11, queue12, resizes, late, hurried>>
    BY <1>11 DEF vars, ringVars, flagVars, gpuVars, fenceVars, eventVars, pastVars
  <2>2. stream' = stream
    BY <2>1 DEF stream
  <2>3. TypeInv'
    BY <2>1 DEF IInv, TypeInv, TypeOK
  <2>4. FenceInv' /\ RingInv' /\ HandInv' /\ OwnInv'
    BY <2>1, <2>2 DEF IInv, FenceInv, RingInv, HandInv, OwnInv
  <2>5. EventInv'
    BY <2>1 DEF IInv, EventInv, LeftOver, ReleaseValue
  <2> QED
    BY <2>3, <2>4, <2>5 DEF IInv
<1> QED
  BY <1>1, <1>2, <1>3, <1>4, <1>5, <1>6, <1>7, <1>8, <1>9, <1>10, <1>11 DEF Next

\* The invariant holds in every state: Presenter.cpp's fences, ring and event
\* keep what they promise.
THEOREM Inductive ==
    Spec => []IInv
<1>1. Init => IInv
  BY InitInv
<1>2. IInv /\ [Next]_vars => IInv'
  BY StepInv
<1> QED
  BY <1>1, <1>2, PTL DEF Spec
\* The part that a draw at the head of queue12 needs is in its slot.
LEMMA OwnNow ==
    ASSUME IInv, NEW p, queue12 # <<>>, Draws(Head(queue12)),
           Own(stream, slots, Head(queue12).slot, p, Head(queue12).frame)
    PROVE  slots[Head(queue12).slot][p]
             \in (IF p = "final" THEN {Head(queue12).frame} ELSE {Head(queue12).frame, None})
<1> DEFINE c == Head(queue12)
<1>1. queue12 \in Seq(Command) /\ stream \in Seq(Command)
  BY Numbers
<1>2. 1 \in Pos(queue12) /\ c = queue12[1]
  BY <1>1, Elements
<1>3. ASSUME NEW i \in Pos(stream), WritesTo(stream[i], c.slot, p), stream[i].frame = c.frame
      PROVE  FALSE
  <2>1. Handed(stream, queue12)
    BY DEF IInv, HandInv
  <2>2. Writes(stream[i]) /\ stream[i].frame \in Nat
    BY <1>1, <1>3, Elements, CommandsAre DEF WritesTo
  <2>3. stream[i].frame <= queue12[1].frame
    BY <1>2, <1>3, <2>2
  <2>4. Guarded(queue12, stream, 1, i)
    BY <1>2, <2>1, <2>2, <2>3 DEF Handed
  <2> QED
    BY <1>1, <2>4, NoGuardAhead
<1> QED
  BY <1>3 DEF Own

\* Presenter.cpp:598, SlotRing.h:12: what is shown, generated and recorded
\* with a slot is its own frame's.
THEOREM ServesOneFrame ==
    Spec => []SlotServesOneFrame
<1>1. IInv => SlotServesOneFrame
  <2> SUFFICES ASSUME IInv PROVE SlotServesOneFrame
    OBVIOUS
  <2>n. /\ queue12 \in Seq(Command) /\ current \in Slots /\ release \in [Slots -> Nat]
        /\ releaseDone \in Nat
    BY Numbers
  <2>o. Owned(stream, queue12, slots)
    BY DEF IInv, OwnInv
  <2>1. ASSUME queue12 # <<>>, Draws(Head(queue12))
        PROVE  /\ Own(stream, slots, Head(queue12).slot, "final", Head(queue12).frame)
               /\ Head(queue12).reads => \A p \in {"hudless", "inputs"} :
                    Own(stream, slots, Head(queue12).slot, p, Head(queue12).frame)
    <3>1. 1 \in Pos(queue12) /\ Head(queue12) = queue12[1]
      BY <2>n, <2>1, Elements
    <3> QED
      BY <2>o, <2>1, <3>1 DEF Owned
  <2>2. OwnPicture
    <3> SUFFICES ASSUME queue12 # <<>>, Draws(Head(queue12))
                 PROVE  slots[Head(queue12).slot].final = Head(queue12).frame
      BY DEF OwnPicture, Draws
    <3>1. slots[Head(queue12).slot]["final"] \in {Head(queue12).frame}
      BY <2>1, OwnNow
    <3> QED
      BY <3>1
  <2>3. OwnInputsOnly
    <3> SUFFICES ASSUME queue12 # <<>>, Draws(Head(queue12)), Head(queue12).reads,
                        NEW p \in {"hudless", "inputs"}
                 PROVE  slots[Head(queue12).slot][p] \in {Head(queue12).frame, None}
      BY DEF OwnInputsOnly, Draws
    <3>1. p # "final"
      OBVIOUS
    <3> QED
      BY <2>1, <3>1, OwnNow
  <2>4. AllocatorIdleAtReset
    <3> SUFFICES ASSUME pc = "submit", ~hurried PROVE Reading(current) = {}
      BY DEF AllocatorIdleAtReset, Hurried, IInv, EventInv
    <3>1. release[current] <= releaseDone
      BY DEF IInv, EventInv, LeftOver, ReleaseValue
    <3>2. Released(queue12, release) /\ Fenced(queue12, releaseDone, releaseValue)
      BY DEF IInv, RingInv, FenceInv
    <3>3. \A j \in Pos(queue12) : ~(Draws(queue12[j]) /\ queue12[j].slot = current)
      BY <2>n, <3>1, <3>2, NotReading
    <3>4. DOMAIN queue12 = Pos(queue12)
      BY <2>n, Elements
    <3> QED
      BY <3>3, <3>4 DEF Reading, Draws
  <2> QED
    BY <2>2, <2>3, <2>4 DEF SlotServesOneFrame
<1> QED
  BY <1>1, Inductive, PTL

\* SlotRing.h:9: whatever D3D11 writes next, D3D12 has read what was there.
THEOREM WritesWait ==
    Spec => NoWriteUnderRead
<1>1. IInv /\ [Next]_vars =>
        [\A s \in Slots : slots'[s] # slots[s] /\ slots'[s] # Blank =>
            \A i \in Reading(s) : queue12[i].frame >= Head(queue11).frame]_vars
  <2> SUFFICES ASSUME IInv, [Next]_vars, NEW s \in Slots, slots'[s] # slots[s],
                      slots'[s] # Blank, NEW i \in Reading(s)
               PROVE  queue12[i].frame >= Head(queue11).frame
    OBVIOUS
  <2>1. D3D11
    <3>1. ResizeDone => slots'[s] = Blank
      BY DEF ResizeDone
    <3>2. slots' # slots
      OBVIOUS
    <3> QED
      BY <3>1, <3>2 DEF Next, vars, gpuVars, RenderStart, SubmitFrameInputs, SubmitHudless,
           Capture, PresentRefused, PresentStep, PresentBegin, PresentWake, PresentSubmit,
           ResizeBegin, ResizeWait, ResizeTimedOut, ResizeFailed, FreedInUse, D3D12
  <2> DEFINE c == Head(queue11)
  <2>2. /\ c.op = "write" /\ c.slot # Gone /\ queue11 # <<>>
        /\ slots' = [slots EXCEPT ![c.slot][c.part] = c.frame]
    BY <2>1 DEF D3D11
  <2>3. /\ TypeOK /\ queue12 \in Seq(Command) /\ stream \in Seq(Command)
        /\ slots \in [Slots -> [Parts -> Frames \cup {None}]]
    BY Numbers
  <2>4. stream # <<>> /\ c = stream[1] /\ 1 \in Pos(stream)
    BY <2>2, <2>3, StreamDone, Elements
  <2>5. c.slot = s
    BY <2>2, <2>3
  <2>6. i \in Pos(queue12) /\ Draws(queue12[i]) /\ queue12[i].slot = s
    BY <2>3, Elements DEF Reading, Draws
  <2>7. queue12[i].frame \in Nat /\ stream[1].frame \in Nat
    BY <2>2, <2>3, <2>4, <2>6, Elements, CommandsAre DEF Writes
  <2>8. ~(queue12[i].frame < stream[1].frame)
    <3>1. Protected(stream, queue12)
      BY DEF IInv, RingInv
    <3> QED
      BY <2>2, <2>3, <2>4, <2>5, <2>6, <3>1, NoGuardAhead DEF Protected, Writes
  <2> QED
    BY <2>4, <2>7, <2>8
<1> QED
  BY <1>1, Inductive, PTL DEF Spec, NoWriteUnderRead

\* Presenter.cpp:736: when a resize goes on, D3D12 has nothing left to draw,
\* except when a timed-out drain had left its event to this one: there the code
\* may free what is in use, and the theorem says that it does so nowhere else.
THEOREM ResizeIsIdle ==
    Spec => FreedOnlyWhenIdle
<1>1. IInv /\ [Next]_vars =>
        [(pc = "drain" \/ (pc = "draining" /\ signaled)) /\ pc' \in {"render", "undefined"}
           => Idle \/ Hurried]_vars
  <2> SUFFICES ASSUME IInv, [Next]_vars, pc' \in {"render", "undefined"},
                      pc = "drain" \/ (pc = "draining" /\ signaled), ~Hurried
               PROVE  Idle
    OBVIOUS
  <2>1. ~hurried
    BY DEF Hurried, IInv, EventInv
  <2>2. \/ pc = "drain" /\ releaseDone >= releaseValue
        \/ pc = "draining" /\ signaled
    <3>1. CASE pc = "drain"
      <4>1. Drained
        BY <3>1 DEF Next, vars, RenderStart, SubmitFrameInputs, SubmitHudless, Capture,
             PresentRefused, PresentStep, PresentBegin, PresentWake, PresentSubmit, FreedInUse,
             ResizeBegin, ResizeWait, ResizeTimedOut, ResizeDone, ResizeFailed, D3D11, D3D12
      <4> QED
        BY <3>1, <4>1 DEF Drained
    <3> QED
      BY <3>1
  <2> QED
    BY <2>1, <2>2, DrainedIsIdle, IdleIs
<1> QED
  BY <1>1, Inductive, PTL DEF Spec, FreedOnlyWhenIdle

-----------------------------------------------------------------------------
(* How far D3D12 is behind.  After a drain that timed out the event it left   *)
(* behind may let the thread go on once before its slot is free.             *)

\* A signal up to v stands behind place i.
Covered(q, i, v) == \E k \in Pos(q) : i < k /\ Signals(q[k]) /\ q[k].value <= v

\* Two draws of one slot.
Twice(q, i, j) == i < j /\ Draws(q[i]) /\ Draws(q[j]) /\ q[i].slot = q[j].slot

\* From slot c on, once around the ring, s comes before t or is t.
Before(c, s, t) == \/ s <= t /\ (c <= s \/ t < c)
                   \/ t < c /\ c <= s

\* The slot that is next was given back first.
TakenInTurn == \A s, t \in Slots : Before(current, s, t) => release[s] <= release[t]

\* The queue holds two draws of a slot only where the thread has still to wait
\* for the first of them.
TwiceInv ==
    \A i, j \in Pos(queue12) : Twice(queue12, i, j) =>
        /\ pc # "submit" /\ ~signaled
        /\ \A r \in registered : Covered(queue12, i, r)
        /\ \A s \in Slots : Covered(queue12, i, release[s])

\* The thread has its slot, or nothing keeps it from it: a draw of it that is
\* left after a drain that timed out is one that every registration waits for.
Entered == pc = "submit" \/ (pc = "blocked" /\ signaled)
EnteredInv ==
    Entered => \A i \in Pos(queue12) : Draws(queue12[i]) /\ queue12[i].slot = current =>
        /\ pc = "submit" => ~signaled
        /\ \A r \in registered : Covered(queue12, i, r)

\* What the thread waits for.
Waiting == pc \in {"blocked", "draining"}
Awaited == IF pc = "blocked" THEN ReleaseValue ELSE releaseValue

\* One registration at most was left behind.
LoneInv ==
    /\ \A r, t \in registered : r # t => Waiting /\ ~signaled /\ Awaited \in {r, t}
    /\ signaled /\ ~Waiting => registered = {}

LagInv == TakenInTurn /\ TwiceInv /\ EnteredInv /\ LoneInv

LEMMA CoveredMore ==
    ASSUME NEW q, NEW r, NEW c, Extended(q, r, c), NEW i, NEW v, Covered(q, i, v)
    PROVE  Covered(r, i, v)
  BY DEF Covered, Extended

LEMMA CoveredLess ==
    ASSUME NEW q, NEW r, Dropped(q, r), NEW i \in Pos(r), NEW v, Covered(q, i + 1, v)
    PROVE  Covered(r, i, v)
<1> PICK k \in Pos(q) : i + 1 < k /\ Signals(q[k]) /\ q[k].value <= v
  BY DEF Covered
<1>1. k \in Nat /\ i \in Nat /\ k # 1
  BY DEF Dropped
<1>2. k - 1 \in Pos(r) /\ r[k - 1] = q[k] /\ i < k - 1
  BY <1>1 DEF Dropped
<1> QED
  BY <1>2 DEF Covered

\* What is covered the fence has not reached ...
LEMMA CoveredAhead ==
    ASSUME NEW q \in Seq(Command), NEW d \in Nat, NEW w, Fenced(q, d, w),
           NEW i \in Pos(q), NEW v \in Nat, Covered(q, i, v)
    PROVE  d < v
<1> PICK k \in Pos(q) : i < k /\ Signals(q[k]) /\ q[k].value <= v
  BY DEF Covered
<1>1. q[k].value \in Nat /\ d < q[k].value
  BY Elements, CommandsAre DEF Fenced
<1> QED
  BY <1>1

\* ... nor does the next signal reach it.
LEMMA CoveredBeyond ==
    ASSUME NEW q \in Seq(Command), NEW d, NEW w, Fenced(q, d, w), Signals(q[1]), 1 \in Pos(q),
           NEW i \in Pos(q), NEW v \in Nat, Covered(q, i, v)
    PROVE  q[1].value < v
<1> PICK k \in Pos(q) : i < k /\ Signals(q[k]) /\ q[k].value <= v
  BY DEF Covered
<1>1. i \in Nat /\ 1 <= i /\ k \in Nat /\ q[k].value \in Nat /\ q[1].value \in Nat
  BY Elements, CommandsAre
<1>2. 1 < k
  BY <1>1
<1>3. q[1].value < q[k].value
  BY <1>2 DEF Fenced
<1> QED
  BY <1>1, <1>3

LEMMA CoveredHigher ==
    ASSUME NEW q \in Seq(Command), NEW i, NEW v \in Nat, Covered(q, i, v), NEW w \in Nat, v <= w
    PROVE  Covered(q, i, w)
<1> PICK k \in Pos(q) : i < k /\ Signals(q[k]) /\ q[k].value <= v
  BY DEF Covered
<1>1. q[k].value \in Nat
  BY Elements, CommandsAre
<1>2. q[k].value <= w
  BY <1>1
<1> QED
  BY <1>2 DEF Covered

LEMMA TwiceMore ==
    ASSUME NEW q, NEW r, NEW c, Extended(q, r, c), ~Draws(c),
           NEW i \in Pos(r), NEW j \in Pos(r), Twice(r, i, j)
    PROVE  i \in Pos(q) /\ j \in Pos(q) /\ Twice(q, i, j)
  BY DEF Twice, Extended

\* What the steps of the thread need.
LEMMA Lagging ==
    ASSUME IInv
    PROVE  /\ Fenced(queue12, releaseDone, releaseValue) /\ registered \subseteq Nat
           /\ \A s \in Slots : release[s] \in Nat /\ release[s] <= releaseValue
           /\ \A i \in Pos(queue12) : Draws(queue12[i]) =>
                queue12[i].slot \in Slots /\ Covered(queue12, i, release[queue12[i].slot])
<1>1. /\ release \in [Slots -> Nat] /\ queue12 \in Seq(Command) /\ TypeOK
  BY Numbers
<1>2. \A i \in Pos(queue12) : Draws(queue12[i]) =>
                queue12[i].slot \in Slots /\ Covered(queue12, i, release[queue12[i].slot])
  BY <1>1, Elements, CommandsAre DEF IInv, RingInv, Released, Covered
<1>3. registered \subseteq Nat /\ \A s \in Slots : release[s] \in Nat
  BY <1>1 DEF TypeOK
<1> QED
  BY <1>2, <1>3 DEF IInv, FenceInv

LEMMA LagPresentBegin ==
    ASSUME IInv, LagInv, PresentBegin
    PROVE  LagInv'
<1> DEFINE d == Wait(readyValue + 1)
<1>n. /\ queue12 \in Seq(Command) /\ current \in Slots /\ readyValue + 1 \in Nat
      /\ releaseDone \in Nat /\ ReleaseValue \in Nat
  BY Numbers
<1>1. d \in Command /\ ~Draws(d)
  BY <1>n, MadeCommands
<1>u. /\ UNCHANGED <<current, release, signaled>> /\ pc = "render"
      /\ queue12' = Append(queue12, d)
      /\ \/ Reusable /\ pc' = "submit" /\ registered' = registered
         \/ ~Reusable /\ pc' = "blocked" /\ registered' = registered \cup {ReleaseValue}
  BY DEF PresentBegin
<1> HIDE DEF d
<1>2. queue12' \in Seq(Command) /\ Extended(queue12, queue12', d)
  <2>1. queue12' = queue12 \o <<d>>
    BY <1>n, <1>1, <1>u, AppendIsConcat
  <2> QED
    BY <1>n, <1>1, <2>1, Extends
<1>3. /\ \A i \in Pos(queue12') : Draws(queue12'[i]) => i \in Pos(queue12) /\ queue12'[i] = queue12[i]
  BY <1>1, <1>2 DEF Extended
<1>4. \A i \in Pos(queue12) : Draws(queue12[i]) /\ queue12[i].slot = current =>
        Covered(queue12, i, ReleaseValue)
  BY Lagging DEF ReleaseValue
<1>5. \A i \in Pos(queue12) : \A v : Covered(queue12, i, v) => Covered(queue12', i, v)
  BY <1>2, CoveredMore
<1>6. \A i \in Pos(queue12) : Covered(queue12, i, ReleaseValue) => ~Reusable
  <2> SUFFICES ASSUME NEW i \in Pos(queue12), Covered(queue12, i, ReleaseValue) PROVE ~Reusable
    OBVIOUS
  <2>1. releaseDone < ReleaseValue
    BY <1>n, Lagging, CoveredAhead
  <2> QED
    BY <1>n, <2>1 DEF Reusable
<1>7. TakenInTurn'
  BY <1>u DEF LagInv, TakenInTurn, Before
<1>8. TwiceInv'
  <2> SUFFICES ASSUME NEW i \in Pos(queue12'), NEW j \in Pos(queue12'), Twice(queue12', i, j)
               PROVE  /\ pc' # "submit" /\ ~signaled'
                      /\ \A r \in registered' : Covered(queue12', i, r)
                      /\ \A s \in Slots : Covered(queue12', i, release'[s])
    BY DEF TwiceInv
  <2>1. i \in Pos(queue12) /\ j \in Pos(queue12) /\ Twice(queue12, i, j)
    BY <1>1, <1>2, TwiceMore
  <2>2. /\ ~signaled /\ \A r \in registered : Covered(queue12, i, r)
        /\ \A s \in Slots : Covered(queue12, i, release[s])
    BY <2>1 DEF LagInv, TwiceInv
  <2>3. Covered(queue12, i, ReleaseValue)
    BY <1>n, <2>2 DEF ReleaseValue
  <2>4. ~Reusable
    BY <1>6, <2>1, <2>3
  <2> QED
    BY <1>5, <1>u, <2>1, <2>2, <2>3, <2>4
<1>9. EnteredInv'
  <2> SUFFICES ASSUME Entered', NEW i \in Pos(queue12'), Draws(queue12'[i]),
                      queue12'[i].slot = current'
               PROVE  /\ pc' = "submit" => ~signaled'
                      /\ \A r \in registered' : Covered(queue12', i, r)
    BY DEF EnteredInv
  <2>1. i \in Pos(queue12) /\ Draws(queue12[i]) /\ queue12[i].slot = current
    BY <1>3, <1>u
  <2>2. Covered(queue12, i, ReleaseValue)
    BY <1>4, <2>1
  <2>3. ~Reusable
    BY <1>6, <2>1, <2>2
  <2>4. signaled /\ registered = {}
    BY <1>u, <2>3 DEF Entered, LagInv, LoneInv, Waiting
  <2> QED
    BY <1>5, <1>u, <2>1, <2>2, <2>3, <2>4
<1>10. LoneInv'
  <2>1. ReleaseValue' = ReleaseValue
    BY <1>u DEF ReleaseValue
  <2> QED
    BY <1>u, <2>1 DEF LagInv, LoneInv, Waiting, Awaited
<1> QED
  BY <1>7, <1>8, <1>9, <1>10 DEF LagInv

LEMMA LagPresentWake ==
    ASSUME LagInv, PresentWake
    PROVE  LagInv'
<1>u. /\ UNCHANGED <<current, release, registered, queue12>>
      /\ pc = "blocked" /\ pc' = "submit" /\ signaled /\ signaled' = FALSE
  BY DEF PresentWake, ringVars
<1>1. TakenInTurn'
  BY <1>u DEF LagInv, TakenInTurn, Before
<1>2. TwiceInv'
  BY <1>u DEF LagInv, TwiceInv
<1>3. EnteredInv'
  BY <1>u DEF LagInv, EnteredInv, Entered
<1>4. LoneInv'
  BY <1>u DEF LagInv, LoneInv
<1> QED
  BY <1>1, <1>2, <1>3, <1>4 DEF LagInv

\* The ring goes on: the slot that was used is the last one now.
LEMMA RingGoesOn ==
    ASSUME NEW c \in Slots, NEW d, d = (c + 1) % kSlots,
           NEW s \in Slots, NEW t \in Slots, Before(d, s, t)
    PROVE  /\ t # c => s # c /\ Before(c, s, t)
           /\ Before(c, c, s)
<1>1. kSlots \in Nat /\ kSlots > 0 /\ c \in 0 .. kSlots - 1 /\ s \in 0 .. kSlots - 1
      /\ t \in 0 .. kSlots - 1
  BY NumbersAre DEF Slots
<1>2. d = (IF c + 1 = kSlots THEN 0 ELSE c + 1)
  <2>1. CASE c + 1 = kSlots
    BY <1>1, <2>1
  <2>2. CASE c + 1 # kSlots
    <3>1. c + 1 \in Nat /\ c + 1 < kSlots
      BY <1>1, <2>2
    <3> QED
      BY <1>1, <2>2, <3>1
  <2> QED
    BY <2>1, <2>2
<1> QED
  BY <1>1, <1>2 DEF Before

\* D3D12 is given the frame's draw and the signal behind it.
Submitted(c, d, r) ==
    /\ c \in Command /\ Draws(c) /\ c.slot = current /\ c.frame = frame
    /\ d \in Command /\ Signals(d) /\ d.value = releaseValue + 1 /\ ~Draws(d)
    /\ r \in Seq(Command) /\ Extended(queue12, r, c)
    /\ queue12' \in Seq(Command) /\ Extended(r, queue12', d)

LEMMA Submits ==
    ASSUME IInv, PresentSubmit
    PROVE  \E c, d, r : Submitted(c, d, r)
<1> DEFINE c == Draw(current, inputs /\ hudless)
           d == Signal(releaseValue + 1)
           r == queue12 \o <<c>>
<1>n. /\ TypeOK /\ queue12 \in Seq(Command) /\ frame \in Frames /\ current \in Slots
      /\ releaseValue + 1 \in Nat
  BY Numbers
<1>0. (inputs /\ hudless) \in BOOLEAN
  BY <1>n DEF TypeOK
<1>1. /\ c \in Command /\ Draws(c) /\ c.slot = current /\ c.frame = frame
      /\ d \in Command /\ Signals(d) /\ d.value = releaseValue + 1 /\ ~Draws(d)
  BY <1>n, <1>0, MadeCommands
<1>u. queue12' = queue12 \o <<c, d>>
  BY DEF PresentSubmit
<1> HIDE DEF c, d
<1>2. r \in Seq(Command) /\ Extended(queue12, r, c)
  BY <1>n, <1>1, Extends
<1>3. queue12' = r \o <<d>>
  <2>1. <<c, d>> = Cat(<<c>>, <<d>>)
    BY Pairs
  <2> DEFINE first == <<c>>
             second == <<d>>
  <2>2. first \in Seq(Command) /\ second \in Seq(Command) /\ queue12 \in Seq(Command)
    BY <1>n, <1>1
  <2>3. queue12' = Cat(queue12, Cat(first, second))
    BY <1>u, <2>1 DEF Cat
  <2> HIDE DEF first, second
  <2>4. queue12' = Cat(Cat(queue12, first), second)
    BY <2>2, <2>3, Associates
  <2> QED
    BY <2>4 DEF Cat, first, second
<1> HIDE DEF r
<1>4. queue12' \in Seq(Command) /\ Extended(r, queue12', d)
  BY <1>1, <1>2, <1>3, Extends
<1> QED
  BY <1>1, <1>2, <1>4 DEF Submitted

LEMMA LagPresentSubmit ==
    ASSUME IInv, LagInv, PresentSubmit
    PROVE  LagInv'
<1>n. /\ queue12 \in Seq(Command) /\ current \in Slots
      /\ release \in [Slots -> Nat] /\ releaseValue \in Nat
      /\ releaseValue + 1 \in Nat /\ releaseValue <= releaseValue + 1
  BY Numbers
<1>u. /\ UNCHANGED <<registered, signaled>> /\ pc = "submit" /\ pc' = "render"
      /\ release' = [release EXCEPT ![current] = releaseValue + 1]
      /\ current' = (current + 1) % kSlots
  BY DEF PresentSubmit, Submit, eventVars
<1> PICK c, d, r : Submitted(c, d, r)
  BY Submits
<1>1. Draws(c) /\ c.slot = current /\ Signals(d) /\ d.value = releaseValue + 1 /\ ~Draws(d)
  BY DEF Submitted
<1>2. Extended(queue12, r, c)
  BY DEF Submitted
<1>3. Extended(r, queue12', d)
  BY DEF Submitted
<1>4. \A i \in Pos(queue12) : \A v : Covered(queue12, i, v) => Covered(queue12', i, v)
  BY <1>2, <1>3, CoveredMore
<1>5. \A i \in Pos(r) : Covered(queue12', i, releaseValue + 1)
  <2>1. \A i \in Pos(r) : i < Len(queue12') /\ Len(queue12') \in Pos(queue12')
    BY <1>3 DEF Extended
  <2>2. Signals(queue12'[Len(queue12')]) /\ queue12'[Len(queue12')].value <= releaseValue + 1
    BY <1>n, <1>1, <1>3 DEF Extended
  <2> QED
    BY <2>1, <2>2 DEF Covered
<1>6. /\ \A s \in Slots : release[s] \in Nat /\ release[s] <= releaseValue
      /\ release'[current] = releaseValue + 1
      /\ \A s \in Slots : s # current => release'[s] = release[s]
  BY <1>n, <1>u, Lagging
<1>7. \A s \in Slots : release'[s] <= releaseValue + 1
  BY <1>n, <1>6
<1>8. TakenInTurn'
  <2> SUFFICES ASSUME NEW s \in Slots, NEW t \in Slots, Before(current', s, t)
               PROVE  release'[s] <= release'[t]
    BY DEF TakenInTurn
  <2>1. CASE t = current
    BY <1>6, <1>7, <2>1
  <2>2. CASE t # current
    <3>1. s # current /\ Before(current, s, t)
      BY <1>n, <1>u, <2>2, RingGoesOn
    <3> QED
      BY <1>6, <2>2, <3>1 DEF LagInv, TakenInTurn
  <2> QED
    BY <2>1, <2>2
<1>9. TwiceInv'
  <2> SUFFICES ASSUME NEW i \in Pos(queue12'), NEW j \in Pos(queue12'), Twice(queue12', i, j)
               PROVE  /\ pc' # "submit" /\ ~signaled'
                      /\ \A v \in registered' : Covered(queue12', i, v)
                      /\ \A s \in Slots : Covered(queue12', i, release'[s])
    BY DEF TwiceInv
  <2>1. i \in Pos(r) /\ j \in Pos(r) /\ Twice(r, i, j)
    BY <1>1, <1>3, TwiceMore
  <2>2. i \in Pos(queue12) /\ r[i] = queue12[i]
    BY <1>2, <2>1 DEF Extended, Twice
  <2>3. r[j] = c /\ Draws(queue12[i]) /\ queue12[i].slot = current
    <3>1. CASE j \in Pos(queue12)
      <4>1. Twice(queue12, i, j)
        BY <1>2, <2>1, <2>2, <3>1 DEF Twice, Extended
      <4> QED
        BY <1>u, <2>2, <3>1, <4>1 DEF LagInv, TwiceInv
    <3>2. CASE j = Len(r)
      BY <1>1, <1>2, <2>1, <2>2, <3>2 DEF Twice, Extended
    <3> QED
      BY <1>2, <2>1, <3>1, <3>2 DEF Extended
  <2>4. ~signaled /\ \A v \in registered : Covered(queue12, i, v)
    BY <1>u, <2>2, <2>3 DEF LagInv, EnteredInv, Entered
  <2>5. ASSUME NEW s \in Slots PROVE Covered(queue12', i, release'[s])
    <3>1. CASE s = current
      BY <1>5, <1>6, <2>1, <3>1
    <3>2. CASE s # current
      <4>1. Before(current, current, s)
        <5>1. kSlots \in Nat /\ current \in 0 .. kSlots - 1 /\ s \in 0 .. kSlots - 1
          BY <1>n, NumbersAre DEF Slots
        <5> QED
          BY <5>1 DEF Before
      <4>2. release[current] <= release[s]
        BY <1>n, <4>1 DEF LagInv, TakenInTurn
      <4>3. Covered(queue12, i, release[current])
        BY <2>2, <2>3, Lagging
      <4>4. Covered(queue12, i, release[s])
        BY <1>n, <1>6, <4>2, <4>3, CoveredHigher
      <4> QED
        BY <1>4, <1>6, <2>2, <3>2, <4>4
    <3> QED
      BY <3>1, <3>2
  <2> QED
    BY <1>4, <1>u, <2>2, <2>4, <2>5
<1>10. EnteredInv'
  BY <1>u DEF EnteredInv, Entered
<1>11. LoneInv'
  BY <1>u DEF LagInv, LoneInv, Waiting
<1> QED
  BY <1>8, <1>9, <1>10, <1>11 DEF LagInv

LEMMA LagResizeBegin ==
    ASSUME IInv, LagInv, ResizeBegin
    PROVE  LagInv'
<1> DEFINE d == Signal(releaseValue + 1)
<1>n. /\ queue12 \in Seq(Command) /\ releaseValue + 1 \in Nat
  BY Numbers
<1>1. d \in Command /\ ~Draws(d)
  BY <1>n, MadeCommands
<1>u. /\ UNCHANGED <<current, release, registered, signaled>> /\ pc = "render" /\ pc' = "drain"
      /\ queue12' = Append(queue12, d)
  BY DEF ResizeBegin, ringVars, eventVars
<1> HIDE DEF d
<1>2. Extended(queue12, queue12', d)
  <2>1. queue12' = queue12 \o <<d>>
    BY <1>n, <1>1, <1>u, AppendIsConcat
  <2> QED
    BY <1>n, <1>1, <2>1, Extends
<1>3. \A i \in Pos(queue12) : \A v : Covered(queue12, i, v) => Covered(queue12', i, v)
  BY <1>2, CoveredMore
<1>4. TakenInTurn'
  BY <1>u DEF LagInv, TakenInTurn, Before
<1>5. TwiceInv'
  <2> SUFFICES ASSUME NEW i \in Pos(queue12'), NEW j \in Pos(queue12'), Twice(queue12', i, j)
               PROVE  /\ pc' # "submit" /\ ~signaled'
                      /\ \A r \in registered' : Covered(queue12', i, r)
                      /\ \A s \in Slots : Covered(queue12', i, release'[s])
    BY DEF TwiceInv
  <2>1. i \in Pos(queue12) /\ j \in Pos(queue12) /\ Twice(queue12, i, j)
    BY <1>1, <1>2, TwiceMore
  <2> QED
    BY <1>3, <1>u, <2>1 DEF LagInv, TwiceInv
<1>6. EnteredInv'
  BY <1>u DEF EnteredInv, Entered
<1>7. LoneInv'
  BY <1>u DEF LagInv, LoneInv, Waiting
<1> QED
  BY <1>4, <1>5, <1>6, <1>7 DEF LagInv

LEMMA LagResizeWait ==
    ASSUME IInv, LagInv, ResizeWait \/ ResizeTimedOut \/ ResizeFailed \/ FreedInUse
    PROVE  LagInv'
<1>u. /\ UNCHANGED <<current, release, releaseValue, queue12>>
      /\ pc \in {"drain", "draining"} /\ pc' \in {"draining", "render", "undefined"}
      /\ signaled' => signaled
  <2>1. CASE ResizeWait
    BY <2>1 DEF ResizeWait, ringVars
  <2>2. CASE ResizeTimedOut
    BY <2>2 DEF ResizeTimedOut, ringVars, eventVars
  <2>3. CASE ResizeFailed
    BY <2>3 DEF ResizeFailed, Drained, ringVars
  <2>4. CASE FreedInUse
    BY <2>4 DEF FreedInUse, Drained, ringVars
  <2> QED
    BY <2>1, <2>2, <2>3, <2>4
<1>r. \/ registered' = registered
      \/ registered' = registered \cup {releaseValue}
  BY DEF ResizeWait, ResizeTimedOut, ResizeFailed, FreedInUse, eventVars
<1>n. queue12 \in Seq(Command) /\ releaseValue \in Nat /\ 0 \in Slots
  BY Numbers, NumbersAre
<1>1. TakenInTurn'
  BY <1>u DEF LagInv, TakenInTurn, Before
<1>2. TwiceInv'
  <2> SUFFICES ASSUME NEW i \in Pos(queue12), NEW j \in Pos(queue12), Twice(queue12, i, j)
               PROVE  /\ ~signaled'
                      /\ \A r \in registered' : Covered(queue12, i, r)
                      /\ \A s \in Slots : Covered(queue12, i, release[s])
    BY <1>u DEF TwiceInv
  <2>1. /\ ~signaled /\ \A r \in registered : Covered(queue12, i, r)
        /\ \A s \in Slots : Covered(queue12, i, release[s])
    BY DEF LagInv, TwiceInv
  <2>2. Covered(queue12, i, releaseValue)
    <3>1. release[0] \in Nat /\ release[0] <= releaseValue /\ Covered(queue12, i, release[0])
      BY <1>n, <2>1, Lagging
    <3> QED
      BY <1>n, <3>1, CoveredHigher
  <2> QED
    BY <1>u, <1>r, <2>1, <2>2
<1>3. EnteredInv'
  BY <1>u DEF EnteredInv, Entered
<1>4. LoneInv'
  <2>1. CASE ResizeWait
    <3>1. /\ pc = "drain" /\ pc' = "draining" /\ registered' = registered \cup {releaseValue}
          /\ UNCHANGED <<signaled, releaseValue>>
      BY <2>1 DEF ResizeWait
    <3>2. /\ \A r, t \in registered : r = t
          /\ signaled => registered = {}
      BY <3>1 DEF LagInv, LoneInv, Waiting
    <3> QED
      BY <3>1, <3>2 DEF LoneInv, Waiting, Awaited
  <2>2. CASE ResizeTimedOut
    <3>1. registered' \subseteq {releaseValue} /\ ~signaled'
      BY <2>2 DEF ResizeTimedOut, OneLeftOver, eventVars
    <3> QED
      BY <3>1 DEF LoneInv
  <2>3. CASE ResizeFailed \/ FreedInUse
    <3>1. /\ registered' = registered /\ Drained
      BY <2>3 DEF ResizeFailed, FreedInUse
    <3>2. /\ \A r, t \in registered : r = t
          /\ signaled' => registered = {}
      BY <3>1 DEF LagInv, LoneInv, Waiting, Drained
    <3> QED
      BY <3>1, <3>2 DEF LoneInv
  <2> QED
    BY <2>1, <2>2, <2>3
<1> QED
  BY <1>1, <1>2, <1>3, <1>4 DEF LagInv

LEMMA LagResizeDone ==
    ASSUME IInv, LagInv, ResizeDone
    PROVE  LagInv'
<1>u. /\ UNCHANGED <<registered, queue12>> /\ pc' = "render"
      /\ release' = [s \in Slots |-> 0] /\ pc \in {"drain", "draining"}
      /\ signaled' => signaled
      /\ Idle /\ Drained
  BY DEF ResizeDone, Drained
<1>1. \A j \in Pos(queue12) : ~Draws(queue12[j])
  BY <1>u, IdleIs
<1>2. TakenInTurn'
  <2>1. \A s \in Slots : release'[s] = 0
    BY <1>u
  <2> QED
    BY <2>1 DEF TakenInTurn
<1>3. TwiceInv' /\ EnteredInv'
  BY <1>1, <1>u DEF TwiceInv, EnteredInv, Twice
<1>4. LoneInv'
  <2>1. /\ \A r, t \in registered : r = t
        /\ signaled' => registered = {}
    BY <1>u DEF LagInv, LoneInv, Waiting, Drained, ResizeDone
  <2> QED
    BY <1>u, <2>1 DEF LoneInv
<1> QED
  BY <1>2, <1>3, <1>4 DEF LagInv

LEMMA LagD3D12 ==
    ASSUME IInv, LagInv, D3D12
    PROVE  LagInv'
<1> DEFINE c == Head(queue12)
<1>n. /\ queue12 \in Seq(Command) /\ releaseDone \in Nat /\ ReleaseValue \in Nat
      /\ current \in Slots /\ TypeOK
  BY Numbers
<1>u. /\ UNCHANGED <<pc, current, release, releaseValue>> /\ ReleaseValue' = ReleaseValue
      /\ queue12 # <<>> /\ queue12' = Tail(queue12)
      /\ \/ registered' = registered /\ signaled' = signaled
         \/ Signals(c) /\ Reach(c.value)
  BY DEF D3D12, ringVars, eventVars, ReleaseValue, Signals
<1>1. 1 \in Pos(queue12) /\ c = queue12[1] /\ c \in Command
  BY <1>n, <1>u, Elements
<1> HIDE DEF c
<1>2. Dropped(queue12, queue12')
  BY <1>n, <1>u, Drops
<1>3. /\ registered' \subseteq registered
      /\ \/ registered' = registered /\ signaled' = signaled
         \/ /\ Signals(c) /\ \A v \in registered' : v > c.value
            /\ signaled' => signaled \/ \E v \in registered : v <= c.value
      /\ signaled => signaled'
      /\ \A v \in registered : v \in registered' \/ (signaled' /\ Signals(c) /\ v <= c.value)
  <2>1. CASE registered' = registered /\ signaled' = signaled
    BY <2>1
  <2>2. CASE Signals(c) /\ Reach(c.value)
    <3>1. /\ registered' = {r \in registered : r > c.value}
          /\ signaled' <=> (signaled \/ \E r \in registered : r <= c.value)
      BY <2>2 DEF Reach
    <3>2. c.value \in Nat /\ registered \subseteq Nat
      BY <1>1, <2>2, CommandsAre, Lagging
    <3>3. \A v \in registered : v > c.value \/ v <= c.value
      BY <3>2
    <3> QED
      BY <2>2, <3>1, <3>3
  <2> QED
    BY <1>u, <2>1, <2>2
\* A draw that a registration waits for is not behind it.
<1>4. ASSUME NEW i \in Pos(queue12), NEW v \in registered, Covered(queue12, i, v),
             Signals(c), v <= c.value
      PROVE  FALSE
  <2>1. v \in Nat /\ c.value \in Nat /\ Fenced(queue12, releaseDone, releaseValue)
    BY <1>1, <1>4, CommandsAre, Lagging
  <2>2. c.value < v
    BY <1>n, <1>1, <1>4, <2>1, CoveredBeyond
  <2> QED
    BY <1>4, <2>1, <2>2
<1>5. ASSUME NEW i \in Pos(queue12')
      PROVE  /\ i + 1 \in Pos(queue12) /\ queue12'[i] = queue12[i + 1]
             /\ \A v : Covered(queue12, i + 1, v) => Covered(queue12', i, v)
  BY <1>2, CoveredLess DEF Dropped
<1>6. TakenInTurn'
  BY <1>u DEF LagInv, TakenInTurn, Before
<1>7. TwiceInv'
  <2> SUFFICES ASSUME NEW i \in Pos(queue12'), NEW j \in Pos(queue12'), Twice(queue12', i, j)
               PROVE  /\ pc # "submit" /\ ~signaled'
                      /\ \A r \in registered' : Covered(queue12', i, r)
                      /\ \A s \in Slots : Covered(queue12', i, release[s])
    BY <1>u DEF TwiceInv
  <2>1. Twice(queue12, i + 1, j + 1)
    <3>1. i \in Nat /\ j \in Nat
      BY <1>2 DEF Dropped
    <3> QED
      BY <1>5, <3>1 DEF Twice
  <2>2. /\ pc # "submit" /\ ~signaled /\ \A r \in registered : Covered(queue12, i + 1, r)
        /\ \A s \in Slots : Covered(queue12, i + 1, release[s])
    BY <1>5, <2>1 DEF LagInv, TwiceInv
  <2>3. ~signaled'
    BY <1>3, <1>4, <1>5, <2>2
  <2> QED
    BY <1>3, <1>5, <2>2, <2>3
<1>8. EnteredInv'
  <2> SUFFICES ASSUME Entered', NEW i \in Pos(queue12'), Draws(queue12'[i]),
                      queue12'[i].slot = current
               PROVE  /\ pc = "submit" => ~signaled'
                      /\ \A r \in registered' : Covered(queue12', i, r)
    BY <1>u DEF EnteredInv
  <2> DEFINE m == i + 1
  <2>1. m \in Pos(queue12) /\ Draws(queue12[m]) /\ queue12[m].slot = current
    BY <1>5
  <2>2. Covered(queue12, m, ReleaseValue)
    BY <2>1, Lagging DEF ReleaseValue
  <2> HIDE DEF m
  <2>3. \A r \in registered' : Covered(queue12, m, r)
    <3>1. CASE Entered
      BY <1>3, <2>1, <3>1 DEF LagInv, EnteredInv
    <3>2. CASE ~Entered
      <4>1. pc = "blocked" /\ ~signaled /\ signaled'
        BY <1>u, <3>2 DEF Entered
      <4>2. PICK v \in registered : v <= c.value
        BY <1>3, <4>1
      <4>3. Signals(c) /\ \A r \in registered' : r > c.value
        BY <1>3, <4>1
      <4>4. v # ReleaseValue
        BY <1>4, <2>1, <2>2, <4>2, <4>3
      <4>5. ASSUME NEW r \in registered' PROVE r = ReleaseValue
        <5>1. r \in registered /\ r \in Nat /\ v \in Nat /\ c.value \in Nat
          BY <1>1, <1>3, <4>3, CommandsAre, Lagging
        <5>2. r # v
          BY <4>2, <4>3, <5>1
        <5> QED
          BY <4>1, <4>4, <5>1, <5>2 DEF LagInv, LoneInv, Waiting, Awaited
      <4> QED
        BY <2>2, <4>5
    <3> QED
      BY <3>1, <3>2
  <2>4. ASSUME pc = "submit" PROVE ~signaled'
    <3>1. ~signaled /\ \A r \in registered : Covered(queue12, m, r)
      BY <2>1, <2>4 DEF LagInv, EnteredInv, Entered
    <3> QED
      BY <1>3, <1>4, <2>1, <3>1
  <2> QED
    BY <1>5, <2>3, <2>4 DEF m
<1>9. LoneInv'
  <2>w. (Waiting' <=> Waiting) /\ Awaited' = Awaited
    BY <1>u DEF Waiting, Awaited
  <2>1. ASSUME NEW r \in registered', NEW t \in registered', r # t
        PROVE  Waiting' /\ ~signaled' /\ Awaited \in {r, t}
    <3>1. Waiting /\ ~signaled /\ Awaited \in {r, t}
      BY <1>3, <2>1 DEF LagInv, LoneInv
    <3>2. ASSUME NEW v \in registered, v <= c.value, Signals(c), \A x \in registered' : x > c.value
          PROVE  FALSE
      <4>1. v \in Nat /\ c.value \in Nat /\ r \in Nat /\ t \in Nat
        BY <1>1, <1>3, <3>2, CommandsAre, Lagging
      <4>2. v # r /\ v # t
        BY <3>2, <4>1
      <4>3. Awaited \in {v, r} /\ Awaited \in {v, t}
        BY <1>3, <4>2 DEF LagInv, LoneInv
      <4> QED
        BY <2>1, <3>1, <4>2, <4>3
    <3>3. ~signaled'
      BY <1>3, <3>1, <3>2
    <3> QED
      BY <2>w, <3>1, <3>3
  <2>2. ASSUME signaled', ~Waiting' PROVE registered' = {}
    <3>1. CASE signaled
      BY <1>3, <2>w, <2>2, <3>1 DEF LagInv, LoneInv
    <3>2. CASE ~signaled
      <4>1. PICK v \in registered : v <= c.value
        BY <1>3, <2>2, <3>2
      <4>2. Signals(c) /\ \A r \in registered' : r > c.value
        BY <1>3, <2>2, <3>2
      <4>3. v \in Nat /\ c.value \in Nat
        BY <1>1, <4>2, CommandsAre, Lagging
      <4>4. v \notin registered'
        BY <4>1, <4>2, <4>3
      <4>5. \A r \in registered : r = v
        BY <2>w, <2>2 DEF LagInv, LoneInv
      <4> QED
        BY <1>3, <4>4, <4>5
    <3> QED
      BY <3>1, <3>2
  <2> QED
    BY <2>w, <2>1, <2>2 DEF LoneInv
<1> QED
  BY <1>6, <1>7, <1>8, <1>9 DEF LagInv

LEMMA LagInit ==
    Init => LagInv
<1> SUFFICES ASSUME Init PROVE LagInv
  OBVIOUS
<1>1. TakenInTurn
  <2>1. \A s \in Slots : release[s] = 0
    BY DEF Init
  <2> QED
    BY <2>1 DEF TakenInTurn
<1>2. TwiceInv /\ EnteredInv
  BY EmptyKept DEF TwiceInv, EnteredInv, Init
<1>3. LoneInv
  BY DEF LoneInv, Init
<1> QED
  BY <1>1, <1>2, <1>3 DEF LagInv

LEMMA LagStep ==
    ASSUME IInv, LagInv, [Next]_vars
    PROVE  LagInv'
<1>1. ASSUME UNCHANGED <<pc, current, release, registered, signaled, queue12, releaseValue>>
      PROVE  LagInv'
  BY <1>1 DEF LagInv, TakenInTurn, Before, TwiceInv, EnteredInv, Entered, LoneInv, ReleaseValue,
       Waiting, Awaited
<1>2. CASE RenderStart \/ SubmitFrameInputs \/ SubmitHudless \/ PresentRefused \/ D3D11
  BY <1>1, <1>2 DEF RenderStart, SubmitFrameInputs, SubmitHudless, Capture, PresentRefused,
       D3D11, ringVars, eventVars
<1>3. CASE PresentStep
  BY <1>3, LagPresentBegin, LagPresentWake, LagPresentSubmit DEF PresentStep
<1>4. CASE ResizeBegin
  BY <1>4, LagResizeBegin
<1>5. CASE ResizeWait \/ ResizeTimedOut \/ ResizeFailed \/ FreedInUse
  BY <1>5, LagResizeWait
<1>6. CASE ResizeDone
  BY <1>6, LagResizeDone
<1>7. CASE D3D12
  BY <1>7, LagD3D12
<1>8. CASE UNCHANGED vars
  BY <1>1, <1>8 DEF vars, ringVars, eventVars
<1> QED
  BY <1>2, <1>3, <1>4, <1>5, <1>6, <1>7, <1>8 DEF Next

-----------------------------------------------------------------------------
(* What is pending.  Induction over the queue is by way of sets: a set of     *)
(* numbers that has 0, and with every number the next, has them all.          *)

LEMMA Least ==
    ASSUME NEW T, T \subseteq Nat, T # {}
    PROVE  \E n \in T : \A m \in T : n <= m
<1> DEFINE R == OpToRel(<, Nat)
<1>1. IsWellFoundedOn(R, Nat)
  BY Zenon, NatLessThanWellFounded
<1>2. ASSUME NEW x \in Nat, NEW y \in Nat, y < x PROVE <<y, x>> \in R
  BY <1>2 DEF OpToRel
<1> HIDE DEF R
<1>3. PICK x \in T : \A y \in T : <<y, x>> \notin R
  BY <1>1, WFMin
<1>4. ASSUME NEW m \in T PROVE x <= m
  <2>1. x \in Nat /\ m \in Nat /\ ~(m < x)
    BY <1>2, <1>3
  <2> QED
    BY <2>1
<1> QED
  BY <1>4

LEMMA UpTo ==
    ASSUME NEW n \in Nat, NEW T, 0 \in T,
           \A i \in 0 .. n : i + 1 \in 0 .. n /\ i \in T => i + 1 \in T
    PROVE  0 .. n \subseteq T
<1> DEFINE D == (0 .. n) \ T
<1> SUFFICES ASSUME D # {} PROVE FALSE
  OBVIOUS
<1>1. D \subseteq Nat
  OBVIOUS
<1>2. \A i \in D : i \in 0 .. n /\ i \notin T
  OBVIOUS
<1>3. \A i \in 0 .. n : i \in D \/ i \in T
  OBVIOUS
<1> HIDE DEF D
<1>4. PICK i \in D : \A m \in D : i <= m
  BY <1>1, Least
<1>5. i \in Nat /\ i # 0 /\ i - 1 \in Nat /\ i - 1 \in 0 .. n /\ (i - 1) + 1 = i
  BY <1>2, <1>4
<1>6. i - 1 \in T
  BY <1>3, <1>4, <1>5
<1> QED
  BY <1>2, <1>4, <1>5, <1>6

\* The frames drawn by the first commands, as Presenter's recursion says.
Draws1(q, n, f) ==
    f = [i \in 0 .. n |-> IF i = 0 THEN <<>>
                          ELSE IF q[i].op = "frame" THEN Append(f[i - 1], q[i].frame)
                          ELSE f[i - 1]]

\* There is such a function for every length ...
LEMMA DrawnTo ==
    ASSUME NEW q \in Seq(Command), NEW n \in Nat, n <= Len(q)
    PROVE  \E f : Draws1(q, n, f)
<1> DEFINE T == {m \in Nat : \E f : Draws1(q, m, f)}
<1>1. 0 \in T
  <2> DEFINE f == [i \in 0 .. 0 |-> <<>>]
  <2>1. f = [i \in 0 .. 0 |-> IF i = 0 THEN <<>>
                          ELSE IF q[i].op = "frame" THEN Append(f[i - 1], q[i].frame)
                          ELSE f[i - 1]]
    <3>1. \A i \in 0 .. 0 : i = 0
      OBVIOUS
    <3> QED
      BY <3>1
  <2> QED
    BY <2>1 DEF Draws1
<1>2. ASSUME NEW m \in 0 .. n, m + 1 \in 0 .. n, m \in T PROVE m + 1 \in T
  <2>1. PICK g : Draws1(q, m, g)
    BY <1>2
  <2>2. m \in Nat /\ m + 1 \in Nat
    OBVIOUS
  <2> DEFINE f == [i \in 0 .. m + 1 |->
                     IF i = m + 1
                     THEN IF q[m + 1].op = "frame" THEN Append(g[m], q[m + 1].frame) ELSE g[m]
                     ELSE g[i]]
  <2>3. \A i \in 0 .. m + 1 :
          f[i] = (IF i = m + 1
                  THEN IF q[m + 1].op = "frame" THEN Append(g[m], q[m + 1].frame) ELSE g[m]
                  ELSE g[i])
    OBVIOUS
  <2>4. DOMAIN f = 0 .. m + 1 /\ f = [i \in 0 .. m + 1 |-> f[i]]
    OBVIOUS
  <2> HIDE DEF f
  <2>5. \A i \in 0 .. m : /\ i \in 0 .. m + 1 /\ i # m + 1 /\ i + 1 # 0
                          /\ i # 0 => i - 1 \in 0 .. m
    BY <2>2
  <2>6. \A i \in 0 .. m : f[i] = g[i]
    BY <2>3, <2>5
  <2>7. \A i \in 0 .. m : g[i] = IF i = 0 THEN <<>>
                                 ELSE IF q[i].op = "frame" THEN Append(g[i - 1], q[i].frame)
                                 ELSE g[i - 1]
    BY <2>1 DEF Draws1
  <2>8. ASSUME NEW i \in 0 .. m + 1
        PROVE  f[i] = IF i = 0 THEN <<>>
                      ELSE IF q[i].op = "frame" THEN Append(f[i - 1], q[i].frame)
                      ELSE f[i - 1]
    <3>1. CASE i \in 0 .. m
      <4>1. i # 0 => f[i - 1] = g[i - 1]
        BY <2>5, <2>6, <3>1
      <4> QED
        BY <2>6, <2>7, <3>1, <4>1
    <3>2. CASE i = m + 1
      <4>1. i # 0 /\ i - 1 = m /\ m \in 0 .. m
        BY <2>2, <3>2
      <4>2. f[i - 1] = g[m]
        BY <2>6, <4>1
      <4> QED
        BY <2>3, <3>2, <4>1, <4>2
    <3>3. i \in 0 .. m \/ i = m + 1
      BY <2>2
    <3> QED
      BY <3>1, <3>2, <3>3
  <2>9. f = [i \in 0 .. m + 1 |-> IF i = 0 THEN <<>>
                          ELSE IF q[i].op = "frame" THEN Append(f[i - 1], q[i].frame)
                          ELSE f[i - 1]]
    BY <2>4, <2>8
  <2> QED
    BY <2>2, <2>9 DEF Draws1
<1> HIDE DEF T
<1>3. 0 .. n \subseteq T
  BY <1>1, <1>2, UpTo
<1>4. n \in T
  BY <1>3
<1> QED
  BY <1>4 DEF T

\* ... and so Drawn is one: it counts on from command to command.
Counts(q, f) ==
    /\ f[0] = <<>>
    /\ \A i \in Pos(q) : f[i] = IF Draws(q[i]) THEN Append(f[i - 1], q[i].frame) ELSE f[i - 1]

LEMMA DrawnIs ==
    ASSUME NEW q \in Seq(Command)
    PROVE  Counts(q, Drawn(q))
<1> DEFINE d == Drawn(q)
<1>1. Len(q) \in Nat /\ Len(q) <= Len(q)
  OBVIOUS
<1>2. \E f : Draws1(q, Len(q), f)
  BY <1>1, DrawnTo
<1>3. d = CHOOSE f : f = [i \in 0 .. Len(q) |-> IF i = 0 THEN <<>>
                          ELSE IF q[i].op = "frame" THEN Append(f[i - 1], q[i].frame)
                          ELSE f[i - 1]]
  BY DEF Drawn
<1> HIDE DEF d
<1>4. d = [i \in 0 .. Len(q) |-> IF i = 0 THEN <<>>
                          ELSE IF q[i].op = "frame" THEN Append(d[i - 1], q[i].frame)
                          ELSE d[i - 1]]
  BY <1>2, <1>3 DEF Draws1
<1>5. 0 \in 0 .. Len(q) /\ \A i \in Pos(q) : i \in 0 .. Len(q) /\ i # 0
  BY <1>1 DEF Pos
<1>6. d[0] = <<>>
  BY <1>4, <1>5
<1>7. \A i \in Pos(q) : d[i] = IF Draws(q[i]) THEN Append(d[i - 1], q[i].frame) ELSE d[i - 1]
  BY <1>4, <1>5 DEF Draws
<1> QED
  BY <1>6, <1>7 DEF Counts, d

\* What is drawn after i + 1 commands, from what is drawn after i.
LEMMA DrawnGrows ==
    ASSUME NEW q \in Seq(Command), NEW n \in Nat, n = Len(q)
    PROVE  /\ Drawn(q)[0] = <<>>
           /\ \A i \in 0 .. n : i + 1 \in 0 .. n =>
                /\ i + 1 \in Pos(q)
                /\ Drawn(q)[i + 1] = IF Draws(q[i + 1]) THEN Append(Drawn(q)[i], q[i + 1].frame)
                                     ELSE Drawn(q)[i]
<1>1. Counts(q, Drawn(q))
  BY DrawnIs
<1>2. ASSUME NEW i \in 0 .. n, i + 1 \in 0 .. n PROVE i + 1 \in Pos(q) /\ (i + 1) - 1 = i
  BY <1>2 DEF Pos
<1> QED
  BY <1>1, <1>2 DEF Counts

LEMMA DrawnType ==
    ASSUME NEW q \in Seq(Command), NEW n \in Nat, n = Len(q)
    PROVE  \A i \in 0 .. n : Drawn(q)[i] \in Seq(Frames)
<1> DEFINE T == {i \in Nat : Drawn(q)[i] \in Seq(Frames)}
<1>1. 0 \in T
  <2>1. Drawn(q)[0] = <<>>
    BY DrawnGrows
  <2>2. <<>> \in Seq(Frames)
    OBVIOUS
  <2> QED
    BY <2>1, <2>2
<1>2. ASSUME NEW i \in 0 .. n, i + 1 \in 0 .. n, i \in T PROVE i + 1 \in T
  <2>1. i + 1 \in Pos(q) /\ i + 1 \in Nat
    BY <1>2, DrawnGrows
  <2>2. Draws(q[i + 1]) => q[i + 1].frame \in Frames
    BY <2>1, Elements DEF Command, Draws
  <2>3. Drawn(q)[i + 1] = IF Draws(q[i + 1]) THEN Append(Drawn(q)[i], q[i + 1].frame)
                          ELSE Drawn(q)[i]
    BY <1>2, DrawnGrows
  <2>4. Drawn(q)[i] \in Seq(Frames)
    BY <1>2
  <2>5. Drawn(q)[i + 1] \in Seq(Frames)
    BY <2>2, <2>3, <2>4
  <2> QED
    BY <2>1, <2>5
<1> HIDE DEF T
<1>3. 0 .. n \subseteq T
  BY <1>1, <1>2, UpTo
<1> QED
  BY <1>3 DEF T

\* What is pending of a queue is what all its commands draw.
LEMMA DrawnMore ==
    ASSUME NEW q \in Seq(Command), NEW r \in Seq(Command), NEW c, Extended(q, r, c)
    PROVE  Drawn(r)[Len(r)] = IF Draws(c) THEN Append(Drawn(q)[Len(q)], c.frame)
                              ELSE Drawn(q)[Len(q)]
<1> DEFINE n == Len(q)
           m == Len(r)
           T == {i \in Nat : Drawn(r)[i] = Drawn(q)[i]}
<1>1. n \in Nat /\ m \in Nat /\ m = n + 1 /\ r[m] = c
  BY DEF Extended
<1>q. /\ Drawn(q)[0] = <<>>
      /\ \A i \in 0 .. n : i + 1 \in 0 .. n =>
           /\ i + 1 \in Pos(q)
           /\ Drawn(q)[i + 1] = IF Draws(q[i + 1]) THEN Append(Drawn(q)[i], q[i + 1].frame)
                                ELSE Drawn(q)[i]
  BY <1>1, DrawnGrows
<1>r. /\ Drawn(r)[0] = <<>>
      /\ \A i \in 0 .. m : i + 1 \in 0 .. m =>
           /\ i + 1 \in Pos(r)
           /\ Drawn(r)[i + 1] = IF Draws(r[i + 1]) THEN Append(Drawn(r)[i], r[i + 1].frame)
                                ELSE Drawn(r)[i]
  BY <1>1, DrawnGrows
<1>s. \A i \in Pos(q) : r[i] = q[i]
  BY DEF Extended
<1> HIDE DEF n, m
<1>2. \A i \in 0 .. n : i \in Nat /\ i \in 0 .. m /\ (i + 1 \in 0 .. n => i + 1 \in 0 .. m)
  BY <1>1
<1>3. 0 \in T
  BY <1>q, <1>r
<1>4. ASSUME NEW i \in 0 .. n, i + 1 \in 0 .. n, i \in T PROVE i + 1 \in T
  <2>1. Drawn(r)[i + 1] = Drawn(q)[i + 1]
    BY <1>2, <1>4, <1>q, <1>r, <1>s
  <2> QED
    BY <1>2, <1>4, <2>1
<1> HIDE DEF T
<1>5. 0 .. n \subseteq T
  BY <1>1, <1>3, <1>4, UpTo
<1>6. n \in 0 .. n /\ n \in 0 .. m /\ n + 1 \in 0 .. m
  BY <1>1
<1>7. Drawn(r)[n] = Drawn(q)[n]
  BY <1>5, <1>6 DEF T
<1>8. Drawn(r)[m] = IF Draws(r[m]) THEN Append(Drawn(r)[n], r[m].frame) ELSE Drawn(r)[n]
  BY <1>1, <1>6, <1>r
<1> QED
  BY <1>1, <1>7, <1>8 DEF n, m

\* Its first command taken away, a draw takes the first of what is pending.
LEMMA DrawnLess ==
    ASSUME NEW q \in Seq(Command), NEW r \in Seq(Command), Dropped(q, r)
    PROVE  /\ ~Draws(q[1]) => Drawn(r)[Len(r)] = Drawn(q)[Len(q)]
           /\ Draws(q[1]) => /\ Drawn(q)[Len(q)] # <<>>
                             /\ Head(Drawn(q)[Len(q)]) = q[1].frame
                             /\ Tail(Drawn(q)[Len(q)]) = Drawn(r)[Len(r)]
<1> DEFINE n == Len(r)
           m == Len(q)
           d == Drawn(q)
           e == Drawn(r)
           P(i) == /\ ~Draws(q[1]) => e[i] = d[i + 1]
                   /\ Draws(q[1]) => /\ d[i + 1] # <<>>
                                     /\ Head(d[i + 1]) = q[1].frame
                                     /\ Tail(d[i + 1]) = e[i]
           T == {i \in Nat : P(i)}
<1>1. n \in Nat /\ m \in Nat /\ m = n + 1
  BY DEF Dropped
<1>q. /\ d[0] = <<>>
      /\ \A i \in 0 .. m : i + 1 \in 0 .. m =>
           /\ i + 1 \in Pos(q)
           /\ d[i + 1] = IF Draws(q[i + 1]) THEN Append(d[i], q[i + 1].frame) ELSE d[i]
  BY <1>1, DrawnGrows
<1>r. /\ e[0] = <<>>
      /\ \A i \in 0 .. n : i + 1 \in 0 .. n =>
           /\ i + 1 \in Pos(r)
           /\ e[i + 1] = IF Draws(r[i + 1]) THEN Append(e[i], r[i + 1].frame) ELSE e[i]
  BY <1>1, DrawnGrows
<1>t. \A i \in 0 .. m : d[i] \in Seq(Frames)
  BY <1>1, DrawnType
<1>s. \A i \in Pos(r) : r[i] = q[i + 1]
  BY DEF Dropped
<1> HIDE DEF n, m, d, e
<1>2. \A i \in 0 .. n : /\ i \in Nat /\ i + 1 \in Nat /\ i \in 0 .. m /\ i + 1 \in 0 .. m
                        /\ i + 1 \in 0 .. n => (i + 1) + 1 \in 0 .. m
  BY <1>1
<1>3. 0 \in T
  <2>1. 0 + 1 = 1 /\ 0 \in 0 .. m /\ 1 \in 0 .. m
    BY <1>1
  <2>2. d[1] = IF Draws(q[1]) THEN Append(<<>>, q[1].frame) ELSE <<>>
    BY <1>q, <2>1
  <2>3. ASSUME NEW f PROVE /\ Append(<<>>, f) # <<>> /\ Head(Append(<<>>, f)) = f
                           /\ Tail(Append(<<>>, f)) = <<>>
    OBVIOUS
  <2> QED
    BY <1>r, <2>1, <2>2, <2>3
<1>4. ASSUME NEW i \in 0 .. n, i + 1 \in 0 .. n, i \in T PROVE i + 1 \in T
  <2> DEFINE k == i + 1
             c == q[k + 1]
  <2>1. k \in Nat /\ k \in 0 .. n /\ k \in 0 .. m /\ k + 1 \in 0 .. m /\ P(i)
    BY <1>2, <1>4
  <2>2. d[k + 1] = IF Draws(c) THEN Append(d[k], c.frame) ELSE d[k]
    BY <1>q, <2>1
  <2>3. e[k] = IF Draws(c) THEN Append(e[i], c.frame) ELSE e[i]
    BY <1>4, <1>r, <1>s
  <2>4. d[k] \in Seq(Frames) /\ (Draws(c) => c.frame \in Frames)
    <3>1. k + 1 \in Pos(q)
      BY <1>q, <2>1
    <3> QED
      BY <1>t, <2>1, <3>1, Elements DEF Command, Draws
  <2>5. /\ ~Draws(q[1]) => e[i] = d[k]
        /\ Draws(q[1]) => d[k] # <<>> /\ Head(d[k]) = q[1].frame /\ Tail(d[k]) = e[i]
    BY <2>1
  <2> HIDE DEF P, k, c
  <2>6. ASSUME NEW f \in Frames, d[k] # <<>>
        PROVE  /\ Append(d[k], f) # <<>> /\ Head(Append(d[k], f)) = Head(d[k])
               /\ Tail(Append(d[k], f)) = Append(Tail(d[k]), f)
    BY <2>4, <2>6, HeadTailAppend, AppendProperties
  <2>7. P(k)
    <3>1. CASE Draws(c)
      BY <2>2, <2>3, <2>4, <2>5, <2>6, <3>1 DEF P
    <3>2. CASE ~Draws(c)
      BY <2>2, <2>3, <2>5, <3>2 DEF P
    <3> QED
      BY <3>1, <3>2
  <2> QED
    BY <2>1, <2>7 DEF k
<1> HIDE DEF T, P
<1>5. 0 .. n \subseteq T
  BY <1>1, <1>3, <1>4, UpTo
<1>6. n \in T
  BY <1>1, <1>5
<1> QED
  BY <1>1, <1>6 DEF T, P, n, m, d, e

\* No two draws of one slot: no more of them than slots.
LEMMA DrawnFew ==
    ASSUME NEW q \in Seq(Command), \A i, j \in Pos(q) : ~Twice(q, i, j)
    PROVE  Len(Drawn(q)[Len(q)]) \in Nat /\ Len(Drawn(q)[Len(q)]) <= kSlots
<1> DEFINE n == Len(q)
           d == Drawn(q)
           U(i) == {s \in Slots : \E j \in Pos(q) : j <= i /\ Draws(q[j]) /\ q[j].slot = s}
           T == {i \in Nat : IsFiniteSet(U(i)) /\ Cardinality(U(i)) = Len(d[i])}
<1>1. n \in Nat
  OBVIOUS
<1>d. /\ d[0] = <<>>
      /\ \A i \in 0 .. n : i + 1 \in 0 .. n =>
           /\ i + 1 \in Pos(q)
           /\ d[i + 1] = IF Draws(q[i + 1]) THEN Append(d[i], q[i + 1].frame) ELSE d[i]
  BY <1>1, DrawnGrows
<1>t. \A i \in 0 .. n : d[i] \in Seq(Frames)
  BY <1>1, DrawnType
<1> HIDE DEF n, d
<1>p. \A j \in Pos(q) : j \in Nat /\ 1 <= j /\ q[j] \in Command
  BY Elements
<1>2. 0 \in T
  <2>1. U(0) = {}
    <3>1. \A j \in Pos(q) : ~(j <= 0)
      BY <1>p
    <3> QED
      BY <3>1
  <2> HIDE DEF U
  <2>2. Len(<<>>) = 0
    BY EmptyKept
  <2> QED
    BY <1>d, <2>1, <2>2, FS_EmptySet
<1>3. ASSUME NEW i \in 0 .. n, i + 1 \in 0 .. n, i \in T PROVE i + 1 \in T
  <2> DEFINE k == i + 1
  <2>1. /\ i \in Nat /\ k \in Nat /\ k \in Pos(q) /\ k \in 0 .. n /\ i < k
        /\ \A j \in Nat : j <= k <=> (j <= i \/ j = k)
    BY <1>3, <1>d
  <2>2. IsFiniteSet(U(i)) /\ Cardinality(U(i)) = Len(d[i])
    BY <1>3
  <2>3. d[k] = IF Draws(q[k]) THEN Append(d[i], q[k].frame) ELSE d[i]
    BY <1>3, <1>d
  <2> HIDE DEF k
  <2>4. CASE ~Draws(q[k])
    <3>1. U(k) = U(i)
      BY <1>p, <2>1, <2>4
    <3> HIDE DEF U
    <3> QED
      BY <2>1, <2>2, <2>3, <2>4, <3>1 DEF k
  <2>5. CASE Draws(q[k])
    <3> DEFINE s == q[k].slot
    <3>1. s \in Slots
      BY <1>p, <2>1, <2>5, CommandsAre
    <3>2. U(k) = U(i) \cup {s}
      BY <1>p, <2>1, <2>5, <3>1
    <3>3. s \notin U(i)
      <4> SUFFICES ASSUME NEW j \in Pos(q), j <= i, Draws(q[j]), q[j].slot = s PROVE FALSE
        OBVIOUS
      <4>1. j < k
        BY <1>p, <2>1
      <4> QED
        BY <2>1, <2>5, <4>1 DEF Twice
    <3> HIDE DEF U, s
    <3>4. IsFiniteSet(U(k)) /\ Cardinality(U(k)) = Cardinality(U(i)) + 1
      BY <2>2, <3>2, <3>3, FS_AddElement
    <3>5. Len(d[k]) = Len(d[i]) + 1
      <4>1. q[k].frame \in Frames
        BY <1>p, <2>1, <2>5 DEF Command, Draws
      <4>2. d[i] \in Seq(Frames)
        BY <1>t
      <4> QED
        BY <2>3, <2>5, <4>1, <4>2, AppendProperties
    <3> QED
      BY <2>1, <2>2, <3>4, <3>5 DEF k
  <2> QED
    BY <2>4, <2>5
<1> HIDE DEF T
<1>4. 0 .. n \subseteq T
  BY <1>1, <1>2, <1>3, UpTo
<1>5. n \in 0 .. n
  BY <1>1
<1>6. IsFiniteSet(U(n)) /\ Cardinality(U(n)) = Len(d[n])
  BY <1>4, <1>5 DEF T
<1>7. U(n) \in SUBSET Slots
  OBVIOUS
<1> HIDE DEF U
<1>8. IsFiniteSet(Slots) /\ Cardinality(Slots) = kSlots
  <2>1. 0 \in Int /\ kSlots - 1 \in Int /\ ~(0 > kSlots - 1) /\ (kSlots - 1) - 0 + 1 = kSlots
    BY NumbersAre
  <2> QED
    BY <2>1, FS_Interval DEF Slots
<1>9. Len(d[n]) <= kSlots
  BY <1>6, <1>7, <1>8, FS_Subset
<1> QED
  BY <1>5, <1>9, <1>t DEF n, d

-----------------------------------------------------------------------------
(* The refinement *)

LEMMA StreamInit ==
    Init => Stream!Init
<1> SUFFICES ASSUME Init PROVE Stream!Init
  OBVIOUS
<1>1. queue12 = <<>> /\ shown = <<>>
  BY DEF Init
<1>2. Pending = <<>>
  <2>1. Drawn(<<>>)[0] = <<>>
    BY EmptyKept, DrawnGrows
  <2> QED
    BY <1>1, <2>1, EmptyKept DEF Pending
<1> QED
  BY <1>1, <1>2 DEF Stream!Init

LEMMA StreamSubmit ==
    ASSUME IInv, LagInv, PresentSubmit
    PROVE  Stream!HandOver(frame) /\ frame \in Frames
<1>n. queue12 \in Seq(Command) /\ frame \in Frames
  BY Numbers
<1>u. shown' = shown /\ pc = "submit"
  BY DEF PresentSubmit, gpuVars
<1> PICK c, d, r : Submitted(c, d, r)
  BY Submits
<1>1. Draws(c) /\ c.frame = frame /\ ~Draws(d)
  BY DEF Submitted
<1>2. r \in Seq(Command) /\ Extended(queue12, r, c)
  BY DEF Submitted
<1>3. queue12' \in Seq(Command) /\ Extended(r, queue12', d)
  BY DEF Submitted
<1>4. Pending' = Append(Pending, frame)
  <2>1. Drawn(r)[Len(r)] = Append(Drawn(queue12)[Len(queue12)], frame)
    BY <1>n, <1>1, <1>2, DrawnMore
  <2>2. Drawn(queue12')[Len(queue12')] = Drawn(r)[Len(r)]
    BY <1>1, <1>2, <1>3, DrawnMore
  <2>3. Pending' = Drawn(queue12')[Len(queue12')]
    BY DEF Pending, Drawn
  <2> QED
    BY <2>1, <2>2, <2>3 DEF Pending
<1>5. Len(Pending) < kSlots + 1
  <2>1. \A i, j \in Pos(queue12) : ~Twice(queue12, i, j)
    BY <1>u DEF LagInv, TwiceInv
  <2>2. Len(Pending) \in Nat /\ Len(Pending) <= kSlots
    BY <1>n, <2>1, DrawnFew DEF Pending
  <2> QED
    BY <2>2, NumbersAre
<1> QED
  BY <1>n, <1>u, <1>4, <1>5 DEF Stream!HandOver

LEMMA StreamShow ==
    ASSUME IInv, D3D12
    PROVE  Stream!Show \/ UNCHANGED <<Pending, shown>>
<1> DEFINE c == Head(queue12)
<1>n. queue12 \in Seq(Command)
  BY Numbers
<1>u. /\ queue12 # <<>> /\ queue12' = Tail(queue12)
      /\ \/ Draws(c) /\ shown' = Append(shown, slots[c.slot].final)
         \/ ~Draws(c) /\ shown' = shown
  BY DEF D3D12, Draws
<1>1. c = queue12[1]
  BY <1>n, <1>u, Elements
<1> HIDE DEF c
<1>2. queue12' \in Seq(Command) /\ Dropped(queue12, queue12')
  BY <1>n, <1>u, Drops
<1>3. Pending' = Drawn(queue12')[Len(queue12')]
  BY DEF Pending, Drawn
<1>4. CASE Draws(c)
  <2>1. Pending # <<>> /\ Head(Pending) = c.frame /\ Tail(Pending) = Pending'
    BY <1>n, <1>1, <1>2, <1>3, <1>4, DrawnLess DEF Pending
  <2>2. slots[c.slot].final = c.frame
    <3>1. Draws(Head(queue12)) /\ 1 \in Pos(queue12) /\ Head(queue12) = queue12[1]
      BY <1>n, <1>u, <1>4, Elements DEF c
    <3>2. Own(stream, slots, Head(queue12).slot, "final", Head(queue12).frame)
      BY <3>1 DEF IInv, OwnInv, Owned
    <3>3. slots[Head(queue12).slot]["final"] \in {Head(queue12).frame}
      BY <1>u, <3>1, <3>2, OwnNow
    <3> QED
      BY <3>3 DEF c
  <2> QED
    BY <1>u, <1>4, <2>1, <2>2 DEF Stream!Show
<1>5. CASE ~Draws(c)
  <2>1. Pending' = Pending
    BY <1>n, <1>1, <1>2, <1>3, <1>5, DrawnLess DEF Pending
  <2> QED
    BY <1>u, <1>5, <2>1
<1> QED
  BY <1>4, <1>5

\* A wait or a signal given to D3D12 changes nothing that is seen.
LEMMA StreamQuiet ==
    ASSUME IInv, PresentBegin \/ ResizeBegin
    PROVE  UNCHANGED <<Pending, shown>>
<1>n. queue12 \in Seq(Command) /\ readyValue + 1 \in Nat /\ releaseValue + 1 \in Nat
  BY Numbers
<1>1. PICK d \in Command : ~Draws(d) /\ queue12' = Append(queue12, d)
  <2>1. CASE PresentBegin
    BY <1>n, <2>1, MadeCommands DEF PresentBegin
  <2>2. CASE ResizeBegin
    BY <1>n, <2>2, MadeCommands DEF ResizeBegin
  <2> QED
    BY <2>1, <2>2
<1>2. queue12' = queue12 \o <<d>>
  BY <1>n, <1>1, AppendIsConcat
<1>3. queue12' \in Seq(Command) /\ Extended(queue12, queue12', d)
  BY <1>n, <1>2, Extends
<1>4. Pending' = Drawn(queue12')[Len(queue12')]
  BY DEF Pending, Drawn
<1>5. Pending' = Pending
  BY <1>n, <1>1, <1>3, <1>4, DrawnMore DEF Pending
<1>6. shown' = shown
  BY DEF PresentBegin, ResizeBegin, gpuVars
<1> QED
  BY <1>5, <1>6

LEMMA StreamStep ==
    ASSUME IInv, LagInv, [Next]_vars
    PROVE  [Stream!Next]_(Stream!vars)
<1>1. ASSUME UNCHANGED <<queue12, shown>> PROVE UNCHANGED <<Pending, shown>>
  BY <1>1 DEF Pending, Drawn
<1>2. CASE \/ RenderStart \/ SubmitFrameInputs \/ SubmitHudless \/ PresentRefused \/ D3D11
           \/ PresentWake \/ ResizeWait \/ ResizeTimedOut \/ ResizeFailed \/ ResizeDone
           \/ FreedInUse
  <2>1. UNCHANGED <<queue12, shown>>
    BY <1>2 DEF RenderStart, SubmitFrameInputs, SubmitHudless, Capture, PresentRefused, D3D11,
         PresentWake, ResizeWait, ResizeTimedOut, ResizeFailed, ResizeDone, FreedInUse, gpuVars
  <2> QED
    BY <1>1, <2>1 DEF Stream!vars
<1>3. CASE PresentBegin \/ ResizeBegin
  BY <1>3, StreamQuiet DEF Stream!vars
<1>4. CASE PresentSubmit
  BY <1>4, StreamSubmit DEF Stream!Next
<1>5. CASE D3D12
  BY <1>5, StreamShow DEF Stream!Next, Stream!vars
<1>6. CASE UNCHANGED vars
  <2>1. UNCHANGED <<queue12, shown>>
    BY <1>6 DEF vars, gpuVars
  <2> QED
    BY <1>1, <2>1 DEF Stream!vars
<1> QED
  BY <1>2, <1>3, <1>4, <1>5, <1>6 DEF Next, PresentStep

\* FrameStream: whatever the two queues, the ring and the resizes do, the
\* player sees every picture once, in order, its own, and at most one more
\* than the ring has slots is on its way.
THEOREM ShowsTheStream ==
    Spec => Stream!Safety
<1>1. Init => IInv /\ LagInv /\ Stream!Init
  BY InitInv, LagInit, StreamInit
<1>2. IInv /\ LagInv /\ [Next]_vars => IInv' /\ LagInv'
  BY StepInv, LagStep
<1>3. IInv /\ LagInv /\ [Next]_vars => [Stream!Next]_(Stream!vars)
  BY StreamStep
<1> QED
  BY <1>1, <1>2, <1>3, PTL DEF Spec, Stream!Safety
=============================================================================
