------------------------------ MODULE Profiler ------------------------------
(***************************************************************************)
(* Render/Profiler with its Render/PassStatistics: how long every named    *)
(* pass of a frame takes on the GPU.  A frame is Present to Present; its   *)
(* passes are stamped by pairs of timestamp queries that live in one of    *)
(* kFrameLatency slots until the GPU has answered, and a query goes back   *)
(* to a pool to be stamped again.  Everything runs on the presenting       *)
(* thread; what interleaves is the GPU, which answers frames late, loses   *)
(* some, and may refuse to make another query.                             *)
(*                                                                         *)
(* Times are left out: a query holds who stamped it last, so that a sample *)
(* says which pass of which frame it was really measured from.  Present is *)
(* taken in steps, one for each call it makes here.                        *)
(***************************************************************************)
EXTENDS Integers, Sequences, FiniteSets, SequencesExt

CONSTANTS
    Names,        \* the names of the passes inside a frame
    Latency,      \* kFrameLatency, 6 in the code
    MaxPasses,    \* kMaxPasses, 128
    RetireFrames, \* kRetireFrames, 60
    HistorySize,  \* kHistorySize, 300
    MaxFrame,     \* bound: frames
    MaxNested,    \* bound: passes begun in a frame
    MaxRefusals   \* bound: queries the device refuses to make

ASSUME ProfilerAssumption ==
    /\ Latency \in Nat \ {0} /\ MaxPasses \in Nat /\ RetireFrames \in Nat
    /\ HistorySize \in Nat \ {0}
    /\ MaxFrame \in Nat /\ MaxNested \in Nat /\ MaxRefusals \in Nat
    /\ "Frame" \notin Names

VARIABLES
    slots,     \* the ring: the timings of a frame, its number, in flight or not
    spare,     \* the pool of timestamp queries
    made,      \* how many queries the device made; they are 1 .. made
    stamp,     \* who stamped a query last: the name and the frame of a pass
    opened,    \* the passes begun and not ended, places in the slot's timings
    table,     \* PassTable: a row for every pass, with its history
    index,     \* PassTable::_index: the place of a row
    frameTime, \* the pass whose time is shown as the frame's
    frame, writeSlot, ready, refused, measuring, frameOpen,
    at,        \* where Present is, "game" when it is not running
    next,      \* the slot Collect is at
    scopes,    \* the callers' scopes, innermost last
    begun,     \* passes begun in this frame, for the bound
    refusals,  \* history: queries the device refused
    spoiled    \* history: the frames in which it did

profilerVars == <<slots, spare, made, stamp, opened, table, index, frameTime, frame, writeSlot,
                  ready, refused, measuring, frameOpen, at, next, scopes, begun, refusals, spoiled>>

Ring   == 0 .. Latency - 1
NoPass == [name |-> "none", frame |-> 0]
Empty  == [timings |-> <<>>, frame |-> 0, inFlight |-> FALSE]

ProfilerInit ==
    /\ slots = [s \in Ring |-> Empty]
    /\ spare = <<>> /\ made = 0 /\ stamp = <<>>
    /\ opened = <<>> /\ scopes = <<>> /\ begun = 0
    /\ table = <<>> /\ index = <<>> /\ frameTime = NoPass
    /\ frame = 0 /\ writeSlot = 0
    /\ ready = FALSE /\ refused = FALSE /\ measuring = TRUE /\ frameOpen = FALSE
    /\ at = "game" /\ next = 0
    /\ refusals = 0 /\ spoiled = {}

-----------------------------------------------------------------------------
(* PassStatistics and PassTable *)

\* Push, with Sample's order: the last HistorySize samples, oldest first.
Push(history, sample) ==
    LET all == Append(history, sample)
    IN  IF Len(all) > HistorySize THEN Tail(all) ELSE all

\* Find adds the row of a pass seen for the first time, while there is room.
Find(t, name) ==
    IF name \in DOMAIN t.index \/ Len(t.rows) >= MaxPasses
    THEN t
    ELSE [t EXCEPT !.rows  = Append(@, [name |-> name, history |-> <<>>, lastFrame |-> 0]),
                   !.index = [n \in DOMAIN @ \cup {name} |->
                                 IF n \in DOMAIN @ THEN @[n] ELSE Len(t.rows) + 1]]

Sample(t, name, sample, f) ==
    LET found == Find(t, name)
        i     == found.index[name]
    IN  IF name \notin DOMAIN found.index THEN found
        ELSE [found EXCEPT !.rows[i].history = Push(@, sample), !.rows[i].lastFrame = f]

\* Mutant: the rows behind the hole keep their old places.
RebuildIndex_Keeps(rows) ==
    [n \in {rows[i].name : i \in DOMAIN rows} |-> index[n]]

RebuildIndex(rows) ==
    [n \in {rows[i].name : i \in DOMAIN rows} |->
        CHOOSE i \in DOMAIN rows : rows[i].name = n]

\* Retire drops the rows that have not been sampled lately.
Retire(rows) ==
    LET kept[i \in 0 .. Len(rows)] ==
            IF i = 0 THEN <<>>
            ELSE IF frame - rows[i].lastFrame <= RetireFrames THEN Append(kept[i - 1], rows[i])
            ELSE kept[i - 1]
    IN  kept[Len(rows)]

-----------------------------------------------------------------------------
(* Queries *)

\* AcquireTimestamp takes from the back of the pool before it makes a query,
\* which the device may refuse: 0 is nullptr.
AcquireTimestamp(p) ==
    IF p.spare # <<>>
    THEN {[query |-> Last(p.spare), spare |-> Front(p.spare), made |-> p.made]}
    ELSE {[query |-> p.made + 1, spare |-> <<>>, made |-> p.made + 1]}
            \cup (IF refusals < MaxRefusals
                  THEN {[query |-> 0, spare |-> <<>>, made |-> p.made]} ELSE {})

\* The queries of a slot, begin and end of each timing in turn.
Queries(slot) ==
    [k \in 1 .. 2 * Len(slot.timings) |->
        IF k % 2 = 1 THEN slot.timings[(k + 1) \div 2].begin ELSE slot.timings[k \div 2].end]

\* Mutant: the queries of a slot are put back, its timings are kept.
Recycled_KeepsTimings(slot) == [slot EXCEPT !.inFlight = FALSE]

Recycled(slot) == [slot EXCEPT !.timings = <<>>, !.inFlight = FALSE]

Stamped(qs, who) == [q \in DOMAIN stamp \cup qs |-> IF q \in qs THEN who ELSE stamp[q]]

-----------------------------------------------------------------------------
(* Passes *)

\* BeginPass: a pass one of whose queries could not be made is not measured,
\* and not on the stack either.
BeginPass(name, f, ring, pool, stack) ==
    \E a \in AcquireTimestamp([spare |-> pool, made |-> made]) :
    \E b \in AcquireTimestamp([spare |-> a.spare, made |-> a.made]) :
        /\ made' = b.made
        /\ IF a.query # 0 /\ b.query # 0
           THEN /\ spare' = b.spare
                /\ slots' = [ring EXCEPT ![writeSlot'].timings =
                                Append(@, [name |-> name, depth |-> Len(stack),
                                           begin |-> a.query, end |-> b.query])]
                /\ opened' = Append(stack, Len(ring[writeSlot'].timings) + 1)
                /\ stamp' = Stamped({a.query}, [name |-> name, frame |-> f])
                /\ UNCHANGED <<refusals, spoiled>>
           ELSE /\ spare' = IF a.query = 0 THEN b.spare ELSE Append(b.spare, a.query)
                /\ slots' = ring /\ opened' = stack
                /\ refusals' = refusals + 1
                /\ spoiled' = spoiled \cup {f}
                /\ UNCHANGED stamp

\* A scope opens, of a feature, of a phase's subscriber or around Present's
\* own calls.
OpenScope(name) ==
    /\ at = "game" /\ frame > 0 /\ begun < MaxNested
    /\ begun' = begun + 1
    /\ scopes' = Append(scopes, name)
    /\ UNCHANGED writeSlot
    /\ IF ~measuring \/ ~ready \/ ~frameOpen
       THEN UNCHANGED <<slots, spare, made, stamp, opened, refusals, spoiled>>
       ELSE BeginPass(name, frame, slots, spare, opened)
    /\ UNCHANGED <<table, index, frameTime, frame, ready, refused, measuring, frameOpen, at, next>>

\* EndPass closes the innermost pass of the stack, whoever asks.
CloseScope ==
    /\ at = "game" /\ scopes # <<>>
    /\ scopes' = Front(scopes)
    /\ IF opened = <<>> THEN UNCHANGED <<stamp, opened>>
       ELSE /\ stamp' = Stamped({slots[writeSlot].timings[Last(opened)].end},
                                [name |-> Last(scopes), frame |-> frame])
            /\ opened' = Front(opened)
    /\ UNCHANGED <<slots, spare, made, table, index, frameTime, frame, writeSlot, ready, refused,
                   measuring, frameOpen, at, next, begun, refusals, spoiled>>

-----------------------------------------------------------------------------
(* Present *)

\* SetMeasuring, as the settings say: a change empties the table.
SetMeasuring(m) ==
    /\ at = "game" /\ scopes = <<>> /\ (m => frame < MaxFrame)
    /\ at' = "end"
    /\ measuring' = m
    /\ IF m = measuring THEN UNCHANGED <<table, index, frameTime>>
       ELSE /\ table' = <<>> /\ index' = <<>> /\ frameTime' = NoPass
    /\ UNCHANGED <<slots, spare, made, stamp, opened, frame, writeSlot, ready, refused,
                   frameOpen, next, scopes, begun, refusals, spoiled>>

\* EndFrame closes what is still open, which is the frame's own pass.
EndFrame ==
    /\ at = "end"
    /\ at' = IF ready /\ measuring THEN "collect" ELSE "begin"
    /\ next' = 0
    /\ stamp' = Stamped({slots[writeSlot].timings[opened[i]].end : i \in DOMAIN opened},
                        [name |-> "Frame", frame |-> frame])
    /\ opened' = <<>>
    /\ IF frameOpen THEN /\ slots' = [slots EXCEPT ![writeSlot].inFlight = TRUE]
                         /\ writeSlot' = (writeSlot + 1) % Latency
                    ELSE UNCHANGED <<slots, writeSlot>>
    /\ frameOpen' = FALSE
    /\ UNCHANGED <<spare, made, table, index, frameTime, frame, ready, refused, measuring,
                   scopes, begun, refusals, spoiled>>

\* One timing is read: a sample of its pass, under its name and the slot's frame.
Add(acc, timing, f) ==
    LET taken == [begin |-> stamp[timing.begin], end |-> stamp[timing.end]]
        into  == Sample(acc, timing.name, taken, f)
    IN  IF timing.depth = 0 THEN [into EXCEPT !.time = taken.begin] ELSE into

\* CollectSlot, of a frame the GPU is through with: all that can be read.
Sampled(s, read) ==
    LET upTo[i \in 0 .. Len(slots[s].timings)] ==
            IF i = 0 THEN [rows |-> table, index |-> index, time |-> frameTime]
            ELSE IF i \in read THEN Add(upTo[i - 1], slots[s].timings[i], slots[s].frame)
            ELSE upTo[i - 1]
    IN  upTo[Len(slots[s].timings)]

\* Collect asks the slots in the order of the array.  The GPU may not be
\* through with a frame; of one in which its clock moved nothing is kept, of
\* another what it can tell.
Collect ==
    /\ at = "collect" /\ next < Latency
    /\ next' = next + 1
    /\ \/ UNCHANGED <<slots, spare, table, index, frameTime>>
       \/ /\ slots[next].inFlight
          /\ \E read \in SUBSET DOMAIN slots[next].timings :
                LET t == Sampled(next, read)
                IN  table' = t.rows /\ index' = t.index /\ frameTime' = t.time
          /\ slots' = [slots EXCEPT ![next] = Recycled(@)]
          /\ spare' = spare \o Queries(slots[next])
    /\ UNCHANGED <<made, stamp, opened, frame, writeSlot, ready, refused, measuring, frameOpen,
                   at, scopes, begun, refusals, spoiled>>

Collected ==
    /\ at = "collect" /\ next = Latency
    /\ at' = "begin"
    /\ table' = Retire(table)
    /\ index' = IF Len(table') = Len(table) THEN index ELSE RebuildIndex(table')
    /\ UNCHANGED <<slots, spare, made, stamp, opened, frameTime, frame, writeSlot, ready, refused,
                   measuring, frameOpen, next, scopes, begun, refusals, spoiled>>

\* Initialize, once: the queries that tell whether the clock moved.
Initialize ==
    /\ at = "begin" /\ measuring /\ ~ready /\ ~refused
    /\ \/ ready' = TRUE /\ UNCHANGED refused
       \/ refused' = TRUE /\ UNCHANGED ready
    /\ UNCHANGED <<slots, spare, made, stamp, opened, table, index, frameTime, frame, writeSlot,
                   measuring, frameOpen, at, next, scopes, begun, refusals, spoiled>>

\* BeginFrame recycles a slot that never came back, and begins the frame's pass.
BeginFrame ==
    /\ at = "begin" /\ (measuring => ready \/ refused)
    /\ at' = "game"
    /\ begun' = 0
    /\ UNCHANGED writeSlot
    /\ IF ~measuring \/ ~ready
       THEN UNCHANGED <<slots, spare, made, stamp, opened, frame, frameOpen, refusals, spoiled>>
       ELSE LET slot == slots[writeSlot]
                new  == [(IF slot.inFlight THEN Recycled(slot) ELSE slot) EXCEPT !.frame = frame + 1]
            IN  /\ frame' = frame + 1
                /\ frameOpen' = TRUE
                /\ BeginPass("Frame", frame + 1, [slots EXCEPT ![writeSlot] = new],
                             IF slot.inFlight THEN spare \o Queries(slot) ELSE spare, opened)
    /\ UNCHANGED <<table, index, frameTime, ready, refused, measuring, next, scopes>>

ProfilerNext ==
    \/ \E n \in Names : OpenScope(n)
    \/ CloseScope
    \/ \E m \in BOOLEAN : SetMeasuring(m)
    \/ EndFrame \/ Collect \/ Collected \/ Initialize \/ BeginFrame

ProfilerSpec == ProfilerInit /\ [][ProfilerNext]_profilerVars

-----------------------------------------------------------------------------
\* A number in the table was measured from one pass, the one the row is
\* named for, and from both ends of it; what is shown as the frame's time is
\* the frame's.  Slots are recycled under the GPU, rows move when others
\* retire, and a frame in which the device refused a query is the exception:
\* a pass that could not be begun is not on the stack, so its end closes
\* the pass around it.
SamplesAreOwn ==
    /\ \A i \in DOMAIN table : \A k \in DOMAIN table[i].history :
          LET s == table[i].history[k]
          IN  s.begin.frame \notin spoiled => s.begin = s.end /\ s.begin.name = table[i].name
    /\ frameTime # NoPass /\ frameTime.frame \notin spoiled => frameTime.name = "Frame"

\* The places of queries: in the pool, or at one end of a timing of a slot.
Places == {<<"spare", 0, i>> : i \in DOMAIN spare}
          \cup UNION {{"begin", "end"} \X {s} \X DOMAIN slots[s].timings : s \in Ring}

QueryAt(p) == IF p[1] = "spare" THEN spare[p[3]]
              ELSE IF p[1] = "begin" THEN slots[p[2]].timings[p[3]].begin
              ELSE slots[p[2]].timings[p[3]].end

\* A query is in one place at a time, in the pool or at one end of one
\* timing; and as long as the device refused none, none is lost, so the pool
\* stops growing.
EveryQueryOnce ==
    /\ \A p, q \in Places : QueryAt(p) = QueryAt(q) => p = q
    /\ spoiled = {} => {QueryAt(p) : p \in Places} = 1 .. made
=============================================================================
