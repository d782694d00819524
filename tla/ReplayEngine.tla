---------------------------- MODULE ReplayEngine ----------------------------
(***************************************************************************)
(* The dashboard's engine (crates/viz/src/app.js, const engine): the       *)
(* timeline that live batches and replayed recordings are put on, the play *)
(* head, what is integrated along it, the checkpoints a seek goes back to, *)
(* and the trimming that bounds a live timeline.                           *)
(*                                                                         *)
(* Time is in ticks.  An event is its time, how far the mouse moved and    *)
(* what the button did; the integrals are the hand's position (desk), the  *)
(* clamped pitch, which depends on the batch's sensitivity, the pointer in *)
(* whole pixels with what it carries over (two counts to a pixel), the     *)
(* distance, the clicks and the held button.  The desk trail stands for    *)
(* the aim trail too, which is pushed, cleared and trimmed with it.  The   *)
(* slacks the code adds to Decay (0.05 s, 0.1 s) are shorter than a tick.  *)
(* A script is one session: the engine resets itself at the next one.      *)
(***************************************************************************)
EXTENDS Integers, Sequences, SequencesExt, FiniteSets, FiniteSetsExt

CONSTANTS Scripts,         \* sequences of envelopes: [sens, events] or [mark]
          Decay,           \* seconds of trail
          CheckpointGap,   \* CHECKPOINT_SEC
          LiveEvents, TrimTrigger, HardCap,  \* MAX_LIVE_EVENTS, LIVE_TRIM_TRIGGER, HARD_EVENT_CAP
          Budget,          \* MAX_CONSUME_PER_TICK
          TrailCap,        \* TRAIL_CAP
          MarkersKept,     \* markers shown that trim leaves alone (256)
          Buffers, Snap,   \* what effectiveLiveBuffer may be; how far behind is a jump
          PitchLimit,
          Steps,           \* how far a tick may move the head: 0 when nothing plays
          MaxJumps         \* bound: seeks and recentrings

VARIABLES mode, script,
          next,            \* envelopes ingested
          ev, metas, metaBase, cursor, markers, markerCursor,
          tStart, tEnd, haveTimeline,
          playT, clockStarted, loading,
          st,              \* the integrators and the totals
          deskTrail, ptrTrail,
          checkpoints, cpBuilt, cpNextT,
          dropped,         \* history: events dropped from the front,
          skipped,         \* the ones among them that were never integrated,
          origin,          \* the event after which the view was recentred,
          jumps, disturbed \* and whether a load was sought in or recentred

timeline == <<ev, metas, metaBase, markers, tStart, tEnd, haveTimeline, dropped, next>>
built == <<checkpoints, cpBuilt, cpNextT>>
played == <<cursor, markerCursor, playT, st, deskTrail, ptrTrail, skipped, origin>>
vars == <<mode, script, timeline, built, played, clockStarted, loading, jumps, disturbed>>

Abs(d) == IF d < 0 THEN -d ELSE d
Clamp(v, lo, hi) == Max({lo, Min({v, hi})})
NoTime == -1
Fresh == [desk |-> 0, pitch |-> 0, ptr |-> 0, carried |-> 0, last |-> NoTime,
          total |-> 0, clicks |-> 0, held |-> FALSE]
Recentred(s) == [s EXCEPT !.desk = 0, !.pitch = 0, !.ptr = 0, !.carried = 0, !.last = NoTime]

\* initialEngineState.
Init ==
    /\ mode \in {"live", "replay"} /\ script \in Scripts /\ next = 0
    /\ ev = <<>> /\ metas = <<>> /\ metaBase = 0 /\ cursor = 0
    /\ markers = <<>> /\ markerCursor = 0
    /\ tStart = 0 /\ tEnd = 0 /\ haveTimeline = FALSE
    /\ playT = 0 /\ clockStarted = FALSE /\ loading = (mode = "replay")
    /\ st = Fresh /\ deskTrail = <<>> /\ ptrTrail = <<>>
    /\ checkpoints = <<>> /\ cpBuilt = 0 /\ cpNextT = 0
    /\ dropped = 0 /\ skipped = {} /\ origin = 0
    /\ jumps = 0 /\ disturbed = FALSE

-----------------------------------------------------------------------------
(* One event: applyMeta, applyMotion, applyButtons.                        *)

\* PointerModel.apply moves by whole pixels, towards zero.
Pixels(counts) == IF counts < 0 THEN -((-counts) \div 2) ELSE counts \div 2

Apply(s, e, sens) ==
    [desk |-> s.desk + e.d,
     pitch |-> Clamp(s.pitch + e.d * sens, -PitchLimit, PitchLimit),
     ptr |-> s.ptr + Pixels(s.carried + e.d),
     carried |-> s.carried + e.d - 2 * Pixels(s.carried + e.d),
     last |-> e.t,
     total |-> s.total + Abs(e.d),
     clicks |-> s.clicks + (IF "down" \in e.b THEN 1 ELSE 0),
     held |-> (s.held \/ "down" \in e.b) /\ "up" \notin e.b]

MetaAt(i) == metas[ev[i].mi - metaBase + 1]
ApplyIdx(s, i) == Apply(s, ev[i], MetaAt(i))

\* The number of events that are over by the time t, from the cursor on, and
\* the markers.
Reach(from, t) ==
    Min({k \in from..Len(ev) : k = Len(ev) \/ ev[k + 1].t > t})
MarksBefore(from, t) ==
    Min({k \in from..Len(markers) : k = Len(markers) \/ markers[k + 1] > t})

\* Trail.push: the oldest point makes room.
Push(trail, t, x) ==
    LET all == Append(trail, [t |-> t, x |-> x])
    IN  SubSeq(all, Max({1, Len(all) - TrailCap + 1}), Len(all))

\* consume: the integrals and the trails after the events from + 1 to to, of
\* which the ones within Decay of the play head are drawn, the pointer's only
\* where it moved by a pixel.
Integrate(start, from, to, head) ==
    FoldLeftDomain(
        LAMBDA acc, j :
          LET e == ev[from + j]
              new == ApplyIdx(acc.st, from + j)
              visible == e.d # 0 /\ e.t >= head - Decay
          IN  [st |-> new,
               desk |-> IF visible THEN Push(acc.desk, e.t, new.desk) ELSE acc.desk,
               ptr |-> IF visible /\ new.ptr # acc.st.ptr THEN Push(acc.ptr, e.t, new.ptr)
                       ELSE acc.ptr],
        start, [j \in 1..(to - from) |-> j])
Now == [st |-> st, desk |-> deskTrail, ptr |-> ptrTrail]

Trimmed(trail, head) ==
    SubSeq(trail, Min({k \in 1..(Len(trail) + 1) :
                         k = Len(trail) + 1 \/ trail[k].t >= head - Decay}), Len(trail))

-----------------------------------------------------------------------------
(* Ingesting: ingestMarker, ingestBatch, appendEvents, dropFront.          *)

NoteTimes(ts) ==
    IF ts = {} THEN UNCHANGED <<tStart, tEnd, haveTimeline>>
    ELSE /\ tStart' = IF haveTimeline THEN Min(ts \cup {tStart}) ELSE Min(ts)
         /\ tEnd' = IF haveTimeline THEN Max(ts \cup {tEnd}) ELSE Max(ts)
         /\ haveTimeline' = TRUE

\* The columns, the batch contexts and the cursor without the oldest k events.
DropFront(line, k) ==
    IF k <= 0 THEN line
    ELSE [ev |-> SubSeq(line.ev, k + 1, Len(line.ev)), cursor |-> Max({0, line.cursor - k}),
          metas |-> IF k = Len(line.ev) THEN <<>>
                    ELSE SubSeq(line.metas, line.ev[k + 1].mi - line.base + 1, Len(line.metas)),
          base |-> IF k = Len(line.ev) THEN line.base + Len(line.metas) ELSE line.ev[k + 1].mi]
Line(columns, contexts, at) ==
    [ev |-> columns, cursor |-> at, metas |-> contexts, base |-> metaBase]
Capped(line) ==
    DropFront(line, IF Len(line.ev) > HardCap THEN Len(line.ev) - LiveEvents ELSE 0)

\* The timeline, line, becomes kept, which lacks some of its oldest events.
Retain(line, kept) ==
    LET k == Len(line.ev) - Len(kept.ev)
    IN  /\ ev' = kept.ev /\ metas' = kept.metas /\ metaBase' = kept.base /\ cursor' = kept.cursor
        /\ IF k = 0 THEN UNCHANGED <<checkpoints, cpBuilt, cpNextT, dropped, skipped>>
           ELSE /\ checkpoints' = <<>> /\ cpBuilt' = 0 /\ UNCHANGED cpNextT
                /\ dropped' = dropped + k
                /\ skipped' = skipped \cup (dropped + line.cursor + 1)..(dropped + k)

IngestMarker ==
    /\ markers' = Append(markers, script[next + 1].mark)
    /\ NoteTimes({script[next + 1].mark})
    /\ UNCHANGED <<ev, metas, metaBase, cursor, built, dropped, skipped>>

IngestBatch ==
    LET batch == script[next + 1]
        fresh == [i \in DOMAIN batch.events |->
                    [t |-> batch.events[i].t, d |-> batch.events[i].d, b |-> batch.events[i].b,
                     mi |-> metaBase + Len(metas)]]
        columns == ev \o fresh
        contexts == IF fresh = <<>> THEN metas ELSE Append(metas, batch.sens)
        line == Line(columns, contexts, cursor)
    IN  /\ NoteTimes({fresh[i].t : i \in DOMAIN fresh})
        /\ Retain(line, IF mode = "live" THEN Capped(line) ELSE line)
        /\ UNCHANGED markers

Ingest ==
    /\ next < Len(script) /\ next' = next + 1
    /\ mode = "replay" => loading
    /\ IF "mark" \in DOMAIN script[next + 1] THEN IngestMarker ELSE IngestBatch
    /\ UNCHANGED <<mode, script, markerCursor, playT, st, deskTrail, ptrTrail, origin,
                   clockStarted, loading, jumps, disturbed>>

-----------------------------------------------------------------------------
(* Checkpoints: extendCheckpoints, snapshotAt, restore, pickCheckpoint.    *)

\* The checkpoints and the integrals after the events from + 1 to the end.
Extended(from, s, cps, nextT) ==
    FoldLeftDomain(
        LAMBDA acc, j :
          LET i == from + j
          IN  [st |-> ApplyIdx(acc.st, i),
               cps |-> IF ev[i].t >= acc.nextT
                       THEN Append(acc.cps, [i |-> i - 1, t |-> ev[i].t, st |-> acc.st])
                       ELSE acc.cps,
               nextT |-> IF ev[i].t >= acc.nextT THEN ev[i].t + CheckpointGap ELSE acc.nextT],
        [st |-> s, cps |-> cps, nextT |-> nextT], [j \in 1..(Len(ev) - from) |-> j])

ExtendCheckpoints ==
    IF cpBuilt = 0 THEN Extended(0, Fresh, <<>>, IF haveTimeline THEN tStart ELSE 0)
    ELSE Extended(cpBuilt, st, checkpoints, cpNextT)

\* Between two slices of a load.
LoadSlice ==
    /\ mode = "replay" /\ loading
    /\ LET to == ExtendCheckpoints
       IN  st' = to.st /\ checkpoints' = to.cps /\ cpNextT' = to.nextT
    /\ cpBuilt' = Len(ev)
    /\ IF cpBuilt = 0
       THEN cursor' = 0 /\ markerCursor' = 0 /\ deskTrail' = <<>> /\ ptrTrail' = <<>> /\ origin' = 0
       ELSE UNCHANGED <<cursor, markerCursor, deskTrail, ptrTrail, origin>>
    /\ UNCHANGED <<mode, script, timeline, playT, skipped, clockStarted, loading, jumps, disturbed>>

\* Faulty variant: the trail before the target is not thought of.
JustBefore(cps, target) ==
    LET before == {k \in DOMAIN cps : cps[k].t < target}
    IN  IF before = {} THEN <<>> ELSE <<cps[Max(before)]>>
PickCheckpoint(cps, target) ==
    LET before == {k \in DOMAIN cps : cps[k].t < target - Decay}
    IN  IF before = {} THEN <<>> ELSE <<cps[Max(before)]>>

\* seek, with the head where it is or, at the end of a load, as if rewound.
SeekFrom(cps, from, target) ==
    LET cp == PickCheckpoint(cps, target)
        again(at, integrals) == [cursor |-> at, origin |-> 0,
                                 now |-> [st |-> integrals, desk |-> <<>>, ptr |-> <<>>]]
        start == IF cp # <<>> /\ (from.rewound \/ target < playT \/ cp[1].i > from.cursor)
                 THEN again(cp[1].i, cp[1].st)
                 ELSE IF target < playT \/ from.rewound THEN again(0, Fresh)
                 ELSE [cursor |-> cursor, origin |-> origin, now |-> Now]
        end == Reach(start.cursor, target)
        after == Integrate(start.now, start.cursor, end, target)
    IN  /\ playT' = target /\ cursor' = end
        /\ st' = after.st /\ deskTrail' = after.desk /\ ptrTrail' = after.ptr
        /\ origin' = start.origin
        /\ markerCursor' = MarksBefore(0, target)

Seek(target) ==
    /\ jumps < MaxJumps /\ jumps' = jumps + 1
    /\ mode = "replay" /\ tEnd > tStart /\ target \in tStart..tEnd
    /\ SeekFrom(checkpoints, [rewound |-> FALSE, cursor |-> cursor], target)
    /\ disturbed' = (disturbed \/ loading)
    /\ UNCHANGED <<mode, script, timeline, built, skipped, clockStarted, loading>>

\* The end of loadSession: the rest of the checkpoints, rewind, seek(tStart).
FinishLoad ==
    /\ mode = "replay" /\ loading /\ next = Len(script)
    /\ checkpoints' = ExtendCheckpoints.cps /\ cpNextT' = ExtendCheckpoints.nextT
    /\ cpBuilt' = Len(ev) /\ loading' = FALSE
    /\ SeekFrom(checkpoints', [rewound |-> TRUE, cursor |-> 0], tStart)
    /\ UNCHANGED <<mode, script, timeline, skipped, clockStarted, jumps, disturbed>>

Recenter ==
    /\ jumps < MaxJumps /\ jumps' = jumps + 1
    /\ st' = Recentred(st) /\ deskTrail' = <<>> /\ ptrTrail' = <<>> /\ origin' = dropped + cursor
    /\ disturbed' = (disturbed \/ loading)
    /\ UNCHANGED <<mode, script, timeline, built, cursor, markerCursor, playT, skipped,
                   clockStarted, loading>>

-----------------------------------------------------------------------------
(* Playing: tick, advanceLive, consume, trim.                              *)

AdvanceLive(adv, buffer) ==
    IF ~haveTimeline THEN UNCHANGED <<playT, clockStarted>>
    ELSE /\ clockStarted' = TRUE
         /\ playT' = IF ~clockStarted THEN tStart
                     ELSE IF tEnd - buffer - playT > Snap THEN tEnd - buffer
                     ELSE Min({playT + adv, tEnd + Decay + 1})

Consume == Min({Reach(cursor, playT'), cursor + Budget})

Draw(after) ==
    /\ st' = after.st
    /\ deskTrail' = Trimmed(after.desk, playT') /\ ptrTrail' = Trimmed(after.ptr, playT')

\* trim, with the cursors at and shown.
TrimLive(at, shown) ==
    LET line == Line(ev, metas, at)
    IN  /\ Retain(line, Capped(DropFront(line, IF at >= TrimTrigger THEN at - LiveEvents ELSE 0)))
        /\ markers' = IF shown > MarkersKept THEN SubSeq(markers, shown + 1, Len(markers)) ELSE markers
        /\ markerCursor' = IF shown > MarkersKept THEN 0 ELSE shown

LiveTick(adv, buffer) ==
    /\ mode = "live"
    /\ AdvanceLive(adv, buffer)
    /\ Draw(Integrate(Now, cursor, Consume, playT'))
    /\ TrimLive(Consume, MarksBefore(markerCursor, playT'))
    /\ UNCHANGED <<mode, script, next, tStart, tEnd, haveTimeline, origin, loading, jumps, disturbed>>

\* The timer that trims while the page is hidden and draws no frame.
TimerTrim ==
    /\ UNCHANGED <<playT, clockStarted>>
    /\ Draw(Now)
    /\ IF mode = "live" THEN TrimLive(cursor, markerCursor)
       ELSE UNCHANGED <<ev, metas, metaBase, markers, dropped, built, cursor, markerCursor, skipped>>
    /\ UNCHANGED <<mode, script, next, tStart, tEnd, haveTimeline, origin, loading, jumps, disturbed>>

\* tick does nothing while a load is streaming in.
ReplayTick(adv) ==
    /\ mode = "replay" /\ ~loading
    /\ playT' = Min({tEnd, playT + adv})
    /\ Draw(Integrate(Now, cursor, Consume, playT')) /\ cursor' = Consume
    /\ markerCursor' = MarksBefore(markerCursor, playT')
    /\ UNCHANGED <<mode, script, timeline, built, skipped, origin, clockStarted, loading, jumps, disturbed>>

Next ==
    \/ Ingest \/ LoadSlice \/ FinishLoad \/ Recenter \/ TimerTrim
    \/ \E target \in tStart..tEnd : Seek(target)
    \/ \E adv \in Steps, buffer \in Buffers : LiveTick(adv, buffer)
    \/ \E adv \in Steps : ReplayTick(adv)

Spec == Init /\ [][Next]_vars

-----------------------------------------------------------------------------
(* What a play from the first event to now, without a jump, comes to.      *)

AllEvents ==
    FoldLeft(LAMBDA acc, envelope :
               IF "mark" \in DOMAIN envelope THEN acc
               ELSE acc \o [i \in DOMAIN envelope.events |->
                              [e |-> envelope.events[i], sens |-> envelope.sens]],
             <<>>, SubSeq(script, 1, next))
\* The integrals after the events numbered in numbers, in order, with the
\* positions taken from the origin on.
Straight(all, numbers, from) ==
    FoldLeft(LAMBDA s, i : LET new == Apply(s, all[i].e, all[i].sens)
                           IN  IF i <= from THEN Recentred(new) ELSE new,
             Fresh, SetToSortSeq(numbers, <))

(* The retained timeline is the newest part of what was ingested, every    *)
(* event with the context of its own batch, the marks dropped have been    *)
(* shown, and a live one is bounded.                                       *)
TimelineIsSound ==
    LET all == AllEvents
        marks == SelectSeq(SubSeq(script, 1, next), LAMBDA e : "mark" \in DOMAIN e)
        lost == Len(marks) - Len(markers)
    IN  /\ Len(ev) = Len(all) - dropped /\ cursor <= Len(ev)
        /\ \A i \in DOMAIN ev :
              /\ [t |-> ev[i].t, d |-> ev[i].d, b |-> ev[i].b] = all[dropped + i].e
              /\ MetaAt(i) = all[dropped + i].sens
        /\ \A k \in DOMAIN marks : IF k <= lost THEN marks[k].mark <= playT
                                   ELSE markers[k - lost] = marks[k].mark
        /\ mode = "live" => Len(ev) <= HardCap

\* What a trail shows that the points of numbers were pushed on.
Shown(all, numbers, place(_)) ==
    LET order == SetToSortSeq(numbers, <)
        first == Max({0, Len(order) - TrailCap})
    IN  [k \in 1..(Len(order) - first) |->
           [t |-> all[order[first + k]].e.t, x |-> place(order[first + k])]]

(* Whatever was dropped, skipped, sought or recentred, the readings are    *)
(* those of a straight play of the events that were integrated, each once  *)
(* and in order, and the trails are the last Decay of that play, as far as *)
(* they hold it.                                                           *)
PlaybackIsExact ==
    LET all == AllEvents
        numbers == (1..(dropped + cursor)) \ skipped
        upTo == [i \in numbers |-> Straight(all, {j \in numbers : j <= i}, origin)]
        before == [i \in numbers |-> Straight(all, {j \in numbers : j < i}, origin)]
        drawn == {i \in numbers : i > origin /\ all[i].e.d # 0 /\ all[i].e.t >= playT - Decay}
        recent(trail) == SelectSeq(trail, LAMBDA p : p.t >= playT - Decay)
    IN  ~disturbed /\ ~loading =>
          /\ st = Straight(all, numbers, origin)
          /\ recent(deskTrail) = Shown(all, drawn, LAMBDA i : upTo[i].desk)
          /\ recent(ptrTrail) = Shown(all, {i \in drawn : upTo[i].ptr # before[i].ptr},
                                      LAMBDA i : upTo[i].ptr)
          /\ mode = "replay" => markerCursor = MarksBefore(0, playT)

(* app.js, loading: "The loader owns the integrator state during that      *)
(* window (it is building checkpoints with it)": every checkpoint holds    *)
(* what a straight play to its event comes to.                             *)
CheckpointsAreExact ==
    \A k \in DOMAIN checkpoints :
       checkpoints[k].st = Straight(AllEvents, 1..checkpoints[k].i, 0)
=============================================================================
