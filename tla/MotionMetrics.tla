--------------------------- MODULE MotionMetrics ---------------------------
(***************************************************************************)
(* What is measured over the grid: flicks, clicks, repositioning lifts,    *)
(* the tremor residual, and the tables by marker interval, by second and   *)
(* by minute.  An event is a record [us, d, down, up]: microseconds from   *)
(* the session's start, counts on the one axis, and whether the button     *)
(* went down and up in it.  Buttons are independent of each other in the   *)
(* code, so there is one.  A mean or a ratio is kept as the pair of what   *)
(* it divides.                                                             *)
(***************************************************************************)
EXTENDS MotionGrid

CONSTANT Prm   \* series.rs Params, spans of time in cells, and cells_per_second

Sign(x) == IF x > 0 THEN 1 ELSE IF x < 0 THEN -1 ELSE 0
SmoothedSpeed(g, i) == At(g, i, Speed)
Smoothed(r) == r.vs
CellAt(g, us) == Min({us \div Dt, g.n - 1})
CellCeil(g, us) == IF us <= 0 THEN 0 ELSE Min({(us + Dt - 1) \div Dt, g.n})
Analysed(g, events) == SubSeq(events, 1, g.eventsInGrid)

-----------------------------------------------------------------------------
(* Direction changes: a reversal counts once it has held for a while.      *)

Step(st, v) ==
    LET s == IF v > Still THEN 1 ELSE IF v < -Still THEN -1 ELSE 0
        run == IF s = 0 THEN 0 ELSE IF s = st.cur THEN st.run + 1 ELSE 1
        qualifies == run = Prm.min_reversal
    IN  [cur |-> s, run |-> run,
         count |-> IF qualifies /\ st.qualified \notin {0, s} THEN st.count + 1 ELSE st.count,
         qualified |-> IF qualifies THEN s ELSE st.qualified]
AtRest == [cur |-> 0, run |-> 0, count |-> 0, qualified |-> 0]

\* Silence between two runs is one step of rest.
Reversals(g, a, b, dir) ==
    LET to == Min({b, g.n})
        runs == SelectSeq(g.runs, LAMBDA r : End(r) > a /\ r.start < to)
        steps(k) ==
            LET r == runs[k]
                seen == IF k = 1 THEN a ELSE End(runs[k - 1])
                cells == SubSeq(Smoothed(r), Clip(r, a, to)[1] + 1, Clip(r, a, to)[2])
            IN  (IF r.start > seen THEN <<0>> ELSE <<>>)
                \o [i \in 1..Len(cells) |-> dir * cells[i]]
    IN  IF to <= a THEN 0
        ELSE FoldLeft(Step, AtRest, FlattenSeq([k \in 1..Len(runs) |-> steps(k)])).count

-----------------------------------------------------------------------------
(* Flicks: flicks.rs.                                                      *)

\* The movement around the fast cell j; it cannot leave its run.
BallisticStart(g, j) ==
    LET r == g.runs[RunIx(g, j)]
    IN  Min({a \in r.start..j : \A i \in a..(j - 1) : SmoothedSpeed(g, i) > Still})
BallisticEnd(g, j) ==
    LET r == g.runs[RunIx(g, j)]
    IN  Max({b \in j..End(r) : \A i \in j..(b - 1) : SmoothedSpeed(g, i) > Still})

FlickAt(g, j, presses) ==
    LET start == BallisticStart(g, j)
        ballisticEnd == BallisticEnd(g, j)
        settle == QuietStartAfter(g, ballisticEnd, Prm.hold)
        amplitude == Displacement(g, start, ballisticEnd)
        back == -Sign(amplitude) * Displacement(g, ballisticEnd, settle)
        after == {presses[k] : k \in {k \in 1..Len(presses) : presses[k] >= start * Dt}}
    IN  [start |-> start, ballisticEnd |-> ballisticEnd, settle |-> settle,
         amplitude |-> Magnitude(amplitude), correction |-> Max({0, back}),
         peak |-> PeakSpeed(g, start, ballisticEnd),
         corrections |-> Reversals(g, start, settle, Sign(amplitude)),
         toClick |-> IF after # {} /\ Min(after) - start * Dt <= Prm.click_window
                     THEN Min(after) - start * Dt ELSE -1]

\* Where the search goes on after a flick.
\* Faulty variant: as soon as the ballistic phase is over.
AfterBallistic(f, j) == Max({f.ballisticEnd, j + 1})
AfterFlick(f, j) == Max({f.settle, j + 1})

ClickTimes(g, events) ==
    LET down == SelectSeq(Analysed(g, events), LAMBDA e : e.down > 0)
    IN  SortSeq([k \in 1..Len(down) |-> down[k].us], <)

RECURSIVE FlicksFrom(_, _, _)
FlicksFrom(g, i, presses) ==
    LET fast == {j \in i..(g.n - 1) : RunIx(g, j) > 0 /\ SmoothedSpeed(g, j) >= Prm.flick_speed}
        j == Min(fast)
        f == FlickAt(g, j, presses)
    IN  IF fast = {} THEN <<>>
        ELSE IF f.amplitude = 0 THEN FlicksFrom(g, Max({f.ballisticEnd, j + 1}), presses)
        ELSE <<f>> \o FlicksFrom(g, AfterFlick(f, j), presses)
Flicks(g, events) == FlicksFrom(g, 0, ClickTimes(g, events))

-----------------------------------------------------------------------------
(* Clicks: clicks.rs.                                                      *)

MeanSpeedIn(g, from, to) ==
    LET a == CellCeil(g, from)
        b == CellCeil(g, to)
    IN  IF g.n = 0 \/ to <= from \/ a >= b THEN <<0, 1>> ELSE <<Total(Window(g, a, b, Speed)), b - a>>

LastMovementBefore(g, us) ==
    LET i == LastMovingCell(g, CellAt(g, us)) IN IF i = -1 THEN -1 ELSE i * Dt

\* An up closes the press that waits for one.
\* Faulty variant: a press while one is held leaves the older one waiting.
FirstPending(acc, idx) == IF acc.pending = 0 THEN idx ELSE acc.pending
NewPending(acc, idx) == idx

Press(g, acc, e) ==
    LET still == LastMovementBefore(g, e.us)
        gap == e.us - acc.lastDown
    IN  [acc EXCEPT !.clicks = Append(@, [us |-> e.us, hold |-> -1,
                                          pre |-> MeanSpeedIn(g, e.us - Prm.pre_lo, e.us - Prm.pre_hi),
                                          toStill |-> IF still = -1 THEN -1 ELSE Max({0, e.us - still})]),
                    !.doubles = IF acc.clicks # <<>> /\ gap <= Prm.double_click_max THEN @ + 1 ELSE @,
                    !.pending = NewPending(acc, Len(acc.clicks) + 1), !.lastDown = e.us]
Release(acc, e) ==
    [acc EXCEPT !.ups = @ + 1, !.pending = 0,
                !.clicks = IF acc.pending = 0 THEN @
                           ELSE [@ EXCEPT ![acc.pending].hold = e.us - acc.clicks[acc.pending].us]]
ClickReport(g, events) ==
    LET step(acc, e) ==
            LET pressed == IF e.down > 0 THEN Press(g, acc, e) ELSE acc
            IN  IF e.up > 0 THEN Release(pressed, e) ELSE pressed
    IN  FoldLeft(step, [clicks |-> <<>>, ups |-> 0, doubles |-> 0, pending |-> 0, lastDown |-> 0],
                 Analysed(g, events))

-----------------------------------------------------------------------------
(* Lifts over neighbouring movement segments: lifts.rs; path efficiency:   *)
(* kinematics.rs.                                                          *)

Segments(g) == SetToSortSeq(MovementSegments(g, Prm.min_segment), LAMBDA a, b : a[1] < b[1])

Shape(g, s) == [d |-> Displacement(g, s[1], s[2]), peak |-> PeakSpeed(g, s[1], s[2])]
IsDrift(g, s) ==
    /\ s[2] - s[1] >= Prm.lift_drift_min
    /\ Shape(g, s).peak <= Prm.lift_drift_max_speed
    /\ Magnitude(Shape(g, s).d) >= Prm.lift_drift_min_counts
IsReturn(g, a, b) ==
    /\ b[1] - a[2] <= Prm.lift_max_gap
    /\ Shape(g, b).peak >= Prm.lift_return_min_speed
    /\ Sign(Shape(g, b).d) = -Sign(Shape(g, a).d)

\* A lift is the position of its drift.
\* Faulty variant: its return may be the next one's drift.
ReturnAgain(k) == k + 1
AfterReturn(k) == k + 2

RECURSIVE LiftsFrom(_, _, _)
LiftsFrom(g, segs, k) ==
    IF k + 1 > Len(segs) THEN <<>>
    ELSE IF IsDrift(g, segs[k]) /\ IsReturn(g, segs[k], segs[k + 1])
    THEN <<k>> \o LiftsFrom(g, segs, AfterReturn(k))
    ELSE LiftsFrom(g, segs, k + 1)

\* Net travel over path of the segments that start in [a, b), as a pair.
Efficiency(g, a, b) ==
    LET segs == SelectSeq(Segments(g), LAMBDA s : a <= s[1] /\ s[1] < b)
        moved == SelectSeq(segs, LAMBDA s : PathLength(g, s[1], s[2]) > 0)
    IN  <<Total([k \in 1..Len(moved) |-> Magnitude(Displacement(g, moved[k][1], moved[k][2]))]),
          Total([k \in 1..Len(moved) |-> PathLength(g, moved[k][1], moved[k][2])])>>

-----------------------------------------------------------------------------
(* Tremor: a cell minus the mean around it, from prefix sums: micro.rs.    *)

PrefixSums(x) == [k \in 1..(Len(x) + 1) |-> Total(SubSeq(x, 1, k - 1))]

\* The window is taken in the session, so that its width shrinks only at the
\* session's ends.
\* Faulty variant: in the run.
RunWindow(r, i, n) == <<Max({r.start, i - Baseline \div 2}), Min({End(r), i + Baseline \div 2 + 1})>>
SessionWindow(r, i, n) == <<Max({0, i - Baseline \div 2}), Min({n, i + Baseline \div 2 + 1})>>
Residual(r, n) ==
    LET prefix == PrefixSums(r.v)
        sum(w) == prefix[Min({w[2] - r.start, Len(r.v)}) + 1]
                  - prefix[Min({Max({0, w[1] - r.start}), Len(r.v)}) + 1]
    IN  [k \in 1..Len(r.v) |->
            LET w == SessionWindow(r, r.start + k - 1, n)
            IN  <<r.v[k] * (w[2] - w[1]) - sum(w), w[2] - w[1]>>]

\* TremorEnergy: how many cells carried motion, second by second.
ActiveBySecond(g) ==
    [s \in 1..((g.n + Prm.per_sec - 1) \div Prm.per_sec) |->
        Cardinality({i \in 0..(g.n - 1) : i \div Prm.per_sec = s - 1 /\ At(g, i, Raw) # 0})]

-----------------------------------------------------------------------------
(* Markers and the intervals between them: markers.rs.                     *)

\* markers: records [us, label] in time order, us from the session's start.
Intervals(g, markers) ==
    LET end == g.n * Dt
        inside == SelectSeq(markers, LAMBDA m : 0 < m.us /\ m.us < end)
        opening == SelectSeq(markers, LAMBDA m : m.us <= 0)
        cuts == <<[us |-> 0, label |-> IF opening = <<>> THEN "" ELSE Last(opening).label]>> \o inside
        to(k) == IF k < Len(cuts) THEN cuts[k + 1].us ELSE end
    IN  [k \in 1..Len(cuts) |->
            [label |-> cuts[k].label, from |-> cuts[k].us, to |-> to(k),
             a |-> Min({cuts[k].us \div Dt, g.n}), b |-> Min({to(k) \div Dt, g.n})]]

\* Travel goes to the interval that holds the event's cell.
TravelPerInterval(g, events, ivs) ==
    LET home(e) == Before(ivs, LAMBDA iv : iv.a <= e.us \div Dt)
        held(e, k) == home(e) = k /\ e.us \div Dt < ivs[k].b
        of(k) == SelectSeq(Analysed(g, events), LAMBDA e : held(e, k))
    IN  [k \in 1..Len(ivs) |-> Total([i \in 1..Len(of(k)) |-> Magnitude(of(k)[i].d)])]

\* segment_reports: flicks and clicks by time, not by cell.
ByInterval(times, ivs) ==
    [k \in 1..Len(ivs) |-> Before(times, LAMBDA t : t < ivs[k].to) - Before(times, LAMBDA t : t < ivs[k].from)]

-----------------------------------------------------------------------------
(* By second and by minute: per_second.rs, per_minute.rs.                  *)

\* A grid that was cut off ends in the middle of a second; that one is not
\* reported.
\* Faulty variant: it is, with what came after the cut left out.
SecondsBegun(g) == (g.n + Prm.per_sec - 1) \div Prm.per_sec
SecondCount(g) ==
    IF g.truncated THEN g.n \div Prm.per_sec ELSE (g.n + Prm.per_sec - 1) \div Prm.per_sec

SecondUs == Prm.per_sec * Dt
Seconds(g, events, flicks, ivs) ==
    LET in(s) == SelectSeq(events, LAMBDA e : e.us \div SecondUs = s)
        from(s) == s * Prm.per_sec
        to(s) == Min({(s + 1) * Prm.per_sec, g.n})
        label(s) == LET k == Before(ivs, LAMBDA iv : iv.a <= from(s)) IN IF k = 0 THEN "" ELSE ivs[k].label
    IN  [k \in 1..SecondCount(g) |->
            LET s == k - 1 IN
            [events |-> Len(in(s)), distance |-> Total([i \in 1..Len(in(s)) |-> Magnitude(in(s)[i].d)]),
             speed |-> <<Total(Window(g, from(s), to(s), Speed)), to(s) - from(s)>>,
             peak |-> PeakSpeed(g, from(s), to(s)), clicks |-> ClicksIn(g, from(s), to(s)),
             moving |-> MovingCellsIn(g, from(s), to(s)), label |-> label(s),
             flicks |-> Len(SelectSeq(flicks, LAMBDA f : (f.start * Dt) \div SecondUs = s))]]

Minutes(g, rows, flicks) ==
    LET per == Prm.per_min
        count == (Len(rows) + per - 1) \div per
        slice(m) == SubSeq(rows, m * per + 1, Min({(m + 1) * per, Len(rows)}))
        sum(m, f(_)) == Total([i \in 1..Len(slice(m)) |-> f(slice(m)[i])])
        starting(m) == SelectSeq(flicks, LAMBDA f : LET s == f.start * Dt IN
                            m * per * SecondUs <= s /\ s < (m * per + Len(slice(m))) * SecondUs)
    IN  [k \in 1..count |->
            LET m == k - 1 IN
            [covered |-> Len(slice(m)), events |-> sum(m, LAMBDA r : r.events),
             distance |-> sum(m, LAMBDA r : r.distance), clicks |-> sum(m, LAMBDA r : r.clicks),
             flicks |-> sum(m, LAMBDA r : r.flicks), moving |-> sum(m, LAMBDA r : r.moving),
             peak |-> Max({0} \cup {slice(m)[i].peak : i \in 1..Len(slice(m))}),
             overshoots |-> Len(starting(m)),
             efficiency |-> Efficiency(g, m * per * Prm.per_sec, (m * per + Len(slice(m))) * Prm.per_sec)]]

-----------------------------------------------------------------------------
(* What the reports rely on.                                               *)

\* Flicks follow each other, each over before the next one leaves stillness,
\* and every fast cell belongs to one of them or to a movement that went
\* nowhere; the press a flick is measured to is the first one after its start.
FlicksAreWhole(g, events) ==
    LET fs == Flicks(g, events)
        fast == {j \in 0..(g.n - 1) : SmoothedSpeed(g, j) >= Prm.flick_speed}
    IN  /\ \A k \in 1..Len(fs) :
              /\ fs[k].start < fs[k].ballisticEnd /\ fs[k].ballisticEnd <= fs[k].settle
              /\ fs[k].settle <= g.n
              /\ k < Len(fs) => fs[k].settle <= fs[k + 1].start
        /\ \A j \in fast :
              \/ \E k \in 1..Len(fs) : fs[k].start <= j /\ j < fs[k].settle
              \/ Displacement(g, BallisticStart(g, j), BallisticEnd(g, j)) = 0

\* A press is held until the first release from it on, unless another press
\* comes first; what is unmatched in the end is the last press.
PairsAreRight(g, events) ==
    LET rep == ClickReport(g, events)
        seen == Analysed(g, events)
        downs == SetToSortSeq({i \in 1..Len(seen) : seen[i].down > 0}, <)
        until(k) == {i \in downs[k]..Len(seen) : seen[i].up > 0 /\ (k < Len(downs) => i < downs[k + 1])}
    IN  /\ Len(rep.clicks) = Len(downs)
        /\ \A k \in 1..Len(downs) :
              rep.clicks[k].hold = IF until(k) = {} THEN -1 ELSE seen[Min(until(k))].us - seen[downs[k]].us
        /\ rep.pending = (IF downs = <<>> \/ until(Len(downs)) # {} THEN 0 ELSE Len(downs))

\* No segment is part of two lifts.
LiftsAreApart(g) ==
    LET lifts == LiftsFrom(g, Segments(g), 1)
    IN  \A k \in 1..(Len(lifts) - 1) : lifts[k] + 1 < lifts[k + 1]

\* The tremor residual is the dense grid's, and no path is shorter than the
\* way it leads.
ResidualIsDense(g) ==
    /\ \A k \in 1..Len(g.runs), j \in 1..Cap :
          j <= Len(g.runs[k].v) =>
            LET i == g.runs[k].start + j - 1
                w == {c \in 0..(g.n - 1) : i - Baseline \div 2 <= c /\ c <= i + Baseline \div 2}
            IN  Residual(g.runs[k], g.n)[j]
                  = <<At(g, i, Raw) * Cardinality(w) - FoldSet(LAMBDA c, acc : acc + At(g, c, Raw), 0, w),
                      Cardinality(w)>>
    /\ Efficiency(g, 0, g.n)[1] <= Efficiency(g, 0, g.n)[2]
    /\ Total(ActiveBySecond(g)) = Cardinality({i \in 0..(g.n - 1) : At(g, i, Raw) # 0})

\* The intervals tile the session and share out its travel, its flicks and its
\* clicks; the seconds share out what happened in whole seconds of the grid,
\* the minutes what the seconds have.
TablesAdd(g, events, ivs, fs, rows) ==
    LET mins == Minutes(g, rows, fs)
        clicks == ClickTimes(g, events)
        seen == Analysed(g, events)
        inRows == SelectSeq(events, LAMBDA e : e.us < Len(rows) * SecondUs)
        sum(s, f(_)) == Total([i \in 1..Len(s) |-> f(s[i])])
    IN  /\ ivs[1].a = 0 /\ Last(ivs).b = g.n
        /\ \A k \in 1..(Len(ivs) - 1) : ivs[k].b = ivs[k + 1].a
        /\ Total(TravelPerInterval(g, events, ivs)) = sum(seen, LAMBDA e : Magnitude(e.d))
        /\ Total(ByInterval(clicks, ivs)) = Len(clicks)
        /\ Total(ByInterval([k \in 1..Len(fs) |-> fs[k].start * Dt], ivs)) = Len(fs)
        /\ sum(rows, LAMBDA r : r.events) = Len(inRows)
        /\ sum(rows, LAMBDA r : r.clicks) = sum(inRows, LAMBDA e : e.down)
        /\ \A k \in 1..Len(rows) : k * Prm.per_sec <= g.n \/ ~g.truncated
        /\ sum(mins, LAMBDA m : m.events) = Len(inRows)
        /\ sum(mins, LAMBDA m : m.distance) = sum(inRows, LAMBDA e : Magnitude(e.d))
        /\ sum(mins, LAMBDA m : m.covered) = Len(rows)
        /\ \A k \in 1..Len(mins) : mins[k].flicks = mins[k].overshoots
=============================================================================
