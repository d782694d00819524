----------------------------- MODULE MotionGrid -----------------------------
(***************************************************************************)
(* series.rs, savgol.rs: a recording's irregular events are binned into    *)
(* cells of Dt microseconds, and only the stretches that carry events are  *)
(* stored, each padded with silence: the padding is what makes every lane, *)
(* and every question asked of the grid, come out as on the dense one.     *)
(*                                                                         *)
(* Counts have one axis here and velocities are counts per cell; smoothing *)
(* is the straight-line least-squares fit, its weights times Scale so that *)
(* they are whole.  Cells, events and batches are numbered from 0 as in    *)
(* the code; positions in a run's lanes from 1.                            *)
(***************************************************************************)
EXTENDS Integers, Sequences, FiniteSets, FiniteSetsExt, SequencesExt

CONSTANTS Dt, Half, Baseline,   \* grid_dt_us, sg_half, tremor_baseline_ms in cells
          Still,                \* still_speed, in units of a smoothed count
          Cap, SpanCap          \* max_grid_cells, MAX_SPAN_CELLS

Scale == 30
Magnitude(x) == IF x < 0 THEN -x ELSE x
Total(s) == FoldLeft(LAMBDA a, x : a + x, 0, s)
Cells(f(_), from, to) == [i \in 1..(to - from) |-> f(from + i - 1)]

\* partition_point: how many of a sorted sequence come before the point.
Before(s, P(_)) == Cardinality({k \in 1..Len(s) : P(s[k])})

-----------------------------------------------------------------------------
(* Smoothing: coeffs for order 1, apply_into, sg_run_into.                 *)

Coeffs(h, o, i) == CASE h = 0 -> 30 [] h = 1 -> 10 + 15 * o * i [] h = 2 -> 6 + 3 * o * i

\* The windows of the first and the last h outputs are pinned to the ends.
ApplyWith(y, h) ==
    [k \in 1..Len(y) |->
        LET first == Max({1, Min({k - h, Len(y) - 2 * h})})
        IN  Total([i \in 1..(2 * h + 1) |-> Coeffs(h, k - first - h, i - 1 - h) * y[first + i - 1]])]

\* A short series gets the widest window it supports, or comes back as it is.
Smooth(y) ==
    LET h == IF Len(y) > 2 * Half THEN Half ELSE (Len(y) - 1) \div 2
    IN  IF y = <<>> THEN <<>>
        ELSE IF h = 0 /\ Half > 0 THEN [k \in 1..Len(y) |-> Scale * y[k]]
        ELSE ApplyWith(y, h)

\* A run is framed with the silence that really surrounds it, up to the ends
\* of the session.
SmoothRun(x, start, n) ==
    LET left == Min({Half, start})
        right == Min({Half, n - (start + Len(x))})
        framed == [k \in 1..left |-> 0] \o x \o [k \in 1..right |-> 0]
    IN  SubSeq(Smooth(framed), left + 1, left + Len(x))

-----------------------------------------------------------------------------
(* Building the grid: prepare.                                             *)

\* Faulty variant: wide enough for a centred window only.
WindowPad == Max({Half, 1})
Pad == Max({Half, Baseline \div 2, 1})

\* CellBits::spans: padded spans over the cells that are set, merged where
\* they touch.
PaddedSpans(cells, n) ==
    FoldLeft(LAMBDA out, c :
                LET lo == Max({0, c - Pad})
                    hi == Min({c + Pad + 1, n})
                IN  IF out # <<>> /\ lo <= Last(out)[2]
                    THEN [out EXCEPT ![Len(out)][2] = Max({@, hi})]
                    ELSE Append(out, <<lo, hi>>),
             <<>>, SetToSortSeq(cells, <))

Lengths(spans) == [k \in 1..Len(spans) |-> spans[k][2] - spans[k][1]]

\* Runs are dropped from the end until the rest fit, the one on the limit
\* is clipped.
CapRuns(spans) ==
    LET used(k) == Total(SubSeq(Lengths(spans), 1, k))
        whole == Max({k \in 0..Len(spans) : used(k) <= Cap})
        budget == Cap - used(whole)
    IN  IF whole = Len(spans) THEN spans
        ELSE SubSeq(spans, 1, whole)
             \o (IF budget > 0 THEN <<<<spans[whole + 1][1], spans[whole + 1][1] + budget>>>> ELSE <<>>)

\* last_move_table: the position of the last cell above the threshold, or 0.
LastMoveTable(speed) ==
    [j \in 1..Len(speed) |-> Max({0} \cup {i \in 1..j : speed[i] > Still})]

\* The last moving cell before run k, -1 when there is none.
PrevLastMove(starts, tables, k) ==
    LET moved == {j \in 1..(k - 1) : Last(tables[j]) > 0}
    IN  IF moved = {} THEN -1 ELSE starts[Max(moved)] + Last(tables[Max(moved)]) - 1

\* events: records [us, d, down], microseconds from the session's start.
Prepare(events) ==
    LET cell(e) == e.us \div Dt
        wanted == IF events = <<>> THEN 0 ELSE Max({cell(events[i]) : i \in 1..Len(events)}) + 1
        span == Min({wanted, SpanCap})
        padded == PaddedSpans({cell(events[i]) : i \in 1..Len(events)} \cap 0..(span - 1), span)
        spans == CapRuns(padded)
        truncated == wanted > SpanCap \/ spans # padded
        n == IF ~truncated THEN span ELSE IF spans = <<>> THEN 0 ELSE Last(spans)[2]
        inCell(c) == SelectSeq(events, LAMBDA e : cell(e) = c)
        counts(c) == Total([i \in 1..Len(inCell(c)) |-> inCell(c)[i].d])
        presses(c) == Total([i \in 1..Len(inCell(c)) |-> inCell(c)[i].down])
        raw(k) == Cells(counts, spans[k][1], spans[k][2])
        smoothed == [k \in 1..Len(spans) |-> SmoothRun(raw(k), spans[k][1], n)]
        speeds == [k \in 1..Len(spans) |-> [j \in 1..Len(smoothed[k]) |-> Magnitude(smoothed[k][j])]]
        tables == [k \in 1..Len(spans) |-> LastMoveTable(speeds[k])]
    IN  [n |-> n, truncated |-> truncated,
         eventsInGrid |-> IF truncated THEN Before(events, LAMBDA e : e.us < n * Dt) ELSE Len(events),
         runs |-> [k \in 1..Len(spans) |->
                     [start |-> spans[k][1], v |-> raw(k), vs |-> smoothed[k], speed |-> speeds[k],
                      clicks |-> Cells(presses, spans[k][1], spans[k][2]), lastMove |-> tables[k],
                      prevLastMove |-> PrevLastMove([j \in 1..Len(spans) |-> spans[j][1]], tables, k)]]]

-----------------------------------------------------------------------------
(* Asking the grid.                                                        *)

End(r) == r.start + Len(r.v)
Holds(r, i) == r.start <= i /\ i < End(r)

\* run_ix: the run that holds cell i, 0 when it is silence.
RunIx(g, i) ==
    LET k == Before(g.runs, LAMBDA r : r.start <= i)
    IN  IF k > 0 /\ Holds(g.runs[k], i) THEN k ELSE 0
At(g, i, lane) ==
    IF RunIx(g, i) = 0 THEN 0 ELSE g.runs[RunIx(g, i)][lane][i - g.runs[RunIx(g, i)].start + 1]

\* Run::clip and runs_in: the stored cells of [a, b), lane by lane.
Clip(r, a, b) ==
    <<Min({Max({a, r.start}) - r.start, Len(r.v)}),
      Min({Max({Min({b, End(r)}), r.start}) - r.start, Len(r.v)})>>
Stored(g, a, b, lane) ==
    LET lo == Before(g.runs, LAMBDA r : End(r) <= a)
        hi == IF b <= a THEN lo ELSE Before(g.runs, LAMBDA r : r.start < b)
    IN  FlattenSeq([k \in 1..Max({0, hi - lo}) |->
            LET r == g.runs[lo + k] IN SubSeq(r[lane], Clip(r, a, b)[1] + 1, Clip(r, a, b)[2])])
Bounded(g, a, b) == <<Min({a, g.n}), Max({Min({a, g.n}), Min({b, g.n})})>>
Window(g, a, b, lane) == Stored(g, Bounded(g, a, b)[1], Bounded(g, a, b)[2], lane)

Raw == "v"
Speed == "speed"
Clicks == "clicks"

Displacement(g, a, b) == Total(Window(g, a, b, Raw))
PathLength(g, a, b) ==
    LET w == Window(g, a, b, Raw) IN Total([i \in 1..Len(w) |-> Magnitude(w[i])])
PeakSpeed(g, a, b) == Max({0} \cup Range(Window(g, a, b, Speed)))
ClicksIn(g, a, b) == Total(Window(g, a, b, Clicks))
MovingCellsIn(g, a, b) == Len(SelectSeq(Window(g, a, b, Speed), LAMBDA s : s > Still))

\* The first stretch of need quiet cells from a cell on, the silence between
\* two runs counted without walking it; the end of the session if there is none.
QuietStartAfter(g, from, need) ==
    LET silence(acc, to) ==
            IF acc.found >= 0 \/ acc.at >= to THEN acc
            ELSE IF acc.quiet + to - acc.at >= need THEN [acc EXCEPT !.found = acc.at - acc.quiet]
            ELSE [acc EXCEPT !.quiet = @ + to - acc.at, !.at = to]
        cell(acc, s) ==
            LET quiet == IF s <= Still THEN acc.quiet + 1 ELSE 0
            IN  IF acc.found >= 0 THEN acc
                ELSE [at |-> acc.at + 1, quiet |-> quiet,
                      found |-> IF quiet >= need THEN acc.at + 1 - need ELSE -1]
        run(acc, r) ==
            LET reached == silence(acc, r.start)
            IN  IF reached.found >= 0 THEN reached
                ELSE FoldLeft(cell, reached, SubSeq(r.speed, reached.at - r.start + 1, Len(r.speed)))
        first == Before(g.runs, LAMBDA r : End(r) <= from)
        swept == silence(FoldLeft(run, [at |-> from, quiet |-> 0, found |-> -1],
                                  SubSeq(g.runs, first + 1, Len(g.runs))), g.n)
    IN  IF need = 0 THEN Min({from, g.n}) ELSE IF swept.found >= 0 THEN swept.found ELSE g.n

\* The last moving cell at or before i, -1 when there is none.
\* Faulty variant: within the run of i only.
InThisRun(g, i) ==
    LET k == Before(g.runs, LAMBDA r : r.start <= i)
        r == g.runs[k]
        j == r.lastMove[Min({i - r.start, Len(r.v) - 1}) + 1]
    IN  IF k = 0 \/ j = 0 THEN -1 ELSE r.start + j - 1
LastMovingCell(g, i) ==
    LET k == Before(g.runs, LAMBDA r : r.start <= i)
        r == g.runs[k]
        j == r.lastMove[Min({i - r.start, Len(r.v) - 1}) + 1]
    IN  IF k = 0 THEN -1 ELSE IF j = 0 THEN r.prevLastMove ELSE r.start + j - 1

\* movement_segments: the stretches above the threshold of min or more cells.
MovementSegments(g, min) ==
    LET moving(i) == At(g, i, Speed) > Still
        stretch(r) == {<<a, b>> \in (r.start..End(r)) \X (r.start..End(r)) :
                         /\ a < b /\ \A i \in a..(b - 1) : moving(i)
                         /\ a = r.start \/ ~moving(a - 1)
                         /\ b = End(r) \/ ~moving(b)}
    IN  {s \in UNION {stretch(g.runs[k]) : k \in 1..Len(g.runs)} : s[2] - s[1] >= min}

-----------------------------------------------------------------------------
(* Pointer-locked spans, over events and over cells: locked_spans.         *)

SpanContains(spans, i) ==
    LET k == Before(spans, LAMBDA s : s[1] <= i) IN k > 0 /\ i < spans[k][2]

\* batches: records [count, locked]; neighbouring locked batches are one span.
LockedEvents(batches, events) ==
    LET at(k) == Min({Len(events), Total([j \in 1..k |-> batches[j].count])})
        span(out, k) ==
            IF ~batches[k].locked \/ at(k) <= at(k - 1) THEN out
            ELSE IF out # <<>> /\ Last(out)[2] = at(k - 1) THEN [out EXCEPT ![Len(out)][2] = at(k)]
            ELSE Append(out, <<at(k - 1), at(k)>>)
    IN  IF batches = <<>> THEN (IF events = <<>> THEN <<>> ELSE <<<<0, Len(events)>>>>)
        ELSE FoldLeftDomain(LAMBDA out, k : span(out, k), <<>>, batches)

LockedCells(spans, events, n) ==
    LET cell(i) == Min({events[i + 1].us \div Dt, Max({0, n - 1})})
        span(out, s) ==
            LET hi == Min({cell(s[2] - 1) + 1, n})
            IN  IF out # <<>> /\ cell(s[1]) <= Last(out)[2]
                THEN [out EXCEPT ![Len(out)][2] = Max({@, hi})]
                ELSE Append(out, <<cell(s[1]), hi>>)
    IN  IF n = 0 THEN <<>> ELSE FoldLeft(span, <<>>, spans)

-----------------------------------------------------------------------------
(* What the module's header promises.                                      *)

\* The sparse grid is the dense one in every lane.  The padding has to cover
\* the windows pinned to the session's ends as well, twice Half: the default
\* baseline is far wider than that.
GridIsDense(events) ==
    Baseline \div 2 >= 2 * Half =>
    LET g == Prepare(events)
        here(i) == SelectSeq(events, LAMBDA e : e.us \div Dt = i)
        v(i) == Total([k \in 1..Len(here(i)) |-> here(i)[k].d])
        dense == Smooth([k \in 1..g.n |-> v(k - 1)])
    IN  \A i \in 0..(g.n - 1) :
            /\ At(g, i, Raw) = v(i)
            /\ At(g, i, Clicks) = Total([k \in 1..Len(here(i)) |-> here(i)[k].down])
            /\ At(g, i, Speed) = Magnitude(dense[i + 1])

\* Every question comes out as a walk over all the cells would answer it.
QuestionsAgree(events) ==
    LET g == Prepare(events)
        speed(i) == At(g, i, Speed)
        cells == 0..(g.n - 1)
        sum(f(_), S) == FoldSet(LAMBDA i, acc : acc + f(i), 0, S)
    IN  /\ \A i \in cells : LastMovingCell(g, i) = Max({-1} \cup {j \in 0..i : speed(j) > Still})
        /\ \A i \in cells, need \in 1..3 :
              QuietStartAfter(g, i, need) =
                Min({g.n} \cup {a \in i..(g.n - need) : \A j \in a..(a + need - 1) : speed(j) <= Still})
        /\ \A a \in cells, b \in 0..(g.n + 1) :
              LET w == {i \in cells : a <= i /\ i < b}
              IN  /\ PeakSpeed(g, a, b) = Max({0} \cup {speed(i) : i \in w})
                  /\ MovingCellsIn(g, a, b) = Cardinality({i \in w : speed(i) > Still})
                  /\ Displacement(g, a, b) = sum(LAMBDA i : At(g, i, Raw), w)
                  /\ PathLength(g, a, b) = sum(LAMBDA i : Magnitude(At(g, i, Raw)), w)
                  /\ ClicksIn(g, a, b) = sum(LAMBDA i : At(g, i, Clicks), w)
        /\ \A min \in 1..2 :
              MovementSegments(g, min) =
                {<<a, b>> \in cells \X (cells \cup {g.n}) :
                    /\ a + min <= b /\ \A i \in a..(b - 1) : speed(i) > Still
                    /\ (a > 0 => speed(a - 1) <= Still) /\ (b < g.n => speed(b) <= Still)}

\* With events in order, what the rates count is what the grid covers, and a
\* locked event lies in a locked cell.
CountsAgree(events, batches) ==
    LET g == Prepare(events)
        locked == LockedEvents(batches, events)
        cells == LockedCells(locked, events, g.n)
        batchOf(i) == Min({k \in 1..Len(batches) :
                             i < Total([j \in 1..k |-> batches[j].count])})
    IN  (\A i \in 1..(Len(events) - 1) : events[i].us <= events[i + 1].us) =>
            /\ g.eventsInGrid = Cardinality({i \in 1..Len(events) : events[i].us < g.n * Dt})
            /\ \A i \in 0..(g.eventsInGrid - 1) :
                  /\ SpanContains(locked, i) <=>
                        (batches # <<>> => batches[batchOf(i)].locked)
                  /\ SpanContains(locked, i) => SpanContains(cells, events[i + 1].us \div Dt)
=============================================================================
