--------------------------- MODULE RecordingLoad ---------------------------
(***************************************************************************)
(* Reading a recording back (crates/analyze/src/load): the line classifier *)
(* that the full load and the listing scan share, the body loop, the split *)
(* of a file into line-aligned byte ranges for as many workers, and the    *)
(* stitching of what they parsed; and what the quality report makes of the *)
(* result (quality.rs).                                                    *)
(*                                                                         *)
(* A file is [header, lines]: the lines and bytes up to the session        *)
(* envelope, and the body's lines.  A line has its envelope tag ("none"    *)
(* where it is not at the start), what a parser makes of it, its bytes and *)
(* its payload; "binary" is text that is not UTF-8.  Absolute frames are   *)
(* summed like drops and left out.                                         *)
(***************************************************************************)
LOCAL INSTANCE Integers
LOCAL INSTANCE Sequences
LOCAL INSTANCE FiniteSets
LOCAL INSTANCE SequencesExt

NoGame == <<>>
NoGames == [n \in {} |-> 0]
MaxOf(S) == CHOOSE x \in S : \A y \in S : y <= x
MinOf(S) == CHOOSE x \in S : \A y \in S : x <= y

\* classify: the tag decides, and only a line without one goes through the
\* general parser.
Classify(l) ==
    CASE l.tag = "blank" -> "blank"
      [] l.tag \in {"batch", "marker"} -> IF l.is = l.tag THEN l.tag ELSE "bad"
      [] l.tag \in {"session", "heartbeat"} -> "ignored"
      [] l.tag = "none" -> CASE l.is \in {"batch", "marker"} -> l.is
                             [] l.is \in {"session", "heartbeat"} -> "ignored"
                             [] OTHER -> "bad"
      [] OTHER -> "binary"

-----------------------------------------------------------------------------
(* BadLines; 0 stands for None.                                            *)

NoBadLines == [count |-> 0, first_line |-> 0, last_line |-> 0,
               first_error |-> "none", tail_only |-> TRUE]

RecordBad(bad, n, error) ==
    [bad EXCEPT !.count = @ + 1,
                !.first_line = IF @ = 0 THEN n ELSE @,
                !.last_line = n,
                !.first_error = IF @ = "none" THEN error ELSE @]

Seal(bad, last_good) ==
    [bad EXCEPT !.tail_only = bad.first_line = 0 \/ bad.first_line > last_good]

-----------------------------------------------------------------------------
(* One stretch of lines.  A game is [name, owner]: the name in lower case  *)
(* and the stretch whose interner made the copy.                           *)

EmptyBody == [events |-> <<>>, markers |-> <<>>, batches |-> <<>>, drops |-> 0,
              lines |-> 0, last_good |-> 0, bad |-> NoBadLines, readable |-> TRUE]

Intern(game, owner) ==
    IF game = NoGame THEN NoGame ELSE <<[name |-> game[1].lower, owner |-> owner]>>

PushBatch(body, l, owner) ==
    [body EXCEPT !.drops = @ + l.drops,
                 !.events = @ \o l.events,
                 !.batches = Append(@, [game |-> Intern(l.game, owner), drops |-> l.drops,
                                        count |-> Len(l.events), seq_no |-> l.seq_no,
                                        locked |-> l.locked, device |-> l.device])]

\* One turn of parse_body; a read error ends the whole load.
ParseLine(body, l, owner) ==
    LET n == body.lines + 1
        read == [body EXCEPT !.lines = n]
        good == [read EXCEPT !.last_good = n]
    IN  CASE ~body.readable -> body
          [] Classify(l) = "binary" -> [body EXCEPT !.readable = FALSE]
          [] Classify(l) = "blank" -> read
          [] Classify(l) = "batch" -> PushBatch(good, l, owner)
          [] Classify(l) = "marker" -> [good EXCEPT !.markers = Append(@, l.mark)]
          [] Classify(l) = "ignored" -> good
          [] Classify(l) = "bad" -> [read EXCEPT !.bad = RecordBad(@, n, l.error)]

ParseBody(lines, owner) ==
    FoldLeft(LAMBDA body, l : ParseLine(body, l, owner), EmptyBody, lines)

-----------------------------------------------------------------------------
(* Byte ranges.                                                            *)

LineStart(file, i) ==
    file.header.bytes + FoldLeft(LAMBDA n, l : n + l.bytes, 0, SubSeq(file.lines, 1, i - 1))
LineEnd(file, i) == LineStart(file, i) + file.lines[i].bytes
Size(file) == LineStart(file, Len(file.lines) + 1)

\* The offset just past the first newline at or after `from`.
NextLineStart(file, from) ==
    LET ends == {LineEnd(file, i) : i \in 1..Len(file.lines)}
    IN  MinOf({Size(file)} \cup {e \in ends : e > from})

\* Faulty variant: a boundary is where the division puts it.
NextLineStartInPlace(file, from) == from

ChunkBounds(file, workers) ==
    LET start == file.header.bytes
        span == Size(file) - start
        nominal(i) == start + (span * i) \div workers
        bound[i \in 0..workers] ==
            IF i = 0 THEN start
            ELSE IF i = workers THEN Size(file)
            ELSE MaxOf({NextLineStart(file, nominal(i)), bound[i - 1]})
    IN  bound

\* What a worker reads of a line between two offsets: all of it, nothing, or
\* a piece that no longer parses.
Piece(file, i, from, to) ==
    LET a == LineStart(file, i)
        b == LineEnd(file, i)
    IN  IF from <= a /\ b <= to THEN <<file.lines[i]>>
        ELSE IF b <= from \/ to <= a THEN <<>>
        ELSE <<[file.lines[i] EXCEPT !.tag = "none", !.is = "nothing"]>>

ParseRange(file, from, to, owner) ==
    ParseBody(FlattenSeq([i \in 1..Len(file.lines) |-> Piece(file, i, from, to)]), owner)

LoadWorkers(size, cpus, min_parallel, min_chunk, max_workers) ==
    IF size < min_parallel THEN 1
    ELSE MinOf({cpus, MaxOf({size \div min_chunk, 1}), max_workers})

-----------------------------------------------------------------------------
(* Stitching.                                                              *)

\* The copy of a name that every batch of the file is given: the first
\* stretch's that has one.
Canonical(bodies, name) ==
    LET owners == {k \in DOMAIN bodies : \E j \in DOMAIN bodies[k].batches :
                      \E g \in ToSet(bodies[k].batches[j].game) : g.name = name}
    IN  [name |-> name, owner |-> MinOf(owners)]

\* Faulty variant: the line numbers of a chunk are taken for the file's.
BaseOfFirst(base, body) == base
NextBase(base, body) == base + body.lines

\* One turn of assemble's loop.
Stitch(acc, body, bodies) ==
    LET base == acc.base
        bad == acc.bad_lines
    IN  [events |-> acc.events \o body.events,
         markers |-> acc.markers \o body.markers,
         batches |-> acc.batches \o [j \in DOMAIN body.batches |->
             [body.batches[j] EXCEPT !.game =
                 IF @ = <<>> THEN @ ELSE <<Canonical(bodies, @[1].name)>>]],
         drops |-> acc.drops + body.drops,
         last_good |-> IF body.last_good > 0 THEN base + body.last_good ELSE acc.last_good,
         bad_lines |-> [bad EXCEPT
             !.count = @ + body.bad.count,
             !.first_line = IF @ = 0 /\ body.bad.first_line > 0
                            THEN base + body.bad.first_line ELSE @,
             !.last_line = IF body.bad.last_line > 0 THEN base + body.bad.last_line ELSE @,
             !.first_error = IF @ = "none" THEN body.bad.first_error ELSE @],
         base |-> NextBase(base, body)]

Assemble(header, bodies) ==
    LET empty == [events |-> <<>>, markers |-> <<>>, batches |-> <<>>, drops |-> 0,
                  last_good |-> header.lines, bad_lines |-> NoBadLines, base |-> header.lines]
        all == FoldLeft(LAMBDA acc, body : Stitch(acc, body, bodies), empty, bodies)
    IN  [ok |-> TRUE, events |-> all.events, markers |-> all.markers,
         batches |-> all.batches, drops |-> all.drops,
         bad_lines |-> Seal(all.bad_lines, all.last_good)]

Failed == [ok |-> FALSE]

LoadSequential(file) ==
    LET body == ParseBody(file.lines, 1)
    IN  IF body.readable THEN Assemble(file.header, <<body>>) ELSE Failed

LoadParallel(file, workers) ==
    LET bound == ChunkBounds(file, workers)
        bodies == [i \in 1..workers |-> ParseRange(file, bound[i - 1], bound[i], i)]
    IN  IF \A i \in DOMAIN bodies : bodies[i].readable THEN Assemble(file.header, bodies)
        ELSE Failed

\* The smallest file that is read in parallel and the smallest chunk, in the
\* bytes of the instance.
PARALLEL_MIN_BYTES == 4
MIN_CHUNK_BYTES == 2
MAX_LOAD_WORKERS == 8
LoadSession(file, cpus) ==
    LET workers == LoadWorkers(Size(file), cpus, PARALLEL_MIN_BYTES, MIN_CHUNK_BYTES, MAX_LOAD_WORKERS)
    IN  IF workers <= 1 THEN LoadSequential(file) ELSE LoadParallel(file, workers)

-----------------------------------------------------------------------------
(* The games of a recording, and the listing's scan.                       *)

\* Events per name.
GameCounts(batches) ==
    LET names == {g.name : g \in UNION {ToSet(batches[i].game) : i \in DOMAIN batches}}
    IN  [n \in names |-> FoldLeft(LAMBDA s, b : IF b.game # <<>> /\ b.game[1].name = n
                                               THEN s + b.count ELSE s, 0, batches)]

\* Most events first, ties by name.
Ahead(counts, m, n) == counts[m] > counts[n] \/ (counts[m] = counts[n] /\ m < n)

DominantGame(counts) ==
    IF \A n \in DOMAIN counts : counts[n] = 0 THEN 0
    ELSE CHOOSE n \in DOMAIN counts : \A m \in DOMAIN counts \ {n} : Ahead(counts, n, m)

\* One turn of scan_session's loop.
ScanLine(acc, l) ==
    LET n == acc.line + 1
        read == [acc EXCEPT !.line = n]
        good == [read EXCEPT !.last_good = n]
        name == l.game[1].lower
    IN  CASE ~acc.readable -> acc
          [] Classify(l) = "binary" -> [acc EXCEPT !.readable = FALSE]
          [] Classify(l) = "blank" -> read
          [] Classify(l) = "bad" -> [read EXCEPT !.bad = RecordBad(@, n, l.error)]
          [] Classify(l) \in {"marker", "ignored"} -> good
          [] Classify(l) = "batch" ->
               [good EXCEPT
                 !.drops = @ + l.drops,
                 !.events = @ + Len(l.events),
                 !.games = IF l.game = NoGame THEN @
                           ELSE [m \in DOMAIN @ \cup {name} |->
                                   (IF m \in DOMAIN @ THEN @[m] ELSE 0)
                                   + (IF m = name THEN Len(l.events) ELSE 0)],
                 !.span = IF l.events = <<>> THEN @
                          ELSE <<IF @ = <<>> THEN l.events[1] ELSE @[1], Last(l.events)>>]

ScanSession(file) ==
    LET start == [line |-> file.header.lines, last_good |-> file.header.lines, drops |-> 0,
                  events |-> 0, games |-> NoGames, span |-> <<>>, bad |-> NoBadLines,
                  readable |-> TRUE]
        all == FoldLeft(ScanLine, start, file.lines)
    IN  IF ~all.readable THEN Failed
        ELSE [ok |-> TRUE, events |-> all.events, drops |-> all.drops,
              span |-> all.span, bad_lines |-> Seal(all.bad, all.last_good),
              games |-> SetToSortSeq(DOMAIN all.games, LAMBDA m, n : Ahead(all.games, m, n))]

-----------------------------------------------------------------------------
(* The quality report.  Stamps are in half buckets of the polling          *)
(* histogram, and the thresholds are those of the instance; shares are     *)
(* compared as products.  A sidecar is [exit, events].                     *)

POLL_BUCKET == 2
POLL_MAX == 32
POLL_MIN_MINUTE_SAMPLES == 2
MINUTE == 40
INTERVAL_EDGES == <<4, 16, 24>>
SPAN_CAP == 90

Interval(us, i) == us[i + 1] - us[i]
Pairs(us) == 1..(Len(us) - 1)
Backwards(us) == {i \in Pairs(us) : Interval(us, i) < 0}

\* histogram: buckets are (lo, hi], the last one open.
BucketOf(d) == 1 + Cardinality({k \in DOMAIN INTERVAL_EDGES : INTERVAL_EDGES[k] < d})
Histogram(us) ==
    [b \in 1..(Len(INTERVAL_EDGES) + 1) |->
        Cardinality({i \in Pairs(us) \ Backwards(us) : BucketOf(Interval(us, i)) = b})]

\* What polling_stats counts, and PollHist's fullest bucket: ties go to the
\* shorter interval.  A rate is [n, sum]: the bucket's intervals and their sum.
Polled(us) == {i \in Pairs(us) : Interval(us, i) \in 1..POLL_MAX}
PollBucket(us, i) == Interval(us, i) \div POLL_BUCKET
Fullest(us, I) ==
    LET held(b) == {i \in I : PollBucket(us, i) = b}
        buckets == {PollBucket(us, i) : i \in I}
        size(b) == Cardinality(held(b))
        b == CHOOSE b \in buckets : \A c \in buckets : size(b) > size(c) \/ (size(b) = size(c) /\ b <= c)
    IN  [n |-> size(b), sum |-> FoldLeft(+, 0, [k \in 1..size(b) |->
                                   Interval(us, SetToSeq(held(b))[k])])]

Slower(r, t) == r.n * t.sum <= t.n * r.sum
\* Faulty variant: only what is slower than the mode is near it.
NearBelow(d, rate) == 10 * rate.sum <= 10 * d * rate.n /\ 10 * d * rate.n <= 11 * rate.sum
Near(d, rate) == 9 * rate.sum <= 10 * d * rate.n /\ 10 * d * rate.n <= 11 * rate.sum

\* The minutes that carried enough movement to have a rate of their own.
Minutes(us) == {us[i] \div MINUTE : i \in Polled(us)}
InMinute(us, m) == {i \in Polled(us) : us[i] \div MINUTE = m}
Rates(us) ==
    {Fullest(us, InMinute(us, m)) :
        m \in {m \in Minutes(us) : Cardinality(InMinute(us, m)) >= POLL_MIN_MINUTE_SAMPLES}}

PollingStats(us) ==
    IF Polled(us) = {} THEN [hz |-> <<>>, within |-> 0, hz_min |-> <<>>, hz_max |-> <<>>, samples |-> 0]
    ELSE LET mode == Fullest(us, Polled(us))
             least(lt(_, _)) == IF Rates(us) = {} THEN <<>>
                                ELSE <<CHOOSE r \in Rates(us) : \A t \in Rates(us) : lt(r, t)>>
         IN  [hz |-> <<mode>>,
              within |-> Cardinality({i \in Polled(us) : Near(Interval(us, i), mode)}),
              hz_min |-> least(Slower), hz_max |-> least(LAMBDA r, t : Slower(t, r)),
              samples |-> Cardinality(Polled(us))]

\* seq_no is monotonic per session; a jump means batches never landed.
Missing(batches, i) ==
    LET step == batches[i + 1].seq_no - batches[i].seq_no IN IF step > 1 THEN step - 1 ELSE 0
Jumps(batches) == {i \in 1..(Len(batches) - 1) : Missing(batches, i) > 0}
\* Faulty variant: each place where the sequence jumped counts for one.
LostPlaces(batches) == Cardinality(Jumps(batches))
LostBatches(batches) ==
    FoldLeft(+, 0, [i \in 1..(Len(batches) - 1) |-> Missing(batches, i)])

\* The events that some of the batches brought.
EventsOf(batches, js) == FoldLeft(+, 0, [j \in DOMAIN batches |-> IF j \in js THEN batches[j].count ELSE 0])

\* What compute_with_warnings puts down before it asks for the warnings;
\* profiles are the games the session has a sensitivity for.
Measured(load, profiles, sidecar) ==
    LET us == load.events
        counts == GameCounts(load.batches)
        game == DominantGame(counts)
        analysed == SelectSeq(us, LAMBDA u : u < SPAN_CAP)
    IN  [event_count |-> Len(us), events_analyzed |-> Len(analysed), batch_count |-> Len(load.batches),
         ring_drops |-> load.drops,
         batches_with_drops |-> Cardinality({j \in DOMAIN load.batches : load.batches[j].drops > 0}),
         lost_batches |-> LostBatches(load.batches), seq_gaps |-> Cardinality(Jumps(load.batches)),
         violations |-> Cardinality(Backwards(us)), bad_lines |-> load.bad_lines,
         histogram |-> Histogram(us), polling |-> PollingStats(analysed),
         game |-> game, owned |-> IF game = 0 THEN 0 ELSE counts[game],
         attributed |-> EventsOf(load.batches, {j \in DOMAIN load.batches : load.batches[j].game # NoGame}),
         locked |-> EventsOf(load.batches, {j \in DOMAIN load.batches : load.batches[j].locked}),
         devices |-> {b.device : b \in {c \in ToSet(load.batches) : c.count > 0}},
         aim_profile_missing |-> game \notin profiles,
         grid_truncated |-> analysed # us, sidecar |-> sidecar]

SidecarWarnings(s, event_count) ==
    {w \in {"unfinished", "events"} :
        \/ w = "unfinished" /\ s.exit = "running"
        \/ w = "events" /\ s.events > 0 /\ s.events # event_count}

Warnings(q) ==
    LET holds ==
          [ring_drops |-> q.ring_drops > 0, lost |-> q.lost_batches > 0, order |-> q.violations > 0,
           lines |-> q.bad_lines.count > 0, games |-> q.game # 0 /\ 10 * q.owned < 8 * q.attributed,
           unlocked |-> 10 * q.locked < 9 * q.event_count, devices |-> Cardinality(q.devices) > 1,
           profile |-> q.aim_profile_missing /\ q.event_count > 0, truncated |-> q.grid_truncated]
    IN  {w \in DOMAIN holds : holds[w]}
        \cup UNION {SidecarWarnings(s, q.event_count) : s \in ToSet(q.sidecar)}

Verdict(q) == [quality |-> q, warnings |-> Warnings(q), clean |-> Warnings(q) = {}]
Compute(load, profiles, sidecar) == Verdict(Measured(load, profiles, sidecar))

\* Faulty variant: the verdict stays the one that was cached.
KeepVerdict(report, meta) == [report EXCEPT !.quality.sidecar = meta]
\* What a cache hit does with the sidecar that lies beside the recording now.
SetSidecar(report, meta) == Verdict([report.quality EXCEPT !.sidecar = meta])

-----------------------------------------------------------------------------
(* Properties of one file.                                                 *)

\* However many workers read a file, the recording is the same, down to the
\* identity of the names; only which stretch made a name's copy differs.
Unowned(load) == [load EXCEPT !.batches = [j \in DOMAIN @ |-> [@[j] EXCEPT !.game =
                     IF @ = <<>> THEN @ ELSE <<@[1].name>>]]]
OneCopyPerName(load) ==
    \A i, j \in DOMAIN load.batches :
        LET a == load.batches[i].game  b == load.batches[j].game
        IN  a # <<>> /\ b # <<>> /\ a[1].name = b[1].name => a = b

LoadersAgree(file, cpus) ==
    LET one == LoadSequential(file)
        many == LoadSession(file, cpus)
    IN  one.ok = many.ok /\ (one.ok => Unowned(one) = Unowned(many) /\ OneCopyPerName(many))

\* What is bad is told as a text editor would count it, and a damaged tail is
\* told from a damaged middle.
BadAt(file) == {i \in DOMAIN file.lines : Classify(file.lines[i]) = "bad"}
GoodAt(file) == {i \in DOMAIN file.lines :
                    Classify(file.lines[i]) \in {"batch", "marker", "ignored"}}
DamageIsTold(file) ==
    LET bad == LoadSequential(file).bad_lines
    IN  /\ bad.count = Cardinality(BadAt(file))
        /\ BadAt(file) # {} =>
             /\ bad.first_line = file.header.lines + MinOf(BadAt(file))
             /\ bad.last_line = file.header.lines + MaxOf(BadAt(file))
             /\ bad.first_error = file.lines[MinOf(BadAt(file))].error
        /\ bad.tail_only <=> \A g \in GoodAt(file), b \in BadAt(file) : g < b

\* The listing shows what the report will read.
ListingAgrees(file) ==
    LET load == LoadSequential(file)
        scan == ScanSession(file)
        counts == GameCounts(load.batches)
    IN  /\ scan.ok = load.ok
        /\ scan.ok =>
             /\ scan.events = Len(load.events) /\ scan.drops = load.drops
             /\ scan.bad_lines = load.bad_lines
             /\ scan.span = IF load.events = <<>> THEN <<>>
                            ELSE <<load.events[1], Last(load.events)>>
             /\ ToSet(scan.games) = DOMAIN counts
             /\ DominantGame(counts) # 0 => scan.games[1] = DominantGame(counts)

-----------------------------------------------------------------------------
(* Properties of a report.  A run sent the lines `sent`; the file holds     *)
(* those of `kept`, and a torn line after them where `torn` is not empty.  *)

Recorded(sent, kept, torn) ==
    [header |-> [lines |-> 1, bytes |-> 2],
     lines |-> [i \in 1..Cardinality(kept) |-> sent[SetToSortSeq(kept, <)[i]]] \o torn]
SentEvents(sent) == FoldLeft(LAMBDA n, l : n + Len(l.events), 0, sent)

\* What never reached the file is told: batches missing between two others
\* are counted, a recording with a final sidecar is clean only if it is all
\* that was captured, and none is blamed for a loss that did not happen.
LossIsTold(sent, kept, torn, profiles) ==
    LET load == LoadSequential(Recorded(sent, kept, torn))
        final == Compute(load, profiles, <<[exit |-> "interrupt", events |-> SentEvents(sent)]>>)
        going == Compute(load, profiles, <<[exit |-> "running", events |-> 0]>>)
        inside == {i \in DOMAIN sent \ kept : \E a, b \in kept : a < i /\ i < b}
        whole == kept = DOMAIN sent /\ torn = <<>> /\ \A l \in ToSet(sent) : l.drops = 0
        blame == {"ring_drops", "lost", "order", "lines", "unfinished", "events"}
    IN  /\ final.quality.lost_batches = Cardinality(inside)
        /\ final.quality.seq_gaps = Cardinality({i \in inside : i + 1 \in kept})
        /\ final.clean => whole
        /\ whole <=> final.warnings \cap blame = {}
        /\ ~going.clean

\* A cached report that is shown with today's sidecar is the report that
\* would be computed today.
RefreshIsFresh(sent, kept, torn, profiles) ==
    LET load == LoadSequential(Recorded(sent, kept, torn))
        final == <<[exit |-> "interrupt", events |-> SentEvents(sent)]>>
        fresh == [s \in {<<>>, <<[exit |-> "running", events |-> 0]>>, final} |-> Compute(load, profiles, s)]
    IN  \A was, is \in DOMAIN fresh : SetSidecar(fresh[was], is) = fresh[is]

\* Every interval is in one bucket, every polled one in one minute; the
\* slowest minute is not the fastest; and where a bucket is narrower than the
\* tolerance, the mouse is as stable as its fullest bucket is full.
IntervalsAdd(us) ==
    LET p == PollingStats(us)
        total == FoldLeft(+, 0, Histogram(us))
    IN  /\ total + Cardinality(Backwards(us)) = MaxOf({Len(us) - 1, 0})
        /\ p.samples = FoldLeft(LAMBDA n, m : n + Cardinality(InMinute(us, m)), 0, SetToSeq(Minutes(us)))
        /\ p.within <= p.samples
        /\ p.hz_min # <<>> => Slower(p.hz_min[1], p.hz_max[1])
        /\ \A r \in ToSet(p.hz) : r.sum >= 10 * POLL_BUCKET * r.n => p.within >= r.n
=============================================================================
