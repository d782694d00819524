----------------------------- MODULE FeedStats -----------------------------
(***************************************************************************)
(* The visualizer bridge's own numbers: the UDP task records every datagram *)
(* in relaxed atomics while, on the runtime's other worker thread, the      *)
(* reporter reads them once a second, closes the latency and gap windows    *)
(* every LogEvery pushes, watches the feed for a stall and decides whether  *)
(* the interval deserves a log line.                                        *)
(*                                                                          *)
(* Neither side takes a lock for a whole datagram or a whole report, so     *)
(* every atomic operation is a step of its own, in source order.  Bytes and *)
(* sequence gaps are counters read like `forwarded` and are left out; so    *)
(* are the queue's depth and the client slots (VizHub has both).            *)
(***************************************************************************)
EXTENDS Integers, Sequences, FiniteSetsExt, SequencesExt, Functions

CONSTANTS
  Width, Buckets,   \* a bucket's width in time units, and how many there are
  Latencies,        \* the latencies a batch can show; negative is clock skew
  StallAfter,       \* a feed silent for longer than this is stalled
  LogEvery,         \* pushes per log window
  HeartbeatEvery,   \* idle windows at most between two log lines, plus one
  MaxTime, MaxDatagrams

\* What the constants of the code satisfy.
StatsAssumption ==
  /\ {Width, Buckets, LogEvery, HeartbeatEvery} \subseteq Nat \ {0}
  /\ StallAfter \in Nat /\ Latencies \subseteq Int

VARIABLES
  count,     \* Stats: datagrams, parse_errors, forwarded
  latency,   \* HistWindow: the histogram, the baseline, the window's maximum
  gaps,      \* the same of the time between datagrams
  sum, negative,        \* win_sum_us, win_negative
  last_latency,         \* the last completed latency window that had samples
  last_datagram, udp_bound, clients, now,
  todo, datagram,       \* the UDP task: what is left of publish, and of what
  rep,                  \* the reporter's locals and program counter
  recorded, closed, lines   \* history: observations, windows, log decisions

stats == <<count, latency, gaps, sum, negative, last_latency,
           last_datagram, udp_bound, clients>>
task == <<todo, datagram>>
history == <<recorded, closed, lines>>
vars == <<stats, now, task, rep, history>>

None == -1
NoNumbers == [datagrams |-> 0, parse_errors |-> 0, forwarded |-> 0]
Positive(n) == IF n > 0 THEN n ELSE 0
Saturating(a, b) == Positive(a - b)

-----------------------------------------------------------------------------
(* The histogram: LatencyHist and its snapshots. *)

Slots == 0 .. Buckets - 1
EmptyHist == [i \in Slots |-> 0]
BucketOf(us) ==
  LET i == Positive(us) \div Width IN IF i < Buckets THEN i ELSE Buckets - 1
Total(h) == SumFunction(h)
Delta(cur, prev) == [i \in Slots |-> Saturating(cur[i], prev[i])]

\* The bucket's upper edge, or the overflow bucket's lower one.
AtBucket(i) == IF i = Buckets - 1 THEN i * Width ELSE (i + 1) * Width

\* The `per`-th hundredth of a window, 0 when it is empty.
PercentileUs(h, per) ==
  LET Seen(i) == SumFunctionOnSet(h, 0 .. i)
      product == Total(h) * per
      ceiling == (product + 99) \div 100
      rank == IF ceiling > 1 THEN ceiling ELSE 1
      reached == {i \in Slots : Seen(i) >= rank}
  IN IF Total(h) = 0 THEN 0 ELSE AtBucket(Min(reached))

EmptyWindow == [hist |-> EmptyHist, prev |-> EmptyHist, max_us |-> 0]
NoLatency == [samples |-> 0, p50 |-> 0, p99 |-> 0, max |-> 0, sum |-> 0, negative |-> 0]

Summary(h, max, total, below) ==
  [samples |-> Total(h),
   p50 |-> Min({PercentileUs(h, 50), max}), p99 |-> Min({PercentileUs(h, 99), max}),
   max |-> max, sum |-> total, negative |-> below]

\* latency_snapshot: the last completed window, else the one in progress.
LatencySnapshot ==
  IF last_latency.samples > 0 THEN last_latency
  ELSE Summary(Delta(latency.hist, latency.prev), latency.max_us, sum, negative)

-----------------------------------------------------------------------------
(* The UDP task. *)

Init ==
  /\ count = NoNumbers /\ latency = EmptyWindow /\ gaps = EmptyWindow
  /\ sum = 0 /\ negative = 0 /\ last_latency = NoLatency
  /\ last_datagram = None /\ udp_bound = FALSE /\ clients \in {0, 1} /\ now = 0
  /\ todo = {} /\ datagram = [kind |-> "none", latency |-> 0, at |-> 0, gap |-> None]
  /\ rep = [pc |-> "tick", woken |-> 0, cur |-> NoNumbers, window |-> NoNumbers,
            pushes |-> 0, quiet |-> 0, feed |-> "never",
            snap |-> EmptyHist, slot |-> 0, hist |-> EmptyHist, max |-> 0, sum |-> 0, negative |-> 0]
  /\ recorded = <<>> /\ closed = <<>> /\ lines = <<>>

Bind == ~udp_bound /\ udp_bound' = TRUE
        /\ UNCHANGED <<count, latency, gaps, sum, negative, last_latency,
                       last_datagram, clients, now, task, rep, history>>

\* publish_at reads the clock and counts the datagram.
Receive(kind, us) ==
  /\ udp_bound /\ todo = {} /\ count.datagrams < MaxDatagrams
  /\ count' = [count EXCEPT !.datagrams = @ + 1]
  /\ datagram' = [kind |-> kind, latency |-> us, at |-> now, gap |-> None]
  /\ todo' = {"clock"}
  /\ UNCHANGED <<latency, gaps, sum, negative, last_latency, last_datagram,
                 udp_bound, clients, now, rep, history>>

\* What publish_at still does once the feed clock has moved and the gap is
\* known, and the place of each operation in the source.
RestOf(d, gap) ==
  IF d.kind = "bad" THEN {"parse_error"}
  ELSE (IF gap # None /\ d.kind # "heartbeat" THEN {"gap_max", "gap_count"} ELSE {})
       \cup (IF d.kind = "batch" THEN {"latency_max", "latency_count", "sum"} ELSE {})
       \cup (IF d.kind = "batch" /\ d.latency < 0 THEN {"negative"} ELSE {})
       \cup {"forwarded"}
Place == [clock |-> 0, parse_error |-> 1, gap_max |-> 2, gap_count |-> 3, latency_max |-> 4,
          latency_count |-> 5, negative |-> 6, sum |-> 7, forwarded |-> 8]

Raise(w, us) == [w EXCEPT !.max_us = Max({@, Positive(us)})]
Record(w, us) == [w EXCEPT !.hist[BucketOf(us)] = @ + 1]

\* note_datagram's swap; the gap is with the previous datagram of any kind.
MoveFeedClock ==
  LET gap == IF last_datagram = None THEN None ELSE datagram.at - last_datagram
  IN /\ "clock" \in todo
     /\ last_datagram' = datagram.at
     /\ datagram' = [datagram EXCEPT !.gap = gap]
     /\ todo' = RestOf(datagram, gap)
     /\ UNCHANGED <<count, latency, gaps, sum, negative, last_latency,
                    udp_bound, clients, now, rep, history>>

\* One relaxed atomic operation of record_gap, record_latency and the rest.
Publish ==
  \E op \in todo \ {"clock"} :
    /\ \A other \in todo : Place[op] <= Place[other]
    /\ todo' = todo \ {op}
    /\ gaps' = IF op = "gap_max" THEN Raise(gaps, datagram.gap)
               ELSE IF op = "gap_count" THEN Record(gaps, datagram.gap) ELSE gaps
    /\ latency' = IF op = "latency_max" THEN Raise(latency, datagram.latency)
                  ELSE IF op = "latency_count" THEN Record(latency, datagram.latency) ELSE latency
    /\ negative' = negative + (IF op = "negative" THEN 1 ELSE 0)
    /\ sum' = sum + (IF op = "sum" THEN Positive(datagram.latency) ELSE 0)
    /\ count' = [count EXCEPT
                   !.parse_errors = @ + (IF op = "parse_error" THEN 1 ELSE 0),
                   !.forwarded = @ + (IF op = "forwarded" THEN 1 ELSE 0)]
    /\ recorded' = IF op = "latency_count" THEN Append(recorded, datagram.latency) ELSE recorded
    /\ UNCHANGED <<last_latency, last_datagram, udp_bound, clients, now, datagram, rep, closed, lines>>

UdpTask ==
  \/ Bind
  \/ \E kind \in {"heartbeat", "bad"} : Receive(kind, 0)
  \/ \E us \in Latencies : Receive("batch", us)
  \/ MoveFeedClock \/ Publish

-----------------------------------------------------------------------------
(* The reporter. *)

Step(pc) == rep' = [rep EXCEPT !.pc = pc]
Quietly == UNCHANGED <<now, task, udp_bound, last_datagram, clients>>

\* A missed tick is skipped, not caught up on.
Tick ==
  /\ rep.pc = "tick" /\ now > rep.woken
  /\ rep' = [rep EXCEPT !.pc = "datagrams", !.woken = now]
  /\ Quietly /\ UNCHANGED <<count, latency, gaps, sum, negative, last_latency, history>>

\* Stats::snapshot, one load at a time.
Load(field, next) ==
  /\ rep.pc = field
  /\ rep' = [rep EXCEPT !.pc = next, !.cur[field] = count[field]]
  /\ Quietly /\ UNCHANGED <<count, latency, gaps, sum, negative, last_latency, history>>

\* The frame goes to the page every second, the log waits for its turn.
Push ==
  /\ rep.pc = "push"
  /\ rep' = IF rep.pushes + 1 < LogEvery
            THEN [rep EXCEPT !.pc = "tick", !.pushes = @ + 1]
            ELSE [rep EXCEPT !.pc = "snapshot", !.pushes = 0, !.slot = 0]
  /\ Quietly /\ UNCHANGED <<count, latency, gaps, sum, negative, last_latency, history>>

\* LatencyHist::snapshot walks the buckets one load at a time.
ReadBucket ==
  /\ rep.pc = "snapshot"
  /\ rep' = [rep EXCEPT !.snap[rep.slot] = latency.hist[rep.slot], !.slot = @ + 1,
                        !.pc = IF rep.slot = Buckets - 1 THEN "close" ELSE "snapshot"]
  /\ Quietly /\ UNCHANGED <<count, latency, gaps, sum, negative, last_latency, history>>

\* Faulty variant: the baseline read afresh once the delta has been taken.
CloseAtFresh ==
  /\ rep.pc = "close"
  /\ rep' = [rep EXCEPT !.pc = "max", !.hist = Delta(rep.snap, latency.prev)]
  /\ latency' = [latency EXCEPT !.prev = latency.hist]
  /\ Quietly /\ UNCHANGED <<count, gaps, sum, negative, last_latency, history>>

\* Under prev's lock: the delta is the window, what was read is the baseline.
CloseWindow ==
  /\ rep.pc = "close"
  /\ rep' = [rep EXCEPT !.pc = "max", !.hist = Delta(rep.snap, latency.prev)]
  /\ latency' = [latency EXCEPT !.prev = rep.snap]
  /\ Quietly /\ UNCHANGED <<count, gaps, sum, negative, last_latency, history>>

\* take_or_read, closing: each exact counter is swapped for zero.
TakeMax ==
  /\ rep.pc = "max"
  /\ rep' = [rep EXCEPT !.pc = "sum", !.max = latency.max_us]
  /\ latency' = [latency EXCEPT !.max_us = 0]
  /\ Quietly /\ UNCHANGED <<count, gaps, sum, negative, last_latency, history>>

TakeSum ==
  /\ rep.pc = "sum"
  /\ rep' = [rep EXCEPT !.pc = "negative", !.sum = sum]
  /\ sum' = 0
  /\ Quietly /\ UNCHANGED <<count, latency, gaps, negative, last_latency, history>>

\* The window is complete: an empty one leaves the reported one alone.
Rolled(window) == IF window.samples > 0 THEN window ELSE last_latency
TakeNegative ==
  /\ rep.pc = "negative"
  /\ LET window == Summary(rep.hist, rep.max, rep.sum, negative)
     IN /\ last_latency' = Rolled(window)
        /\ closed' = Append(closed, window)
  /\ negative' = 0
  /\ Step("gaps")
  /\ Quietly /\ UNCHANGED <<count, latency, gaps, sum, recorded, lines>>

\* roll_gaps: no exact counter beside the histogram but the maximum.
RollGaps ==
  /\ rep.pc = "gaps"
  /\ gaps' = [gaps EXCEPT !.prev = gaps.hist, !.max_us = 0]
  /\ Step("feed")
  /\ Quietly /\ UNCHANGED <<count, latency, sum, negative, last_latency, history>>

FeedState ==
  IF ~udp_bound \/ last_datagram = None THEN "never"
  ELSE IF Positive(now - last_datagram) > StallAfter THEN "stalled" ELSE "live"

Since(cur, prev) ==
  [datagrams |-> Saturating(cur.datagrams, prev.datagrams),
   parse_errors |-> Saturating(cur.parse_errors, prev.parse_errors),
   forwarded |-> Saturating(cur.forwarded, prev.forwarded)]
IsIdle(delta) == delta.datagrams = 0 /\ delta.parse_errors = 0 /\ clients = 0

\* The transition is said at once; the line itself may be kept back while
\* nothing moves and nobody watches, but not for ever.
Report ==
  /\ rep.pc = "feed"
  /\ LET feed == FeedState
         delta == Since(rep.cur, rep.window)
         kept == IsIdle(delta) /\ rep.quiet + 1 < HeartbeatEvery
     IN /\ lines' = Append(lines, [delta |-> delta, said |-> ~kept, feed |-> feed,
                                   told |-> feed # rep.feed])
        /\ rep' = [rep EXCEPT !.pc = "tick", !.window = rep.cur, !.feed = feed,
                              !.quiet = IF kept THEN @ + 1 ELSE 0]
  /\ Quietly
  /\ UNCHANGED <<count, latency, gaps, sum, negative, last_latency, recorded, closed>>

Reporter ==
  \/ Tick
  \/ Load("datagrams", "parse_errors") \/ Load("parse_errors", "forwarded")
  \/ Load("forwarded", "push")
  \/ Push \/ ReadBucket \/ CloseWindow \/ TakeMax \/ TakeSum \/ TakeNegative
  \/ RollGaps \/ Report

Second == now < MaxTime /\ now' = now + 1 /\ UNCHANGED <<stats, task, rep, history>>

Next == UdpTask \/ Reporter \/ Second

Spec == Init /\ [][Next]_vars

-----------------------------------------------------------------------------
Sum(field) == SumFunction([k \in DOMAIN closed |-> closed[k][field]])

\* stats.rs: closing a window moves the baseline to what was read and swaps the
\* exact counters, so however a record interleaves with a roll no observation
\* is lost or reported twice: the closed windows and the open one hold them all.
WindowsAddUp ==
  /\ Sum("samples")
       + Total(IF rep.pc \in {"max", "sum", "negative"} THEN rep.hist ELSE EmptyHist)
       + Total(Delta(latency.hist, latency.prev)) = Len(recorded)
  /\ LET rolling == rep.pc = "negative"
         counted == Sum("sum") + (IF rolling THEN rep.sum ELSE 0) + sum
         pending == IF "sum" \in todo /\ "latency_count" \notin todo
                    THEN Positive(datagram.latency) ELSE 0
     IN counted + pending = SumFunction([k \in DOMAIN recorded |-> Positive(recorded[k])])

\* roll_latency / latency_snapshot: the page's number is the last completed
\* window that measured anything, so a roll over an idle interval never blanks
\* it, and no percentile is above the window's maximum.
ReadoutIsStable ==
  /\ \A k \in DOMAIN closed :
       closed[k].samples > 0 /\ (\A j \in DOMAIN closed : j > k => closed[j].samples = 0)
         => LatencySnapshot = closed[k]
  /\ \A k \in DOMAIN closed : closed[k].p50 <= closed[k].p99 /\ closed[k].p99 <= closed[k].max

\* main.rs is_idle and HEARTBEAT_EVERY: a line held back hides no datagram and
\* no parse error, and at most HeartbeatEvery - 1 are held back in a row.
LinesTellEverything ==
  /\ \A field \in {"datagrams", "parse_errors"} :
       /\ SumFunction([k \in DOMAIN lines |-> lines[k].delta[field]]) = rep.window[field]
       /\ \A k \in DOMAIN lines : ~lines[k].said => lines[k].delta[field] = 0
  /\ \A k \in 1 .. Len(lines) - HeartbeatEvery + 1 :
       \E j \in k .. k + HeartbeatEvery - 1 : lines[j].said

\* feed_transition: said once per change and never twice for one state; a feed
\* that has been heard is never reported as never heard again.
TransitionsAreTold ==
  /\ \A k \in DOMAIN lines : lines[k].told => lines[k].feed # "never"
  /\ \A i, k \in DOMAIN lines :
       i < k /\ lines[i].told /\ lines[k].told /\ (\A j \in i + 1 .. k - 1 : ~lines[j].told)
         => lines[i].feed # lines[k].feed
  /\ lines # <<>> => rep.feed = Last(lines).feed

FeedIsAccounted ==
  WindowsAddUp /\ ReadoutIsStable /\ LinesTellEverything /\ TransitionsAreTold
=============================================================================
