----------------------------- MODULE CaptureThread -----------------------------
(***************************************************************************)
(* T1's pump: while the mouse is still the thread waits on its message     *)
(* queue; the first report wakes it, reports pile up for the coalescing    *)
(* window, and one drain reads them.  While drains find something it runs  *)
(* on a periodic timer alone and never looks at the queue.  Nobody saw the *)
(* reports of a drain arrive: their stamps are made up, and everything     *)
(* that computes a velocity trusts them.                                   *)
(*                                                                         *)
(* Time is the performance counter's.  A wait ends when it is due; the     *)
(* pump's own steps take no time, and reports and messages come between    *)
(* any two of them.                                                        *)
(***************************************************************************)
EXTENDS Integers, Sequences, SequencesExt, FiniteSetsExt

CONSTANTS Coalesce,                  \* batch.coalesce_ms
          Slack, TimerSlack,         \* CADENCE_SLACK, TIMER_WAIT_SLACK
          MaxGap, BufferReports,     \* STAMPER_MAX_GAP, RAW_BUFFER_REPORTS
          MaxTime, MaxReports, MaxPerTick, MaxMessages, MaxErrors, MaxDelay     \* bounds of the model

\* What the constants of the code satisfy.
CadenceAssumption ==
    /\ {Coalesce, TimerSlack, MaxGap} \subseteq Nat
    /\ Slack \in Nat \ {0} /\ BufferReports \in Nat \ {0}

VARIABLES
    pc, now, timer,       \* timer: what the system grants, "timer", "refuses" or "none"
    fires,                \* when the periodic timer fires next, 0: not set
    due,                  \* when the wait the thread is in ends
    live, wake, prev_now, stamper,
    queue, messages,      \* arrival times of the reports, and what else was posted
    read,                 \* what T2 gets: when a report came, its stamp, who read it
    errors, quit_at,
    delay                 \* how long the thread was kept from running in the pump

vars == <<pc, now, timer, fires, due, live, wake, prev_now, stamper, queue, messages, read, errors, quit_at, delay>>

\* create_coalesce_timer: a high-resolution timer, one that cannot be set, none.
Timers == {"timer", "refuses", "none"}
Cadence == Coalesce + Slack
TimerWait == Cadence + TimerSlack
Clamp(x, lo, hi) == Max({lo, Min({x, hi})})

Init ==
    /\ pc = "wait" /\ now = 1 /\ timer \in Timers
    /\ fires = 0 /\ due = 0 /\ live = FALSE /\ wake = 0 /\ prev_now = 0
    /\ stamper = [step |-> 1, prev_wake |-> 0, prev_n |-> 0]
    /\ queue = <<>> /\ messages = <<>> /\ read = <<>> /\ errors = 0 /\ quit_at = 0 /\ delay = 0

-----------------------------------------------------------------------------
(* DrainStamper.                                                           *)

MaxStep == Max({Coalesce + 1, 1})

\* DrainStamper::stamp: from the observed arrival on, at the estimated
\* interval, never past the drain.
\* Faulty variant: past it.
StampPastNow(i) == wake + stamper.step * i
Stamp(i) == Min({wake + stamper.step * i, Max({now, wake})})

\* DrainStamper::spread: evenly over what passed since the drain before.
Spread(prev, n, i) == prev + ((now - prev) * (i + 1)) \div Max({n, 1})

\* DrainStamper::finish
Refined(n) ==
    LET gap == wake - stamper.prev_wake
        seen == Clamp(gap \div Max({stamper.prev_n, 1}), 1, MaxStep)
        step == IF stamper.prev_n > 0 /\ n > 0 /\ gap > 0 /\ gap <= MaxGap
                THEN Clamp((stamper.step * 3 + seen) \div 4, 1, MaxStep) ELSE stamper.step
    IN  IF n = 0 THEN [stamper EXCEPT !.step = step]
        ELSE [step |-> step, prev_wake |-> wake, prev_n |-> n]

-----------------------------------------------------------------------------
(* The pump.                                                               *)

\* The queue wait returns for anything that is there.
\* Faulty variant: for raw input.
ForInput == queue # <<>>
Woken == queue # <<>> \/ messages # <<>>

\* The timer's first due time is the window, then the cadence.
Wake ==
    /\ pc = "wait" /\ Woken
    /\ pc' = "window" /\ wake' = now
    /\ fires' = IF timer = "timer" /\ Coalesce > 0 THEN now + Coalesce ELSE fires
    /\ due' = now + Coalesce
    /\ UNCHANGED <<now, timer, live, prev_now, stamper, queue, messages, read, errors, quit_at, delay>>

\* A live stream: one cadence, and if the timer that exists was never set
\* the wait for it runs out first.
WaitForTimer ==
    /\ pc = "cadence" /\ pc' = "window"
    /\ due' = IF fires # 0 THEN Max({fires, now})
              ELSE IF timer = "refuses" THEN now + TimerWait + Cadence ELSE now + Cadence
    /\ UNCHANGED <<now, timer, fires, live, wake, prev_now, stamper, queue, messages, read, errors, quit_at, delay>>

\* After the wait the timer fires next a cadence on; what it missed is one.
Fired == IF fires = 0 THEN 0 ELSE fires + Cadence * Max({(now - fires) \div Cadence + 1, 0})

\* drain_buffer, call after call until one is not full.  The spread is over
\* the first call's reports; those of the calls after it are stamped now.
\* Faulty variant: the period starts when the stream did.
SpreadFromWake == wake
SpreadFrom == prev_now
Call(i) == i \div BufferReports
InCall(n, c) == Min({n - c * BufferReports, BufferReports})
StampOf(n, i) ==
    IF ~live THEN Stamp(i)
    ELSE Spread(IF Call(i) = 0 THEN SpreadFrom ELSE now, InCall(n, Call(i)), i % BufferReports)
ReadAll(n) == read \o [k \in 1..n |-> [at |-> queue[k], ts |-> StampOf(n, k - 1), by |-> "drain"]]

NextLive(n) == Coalesce > 0 /\ n > 0

EndDrain(n) ==
    /\ live' = NextLive(n) /\ prev_now' = now /\ pc' = "pump"
    /\ stamper' = IF live THEN stamper ELSE Refined(n)
    /\ fires' = IF live /\ ~NextLive(n) THEN 0 ELSE Fired
    /\ UNCHANGED <<now, timer, due, wake, messages, quit_at, delay>>
Drain ==
    /\ pc = "window" /\ now >= due
    /\ EndDrain(Len(queue)) /\ read' = ReadAll(Len(queue)) /\ queue' = <<>> /\ UNCHANGED errors
\* GetRawInputBuffer refused: counted, and not taken for a still mouse.
ReadFails ==
    /\ pc = "window" /\ now >= due /\ errors < MaxErrors /\ errors' = errors + 1
    /\ EndDrain(0) /\ UNCHANGED <<read, queue>>

\* What is in the queue after the drain, reports included.
HandleInput ==
    /\ pc = "pump" /\ queue # <<>>
    /\ read' = Append(read, [at |-> Head(queue), ts |-> now, by |-> "message"])
    /\ queue' = Tail(queue)
    /\ UNCHANGED <<pc, now, timer, fires, due, live, wake, prev_now, stamper, messages, errors, quit_at, delay>>
Dispatch ==
    /\ pc = "pump" /\ messages # <<>> /\ messages' = Tail(messages)
    /\ pc' = IF Head(messages) = "quit" THEN "done" ELSE "pump"
    /\ fires' = IF Head(messages) = "quit" THEN 0 ELSE fires
    /\ UNCHANGED <<now, timer, due, live, wake, prev_now, stamper, queue, read, errors, quit_at, delay>>
EndPump ==
    /\ pc = "pump" /\ queue = <<>> /\ messages = <<>>
    /\ pc' = IF live THEN "cadence" ELSE "wait"
    /\ UNCHANGED <<now, timer, fires, due, live, wake, prev_now, stamper, queue, messages, read, errors, quit_at, delay>>

-----------------------------------------------------------------------------
(* The mouse, the rest of the desktop, and the clock.                      *)

Report ==
    /\ Len(read) + Len(queue) < MaxReports /\ Len(SelectSeq(queue, LAMBDA t : t = now)) < MaxPerTick
    /\ pc # "done" /\ queue' = Append(queue, now)
    /\ UNCHANGED <<pc, now, timer, fires, due, live, wake, prev_now, stamper, messages, read, errors, quit_at, delay>>
Post(m) ==
    /\ quit_at = 0 /\ Len(messages) < MaxMessages /\ pc # "done" /\ messages' = Append(messages, m)
    /\ quit_at' = IF m = "quit" THEN now ELSE quit_at
    /\ UNCHANGED <<pc, now, timer, fires, due, live, wake, prev_now, stamper, queue, read, errors, delay>>
\* The thread runs when it can, but for being preempted in the pump.
Passes ==
    /\ \/ pc = "wait" /\ ~Woken /\ UNCHANGED delay
       \/ pc = "window" /\ now < due /\ UNCHANGED delay
       \/ pc = "pump" /\ delay < MaxDelay /\ delay' = delay + 1
    /\ now < MaxTime /\ now' = now + 1
    /\ UNCHANGED <<pc, timer, fires, due, live, wake, prev_now, stamper, queue, messages, read, errors, quit_at>>

Next ==
    \/ Wake \/ WaitForTimer \/ Drain \/ ReadFails \/ HandleInput \/ Dispatch \/ EndPump
    \/ Report \/ (\E m \in {"hotkey", "quit"} : Post(m)) \/ Passes
Spec == Init /\ [][Next]_vars

-----------------------------------------------------------------------------
(* What the stream and its stamps promise.                                 *)

LongestWait == delay + (IF timer = "refuses" THEN TimerWait + Cadence ELSE Cadence)

\* Reports are read in the order they came, and none waits longer than one
\* cadence and what the thread was kept from running, be it that the read of
\* the buffer failed.
ReportsAreRead ==
    /\ \A i, j \in DOMAIN read : i <= j => read[i].at <= read[j].at
    /\ \A i \in DOMAIN queue : now - queue[i] <= LongestWait

\* A stamp is off by a cadence at most, never in the future, and later reports
\* of the drains never carry an earlier stamp.
StampsAreClose ==
    /\ \A i \in DOMAIN read :
          /\ read[i].ts <= now
          /\ read[i].ts - read[i].at <= LongestWait /\ read[i].at - read[i].ts <= LongestWait
    /\ \A i, j \in DOMAIN read :
          i <= j /\ read[i].by = "drain" /\ read[j].by = "drain" => read[i].ts <= read[j].ts

\* A quit is handled after the next drain at the latest.
QuitIsPrompt == quit_at # 0 /\ pc # "done" => now - quit_at <= LongestWait

\* Of all the stamps, those of reports read from the queue included.  The
\* drain after such a report spreads over a period that starts before it.
StampsAscend == \A i \in 1..(Len(read) - 1) : read[i].ts <= read[i + 1].ts

\* While the mouse is still no timer runs.  A hotkey that wakes the thread
\* sets it, and the empty drain that follows cancels nothing.
IdleIsFree == pc = "wait" => fires = 0
=============================================================================
