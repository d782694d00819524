----------------------------- MODULE BatchWindow -----------------------------
(***************************************************************************)
(* The clock of the shipping loop: when T2 closes a batch.  A window runs  *)
(* on a grid of WindowTicks as long as events come, closes with the first  *)
(* empty one, and T2 sleeps until its deadline (Batcher and advance_window *)
(* with park_hint).  Events carry stamps of their own, back-dated by the   *)
(* coalescing of T1; only the first of a burst may anchor a window.        *)
(*                                                                         *)
(* Time is counted in ticks.  A pass happens at the moment it reads the    *)
(* clock; the time its sinks take, and that of the scheduler, is Busy and  *)
(* Late.  What the batch holds is in CapturePipeline.                      *)
(***************************************************************************)
EXTENDS Integers

CONSTANTS
    WindowTicks,          \* batch.window_ms, in ticks
    BackDate,             \* how far a stamp may lie behind the drain
    MinPark, MaxPark,     \* MIN_PARK and max_park
    Busy,                 \* what a pass may take after its look at the clock
    Late,                 \* how much later than asked T2 may be woken
    MaxTime               \* bound on the clock

ASSUME ParametersAssumption ==
    /\ WindowTicks \in Nat \ {0} /\ BackDate \in Nat
    /\ MinPark \in Nat /\ MaxPark \in Nat /\ MinPark <= MaxPark
    /\ Busy \in Nat /\ Late \in Nat /\ MaxTime \in Nat /\ BackDate <= MaxTime

VARIABLES
    now,                  \* the wall clock
    window,               \* is a window open?  "open" or "closed"
    deadline,             \* if so, when it closes
    pending,              \* does the batch hold events?  "no" or "yes"
    stamp,                \* if so, the first one's stamp (first_qpc)
    t2,                   \* "pass", "turned" (a pass is over) or "asleep"
    limit,                \* the latest moment of T2's next step
    seen,                 \* history: when the first pending event was drained
    live_at,              \* history: the last pass that saw events
    base,                 \* history: where the present run of windows began
    windows               \* history: how many of them have closed since

batchVars == <<window, deadline, pending, stamp>>
historyVars == <<seen, live_at, base, windows>>
vars == <<now, batchVars, t2, limit, historyVars>>

TypeOK ==
    /\ now \in Nat /\ BackDate <= now
    /\ window \in {"open", "closed"} /\ deadline \in Nat
    /\ pending \in {"no", "yes"} /\ stamp \in Nat
    /\ t2 \in {"pass", "turned", "asleep"} /\ limit \in Nat
    /\ seen \in Nat /\ live_at \in Nat /\ base \in Nat /\ windows \in Nat

Init ==
    /\ now = BackDate
    /\ window = "closed" /\ deadline = 0 /\ pending = "no" /\ stamp = 0
    /\ t2 = "pass" /\ limit = BackDate + Busy
    /\ seen = 0 /\ live_at = 0 /\ base = 0 /\ windows = 0

-----------------------------------------------------------------------------
\* T2 is never later than its limit; asleep without a window it has none.
Tick ==
    /\ now < MaxTime
    /\ now < limit \/ (t2 = "asleep" /\ window = "closed")
    /\ now' = now + 1
    /\ UNCHANGED <<batchVars, t2, limit, historyVars>>

(***************************************************************************)
(* What a pass drains from the ring: nothing, events that join the batch,  *)
(* or so many that the batch fills up and goes out on the way, with or     *)
(* without some left over for the next one.                                *)
(***************************************************************************)
Drains == {"nothing", "joined", "leftover", "exact"}

PendingAfter(drain) ==
    IF drain = "nothing" THEN pending ELSE IF drain = "exact" THEN "no" ELSE "yes"

\* Does the batch have a new first event?
Fresh(drain) == drain = "leftover" \/ (drain = "joined" /\ pending = "no")

Expired == window = "open" /\ now >= deadline

\* A pass that drained something or has something pending.
Live(drain) == drain # "nothing" \/ PendingAfter(drain) = "yes"

\* Where a window would start that opens after a pause: at the batch's first
\* event, and now if there is none (it went out with a full batch).
Anchor(drain, first) == IF PendingAfter(drain) = "yes" /\ first < now THEN first ELSE now

\* Faulty variant: every window is measured from its batch's first event.
OpenWindowOnFirst(drain, first) ==
    IF Anchor(drain, first) + WindowTicks <= now THEN now + WindowTicks
                                                 ELSE Anchor(drain, first) + WindowTicks

\* Batcher::open_window: on the grid, else from the anchor; not in the past.
OpenWindow(drain, first) ==
    LET next == (IF window = "open" THEN deadline ELSE Anchor(drain, first)) + WindowTicks
    IN  IF next <= now THEN now + WindowTicks ELSE next

\* Faulty variant: a window that closes is always followed by the next.
AdvanceWindowAlways(drain, first) ==
    IF (Live(drain) /\ window = "closed") \/ Expired
    THEN /\ window' = "open" /\ deadline' = OpenWindow(drain, first)
         /\ IF window = "open" THEN UNCHANGED base /\ windows' = windows + 1
                               ELSE base' = deadline' - WindowTicks /\ windows' = 0
    ELSE UNCHANGED <<window, deadline, base, windows>>

\* advance_window: a live pass keeps a window open, an empty window closes.
AdvanceWindow(drain, first) ==
    IF Live(drain) /\ (Expired \/ window = "closed")
    THEN /\ window' = "open" /\ deadline' = OpenWindow(drain, first)
         /\ IF window = "open" THEN UNCHANGED base /\ windows' = windows + 1
                               ELSE base' = deadline' - WindowTicks /\ windows' = 0
    ELSE /\ window' = IF Expired THEN "closed" ELSE window
         /\ UNCHANGED <<deadline, base, windows>>

\* One pass of the loop, up to where it would park: drain, flush if the window
\* closed, advance the window.  A pass that used up its budget does not park.
Pass(drain, first) ==
    /\ t2 # "turned"
    /\ stamp' = first
    /\ seen' = IF Fresh(drain) THEN now ELSE seen
    /\ pending' = IF Expired THEN "no" ELSE PendingAfter(drain)
    /\ AdvanceWindow(drain, first)
    /\ live_at' = IF Live(drain) THEN now ELSE live_at
    /\ t2' \in IF drain = "nothing" THEN {"turned"} ELSE {"turned", "pass"}
    /\ limit' = now + Busy
    /\ UNCHANGED now

\* Faulty variant: T2 sleeps one full window whatever is left of it.
ParkFullWindow == MaxPark

\* park_hint: until the deadline, within its bounds.
ParkHint ==
    IF deadline <= now + MinPark THEN MinPark
    ELSE IF deadline >= now + MaxPark THEN MaxPark ELSE deadline - now

\* T2 sleeps; the next pass comes at the end of the park, a little late, or
\* earlier for no reason.
Park ==
    /\ t2 = "turned"
    /\ t2' = "asleep"
    /\ limit' = now + ParkHint + Late
    /\ UNCHANGED <<now, batchVars, historyVars>>

\* What the first event's stamp may be: back-dated, or read a tick later.
FirstStamps(drain) == IF Fresh(drain) THEN (now - BackDate)..(now + 1) ELSE {stamp}

Next ==
    \/ Tick
    \/ \E drain \in Drains : \E first \in FirstStamps(drain) : Pass(drain, first)
    \/ Park

Spec == Init /\ [][Next]_vars

-----------------------------------------------------------------------------
(* Properties *)

\* How long after its deadline a window may still be open.
Slack == Busy + MinPark + Late

\* A partial batch is at most one window old when it goes out, but for what T2
\* itself is late; the stamps and their back-dating do not matter.
EventsAreTimely == pending = "yes" => now <= seen + WindowTicks + Slack

\* After the last events the timer runs for no more than one window.
TimerStandsDown == window = "open" => now <= live_at + WindowTicks + Slack

WindowIsTimely == EventsAreTimely /\ TimerStandsDown

\* While events come, a batch that is not full goes out at most once per
\* window, counted from where the run of windows began, wherever the drains
\* fall (Batcher docs: back-dated stamps made it "about 52/s instead of the
\* documented 40/s").
CadenceIsBounded == window = "open" => base + windows * WindowTicks <= now

-----------------------------------------------------------------------------
(* The inductive invariant: it relates what T2 has promised (limit) to the *)
(* deadline, and the deadline to the events it serves, for every window    *)
(* length, back-dating, park bound, load and lateness.                     *)

\* T2's next step comes in time for the deadline.
StepIsInTime ==
    /\ now <= limit \/ (t2 = "asleep" /\ window = "closed")
    /\ window = "open" =>
         /\ t2 # "asleep" => limit <= deadline + Busy
         /\ t2 = "asleep" => limit <= deadline + Slack

\* The deadline is in time for the events, and on the grid.
DeadlineIsSound ==
    /\ live_at <= now
    /\ window = "open" =>
         /\ deadline <= live_at + WindowTicks
         /\ base + windows * WindowTicks + WindowTicks <= deadline
         /\ base + windows * WindowTicks <= now
    /\ pending = "yes" => window = "open" /\ deadline <= seen + WindowTicks

IInv == TypeOK /\ StepIsInTime /\ DeadlineIsSound
=============================================================================
