# telemouse in TLA+: models, checks and proofs

telemouse records raw mouse input on Windows and streams it to a recording, to a
live view and to Kafka. It is a Rust workspace of six crates: `core` (shared
types), `capture` (the agent), `viz` (the live view), `ctl` (the control panel),
`analyze` (offline reports) and `mcp` (a bridge for assistants). This directory
holds TLA+ models of it, TLC configurations that check them on small instances,
and TLAPS proofs for every size of instance. All paths below are relative to
`crates/` in the repository unless they start with `docs/` or name a file of this
directory.

Contents: [1 The system](#1-the-system) · [2 The modules](#2-the-modules) ·
[3 The runs](#3-the-runs) · [4 Fairness](#4-fairness) ·
[5 The proofs](#5-the-proofs) · [6 Where code and docs part](#6-where-code-and-docs-part) ·
[7 What is left out](#7-what-is-left-out) · [8 Plan](#8-plan) ·
[9 Running it](#9-running-it)

## 1 The system

### 1.1 Components

| Component | State | Operations | What makes it correct |
|---|---|---|---|
| T1, raw input (`capture/src/raw_input.rs`) | ring producer, drop counter, coalescing timer, window handles | decode a report, push it, wake T2, count a drop, stop on WM_QUIT | a report is taken once, in order and within the cadence, or counted as dropped |
| T2, shipping (`capture/src/shipping.rs`) | batcher, window, drop accountant, waker, markers, sinks | drain, flush, deliver, heartbeat, park, drain to the end when told | nothing taken is lost, batches fit a datagram, gaps are announced, a stop ships everything |
| T3, context (`capture/src/context_thread.rs`) | screen, lock detector, anchors, conditions | poll, reload the config, report, warn | its picture is the system's, incidents are warned of once |
| `RingWaker` (`capture/src/raw_input.rs`) | `parked` flag, park token | arm, look again, park, wake | T2 does not sleep on an event that was announced |
| Batch window (`core/src/batcher.rs`) | open window, deadline, first stamp | open on the grid, expire, stand down, choose a park | a partial batch goes out within one window, at most one per window |
| Sinks (`capture/src/sinks/`) | books, channel, writer or forwarder | enqueue, write or produce, fail, claim the loss, close | every envelope is counted once, an acknowledgement means on disk, a drop returns |
| Agent lifecycle (`capture/src/main.rs`, `shutdown.rs`, `meta.rs`) | shutdown flag and condvar, alive guards, handles, sidecar | watch, name the reason, tear down in order | every end is reached, named once, and told truly |
| Markers (`ctl/src/manager.rs`, `capture/src/`) | pipe, channel, deadline | write, read, record | a marker is recorded once, in its run |
| Viz hub (`viz/src/hub.rs`, `udp.rs`) | session cache, broadcast ring, sequence tracker | receive, cache, broadcast, subscribe | each browser gets a gap-free stream with its session first |
| Viz server (`viz/src/server.rs`, `stats.rs`, `recordings.rs`) | client slots, list cache, counters | upgrade, relay, list, stream a replay, refuse, report | slots are neither overcommitted nor leaked, counters divide what was observed |
| Viz page (`viz/src/app.js`) | replay engine, modes, loads, socket | seek, trim, recenter, switch, load | the replay shows what was recorded, one source at a time |
| Panel: children (`ctl/src/manager.rs`, `main.rs`) | one slot per component, exit counters, reaper | start, stop, poll, reap, stop all | one child per component, every exit recorded once, nothing left running |
| Panel: settings (`ctl/src/settings.rs`, `panel.js`) | file with token, live config, form | patch, save, refresh, edit | an edit is not lost, the form shows the file |
| Panel: processes (`ctl/src/procs.rs`) | scan cache, known processes | enumerate, classify, kill | a kill hits what was shown |
| Panel: window (`ctl/src/gui/`) | UI thread, tray, hosted page, power state, feed | show, hide, suspend, retry, publish, paint | one view that is awake and reachable and says what was last sent |
| Panel: page (`ctl/src/panel.js`) | poll chain, log cursor, report card | poll, act, fetch | one chain, no line twice, the card is about its recording |
| Analyze (`analyze/src/`) | recordings, index, report cache | load, index, measure, judge, compare | both loaders agree, losses are told, measures add up |
| MCP (`mcp/src/`) | a call, a doctor job | any tool | an answer is true or says that it is none |

### 1.2 How they interact

    mouse ─ T1 ─ring(SPSC)→ T2 ─┬─ UDP ───────→ viz UDP task ─ hub ─broadcast→ client tasks ─→ browsers
             │    ↑wake │       ├─ channel ─→ JSONL writer thread ─→ recording ─→ index, loaders, reports
      markers └─ channel ┘      └─ channel ─→ Kafka forwarder ─→ broker
    main: watch, teardown: quit T1, join; capture_stopped; join T2; flag; join T3; final sidecar
    T2, T3, main ─ write lock ─→ sidecar      console handler ─ flag + condvar ─→ main, T3
    panel: page, tray, hotkey, MCP ─ lock ─ slots ─ children (agent, viz, ...); reaper ─ Notify
           manager ─ publisher ─ watch channel ─→ UI thread: icon, text view, hosted page

- T1 and T2 share a single-producer ring, a drop counter and `RingWaker`. T1 never
  waits for anybody: a full ring costs the newest report.
- Markers reach T2 through a channel from T1 (hotkeys), T3 and standard input.
- T2 offers every envelope to each sink; a sink's worker has a bounded channel and
  shares one mutex with T2 (`QueueAccounting`). Closing the sinks shares one deadline.
- main joins T1 first, then tells T2 to drain (`capture_stopped`), joins it, then
  joins T3, and writes the last sidecar.
- The viz UDP task, the browsers' tasks and the stop share a cache, a broadcast
  ring and counters, each with its own synchronisation and nothing across them.
- In the panel a stop takes the child out of its slot, releases the lock and waits;
  everything else may run against the half-finished stop.
- The UI thread learns of the manager through one watch channel; what the page's
  runtime is asked is answered by a message, in its own time.
- Recordings and the config file are read by processes that do not know who writes
  them: sizes, modification times and tokens are all they have.

### 1.3 What is hard

PROJECT.json lists forty hazards at their lines. By kind:

- *Orders nobody wrote a test for*: the terminal claim of a sink racing its late
  completions; the push, the flag and the park of T1 and T2; a subscription between
  a cache update and its broadcast; a start, a poll or a second stop during a stop;
  a page that is hidden and shown while its suspension is being answered.
- *Read here, used there*: the stop flag against the ring; the shutdown flag against
  the condition variable; T1's handles against its start-up; the sidecar document
  against its write lock; a settings token against the file; a process id against
  the process; a load's token against the mode.
- *Partial failure*: a write that fails in a spill, a produce task that panics, a
  worker that panics or hangs, a request dropped while it holds a child, a
  navigation that fails, a recording that is torn, a marker that the panel takes and
  the agent does not.
- *Limits*: ring, batch, channel, join set, broadcast ring, client slots, log ring,
  report cache and budget when full.
- *Time*: two clocks in the batch window, drains that run out, windows missed,
  modification times in whole seconds.
- *What must happen*: sinks that close, threads that are joined, exits that are
  recorded, answers that are given, although storage, broker, browser, page or child
  never answers.

## 2 The modules

### 2.1 How the project is composed

A module models one component. Four *MC modules* compose the components that TLC
checks together. `MCQueues` composes the accounting with the two sinks that use it.
`MCPanel`, `MCThreads`, `MCReaders` and `MCRequests` hold several *machines*, each a
component with variables of its own; a behaviour is a behaviour of one machine,
chosen by the initial state, and the other machines stay in their first state. A run
then asks one question of several components, at the cost of the sum of their state
spaces and not of their product. A composed property is a conjunction with one part
per machine. Its mutant in PROJECT.json puts a faulty variant into one of the
machines; the other machines' faulty variants stand in their modules, labelled as
such beside the definitions they vary, and each was seen to violate its part.

| Module | Models | Used by |
|---|---|---|
| `QueueAccounting` | `QueueAccounting` of queue.rs: one action per operation, with the most general clients | `JsonlSink`, `KafkaSink`, `MCQueues` |
| `JsonlSink`, `KafkaSink` | the sinks: T2's side and the worker's | `MCQueues` |
| `LossyStream` | what the capture pipeline promises, with no threads | `CapturePipeline` |
| `CapturePipeline` | T1 → ring → T2 → sinks, markers, the ordered stop | run `capture_pipeline` |
| `RingWaker` | T2's parking and T1's wake, with a store buffer; its proofs | run `ring_waker` |
| `BatchWindow` | the window's clock | `MCThreads` |
| `CaptureThread` | T1's message loop: timer, drains, stamps, quit | `MCThreads` |
| `ContextThread` | T3: displays, anchors, lock detector, config, conditions | `MCThreads` |
| `Shipper` | T2's fan-out: ticks, warnings, re-sends, heartbeats, the shared close | `MCThreads` |
| `FeedStats` | the viz's counters, reporter's windows and histograms | `MCThreads` |
| `Agent` | main, console handlers, three workers, the sidecar | run `agent` |
| `VizHub` | UDP task, hub, browsers' tasks, the viz stop | run `viz_hub` |
| `PanelManager` | slots, requests, reaper, the panel's shutdown | `MCPanel` |
| `PanelWindow` | the UI thread, tray icon, hosted page and its power states | `MCPanel` |
| `PanelFeed` | the publisher between manager and window; start, stop, new session | `MCPanel` |
| `RecordingLoad` | both loaders, damage, the listing's summary, the verdict on a recording | `MCReaders` |
| `IndexCache` | the listing's cache beside a writer | `MCReaders` |
| `ReplayEngine` | the page's replay: cursor, integration, checkpoints, trim | `MCReaders` |
| `MotionGrid`, `MotionMetrics` | cells, runs, padding, windows; flicks, lifts, clicks, seconds | `MCReaders` |
| `SettingsPatch` | the config's validation, defaults, hotkeys; a patch and what it changes | `MCReaders` |
| `SettingsEditor`, `SettingsForm` | the save beside an editor outside; the form that shows the file | `MCReaders` |
| `RunRequest` | from the panel's flags to the run the agent makes of them | `MCReaders` |
| `PanelPage` | the page's polls and log cursor | `MCReaders` |
| `TrayView` | icon, tooltip, menu, text view; reading the children's lines | `MCReaders` |
| `TrendTable` | workers, budget and cache of the report over all recordings | `MCRequests` |
| `ReportCard` | the panel's card of one report | `MCRequests` |
| `DashboardPage` | the viz page's modes, lists, loads and socket; its proofs | `MCRequests` |
| `MarkerPath` | a marker from the panel to the recording | `MCRequests` |
| `DoctorTool`, `McpTools` | the MCP server: the doctor job; every other tool | `MCRequests` |
| `ProcessTable` | the list of processes, its caches, a kill | `MCReaders` |
| `VizServer` | lists, probes and bodies of recordings, gates, two servers on one port | `MCReaders` |
| `QueueProofs`, `CapturePipelineProofs`, `AgentProofs`, `VizHubProofs`, `PanelProofs`, `ThreadsProofs` | theorems | section 5 |

`PROJECT.json` maps every definition to its lines.

### 2.2 The correspondence in short

**QueueAccounting.** The struct's flags are variables of the same names, the gauges
of `Stats` it moves are `queued`, `dropped`, `abandoned`, `errors`. Each public
method holds the mutex from its first to its last line, so each is one action.
`offered` and `delivered` are history. The behaviours are those of any number of
threads that call any operation at any time, restricted only by the `debug_assert`
of `finish`. That makes the module the *contract* the sinks are checked against.

**JsonlSink.** A line is the number of its envelope. `ship` is T2: idle, inside
`enqueue`, or inside `Drop` (close the channel, wait, and on time-out or on a writer
that vanished claim the loss). `writer` walks through `recv`, the write into the
buffer, the flush when the channel is empty or the flush is due, `finish`, the final
flush and the completion signal. A write or flush may fail, and a write that fails
half way may have spilled a part of the buffer to disk; the writer may panic.
A lock-free step between two locked calls is a state of its own.

**KafkaSink.** Jobs are counted: the client library batches them and promises no
order. The worker's runtime has a single thread, so a task is interrupted only at an
await; `settling` marks one between its error count and its `finish`. `worker` is
the main future with its three selects (connect / shutdown, drain / time-out, join),
`forwarder` the task that keeps `MaxInflight` produces in the join set and reaps
them, `running`, `finished` and `crashed` the set itself. The broker answers, refuses
or says nothing.

**CapturePipeline.** A report is the number T1 gave it, so the reports dropped
before the i-th accepted one number `accepted[i] - i`. T1's failed push and its count
of the drop are two steps (`PushFull`, `CountDrop`). T2's loop is walked through in
its order: look at the stop flag, pop up to the budget with flushes of full batches
on the way, markers, window, housekeeping, check, final. That order is the point of
`StopIsComplete`.

**RingWaker.** `Push` and `WakeByT1` are the two halves of `push_event`; with
`StoreBuffers` a push becomes visible by `Drain`, which may come after T1's load of
`parked`. T2's `BeginPark`, `Recheck`, park and `EndPark` are those of the shipping
loop, with the short first park and the long idle park chosen as in the code.
`overtaken` is history: some wake looked before its own push was visible.

**BatchWindow.** A pass of T2 drains nothing, events that join the batch, or enough
to fill it; `OpenWindow`, `AdvanceWindow` and `ParkHint` are the code's arithmetic on
an integer clock, with the stamps back-dated by up to `BackDate`. `limit` is the
latest moment of T2's next step, so lateness is a parameter and not a fairness
assumption.

**CaptureThread.** The coalescing timer is armed, fires (late by `TimerSlack`, or not
at all), and is killed as the message loop does it; a drain stamps what it read
between the previous drain and now; the hook's buffer overflows where Windows' would.
**ContextThread.** One tick in the code's order, with display changes flagged or not
between two looks, the lock detector's confirmation, anchors, the config's reload
and the escalation of conditions. **Shipper.** A pass of T2 over the sinks: who is
offered what, whose failure is warned of and when, and the close, which gives each
sink its share of one deadline. **FeedStats.** The UDP task counts while the reporter
takes its windows without a lock around them; what a datagram has still to do is the
set `todo`, done in the source's order (`Place`); histograms, deltas and percentiles
are operators checked against the recorded values.

**Agent.** `main` walks through `watch` (check workers, check the flag, wait) and
`teardown`. A worker's end is the end of its function, then its guard's store and its
guard's notification. `Shutdown::wait_timeout` is the look at the flag, the lock and
the wait as separate steps. The sidecar's writers share the write lock, the
document is taken under it, and the file is replaced or the write fails. A
hanging worker may be called stalled whenever the watch looks; whether
`StallWatch` is right about that is not this module's question.

**VizHub.** `Publishes` is `Hub::publish` cut where another task can run: cache,
send. `sent` is everything the broadcast ever got, of which the ring keeps the last
`Capacity`; a receiver is an index into it, and lags when it is overrun. `Reserve`
is the add, `GiveBack` the taking back of one too many. A browser may stop reading at
any moment, which leaves the relay's timed send to end its task.

**PanelManager.** A slot is `child`, `mark`, `exits` and `unexpected`. `Stop`
detaches the child into `held`; `StopStep` is the grace, the kill and the recording.
A `Stop` from the page may be abandoned with its connection, one from the tray may
not. Every read of a slot that reaps (`status`, `start`, `running`, ...) is `Poll`.
The reaper's registration, question and wait are apart because `Notify::notify_waiters`
keeps no permit. The shutdown is `stop_all_within` slot by slot, graceful serving
with its limit, and the exit with `kill_on_drop`.

**PanelWindow.** `web` is `HostState`, `win` the window's flags, `tray` what the
thread believes of its icon and what stands there. `PowerShow`, `PowerHide` and
`PowerSuspended` are the pure decisions of model.rs; `Power` records a decision and
carries it out, where a suspension may be refused on the spot. `rt` is the runtime
(external): what it was asked, what it has answered and whether the page is frozen.
**PanelFeed.** `run_publisher` step by step around its `select!`, with the order of
`enable`, `any_running` and the waits; the watch channel, the posted refresh and what
is painted, in a window whose text may stand behind the page; requests from menu, page
and hotkey, saving or not, against an external manager.
**TrayView.** Icon, tooltip, menu and text of a snapshot as operators, checked
against each other and against what the children printed.

**Readers of files.** `RecordingLoad` gives both loaders as operators over a file of
lines that are whole, torn, blank or foreign, and compares them; the verdict on a
recording is checked against the run that was sent. `IndexCache` is the listing's
cache keyed by size and time beside a writer. `SettingsPatch` is one patch over one
document; `SettingsEditor` interleaves read, check of the token and replacement with
an outside editor and the panel's refresh; `SettingsForm` the page's form. In
`ReplayEngine` the state after any sequence of seeks, trims and plays is compared
with the integration of the script from its start: the positions, the totals, the
checkpoints' effect, the desk and pointer trails (bounded, the pointer's with points
only where it moved by a pixel) and the marks that trimming drops. A script is one
session; the engine's reset at the next one, the loss marks, the rates, the latency
and a change of the trail's length while it plays are left out. `MotionGrid` and `MotionMetrics`
state on integers what the measures compute in floating point.

**Requests.** `TrendTable` has workers that take recordings by size under a budget
while the cache changes; `ReportCard` a card whose report somebody else restarts;
`DashboardPage` a page whose loads and lists answer out of order, and whose live feed
comes with lost, late and doubled datagrams (as in `VizHub`, none of a run after its
successor's envelope); `MarkerPath` a pipe
nobody reads, with labels in it that are no markers to the agent; `DoctorTool` a job that another client has already started;
`McpTools` one call of any tool with its loopback requests; `ProcessTable` ids that
are used again between the scan and the kill; `VizServer` a directory that changes
under the list, the probe and the body of a replay.

## 3 The runs

Twelve runs, nine that pass and three that end in a violation (section 6). Deadlock
is checked in the runs where nothing ends for good (`queues`, `capture_pipeline`,
whose final states have an explicit `Terminated` step, and `ring_waker`); in the
others the process, or the bounded environment, really stops.

| Run | Module | States | Properties |
|---|---|---|---|
| `queues` | `MCQueues` | 76k | `CountersExact`, `SinkIsSound`, `ClaimIsFinal`, `ImplementsAccounting`, `EverythingSettles` |
| `capture_pipeline` | `CapturePipeline` | 83k | `NothingLost`, `BatchesAreSound`, `GapsAnnounced`, `StopIsComplete`, `ImplementsStream`, `EverythingIsShipped` |
| `ring_waker` | `RingWaker` | 24k | `NoOtherWakeIsLost`, `EverythingArrives` |
| `agent` | `Agent` | 230k | `VerdictIsTrue`, `ReasonStays`, `EveryEndIsReached` |
| `viz_hub` | `VizHub` | 363k | `ViewIsSound`, `SlotsAreSound`, `GapsAreExact`, `EveryFrameSettles` |
| `panel` | `MCPanel` | 711k | `ChildrenAreAccountedFor`, `WindowIsTrue`, `EverythingSettles` |
| `threads` | `MCThreads` | 1.65M | `WindowIsTimely`, `CadenceIsBounded`, `ReportsAreTimely`, `ContextIsTrue`, `SinksAreServed`, `FeedIsAccounted`, `WarningsAreTimely` |
| `readers` | `MCReaders` | 1.42M | `PlaybackIsExact`, `RecordingsAreReadWhole`, `RequestsAreExact`, `MeasuresAreSound`, `SettingsAreExact`, `PanelIsShown` |
| `requests` | `MCRequests` | 627k | `ReportsAreRight`, `PageShowsItsSource`, `AnswersAreTrue`, `RequestsSettle` |
| `missed_notification` | `Agent` | violation | `NotificationSeen` |
| `stalled_run_waits` | `Agent` | violation | `StalledRunEnds` |
| `stop_abandoned` | `PanelManager` | violation | `StopRecordsItsChild` |

### What each shows, and why its bounds suffice

- **queues.** `CountersExact`: offered = dropped + delivered + abandoned +
  outstanding, the queued gauge is what is outstanding, and a claimed sink owns
  nothing. `ClaimIsFinal`: no step after the claim moves an envelope except into
  `dropped`. `SinkIsSound`: the file is a prefix of the accepted lines and holds no
  less than was acknowledged; what is outstanding at the forwarder is exactly what it
  can still reach, and never more than channel + 1 + in-flight limit; a clean close
  left everything out, and however a close ended nothing is unaccounted for.
  `ImplementsAccounting`: every step of a sink's threads is one legal step of
  `QueueAccounting`. `EverythingSettles`: a drop returns whatever storage or broker
  do; with one that answers, all that was accepted settles. Four lines over a channel
  of two fill it, drain it and fill it again with a line in hand; six jobs exceed all
  the forwarder's places (2 + 1 + 2) by one.
- **capture_pipeline.** `NothingLost`: accepted = shipped, pending and ring in that
  order. `BatchesAreSound`: no batch is over `max_events`, and a partial one always
  has a window running. `GapsAnnounced`: a gap is announced no later than the batch
  with the first report after it, no drop twice. `StopIsComplete`: when T2 returns,
  everything accepted and each of T1's markers is out. `ImplementsStream`: the whole
  is a `LossyStream`. `EverythingIsShipped`: a stop completes and what is pending goes
  out. Four reports overflow a ring of two before, between and after drains; a
  batch of two with a budget of three flushes within a drain and leaves a rest.
- **ring_waker.** With a store buffer the wake of a pushed event can be lost;
  `NoOtherWakeIsLost` says this is the *only* way: T2 is parked on a visible event
  with no wake under way only if some wake looked before its own push was visible.
  `EverythingArrives`: the park's time-out covers even that. Three events let one be
  overtaken, one be in time and one follow.
- **agent.** `VerdictIsTrue`: the sidecar calls a run clean only if every worker is
  gone and none panicked, and a console handler that blocks a close is let go only
  with the final verdict on disk, unless that write failed. `ReasonStays`: a recorded
  reason is never replaced, although T2, T3 and main write the file.
  `EveryEndIsReached`: a stop or a dead worker ends the process, except where a join
  itself cannot return (`QuitLost`, `JoinHangs`, section 6). T1 and T2 are the
  symmetric cases of hang and panic; T3 is taken because it also shares the shutdown
  flag, is joined last and writes the sidecar.
- **viz_hub.** `ViewIsSound`: what a browser gets is a hole-free part of the
  broadcast from its subscription on, and a batch never precedes its session.
  `SlotsAreSound`: never more tasks than slots; the counter is exactly the tasks
  alive and the attempts being refused. `GapsAreExact`: every number that did not
  come in its turn is counted once, over restarts, losses and late datagrams.
  `EveryFrameSettles`: no browser that stops reading holds its slot or the stop. A
  ring of two with three frames is overrun; a late datagram needs three numbers.
- **panel.** `ChildrenAreAccountedFor`: at most one living child per component, a
  slot that says gone is right, each exit counted once and as unexpected exactly if
  nobody had stopped the child and it was no finished task; at the panel's exit
  nothing runs and nothing is killed except what was started after `stop_all` had
  passed its slot, what another stop held at that time, or a child that survived its
  kill. `WindowIsTrue`: one view stands, it is not frozen while visible once the
  runtime's answers are in, a hidden window can be brought back, no icon is left
  behind; a publisher that sleeps has missed no start, a window shown again gets a
  full snapshot first, what is painted is what was last sent. `EverythingSettles`:
  the reaper misses no wake-up, stops end (unless abandoned), so do the shutdown, a
  page under way and the window's thread, and the icon comes to tell the truth. A
  second child of the service is what a stale slot would be confused with; a second
  component lets the shutdown be half done. Four shows and hides put a second
  suspension into the queue behind an unanswered one; one retry and one restart of
  Explorer are the first of their kind. The feed's one request comes from the page,
  which only notifies, or from the hotkey, which stops, starts and pokes; the menu
  does nothing the two do not, and the proof has any set of clickers.
- **threads.** `WindowIsTimely`: a partial batch is out within a window of its first
  event's drain, and the timer stands down within one of the last, each but for
  `Slack`, what T2 itself is late. `CadenceIsBounded`: at most one timed flush per
  window. `ReportsAreTimely`: every report is read within the cadence, stamped close
  to its arrival, and a quit is prompt; what the thread was kept from running is
  added to the bound once, and a read that fails adds nothing. `ContextIsTrue`: screen, lock, config edits and
  losses are known as they were. `SinksAreServed`: each sink gets what is meant for
  it, its failures are counted, an idle agent is heard from, the close is fair.
  `FeedIsAccounted`: the reporter's windows divide what was observed, and the log
  tells every batch, error and change. `WarningsAreTimely`: an incident is warned of
  when it happens and no oftener than allowed. Clocks run for four windows, five
  ticks, four polls, three and two seconds: each past the largest interval by
  one round; two drops, failures, batches or datagrams are one in time and one late.
- **readers.** The inputs of the pure parts are all files of up to three lines of nine
  kinds, over two headers and one to three workers; all subsets of a run of four
  batches, torn or not; all short series of stamps; all patches with one or two keys
  and up to two games over seven documents; all pairs of flags; motions of up to
  three events around the grid's edges; every snapshot of three components.
  `RecordingsAreReadWhole`: the loaders agree, damage and loss are told, the listing
  and its cache say the same; the viz's lists, replays and refusals are as they say. `RequestsAreExact`: a patch changes what it names and
  says what takes effect when; panel and agent agree on a run. `MeasuresAreSound`: the
  grid holds each count once, and what is measured is whole, disjoint and adds up.
  `PlaybackIsExact`: the replay shows what was recorded until then, wherever it was
  sought to. `SettingsAreExact`: live settings are the file's once it is read, a save
  writes what its page shows onto the file it has seen or nothing. `PanelIsShown`:
  one poll chain, a log without gap or repetition, actions seen to end; the list of
  processes shows the panel's own changes and terminates nothing outside this program;
  tray and window agree and are never behind in words. One process id is used twice.
  `ProcessTable` was also checked alone with two ticks and two enumerations (827k
  states).
- **requests.** `ReportsAreRight`: the table is in order, whole and within its budget;
  a card shows its own recording. `PageShowsItsSource`: one whole recording or what
  is live, and every number counted as lost that did not come in its turn: what is
  missing and what came late, since the page takes nothing back. `AnswersAreTrue`: the
  markers that went into the pipe are recorded, in the channel or in the pipe, in that
  order and in their run, and lines that are no marker are nowhere; a doctor answer is a whole report or says that it
  is none; the other tools tell what they found and read-only ones change nothing.
  `RequestsSettle`: whoever waits is answered, and a marker that was answered with yes
  is recorded unless the agent stops or does not take the line for one. A loss of two
  batches takes three numbers, and a late one a timeline of three; the three markers
  are a plain line, an object and a brace, in every order. Three recordings make an order, a tie
  and an unreadable one; two clicks race one answer; three calls of the tools chain
  one change behind another. `McpTools` was also checked alone with four changes
  (143k states).

Every property of a passing run has a *mutant* in PROJECT.json: a plausible bug put
in place of a mapped definition (a flag read too late, a missing reset, a dropped
guard, a wrong bound) that the property catches in the same run. The faulty variants
stand in the modules, labelled as such, beside the definitions they vary.

Some modules also define a property that does *not* hold of the code and is no run's
property, beside the one that does: `EarlierRunsAreNotMistaken`, `IdleIsFree`,
`StampsAscend`, `CheckpointsAreExact`, `LoadedIsHeld`, `NeverWritesOver`,
`NoteIsThisRuns`. They are the sharpened edge of the property that holds; section 6
says what the code does instead.

## 4 Fairness

Fairness is weak unless stated, per thread or task, and only where the code cannot
wait for ever.

- *Own code runs.* T2 inside `enqueue`, `Drop` or its loop; main; a console handler
  that stored the flag; a handler that pushed and has not yet woken; tasks of the
  viz and panel runtimes; the UI thread; the trend's workers; the MCP call. None of
  these steps waits without a time-out.
- *Time passes.* Parks, windows, drain budgets, send time-outs, graces, the page's
  watchdog and the publisher's `IDLE_WAIT` run out; a marker's deadline does.
- *Store buffers drain* (`ring_waker`), as the architecture guarantees.
- *Locks and conditions shared with others are strongly fair* in `Agent` only
  (`ShippingRefreshes`, `FinalRefresh`, `ContextStops`): the sidecar's write lock
  may be taken by others again and again, but a mutex does not starve a waiter for ever.
- *One thread, one conjunct.* `MCPanel` joins the steps of a thread that never has
  two of them to choose from (reaper, shutdown, publisher, painter) in one fairness
  condition.
- *A navigation ends* (`PanelWindow`): the runtime promises to report each one, with
  success or failure. Its other answers are not assumed; the watchdog stands in.
- *A fetch ends* (`ReportCard`, `DashboardPage`): the browser answers each one, with
  success or failure.
- *No fairness* for storage, broker, browser, child, console, deadline, failure or
  user. `EverythingSettles` of the sinks puts the fairness of storage and broker in
  the premise of the formula, so the same run shows both what holds without and with it.
- In a composed specification each fairness condition is that of the machine's action
  where the machine runs, and holds trivially where it does not.
- `threads` and `readers` have only safety properties.

## 5 The proofs

All theorems have the form `Spec => []P`, `Spec => [][A]_vars` or a refinement, and
hold for every value of the constants that satisfies the module's named assumption:
capacities and limits are positive naturals, the bounds on counters are naturals, so
the bounds that TLC needs are arbitrary here. The assumptions that TLC's constants
must satisfy are evaluated on every run (`ParametersAssumption`, `MaxOffersAssumption`,
`CapacityAssumption`, `CapacitiesFit`, `OffersFit`, `EveryIsPositive`, and for the
threads `CadenceFits`, `TicksFit`, `IntervalsFit`, `StatsFit`; for the page
`DashAssumption`: a list that is not empty, spans that end no earlier than they begin). Each proof has
an inductive invariant with three facts: the initial states satisfy it, one lemma per
action or group of actions preserves it, and it implies the property. Each invariant
was checked by TLC on the run's instance before it was proved.

| Theorem | Says |
|---|---|
| `QueueProofs!TypeCorrect` | gauges are naturals: no `fetch_sub` wraps |
| `QueueProofs!CountersExactHolds`, `ClaimIsFinalHolds` | the accounting, whoever calls it |
| `QueueProofs!ImplementsAccountingHolds` | each sink refines `QueueAccounting` |
| `QueueProofs!SinkIsSoundHolds` | file, backlog and close of both sinks |
| `QueueProofs!ClientsCountExactly`, `ClientsClaimFinally` | the accounting's theorems carried through the refinement |
| `CapturePipelineProofs!TypeCorrect`, `NothingLostHolds`, `BatchesAreSoundHolds`, `GapsAnnouncedHolds`, `StopIsCompleteHolds` | the safety properties of the pipeline |
| `CapturePipelineProofs!PipelineImplementsStream` | `CapturePipeline` refines `LossyStream` |
| `RingWaker!NoOtherWakeIsLostHolds` | a wake is lost to the store buffer only |
| `ThreadsProofs!WindowIsTyped`, `WindowIsTimelyHolds`, `CadenceIsBoundedHolds` | the window's timing for every length, back-dating, park bound, load and lateness |
| `AgentProofs!VerdictIsTrueHolds`, `ReasonStaysHolds` | the sidecar tells the truth and does not change its mind |
| `VizHubProofs!SlotsAreSoundHolds`, `GapsAreExactHolds`, `ViewIsSoundHolds` | the hub, for any finite set of browsers and any ring |
| `PanelProofs!ChildrenAreAccountedForHolds` | the manager, for any components and starts |
| `PanelProofs!WindowIsTrueHolds`, `PanelAccountsForChildren` | window and feed, and the panel as it is composed |
| `ThreadsProofs!ReportsAreTimelyHolds` | T1's reads, stamps and quit, for any window, slack, buffer and delay |
| `ThreadsProofs!ContextIsTrueHolds` | T3's picture of screen, lock, config and losses, for any intervals |
| `ThreadsProofs!SinksAreServedHolds` | T2's delivery and close, for any intervals, budget and sets of sinks |
| `ThreadsProofs!FeedIsAccountedHolds` | the viz's windows, readout, log lines and transitions, for any histogram, latencies and intervals |
| `ThreadsProofs!WarningsAreTimelyHolds` | warnings of T2 and T3, and drops announced across the counter's wrap |
| `DashboardPage!PageShowsItsSourceHolds` | the page's replay, socket and losses, for any list, spans, length and moments |

- *QueueAccounting.* Conservation alone is not inductive: after a claim a late
  `finish` must find nothing to settle, which is `ClaimedOwnsNothing` (a claimed
  sink has failed and owns nothing), so `IInv` is the flags' types, the books
  (types of the counters, conservation, gauge) and that.
- *The sinks.* `ClientsInv` adds, for the recorder, that file, buffer, hand and
  channel are together the accepted lines in order, and that what is outstanding is
  what is not yet settled of them; for Kafka, that the outstanding count is the sum
  of the forwarder's places. That is exactly what makes each `finish` one the
  contract allows, so refinement and `SinkIsSound` come from one invariant.
- *CapturePipeline.* The order of T2's loop is what `StopIsComplete` rests on:
  `StopFollowsCapture` (T2 believes in a stop only when T1 has gone) and
  `StopSeesTheEnd` (a stopping pass that drained nothing has seen the end of the
  ring, and past its markers the end of T1's markers). The gaps rest on
  `DropsAreCounted` (what T1 generated is accepted, counted or being counted) and
  `DropsAreReported` (what the batches reported is what the accountant took off the
  counter, and covers the gap before everything shipped). The refinement proof maps
  each action to `Take`, `Lose`, `Deliver`, `Close`, `End` or a stutter, from the
  same invariant.
- *RingWaker.* `Armed` (the flag is up from `begin_park` to `end_park`) and
  `BufferedIsAwaited` (a push in the store buffer has its wake before it, or was
  overtaken) carry the property over each step.
- *BatchWindow.* `StepIsInTime` bounds T2's next step by the deadline plus the slack
  of the place it is at; `DeadlineIsSound` ties the deadline to the events it serves
  and to the grid.
- *Agent.* Who holds the write lock has a document no older than the file's, and the
  document's reason, once set, is every later document's reason; main's place in
  teardown says which workers are joined, so what `clean` claims is decided by then.
- *VizHub.* The counter is the cardinality of the live tasks and the attempts being
  refused, which a reservation and its return move together; a receiver's view is the
  stretch of the broadcast between its subscription and its index, and the session
  it was given is that of the frame before; the gap counter is the size of the set of
  numbers jumped over.
- *PanelManager.* Stated slot by slot: children are numbered and only the last may
  run (`Numbered`), it is in the slot, with a stop, or neither (`Placed`), the marks
  say what stops have done to it (`Marked`), the counters are cardinalities of the
  recorded exits (`Booked`), and behind `stop_all` only spared children run
  (`Passing`). Two facts about a slot carry over to a step that leaves it alone.
- *PanelWindow.* That a visible page is awake is not inductive: an answer on its way
  may still freeze what is shown. `SuspensionIsAsked` says which power states an
  unanswered suspension leaves possible (at most one suspension is unanswered unless
  `overlapped`), `FrozenIsTold` that a frozen page is recorded as suspended with no
  answer outstanding, or the answer that tells so is first in the queue.
  `PageIsHosted`, `StartsIdle` and `IconIsKnown` are the views and the icon.
- *PanelFeed.* `WaitIsRegistered`: from the registration on, a notification is kept,
  so the question asked after it cannot miss a start. `ShownIsSeen`: a window that is
  visible and owes no poke is in the snapshot under way, or the last one was made for
  it; a text that went stale behind the page or while hidden is then painted again.

- *CaptureThread.* A bound on what waits in the queue says nothing of the wait that is
  under way, so `Pending` says it of the end of that wait: what came while the thread
  was in `wait` or `cadence` came now; in a window it came after the moment the drain
  will spread its stamps from, and no earlier than one timer's wait before the window
  is due; in the pump it has waited that long and what the thread was kept from
  running. Stamps lie between the drain before and now, so they never descend from
  drain to drain; that they do not within one is `StampsOfDrain`, from the rounding
  of the division (`PartsOf`). The quit is the last message there is, so the pump
  cannot end its round before it.
- *ContextThread.* What T3 has not looked at yet is in the invariant beside what it
  has: the run of frozen samples plus the one counted and not yet taken is covered by
  events (`LockInv`), the configuration it holds is the file's unless the file has
  moved (`EditsInv`), the reports told what the window before had seen (`LossesInv`),
  and the next warning is an interval after the last (`WarnInv`).
- *Shipper.* `LiveInv` measures the silence from a moment that is never later than
  the last send. `CloseInv` keeps half of the budget while Kafka has yet to close.
  `DropsInv` keeps the distance between announced and counted drops under `Wrap`,
  which is what makes the wrapping difference exact; that T1 drops fewer than `Wrap`
  reports between two batches is a guard of the model, where the code has 2^32.
- *FeedStats.* `FeedInv` says of each bucket that baseline, what was read of it and its
  count ascend (`LoadsInv`), so that consecutive windows meet: the difference of two
  snapshots is the sum of the differences on the way (`WindowsMeet`), and closing a
  window moves observations from the open one to the closed ones and loses none. The
  latencies summed trail those counted by the batch whose `todo` still has `sum`
  (`TodoInv`). The log rests on the lines since the last that was said being the quiet
  ones, and the transitions on the last state that was told being the reporter's.
  Sums over a histogram and over a history are folds; what they add up to is proved
  by well-founded induction on a set of numbers (`EveryNatural`, `EverySubset`), which
  needs no operator as a parameter: the sum unfolds by one element (`SumUnfolds`),
  whichever element that is (`SumWithout`), and is additive (`SumsAddUp`).

- *DashboardPage.* That the engine holds one recording is not inductive: it is what
  the one load that is not superseded has read of its own (`ReadUpTo`, with
  `LoadsInv`: every load has a token of its own, and the page is loading exactly while
  the newest is not through). The count of losses needs no order of arrival: `Tally`
  says that the number kept is the newest, and what is counted is the set of numbers up
  to it that did not come in their turn. A number past the newest is in its turn and adds
  the gap before it, disjoint from what was counted (`BatchCounted`); any other changes
  neither the set nor the count (`TurnOfTheLast`).

*Model-checked only.* Liveness (all properties with `~>` or `[]<>`): the prover has
no `ENABLED`. Of what `MCReaders` and `MCRequests` check only `PageShowsItsSource` is
proved (section 8). `PlaybackIsExact` compares the replay's integration with one over
the whole script, and `ReportsAreRight` the table with a reference over all
recordings: both are statements about what a recursion computes. The well-founded
induction above reaches such statements when the recursion is a fold over a set or a
function; the operators declared `RECURSIVE` (in `McpTools`, `MotionMetrics` and
`TrayView`) cost the prover its arithmetic, so these modules, and `MCReaders` and
`MCRequests` above them, stay with TLC. That is why the page's theorem is about
`DashboardPage` by itself.

## 6 Where code and docs part

Three disagreements have a run that shows them:

1. `missed_notification`. `Shutdown::wait_timeout` (`capture/src/shutdown.rs:48`) looks at the flag before it takes the lock and not
   again after. A `set` that stores and notifies in between is missed, and main
   sleeps out its minute or its deadline, T3 its tick. `capture/src/shutdown.rs:38`
   says a waiter "cannot miss this notification"; `docs/GUIDE.md:840` says the same.
   The process still ends: `EveryEndIsReached` holds in `agent`.
2. `stalled_run_waits`. After a stall verdict, teardown joins the stalled worker like
   any other (`capture/src/main.rs:549`). If it never returns, the process does not
   end. `core/src/recordings.rs:112` says "teardown did not wait for it".
3. `stop_abandoned`. `finish_stops` runs inside the request. A page that closes its
   connection during the grace drops the future with the child in it; `in_stop` is
   never reset and the component can be neither started nor stopped until the panel
   is restarted (`ctl/src/manager.rs:1787`, against `:913` and `:875`).

Met while modelling, without a run of their own. None of them is a property that is
claimed to hold; where one is an exception in a property, the property names it.

*Capture.*
- `shipping.rs:709`: the session re-send is not held back while stopping (only the
  heartbeat is), so a live-only record may follow the final batch, which `:719`
  wants last.
- `main.rs:538`: a T1 that had to be detached leaves `clean` true;
  `core/src/recordings.rs:195` describes clean as all workers joined. `VerdictIsTrue`
  therefore speaks of joined workers.
- `main.rs:471`: after a Ctrl-C that T3 sees first, the watch may record
  `context-thread-exited`, against `core/src/recordings.rs:108`.
- `main.rs:309`: with `--duration-secs` the watch sleeps until the deadline in one
  wait, so no stall is noticed before it.
- `raw_input.rs:868`: a WM_QUIT posted to a T1 that has no message queue yet is lost
  and the join hangs, against `:71` ("join() can never hang") and `docs/GUIDE.md:589`.
  It is the exception `QuitLost` in `EveryEndIsReached`.
- `raw_input.rs:105`, `shipping.rs:78`: a wake overtaken in the store buffer may cost
  the long idle park, not only the short one; `NoOtherWakeIsLost` says which can be lost.
- `raw_input.rs:33-37`: the timer stays armed after an empty anchored drain
  (`IdleIsFree`); `:252`: stamps need not ascend after a peeked report (`StampsAscend`);
  a timer that keeps failing makes every drain late.
- A config edit during the agent's start goes unnoticed, a failed reload loses the
  edit, and a latency maximum may land in the neighbouring window; a warning's
  `forwarded` count that was suppressed is never logged.
- An undelivered marker may still be recorded, so a retry marks twice.
- `manager.rs:635-652` (and the MCP tool) accepts a label that begins with a brace, and
  answers yes once its line is in the pipe; `stdin_markers.rs:33-38` records the label
  inside it, or ignores the line when there is none.
- The panel's raw record flag and its save switch together can yield both `--record`
  and `--no-record`; a snapshot's `saving` uses the current config.

*Viz.*
- `app.js:1068-1083`: a batch that comes late stays counted as lost, as
  `engine.test.mjs:239-249` says; the page's count is no count of what is missing.
- `hub.rs:328-332`: the doc of `subscribe` excludes a duplicate session frame, but a
  subscriber between the cache update and the broadcast gets both. `ViewIsSound` does
  not forbid it.
- `stats.rs:303`: `try_reserve_client` may refuse an upgrade while another refused
  attempt has not yet given its increment back.
- `recordings.rs`: "nothing is listed that would then answer 404" is false for
  `X.JSONL` on a case-sensitive file system and for files deleted within the cache's
  time; a replay of a recording that grew is logged as incomplete; an older
  overlapping scan can overwrite a newer cached list.
- A viz restarted while the old one is stopping stays deaf: the UDP bind fails once
  and is not retried.
- `app.js`: a seek or recenter while loading corrupts checkpoints (`CheckpointsAreExact`
  excludes it); a list that answers after the switch to live starts a load in live
  mode; a leftover seek time is applied to the next recording; `loadedSession` can be
  stale (`LoadedIsHeld`); a seek that restores a checkpoint undoes a recenter;
  enlarging the trail does not rebuild dropped points.

*Panel.*
- `procs.rs`: "a kill invalidates the cache so the table never shows a process the
  panel just terminated": the kill invalidates before it terminates, and a scan between
  the two is cached. "A recycled PID never inherits a dead process's CPU sample": it
  does while the old one is still known, and its row shows the old name until the
  next enumeration. A failed snapshot hides every process for its time; an elevated
  process that has exited stays listed.
- `gui/win.rs`, `post_thread_quit`, "so `join` cannot hang": a shutdown before the
  thread id is stored hangs it (`early` in `WindowWaits`).
- A page hidden, shown and hidden again under unanswered suspensions can stay frozen
  when shown (`overlapped` in `PageIsNotFrozen`); an icon that Explorer refuses while
  the window is hidden strands it (`stranded`); the balloon says "Capture restarted"
  for a dropped press too; a controller that comes after the fallback is not closed.
- A start keeps the last run's `capture stats` (`manager.rs:1626` clears only `seen`),
  so icon, tooltip and menu show the previous run's numbers until the first report
  (`NoteIsThisRuns`), though `gui/model.rs:97-98` says the note is empty until then.
  `worth_painting` uses the wall clock with a saturating difference and goes stale when
  the clock is set back; the menu opened before the first snapshot offers to open a
  page with no address; the accelerator is shown while its registration is unknown.
- A settings form refreshed under unsaved edits may write over an edit made outside
  (`NeverWritesOver`); the config's modification time is compared in whole seconds.
- The report card can be re-targeted by a dropped click; a restarted panel whose log
  has passed the old cursor mixes two logs.

*Analyze and MCP.*
- `load/mod.rs` says that a corrupt trailing line costs one line; `next_line` uses
  `read_line`, so a torn line that is not UTF-8 fails the whole load.
- A report cache that cannot be written drops its row from the table, while the
  listing's failure is ignored; `mcp/src/analysis.rs:57-59` says such a failure is
  "never an error the user sees". A cached report is served when its file cannot be
  signed; a summary stored while the recording grew counts as fresh; a read-only hit
  does not refresh the sidecar's part.
- With no sidecar, or an unfinished one, a recording whose last batches are lost reads
  as clean. The modal rate of a session may lie outside its own band; windows pinned
  at a session's end reach twice the padding on a sparse grid; at most one unmatched
  press per button is counted.
- The doctor tool that joins a run can return an earlier run's document
  (`EarlierRunsAreNotMistaken`); `tail_file` drops a whole line when its window begins
  exactly at one; `capture_start` passes `--record` through with saving off.

## 7 What is left out

- *Inside modelled components.* `CapturePipeline`: absolute reports (their counter
  goes the way of `ring_drops`) and teardown's detaching of T1, which is in `Agent`.
  `Agent`: how stalls are measured, the registration with Windows, a poisoned lock.
  `VizHub`: rejected datagrams, markers and heartbeats (relayed like any frame
  without session state). `PanelManager`: arguments, environment, log pumps, a
  `try_wait` error (treated by the code as gone), `SIGNAL_MAX_WAIT` running out, and a
  page's request that is still waiting for the lock when `stop_all` has passed.
  `PanelWindow`: drawing and the words of the menus. `BatchWindow`: saturation of
  64-bit tick counters, which start at boot. `RecordingLoad`: JSON itself; lines are
  tagged with what their parse says, as are labels in `MarkerPath`. `MotionGrid`, `MotionMetrics`: floating point
  and spectra. `McpTools`: the stdio transport and the layout of answers.
- *Whole components*, with the reason in PROJECT.json: session setup and devices
  (straight-line start-up, OS queries), clock, logging and panic hook, wire formats,
  names of recordings, the panel's routes (they are actions of the modules they act
  on), rendering and command line of `analyze`, the tools.
- *The library code* the models rest on (tokio's broadcast, `Notify` and join set,
  std's channels, the Kafka client, WebView2, Windows message queues) is modelled as
  the code uses it and marked external in the map.

## 8 Plan

Done: the models of sections 2 and 3; the proofs of section 5, which cover every
safety property of `queues`, `capture_pipeline`, `ring_waker`, `agent`, `viz_hub`,
`panel` and `threads`, and the page of `requests`.

Next:

1. *`MCReaders`, `MCRequests`.* `CardIsRight` and `MarkersAreExact` are invariants of
   plain state machines and can be proved in their own modules, as the page's was; to
   prove about the run's module, the recursion of `McpTools` has to be written as
   recursive functions. `PlaybackIsExact` compares with an integration over the script
   and stays with TLC.
2. *Abstract specifications* still worth stating: a supervised child (started, exited,
   recorded once) for `PanelManager`, and a final verdict for the sidecar.

## 9 Running it

    tlc -workers 2 -config CapturePipeline.cfg CapturePipeline.tla
    tlc -workers 2 -config Panel.cfg MCPanel.tla
    tlapm PanelProofs.tla

`Agent`, `CapturePipeline`, `RingWaker` and `VizHub` have a configuration of their
name; `Queues`, `Panel`, `Threads`, `Readers` and `Requests` configure the MC module
of that name; `AgentMissedNotify.cfg`, `AgentStalled.cfg` (with `Agent`) and
`PanelStopAbandoned.cfg` (with `PanelManager`) are the runs that end in a violation.
