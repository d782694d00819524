------------------------------ MODULE MCThreads ------------------------------
(***************************************************************************)
(* The threads that carry a report from the mouse to the page, each with   *)
(* its surroundings: T1's message loop, the clock of T2's batches          *)
(* (BatchWindow, which this module extends), T2's delivery to the sinks,   *)
(* the context thread T3, and the server's UDP task with its statistics    *)
(* reporter.  CapturePipeline and RingWaker have the memory T1 and T2      *)
(* share.  A behaviour is one of `machine`; the others stay where they     *)
(* start.                                                                  *)
(***************************************************************************)
EXTENDS BatchWindow

CONSTANTS
    Coalesce, CadenceSlack, TimerSlack, MaxGap, BufferReports,
    CapTime, MaxReports, MaxPerTick, MaxMessages, MaxErrors, MaxDelay,   \* CaptureThread
    Confirm, AnchorEvery, ConfigEvery, ReportEvery, Escalation, Places,
    MaxTicks, MaxHappenings,                     \* ContextThread
    Wrap, WarnInterval, TickInterval, ResendInterval, HeartbeatInterval,
    Budget, SinkSets, ShipTime, MaxDrops, MaxBatches, MaxFailures,  \* Shipper
    Width, Buckets, StallAfter, LogEvery, HeartbeatEvery, FeedTime,
    MaxDatagrams,                                                   \* FeedStats
    TrueLatencies, ClockSkew    \* a batch's latencies, and how late the viewer's clock is

VARIABLES machine,
    \* CaptureThread
    cap_pc, cap_now, timer, fires, due, live, wake, prev_now, stamper, queue,
    messages, read, cap_errors, quit_at, delay,
    \* ContextThread
    ctx_pc, ctx_now, geometry, unflagged, display_changed, fresh, screen,
    cursor, events, last_events, delta, detector, ctx, file, file_mtime,
    config_mtime, config, loaded, anchor_at, config_at, drifted, mail,
    ctx_announced, losses, last, taken, last_at, warn_at, ctx_warned_at,
    recovered, ctx_told, seen_rest, edited_early, read_failed, happenings,
    \* Shipper
    ship_pc, ship_now, sinks, stopping, last_tick, last_resend, gate,
    batches, drops, drops_last, ship_errors, limiter, ship_deadline, share,
    ship_closed, sidecar, attempts, ship_told, ship_warned_at, sessions,
    beats, opening, ship_announced, heard,
    \* FeedStats
    count, latency, gaps, sum, negative, last_latency, last_datagram,
    udp_bound, clients, feed_now, todo, datagram, rep, recorded, feed_closed,
    lines

capVars == <<cap_pc, cap_now, timer, fires, due, live, wake, prev_now,
             stamper, queue, messages, read, cap_errors, quit_at, delay>>
ctxVars == <<ctx_pc, ctx_now, geometry, unflagged, display_changed, fresh,
             screen, cursor, events, last_events, delta, detector, ctx, file,
             file_mtime, config_mtime, config, loaded, anchor_at, config_at,
             drifted, mail, ctx_announced, losses, last, taken, last_at,
             warn_at, ctx_warned_at, recovered, ctx_told, seen_rest,
             edited_early, read_failed, happenings>>
shipVars == <<ship_pc, ship_now, sinks, stopping, last_tick, last_resend,
              gate, batches, drops, drops_last, ship_errors, limiter,
              ship_deadline, share, ship_closed, sidecar, attempts,
              ship_told, ship_warned_at, sessions, beats, opening,
              ship_announced, heard>>
feedVars == <<count, latency, gaps, sum, negative, last_latency,
              last_datagram, udp_bound, clients, feed_now, todo, datagram,
              rep, recorded, feed_closed, lines>>

Cap == INSTANCE CaptureThread WITH
          Slack <- CadenceSlack, MaxTime <- CapTime, pc <- cap_pc,
          now <- cap_now, errors <- cap_errors

Ctx == INSTANCE ContextThread WITH
          pc <- ctx_pc, now <- ctx_now, announced <- ctx_announced,
          warned_at <- ctx_warned_at, told <- ctx_told

Ship == INSTANCE Shipper WITH
          MaxTime <- ShipTime, pc <- ship_pc, now <- ship_now,
          errors <- ship_errors, deadline <- ship_deadline,
          closed <- ship_closed, told <- ship_told,
          warned_at <- ship_warned_at, announced <- ship_announced

Feed == INSTANCE FeedStats WITH
          Latencies <- {l - ClockSkew : l \in TrueLatencies},
          MaxTime <- FeedTime, now <- feed_now, closed <- feed_closed

ASSUME CadenceFits == Cap!CadenceAssumption
ASSUME TicksFit == Ctx!TicksAssumption
ASSUME IntervalsFit == Ship!IntervalsAssumption
ASSUME StatsFit == Feed!StatsAssumption

\* A machine that does not run has one initial state.
MCInit ==
    /\ machine \in {"window", "capture", "context", "shipper", "feed"}
    /\ Init /\ Cap!Init /\ Ctx!Init /\ Ship!Init /\ Feed!Init
    /\ machine # "capture" => timer = "none"
    /\ machine # "shipper" => sinks = CHOOSE some \in SinkSets : TRUE
    /\ clients = 0                       \* nobody watches: the log may be kept back

WindowSteps == machine = "window" /\ Next /\ UNCHANGED <<capVars, ctxVars, shipVars, feedVars>>
CaptureSteps == machine = "capture" /\ Cap!Next /\ UNCHANGED <<vars, ctxVars, shipVars, feedVars>>
ContextSteps == machine = "context" /\ Ctx!Next /\ UNCHANGED <<vars, capVars, shipVars, feedVars>>
ShipperSteps == machine = "shipper" /\ Ship!Next /\ UNCHANGED <<vars, capVars, ctxVars, feedVars>>
FeedSteps == machine = "feed" /\ Feed!Next /\ UNCHANGED <<vars, capVars, ctxVars, shipVars>>

MCNext ==
    /\ WindowSteps \/ CaptureSteps \/ ContextSteps \/ ShipperSteps \/ FeedSteps
    /\ UNCHANGED machine

MCSpec == MCInit /\ [][MCNext]_<<machine, vars, capVars, ctxVars, shipVars, feedVars>>

-----------------------------------------------------------------------------
\* T1 reads every report within the cadence it is configured for, stamps it
\* close to its arrival, and stops promptly when asked to.
ReportsAreTimely ==
    machine = "capture" => Cap!ReportsAreRead /\ Cap!StampsAreClose /\ Cap!QuitIsPrompt

\* T3's picture of screen, pointer lock, configuration and losses is the one
\* the system had, whatever changes between two of its looks.
ContextIsTrue ==
    machine = "context" =>
        Ctx!ScreenIsKnown /\ Ctx!LockIsEarned /\ Ctx!EditsAreMarked /\ Ctx!LossesAreTold

\* Each sink is sent what is meant for it, its failures are counted, the live
\* view hears from an idle agent, and every sink gets its share of the close.
SinksAreServed ==
    machine = "shipper" => /\ Ship!FailuresAreCounted /\ Ship!RecordingHasOneSession
                           /\ Ship!LiveIsNotSilent /\ Ship!CloseIsFair

\* The statistics windows divide what the server's UDP task observed, and the
\* log tells every batch, error and change of state of the feed.
FeedIsAccounted == machine = "feed" => Feed!FeedIsAccounted

\* Warnings come with the incident and no oftener than they may, and a drop of
\* T1's is told with the next batch.
WarningsAreTimely == Ctx!IncidentsAreWarned /\ Ship!WarningsAreRare /\ Ship!DropsAreAnnounced
=============================================================================
