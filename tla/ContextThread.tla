---------------------------- MODULE ContextThread ----------------------------
(***************************************************************************)
(* T3 of the capture agent: four times a second it samples the desktop for *)
(* the batches T2 writes, and at longer intervals it re-measures the clock *)
(* anchor, looks at the configuration file and reports the counters.  What *)
(* it reads changes under it: the window procedure flags a new display,    *)
(* the config is edited, T1 and the sinks count on.                        *)
(*                                                                         *)
(* Time is counted in ticks.  The counters of T1 and of the sinks are one  *)
(* count of events and one of losses; a configuration is what it says of   *)
(* capture and what it says of the rest.                                   *)
(***************************************************************************)
EXTENDS Integers, Sequences

CONSTANTS Confirm,                            \* DEFAULT_CONFIRM_SAMPLES
          AnchorEvery, ConfigEvery, ReportEvery, Escalation,   \* intervals, in ticks
          Places, MaxTicks, MaxHappenings     \* bounds of the model

\* What the constants of the code satisfy.
TicksAssumption ==
    {Confirm, AnchorEvery, ConfigEvery, ReportEvery, Escalation} \subseteq Nat \ {0}

VARIABLES
    pc, now,
    geometry, unflagged, display_changed, fresh, screen,  \* the display, and how T3 learns of it
    cursor, events, last_events, delta, detector, ctx,    \* the pointer, and what T2 is told
    file, file_mtime, config_mtime, config, loaded, anchor_at, config_at,
    drifted, mail, announced,                             \* markers sent to T2
    losses, last, taken, last_at, warn_at, warned_at, recovered,
    told, seen_rest, edited_early, read_failed, happenings

envVars == <<geometry, unflagged, cursor, file, file_mtime, drifted, edited_early, happenings>>
sampleVars == <<fresh, screen, last_events, delta, detector, ctx, seen_rest>>
configVars == <<config_mtime, config, loaded, anchor_at, config_at, mail, announced, read_failed>>
reportVars == <<last, taken, last_at, warn_at, warned_at, recovered, told>>
vars == <<pc, now, display_changed, events, losses, envVars, sampleVars, configVars, reportVars>>

Nowhere == 0                    \* the cursor cannot be read
Bodies == [capture : {1, 2}, other : {1, 2}, valid : BOOLEAN]
NewDetector == [last |-> Nowhere, run |-> 0, locked |-> FALSE]
Startup == [capture |-> 1, other |-> 1, valid |-> TRUE]

Init ==
    /\ pc = "starting" /\ now = 0
    /\ geometry = 1 /\ unflagged = FALSE /\ display_changed = FALSE /\ fresh = FALSE /\ screen = 1
    /\ cursor = 1 /\ events = 0 /\ last_events = 0 /\ delta = 0
    /\ detector = NewDetector
    /\ ctx = [locked |-> FALSE, screen |-> 1, cursor |-> 1]
    /\ file = Startup /\ file_mtime = 1 /\ config_mtime = 1 /\ config = Startup /\ loaded = Startup
    /\ anchor_at = 0 /\ config_at = 0 /\ drifted = FALSE /\ mail = FALSE /\ announced = FALSE
    /\ losses = 0 /\ last = 0 /\ taken = 0 /\ last_at = 0
    /\ warn_at = 0 /\ warned_at = 0 /\ recovered = 0 /\ told = 0
    /\ seen_rest = 0 /\ edited_early = FALSE /\ read_failed = FALSE /\ happenings = 0

-----------------------------------------------------------------------------
(* What happens around T3.                                                 *)

Happens(next) ==
    /\ pc # "done" /\ happenings < MaxHappenings /\ happenings' = happenings + 1
    /\ next
    /\ UNCHANGED <<pc, now, sampleVars, configVars, reportVars>>

DisplayChanges ==
    Happens(/\ geometry' = 3 - geometry /\ unflagged' = TRUE
            /\ UNCHANGED <<display_changed, events, losses, cursor, file, file_mtime, drifted, edited_early>>)
\* wnd_proc, WM_DISPLAYCHANGE.
MarkDisplayChanged ==
    /\ unflagged /\ unflagged' = FALSE /\ display_changed' = TRUE
    /\ UNCHANGED <<pc, now, events, losses, geometry, cursor, file, file_mtime, drifted, edited_early,
                   happenings, sampleVars, configVars, reportVars>>
PointerMoves(to) ==
    Happens(/\ cursor' = to
            /\ UNCHANGED <<display_changed, events, losses, geometry, unflagged, file, file_mtime, drifted, edited_early>>)
EventsArrive ==
    Happens(/\ events' = events + 1
            /\ UNCHANGED <<display_changed, losses, geometry, unflagged, cursor, file, file_mtime, drifted, edited_early>>)
EnvelopesAreLost ==
    Happens(/\ losses' = losses + 1
            /\ UNCHANGED <<display_changed, events, geometry, unflagged, cursor, file, file_mtime, drifted, edited_early>>)
ClockDrifts ==
    Happens(/\ drifted' = TRUE
            /\ UNCHANGED <<display_changed, events, losses, geometry, unflagged, cursor, file, file_mtime, edited_early>>)
EditConfig(body) ==
    Happens(/\ file' = body /\ file_mtime' = file_mtime + 1
            /\ edited_early' = (edited_early \/ pc = "starting")
            /\ UNCHANGED <<display_changed, events, losses, geometry, unflagged, cursor, drifted>>)

-----------------------------------------------------------------------------
(* A tick: run and sample.                                                 *)

\* The config was loaded before the thread started; its file's time is read here.
Start ==
    /\ pc = "starting" /\ pc' = "top" /\ config_mtime' = file_mtime /\ screen' = geometry
    /\ last_events' = events
    /\ UNCHANGED <<now, display_changed, events, losses, envVars, fresh, delta, detector, ctx, seen_rest,
                   config, loaded, anchor_at, config_at, mail, announced, read_failed, reportVars>>

TakeDisplayChanged ==
    /\ pc = "top" /\ now < MaxTicks /\ pc' = "screen"
    /\ fresh' = display_changed /\ display_changed' = FALSE
    /\ UNCHANGED <<now, events, losses, envVars, screen, last_events, delta, detector, ctx, seen_rest,
                   configVars, reportVars>>

ReadScreen ==
    /\ pc = "screen" /\ pc' = "sample"
    /\ screen' = IF fresh THEN geometry ELSE screen
    /\ delta' = events - last_events /\ last_events' = events
    /\ UNCHANGED <<now, display_changed, events, losses, envVars, fresh, detector, ctx, seen_rest,
                   configVars, reportVars>>

\* PointerLockDetector::observe: frozen while deltas flow, often enough.
\* Faulty variant: an idle desk is evidence too.
FrozenIsEnough(d, pos, flowed) ==
    IF d.last = Nowhere \/ d.last # pos THEN [last |-> pos, run |-> 0, locked |-> FALSE]
    ELSE [last |-> pos, run |-> d.run + 1, locked |-> d.locked \/ d.run + 1 >= Confirm]
Observe(d, pos, flowed) ==
    IF d.last # Nowhere /\ d.last = pos /\ flowed
    THEN [last |-> pos, run |-> d.run + 1, locked |-> d.locked \/ d.run + 1 >= Confirm]
    ELSE [last |-> pos, run |-> 0, locked |-> FALSE]

\* seen_rest: how many events there were when the cursor was first seen where
\* it is.
Sample ==
    /\ pc = "sample" /\ pc' = "anchor"
    /\ detector' = IF cursor = Nowhere THEN detector ELSE Observe(detector, cursor, delta > 0)
    /\ seen_rest' = IF cursor \in {Nowhere, detector.last} THEN seen_rest ELSE last_events
    /\ ctx' = [locked |-> detector'.locked, screen |-> screen, cursor |-> cursor]
    /\ UNCHANGED <<now, display_changed, events, losses, envVars, fresh, screen, last_events, delta,
                   configVars, reportVars>>

-----------------------------------------------------------------------------
(* The anchor and the configuration file.  A marker goes to T2's channel,  *)
(* and T2 may be parked: it is woken after the send.                       *)

CheckAnchor ==
    /\ pc = "anchor"
    /\ IF now - anchor_at < AnchorEvery
       THEN pc' = "stat" /\ UNCHANGED <<anchor_at, mail>>
       ELSE pc' = "wake_anchor" /\ anchor_at' = now /\ mail' = (mail \/ drifted)
    /\ UNCHANGED <<now, display_changed, events, losses, envVars, sampleVars,
                   config_mtime, config, loaded, config_at, announced, read_failed, reportVars>>

\* waker.wake().
\* Faulty variant: T2 is woken for the anchor's marker only.
WakeForAnchor ==
    /\ pc \in {"wake_anchor", "wake_config"}
    /\ pc' = (IF pc = "wake_anchor" THEN "stat" ELSE "report")
    /\ mail' = (mail /\ pc = "wake_config")
    /\ UNCHANGED <<now, display_changed, events, losses, envVars, sampleVars,
                   config_mtime, config, loaded, anchor_at, config_at, announced, read_failed, reportVars>>
Wake ==
    /\ pc \in {"wake_anchor", "wake_config"}
    /\ pc' = (IF pc = "wake_anchor" THEN "stat" ELSE "report")
    /\ mail' = FALSE
    /\ UNCHANGED <<now, display_changed, events, losses, envVars, sampleVars,
                   config_mtime, config, loaded, anchor_at, config_at, announced, read_failed, reportVars>>

\* The file's time is taken before its text.
StatConfig ==
    /\ pc = "stat"
    /\ IF now - config_at < ConfigEvery
       THEN pc' = "report" /\ UNCHANGED <<config_at, config_mtime>>
       ELSE /\ config_at' = now /\ config_mtime' = file_mtime
            /\ pc' = IF file_mtime = config_mtime THEN "report" ELSE "load"
    /\ UNCHANGED <<now, display_changed, events, losses, envVars, sampleVars,
                   config, loaded, anchor_at, mail, announced, read_failed, reportVars>>

\* AppConfig::load, which a writer of the file may make fail.
LoadConfig ==
    /\ pc = "load"
    /\ \E ok \in BOOLEAN :
          IF ok /\ file.valid
          THEN pc' = "diff" /\ loaded' = file /\ read_failed' = FALSE
          ELSE pc' = "wake_config" /\ read_failed' = TRUE /\ UNCHANGED loaded
    /\ UNCHANGED <<now, display_changed, events, losses, envVars, sampleVars,
                   config_mtime, config, anchor_at, config_at, mail, announced, reportVars>>

\* describe_config_change: what a recording was started from, and no more.
Changed(was, is) == was.capture # is.capture

\* When the text is compared, its time is the one read before it.
\* Faulty variant: it is read again.
MtimeAgain == file_mtime
MtimeTaken == config_mtime

ReloadConfig ==
    /\ pc = "diff" /\ pc' = "wake_config"
    /\ IF Changed(config, loaded)
       THEN config' = loaded /\ mail' = TRUE /\ announced' = TRUE
       ELSE UNCHANGED <<config, mail, announced>>
    /\ config_mtime' = MtimeTaken
    /\ UNCHANGED <<now, display_changed, events, losses, envVars, sampleVars,
                   loaded, anchor_at, config_at, read_failed, reportVars>>

-----------------------------------------------------------------------------
(* Reporter: one window of the counters, and what is worth a warning.      *)

TakeSnapshot ==
    /\ pc = "report"
    /\ IF now - last_at < ReportEvery THEN pc' = "sleep" /\ UNCHANGED taken
       ELSE pc' = "escalate" /\ taken' = losses
    /\ UNCHANGED <<now, display_changed, events, losses, envVars, sampleVars, configVars,
                   last, last_at, warn_at, warned_at, recovered, told>>

\* The next window starts at the snapshot this one ended with.
\* Faulty variant: at the counters as they are by then.
CountersNow == losses
WindowEnd == taken

\* What the window lost (compute_report, sink_losses_delta).
Lost == taken - last

\* ConditionLimiter::observe; warn_at is 0 while the condition does not hold.
Escalate ==
    LET losing == Lost > 0
        warn == losing /\ (warn_at = 0 \/ now >= warn_at)
    IN  /\ pc = "escalate" /\ pc' = "sleep"
        /\ told' = told + Lost /\ last' = WindowEnd /\ last_at' = now
        /\ warn_at' = IF ~losing THEN 0 ELSE IF warn THEN now + Escalation ELSE warn_at
        /\ warned_at' = IF warn THEN now ELSE warned_at
        /\ recovered' = IF ~losing /\ warn_at # 0 THEN recovered + 1 ELSE recovered
        /\ UNCHANGED <<now, display_changed, events, losses, envVars, sampleVars, configVars, taken>>

Sleep ==
    /\ pc = "sleep" /\ pc' = "top" /\ now' = now + 1
    /\ UNCHANGED <<display_changed, events, losses, envVars, sampleVars, configVars, reportVars>>
\* The shutdown signal is looked at between two ticks.
Stop ==
    /\ pc = "top" /\ pc' = "done"
    /\ UNCHANGED <<now, display_changed, events, losses, envVars, sampleVars, configVars, reportVars>>

T3 == Start \/ TakeDisplayChanged \/ ReadScreen \/ Sample \/ CheckAnchor \/ Wake \/ StatConfig
      \/ LoadConfig \/ ReloadConfig \/ TakeSnapshot \/ Escalate \/ Sleep
Next ==
    \/ T3 \/ Stop
    \/ DisplayChanges \/ MarkDisplayChanged \/ EventsArrive \/ EnvelopesAreLost \/ ClockDrifts
    \/ \E to \in Places \cup {Nowhere} : PointerMoves(to)
    \/ \E body \in Bodies : EditConfig(body)
Spec == Init /\ [][Next]_vars

-----------------------------------------------------------------------------
(* What the batches, the recording and the log rely on.                    *)

\* A display change is in the screen T3 knows, or T3 will look again.
ScreenIsKnown ==
    screen = geometry \/ unflagged \/ display_changed \/ (pc = "screen" /\ fresh) \/ pc = "starting"

\* A pointer is called locked only after it rested through as many events as
\* samples are asked for, and never when it was seen to move.
LockIsEarned ==
    ctx.locked => /\ last_events - seen_rest >= Confirm
                  /\ ctx.cursor \in {Nowhere, detector.last}

\* Between two ticks no marker waits for a T2 that was not woken, and the
\* config's capture settings are the file's unless the file is newer than what
\* was looked at, could not be read, or was edited while the agent started.
EditsAreMarked ==
    pc = "top" => /\ ~mail
                  /\ \/ config.capture = file.capture \/ config_mtime # file_mtime
                     \/ read_failed \/ edited_early
                  /\ config.capture # Startup.capture => announced

\* Every loss is in exactly one window of the reports.
LossesAreTold == pc \in {"top", "report"} => told = last /\ told <= losses

\* A window with losses warns, unless the incident it belongs to did so less
\* than an interval ago; the end of an incident is reported once.
IncidentsAreWarned ==
    [][last_at' # last_at =>
         /\ (taken > last) => warned_at' = now \/ (warn_at # 0 /\ now - warned_at < Escalation)
         /\ recovered' > recovered <=> (taken = last /\ warn_at # 0)
         /\ warned_at' = now => warn_at = 0 \/ now - warned_at >= Escalation]_vars
=============================================================================
