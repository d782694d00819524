----------------------------- MODULE PanelPage -----------------------------
(***************************************************************************)
(* The panel's page (crates/ctl/src/panel.js) against the panel            *)
(* (manager.rs): one poll at a time however many ask for one, a log that   *)
(* is sent from a cursor on and put together again on the page, and an     *)
(* action that is seen in the state its own poll fetches.  The page may be *)
(* put to sleep, a request may fail, and the panel may be restarted under  *)
(* an open page.                                                           *)
(*                                                                         *)
(* The output of a component is numbered from 1; a line is its number and  *)
(* the panel's instance.                                                   *)
(***************************************************************************)
EXTENDS Integers, Sequences, SequencesExt, FiniteSets, FiniteSetsExt

CONSTANTS LogCapacity,     \* LOG_CAPACITY, lines a ring keeps
          LogLines,        \* log_lines, lines a page holds
          MaxLines,        \* bound: lines a component writes
          MaxClicks,       \* bound: actions
          MaxFails,        \* bound: requests that fail
          MaxRestarts      \* bound: restarts of the panel

VARIABLES panel,       \* its instance, the log's sequence number, a count of changes
          state,       \* the page's last state
          log,         \* logs: << >> or the cursor and the lines held
          pollRun, pollAgain, timer, awake,
          act,         \* the action in flight: a start, a stop, a kill, ...
          clicks, fails,
          mixed        \* history: a restarted panel had written past the cursor

vars == <<panel, state, log, pollRun, pollAgain, timer, awake, act, clicks, fails, mixed>>
polling == <<state, log, pollRun, pollAgain, timer, awake, mixed>>

NoPoll == [at |-> "none", cursor |-> <<>>, reply |-> <<>>]
NoAct == [at |-> "idle", needs |-> 0]

Init ==
    /\ panel = [instance |-> 1, seq |-> 0, changes |-> 0]
    /\ state = 0 /\ log = <<>>
    /\ pollRun = NoPoll /\ pollAgain = FALSE /\ timer = FALSE /\ awake = FALSE
    /\ act = NoAct /\ clicks = 0 /\ fails = 0 /\ mixed = FALSE

-----------------------------------------------------------------------------
(* The panel: LogRing, LogSink::read, the state a poll is answered with.   *)

Kept == Min({panel.seq, LogCapacity})
\* tail and since, as the range of line numbers that is sent.
LastLines == (panel.seq - Min({Kept, LogLines}) + 1)..panel.seq
Since(cursor) ==
    LET first == panel.seq - Kept
        skip == Max({cursor - first, 0})
    IN  IF skip >= Kept THEN {}
        ELSE (first + Max({skip, Kept - LogLines}) + 1)..panel.seq
Read(cursor) == IF cursor = <<>> THEN LastLines ELSE Since(cursor[1])

Output == /\ panel.seq < MaxLines
          /\ panel' = [panel EXCEPT !.seq = @ + 1]
          /\ UNCHANGED <<polling, act, clicks, fails>>
Restart ==
    /\ panel.instance <= MaxRestarts
    /\ panel' = [panel EXCEPT !.instance = @ + 1, !.seq = 0, !.changes = @ + 1]
    /\ UNCHANGED <<polling, act, clicks, fails>>

-----------------------------------------------------------------------------
(* poll, pollOnce, mergeLogs.                                              *)

\* logCursor.
CursorOf(l) == IF l = <<>> THEN <<>> ELSE <<l[1].seq>>

\* Faulty variant: whoever asks while a poll is in flight gets that poll.
JoinPoll ==
    IF pollRun.at # "none" THEN UNCHANGED <<pollRun, pollAgain, timer>>
    ELSE /\ pollRun' = [at |-> "asked", cursor |-> CursorOf(log), reply |-> <<>>]
         /\ pollAgain' = FALSE /\ timer' = FALSE
Poll ==
    IF pollRun.at # "none" THEN pollAgain' = TRUE /\ UNCHANGED <<pollRun, timer>>
    ELSE /\ pollRun' = [at |-> "asked", cursor |-> CursorOf(log), reply |-> <<>>]
         /\ pollAgain' = FALSE /\ timer' = FALSE

ServePoll ==
    /\ pollRun.at = "asked"
    /\ pollRun' = [pollRun EXCEPT !.at = "served", !.reply =
                     <<panel @@ [lines |-> Read(pollRun.cursor)]>>]
    /\ UNCHANGED <<panel, state, log, pollAgain, timer, awake, mixed, act, clicks, fails>>

Numbered(instance, numbers) ==
    [i \in 1..Cardinality(numbers) |-> <<instance, Min(numbers) + i - 1>>]
Held(lines) == SubSeq(lines, Max({Len(lines) - LogLines, 0}) + 1, Len(lines))

\* Faulty variant: what comes is always taken to follow on.
AlwaysAppend(prev, reply) ==
    <<[seq |-> reply.seq,
       lines |-> Held((IF prev = <<>> THEN <<>> ELSE prev[1].lines)
                      \o Numbered(reply.instance, reply.lines))]>>
\* A cursor from before a restart is forgotten; after a gap the log starts over.
MergeLogs(prev, reply) ==
    LET fresh == Numbered(reply.instance, reply.lines)
        restart == prev = <<>> \/ reply.seq - Len(fresh) > prev[1].seq
    IN  IF prev # <<>> /\ reply.seq < prev[1].seq THEN <<>>
        ELSE <<[seq |-> reply.seq,
                lines |-> IF restart THEN Held(fresh) ELSE Held(prev[1].lines \o fresh)]>>

\* A round ends: another one when one was asked for, else whoever waits goes
\* on and the next poll is scheduled.
RoundEnds(newlog) ==
    IF pollAgain /\ awake
    THEN /\ pollRun' = [at |-> "asked", cursor |-> CursorOf(newlog), reply |-> <<>>]
         /\ pollAgain' = FALSE /\ UNCHANGED <<timer, act>>
    ELSE /\ pollRun' = NoPoll /\ timer' = awake /\ UNCHANGED pollAgain
         /\ act' = IF act.at = "polling" THEN NoAct ELSE act

PollAnswer ==
    /\ pollRun.at = "served"
    /\ LET reply == pollRun.reply[1]
       IN  /\ log' = MergeLogs(log, reply)
           /\ state' = reply.changes
           /\ mixed' = (mixed \/ (/\ log # <<>> /\ log[1].lines # <<>>
                                  /\ Head(log[1].lines)[1] # reply.instance
                                  /\ reply.seq >= log[1].seq))
           /\ RoundEnds(MergeLogs(log, reply))
    /\ UNCHANGED <<panel, awake, clicks, fails>>
PollFails ==
    /\ pollRun.at # "none" /\ fails < MaxFails /\ fails' = fails + 1
    /\ RoundEnds(log)
    /\ UNCHANGED <<panel, state, log, awake, clicks, mixed>>

TimerFires ==
    /\ timer /\ Poll
    /\ UNCHANGED <<panel, state, log, awake, mixed, act, clicks, fails>>
SleepPage ==
    /\ awake
    /\ awake' = FALSE /\ timer' = FALSE
    /\ UNCHANGED <<panel, state, log, pollRun, pollAgain, mixed, act, clicks, fails>>
WakePage ==
    /\ ~awake
    /\ awake' = TRUE /\ Poll
    /\ UNCHANGED <<panel, state, log, mixed, act, clicks, fails>>

-----------------------------------------------------------------------------
(* act: one request per key at a time, then the poll whose end is waited   *)
(* for.                                                                    *)

Click ==
    /\ clicks < MaxClicks /\ clicks' = clicks + 1
    /\ act.at \in {"idle", "polling"}
    /\ act' = [at |-> "sent", needs |-> 0]
    /\ UNCHANGED <<panel, polling, fails>>
ServeAct ==
    /\ act.at = "sent"
    /\ panel' = [panel EXCEPT !.changes = @ + 1]
    /\ act' = [at |-> "answered", needs |-> panel'.changes]
    /\ UNCHANGED <<polling, clicks, fails>>
ActFails ==
    /\ act.at = "sent" /\ fails < MaxFails /\ fails' = fails + 1
    /\ act' = [act EXCEPT !.at = "answered"]
    /\ UNCHANGED <<panel, polling, clicks>>
ActAnswer ==
    /\ act.at = "answered"
    /\ act' = [act EXCEPT !.at = "polling"]
    /\ Poll
    /\ UNCHANGED <<panel, state, log, awake, mixed, clicks, fails>>

Next ==
    \/ Output \/ Restart
    \/ ServePoll \/ PollAnswer \/ PollFails \/ TimerFires \/ SleepPage \/ WakePage
    \/ Click \/ ServeAct \/ ActFails \/ ActAnswer

Spec == Init /\ [][Next]_vars

-----------------------------------------------------------------------------
(* While somebody looks at the page exactly one of a poll and the timer of *)
(* the next is there, whatever was clicked, hidden or answered late.       *)
PollingGoesOn == awake => (timer <=> pollRun.at = "none")

(* The log on the page is the end of what the child wrote up to the        *)
(* cursor, in order, nothing twice and nothing left out, across gaps and   *)
(* restarts; save when a restarted panel had already written past the      *)
(* cursor of the one before, which nothing tells the page.                 *)
LogIsExact ==
    log # <<>> /\ ~mixed =>
        \E i \in 1..panel.instance :
            log[1].lines = Numbered(i, (log[1].seq - Min({log[1].seq, LogLines}) + 1)..log[1].seq)

PageIsSound == PollingGoesOn /\ LogIsExact

(* When an action is done its effect, or a later state, is on the page,    *)
(* even if a poll was in flight that had been answered before it; unless   *)
(* the page was hidden or the last request failed.                         *)
ActionIsSeen ==
    [][act.at = "polling" /\ act'.at = "idle" /\ awake /\ fails' = fails =>
          state' >= act.needs]_vars
=============================================================================
