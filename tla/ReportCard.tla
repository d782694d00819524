----------------------------- MODULE ReportCard -----------------------------
(***************************************************************************)
(* The report card of the panel's page (panel.js watchReport, runTool,     *)
(* paintReport, fetchSummary): a report is started, the page's polls show  *)
(* when its process has ended, then the summary is asked for and shown,    *)
(* unless the card has been closed or is another recording's by then.      *)
(* PanelPage takes the poll itself apart.  A summary run of the panel      *)
(* (report_summary) is one at a time, and its answer is of the recording   *)
(* it was asked for.                                                       *)
(***************************************************************************)
EXTENDS Naturals, Sequences, FiniteSets

CONSTANTS Recordings,      \* what a report can be made of; 0 is null
          MaxClicks,       \* bound: reports asked for, here or on another page
          MaxFails         \* bound: requests that fail and restarts of the panel

VARIABLES panel,      \* its instance, whether the report task runs, how often it ended and how
          reply,      \* a poll that has been answered: << >> or the panel then
          state,      \* the page's last state; << >> before
          act,        \* the "report" action in flight
          report,     \* the card
          fetches,    \* fetchSummary calls: the recording asked for and how far
          lock,       \* summary_lock
          clicks, fails

vars == <<panel, reply, state, act, report, fetches, lock, clicks, fails>>
others == <<fetches, lock, clicks, fails>>

NoReport == [id |-> 0, summary |-> 0, error |-> FALSE, loading |-> FALSE, watch |-> <<>>,
             asked |-> FALSE]    \* history: act took the click up
NoAct == [at |-> "idle", ok |-> FALSE]

Init ==
    /\ panel = [instance |-> 1, running |-> FALSE, exits |-> 0, good |-> TRUE]
    /\ reply = <<>> /\ state = <<>>
    /\ act = NoAct /\ report = NoReport /\ fetches = {} /\ lock = <<>>
    /\ clicks = 0 /\ fails = 0

-----------------------------------------------------------------------------
(* The panel and the polls.                                                *)

TaskEnds ==
    /\ panel.running
    /\ \E good \in BOOLEAN :
          panel' = [panel EXCEPT !.running = FALSE, !.exits = @ + 1, !.good = good]
    /\ UNCHANGED <<reply, state, act, report, others>>
\* Another page may have it run.
TaskStartsElsewhere ==
    /\ ~panel.running /\ clicks < MaxClicks /\ clicks' = clicks + 1
    /\ panel' = [panel EXCEPT !.running = TRUE]
    /\ UNCHANGED <<reply, state, act, report, fetches, lock, fails>>
Restart ==
    /\ fails < MaxFails /\ fails' = fails + 1
    /\ panel' = [panel EXCEPT !.instance = @ + 1, !.running = FALSE, !.exits = 0]
    /\ UNCHANGED <<reply, state, act, report, fetches, lock, clicks>>

ServePoll ==
    /\ reply = <<>> /\ reply' = <<panel>>
    /\ UNCHANGED <<panel, state, act, report, others>>

\* Faulty variant: the run is over when no report runs.
NoneRuns(s) == report.loading /\ report.watch # <<>> /\ ~s.running
RunHasEnded(s) ==
    report.loading /\ report.watch # <<>> /\ ~s.running /\ s.exits > report.watch[1]

\* What arrives is painted: the end of the watched run is taken up once.
PollAnswer ==
    /\ reply # <<>>
    /\ state' = reply /\ reply' = <<>>
    /\ IF ~RunHasEnded(reply[1]) THEN UNCHANGED <<report, fetches>>
       ELSE IF reply[1].good
       THEN /\ report' = [report EXCEPT !.watch = <<>>]
            /\ fetches' = fetches \cup {[id |-> report.id, at |-> "asked"]}
       ELSE /\ report' = [report EXCEPT !.watch = <<>>, !.loading = FALSE, !.error = TRUE]
            /\ UNCHANGED fetches
    /\ UNCHANGED <<panel, act, lock, clicks, fails>>

-----------------------------------------------------------------------------
(* runTool, with watchReport before act looks whether one is in flight.    *)

\* The button of a row is never disabled: a click that act drops still has its card.
WatchReport(id) ==
    report' = [NoReport EXCEPT !.id = id, !.loading = TRUE, !.watch = <<state[1].exits>>,
                               !.asked = act.at = "idle"]
RunTool(id) ==
    /\ state # <<>> /\ clicks < MaxClicks /\ clicks' = clicks + 1
    /\ WatchReport(id)
    /\ act' = IF act.at = "idle" THEN [at |-> "sent", ok |-> FALSE] ELSE act
    /\ UNCHANGED <<panel, reply, state, fetches, lock, fails>>
\* AlreadyRunning, or a run of its own.
ServeStart ==
    /\ act.at = "sent"
    /\ act' = [at |-> "answered", ok |-> ~panel.running]
    /\ panel' = [panel EXCEPT !.running = TRUE]
    /\ UNCHANGED <<reply, state, report, others>>
StartFails ==
    /\ act.at = "sent" /\ fails < MaxFails /\ fails' = fails + 1
    /\ act' = [act EXCEPT !.at = "answered"]
    /\ UNCHANGED <<panel, reply, state, report, fetches, lock, clicks>>
StartAnswer ==
    /\ act.at = "answered" /\ act' = NoAct
    /\ report' = IF act.ok THEN report ELSE [report EXCEPT !.id = 0, !.loading = FALSE]
    /\ UNCHANGED <<panel, reply, state, others>>
CloseCard ==
    /\ report.id # 0
    /\ report' = [report EXCEPT !.id = 0]
    /\ UNCHANGED <<panel, reply, state, act, others>>

-----------------------------------------------------------------------------
(* fetchSummary and report_summary.                                        *)

Move(f, to) == fetches' = (fetches \ {f}) \cup {[f EXCEPT !.at = to]}

\* A card that was closed while it waited asks for null, which is no id.
BadId(f) ==
    /\ f.at = "asked" /\ f.id = 0
    /\ Move(f, "failed")
    /\ UNCHANGED <<panel, reply, state, act, report, lock, clicks, fails>>
Analyze(f) ==
    /\ f.at = "asked" /\ f.id # 0 /\ lock = <<>>
    /\ lock' = <<f.id>> /\ Move(f, "running")
    /\ UNCHANGED <<panel, reply, state, act, report, clicks, fails>>
Analyzed(f) ==
    /\ f.at = "running" /\ lock' = <<>>
    /\ \/ Move(f, "done") /\ UNCHANGED fails
       \/ Move(f, "failed") /\ fails < MaxFails /\ fails' = fails + 1
    /\ UNCHANGED <<panel, reply, state, act, report, clicks>>

\* Faulty variant: an answer is taken for the card that is shown.
AnyCard(f) == TRUE
SameCard(f) == report.id = f.id
SummaryAnswer(f) ==
    /\ f.at \in {"done", "failed"}
    /\ fetches' = fetches \ {f}
    /\ report' = IF ~SameCard(f) THEN report
                 ELSE IF f.at = "done" THEN [report EXCEPT !.loading = FALSE, !.summary = f.id]
                 ELSE [report EXCEPT !.loading = FALSE, !.error = TRUE]
    /\ UNCHANGED <<panel, reply, state, act, lock, clicks, fails>>

Fetch(f) == BadId(f) \/ Analyze(f) \/ Analyzed(f) \/ SummaryAnswer(f)

Next ==
    \/ TaskEnds \/ TaskStartsElsewhere \/ Restart \/ ServePoll \/ PollAnswer
    \/ (\E id \in Recordings : RunTool(id)) \/ ServeStart \/ StartFails \/ StartAnswer \/ CloseCard
    \/ \E f \in fetches : Fetch(f)

Spec == /\ Init /\ [][Next]_vars
        /\ WF_vars(TaskEnds) /\ WF_vars(ServePoll) /\ WF_vars(PollAnswer)
        /\ WF_vars(ServeStart) /\ WF_vars(StartAnswer)
        /\ WF_vars(\E f \in fetches : Fetch(f))

-----------------------------------------------------------------------------
(* An open card shows the summary of its own recording, and one that waits *)
(* for the run it asked for has something to wait for: the start on its    *)
(* way, a run, an end that a poll will show, or a summary asked for it.    *)
CardIsRight ==
    /\ report.id # 0 /\ report.summary # 0 => report.summary = report.id
    /\ report.id # 0 /\ report.loading /\ report.asked /\ panel.instance = 1 =>
          \/ act.at # "idle" \/ panel.running
          \/ report.watch # <<>> /\ panel.exits > report.watch[1]
          \/ \E f \in fetches : f.id = report.id

(* An open card whose run was asked for stops waiting, unless the panel    *)
(* that counts the exits is restarted.                                     *)
CardWaits == report.id # 0 /\ report.loading /\ report.asked /\ panel.instance = 1
CardSettles == CardWaits ~> ~CardWaits
=============================================================================
