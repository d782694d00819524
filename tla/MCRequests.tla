------------------------------ MODULE MCRequests ------------------------------
(***************************************************************************)
(* What somebody asks for and waits for.  A behaviour is of one `machine`: *)
(* the report over all recordings, the panel's report card, the dashboard  *)
(* loading a recording, a marker on its way to the agent, the doctor tool, *)
(* or any other MCP tool.  The other machines stay in their first state.   *)
(***************************************************************************)
EXTENDS DashboardPage

VARIABLES machine,
    \* TrendTable
    trend_disk, reports, schedule, worker, writes, disturbed,
    \* ReportCard
    panel, reply, state, act, report, fetches, lock, card_clicks, fails,
    \* MarkerPath
    run, life, stage, handle, writer, pipe, chan, recorded, taken,
    \* DoctorTool
    takes_json, ring, seq, slot, runs, pc, doc_mode, cursor, joined, polls,
    waited, answer,
    \* McpTools
    read_only, ctl_peer, viz_peer, log_len, kept, folder, call, at, got,
    tried, result, sent, arrived, changes

trendVars == <<trend_disk, reports, schedule, worker, writes, disturbed>>
cardVars == <<panel, reply, state, act, report, fetches, lock, card_clicks,
              fails>>
dashVars == vars
pipeVars == <<run, life, stage, handle, writer, pipe, chan, recorded, taken>>
docVars == <<takes_json, ring, seq, slot, runs, pc, doc_mode, cursor, joined,
             polls, waited, answer>>
toolVars == <<read_only, ctl_peer, viz_peer, log_len, kept, folder, call, at,
              got, tried, result, sent, arrived, changes>>

-----------------------------------------------------------------------------
Trend == INSTANCE TrendTable WITH
          Recordings <- 1..3, Size <- <<1, 3, 2>>, Started <- <<3, 1, 2>>,
          Budget <- 2, Unreadable <- {3}, Workers <- {1, 2}, MaxWrites <- 1,
          disk <- trend_disk

Card == INSTANCE ReportCard WITH
          Recordings <- {1, 2}, MaxClicks <- 2, MaxFails <- 1,
          clicks <- card_clicks

MCListing == <<1, 2>>
MCSpan == <<<<1, 2>>, <<4, 5>>>>

MCText == [a |-> "plain", b |-> "object", c |-> "brace"]

Pipe == INSTANCE MarkerPath WITH
          Requests <- {"a", "b", "c"}, Text <- MCText, PipeLines <- 1, MaxRuns <- 2

Doc == INSTANCE DoctorTool WITH
          Capacity <- 5, Shown <- 4, Budget <- 2, MaxOthers <- 1,
          mode <- doc_mode

Tools == INSTANCE McpTools WITH
          MaxBody <- 3, Slack <- 2, HeadUnits <- 1, Window <- 5, LineLen <- 3,
          LogLens <- {0, 4, 6, 9}, MaxLabel <- 2, MaxPid <- 3,
          Started <- <<2, 3, 1>>, Loads <- <<TRUE, TRUE, FALSE>>,
          MaxChanges <- 3

ASSUME OthersFit == Doc!DoctorAssumption /\ Pipe!TextAssumption

Machines == {"trend", "card", "dash", "pipe", "doc", "tools"}

\* A machine that does not run has one initial state.
MCInit ==
    /\ machine \in Machines
    /\ Trend!Init /\ (machine # "trend" => reports = [r \in 1..3 |-> Trend!None])
    /\ Card!Init /\ Pipe!Init
    /\ Init /\ (machine # "dash" => mode = "live")
    /\ Doc!Init /\ (machine # "doc" => takes_json)
    /\ IF machine = "tools" THEN Tools!Init ELSE Tools!Idle

TrendSteps ==
    machine = "trend" /\ Trend!Next
    /\ UNCHANGED <<cardVars, dashVars, pipeVars, docVars, toolVars>>
CardSteps ==
    machine = "card" /\ Card!Next
    /\ UNCHANGED <<trendVars, dashVars, pipeVars, docVars, toolVars>>
DashSteps ==
    machine = "dash" /\ Next
    /\ UNCHANGED <<trendVars, cardVars, pipeVars, docVars, toolVars>>
PipeSteps ==
    machine = "pipe" /\ Pipe!Next
    /\ UNCHANGED <<trendVars, cardVars, dashVars, docVars, toolVars>>
DocSteps ==
    machine = "doc" /\ Doc!Next
    /\ UNCHANGED <<trendVars, cardVars, dashVars, pipeVars, toolVars>>
ToolSteps ==
    machine = "tools" /\ Tools!Next
    /\ UNCHANGED <<trendVars, cardVars, dashVars, pipeVars, docVars>>
MCNext ==
    /\ TrendSteps \/ CardSteps \/ DashSteps \/ PipeSteps \/ DocSteps \/ ToolSteps
    /\ UNCHANGED machine

\* Each machine's own fairness.
MCFairness ==
    /\ \A w \in {1, 2} : WF_trendVars(machine = "trend" /\ Trend!Step(w))
    /\ WF_cardVars(machine = "card" /\ Card!TaskEnds)
    /\ WF_cardVars(machine = "card" /\ Card!ServePoll)
    /\ WF_cardVars(machine = "card" /\ Card!PollAnswer)
    /\ WF_cardVars(machine = "card" /\ Card!ServeStart)
    /\ WF_cardVars(machine = "card" /\ Card!StartAnswer)
    /\ WF_cardVars(machine = "card" /\ \E f \in fetches : Card!Fetch(f))
    /\ WF_dashVars(machine = "dash" /\ LoadStep)
    /\ \A r \in {"a", "b", "c"} :
          /\ WF_pipeVars(machine = "pipe" /\ Pipe!GiveUp(r))
          /\ WF_pipeVars(machine = "pipe" /\ Pipe!WriteFails(r))
    /\ WF_pipeVars(machine = "pipe" /\ Pipe!ReadLine)
    /\ WF_pipeVars(machine = "pipe" /\ Pipe!Record)
    /\ WF_docVars(machine = "doc" /\ Doc!Tool /\ UNCHANGED takes_json)
    /\ WF_toolVars(machine = "tools" /\ Tools!ToolStep)

mcVars == <<machine, trendVars, cardVars, dashVars, pipeVars, docVars, toolVars>>
MCSpec == MCInit /\ [][MCNext]_mcVars /\ MCFairness

-----------------------------------------------------------------------------
\* The table over all recordings is in order and tells what they hold, within
\* its budget; an open card shows the summary of its own recording.
ReportsAreRight ==
    /\ machine = "trend" => Trend!TrendIsSound
    /\ machine = "card" => Card!CardIsRight

\* A marker that went in is recorded once, in its run and in its turn; the
\* doctor tool's answer is a whole report or says that it is none; the other
\* tools tell what they found and read-only ones change nothing.
AnswersHold ==
    /\ machine = "pipe" => Pipe!MarkersAreExact
    /\ machine = "doc" => Doc!DoctorIsHonest
    /\ machine = "tools" => Tools!ToolsAnswerTruly
AnswersAreTrue == []AnswersHold /\ Tools!ReadOnlyChangesNothing

\* Whoever waits for one of them is answered.
Waits ==
    CASE machine = "trend" -> ~Trend!Over
      [] machine = "card" -> Card!CardWaits
      [] machine = "dash" -> loading
      [] machine = "pipe" -> Pipe!MarkerWaits
      [] machine = "doc" -> Doc!DoctorWaits
      [] machine = "tools" -> ~Tools!Answered
      [] OTHER -> FALSE
RequestsSettle == Waits ~> ~Waits
=============================================================================
