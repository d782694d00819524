------------------------------- MODULE MCPanel -------------------------------
(***************************************************************************)
(* The control panel.  A behaviour is of one `machine`: the manager of its *)
(* children, which is the module's own, its window, or the feed between    *)
(* the manager and the window.  The other machines stay in their first     *)
(* state.                                                                  *)
(***************************************************************************)
EXTENDS PanelManager, Sequences

CONSTANTS NavRetries, MaxShows, MaxTaskbars,         \* PanelWindow
          HiddenEvery, Clickers, MaxOps, FeedShows   \* PanelFeed
ASSUME EveryIsPositive == HiddenEvery \in Nat \ {0}

VARIABLES machine,
    \* PanelWindow
    ui, main, quit, queue, win, tray, web, timers, rt, window_shows,
    taskbars, early, overlapped, stranded,
    \* PanelFeed
    agent, ops, task, restarting, pub, poke, work, chan, posted, visible,
    showing, feed_shows, view, text, icon

windowVars == <<ui, main, quit, queue, win, tray, web, timers, rt,
                window_shows, taskbars, early, overlapped, stranded>>
feedVars == <<agent, ops, task, restarting, pub, poke, work, chan, posted,
              visible, showing, feed_shows, view, text,
              icon>>

-----------------------------------------------------------------------------
Window == INSTANCE PanelWindow WITH shows <- window_shows

Feed == INSTANCE PanelFeed WITH MaxShows <- FeedShows, shows <- feed_shows

Machines == {"manager", "window", "feed"}

\* A machine that does not run has one initial state.
MCInit ==
    /\ machine \in Machines
    /\ Init /\ Window!Init /\ Feed!Init
    /\ machine # "feed" => agent = Feed!Stopped

ManagerSteps ==
    machine = "manager" /\ Next
    /\ UNCHANGED <<windowVars, feedVars>>
WindowSteps ==
    machine = "window" /\ Window!Next
    /\ UNCHANGED <<vars, feedVars>>
FeedSteps ==
    machine = "feed" /\ Feed!Next
    /\ UNCHANGED <<vars, windowVars>>

MCNext ==
    /\ ManagerSteps \/ WindowSteps \/ FeedSteps
    /\ UNCHANGED machine

\* Each machine's own fairness, a conjunct for every thread.
MCFairness ==
    /\ \A c \in Components :
          /\ WF_vars(machine = "manager" /\ StopStep(c))
          /\ WF_vars(machine = "manager" /\ NotifyWork(c))
    /\ WF_vars(machine = "manager" /\ (ReaperWaits \/ Reap))
    /\ WF_vars(machine = "manager" /\ (ShutdownTakes \/ ShutdownReturns \/ Exit))
    /\ WF_windowVars(machine = "window" /\ Window!Ui)
    /\ WF_windowVars(machine = "window" /\ Window!Watchdog)
    /\ WF_windowVars(machine = "window" /\ Window!NavTimer)
    /\ WF_windowVars(machine = "window" /\ Window!OnNavigated)
    /\ WF_windowVars(machine = "window" /\ (Window!Shutdown \/ Window!Join))
    /\ WF_feedVars(machine = "feed" /\ (Feed!Publish \/ Feed!IdleWakes))
    /\ WF_feedVars(machine = "feed" /\ (Feed!Refresh \/ Feed!ShowPokes))
    /\ \A a \in Feed!Actors : WF_feedVars(machine = "feed" /\ Feed!Steps(a))

mcVars == <<machine, vars, windowVars, feedVars>>
MCSpec == MCInit /\ [][MCNext]_mcVars /\ MCFairness

-----------------------------------------------------------------------------
\* The window shows one view, awake and reachable, and what it says of the
\* children is what it was last told.
WindowIsTrue ==
    /\ machine = "window" => Window!WindowIsSound
    /\ machine = "feed" => Feed!FeedIsTrue

\* No exit stays unrecorded, no stop, no shutdown and no page under way stays
\* so, and the icon comes to tell the truth.
Waits ==
    CASE machine = "manager" -> ShutsDown
      [] machine = "window" -> Window!WindowWaits
      [] machine = "feed" -> Feed!FeedWaits
      [] OTHER -> FALSE
EverythingSettles == SlotsSettle /\ []<>~Waits
=============================================================================
