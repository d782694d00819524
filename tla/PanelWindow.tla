---------------------------- MODULE PanelWindow ----------------------------
(***************************************************************************)
(* The panel's window (crates/ctl/src/gui/win.rs, webview.rs and the power *)
(* states of model.rs): one thread with a message loop owns the window,    *)
(* its tray icon and the page hosted in it.  Everything the runtime of the *)
(* page does is asked for and answered later, by a message: the            *)
(* environment, the controller, a navigation, a suspension.  Meanwhile the *)
(* user shows and hides the window, a watchdog gives up, and main ends the *)
(* thread.                                                                 *)
(*                                                                         *)
(* External: the runtime (WebView2) answers each request once, in its own  *)
(* time.  A suspension asked for while the page was hidden may go through  *)
(* at any time before its answer.                                          *)
(***************************************************************************)
EXTENDS Integers, Sequences

CONSTANTS NavRetries,      \* NAV_RETRIES
          MaxShows,        \* bound: times the window is shown or hidden
          MaxTaskbars      \* bound: times Explorer restarts

VARIABLES ui,          \* the thread: born, known (its id is stored), making, opened (the window
                         \* and its handle are stored), running, closing, ended
          main,        \* main: serving, posted (what shutdown sent was sent), joined
          quit,        \* main has been asked to stop
          queue,       \* messages that end the loop
          win,         \* visible, exiting, swallow, session_ending
          tray,        \* tray_added; icon: one stands in the tray
          web,         \* phase, has_page, can_suspend, page_shown, nav_retries, power, text, opened
          timers,      \* SetTimer: watchdog, nav
          rt,          \* the runtime: what is asked, whether the page is visible or frozen
          shows, taskbars,
          early,       \* history: shutdown found no queue to post to
          overlapped,  \* history: the window was hidden again under an unanswered suspension
          stranded     \* history: the icon was lost under a hidden window

vars == <<ui, main, quit, queue, win, tray, web, timers, rt, shows, taskbars, early, overlapped, stranded>>
thread == <<ui, main, quit, queue, early>>
page == <<web, timers, rt, overlapped>>
desk == <<win, tray, taskbars, stranded>>

NoRuntime == [env |-> FALSE, controller |-> FALSE, navigating |-> FALSE, asks |-> 0,
              answers |-> <<>>, visible |-> FALSE, frozen |-> FALSE]
NewHost == [phase |-> "idle", has_page |-> FALSE, can_suspend |-> FALSE, page_shown |-> FALSE,
            nav_retries |-> 0, power |-> "visible", text |-> TRUE, opened |-> 0]

Init ==
    /\ ui = "born" /\ main = "serving" /\ quit = FALSE /\ queue = {}
    /\ win = [visible |-> TRUE, exiting |-> FALSE, swallow |-> FALSE, session_ending |-> FALSE]
    /\ tray = [added |-> FALSE, icon |-> FALSE]
    /\ web = NewHost /\ timers = {} /\ rt = NoRuntime
    /\ shows = 0 /\ taskbars = 0
    /\ early = FALSE /\ overlapped = FALSE /\ stranded = FALSE

-----------------------------------------------------------------------------
(* The page's power states (model.rs).  A decision is the next state and   *)
(* what is to be done.                                                     *)

Decide(state, act) == [state |-> state, act |-> act]
PowerShow(state) ==
    Decide("visible", IF state \in {"suspending", "suspended"} THEN "resume_and_show" ELSE "show")
PowerHide(state, can) ==
    IF state \in {"visible", "hidden_awake"} /\ can THEN Decide("suspending", "hide_and_suspend")
    ELSE IF state = "visible" THEN Decide("hidden_awake", "hide")
    ELSE Decide(state, "nothing")
\* Faulty variant: an answer that comes after the window is back is forgotten.
ForgetLateAnswer(state, ok) ==
    IF state = "suspending" THEN Decide(IF ok THEN "suspended" ELSE "hidden_awake", "nothing")
    ELSE Decide(state, "nothing")
PowerSuspended(state, ok) ==
    IF state = "suspending" THEN Decide(IF ok THEN "suspended" ELSE "hidden_awake", "nothing")
    ELSE IF state = "visible" /\ ok THEN Decide("visible", "resume")
    ELSE Decide(state, "nothing")

\* power: the decision is recorded, and carried out where there is a page.  A
\* suspension may be refused on the spot, which is an answer of its own.
Carried(r, act) ==
    [r EXCEPT !.visible = IF act \in {"show", "resume_and_show"} THEN TRUE
                          ELSE IF act \in {"hide", "hide_and_suspend"} THEN FALSE ELSE @,
              !.frozen = IF act \in {"resume", "resume_and_show"} THEN FALSE ELSE @,
              !.asks = IF act = "hide_and_suspend" THEN @ + 1 ELSE @]
Power(w, r, d) ==
    /\ \/ /\ web' = [w EXCEPT !.power = d.state]
          /\ rt' = IF w.has_page THEN Carried(r, d.act) ELSE r
       \/ /\ w.has_page /\ d.act = "hide_and_suspend"
          /\ web' = [w EXCEPT !.power = PowerSuspended(d.state, FALSE).state]
          /\ rt' = Carried(r, "hide")
    /\ overlapped' = (overlapped \/ (w.has_page /\ d.act = "hide_and_suspend" /\ rt.asks > 0))
CanSuspend(w) == w.can_suspend /\ w.page_shown

-----------------------------------------------------------------------------
(* begin, on_environment, on_controller, attach, on_navigated, timer.      *)

Loop == ui = "running"

\* close and fallback: the page is released, the browser stands in (once), the
\* text view is the window.
GiveUp(r, open_browser) ==
    /\ \E opens \in BOOLEAN :
         web' = [web EXCEPT !.phase = "fallback", !.has_page = FALSE, !.can_suspend = FALSE,
                            !.power = "visible", !.text = TRUE,
                            !.opened = IF open_browser /\ @ = 0 /\ opens THEN @ + 1 ELSE @]
    /\ timers' = {} /\ rt' = [r EXCEPT !.visible = FALSE, !.frozen = FALSE, !.navigating = FALSE]
    /\ UNCHANGED overlapped

Begin ==
    /\ ui = "opened" /\ ui' = "running"
    /\ \/ GiveUp(rt, FALSE) \/ GiveUp(rt, TRUE)
       \/ /\ web' = [web EXCEPT !.phase = "creating"] /\ timers' = {"watchdog"}
          /\ rt' = [rt EXCEPT !.env = TRUE] /\ UNCHANGED overlapped
    /\ UNCHANGED <<main, quit, queue, early, desk, shows>>

OnEnvironment ==
    /\ Loop /\ rt.env
    /\ IF web.phase # "creating" THEN rt' = [rt EXCEPT !.env = FALSE] /\ UNCHANGED <<web, timers, overlapped>>
       ELSE \/ rt' = [rt EXCEPT !.env = FALSE, !.controller = TRUE] /\ UNCHANGED <<web, timers, overlapped>>
            \/ GiveUp([rt EXCEPT !.env = FALSE], TRUE)
    /\ UNCHANGED <<thread, desk, shows>>

\* attach sets up the page and navigates; a step of it may fail.
Attached(can) ==
    /\ web' = [web EXCEPT !.phase = "hosted", !.has_page = TRUE, !.can_suspend = can, !.text = FALSE,
                          !.power = IF win.visible THEN "visible" ELSE "hidden_awake"]
    /\ timers' = timers \ {"watchdog"}
    /\ rt' = [rt EXCEPT !.controller = FALSE, !.visible = win.visible, !.navigating = TRUE]
    /\ UNCHANGED overlapped
OnController ==
    /\ Loop /\ rt.controller
    /\ IF web.phase # "creating" THEN rt' = [rt EXCEPT !.controller = FALSE] /\ UNCHANGED <<web, timers, overlapped>>
       ELSE GiveUp([rt EXCEPT !.controller = FALSE], TRUE) \/ \E can \in BOOLEAN : Attached(can)
    /\ UNCHANGED <<thread, desk, shows>>

Watchdog ==
    /\ Loop /\ "watchdog" \in timers
    /\ IF web.phase = "creating" THEN GiveUp(rt, TRUE)
       ELSE timers' = timers \ {"watchdog"} /\ UNCHANGED <<web, rt, overlapped>>
    /\ UNCHANGED <<thread, desk, shows>>

\* A page that has loaded behind a hidden window is offered for suspension.
OnNavigated ==
    /\ Loop /\ rt.navigating /\ web.phase = "hosted"
    /\ LET loaded == [web EXCEPT !.nav_retries = 0, !.page_shown = TRUE] IN
       \/ /\ IF win.visible
             THEN web' = loaded /\ rt' = [rt EXCEPT !.navigating = FALSE] /\ UNCHANGED overlapped
             ELSE Power(loaded, [rt EXCEPT !.navigating = FALSE], PowerHide(web.power, CanSuspend(loaded)))
          /\ UNCHANGED timers
       \/ /\ web.nav_retries < NavRetries
          /\ web' = [web EXCEPT !.nav_retries = @ + 1] /\ timers' = timers \cup {"nav"}
          /\ rt' = [rt EXCEPT !.navigating = FALSE] /\ UNCHANGED overlapped
       \/ web.nav_retries = NavRetries /\ GiveUp(rt, TRUE)
    /\ UNCHANGED <<thread, desk, shows>>
NavTimer ==
    /\ Loop /\ "nav" \in timers
    /\ \/ /\ timers' = timers \ {"nav"}
          /\ rt' = [rt EXCEPT !.navigating = web.has_page] /\ UNCHANGED <<web, overlapped>>
       \/ web.has_page /\ GiveUp(rt, TRUE)
    /\ UNCHANGED <<thread, desk, shows>>

\* The runtime carries out a suspension, or finds the page busy; the answer
\* arrives as a message.
Suspends(ok) ==
    /\ rt.asks > Len(rt.answers)
    /\ rt' = [rt EXCEPT !.answers = Append(@, ok), !.frozen = @ \/ (ok /\ web.has_page)]
    /\ UNCHANGED <<thread, desk, shows, web, timers, overlapped>>
OnSuspended ==
    /\ Loop /\ rt.answers # <<>>
    /\ LET d == PowerSuspended(web.power, Head(rt.answers))
           heard == [rt EXCEPT !.answers = Tail(@), !.asks = @ - 1]
       IN  /\ web' = [web EXCEPT !.power = d.state]
           /\ rt' = IF web.has_page THEN Carried(heard, d.act) ELSE heard
    /\ UNCHANGED <<thread, desk, shows, timers, overlapped>>

-----------------------------------------------------------------------------
(* set_visible and what leads to it.                                       *)

SetVisible(w, show) ==
    /\ win' = [w EXCEPT !.visible = show]
    /\ Power(web, rt, IF show THEN PowerShow(web.power) ELSE PowerHide(web.power, CanSuspend(web)))
RequestExit ==
    IF win.exiting THEN UNCHANGED <<win, quit>>
    ELSE win' = [win EXCEPT !.exiting = TRUE, !.visible = FALSE] /\ quit' = TRUE
Still == UNCHANGED <<ui, main, queue, early, tray, taskbars, stranded, timers>>

\* A click on the icon; a double click is a click, this, and another click.
Click ==
    /\ Loop /\ tray.icon /\ shows < MaxShows /\ shows' = shows + 1
    /\ IF win.swallow THEN win' = [win EXCEPT !.swallow = FALSE] /\ UNCHANGED <<web, rt, overlapped>>
       ELSE SetVisible(win, ~win.visible)
    /\ Still /\ UNCHANGED quit
DoubleClick ==
    /\ Loop /\ tray.icon /\ ~win.swallow /\ shows < MaxShows /\ shows' = shows + 1
    /\ SetVisible([win EXCEPT !.swallow = TRUE], TRUE)
    /\ Still /\ UNCHANGED quit
Minimise ==
    /\ Loop /\ win.visible /\ tray.added /\ shows < MaxShows /\ shows' = shows + 1
    /\ SetVisible(win, FALSE) /\ Still /\ UNCHANGED quit
\* Faulty variant: closing hides the window, icon or not.
AlwaysHide(shift) == ~shift
\* on_close: to the tray unless there is no icon to bring it back with.
ClosesToTray(shift) == ~shift /\ tray.added
Close ==
    /\ Loop /\ win.visible
    /\ \E shift \in BOOLEAN :
         IF ClosesToTray(shift)
         THEN shows < MaxShows /\ shows' = shows + 1 /\ SetVisible(win, FALSE) /\ UNCHANGED quit
         ELSE RequestExit /\ UNCHANGED <<web, rt, overlapped, shows>>
    /\ Still
MenuExit == /\ Loop /\ tray.icon /\ RequestExit
            /\ UNCHANGED <<web, rt, overlapped, shows>> /\ Still
\* WM_QUERYENDSESSION, WM_ENDSESSION: the children are stopped first, once.
EndSession ==
    /\ Loop /\ ~win.session_ending
    /\ win' = [win EXCEPT !.session_ending = TRUE, !.exiting = TRUE] /\ quit' = TRUE
    /\ UNCHANGED <<web, rt, overlapped, shows>> /\ Still
\* Explorer restarted: its icons are gone, ours is added again.
TaskbarCreated ==
    /\ Loop /\ taskbars < MaxTaskbars /\ taskbars' = taskbars + 1
    /\ \E ok \in BOOLEAN : tray' = [added |-> ok, icon |-> ok] /\ stranded' = (~ok /\ (stranded \/ ~win.visible))
    /\ UNCHANGED <<thread, page, win, shows>>

-----------------------------------------------------------------------------
(* run and GuiHandle::shutdown.                                            *)

StoreId == ui = "born" /\ ui' = "known" /\ UNCHANGED <<main, quit, queue, early, page, desk, shows>>
\* The thread's first call into the window system gives it a message queue.
MakeQueue == ui = "known" /\ ui' = "making" /\ UNCHANGED <<main, quit, queue, early, page, desk, shows>>
\* The window, or none: then the thread ends and the panel stays a web page.
CreateWindow ==
    /\ ui = "making"
    /\ \/ ui' = "ended" /\ UNCHANGED tray
       \/ ui' = "opened" /\ \E ok \in BOOLEAN : tray' = [added |-> ok, icon |-> ok]
    /\ UNCHANGED <<main, quit, queue, early, page, win, taskbars, stranded, shows>>

StopAsked == /\ main = "serving" /\ ~quit /\ quit' = TRUE
             /\ UNCHANGED <<ui, main, queue, early, page, desk, shows>>
\* A quit to the window that is stored and to the thread that is stored, each
\* of which is lost where there is nothing to post to.
Shutdown ==
    /\ main = "serving" /\ quit /\ main' = "posted"
    /\ queue' = (IF ui \in {"opened", "running"} THEN {"window"} ELSE {})
              \cup (IF ui \in {"making", "opened", "running"} THEN {"thread"} ELSE {})
    /\ early' = (ui \in {"born", "known"})
    /\ UNCHANGED <<ui, quit, page, desk, shows>>
Join == /\ main = "posted" /\ ui = "ended" /\ main' = "joined"
        /\ UNCHANGED <<ui, quit, queue, early, page, desk, shows>>

\* on_quit takes the icon away; either message ends the loop.
LeaveLoop ==
    /\ Loop /\ queue # {} /\ ui' = "closing"
    /\ tray' = IF "window" \in queue THEN [added |-> FALSE, icon |-> FALSE] ELSE tray
    /\ UNCHANGED <<main, quit, queue, early, page, win, taskbars, stranded, shows>>
\* teardown: the page, then the icon; the state goes last.
Teardown ==
    /\ ui = "closing" /\ ui' = "ended"
    /\ web' = [web EXCEPT !.has_page = FALSE, !.can_suspend = FALSE, !.power = "visible"]
    /\ timers' = {} /\ rt' = NoRuntime
    /\ tray' = [added |-> FALSE, icon |-> tray.icon /\ ~tray.added]
    /\ UNCHANGED <<main, quit, queue, early, overlapped, win, taskbars, stranded, shows>>

-----------------------------------------------------------------------------
Ui == StoreId \/ MakeQueue \/ CreateWindow \/ Begin \/ LeaveLoop \/ Teardown
Answers == OnEnvironment \/ OnController \/ OnNavigated \/ OnSuspended
Next ==
    \/ Ui \/ Answers \/ Watchdog \/ NavTimer \/ (\E ok \in BOOLEAN : Suspends(ok))
    \/ Click \/ DoubleClick \/ Minimise \/ Close \/ MenuExit \/ EndSession \/ TaskbarCreated
    \/ StopAsked \/ Shutdown \/ Join

Spec == Init /\ [][Next]_vars /\ WF_vars(Ui) /\ WF_vars(Watchdog) /\ WF_vars(NavTimer)
             /\ WF_vars(OnNavigated) /\ WF_vars(Shutdown) /\ WF_vars(Join)

-----------------------------------------------------------------------------
(* Properties.                                                             *)

\* The page in a visible window is never left suspended once the runtime's
\* answers are in, whatever the order of hiding, showing and answering, as
\* long as a suspension is not asked for while another is unanswered
\* (power_show, power_hide, power_suspended, power).
PageIsNotFrozen ==
    (win.visible /\ web.phase = "hosted" /\ rt.answers = <<>> /\ ~overlapped) => ~rt.frozen

\* The window shows the page or the text, never neither: what is answered
\* after the watchdog or a failure has given up changes nothing, no timer
\* outlives the page, and the browser is opened once (fallback, close, attach).
OneViewStands ==
    /\ (web.phase = "hosted") = ~web.text
    /\ web.phase = "hosted" /\ Loop => web.has_page
    /\ web.phase = "fallback" => ~web.has_page /\ timers = {} /\ ~rt.frozen
    /\ web.opened <= 1

\* A hidden window can be brought back: an icon stands in the tray unless the
\* panel is stopping or Explorer refused it while the window was hidden.
HiddenIsReachable ==
    Loop /\ ~win.visible => tray.added \/ win.exiting \/ stranded
\* No icon is left behind.
IconIsTakenAway == ui = "ended" => ~tray.icon

WindowIsSound == PageIsNotFrozen /\ OneViewStands /\ HiddenIsReachable /\ IconIsTakenAway

\* The window leaves the state of waiting for its page, and whoever shuts it
\* down gets its thread back, if that thread had a queue to post to.
WindowWaits ==
    \/ Loop /\ (web.phase = "creating" \/ (web.phase = "hosted" /\ ~web.page_shown))
    \/ quit /\ main # "joined" /\ ~early
=============================================================================
