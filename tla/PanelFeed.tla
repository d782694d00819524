----------------------------- MODULE PanelFeed -----------------------------
(***************************************************************************)
(* What the window and the tray show of the panel's children               *)
(* (crates/ctl/src/gui/feed.rs, refresh in win.rs, worth_painting in       *)
(* model.rs).  A publisher on the runtime takes snapshots of the manager,  *)
(* every second while the window is visible, seldom while it is hidden,    *)
(* and only when told while nothing runs either; the window's thread       *)
(* paints what changed.  The menu, the page and the new-session hotkey     *)
(* start and stop the capture agent meanwhile, and it may end by itself.   *)
(*                                                                         *)
(* Of what is shown only the words are kept, that is whether the agent     *)
(* runs and saves: the numbers beside them are painted again now and then. *)
(***************************************************************************)
EXTENDS Integers

CONSTANTS HiddenEvery,     \* HIDDEN_EVERY
          Clickers,        \* who starts and stops: the "menu", the "page"
          MaxOps,          \* bound: starts, stops and restarts asked for
          MaxShows         \* bound: times the window is shown or hidden

VARIABLES agent,      \* the slot: running, saving, in_stop
          ops,          \* requests ever made
          task,         \* who starts or stops: at, save
          restarting,   \* a new_session is in flight
          pub,          \* the publisher: at, idle, tick, poked, vis, words
          poke, work,   \* the permit of poke; the wait for work: registered, notified
          chan, posted, \* the watch channel; WM_APP_REFRESH is posted
          visible, showing, shows,
          view,         \* the page: loading, hosted, or the text instead of it
          text, icon    \* what is painted

vars == <<agent, ops, task, restarting, pub, poke, work, chan, posted, visible, showing, shows, view, text,
          icon>>
children == <<agent, ops, task, restarting>>
window == <<visible, showing, shows, view, text, icon>>
publishing == <<pub, chan, posted>>

Actors == Clickers \cup {"hotkey"}
Rest == [at |-> "rest", save |-> FALSE]
Stopped == [running |-> FALSE, saving |-> FALSE, in_stop |-> FALSE]
Words(a) == [running |-> a.running, saving |-> a.saving]

Init ==
    /\ agent \in {Stopped, [Stopped EXCEPT !.running = TRUE]} /\ ops = 0
    /\ task = [a \in Actors |-> Rest] /\ restarting = FALSE
    /\ pub = [at |-> "head", idle |-> FALSE, tick |-> 0, poked |-> FALSE, vis |-> FALSE,
              words |-> Words(Stopped)]
    /\ poke = TRUE /\ work = [registered |-> FALSE, notified |-> FALSE]
    /\ chan = [words |-> Words(Stopped), full |-> FALSE] /\ posted = FALSE
    /\ visible = TRUE /\ showing = FALSE /\ shows = 0 /\ view = "loading"
    /\ text = Words(Stopped) /\ icon = Words(Stopped)

-----------------------------------------------------------------------------
(* start, stop, new_session, and the manager they ask (external here: see  *)
(* PanelManager).                                                          *)

Ask(a, stage, save) ==
    /\ task[a].at = "rest" /\ ops < MaxOps /\ ops' = ops + 1
    /\ task' = [task EXCEPT ![a] = [at |-> stage, save |-> save]]
    /\ UNCHANGED <<agent, publishing, poke, work, window>>
\* feed::start and api_start; feed::stop and api_stop.
AskStart(a) == (\E save \in BOOLEAN : Ask(a, "start", save)) /\ UNCHANGED restarting
AskStop(a) == Ask(a, "stop", FALSE) /\ UNCHANGED restarting
\* new_session: one at a time, a second press is dropped.
Press == ~restarting /\ Ask("hotkey", "restart", TRUE) /\ restarting' = TRUE

\* The child is taken out of its slot, or there is none to stop.
Detach(a) ==
    /\ task[a].at \in {"stop", "restart"}
    /\ IF agent.running /\ ~agent.in_stop
       THEN /\ agent' = [agent EXCEPT !.in_stop = TRUE]
            /\ task' = [task EXCEPT ![a].at = IF @ = "stop" THEN "stopping" ELSE "restopping"]
       ELSE /\ task' = [task EXCEPT ![a].at = IF @ = "stop" THEN "tell" ELSE "start"]
            /\ UNCHANGED agent
    /\ UNCHANGED <<ops, restarting, publishing, poke, work, window>>
StopEnds(a) ==
    /\ task[a].at \in {"stopping", "restopping"}
    /\ agent' = Stopped
    /\ task' = [task EXCEPT ![a].at = IF @ = "stopping" THEN "notify" ELSE "restopped"]
    /\ UNCHANGED <<ops, restarting, publishing, poke, work, window>>
\* notify_waiters: whoever is registered, and nobody later.
Notify == work' = [work EXCEPT !.notified = @ \/ work.registered]
StartRuns(a) ==
    /\ task[a].at = "start"
    /\ IF agent.running
       THEN task' = [task EXCEPT ![a].at = "tell"] /\ UNCHANGED agent
       ELSE \/ /\ agent' = [running |-> TRUE, saving |-> task[a].save, in_stop |-> FALSE]
               /\ task' = [task EXCEPT ![a].at = "notify"]
            \/ task' = [task EXCEPT ![a].at = "tell"] /\ UNCHANGED agent
    /\ UNCHANGED <<ops, restarting, publishing, poke, work, window>>
NotifyWork(a) ==
    /\ task[a].at \in {"notify", "restopped"} /\ Notify
    /\ task' = IF task[a].at = "restopped" THEN [task EXCEPT ![a].at = "start"]
               ELSE IF a = "page" THEN [task EXCEPT ![a] = Rest]
               ELSE [task EXCEPT ![a].at = "tell"]
    /\ UNCHANGED <<agent, ops, restarting, publishing, poke, window>>
\* What the window asked for ends with a poke; the page has its own poll.
Tell(a) ==
    /\ task[a].at = "tell" /\ task' = [task EXCEPT ![a] = Rest]
    /\ poke' = (poke \/ a # "page")
    /\ restarting' = (restarting /\ a # "hotkey")
    /\ UNCHANGED <<agent, ops, publishing, work, window>>
AgentEnds ==
    /\ agent.running /\ ~agent.in_stop /\ agent' = Stopped
    /\ UNCHANGED <<ops, task, restarting, publishing, poke, work, window>>

-----------------------------------------------------------------------------
(* run_publisher.                                                          *)

Woken(poked) == pub' = [pub EXCEPT !.at = "load", !.poked = poked, !.tick = (@ + 1) % HiddenEvery]
\* Once in every round: how to wait.
Head ==
    /\ pub.at = "head"
    /\ pub' = [pub EXCEPT !.at = IF pub.idle /\ ~visible THEN "idle" ELSE "select"]
    /\ UNCHANGED <<children, chan, posted, poke, work, window>>
Select ==
    /\ pub.at = "select"
    /\ \/ Woken(FALSE) /\ UNCHANGED poke
       \/ Woken(TRUE) /\ poke /\ poke' = FALSE
    /\ UNCHANGED <<children, chan, posted, work, window>>
\* Faulty variant: whether something runs is asked before the wait is
\* registered.
AskFirst ==
    /\ pub.at = "idle"
    /\ IF agent.running THEN Woken(TRUE) ELSE pub' = [pub EXCEPT !.at = "idle_wait"]
    /\ work' = [registered |-> FALSE, notified |-> FALSE]
    /\ UNCHANGED <<children, chan, posted, poke, window>>
\* An idle publisher registers first, then asks whether something runs.
Register ==
    /\ pub.at = "idle"
    /\ work' = [registered |-> TRUE, notified |-> FALSE] /\ pub' = [pub EXCEPT !.at = "ask"]
    /\ UNCHANGED <<children, chan, posted, poke, window>>
AskRunning ==
    /\ pub.at = "ask"
    /\ IF agent.running
       THEN Woken(TRUE) /\ work' = [registered |-> FALSE, notified |-> FALSE]
       ELSE pub' = [pub EXCEPT !.at = "idle_wait"] /\ UNCHANGED work
    /\ UNCHANGED <<children, chan, posted, poke, window>>
\* The poke, the work, or IDLE_WAIT.
IdleWakes ==
    /\ pub.at = "idle_wait"
    /\ (poke /\ poke' = FALSE) \/ UNCHANGED poke
    /\ Woken(TRUE) /\ work' = [registered |-> FALSE, notified |-> FALSE]
    /\ UNCHANGED <<children, chan, posted, window>>
\* Whether the window is visible is read after the wait.
LoadVisible ==
    /\ pub.at = "load"
    /\ pub' = IF ~pub.poked /\ ~visible /\ pub.tick # 0 THEN [pub EXCEPT !.at = "head"]
              ELSE [pub EXCEPT !.at = "snapshot", !.vis = visible, !.poked = FALSE]
    /\ UNCHANGED <<children, chan, posted, poke, work, window>>
\* The manager's state, and the process list while the window is visible.
Snapshot ==
    /\ pub.at = "snapshot"
    /\ pub' = [pub EXCEPT !.at = "send", !.words = Words(agent), !.idle = ~agent.running]
    /\ UNCHANGED <<children, chan, posted, poke, work, window>>
\* The snapshot goes to the channel, and the window is woken: a window that
\* paints in between paints the same once more.
Send ==
    /\ pub.at = "send" /\ pub' = [pub EXCEPT !.at = "head", !.words = Words(Stopped), !.vis = FALSE]
    /\ chan' = [words |-> pub.words, full |-> pub.vis] /\ posted' = TRUE
    /\ UNCHANGED <<children, poke, work, window>>
Publish ==
    Head \/ Select \/ Register \/ AskRunning \/ LoadVisible \/ Snapshot \/ Send

-----------------------------------------------------------------------------
(* The window's thread: refresh, set_visible.  While it shows the window it *)
(* takes no message.                                                       *)

\* The text is painted where it can be seen, the icon always.
Paint(v) ==
    /\ text' = (IF visible /\ v # "hosted" THEN chan.words ELSE text)
    /\ icon' = chan.words
Refresh ==
    /\ ~showing /\ posted /\ posted' = FALSE /\ Paint(view)
    /\ UNCHANGED <<children, pub, chan, poke, work, visible, showing, shows, view>>
\* The page covers the text, or is given up and the text is painted again.
Hosts ==
    /\ ~showing /\ view = "loading" /\ view' = "hosted"
    /\ UNCHANGED <<children, publishing, poke, work, visible, showing, shows, text, icon>>
FallsBack ==
    /\ ~showing /\ view # "fallback" /\ view' = "fallback" /\ Paint("fallback")
    /\ UNCHANGED <<children, publishing, poke, work, visible, showing, shows>>
\* A window that is visible may be shown once more.
Show ==
    /\ ~showing /\ shows < MaxShows /\ shows' = shows + 1
    /\ visible' = TRUE /\ showing' = TRUE
    /\ UNCHANGED <<children, publishing, poke, work, view, text, icon>>
\* Fresh numbers now, not at the next tick.
ShowPokes ==
    /\ showing /\ showing' = FALSE /\ poke' = TRUE
    /\ UNCHANGED <<children, publishing, work, visible, shows, view, text, icon>>
Hide ==
    /\ visible /\ ~showing /\ shows < MaxShows /\ shows' = shows + 1 /\ visible' = FALSE
    /\ UNCHANGED <<children, publishing, poke, work, showing, view, text, icon>>

-----------------------------------------------------------------------------
Steps(a) == Detach(a) \/ StopEnds(a) \/ StartRuns(a) \/ NotifyWork(a) \/ Tell(a)
Next ==
    \/ \E a \in Clickers : AskStart(a) \/ AskStop(a)
    \/ Press \/ \E a \in Actors : Steps(a)
    \/ AgentEnds \/ Publish \/ IdleWakes
    \/ Refresh \/ Hosts \/ FallsBack \/ Show \/ ShowPokes \/ Hide

Spec == Init /\ [][Next]_vars /\ WF_vars(Publish) /\ WF_vars(IdleWakes) /\ WF_vars(Refresh)
             /\ WF_vars(ShowPokes) /\ \A a \in Actors : WF_vars(Steps(a))

-----------------------------------------------------------------------------
(* Properties.                                                             *)

\* A publisher that sleeps because nothing runs has missed no start: whatever
\* has started since has woken it or is about to (the order of enable and
\* any_running in run_publisher).
IdleMissesNothing ==
    pub.at = "idle_wait" /\ agent.running =>
       \/ work.notified \/ poke
       \/ \E a \in Actors : task[a].at = "notify"

\* Between two rounds: nothing is taken or sent.
Waiting == pub.at \in {"head", "select", "idle", "ask", "idle_wait"}

\* The first thing in a window that is shown again is a full snapshot, with
\* the process list no hidden window asks for (visible is read after the wait,
\* and stored before the poke).
ShownIsFull ==
    Waiting /\ visible /\ ~showing /\ ~poke => chan.full

\* The text in a visible window is what was last sent, though it stood still
\* behind the page or while the window was hidden; the icon is never behind
\* (refresh, show_text_view, set_visible).
PaintIsTrue ==
    ~posted =>
       /\ icon = chan.words
       /\ Waiting /\ visible /\ view # "hosted" /\ ~showing /\ ~poke => text = chan.words

FeedIsTrue == IdleMissesNothing /\ ShownIsFull /\ PaintIsTrue

\* The icon comes to show whether the agent and a restart ends.
FeedWaits == icon # Words(agent) \/ restarting
=============================================================================
