---------------------------- MODULE PanelManager ----------------------------
(***************************************************************************)
(* The control panel's children (ctl/src/manager.rs): one slot per         *)
(* component under one lock, requests that start and stop components, the  *)
(* reaper, and the panel's own shutdown.  A stop takes the child out of    *)
(* its slot and waits without the lock, so starts, other stops, reads and  *)
(* the shutdown run against a half-finished stop.  A stop from the page is *)
(* dropped with its connection; one from the tray is not, but nobody waits *)
(* for it when the panel exits.                                            *)
(*                                                                         *)
(* Children exit on their own at any moment.  Logs, arguments, flags and   *)
(* the config are left out; so is a try_wait that fails, which the code    *)
(* treats as a child that is gone.                                         *)
(***************************************************************************)
EXTENDS Integers, FiniteSets

CONSTANTS
    N,                    \* components, by their place in the catalogue
    Services,             \* those that run until stopped (Kind::Service)
    ServiceStarts,        \* bound: children of a service,
    TaskStarts            \* of a task

Components == 1..N
MaxStarts == [c \in Components |-> IF c \in Services THEN ServiceStarts ELSE TaskStarts]
Generations == UNION {1..MaxStarts[c] : c \in Components}

ASSUME ParametersAssumption ==
    /\ N \in Nat \ {0} /\ Services \subseteq Components
    /\ ServiceStarts \in Nat /\ TaskStarts \in Nat

VARIABLES
    started,              \* children spawned so far, which numbers them
    proc,                 \* every child: "none", "running", "ended", "failed"
    child,                \* slot: the child in it, or 0
    mark,                 \* slot: "no", "in_stop" or (stopping) "stopping"
    exits, unexpected,    \* slot: the exits recorded, and those nobody asked
    stopper,              \* who has the detached child: "nobody", "page",
                          \* "tray", "shutdown"
    held,                 \* the detached child, or 0
    news,                 \* finished starts and stops about to notify work
    reaper,               \* "ask", "asked", "waiting", "sleeping"
    woken,                \* has work been notified since it registered?
    panel,                \* "serving", "stopping", "draining", "exited"
    todo                  \* components stop_all_within has not come to

slotVars == <<child, mark, exits, unexpected>>
stopVars == <<stopper, held>>
reaperVars == <<reaper, woken>>
panelVars == <<panel, todo>>

VARIABLES
    taken,                \* history: children a stop has taken
    lost,                 \* history: children dropped with their stop
    spared,               \* history: children that outlived kill, or that the
                          \* shutdown passed by: late or held by another
    killed                \* history: children killed by kill_on_drop at the end

historyVars == <<taken, lost, spared, killed>>
vars == <<started, proc, slotVars, stopVars, news, reaperVars, panelVars,
          historyVars>>

Children == Components \X Generations

TypeOK ==
    /\ started \in [Components -> Nat]
    /\ proc \in [Components -> [Generations ->
                    {"none", "running", "ended", "failed"}]]
    /\ child \in [Components -> Generations \cup {0}]
    /\ mark \in [Components -> {"no", "in_stop", "stopping"}]
    /\ exits \in [Components -> Nat] /\ unexpected \in [Components -> Nat]
    /\ stopper \in [Components -> {"nobody", "page", "tray", "shutdown"}]
    /\ held \in [Components -> Generations \cup {0}]
    /\ news \subseteq Components
    /\ reaper \in {"ask", "asked", "waiting", "sleeping"}
    /\ woken \in BOOLEAN
    /\ panel \in {"serving", "stopping", "draining", "exited"}
    /\ todo \subseteq Components
    /\ taken \subseteq Children /\ lost \subseteq Children
    /\ spared \subseteq Children /\ killed \subseteq Children

Init ==
    /\ started = [c \in Components |-> 0]
    /\ proc = [c \in Components |-> [g \in Generations |-> "none"]]
    /\ child = [c \in Components |-> 0] /\ mark = [c \in Components |-> "no"]
    /\ exits = [c \in Components |-> 0] /\ unexpected = [c \in Components |-> 0]
    /\ stopper = [c \in Components |-> "nobody"]
    /\ held = [c \in Components |-> 0]
    /\ news = {} /\ reaper = "ask" /\ woken = FALSE
    /\ panel = "serving" /\ todo = {}
    /\ taken = {} /\ lost = {} /\ spared = {} /\ killed = {}

Alive == panel # "exited"
Accepting == panel \in {"serving", "stopping"}

-----------------------------------------------------------------------------
(* The slot.                                                               *)

Running(c) == child[c] # 0 \/ mark[c] = "in_stop"
Dead(c, g) == proc[c][g] \in {"ended", "failed"}

\* reap finds something: the child in the slot has exited.
HasExit(c) == mark[c] # "in_stop" /\ child[c] # 0 /\ Dead(c, child[c])
\* Faulty variant: a slot whose child is detached counts as empty.
IsGoneIfEmpty(c) == child[c] = 0 \/ HasExit(c)

\* reap's answer: nothing is left in the slot.  A detached child is its
\* stop's business.
IsGone(c) == mark[c] # "in_stop" /\ (child[c] = 0 \/ HasExit(c))

\* Faulty variant: only an exit somebody asked for.
ExpectedIfAsked(c, g, stopping) == stopping

\* An exit somebody asked for, or a task that is done.
Expected(c, g, stopping) ==
    stopping \/ (c \notin Services /\ proc[c][g] = "ended")

Count(c, yes) == IF yes THEN 1 ELSE 0

\* The slots S after reap recorded their exits.
ReapSlots(S) ==
    LET found == {c \in S : HasExit(c)}
        alarm == {c \in found : ~Expected(c, child[c], mark[c] = "stopping")}
    IN  /\ exits' = [c \in Components |-> exits[c] + Count(c, c \in found)]
        /\ unexpected' =
             [c \in Components |-> unexpected[c] + Count(c, c \in alarm)]
        /\ child' = [c \in Components |-> IF c \in found THEN 0 ELSE child[c]]
        /\ mark' = [c \in Components |-> IF c \in found THEN "no" ELSE mark[c]]

\* A child exits on its own, or because it was asked to.  A service has no
\* good end.
Exits(c) ==
    /\ \E g \in Generations,
          how \in IF c \in Services THEN {"failed"} ELSE {"ended", "failed"} :
         proc[c][g] = "running" /\ proc' = [proc EXCEPT ![c][g] = how]
    /\ UNCHANGED <<started, slotVars, stopVars, news, reaperVars, panelVars,
                   historyVars>>

\* Every state read reaps (snapshot_since, is_running, marker); so does a
\* refused start or stop, and a start whose spawn fails.
Poll(c) ==
    /\ Alive /\ HasExit(c) /\ ReapSlots({c})
    /\ UNCHANGED <<started, proc, stopVars, news, reaperVars, panelVars,
                   historyVars>>

-----------------------------------------------------------------------------
(* Start.                                                                  *)

\* stop_all has been to this component, or is over.
Late(c) == panel = "draining" \/ (panel = "stopping" /\ c \notin todo)

\* The locked part of start: refused unless reap finds the slot empty.  The
\* server accepts until stop_all is over, the tray until the very end.
Start(c) ==
    /\ Alive /\ IsGone(c) /\ started[c] < MaxStarts[c]
    /\ LET g == started[c] + 1
           alarm == HasExit(c) /\ ~Expected(c, child[c], mark[c] = "stopping")
       IN  /\ exits' = [exits EXCEPT ![c] = @ + Count(c, HasExit(c))]
           /\ unexpected' = [unexpected EXCEPT ![c] = @ + Count(c, alarm)]
           /\ started' = [started EXCEPT ![c] = g]
           /\ proc' = [proc EXCEPT ![c][g] = "running"]
           /\ child' = [child EXCEPT ![c] = g]
           /\ mark' = [mark EXCEPT ![c] = "no"]
           /\ spared' = IF Late(c) THEN spared \cup {<<c, g>>} ELSE spared
    /\ news' = news \cup {c}
    /\ UNCHANGED <<stopVars, reaperVars, panelVars, taken, lost, killed>>

-----------------------------------------------------------------------------
(* Stop: detach, then finish_stops.                                        *)

\* There is a child to stop, and no other stop has it.
CanDetach(c) == mark[c] # "in_stop" /\ ~IsGone(c)

TakeOut(c, who) ==
    /\ child' = [child EXCEPT ![c] = 0]
    /\ mark' = [mark EXCEPT ![c] = "in_stop"]
    /\ stopper' = [stopper EXCEPT ![c] = who]
    /\ held' = [held EXCEPT ![c] = child[c]]
    /\ taken' = taken \cup {<<c, child[c]>>}
    /\ UNCHANGED <<exits, unexpected>>

\* The page's requests are let in until stop_all is over; the tray has no such
\* door.
Stop(c, who) ==
    /\ Alive
    /\ who = "page" => panel # "draining"
    /\ CanDetach(c) /\ TakeOut(c, who)
    /\ UNCHANGED <<started, proc, news, reaperVars, panelVars, lost, spared,
                   killed>>

\* finish_stops asks all the children of its list (which are free to ignore
\* it) and then takes them in order.  Only the shutdown's list is longer than
\* one.
Others(c) == {d \in Components : d # c /\ stopper[d] = "shutdown"}
ItsTurn(c) ==
    /\ Alive /\ held[c] # 0
    /\ stopper[c] = "shutdown" => (todo = {} /\ \A d \in Others(c) : c < d)

\* Back into the slot, where reap records the exit; work is notified when the
\* last of a list is back.
PutBack(c) ==
    /\ LET dead == Dead(c, held[c])
       IN  /\ exits' = [exits EXCEPT ![c] = @ + Count(c, dead)]
           /\ child' = [child EXCEPT ![c] = IF dead THEN 0 ELSE held[c]]
           /\ mark' = [mark EXCEPT ![c] = IF dead THEN "no" ELSE "stopping"]
    /\ stopper' = [stopper EXCEPT ![c] = "nobody"]
    /\ held' = [held EXCEPT ![c] = 0]
    /\ news' = IF stopper[c] = "shutdown" /\ Others(c) # {} THEN news
               ELSE news \cup {c}
    /\ UNCHANGED <<started, proc, unexpected, reaperVars, panelVars, taken, lost,
                   killed>>

\* wait has seen the child's exit.
Ends(c) == ItsTurn(c) /\ Dead(c, held[c]) /\ PutBack(c) /\ UNCHANGED spared

\* The grace is over, or there was none: kill.
Kills(c) ==
    /\ ItsTurn(c) /\ ~Dead(c, held[c])
    /\ proc' = [proc EXCEPT ![c][held[c]] = "failed"]
    /\ UNCHANGED <<started, slotVars, stopVars, news, reaperVars, panelVars,
                   historyVars>>

\* kill has failed, which is logged and no more.
Survives(c) ==
    /\ ItsTurn(c) /\ ~Dead(c, held[c]) /\ PutBack(c)
    /\ spared' = spared \cup {<<c, held[c]>>}

\* The page's connection is closed while its stop waits: the request is
\* dropped, and the child with it (kill_on_drop).  Nobody clears in_stop.
Abandon(c) ==
    /\ Alive /\ stopper[c] = "page"
    /\ proc' = IF Dead(c, held[c]) THEN proc
               ELSE [proc EXCEPT ![c][held[c]] = "failed"]
    /\ lost' = lost \cup {<<c, held[c]>>}
    /\ stopper' = [stopper EXCEPT ![c] = "nobody"]
    /\ held' = [held EXCEPT ![c] = 0]
    /\ UNCHANGED <<started, slotVars, news, reaperVars, panelVars, taken, spared,
                   killed>>

StopStep(c) == Ends(c) \/ Kills(c) \/ Survives(c)

-----------------------------------------------------------------------------
(* The reaper.  notify_waiters keeps no permit: who is not registered does *)
(* not hear of it.                                                         *)

\* Faulty variant: registered by the await alone, without enable.
IsRegisteredAtAwait == reaper = "waiting"

\* Registered from enable on.
IsRegistered == reaper \in {"ask", "asked", "waiting"}

NotifyWork(c) ==
    /\ Alive /\ c \in news /\ news' = news \ {c}
    /\ woken' = (woken \/ IsRegistered)
    /\ UNCHANGED <<started, proc, slotVars, stopVars, reaper, panelVars,
                   historyVars>>

\* any_running, then the await or the sleep.
AsksRunning ==
    /\ reaper = "ask"
    /\ IF \E c \in Components : Running(c)
       THEN reaper' = "sleeping" /\ woken' = FALSE
       ELSE reaper' = "asked" /\ UNCHANGED woken
Awaits == reaper = "asked" /\ reaper' = "waiting" /\ UNCHANGED woken
Wakes == reaper = "waiting" /\ woken /\ reaper' = "sleeping" /\ woken' = FALSE

ReaperWaits ==
    /\ Alive
    /\ AsksRunning \/ Awaits \/ Wakes
    /\ UNCHANGED <<started, proc, slotVars, stopVars, news, panelVars,
                   historyVars>>

\* The sleep is over; then it registers anew (enable).
Reap ==
    /\ Alive /\ reaper = "sleeping" /\ reaper' = "ask"
    /\ ReapSlots(Components)
    /\ UNCHANGED <<started, proc, stopVars, news, woken, panelVars, historyVars>>

-----------------------------------------------------------------------------
(* The panel's shutdown.                                                   *)

\* A console signal or the tray's Exit.
Signal ==
    /\ panel = "serving" /\ panel' = "stopping" /\ todo' = Components
    /\ UNCHANGED <<started, proc, slotVars, stopVars, news, reaperVars,
                   historyVars>>

\* stop_all_within detaches what it can, component by component.
ShutdownTakes ==
    /\ panel = "stopping" /\ todo # {}
    /\ LET c == CHOOSE d \in todo : \A e \in todo : d <= e
       IN  /\ todo' = todo \ {c}
           /\ IF CanDetach(c)
              THEN TakeOut(c, "shutdown") /\ UNCHANGED spared
              ELSE /\ ReapSlots({c}) /\ UNCHANGED <<stopVars, taken>>
                   /\ spared' = IF held[c] = 0 THEN spared
                                ELSE spared \cup {<<c, held[c]>>}
    /\ UNCHANGED <<started, proc, news, reaperVars, panel, lost, killed>>

\* Faulty variant: the shutdown does not wait for the stops it began.
ShutdownReturnsEarly ==
    /\ panel = "stopping" /\ todo = {}
    /\ panel' \in {"exited", "draining"}
    /\ UNCHANGED <<started, proc, slotVars, stopVars, news, reaperVars, todo,
                   historyVars>>

\* stop_all is over.  If the console was closed or the session ends, the
\* handler returns and Windows takes the process; else the server waits for the
\* requests it has.
ShutdownReturns ==
    /\ panel = "stopping" /\ todo = {}
    /\ \A c \in Components : stopper[c] # "shutdown"
    /\ panel' \in {"exited", "draining"}
    /\ UNCHANGED <<started, proc, slotVars, stopVars, news, reaperVars, todo,
                   historyVars>>

\* serve has returned: the manager and the tray's tasks are dropped, and
\* kill_on_drop takes what they hold.
Exit ==
    /\ panel = "draining" /\ \A c \in Components : stopper[c] # "page"
    /\ panel' = "exited"
    /\ LET left == {n \in Children :
                      proc[n[1]][n[2]] = "running"
                      /\ n[2] \in {child[n[1]], held[n[1]]}}
       IN  /\ killed' = left
           /\ proc' = [c \in Components |-> [g \in Generations |->
                         IF <<c, g>> \in left THEN "failed" ELSE proc[c][g]]]
    /\ UNCHANGED <<started, slotVars, stopVars, news, reaperVars, todo, taken, lost,
                   spared>>

-----------------------------------------------------------------------------
Next ==
    \/ \E c \in Components :
         \/ Exits(c) \/ Poll(c) \/ Start(c) \/ StopStep(c) \/ Abandon(c)
         \/ NotifyWork(c)
         \/ \E who \in {"page", "tray"} : Stop(c, who)
    \/ ReaperWaits \/ Reap
    \/ Signal \/ ShutdownTakes \/ ShutdownReturns \/ Exit

\* The runtime runs its tasks, and a grace is bounded.  Children, clients and
\* signals owe nothing.
Fairness ==
    /\ \A c \in Components : WF_vars(StopStep(c)) /\ WF_vars(NotifyWork(c))
    /\ WF_vars(ReaperWaits) /\ WF_vars(Reap)
    /\ WF_vars(ShutdownTakes) /\ WF_vars(ShutdownReturns) /\ WF_vars(Exit)

Spec == Init /\ [][Next]_vars /\ Fairness

-----------------------------------------------------------------------------
(* Properties.                                                             *)

Living(c) == {g \in Generations : proc[c][g] = "running"}

\* Never two children of one component: nothing starts in the place of a
\* child that a stop still waits for.
OneChild == \A c \in Components : Cardinality(Living(c)) <= 1

\* What a slot calls gone is dead, and what it calls its child is the last
\* one started.
SlotTellsTheTruth ==
    \A c \in Components :
        /\ (Alive /\ ~Running(c)) => Living(c) = {}
        /\ child[c] \in {0, started[c]} /\ held[c] \in {0, started[c]}
        /\ ~(child[c] # 0 /\ held[c] # 0)

\* SAFETY: a slot is sound while starts, stops, reads, the reaper and the
\* shutdown interleave (Slot, Manager::start, detach, finish_stops).
SlotsAreSound == TypeOK /\ OneChild /\ SlotTellsTheTruth

\* The exits of c that were there to be recorded: not those still in the slot
\* or with a stop, nor one dropped with its stop.
Recorded(c) ==
    {g \in Generations : Dead(c, g) /\ g \notin {child[c], held[c]}
                          /\ <<c, g>> \notin lost}

\* SAFETY: every exit is counted once, and as unexpected exactly when no stop
\* had taken the child and it is not a task that was done: an operator is
\* warned of a crash, and never of a stop.
ExitsAreExact ==
    Alive => \A c \in Components :
        /\ exits[c] = Cardinality(Recorded(c))
        /\ unexpected[c] = Cardinality(
             {g \in Recorded(c) : <<c, g>> \notin taken
                /\ ~(c \notin Services /\ proc[c][g] = "ended")})

\* SAFETY: the panel leaves no child behind and kills none by its own exit,
\* but one that was started after stop_all had passed, that another stop had
\* when it passed, or that survived kill.
ShutdownLeavesNothing ==
    panel = "exited" =>
        killed \cup {n \in Children : proc[n[1]][n[2]] = "running"}
            \subseteq spared

\* SAFETY: never two children in a slot, an account of every one that was, and
\* none that the panel forgets when it goes.
ChildrenAreAccountedFor == SlotsAreSound /\ ExitsAreExact /\ ShutdownLeavesNothing

Abandoned(c) == mark[c] = "in_stop" /\ held[c] = 0

\* LIVENESS: no exit stays unrecorded, though nobody looks; no slot stays in a
\* stop, unless its request was dropped; no shutdown stays unfinished.
SlotsSettle ==
    \A c \in Components :
        /\ []<>(~HasExit(c) \/ ~Alive)
        /\ []<>(mark[c] # "in_stop" \/ Abandoned(c) \/ ~Alive)
ShutsDown == panel \notin {"serving", "exited"}

\* manager.rs, reap: "The stop that holds the child records its exit."  With
\* the page's connection closed in the middle of a stop there is none left.
StopRecordsItsChild ==
    \A c \in Components : mark[c] = "in_stop" ~> mark[c] # "in_stop" \/ ~Alive
=============================================================================
