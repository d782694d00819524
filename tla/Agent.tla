-------------------------------- MODULE Agent --------------------------------
(***************************************************************************)
(* The life of a capture run: the main thread watches three workers (T1    *)
(* capture, T2 shipping, T3 context), stops them in order and settles the  *)
(* session's sidecar file; console control events, a deadline and dying    *)
(* workers start that stop.  Shutdown is a flag with a condition variable. *)
(*                                                                         *)
(* What the workers do in between is in CapturePipeline and RingWaker.  How *)
(* a stall is told (StallWatch::observe) is left open: a worker that hangs *)
(* may be called stalled whenever the watch looks.  Locks held across a    *)
(* few instructions only are left out.                                     *)
(***************************************************************************)
EXTENDS FiniteSets

CONSTANTS
    Events,               \* console events that may come: of "ctrl_c", "close"
    HasDeadline,          \* was --duration-secs given?
    Hangs,                \* workers that may hang: of "t2", "t3"
    Panics                \* workers that may panic: of "t1", "t2", "t3"

ASSUME ParametersAssumption ==
    /\ Events \subseteq {"ctrl_c", "close"}
    /\ HasDeadline \in BOOLEAN
    /\ Hangs \subseteq {"t2", "t3"} /\ Panics \subseteq {"t1", "t2", "t3"}

VARIABLES
    main,                 \* where the main thread is
    reason,               \* why the run ends: "running" until watch says
    target,               \* where teardown posts the quit
    pc,                   \* where each worker is
    hwnd,                 \* has T1 published its window?
    quit,                 \* is WM_QUIT in T1's message queue?
    panicked,             \* workers that panicked
    detached,             \* was T1 detached instead of joined?
    stop,                 \* Shutdown.flag
    late,                 \* has the deadline passed?
    capture_stopped,      \* what tells T2 to drain and return
    joined_clean,         \* teardown's verdict
    console,              \* where the handler of each console event is
    finished,             \* ShutdownGuard::finished was called
    ended,                \* the process: "no", "returned" or "killed"
    state,                \* Sidecar.state: [exit, clean]
    writer,               \* who holds Sidecar.write
    doc,                  \* the document it is about to write
    disk,                 \* the file, exit "none" before the first write
    stale                 \* did the last write fail?

mainVars == <<main, reason, target, joined_clean>>
t1Vars == <<hwnd, quit, detached>>
stopVars == <<stop, late, capture_stopped>>
consoleVars == <<console, finished>>
sidecarVars == <<state, writer, doc, disk, stale>>
vars == <<mainVars, pc, t1Vars, panicked, stopVars, consoleVars, ended, sidecarVars>>

Workers == {"t1", "t2", "t3"}
Exited == [t1 |-> "capture-thread-exited", t2 |-> "shipping-thread-exited",
           t3 |-> "context-thread-exited"]
Stalled == [t2 |-> "shipping-thread-stalled", t3 |-> "context-thread-stalled"]
Reasons == {"running", "interrupt", "duration"}
           \cup {Exited[w] : w \in Workers} \cup {Stalled[w] : w \in {"t2", "t3"}}
Documents == [exit : Reasons, clean : BOOLEAN]

MainPlaces == {"flag", "deadline", "t1", "t2", "t3", "stall", "prewait", "lock", "waiting",
               "leave", "set", "notify", "address", "post", "join_t1", "tell_t2",
               "join_t2", "join_t3", "settle", "refresh", "written", "returning", "done"}
T1Places == {"starting", "published", "queue", "window", "pump"}
WorkerPlaces == T1Places \cup {"run", "hung", "closing", "closed", "cleared", "gone"}

TypeOK ==
    /\ main \in MainPlaces /\ reason \in Reasons
    /\ target \in {"nothing", "window", "thread"}
    /\ pc \in [Workers -> WorkerPlaces \cup {"returned"}]
    /\ hwnd \in BOOLEAN /\ quit \in BOOLEAN /\ detached \in BOOLEAN
    /\ panicked \subseteq Panics
    /\ stop \in BOOLEAN /\ late \in BOOLEAN /\ capture_stopped \in BOOLEAN
    /\ joined_clean \in BOOLEAN /\ finished \in BOOLEAN
    /\ console \in [Events -> {"idle", "stored", "notified", "returned"}]
    /\ ended \in {"no", "returned", "killed"}
    /\ state \in Documents /\ doc \in Documents
    /\ disk \in Documents \cup {[exit |-> "none", clean |-> FALSE]}
    /\ writer \in {"none", "t2", "t3", "main"} /\ stale \in BOOLEAN

Running == [exit |-> "running", clean |-> FALSE]

Init ==
    /\ main = "flag" /\ reason = "running" /\ target = "nothing" /\ joined_clean = TRUE
    /\ pc = [w \in Workers |-> IF w = "t1" THEN "starting" ELSE "run"]
    /\ hwnd = FALSE /\ quit = FALSE /\ detached = FALSE /\ panicked = {}
    /\ stop = FALSE /\ late = FALSE /\ capture_stopped = FALSE
    /\ console = [e \in Events |-> "idle"] /\ finished = FALSE /\ ended = "no"
    /\ state = Running /\ writer = "none" /\ doc = Running
    /\ disk = [exit |-> "none", clean |-> FALSE] /\ stale = FALSE

\* The flag an AliveGuard clears when its thread ends, for any reason.
Alive(w) == pc[w] \notin {"cleared", "gone"}

\* Shutdown::notify: whoever waits on the condition variable wakes up.  (T3
\* waits on it too, for a tick at most; its waits are left out.)
NotifiedMain == IF main = "waiting" THEN "flag" ELSE main

Goes(w, place) == pc' = [pc EXCEPT ![w] = place]

-----------------------------------------------------------------------------
(* Time, console events, and how a worker ends *)

\* The --duration-secs deadline passes.
DeadlinePasses ==
    /\ HasDeadline /\ ~late
    /\ late' = TRUE
    /\ UNCHANGED <<mainVars, pc, t1Vars, panicked, stop, capture_stopped, consoleVars, ended, sidecarVars>>

\* A console event: its handler runs on_signal, which stores the flag ...
ConsoleStores(e) ==
    /\ console[e] = "idle"
    /\ stop' = TRUE
    /\ console' = [console EXCEPT ![e] = "stored"]
    /\ UNCHANGED <<mainVars, pc, t1Vars, panicked, late, capture_stopped, finished, ended, sidecarVars>>

\* ... and notifies.
ConsoleNotifies(e) ==
    /\ console[e] = "stored"
    /\ main' = NotifiedMain
    /\ console' = [console EXCEPT ![e] = "notified"]
    /\ UNCHANGED <<reason, target, joined_clean, pc, t1Vars, panicked, stopVars, finished, ended, sidecarVars>>

\* The handler of Ctrl-C returns and nothing changes.  That of a close returns
\* when teardown is finished or its grace is over, and Windows then kills the
\* process.
CloseKills ==
    /\ "close" \in Events /\ console["close"] = "notified"
    /\ console' = [console EXCEPT !["close"] = "returned"]
    /\ ended' = "killed"
    /\ UNCHANGED <<mainVars, pc, t1Vars, panicked, stopVars, finished, sidecarVars>>

\* A worker panics, anywhere in its body: it unwinds through its AliveGuard.
Panic(w) ==
    /\ w \in Panics /\ pc[w] \in {"published", "queue", "window", "pump", "run", "closing"}
    /\ writer # w
    /\ Goes(w, "returned")
    /\ panicked' = panicked \cup {w}
    /\ UNCHANGED <<mainVars, t1Vars, stopVars, consoleVars, ended, sidecarVars>>

\* AliveGuard::drop clears the flag ...
ClearAlive(w) ==
    /\ pc[w] = "returned"
    /\ Goes(w, "cleared")
    /\ UNCHANGED <<mainVars, t1Vars, panicked, stopVars, consoleVars, ended, sidecarVars>>

\* ... and notifies; then the thread is over.
NotifyDeath(w) ==
    /\ pc[w] = "cleared"
    /\ main' = NotifiedMain
    /\ Goes(w, "gone")
    /\ UNCHANGED <<reason, target, joined_clean, t1Vars, panicked, stopVars, consoleVars, ended, sidecarVars>>

\* A worker blocks for good inside its loop.
Hang(w) ==
    /\ w \in Hangs /\ pc[w] = "run" /\ writer # w
    /\ Goes(w, "hung")
    /\ UNCHANGED <<mainVars, t1Vars, panicked, stopVars, consoleVars, ended, sidecarVars>>

-----------------------------------------------------------------------------
(* The sidecar *)

\* Faulty variant: the document is what the file says, not what the agent knows.
LockWithFile(w) ==
    /\ writer = "none"
    /\ writer' = w
    /\ doc' = disk
    /\ UNCHANGED <<state, disk, stale>>

\* Faulty variant: the document is put together before the lock is taken, it may
\* be before the reason was settled.
LockWithOldDocument(w) ==
    /\ writer = "none"
    /\ writer' = w
    /\ doc' \in {Running, state}
    /\ UNCHANGED <<state, disk, stale>>

\* Sidecar::refresh: under the write lock, the document as of now ...
Lock(w) ==
    /\ writer = "none"
    /\ writer' = w
    /\ doc' = state
    /\ UNCHANGED <<state, disk, stale>>

\* ... goes to a temporary file that is renamed, or the write fails.
WriteDocument(w) ==
    /\ writer = w
    /\ writer' = "none"
    /\ \/ disk' = doc /\ stale' = FALSE
       \/ UNCHANGED disk /\ stale' = TRUE
    /\ UNCHANGED <<state, doc>>

-----------------------------------------------------------------------------
(* The workers *)

workerRest == <<mainVars, panicked, stopVars, consoleVars, ended>>

\* T1 publishes its thread id before it has a message queue: that comes with
\* its first windowing call.
Publish == pc["t1"] = "starting" /\ Goes("t1", "published") /\ UNCHANGED <<t1Vars, workerRest, sidecarVars>>
MakeQueue == pc["t1"] = "published" /\ Goes("t1", "queue") /\ UNCHANGED <<t1Vars, workerRest, sidecarVars>>

\* The window comes up and is published ...
OpenWindow ==
    /\ pc["t1"] = "queue"
    /\ Goes("t1", "window") /\ hwnd' = TRUE
    /\ UNCHANGED <<quit, detached, workerRest, sidecarVars>>

Register == pc["t1"] = "window" /\ Goes("t1", "pump") /\ UNCHANGED <<t1Vars, workerRest, sidecarVars>>

\* ... or the window, the registration or later the wait fails: run returns.
CaptureFails ==
    /\ pc["t1"] \in {"queue", "window", "pump"}
    /\ Goes("t1", "returned")
    /\ UNCHANGED <<t1Vars, workerRest, sidecarVars>>

\* The message loop meets WM_QUIT.
PumpQuits ==
    /\ pc["t1"] = "pump" /\ quit
    /\ Goes("t1", "returned")
    /\ UNCHANGED <<t1Vars, workerRest, sidecarVars>>

\* T2 drains, flushes and closes the recording, writes the sidecar, returns.
ShippingStops ==
    /\ pc["t2"] = "run" /\ capture_stopped
    /\ Goes("t2", "closing")
    /\ UNCHANGED <<t1Vars, workerRest, sidecarVars>>
ShippingRefreshes == pc["t2"] = "closing" /\ Lock("t2") /\ UNCHANGED <<pc, t1Vars, workerRest>>
ShippingReturns ==
    /\ pc["t2"] = "closing" /\ WriteDocument("t2")
    /\ Goes("t2", "returned")
    /\ UNCHANGED <<t1Vars, workerRest>>

\* T3 refreshes the sidecar when it starts and with every report, until it
\* sees the flag.
ContextRefreshes == pc["t3"] = "run" /\ Lock("t3") /\ UNCHANGED <<pc, t1Vars, workerRest>>
ContextWrites == pc["t3"] = "run" /\ WriteDocument("t3") /\ UNCHANGED <<pc, t1Vars, workerRest>>
ContextStops ==
    /\ pc["t3"] = "run" /\ stop /\ writer # "t3"
    /\ Goes("t3", "returned")
    /\ UNCHANGED <<t1Vars, workerRest, sidecarVars>>

-----------------------------------------------------------------------------
(* The main thread: watch *)

mainRest == <<pc, t1Vars, panicked, stopVars, consoleVars, ended, sidecarVars>>

\* One check of watch: leave for a reason, or look at the next thing.
Look(at, cond, why, next) ==
    /\ main = at
    /\ IF cond THEN main' = "leave" /\ reason' = why
               ELSE main' = next /\ UNCHANGED reason
    /\ UNCHANGED <<target, joined_clean, mainRest>>

LookAtFlag == Look("flag", stop, "interrupt", "deadline")
LookAtDeadline == Look("deadline", late, "duration", "t1")
LookAtT1 == Look("t1", ~Alive("t1"), Exited["t1"], "t2")
LookAtT2 == Look("t2", ~Alive("t2"), Exited["t2"], "t3")
LookAtT3 == Look("t3", ~Alive("t3"), Exited["t3"], "stall")

\* The stall check: no verdict, or one on a worker that hangs.
LookForStalls ==
    \/ Look("stall", FALSE, "running", "prewait")
    \/ \E w \in Hangs : pc[w] = "hung" /\ Look("stall", TRUE, Stalled[w], "prewait")

\* Shutdown::wait_timeout, wait_until: back at once if the flag is set or the
\* deadline is over ...
BeforeWait ==
    /\ main = "prewait"
    /\ main' = IF stop \/ late THEN "flag" ELSE "lock"
    /\ UNCHANGED <<reason, target, joined_clean, mainRest>>

\* ... else the lock is taken and the wait begins, the flag not looked at again.
BeginWait ==
    /\ main = "lock"
    /\ main' = "waiting"
    /\ UNCHANGED <<reason, target, joined_clean, mainRest>>

\* Faulty variant: the wait has no timeout.
WaitForNotify == FALSE /\ UNCHANGED vars

\* The wait times out (a minute, or at the deadline), or ends spuriously.
WaitEnds ==
    /\ main = "waiting"
    /\ main' = "flag"
    /\ UNCHANGED <<reason, target, joined_clean, mainRest>>

(* teardown *)

\* Sidecar::set_exit, before the workers are stopped.
SettleReason ==
    /\ main = "leave"
    /\ state' = [exit |-> reason, clean |-> FALSE]
    /\ main' = "set"
    /\ UNCHANGED <<reason, target, joined_clean, pc, t1Vars, panicked, stopVars, consoleVars, ended, writer, doc, disk, stale>>

\* shutdown.set: the flag goes up; main itself is the one that would be notified.
RequestStop ==
    /\ main = "set"
    /\ stop' = TRUE
    /\ main' = "address"
    /\ UNCHANGED <<reason, target, joined_clean, pc, t1Vars, panicked, late, capture_stopped, consoleVars, ended, sidecarVars>>

\* What T1 has published decides where the quit goes.
FindAddress ==
    /\ main = "address"
    /\ target' = IF hwnd THEN "window" ELSE IF pc["t1"] # "starting" THEN "thread" ELSE "nothing"
    /\ main' = "post"
    /\ UNCHANGED <<reason, joined_clean, mainRest>>

\* post_quit reaches a window that exists, post_thread_quit a thread with a
\* message queue.  A T1 that published nothing and is alive is detached.
PostQuit ==
    /\ main = "post"
    /\ quit' = (quit \/ (target = "window" /\ pc["t1"] \in {"window", "pump"})
                     \/ (target = "thread" /\ pc["t1"] \in {"queue", "window", "pump"}))
    /\ detached' = (target = "nothing" /\ Alive("t1"))
    /\ main' = IF detached' THEN "tell_t2" ELSE "join_t1"
    /\ UNCHANGED <<reason, target, joined_clean, pc, hwnd, panicked, stopVars, consoleVars, ended, sidecarVars>>

\* Faulty variant: a panicked worker counts as joined.
JoinQuietly(w, at, next) ==
    /\ main = at /\ pc[w] = "gone"
    /\ main' = next
    /\ UNCHANGED <<reason, target, joined_clean, mainRest>>

\* join_loudly: wait for a worker to be gone; was it a panic?
Join(w, at, next) ==
    /\ main = at /\ pc[w] = "gone"
    /\ joined_clean' = (joined_clean /\ w \notin panicked)
    /\ main' = next
    /\ UNCHANGED <<reason, target, mainRest>>

JoinT1 == Join("t1", "join_t1", "tell_t2")
JoinT2 == Join("t2", "join_t2", "join_t3")
JoinT3 == Join("t3", "join_t3", "settle")

\* capture_stopped is stored and T2 woken.
TellT2 ==
    /\ main = "tell_t2"
    /\ capture_stopped' = TRUE
    /\ main' = "join_t2"
    /\ UNCHANGED <<reason, target, joined_clean, pc, t1Vars, panicked, stop, late, consoleVars, ended, sidecarVars>>

\* cmd_run: the verdict is settled, the sidecar rewritten, a blocked console
\* handler let go, and the process ends, with whatever thread is left.
SettleVerdict ==
    /\ main = "settle"
    /\ state' = [exit |-> reason, clean |-> joined_clean]
    /\ main' = "refresh"
    /\ UNCHANGED <<reason, target, joined_clean, pc, t1Vars, panicked, stopVars, consoleVars, ended, writer, doc, disk, stale>>
FinalRefresh ==
    /\ main = "refresh" /\ Lock("main")
    /\ main' = "written"
    /\ UNCHANGED <<reason, target, joined_clean, pc, t1Vars, panicked, stopVars, consoleVars, ended>>
FinalWrite ==
    /\ main = "written" /\ WriteDocument("main")
    /\ main' = "returning"
    /\ UNCHANGED <<reason, target, joined_clean, pc, t1Vars, panicked, stopVars, consoleVars, ended>>
ReleaseHandler ==
    /\ main = "returning"
    /\ finished' = TRUE
    /\ main' = "done"
    /\ UNCHANGED <<reason, target, joined_clean, pc, t1Vars, panicked, stopVars, console, ended, sidecarVars>>
ProcessEnds ==
    /\ main = "done"
    /\ ended' = "returned"
    /\ UNCHANGED <<mainVars, pc, t1Vars, panicked, stopVars, consoleVars, sidecarVars>>

-----------------------------------------------------------------------------
MainNext ==
    \/ LookAtFlag \/ LookAtDeadline \/ LookAtT1 \/ LookAtT2 \/ LookAtT3 \/ LookForStalls
    \/ BeforeWait \/ BeginWait \/ WaitEnds
    \/ SettleReason \/ RequestStop \/ FindAddress \/ PostQuit
    \/ JoinT1 \/ TellT2 \/ JoinT2 \/ JoinT3
    \/ SettleVerdict \/ FinalRefresh \/ FinalWrite \/ ReleaseHandler \/ ProcessEnds

CaptureNext == Publish \/ MakeQueue \/ OpenWindow \/ Register \/ PumpQuits
ShippingNext == ShippingStops \/ ShippingRefreshes \/ ShippingReturns
ContextNext == ContextWrites \/ ContextStops
GuardNext(w) == ClearAlive(w) \/ NotifyDeath(w)

StepNext ==
    \/ MainNext
    \/ CaptureNext \/ CaptureFails
    \/ ShippingNext
    \/ ContextNext \/ ContextRefreshes
    \/ \E w \in Workers : GuardNext(w) \/ Panic(w) \/ Hang(w)
    \/ \E e \in Events : ConsoleStores(e) \/ ConsoleNotifies(e)
    \/ CloseKills \/ DeadlinePasses

\* Once the process has ended nothing happens any more.
Next == ended = "no" /\ StepNext

(***************************************************************************)
(* Every thread that can go on does, waits and locks end, and a console    *)
(* handler that stored the flag goes on to notify.  A failure, a panic, a  *)
(* hang, a console event or the deadline comes or not; a handler that      *)
(* blocks for a close may be let go before its grace is over.              *)
(***************************************************************************)
Fairness ==
    /\ WF_vars(ended = "no" /\ MainNext)
    /\ WF_vars(ended = "no" /\ CaptureNext)
    /\ WF_vars(ended = "no" /\ ShippingNext) /\ SF_vars(ended = "no" /\ ShippingRefreshes)
    /\ SF_vars(ended = "no" /\ FinalRefresh)
    /\ WF_vars(ended = "no" /\ ContextWrites) /\ SF_vars(ended = "no" /\ ContextStops)
    /\ \A w \in Workers : WF_vars(ended = "no" /\ GuardNext(w))
    /\ \A e \in Events : WF_vars(ended = "no" /\ ConsoleNotifies(e))

Spec == Init /\ [][Next]_vars /\ Fairness

-----------------------------------------------------------------------------
(* Properties *)

\* shutdown.rs: whoever looked at the flag before it was set "cannot miss this
\* notification": after a console handler notified, main is not left waiting.
NotificationSeen ==
    \A e \in Events : console[e] = "notified" => main # "waiting"

\* The sidecar calls a run clean only if every worker is gone and none panicked.
CleanIsTrue ==
    disk.clean => panicked = {} /\ \A w \in Workers : pc[w] = "gone"

\* The same, of a run whose T1 was joined.
CleanIsTrueWhenJoined == ~detached => CleanIsTrue

\* Once the file tells why the run ended it never says "running" again, and
\* never another reason.
ReasonStays ==
    [][disk.exit \notin {"none", "running"} => disk'.exit = disk.exit]_vars

\* A console handler held by a close is let go, and the process ends, with the
\* final verdict on disk, unless that last write failed.
VerdictIsWritten ==
    finished => stale \/ disk = [exit |-> reason, clean |-> joined_clean]

\* SAFETY: what the sidecar says of the run's end is there, and true.
VerdictIsTrue == CleanIsTrueWhenJoined /\ VerdictIsWritten

\* The two ways in which teardown's joins never return: WM_QUIT was posted to a
\* T1 without a message queue, or the worker to join hangs.
QuitLost == main = "join_t1" /\ target = "thread" /\ ~quit /\ pc["t1"] = "pump"
JoinHangs == (main = "join_t2" /\ pc["t2"] = "hung") \/ (main = "join_t3" /\ pc["t3"] = "hung")

\* A stop that was requested, by whoever, ends the process, unless a join hangs.
StopEnds == stop ~> ended # "no" \/ QuitLost \/ JoinHangs

\* A worker that died ends the run: no agent goes on without one of its threads.
DeathEnds == (\E w \in Workers : pc[w] = "returned") ~> ended # "no" \/ QuitLost \/ JoinHangs

\* LIVENESS: no run outlives a stop or the death of a worker.
EveryEndIsReached == StopEnds /\ DeathEnds

\* recordings.rs: a stalled worker is one "teardown did not wait for".
StalledRunEnds == reason \in {Stalled["t2"], Stalled["t3"]} ~> ended # "no"
=============================================================================
