----------------------------- MODULE KafkaSink -----------------------------
(***************************************************************************)
(* The Kafka forwarder (crates/capture/src/sinks/kafka.rs): the shipping   *)
(* thread offers envelopes to a bounded channel; a worker thread connects, *)
(* runs a forwarder task that keeps a bounded number of produce tasks in   *)
(* flight, and bounds the drain once the sink is dropped.                  *)
(*                                                                         *)
(* The worker's runtime has one thread, so its tasks interleave at their   *)
(* await points only: `settling` marks the task that is between two calls  *)
(* into the accounting, and every other worker step waits for it.  Jobs    *)
(* are counted, not named: Kafka batches them and promises no order.       *)
(***************************************************************************)
EXTENDS Naturals

CONSTANTS
    MaxOffers,            \* bound on the envelopes offered to the sink
    QueueCapacity,        \* QUEUE_CAPACITY: slots of the channel
    MaxInflight           \* MAX_INFLIGHT: produce tasks kept in the join set

\* What the code's constants satisfy.
CapacityAssumption == QueueCapacity \in Nat \ {0} /\ MaxInflight \in Nat \ {0}

VARIABLES
    (* QueueAccounting *)
    failed, outstanding, loss_claimed, failure_reported, dropping,
    queued, dropped, abandoned, errors, offered, delivered,
    (* the channel and the shutdown signal *)
    chan,                 \* jobs sent and not yet received
    tx,                   \* the sink still holds the sender
    rx,                   \* somebody still holds the receiver
    signalled,            \* the shutdown oneshot was sent
    (* the threads *)
    ship,                 \* where the shipping thread is
    worker,               \* where the worker's main future is
    forwarder,            \* where the forwarder task is
    settling,             \* a task counted its error and settles its job next
    (* the join set of produce tasks *)
    running,              \* waiting for the broker
    finished,             \* settled their job, not reaped yet
    crashed,              \* panicked, not reaped yet
    causes                \* history: times a terminal cause was counted

queueVars == <<failed, outstanding, loss_claimed, failure_reported, dropping,
               queued, dropped, abandoned, errors, offered, delivered>>
chanVars == <<chan, tx, rx, signalled>>
taskVars == <<running, finished, crashed>>
vars == <<queueVars, chanVars, ship, worker, forwarder, settling, taskVars, causes>>

Queue == INSTANCE QueueAccounting

Inflight == running + finished + crashed

ShipStates == {"idle", "enqueue", "closing", "joining", "claim", "claim_again",
               "count", "closed"}
WorkerStates == {"starting", "connecting", "init_failed", "serving", "draining",
                 "panic_claim", "panic_claim_again", "panic_count", "aborting", "exiting", "gone", "panicked"}
ForwarderStates == {"none", "recv", "holding", "full", "room", "joining",
                    "done", "panicked", "aborted"}

TypeOK ==
    /\ Queue!TypeOK
    /\ chan \in 0..QueueCapacity
    /\ tx \in BOOLEAN /\ rx \in BOOLEAN /\ signalled \in BOOLEAN
    /\ ship \in ShipStates /\ worker \in WorkerStates /\ forwarder \in ForwarderStates
    /\ settling \in {"nobody", "task", "reaper"}
    /\ running \in Nat /\ finished \in Nat /\ crashed \in Nat
    /\ causes \in Nat

Init ==
    /\ Queue!Init
    /\ chan = 0 /\ tx = TRUE /\ rx = TRUE /\ signalled = FALSE
    /\ ship = "idle" /\ worker = "starting" /\ forwarder = "none"
    /\ settling = "nobody"
    /\ running = 0 /\ finished = 0 /\ crashed = 0
    /\ causes = 0

-----------------------------------------------------------------------------
(* The shipping thread *)

\* send on a failed sink.
SendOnFailed ==
    /\ ship = "idle" /\ Queue!CountDropped
    /\ UNCHANGED <<chanVars, ship, worker, forwarder, settling, taskVars, causes>>

\* send, past the unlocked is_failed check.
SendChecked ==
    /\ ship = "idle" /\ ~failed /\ offered < MaxOffers
    /\ ship' = "enqueue"
    /\ UNCHANGED <<queueVars, chanVars, worker, forwarder, settling, taskVars, causes>>

\* What try_send comes back with now.
TrySendResult ==
    IF ~rx THEN "Closed" ELSE IF chan = QueueCapacity THEN "Full" ELSE "Sent"

\* enqueue: the channel send runs under the accounting lock.
Enqueue ==
    /\ ship = "enqueue"
    /\ Queue!Enqueue(TrySendResult)
    /\ chan' = IF ~failed /\ TrySendResult = "Sent" THEN chan + 1 ELSE chan
    /\ causes' = causes + (errors' - errors)
    /\ ship' = "idle"
    /\ UNCHANGED <<tx, rx, signalled, worker, forwarder, settling, taskVars>>

\* Drop: the shutdown signal goes first ...
DropSignals ==
    /\ ship = "idle"
    /\ signalled' = TRUE
    /\ ship' = "closing"
    /\ UNCHANGED <<queueVars, chan, tx, rx, worker, forwarder, settling, taskVars, causes>>

\* ... then the channel closes, then the worker is joined.
DropSender ==
    /\ ship = "closing"
    /\ tx' = FALSE
    /\ ship' = "joining"
    /\ UNCHANGED <<queueVars, chan, rx, signalled, worker, forwarder, settling, taskVars, causes>>

DropJoined ==
    /\ ship = "joining" /\ worker = "gone"
    /\ ship' = "closed"
    /\ UNCHANGED <<queueVars, chanVars, worker, forwarder, settling, taskVars, causes>>

\* The worker thread panicked: mark_failed, and claim what it leaves ...
DropMarks ==
    /\ ship = "joining" /\ worker = "panicked" /\ ~rx
    /\ Queue!MarkFailed
    /\ ship' = IF failed THEN "claim_again" ELSE "claim"
    /\ UNCHANGED <<chanVars, worker, forwarder, settling, taskVars, causes>>

DropClaims ==
    /\ ship \in {"claim", "claim_again"}
    /\ Queue!ClaimLoss
    /\ ship' = IF ship = "claim" THEN "count" ELSE "closed"
    /\ UNCHANGED <<chanVars, worker, forwarder, settling, taskVars, causes>>

\* ... and count it, unless the sink had failed before.
DropCounts ==
    /\ ship = "count"
    /\ Queue!CountError
    /\ causes' = causes + 1
    /\ ship' = "closed"
    /\ UNCHANGED <<chanVars, worker, forwarder, settling, taskVars>>

DropNext == DropSender \/ DropJoined \/ DropMarks \/ DropClaims \/ DropCounts

ShipNext == SendOnFailed \/ SendChecked \/ Enqueue \/ DropSignals \/ DropNext

-----------------------------------------------------------------------------
(* The worker's main future *)

\* A step of the worker's one thread: nobody is half way through settling.
OnWorkerThread ==
    /\ settling = "nobody"
    /\ UNCHANGED <<ship, settling, tx, signalled>>

\* The runtime cannot be built: count it; the claim follows.
BuildFails ==
    /\ worker = "starting" /\ OnWorkerThread
    /\ Queue!CountError /\ causes' = causes + 1
    /\ worker' = "init_failed"
    /\ UNCHANGED <<chan, rx, forwarder, taskVars>>

BuildOk ==
    /\ worker = "starting" /\ OnWorkerThread
    /\ worker' = "connecting"
    /\ UNCHANGED <<queueVars, chan, rx, forwarder, taskVars, causes>>

\* select!: the sink was dropped before the broker answered.
ShutdownWhileConnecting ==
    /\ worker = "connecting" /\ signalled /\ OnWorkerThread
    /\ Queue!ClaimLoss
    /\ worker' = "exiting"
    /\ UNCHANGED <<chan, rx, forwarder, taskVars, causes>>

\* initialize failed or ran into CONNECT_TIMEOUT.
ConnectFails ==
    /\ worker = "connecting" /\ OnWorkerThread
    /\ Queue!CountError /\ causes' = causes + 1
    /\ worker' = "init_failed"
    /\ UNCHANGED <<chan, rx, forwarder, taskVars>>

InitFailedClaims ==
    /\ worker = "init_failed" /\ OnWorkerThread
    /\ Queue!ClaimLoss
    /\ worker' = "exiting"
    /\ UNCHANGED <<chan, rx, forwarder, taskVars, causes>>

\* Connected: the receiver moves into the forwarder task.
Connected ==
    /\ worker = "connecting" /\ OnWorkerThread
    /\ worker' = "serving" /\ forwarder' = "recv"
    /\ UNCHANGED <<queueVars, chan, rx, taskVars, causes>>

\* The shutdown signal arrives: the drain clock starts.
StartDrain ==
    /\ worker = "serving" /\ signalled /\ OnWorkerThread
    /\ worker' = "draining"
    /\ UNCHANGED <<queueVars, chan, rx, forwarder, taskVars, causes>>

DrainCompletes ==
    /\ worker = "draining" /\ forwarder = "done" /\ OnWorkerThread
    /\ worker' = "exiting"
    /\ UNCHANGED <<queueVars, chan, rx, forwarder, taskVars, causes>>

\* The forwarder task panicked: mark_failed, claim, count if first.
DrainPanicked ==
    /\ worker = "draining" /\ forwarder = "panicked" /\ OnWorkerThread
    /\ Queue!MarkFailed
    /\ worker' = IF failed THEN "panic_claim_again" ELSE "panic_claim"
    /\ UNCHANGED <<chan, rx, forwarder, taskVars, causes>>

PanicClaims ==
    /\ worker \in {"panic_claim", "panic_claim_again"} /\ OnWorkerThread
    /\ Queue!ClaimLoss
    /\ worker' = IF worker = "panic_claim" THEN "panic_count" ELSE "exiting"
    /\ UNCHANGED <<chan, rx, forwarder, taskVars, causes>>

PanicCounts ==
    /\ worker = "panic_count" /\ OnWorkerThread
    /\ Queue!CountError /\ causes' = causes + 1
    /\ worker' = "exiting"
    /\ UNCHANGED <<chan, rx, forwarder, taskVars>>

\* Faulty variant: no timeout around the drain.
DrainWaitsForForwarder ==
    /\ worker = "draining" /\ forwarder = "aborted" /\ OnWorkerThread
    /\ Queue!ClaimLoss
    /\ worker' = "aborting"
    /\ UNCHANGED <<chan, rx, forwarder, taskVars, causes>>

\* The drain ran out of time with the forwarder still at it.
DrainTimesOut ==
    /\ worker = "draining" /\ forwarder \notin {"done", "panicked"} /\ OnWorkerThread
    /\ Queue!ClaimLoss
    /\ worker' = "aborting"
    /\ UNCHANGED <<chan, rx, forwarder, taskVars, causes>>

\* abort and await: the forwarder goes, with its receiver and its tasks,
\* unless it got to its own end while the worker awaited it.
Aborted ==
    /\ worker = "aborting" /\ OnWorkerThread
    /\ IF forwarder \in {"done", "panicked"} THEN UNCHANGED forwarder
                                             ELSE forwarder' = "aborted"
    /\ rx' = FALSE /\ chan' = 0
    /\ running' = 0 /\ finished' = 0 /\ crashed' = 0
    /\ worker' = "exiting"
    /\ UNCHANGED <<queueVars, causes>>

\* shutdown_timeout, and the thread ends.
WorkerExits ==
    /\ worker = "exiting" /\ OnWorkerThread
    /\ rx' = FALSE /\ chan' = 0
    /\ worker' = "gone"
    /\ UNCHANGED <<queueVars, forwarder, taskVars, causes>>

\* The client library panics on the worker's own stack.
WorkerPanics ==
    /\ worker \in {"starting", "connecting"} /\ OnWorkerThread
    /\ worker' = "panicked"
    /\ UNCHANGED <<queueVars, chan, rx, forwarder, taskVars, causes>>

\* Unwinding drops the receiver before the thread can be joined.
WorkerUnwinds ==
    /\ worker = "panicked" /\ rx /\ OnWorkerThread
    /\ rx' = FALSE /\ chan' = 0
    /\ UNCHANGED <<queueVars, worker, forwarder, taskVars, causes>>

\* The steps that wait for nothing but the worker's own timers.
WorkerTimed ==
    \/ BuildFails \/ BuildOk \/ ShutdownWhileConnecting \/ ConnectFails \/ Connected
    \/ InitFailedClaims \/ StartDrain \/ DrainCompletes \/ DrainTimesOut
    \/ DrainPanicked \/ PanicClaims \/ PanicCounts
    \/ Aborted \/ WorkerExits \/ WorkerUnwinds

-----------------------------------------------------------------------------
(* The forwarder task and the produce tasks, polled while the main future waits *)

Polled ==
    /\ worker \in {"serving", "draining", "aborting"}
    /\ OnWorkerThread
    /\ UNCHANGED worker

\* rx.recv() yields a job.
Receive ==
    /\ forwarder = "recv" /\ chan > 0 /\ Polled
    /\ chan' = chan - 1
    /\ forwarder' = "holding"
    /\ UNCHANGED <<queueVars, rx, taskVars, causes>>

\* Faulty variant: a full join set is never reaped.
ReapUnlessFull ==
    /\ forwarder \in {"holding", "joining"} /\ finished > 0 /\ Polled
    /\ finished' = finished - 1
    /\ UNCHANGED <<queueVars, chan, rx, running, crashed, forwarder, causes>>

\* join_next hands over a finished produce task.
Reap ==
    /\ forwarder \in {"holding", "full", "joining"} /\ finished > 0 /\ Polled
    /\ finished' = finished - 1
    /\ forwarder' = IF forwarder = "full" THEN "room" ELSE forwarder
    /\ UNCHANGED <<queueVars, chan, rx, running, crashed, causes>>

\* Faulty variant: a panicked task is reaped without settling its job.
ReapCrashedSilently ==
    /\ forwarder \in {"holding", "full", "joining"} /\ crashed > 0 /\ Polled
    /\ Queue!CountError
    /\ crashed' = crashed - 1
    /\ forwarder' = IF forwarder = "full" THEN "room" ELSE forwarder
    /\ UNCHANGED <<chan, rx, running, finished, causes>>

\* observe_join on a panicked produce task: count it; SettleCrashed follows.
ReapCrashed ==
    /\ forwarder \in {"holding", "full", "joining"} /\ crashed > 0
    /\ settling = "nobody" /\ settling' = "reaper"
    /\ worker \in {"serving", "draining", "aborting"}
    /\ Queue!CountError
    /\ crashed' = crashed - 1
    /\ forwarder' = IF forwarder = "full" THEN "room" ELSE forwarder
    /\ UNCHANGED <<chanVars, ship, worker, running, finished, causes>>

SettleCrashed ==
    /\ settling = "reaper" /\ settling' = "nobody"
    /\ Queue!Finish(1, FALSE)
    /\ UNCHANGED <<chanVars, ship, worker, forwarder, taskVars, causes>>

\* Nothing left to reap, and the join set is full: wait for one to finish.
WaitForRoom ==
    /\ forwarder = "holding" /\ finished = 0 /\ crashed = 0 /\ Polled
    /\ Inflight >= MaxInflight
    /\ forwarder' = "full"
    /\ UNCHANGED <<queueVars, chan, rx, taskVars, causes>>

\* Spawn the produce task of the job in hand.
Spawn ==
    /\ \/ forwarder = "holding" /\ finished = 0 /\ crashed = 0 /\ Inflight < MaxInflight
       \/ forwarder = "room"
    /\ Polled
    /\ running' = running + 1
    /\ forwarder' = "recv"
    /\ UNCHANGED <<queueVars, chan, rx, finished, crashed, causes>>

\* Faulty variant: a closed channel ends the loop with jobs still queued.
ReceiveClosedEarly ==
    /\ forwarder = "recv" /\ ~tx /\ Polled
    /\ forwarder' = "joining"
    /\ UNCHANGED <<queueVars, chan, rx, taskVars, causes>>

\* rx.recv() yields nothing more: join what is in flight.
ReceiveClosed ==
    /\ forwarder = "recv" /\ chan = 0 /\ ~tx /\ Polled
    /\ forwarder' = "joining"
    /\ UNCHANGED <<queueVars, chan, rx, taskVars, causes>>

ForwarderEnds ==
    /\ forwarder = "joining" /\ Inflight = 0 /\ Polled
    /\ forwarder' = "done"
    /\ rx' = FALSE
    /\ UNCHANGED <<queueVars, chan, taskVars, causes>>

\* The forwarder itself panics: its receiver and its tasks go with it.
ForwarderPanics ==
    /\ forwarder \in {"recv", "holding", "full", "room", "joining"} /\ Polled
    /\ forwarder' = "panicked"
    /\ rx' = FALSE /\ chan' = 0
    /\ running' = 0 /\ finished' = 0 /\ crashed' = 0
    /\ UNCHANGED <<queueVars, causes>>

\* Faulty variant: a late completion does not look at the terminal claim.
ProduceOkIgnoresClaim ==
    /\ running > 0 /\ Polled
    /\ Queue!FinishIgnoresClaim(1, TRUE)
    /\ running' = running - 1 /\ finished' = finished + 1
    /\ UNCHANGED <<chan, rx, forwarder, crashed, causes>>

\* The broker acknowledges one produce call.
ProduceOk ==
    /\ running > 0 /\ Polled
    /\ Queue!Finish(1, TRUE)
    /\ running' = running - 1 /\ finished' = finished + 1
    /\ UNCHANGED <<chan, rx, forwarder, crashed, causes>>

\* It refuses one: count the error; SettleRefused follows.
ProduceFails ==
    /\ running > 0 /\ settling = "nobody" /\ settling' = "task"
    /\ worker \in {"serving", "draining", "aborting"}
    /\ Queue!CountError
    /\ UNCHANGED <<chanVars, ship, worker, forwarder, taskVars, causes>>

SettleRefused ==
    /\ settling = "task" /\ settling' = "nobody"
    /\ Queue!Finish(1, FALSE)
    /\ running' = running - 1 /\ finished' = finished + 1
    /\ UNCHANGED <<chanVars, ship, worker, forwarder, crashed, causes>>

\* The client library panics inside a produce task.
ProducePanics ==
    /\ running > 0 /\ Polled
    /\ running' = running - 1 /\ crashed' = crashed + 1
    /\ UNCHANGED <<queueVars, chan, rx, forwarder, finished, causes>>

ForwarderNext ==
    \/ Receive \/ Reap \/ ReapCrashed \/ WaitForRoom \/ Spawn
    \/ ReceiveClosed \/ ForwarderEnds

Settle == SettleCrashed \/ SettleRefused

ProduceAnswers == ProduceOk \/ ProduceFails \/ ProducePanics

\* Both threads are done with the sink.
Terminated == ship = "closed" /\ UNCHANGED vars

Next ==
    \/ ShipNext \/ WorkerTimed \/ WorkerPanics
    \/ ForwarderNext \/ ForwarderPanics \/ Settle \/ ProduceAnswers
    \/ Terminated

(***************************************************************************)
(* The shipping thread runs on once it is inside enqueue or Drop; the      *)
(* worker's waits are all under a timer (CONNECT_TIMEOUT, the drain        *)
(* budget, RUNTIME_SHUTDOWN_TIMEOUT), and settling a job waits for nothing.*)
(* The broker owes no answer: EverythingSettles assumes that it gives one, *)
(* and that the forwarder then makes progress.                             *)
(***************************************************************************)
Spec ==
    /\ Init /\ [][Next]_vars
    /\ WF_vars(Enqueue) /\ WF_vars(DropNext)
    /\ WF_vars(WorkerTimed) /\ WF_vars(Settle)

-----------------------------------------------------------------------------
(* Properties *)

\* The forwarder uses the accounting as its contract allows: every step of
\* either thread is one queue operation, finish within what is outstanding.
ImplementsAccounting == Queue!Spec

\* While the loss is unclaimed and the forwarder lives, the jobs it can still
\* reach are exactly those counted as outstanding: none is settled twice, none
\* falls between the channel, the hand, the join set and its reaping.
Holding == IF forwarder \in {"holding", "full", "room"} THEN 1 ELSE 0
Unsettled == chan + Holding + running + crashed + (IF settling = "reaper" THEN 1 ELSE 0)
OutstandingIsReachable ==
    rx /\ ~loss_claimed /\ worker # "panicked" => outstanding = Unsettled

\* A stalled broker backs up onto the bounded channel (comment on
\* MAX_INFLIGHT): the join set, reaped or not, never exceeds its limit.
BacklogIsBounded ==
    /\ Inflight <= MaxInflight
    /\ outstanding <= QueueCapacity + 1 + MaxInflight

\* A terminal cause is counted at most once, whether enqueue, the drain or the
\* join finds it; and the closed sink owns nothing and queues nothing.
ClosedOnce ==
    /\ causes <= 1
    /\ ship = "closed" => queued = 0 /\ outstanding = 0

\* A drain that completed in time settled every job the channel accepted: the
\* accounting is not failed and nothing was abandoned but refused produces.
CompletedDrainIsComplete ==
    forwarder = "done" /\ ~loss_claimed => outstanding = 0 /\ chan = 0 /\ Inflight = 0

\* The backlog is what the counters say, and no more than it may be.
BacklogIsSound == TypeOK /\ OutstandingIsReachable /\ BacklogIsBounded

\* However the sink was closed, its counters are settled, and after a completed
\* drain they are those of a complete delivery.
CloseIsSound == ClosedOnce /\ CompletedDrainIsComplete

\* Dropping the sink returns although the broker never answers.
DropReturns == ship = "closing" ~> ship = "closed"

\* With a broker that answers, accepted jobs are settled again and again; a
\* panicked task is only noticed with the next job, a panicked forwarder or
\* worker only with the next send or at the end.
EverythingSettles ==
    WF_vars(ForwarderNext) /\ WF_vars(ProduceAnswers) =>
        []<>(outstanding = crashed \/ forwarder = "panicked" \/ worker = "panicked")
=============================================================================
