-------------------------- MODULE CapturePipeline --------------------------
(***************************************************************************)
(* The hot path of the capture agent: the capture thread T1 (raw_input.rs) *)
(* pushes decoded mouse reports into a bounded single-producer ring, the   *)
(* shipping thread T2 (shipping.rs) drains it into batches on a grid of    *)
(* windows, and the main thread stops them one after the other.            *)
(*                                                                         *)
(* A report is its number in the order T1 decoded them, so the reports T1  *)
(* dropped before the i-th accepted one are accepted[i] - i.  The window's *)
(* clock is abstract: an open window elapses at some point (BatchWindow    *)
(* models the grid, RingWaker the parking, which is bounded).  A record is *)
(* sent to every sink or, the live-only ones, to the UDP sink alone.       *)
(* Absolute reports never reach the ring; their counter goes the way of    *)
(* ring_drops and is left out.                                             *)
(***************************************************************************)
EXTENDS Integers, Sequences

CONSTANTS
    RingCapacity,         \* ring_capacity: slots of the ring
    MaxBatch,             \* max_events: events in one batch
    DrainBudget,          \* DRAIN_BUDGET: events drained in one pass
    MaxReports,           \* bound on the relative reports T1 decodes
    MaxMarkers,           \* bound on the markers handed to T2
    MaxLive               \* bound on re-sent sessions and heartbeats

ASSUME ParametersAssumption ==
    /\ RingCapacity \in Nat \ {0}
    /\ MaxBatch \in Nat \ {0}
    /\ DrainBudget \in Nat \ {0}
    /\ MaxReports \in Nat /\ MaxMarkers \in Nat /\ MaxLive \in Nat

VARIABLES
    (* T1 and what it shares *)
    t1,                   \* "pump", "dropping" (not counted yet) or "stopped"
    generated,            \* relative reports decoded
    accepted,             \* history: the reports the ring took, in order
    ring,                 \* reports pushed and not popped
    ring_drops,           \* the shared counter of dropped reports
    (* markers: from T1, or from the context and stdin threads *)
    marker_chan,          \* markers T2 has not received, per sender
    markers_sent,         \* history: markers handed over, per sender
    (* the main thread *)
    capture_stopped,      \* set once T1 was joined
    (* T2 *)
    t2,                   \* where T2 is in its loop
    stopping,             \* what it read from capture_stopped in this pass
    drained,              \* events drained in this pass
    pending,              \* the batcher's events
    window,               \* "closed", "open" or "elapsed"
    last_drops,           \* the DropAccountant's last total
    hb_batches,           \* HeartbeatGate: the batch count it saw last
    (* what left the agent *)
    shipped,              \* history: the reports shipped in batches, in order
    reported,             \* history: drops the batches reported so far
    batches,              \* batches shipped, the next batch's number
    markers_out,          \* history: markers delivered, per sender
    live_sent             \* history: re-sent sessions and heartbeats

t1Vars == <<t1, generated, accepted, ring_drops>>
markerVars == <<marker_chan, markers_sent>>
batchVars == <<last_drops, shipped, reported, batches>>
loopVars == <<stopping, drained, window, hb_batches>>
vars == <<t1Vars, ring, markerVars, capture_stopped, t2, loopVars, pending,
          batchVars, markers_out, live_sent>>

Senders == {"t1", "other"}
T2States == {"start", "top", "drain", "flush", "markers", "window", "housekeep",
             "check", "final", "done"}

TypeOK ==
    /\ t1 \in {"pump", "dropping", "stopped"}
    /\ generated \in Nat /\ ring_drops \in Nat
    /\ accepted \in Seq(Nat) /\ ring \in Seq(Nat) /\ pending \in Seq(Nat) /\ shipped \in Seq(Nat)
    /\ marker_chan \in [Senders -> Nat]
    /\ markers_sent \in [Senders -> Nat] /\ markers_out \in [Senders -> Nat]
    /\ capture_stopped \in BOOLEAN /\ stopping \in BOOLEAN
    /\ t2 \in T2States
    /\ drained \in 0..DrainBudget
    /\ window \in {"closed", "open", "elapsed"}
    /\ last_drops \in Nat /\ hb_batches \in Nat
    /\ reported \in Nat /\ batches \in Nat
    /\ live_sent \in Nat

Init ==
    /\ t1 = "pump" /\ generated = 0 /\ accepted = <<>>
    /\ ring = <<>> /\ ring_drops = 0
    /\ marker_chan = [s \in Senders |-> 0] /\ markers_sent = [s \in Senders |-> 0]
    /\ capture_stopped = FALSE
    /\ t2 = "start" /\ stopping = FALSE /\ drained = 0 /\ pending = <<>>
    /\ window = "closed" /\ last_drops = 0 /\ hb_batches = 0
    /\ shipped = <<>> /\ reported = 0 /\ batches = 0
    /\ markers_out = [s \in Senders |-> 0] /\ live_sent = 0

-----------------------------------------------------------------------------
(* T1 *)

t2Vars == <<t2, loopVars, pending, batchVars, markers_out, live_sent>>

\* Faulty variant: a full ring makes room by overwriting its oldest event.
PushOverwrites ==
    /\ t1 = "pump" /\ generated < MaxReports
    /\ generated' = generated + 1
    /\ ring' = IF Len(ring) < RingCapacity THEN Append(ring, generated')
                                            ELSE Append(Tail(ring), generated')
    /\ accepted' = Append(accepted, generated')
    /\ UNCHANGED <<t1, ring_drops, markerVars, capture_stopped, t2Vars>>

\* process_mouse: a relative report, and the ring has room.
Push ==
    /\ t1 = "pump" /\ generated < MaxReports
    /\ Len(ring) < RingCapacity
    /\ generated' = generated + 1
    /\ ring' = Append(ring, generated')
    /\ accepted' = Append(accepted, generated')
    /\ UNCHANGED <<t1, ring_drops, markerVars, capture_stopped, t2Vars>>

\* The ring is full: the report is gone, the shared counter not stored yet.
PushFull ==
    /\ t1 = "pump" /\ generated < MaxReports
    /\ Len(ring) = RingCapacity
    /\ generated' = generated + 1
    /\ t1' = "dropping"
    /\ UNCHANGED <<accepted, ring, ring_drops, markerVars, capture_stopped, t2Vars>>

CountDrop ==
    /\ t1 = "dropping"
    /\ ring_drops' = ring_drops + 1
    /\ t1' = "pump"
    /\ UNCHANGED <<generated, accepted, ring, markerVars, capture_stopped, t2Vars>>

\* A hotkey press or a new device: T1 sends a marker.  The context and stdin
\* threads send theirs whenever they like, also after T1 has stopped.
SendMarker(s) ==
    /\ s = "t1" => t1 = "pump"
    /\ markers_sent["t1"] + markers_sent["other"] < MaxMarkers
    /\ marker_chan' = [marker_chan EXCEPT ![s] = @ + 1]
    /\ markers_sent' = [markers_sent EXCEPT ![s] = @ + 1]
    /\ UNCHANGED <<t1Vars, ring, capture_stopped, t2Vars>>

\* WM_QUIT, a failed wait or a failed start ends the message loop.
CaptureEnds ==
    /\ t1 = "pump"
    /\ t1' = "stopped"
    /\ UNCHANGED <<generated, accepted, ring, ring_drops, markerVars, capture_stopped, t2Vars>>

T1Next ==
    \/ Push \/ PushFull \/ CountDrop \/ CaptureEnds

(* The main thread *)

\* teardown: T1 is joined, then T2 is told.
StopShipping ==
    /\ t1 = "stopped" /\ ~capture_stopped
    /\ capture_stopped' = TRUE
    /\ UNCHANGED <<t1Vars, ring, markerVars, t2Vars>>

-----------------------------------------------------------------------------
(* T2 *)

sharedVars == <<t1Vars, markerVars, capture_stopped>>

\* run: the session record goes out before anything else.
SendSession ==
    /\ t2 = "start"
    /\ t2' = "top"
    /\ UNCHANGED <<sharedVars, ring, loopVars, pending, batchVars, markers_out, live_sent>>

\* A pass begins: capture_stopped is read before the ring and the channel.
BeginPass ==
    /\ t2 = "top"
    /\ stopping' = capture_stopped
    /\ drained' = 0
    /\ t2' = "drain"
    /\ UNCHANGED <<sharedVars, ring, window, hb_batches, pending, batchVars, markers_out, live_sent>>

\* Faulty variant: the drain does not stop at its budget.
PopIgnoresBudget ==
    /\ t2 = "drain" /\ ring # <<>>
    /\ ring' = Tail(ring)
    /\ pending' = Append(pending, Head(ring))
    /\ drained' = drained + 1
    /\ t2' = IF Len(pending') >= MaxBatch THEN "flush" ELSE "drain"
    /\ UNCHANGED <<sharedVars, stopping, window, hb_batches, batchVars, markers_out, live_sent>>

\* consumer.pop: the event joins the batch; a full batch is flushed at once.
Pop ==
    /\ t2 = "drain" /\ ring # <<>> /\ drained < DrainBudget
    /\ ring' = Tail(ring)
    /\ pending' = Append(pending, Head(ring))
    /\ drained' = drained + 1
    /\ t2' = IF Len(pending') >= MaxBatch THEN "flush" ELSE "drain"
    /\ UNCHANGED <<sharedVars, stopping, window, hb_batches, batchVars, markers_out, live_sent>>

\* Faulty variant: a flush that forgets what it had already reported.
FlushRecounts ==
    IF pending = <<>> THEN UNCHANGED <<pending, batchVars>>
    ELSE /\ shipped' = shipped \o pending
         /\ reported' = reported + (ring_drops - last_drops)
         /\ UNCHANGED last_drops
         /\ batches' = batches + 1
         /\ pending' = <<>>

\* Faulty variant: the drops are taken off the counter but not put in the batch.
FlushForgetsDrops ==
    IF pending = <<>> THEN UNCHANGED <<pending, batchVars>>
    ELSE /\ shipped' = shipped \o pending
         /\ UNCHANGED reported
         /\ last_drops' = ring_drops
         /\ batches' = batches + 1
         /\ pending' = <<>>

\* Shipper::flush: nothing when empty; else one batch with the drops counted
\* since the last one.
Flush ==
    IF pending = <<>> THEN UNCHANGED <<pending, batchVars>>
    ELSE /\ shipped' = shipped \o pending
         /\ reported' = reported + (ring_drops - last_drops)
         /\ last_drops' = ring_drops
         /\ batches' = batches + 1
         /\ pending' = <<>>

\* Faulty variant: the size flush is skipped, the window will send the batch.
FlushFullSkipped ==
    /\ t2 = "flush"
    /\ t2' = "drain"
    /\ UNCHANGED <<sharedVars, ring, loopVars, pending, batchVars, markers_out, live_sent>>

\* The size flush inside the drain.
FlushFull ==
    /\ t2 = "flush"
    /\ Flush
    /\ t2' = "drain"
    /\ UNCHANGED <<sharedVars, ring, loopVars, markers_out, live_sent>>

\* The ring was seen empty, or the budget is spent.
EndDrain ==
    /\ t2 = "drain"
    /\ ring = <<>> \/ drained = DrainBudget
    /\ t2' = "markers"
    /\ UNCHANGED <<sharedVars, ring, loopVars, pending, batchVars, markers_out, live_sent>>

\* marker_rx.try_recv yields a marker: it goes to every sink.
DeliverMarker(s) ==
    /\ t2 = "markers" /\ marker_chan[s] > 0
    /\ marker_chan' = [marker_chan EXCEPT ![s] = @ - 1]
    /\ markers_out' = [markers_out EXCEPT ![s] = @ + 1]
    /\ UNCHANGED <<t1Vars, ring, markers_sent, capture_stopped, t2, loopVars, pending, batchVars, live_sent>>

EndMarkers ==
    /\ t2 = "markers" /\ \A s \in Senders : marker_chan[s] = 0
    /\ t2' = "window"
    /\ UNCHANGED <<sharedVars, ring, loopVars, pending, batchVars, markers_out, live_sent>>

\* Time passes: an open window reaches its deadline.
WindowElapses ==
    /\ window = "open"
    /\ window' = "elapsed"
    /\ UNCHANGED <<sharedVars, ring, t2, stopping, drained, hb_batches, pending, batchVars, markers_out, live_sent>>

\* Did this pass see events?
Live == drained > 0 \/ pending # <<>>

\* Faulty variant: a size flush during the window stands the timer down, so
\* liveness is judged by what was drained alone.
AdvanceWindowDrainedOnly ==
    window' = CASE drained > 0 -> "open"
                [] drained = 0 -> "closed"

\* advance_window: a live pass keeps a window open, one that elapsed with
\* nothing in it stands the timer down.
AdvanceWindow ==
    window' = IF Live THEN "open"
              ELSE IF window = "elapsed" THEN "closed" ELSE window

\* Faulty variant: an elapsed window is left alone once the agent is stopping.
TurnWindowUnlessStopping ==
    /\ t2 = "window"
    /\ IF window = "elapsed" /\ ~stopping THEN Flush ELSE UNCHANGED <<pending, batchVars>>
    /\ AdvanceWindow
    /\ t2' = "housekeep"
    /\ UNCHANGED <<sharedVars, ring, stopping, drained, hb_batches, markers_out, live_sent>>

\* The window step: flush what an elapsed window holds, then advance it.
TurnWindow ==
    /\ t2 = "window"
    /\ IF window = "elapsed" THEN Flush ELSE UNCHANGED <<pending, batchVars>>
    /\ AdvanceWindow
    /\ t2' = "housekeep"
    /\ UNCHANGED <<sharedVars, ring, stopping, drained, hb_batches, markers_out, live_sent>>

\* The session is sent again every few seconds to the live viz.
ResendDue == live_sent < MaxLive

\* A heartbeat may be due only while not stopping and with no batch since the
\* gate last looked.
HeartbeatDue == ~stopping /\ batches = hb_batches /\ live_sent < MaxLive

\* The sink tick, the session re-send, then the heartbeat gate.
Housekeep ==
    /\ t2 = "housekeep"
    /\ \/ UNCHANGED live_sent
       \/ (ResendDue \/ HeartbeatDue) /\ live_sent' = live_sent + 1
       \/ (ResendDue /\ HeartbeatDue) /\ live_sent' = live_sent + 2
    /\ hb_batches' = IF stopping THEN hb_batches ELSE batches
    /\ t2' = "check"
    /\ UNCHANGED <<sharedVars, ring, stopping, drained, window, pending, batchVars, markers_out>>

\* Faulty variant: the stop flag is read again after the drain.
CheckReadsFlagLate ==
    /\ t2 = "check"
    /\ t2' = IF capture_stopped /\ drained = 0 /\ pending = <<>> THEN "final" ELSE "top"
    /\ UNCHANGED <<sharedVars, ring, loopVars, pending, batchVars, markers_out, live_sent>>

\* Leave the loop once stopping and idle; otherwise park (bounded) and go on.
Check ==
    /\ t2 = "check"
    /\ t2' = IF stopping /\ drained = 0 /\ pending = <<>> THEN "final" ELSE "top"
    /\ UNCHANGED <<sharedVars, ring, loopVars, pending, batchVars, markers_out, live_sent>>

\* The final flush, the last tick, and the sinks are closed.
Finish ==
    /\ t2 = "final"
    /\ Flush
    /\ t2' = "done"
    /\ UNCHANGED <<sharedVars, ring, loopVars, markers_out, live_sent>>

T2Next ==
    \/ SendSession \/ BeginPass \/ Pop \/ FlushFull \/ EndDrain
    \/ (\E s \in Senders : DeliverMarker(s)) \/ EndMarkers \/ TurnWindow \/ Housekeep \/ Check \/ Finish

Terminated == t2 = "done" /\ UNCHANGED vars

Next ==
    \/ T1Next
    \/ \E s \in Senders : SendMarker(s)
    \/ StopShipping
    \/ T2Next
    \/ WindowElapses
    \/ Terminated

(***************************************************************************)
(* T2 never blocks without a timeout, teardown's store follows its join,   *)
(* and time passes.  T1 owes nothing: a report, a marker or the end of the *)
(* capture comes when it comes, but a counted drop is in the middle of a   *)
(* handler that returns.                                                   *)
(***************************************************************************)
Spec ==
    /\ Init /\ [][Next]_vars
    /\ WF_vars(T2Next) /\ WF_vars(WindowElapses)
    /\ WF_vars(StopShipping) /\ WF_vars(CountDrop)

-----------------------------------------------------------------------------
(* Properties *)

\* Nothing the ring took is lost, duplicated or reordered on its way through
\* ring, batcher and batches.
NothingLost == accepted = shipped \o pending \o ring

\* No batch exceeds max_events, the datagram budget; no pass its drain budget.
BatchFits == Len(pending) <= MaxBatch

\* A gap is announced no later than the batch that holds the first event
\* after it, whatever the interleaving of T1's counter with T2's flush, and no
\* drop is announced twice.
GapsAnnounced ==
    /\ reported <= ring_drops
    /\ \A i \in 1..Len(shipped) : shipped[i] - i <= reported

\* Stopping loses nothing: once T2 is done, every accepted event and every
\* marker of T1 has been sent.
StopIsComplete ==
    t2 = "done" =>
        /\ shipped = accepted
        /\ markers_out["t1"] = markers_sent["t1"]

\* A partial batch always has a window running that will flush it.
PendingHasWindow ==
    t2 \in {"housekeep", "check", "top"} /\ pending # <<>> => window # "closed"

\* The batcher is never over its bound, and never waits without a clock.
BatchesAreSound == BatchFits /\ PendingHasWindow

\* What the agent promises of its reports (LossyStream): ring and batcher are
\* its buffer, and a report is lost when the ring refuses it.
Stream == INSTANCE LossyStream WITH
    produced <- generated,
    lost <- generated - Len(accepted),
    buffer <- pending \o ring,
    delivered <- shipped,
    announced <- reported,
    closed <- (t1 = "stopped"),
    ended <- (t2 = "done")

\* Every step of T1, T2 and teardown is one step of that stream, or none.
ImplementsStream == Stream!Spec

\* A stop completes: T2 drains what is left, flushes it when its window
\* elapses, and returns.
StopCompletes == capture_stopped ~> t2 = "done"

\* An event never stays in the batcher: it is shipped within its window.
PendingIsShipped ==
    \A n \in 1..MaxReports :
        (pending # <<>> /\ pending[1] = n) ~> (pending = <<>> \/ pending[1] # n)

\* LIVENESS: nothing stays behind, in the stream or at its end (run).
EverythingIsShipped == StopCompletes /\ PendingIsShipped
=============================================================================
