----------------------------- MODULE JsonlSink -----------------------------
(***************************************************************************)
(* The local recorder (crates/capture/src/sinks/jsonl.rs): the shipping    *)
(* thread offers lines to a bounded channel, a writer thread owns the      *)
(* file, and Drop waits a bounded time for the writer to drain.  The       *)
(* counters are those of QueueAccounting, called from both threads.        *)
(*                                                                         *)
(* A line is the number of the envelope it carries, in the order the       *)
(* shipping thread offered them.  Time is abstract: a flush is due, or the *)
(* drain wait runs out, whenever the code could find it so.                *)
(***************************************************************************)
EXTENDS Naturals, Sequences, SequencesExt

CONSTANTS
    MaxOffers,            \* bound on the envelopes offered to the sink
    QueueCapacity         \* QUEUE_CAPACITY: slots of the channel

\* What the code's constants satisfy.
CapacityAssumption == QueueCapacity \in Nat \ {0}

VARIABLES
    (* QueueAccounting *)
    failed, outstanding, loss_claimed, failure_reported, dropping,
    queued, dropped, abandoned, errors, offered, delivered,
    (* the channel *)
    chan,                 \* lines sent and not yet received
    tx,                   \* the sink still holds the sender
    rx,                   \* the writer still holds the receiver
    done,                 \* completion channel: "open", "sent" or "closed"
    (* the threads *)
    ship,                 \* where the shipping thread is
    writer,               \* where the writer thread is
    pending,              \* pending_flush: lines written since the last flush
    (* the file *)
    buf,                  \* lines in the BufWriter
    disk,                 \* lines flushed to the file
    accepted              \* history: lines the channel accepted

queueVars == <<failed, outstanding, loss_claimed, failure_reported, dropping,
               queued, dropped, abandoned, errors, offered, delivered>>
fileVars == <<buf, disk, accepted>>
vars == <<queueVars, chan, tx, rx, done, ship, writer, pending, fileVars>>

Queue == INSTANCE QueueAccounting

ShipStates == {"idle", "enqueue", "waiting", "late", "joining", "counting", "closed", "timed_out"}
WriterStates == {"recv", "flush", "settle", "final_flush", "final_settle",
                 "claim", "report", "count", "signal", "exiting", "gone", "panicked"}

TypeOK ==
    /\ Queue!TypeOK
    /\ chan \in Seq(1..MaxOffers) /\ Len(chan) <= QueueCapacity
    /\ tx \in BOOLEAN /\ rx \in BOOLEAN
    /\ done \in {"open", "sent", "closed"}
    /\ ship \in ShipStates
    /\ writer \in WriterStates
    /\ pending \in 0..MaxOffers
    /\ buf \in Seq(1..MaxOffers)
    /\ disk \in Seq(1..MaxOffers)
    /\ accepted \in Seq(1..MaxOffers)

Init ==
    /\ Queue!Init
    /\ chan = <<>> /\ tx = TRUE /\ rx = TRUE /\ done = "open"
    /\ ship = "idle"
    /\ writer = "recv" /\ pending = 0
    /\ buf = <<>> /\ disk = <<>> /\ accepted = <<>>

-----------------------------------------------------------------------------
(* The shipping thread *)

\* send on a failed sink: counted as dropped, the line is never copied.
SendOnFailed ==
    /\ ship = "idle" /\ tx
    /\ Queue!CountDropped
    /\ UNCHANGED <<chan, tx, rx, done, ship, writer, pending, fileVars>>

\* send, past the unlocked is_failed check: the writer may fail before enqueue.
SendChecked ==
    /\ ship = "idle" /\ tx
    /\ ~failed
    /\ offered < MaxOffers
    /\ ship' = "enqueue"
    /\ UNCHANGED <<queueVars, chan, tx, rx, done, writer, pending, fileVars>>

\* What try_send comes back with now.
TrySendResult ==
    IF ~rx THEN "Closed" ELSE IF Len(chan) = QueueCapacity THEN "Full" ELSE "Sent"

\* enqueue: the accounting runs the channel send under its lock.
Enqueue ==
    /\ ship = "enqueue"
    /\ Queue!Enqueue(TrySendResult)
    /\ IF ~failed /\ TrySendResult = "Sent"
         THEN /\ chan' = Append(chan, offered + 1)
              /\ accepted' = Append(accepted, offered + 1)
         ELSE UNCHANGED <<chan, accepted>>
    /\ ship' = "idle"
    /\ UNCHANGED <<tx, rx, done, writer, pending, buf, disk>>

\* Drop, first half: closing the last sender is the graceful finish signal.
DropSender ==
    /\ ship = "idle" /\ tx
    /\ tx' = FALSE
    /\ ship' = "waiting"
    /\ UNCHANGED <<queueVars, chan, rx, done, writer, pending, fileVars>>

\* Drop: the writer signalled completion, and is joined; after the signal it
\* has nothing left to do that could panic, so the join reports no error.
DropCompleted ==
    /\ ship = "waiting" /\ done = "sent" /\ writer = "gone"
    /\ ship' = "closed"
    /\ UNCHANGED <<queueVars, chan, tx, rx, done, writer, pending, fileVars>>

\* Faulty variant: Drop waits for the writer however long it takes.
DropWaitsForWriter ==
    /\ ship = "waiting" /\ done = "open" /\ writer = "gone"
    /\ ship' = "late"
    /\ UNCHANGED <<queueVars, chan, tx, rx, done, writer, pending, fileVars>>

\* Drop: the drain wait ran out, although the writer may signal by now ...
DropTimedOut ==
    /\ ship = "waiting" /\ done = "open"
    /\ ship' = "late"
    /\ UNCHANGED <<queueVars, chan, tx, rx, done, writer, pending, fileVars>>

\* ... claim the loss and detach the writer.
DropAbandons ==
    /\ ship = "late"
    /\ Queue!ClaimLoss
    /\ ship' = "timed_out"
    /\ UNCHANGED <<chan, tx, rx, done, writer, pending, fileVars>>

\* Drop: the completion channel closed without a signal, so the writer
\* panicked: claim the loss ...
DropClaims ==
    /\ ship = "waiting" /\ done = "closed"
    /\ Queue!ClaimLoss
    /\ ship' = "joining"
    /\ UNCHANGED <<chan, tx, rx, done, writer, pending, fileVars>>

\* ... join the writer, and report unless enqueue already did ...
DropReports ==
    /\ ship = "joining" /\ writer = "gone"
    /\ Queue!MarkFailureReported
    /\ ship' = IF failure_reported THEN "closed" ELSE "counting"
    /\ UNCHANGED <<chan, tx, rx, done, writer, pending, fileVars>>

\* ... which counts the one causal error.
DropCounts ==
    /\ ship = "counting"
    /\ Queue!CountError
    /\ ship' = "closed"
    /\ UNCHANGED <<chan, tx, rx, done, writer, pending, fileVars>>

DropNext ==
    \/ DropCompleted \/ DropTimedOut \/ DropAbandons
    \/ DropClaims \/ DropReports \/ DropCounts

ShipNext ==
    \/ SendOnFailed \/ SendChecked \/ Enqueue
    \/ DropSender \/ DropNext

-----------------------------------------------------------------------------
(* The writer thread *)

\* write_loop receives a line and write_all succeeds: the BufWriter keeps it,
\* spilling what it held before when there is no room.  A flush may be due.
WriteLine ==
    /\ writer = "recv" /\ chan # <<>>
    /\ chan' = Tail(chan)
    /\ \/ buf' = Append(buf, Head(chan)) /\ UNCHANGED disk
       \/ buf # <<>> /\ disk' = disk \o buf /\ buf' = <<Head(chan)>>
    /\ pending' = pending + 1
    /\ writer' \in {"recv", "flush"}
    /\ UNCHANGED <<queueVars, tx, rx, done, ship, accepted>>

\* What a failing spill or flush leaves behind: some of the buffer written, all
\* of it when the BufWriter tries again as it is dropped and succeeds.
Spill ==
    \E k \in 0..Len(buf) : disk' = disk \o SubSeq(buf, 1, k) /\ buf' = <<>>

\* write_all fails: the line and the rest of the buffer are lost.
WriteFails ==
    /\ writer = "recv" /\ chan # <<>>
    /\ chan' = Tail(chan)
    /\ Spill
    /\ writer' = "claim"
    /\ UNCHANGED <<queueVars, tx, rx, done, ship, pending, accepted>>

\* Faulty variant: no timeout, a flush only ever follows a write.
FlushOnlyAfterWrites ==
    /\ writer = "recv" /\ chan = <<>> /\ tx /\ pending > QueueCapacity
    /\ writer' = "flush"
    /\ UNCHANGED <<queueVars, chan, tx, rx, done, ship, pending, fileVars>>

\* recv_timeout: the queue stayed empty until the flush was due.
FlushDue ==
    /\ writer = "recv" /\ chan = <<>> /\ tx
    /\ writer' = "flush"
    /\ UNCHANGED <<queueVars, chan, tx, rx, done, ship, pending, fileVars>>

\* Faulty variant: a closed sender ends the loop with lines still queued.
DisconnectedEarly ==
    /\ writer = "recv" /\ ~tx
    /\ writer' = "final_flush"
    /\ UNCHANGED <<queueVars, chan, tx, rx, done, ship, pending, fileVars>>

\* recv reports disconnection only once every accepted line was consumed.
Disconnected ==
    /\ writer = "recv" /\ chan = <<>> /\ ~tx
    /\ writer' = "final_flush"
    /\ UNCHANGED <<queueVars, chan, tx, rx, done, ship, pending, fileVars>>

\* Faulty variant: the lines are acknowledged while still in the buffer.
FlushLater ==
    /\ writer \in {"flush", "final_flush"}
    /\ writer' = IF writer = "flush" THEN "settle" ELSE "final_settle"
    /\ UNCHANGED <<queueVars, chan, tx, rx, done, ship, pending, fileVars>>

\* flush_timed succeeds: everything written is on disk.
Flush ==
    /\ writer \in {"flush", "final_flush"}
    /\ disk' = disk \o buf /\ buf' = <<>>
    /\ writer' = IF writer = "flush" THEN "settle" ELSE "final_settle"
    /\ UNCHANGED <<queueVars, chan, tx, rx, done, ship, pending, accepted>>

\* flush_timed fails.
FlushFails ==
    /\ writer \in {"flush", "final_flush"}
    /\ Spill
    /\ writer' = "claim"
    /\ UNCHANGED <<queueVars, chan, tx, rx, done, ship, pending, accepted>>

\* Faulty variant: the acknowledgement does not look at the terminal claim.
SettleIgnoresClaim ==
    /\ writer \in {"settle", "final_settle"}
    /\ IF pending = 0 THEN UNCHANGED queueVars ELSE Queue!FinishIgnoresClaim(pending, TRUE)
    /\ pending' = 0
    /\ writer' = IF writer = "settle" THEN "recv" ELSE "signal"
    /\ UNCHANGED <<chan, tx, rx, done, ship, fileVars>>

\* finish(pending_flush, true): acknowledge what the flush made durable.
Settle ==
    /\ writer \in {"settle", "final_settle"}
    /\ IF pending = 0 THEN UNCHANGED queueVars ELSE Queue!Finish(pending, TRUE)
    /\ pending' = 0
    /\ writer' = IF writer = "settle" THEN "recv" ELSE "signal"
    /\ UNCHANGED <<chan, tx, rx, done, ship, fileVars>>

\* write_loop returned an error: claim the loss ...
WriterClaims ==
    /\ writer = "claim"
    /\ Queue!ClaimLoss
    /\ writer' = "report"
    /\ UNCHANGED <<chan, tx, rx, done, ship, pending, fileVars>>

\* ... and count the causal error, if nobody reported it before.
WriterReports ==
    /\ writer = "report"
    /\ Queue!MarkFailureReported
    /\ writer' = IF failure_reported THEN "signal" ELSE "count"
    /\ UNCHANGED <<chan, tx, rx, done, ship, pending, fileVars>>

WriterCounts ==
    /\ writer = "count"
    /\ Queue!CountError
    /\ writer' = "signal"
    /\ UNCHANGED <<chan, tx, rx, done, ship, pending, fileVars>>

\* done_tx.send, after the BufWriter is gone.
WriterSignals ==
    /\ writer = "signal"
    /\ done' = "sent"
    /\ writer' = "exiting"
    /\ UNCHANGED <<queueVars, chan, tx, rx, ship, pending, fileVars>>

\* The thread ends: the receiver is dropped with it.
WriterExits ==
    /\ writer = "exiting"
    /\ rx' = FALSE
    /\ writer' = "gone"
    /\ UNCHANGED <<queueVars, chan, tx, done, ship, pending, fileVars>>

\* The file implementation panics inside a write or a flush.
WriterPanics ==
    /\ \/ writer = "recv" /\ chan # <<>> /\ chan' = Tail(chan)
       \/ writer \in {"flush", "final_flush"} /\ UNCHANGED chan
    /\ Spill
    /\ writer' = "panicked"
    /\ UNCHANGED <<queueVars, tx, rx, done, ship, pending, accepted>>

\* Unwinding drops the two channel ends one after the other.
WriterUnwinds ==
    /\ writer = "panicked"
    /\ \/ rx /\ rx' = FALSE /\ UNCHANGED done
       \/ done = "open" /\ done' = "closed" /\ UNCHANGED rx
    /\ writer' = IF ~rx' /\ done' = "closed" THEN "gone" ELSE "panicked"
    /\ UNCHANGED <<queueVars, chan, tx, ship, pending, fileVars>>

WriterNext ==
    \/ WriteLine \/ WriteFails \/ FlushDue \/ Disconnected
    \/ Flush \/ FlushFails \/ Settle
    \/ WriterClaims \/ WriterReports \/ WriterCounts
    \/ WriterSignals \/ WriterExits \/ WriterPanics \/ WriterUnwinds

\* The process runs on until both threads are done with the sink.
Terminated ==
    /\ ship \in {"closed", "timed_out"} /\ writer = "gone"
    /\ UNCHANGED vars

Next == ShipNext \/ WriterNext \/ Terminated

(***************************************************************************)
(* The shipping thread keeps running and its waits are bounded, so its     *)
(* steps are fair (when and whether it closes the sink is its own choice); *)
(* so are the unwinding of a panicked writer and the end of one that has   *)
(* signalled, which do no I/O.  The writer may block in the file system    *)
(* for ever, so its other steps are not; EverythingSettles assumes them    *)
(* fair: a storage that answers.                                           *)
(***************************************************************************)
Spec ==
    /\ Init /\ [][Next]_vars
    /\ WF_vars(Enqueue)
    /\ WF_vars(DropNext)
    /\ WF_vars(WriterUnwinds)
    /\ WF_vars(WriterExits)

-----------------------------------------------------------------------------
(* Properties *)

\* The recorder uses the accounting as its contract allows: every step is a
\* queue operation with finish never settling more than is outstanding.
ImplementsAccounting == Queue!Spec

\* The recording is a prefix of the accepted lines, in order, with no gap in
\* the middle, even while the writer fails, panics or is abandoned.
RecordingIsPrefix == IsPrefix(disk, accepted)

\* A line is acknowledged (leaves the queued gauge) only once it is on disk.
DurableBeforeAcknowledged == delivered <= Len(disk)

\* A drop that completed without a failure left every accepted line on disk.
CleanCloseIsComplete ==
    ship = "closed" /\ ~failed => disk = accepted /\ queued = 0 /\ abandoned = 0

\* The recording holds what was accepted, in order, and no less than what was
\* acknowledged.
RecordingIsSound == TypeOK /\ RecordingIsPrefix /\ DurableBeforeAcknowledged

\* Once Drop returned, no envelope is unaccounted for, whichever of the
\* timeout, the writer's failure and its panic came first.
ClosedOwnsNothing == ship \in {"closed", "timed_out"} => queued = 0 /\ outstanding = 0

\* The causal failure is counted at most once; once Drop has seen the writer
\* out it is counted exactly when the sink failed.
FailureCountedOnce ==
    /\ errors <= 1
    /\ ship = "closed" => (errors = 1 <=> failed)

\* However Drop ended, nothing is missing from file or counters unannounced.
CloseIsSound == CleanCloseIsComplete /\ ClosedOwnsNothing /\ FailureCountedOnce

\* Drop is bounded: it returns even when the storage never does.
DropReturns == ship = "waiting" ~> ship \in {"closed", "timed_out"}

\* With a storage that answers, the lines accepted so far are settled again and
\* again, unless the writer panicked (nobody notices before the next send).
EverythingSettles ==
    WF_vars(WriterNext) => []<>(outstanding = 0 \/ writer \in {"panicked", "gone"})
=============================================================================
