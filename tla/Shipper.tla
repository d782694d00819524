------------------------------- MODULE Shipper -------------------------------
(***************************************************************************)
(* Shipping to the sinks: what T2 sends to whom, how a failing sink is     *)
(* counted and warned about without holding up the others, when the live   *)
(* viewer hears a heartbeat, and how the sinks share the time that is left *)
(* when the agent stops.                                                   *)
(*                                                                         *)
(* Whether a send or a tick fails is the sink's; a record that cannot be   *)
(* serialized is a bug of the program and not modelled.  Time passes       *)
(* between two passes of the loop and while a sink drains.                 *)
(***************************************************************************)
EXTENDS Integers, FiniteSets, FiniteSetsExt

CONSTANTS Wrap,                                          \* 2^32, where T1's counter wraps
          WarnInterval, TickInterval, ResendInterval, HeartbeatInterval,
          Budget,                                        \* SINK_DRAIN_BUDGET
          SinkSets,                                      \* what [sinks] may list
          MaxTime, MaxDrops, MaxBatches, MaxFailures     \* bounds of the model

Udp == "udp"
Jsonl == "jsonl"
Kafka == "kafka"
Kinds == {Udp, Jsonl, Kafka}
Drains == {Jsonl, Kafka}        \* drains_on_close

\* What the constants of the code satisfy.
IntervalsAssumption ==
    /\ {Wrap, WarnInterval, TickInterval, ResendInterval, HeartbeatInterval} \subseteq Nat \ {0}
    /\ Budget \in Nat /\ SinkSets # {} /\ SinkSets \subseteq SUBSET Kinds

VARIABLES
    pc, now, sinks, stopping, last_tick, last_resend,
    gate,                       \* HeartbeatGate
    batches, drops, drops_last, \* sent batches, T1's drops (all of them), DropAccountant
    errors, limiter,            \* per sink
    deadline, share, closed, sidecar,
    attempts, told, warned_at,
    sessions, beats, opening, announced, heard

clockVars == <<now, last_tick, last_resend>>
sinkVars == <<errors, limiter, attempts, told, warned_at, sessions, beats, opening>>
closeVars == <<deadline, share, closed, sidecar>>
vars == <<pc, sinks, stopping, gate, batches, drops, drops_last, announced, heard,
          clockVars, sinkVars, closeVars>>

Zero == [s \in Kinds |-> 0]

Init ==
    /\ pc = "session" /\ sinks \in SinkSets /\ stopping = FALSE
    /\ now = 1 /\ last_tick = 1 /\ last_resend = 1
    /\ gate = [batches |-> 0, quiet_since |-> 1]
    /\ batches = 0 /\ drops = 0 /\ drops_last = 0 /\ announced = 0 /\ heard = 1
    /\ errors = Zero /\ limiter = [s \in Kinds |-> [next_at |-> 0, suppressed |-> 0]]
    /\ attempts = Zero /\ told = Zero /\ warned_at = Zero
    /\ sessions = Zero /\ beats = Zero /\ opening = [s \in Kinds |-> "nothing"]
    /\ deadline = 0 /\ share = Zero /\ closed = {} /\ sidecar = FALSE

-----------------------------------------------------------------------------
(* Delivery.                                                               *)

\* Throttle::allow, one per sink: what was swallowed is told with the next
\* warning.
\* Faulty variant: it is counted on.
AllowCountsOn(l) == [next_at |-> now + WarnInterval, suppressed |-> l.suppressed]
Allow(l) == [next_at |-> now + WarnInterval, suppressed |-> 0]
MayWarn(s) == limiter[s].next_at <= now

\* report_failure for each of the sinks that failed.
ReportFailures(failed) ==
    /\ errors' = [s \in Kinds |-> errors[s] + (IF s \in failed THEN 1 ELSE 0)]
    /\ limiter' = [s \in Kinds |->
          IF s \notin failed THEN limiter[s]
          ELSE IF MayWarn(s) THEN Allow(limiter[s])
          ELSE [limiter[s] EXCEPT !.suppressed = @ + 1]]
    /\ told' = [s \in Kinds |->
          IF s \in failed /\ MayWarn(s) THEN told[s] + 1 + limiter[s].suppressed ELSE told[s]]
    /\ warned_at' = [s \in Kinds |-> IF s \in failed /\ MayWarn(s) THEN now ELSE warned_at[s]]

\* udp::classify and account: a datagram that finds no room or no listener is
\* lost, but it is no error.
Failures == errors[Udp] + errors[Jsonl] + errors[Kafka]
Send(to, kind) ==
    \E failed \in SUBSET to, lost \in BOOLEAN :
        LET taken == (to \ failed) \ (IF lost THEN {Udp} ELSE {}) IN
        /\ Failures + Cardinality(failed) <= MaxFailures
        /\ attempts' = [s \in Kinds |-> attempts[s] + (IF s \in to THEN 1 ELSE 0)]
        /\ ReportFailures(failed)
        /\ sessions' = [s \in Kinds |-> sessions[s] + (IF s \in taken /\ kind = "session" THEN 1 ELSE 0)]
        /\ beats' = [s \in Kinds |-> beats[s] + (IF s \in taken /\ kind = "heartbeat" THEN 1 ELSE 0)]
        /\ opening' = [s \in Kinds |-> IF s \in taken /\ opening[s] = "nothing" THEN kind ELSE opening[s]]

\* fan_out goes on past a sink that fails; send_to is for the viewer alone.
Deliver(kind) == Send(sinks, kind)
\* Faulty variant: to every sink.
SendEverywhere(kind) == Send(sinks, kind)
SendLive(kind) == Send(sinks \cap {Udp}, kind)

-----------------------------------------------------------------------------
(* The loop: a pass ends in a park, or, once it was told to stop and finds *)
(* nothing left, in the last flush.                                        *)

OpenSession ==
    /\ pc = "session" /\ pc' = "flush" /\ Deliver("session")
    /\ UNCHANGED <<sinks, stopping, gate, batches, drops, drops_last, announced, heard, clockVars, closeVars>>

\* DropAccountant::delta, on a counter that wraps.
\* Faulty variant: it saturates.
DeltaSaturating(total, was) == IF total >= was THEN total - was ELSE 0
Delta(total, was) == (total - was + Wrap) % Wrap

Flush ==
    /\ batches < MaxBatches
    /\ LET total == drops % Wrap IN
       /\ announced' = announced + Delta(total, drops_last) /\ drops_last' = total
       /\ batches' = batches + 1 /\ heard' = now /\ Deliver("batch")
    /\ UNCHANGED <<sinks, stopping, gate, drops, clockVars, closeVars>>
FlushBatch == pc = "flush" /\ pc' = "tick" /\ Flush
FlushLast == pc = "last" /\ pc' = "final" /\ Flush
NothingToFlush ==
    /\ pc \in {"flush", "last"} /\ pc' = (IF pc = "flush" THEN "tick" ELSE "final")
    /\ UNCHANGED <<sinks, stopping, gate, batches, drops, drops_last, announced, heard,
                   clockVars, sinkVars, closeVars>>

\* tick_all, once an interval and a last time before the sinks close: nothing
\* is sent, but what fails is counted.
Tick ==
    /\ pc \in {"tick", "final"} /\ pc' = (IF pc = "tick" THEN "resend" ELSE "close")
    /\ IF pc = "tick" /\ now - last_tick < TickInterval THEN UNCHANGED <<last_tick, errors, limiter, told, warned_at>>
       ELSE /\ last_tick' = now
            /\ \E failed \in SUBSET (sinks \ {Udp}) :
                  Failures + Cardinality(failed) <= MaxFailures /\ ReportFailures(failed)
    /\ UNCHANGED <<sinks, stopping, gate, batches, drops, drops_last, announced, heard, now, last_resend,
                   attempts, sessions, beats, opening, closeVars>>

ResendSession ==
    /\ pc = "resend" /\ pc' = "beat"
    /\ IF now - last_resend < ResendInterval THEN UNCHANGED <<last_resend, sinkVars>>
       ELSE last_resend' = now /\ SendLive("session")
    /\ UNCHANGED <<sinks, stopping, gate, batches, drops, drops_last, announced, heard, now, last_tick, closeVars>>

\* HeartbeatGate::due.
\* Faulty variant: the quiet starts with the first call that sees no batch.
DueSinceSeen(g) ==
    IF batches # g.batches THEN [batches |-> batches, quiet_since |-> now + 1]
    ELSE [g EXCEPT !.quiet_since = IF now - @ >= HeartbeatInterval THEN now + 1 ELSE @]
Due(g) ==
    IF batches # g.batches THEN [batches |-> batches, quiet_since |-> now]
    ELSE [g EXCEPT !.quiet_since = IF now - @ >= HeartbeatInterval THEN now ELSE @]
Beats(g) == batches = g.batches /\ now - g.quiet_since >= HeartbeatInterval

Heartbeat ==
    /\ pc = "beat" /\ pc' \in (IF stopping THEN {"park", "last"} ELSE {"park"})
    /\ IF stopping THEN UNCHANGED <<gate, heard, sinkVars>>
       ELSE /\ gate' = Due(gate)
            /\ IF Beats(gate) THEN SendLive("heartbeat") /\ heard' = now ELSE UNCHANGED <<heard, sinkVars>>
    /\ UNCHANGED <<sinks, stopping, batches, drops, drops_last, announced, clockVars, closeVars>>

Park ==
    /\ pc = "park" /\ pc' = "flush"
    /\ \E t \in 0..2 : now + t <= MaxTime /\ now' = now + t
    /\ UNCHANGED <<sinks, stopping, gate, batches, drops, drops_last, announced, heard,
                   last_tick, last_resend, sinkVars, closeVars>>

-----------------------------------------------------------------------------
(* Closing: everything but Kafka, the sidecar, Kafka, in one budget.       *)

BeginClose ==
    /\ pc = "close" /\ pc' = "rest" /\ deadline' = now + Budget
    /\ UNCHANGED <<sinks, stopping, gate, batches, drops, drops_last, announced, heard, clockVars, sinkVars,
                   share, closed, sidecar>>

\* close_within: an even share of what is left, for the sinks that drain now
\* or later.
\* Faulty variant: for those that drain now.
ShareNow(draining, later) == (deadline - now) \div Max({draining, 1})
Share(draining, later) == (deadline - now) \div Max({draining + later, 1})

Close(s, later) ==
    /\ closed' = closed \cup {s}
    /\ IF s \in Drains
       THEN /\ share' = [share EXCEPT ![s] = Share(1, later)]
            /\ \E t \in 0..Share(1, later) : now' = now + t
       ELSE UNCHANGED <<share, now>>
    /\ UNCHANGED <<pc, sinks, stopping, gate, batches, drops, drops_last, announced, heard,
                   last_tick, last_resend, sinkVars, deadline, sidecar>>
CloseRest == \E s \in sinks \ (closed \cup {Kafka}) :
    pc = "rest" /\ Close(s, Cardinality(sinks \cap {Kafka}))
WriteSidecar ==
    /\ pc = "rest" /\ sinks \subseteq closed \cup {Kafka} /\ pc' = "kafka" /\ sidecar' = TRUE
    /\ UNCHANGED <<sinks, stopping, gate, batches, drops, drops_last, announced, heard, clockVars, sinkVars,
                   deadline, share, closed>>
CloseKafka == pc = "kafka" /\ Kafka \in sinks \ closed /\ Close(Kafka, 0)

T1Drops(n) ==
    /\ pc = "park" /\ drops + n <= MaxDrops /\ drops + n - announced < Wrap /\ drops' = drops + n
    /\ UNCHANGED <<pc, sinks, stopping, gate, batches, drops_last, announced, heard, clockVars, sinkVars, closeVars>>
CaptureStopped ==
    /\ pc = "park" /\ ~stopping /\ stopping' = TRUE
    /\ UNCHANGED <<pc, sinks, gate, batches, drops, drops_last, announced, heard, clockVars, sinkVars, closeVars>>

Next ==
    \/ OpenSession \/ FlushBatch \/ FlushLast \/ NothingToFlush \/ Tick \/ ResendSession \/ Heartbeat \/ Park
    \/ BeginClose \/ CloseRest \/ WriteSidecar \/ CloseKafka
    \/ \E n \in 1..(Wrap - 1) : T1Drops(n)
    \/ CaptureStopped
Spec == Init /\ [][Next]_vars

-----------------------------------------------------------------------------
(* What the log, the counters, a recording and a viewer rely on.           *)

\* No sink is skipped because another failed, and the warnings about a sink
\* account for all of its failures, those they kept quiet about included.
FailuresAreCounted ==
    /\ \A s, t \in sinks \ {Udp} : attempts[s] = attempts[t]
    /\ \A s \in sinks : told[s] + limiter[s].suppressed = errors[s]

\* A recording and the broker hold at most one session record, no heartbeat,
\* and the session first if it was taken at all.
RecordingHasOneSession ==
    \A s \in Drains : /\ sessions[s] <= 1 /\ beats[s] = 0
                      /\ sessions[s] = 1 => opening[s] = "session"

\* At the end of a pass the viewer was sent something within an interval, and
\* a heartbeat only in a silence.
LiveIsNotSilent == pc = "park" /\ ~stopping => now - heard < HeartbeatInterval

\* The sinks close inside the budget, Kafka after the recording and its
\* sidecar, and neither of two that drain is left less than half of it.
CloseIsFair ==
    /\ closed # {} => now <= deadline
    /\ Kafka \in closed => sidecar
    /\ sidecar => sinks \subseteq closed \cup {Kafka}
    /\ \A s \in closed \cap Drains : share[s] >= Budget \div 2

\* Warnings about one sink are an interval apart; a batch announces every drop
\* that T1 counted before it, also when the counter has wrapped.
WarningsAreRare ==
    [][\A s \in Kinds : warned_at'[s] # warned_at[s] /\ warned_at[s] > 0 =>
          warned_at'[s] - warned_at[s] >= WarnInterval]_vars
DropsAreAnnounced == [][batches' # batches => announced' = drops]_vars
=============================================================================
