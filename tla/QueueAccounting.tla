-------------------------- MODULE QueueAccounting --------------------------
(***************************************************************************)
(* The bookkeeping shared by the JSONL writer and the Kafka forwarder      *)
(* (crates/capture/src/sinks/queue.rs).  A bounded channel sits in front   *)
(* of a worker; every envelope offered to the sink must end in exactly one *)
(* of four places: refused (dropped), still owned by the worker            *)
(* (outstanding), confirmed (delivered) or given up (abandoned).  One      *)
(* mutex serialises every operation, so each operation is one action.      *)
(*                                                                         *)
(* The behaviours of Spec are those of the most general clients: any       *)
(* number of threads calling the operations in any order, restricted only  *)
(* by the debug_assert of finish (a worker settles what it was given).     *)
(***************************************************************************)
EXTENDS Naturals

CONSTANT MaxOffers        \* bound on the envelopes offered by the clients

ASSUME MaxOffersAssumption == MaxOffers \in Nat

VARIABLES
    failed,               \* terminal: later envelopes are dropped at once
    outstanding,          \* accepted envelopes not yet confirmed delivered
    loss_claimed,         \* the one terminal claim has been made
    failure_reported,     \* the causal error has been counted
    dropping,             \* the queue is overflowing
    queued, dropped, abandoned, errors,   \* the sink's counters in Stats
    offered,              \* history: envelopes the sink was asked to take
    delivered             \* history: envelopes settled as delivered

flags == <<failed, loss_claimed, failure_reported, dropping>>
counters == <<queued, dropped, abandoned, errors>>
vars == <<flags, outstanding, counters, offered, delivered>>

\* What the non-blocking channel send came back with.
TrySend == {"Sent", "Full", "Closed"}

FlagsOK ==
    /\ failed \in BOOLEAN
    /\ loss_claimed \in BOOLEAN
    /\ failure_reported \in BOOLEAN
    /\ dropping \in BOOLEAN

CountsOK ==
    /\ outstanding \in Nat
    /\ queued \in Nat
    /\ dropped \in Nat
    /\ abandoned \in Nat
    /\ errors \in Nat
    /\ offered \in Nat
    /\ delivered \in Nat

TypeOK == FlagsOK /\ CountsOK

Init ==
    /\ failed = FALSE
    /\ outstanding = 0
    /\ loss_claimed = FALSE
    /\ failure_reported = FALSE
    /\ dropping = FALSE
    /\ queued = 0
    /\ dropped = 0
    /\ abandoned = 0
    /\ errors = 0
    /\ offered = 0
    /\ delivered = 0

-----------------------------------------------------------------------------
(* Operations *)

\* How many envelopes the terminal claim moves: only the first claim moves any.
Claimable == IF loss_claimed THEN 0 ELSE outstanding

\* claim_loss: move every outstanding envelope into abandoned, once.
ClaimLoss ==
    /\ failed' = TRUE
    /\ loss_claimed' = TRUE
    /\ outstanding' = outstanding - Claimable
    /\ queued' = queued - Claimable
    /\ abandoned' = abandoned + Claimable
    /\ UNCHANGED <<failure_reported, dropping, dropped, errors, offered, delivered>>

\* enqueue on a sink that already failed: a quiet drop, the channel untouched.
EnqueueOnFailed ==
    /\ failed
    /\ dropped' = dropped + 1
    /\ UNCHANGED <<flags, outstanding, queued, abandoned, errors>>

\* enqueue, TrySend::Sent: outstanding until the worker settles it.
EnqueueSent ==
    /\ ~failed
    /\ outstanding' = outstanding + 1
    /\ queued' = queued + 1
    /\ dropping' = FALSE
    /\ UNCHANGED <<failed, loss_claimed, failure_reported, dropped, abandoned, errors>>

\* Faulty variant: an overflow that does not take the queued count back.
EnqueueFullKeepsQueued ==
    /\ ~failed
    /\ dropped' = dropped + 1
    /\ queued' = queued + 1
    /\ dropping' = TRUE
    /\ UNCHANGED <<failed, loss_claimed, failure_reported, outstanding, abandoned, errors>>

\* enqueue, TrySend::Full: the count is undone, the envelope is a drop.
EnqueueFull ==
    /\ ~failed
    /\ dropped' = dropped + 1
    /\ dropping' = TRUE
    /\ UNCHANGED <<failed, loss_claimed, failure_reported, outstanding, queued, abandoned, errors>>

\* enqueue, TrySend::Closed: a drop, the terminal claim, and the causal error
\* unless it was already reported.
EnqueueClosed ==
    /\ ~failed
    /\ failed' = TRUE
    /\ loss_claimed' = TRUE
    /\ failure_reported' = TRUE
    /\ outstanding' = outstanding - Claimable
    /\ queued' = queued - Claimable
    /\ dropped' = dropped + 1
    /\ abandoned' = abandoned + Claimable
    /\ errors' = IF failure_reported THEN errors ELSE errors + 1
    /\ UNCHANGED dropping

Enqueue(result) ==
    /\ offered < MaxOffers
    /\ offered' = offered + 1
    /\ \/ EnqueueOnFailed
       \/ result = "Sent" /\ EnqueueSent
       \/ result = "Full" /\ EnqueueFull
       \/ result = "Closed" /\ EnqueueClosed
    /\ UNCHANGED delivered

\* count_dropped, called by a sender that saw is_failed.
CountDropped ==
    /\ offered < MaxOffers
    /\ failed
    /\ offered' = offered + 1
    /\ dropped' = dropped + 1
    /\ UNCHANGED <<flags, outstanding, queued, abandoned, errors, delivered>>

\* count_error: the callers count a produce or a causal failure.
CountError ==
    /\ errors' = errors + 1
    /\ UNCHANGED <<flags, outstanding, queued, dropped, abandoned, offered, delivered>>

\* Faulty variant: a completion that counts even after the loss was claimed.
FinishIgnoresClaim(n, ok) ==
    /\ n > 0
    /\ outstanding' = outstanding - n
    /\ queued' = queued - n
    /\ abandoned' = IF ok THEN abandoned ELSE abandoned + n
    /\ delivered' = IF ok THEN delivered + n ELSE delivered
    /\ UNCHANGED <<flags, dropped, errors, offered>>

\* finish(n, ok): the worker settles n of the outstanding envelopes.  After
\* the claim it changes nothing: those are already counted as abandoned.
Finish(n, ok) ==
    /\ n > 0
    /\ \/ /\ loss_claimed
          /\ UNCHANGED <<outstanding, queued, abandoned, delivered>>
       \/ /\ ~loss_claimed
          /\ n <= outstanding
          /\ outstanding' = outstanding - n
          /\ queued' = queued - n
          /\ \/ ok /\ delivered' = delivered + n /\ UNCHANGED abandoned
             \/ ~ok /\ abandoned' = abandoned + n /\ UNCHANGED delivered
    /\ UNCHANGED <<flags, dropped, errors, offered>>

\* mark_failed: failed, before (or without) the claim.
MarkFailed ==
    /\ failed' = TRUE
    /\ UNCHANGED <<outstanding, loss_claimed, failure_reported, dropping, counters, offered, delivered>>

\* mark_failure_reported: the first caller gets to count the causal error.
MarkFailureReported ==
    /\ failure_reported' = TRUE
    /\ UNCHANGED <<failed, outstanding, loss_claimed, dropping, counters, offered, delivered>>

Next ==
    \/ \E result \in TrySend : Enqueue(result)
    \/ CountDropped
    \/ CountError
    \/ \E n \in 1..MaxOffers, ok \in BOOLEAN : Finish(n, ok)
    \/ ClaimLoss
    \/ MarkFailed
    \/ MarkFailureReported

Spec == Init /\ [][Next]_vars

-----------------------------------------------------------------------------
(* Properties *)

\* Every envelope offered is counted in exactly one place, whatever order the
\* shutdown timeout, the worker's failure and late completions arrive in
\* (queue.rs module comment: "the counters are exact").
Conservation == offered = dropped + delivered + outstanding + abandoned

\* The queued gauge always equals the envelopes the worker still owns, so a
\* sink that is done reports zero queued.
QueuedIsOutstanding == queued = outstanding

\* After the one terminal claim the sink is failed and owns nothing.
ClaimedOwnsNothing == loss_claimed => failed /\ outstanding = 0

\* The counters are exact.
CountersExact == Conservation /\ QueuedIsOutstanding /\ ClaimedOwnsNothing

\* Once the loss is claimed no completion and no second claim moves an
\* envelope again: only refusals are still counted.
ClaimIsFinal ==
    [][loss_claimed =>
         /\ delivered' = delivered
         /\ abandoned' = abandoned
         /\ outstanding' = 0
         /\ failed']_vars
=============================================================================
