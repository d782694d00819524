---------------------------- MODULE LossyStream ----------------------------
(***************************************************************************)
(* What the capture pipeline promises of a session's mouse reports, with   *)
(* threads, ring, batcher and windows left out.  A source numbers its      *)
(* reports; each is either taken or lost at once.  What was taken is       *)
(* delivered in order, in batches, and a gap is announced no later than    *)
(* the batch with the first report behind it.  The stream ends only when   *)
(* the source is closed and everything taken was delivered.                *)
(***************************************************************************)
EXTENDS Integers, Sequences

VARIABLES
    produced,             \* reports the source numbered so far
    lost,                 \* how many of them were not taken
    buffer,               \* taken, not delivered
    delivered,            \* delivered, in order
    announced,            \* losses the batches told of
    closed,               \* the source is closed
    ended                 \* nothing is delivered any more

vars == <<produced, lost, buffer, delivered, announced, closed, ended>>

Init ==
    /\ produced = 0 /\ lost = 0
    /\ buffer = <<>> /\ delivered = <<>> /\ announced = 0
    /\ closed = FALSE /\ ended = FALSE

\* The next report is taken ...
Take ==
    /\ ~closed
    /\ produced' = produced + 1
    /\ buffer' = Append(buffer, produced')
    /\ UNCHANGED <<lost, delivered, announced, closed, ended>>

\* ... or lost.
Lose ==
    /\ ~closed
    /\ produced' = produced + 1
    /\ lost' = lost + 1
    /\ UNCHANGED <<buffer, delivered, announced, closed, ended>>

\* The losses before the last of the reports ds.
Gap(ds) == ds[Len(ds)] - Len(ds)

\* A batch of the first n reports, announcing some of the losses so far and
\* at least those before its last report.
Deliver(n) ==
    /\ ~ended
    /\ delivered' = delivered \o SubSeq(buffer, 1, n)
    /\ buffer' = SubSeq(buffer, n + 1, Len(buffer))
    /\ announced' \in announced..lost
    /\ Gap(delivered') <= announced'
    /\ UNCHANGED <<produced, lost, closed, ended>>

Close ==
    /\ closed' = TRUE
    /\ UNCHANGED <<produced, lost, buffer, delivered, announced, ended>>

End ==
    /\ closed /\ buffer = <<>>
    /\ ended' = TRUE
    /\ UNCHANGED <<produced, lost, buffer, delivered, announced, closed>>

Next ==
    \/ Take \/ Lose
    \/ \E n \in 1..Len(buffer) : Deliver(n)
    \/ Close \/ End

Spec == Init /\ [][Next]_vars
=============================================================================
