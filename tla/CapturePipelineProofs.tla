----------------------- MODULE CapturePipelineProofs -----------------------
(***************************************************************************)
(* Proofs about CapturePipeline for every ring, batch and drain size: the  *)
(* inductive invariant, the safety properties the runs check, and that the *)
(* pipeline implements LossyStream.                                        *)
(***************************************************************************)
EXTENDS CapturePipeline, SequenceTheorems, TLAPS

\* Batches stay within max_events; only a batch waiting for its size flush
\* has reached it.
RoomLeft ==
    /\ Len(pending) <= MaxBatch
    /\ t2 # "flush" => Len(pending) < MaxBatch

\* The reports T1 dropped are those it counted and the one it is counting.
Uncounted == IF t1 = "dropping" THEN 1 ELSE 0
DropsAreCounted ==
    /\ generated = Len(accepted) + ring_drops + Uncounted
    /\ \A i \in 1..Len(accepted) : accepted[i] - i <= ring_drops

\* The batches reported exactly the drops the accountant took off the counter,
\* which covers the gaps before everything shipped.
DropsAreReported ==
    /\ reported = last_drops
    /\ last_drops <= ring_drops
    /\ \A i \in 1..Len(shipped) : shipped[i] - i <= reported

\* T2 believes in a stop only after T1 has gone.
StopFollowsCapture ==
    /\ capture_stopped => t1 = "stopped"
    /\ stopping => capture_stopped

\* A stopping pass that drained nothing has seen the last of the ring, and one
\* past its markers the last of T1's markers.
StopSeesTheEnd ==
    /\ stopping /\ drained = 0 /\ t2 \in {"markers", "window", "housekeep", "check", "final", "done"}
         => ring = <<>>
    /\ stopping /\ t2 \in {"window", "housekeep", "check", "final", "done"}
         => marker_chan["t1"] = 0
    /\ t2 \in {"final", "done"} => stopping /\ drained = 0 /\ pending = <<>>

\* Nothing is batched before the session record is out.
StartsEmpty == t2 = "start" => pending = <<>>

MarkersAreKept ==
    \A s \in Senders : markers_sent[s] = markers_out[s] + marker_chan[s]

\* TypeOK in four parts, by the theories the provers need for them.
SeqsOK ==
    accepted \in Seq(Nat) /\ ring \in Seq(Nat) /\ pending \in Seq(Nat) /\ shipped \in Seq(Nat)
MarkersOK ==
    /\ marker_chan \in [Senders -> Nat]
    /\ markers_sent \in [Senders -> Nat]
    /\ markers_out \in [Senders -> Nat]
PlacesOK ==
    /\ t1 \in {"pump", "dropping", "stopped"}
    /\ capture_stopped \in BOOLEAN /\ stopping \in BOOLEAN
    /\ t2 \in T2States
    /\ window \in {"closed", "open", "elapsed"}
CountsOK ==
    /\ generated \in Nat /\ ring_drops \in Nat
    /\ drained \in 0..DrainBudget
    /\ last_drops \in Nat /\ hb_batches \in Nat
    /\ reported \in Nat /\ batches \in Nat /\ live_sent \in Nat

LEMMA TypeParts == TypeOK <=> SeqsOK /\ MarkersOK /\ PlacesOK /\ CountsOK
  BY DEF TypeOK, SeqsOK, MarkersOK, PlacesOK, CountsOK

IInv ==
    /\ SeqsOK /\ MarkersOK /\ PlacesOK /\ CountsOK
    /\ NothingLost
    /\ RoomLeft
    /\ DropsAreCounted
    /\ DropsAreReported
    /\ StopFollowsCapture
    /\ StopSeesTheEnd
    /\ MarkersAreKept
    /\ StartsEmpty
    /\ PendingHasWindow

-----------------------------------------------------------------------------
(* Lemmas on sequences *)

\* Appending to the ring appends to the whole stream.
LEMMA ConcatAppend ==
  ASSUME NEW s \in Seq(Nat), NEW t \in Seq(Nat), NEW x \in Nat
  PROVE  s \o Append(t, x) = Append(s \o t, x)
<1>1. Append(t, x) = t \o <<x>> /\ <<x>> \in Seq(Nat) /\ s \o t \in Seq(Nat)
  BY AppendIsConcat, ConcatProperties
<1>2. Append(s \o t, x) = (s \o t) \o <<x>>
  BY <1>1, AppendIsConcat
<1> QED
  BY <1>1, <1>2, ConcatAssociative

\* Popping moves the head of the ring to the end of the batch.
LEMMA PopMovesHead ==
  ASSUME NEW s \in Seq(Nat), NEW t \in Seq(Nat), t # <<>>
  PROVE  /\ Append(s, Head(t)) \o Tail(t) = s \o t
         /\ Head(t) \in Nat /\ Tail(t) \in Seq(Nat) /\ Append(s, Head(t)) \in Seq(Nat)
<1>1. Head(t) \in Nat /\ Tail(t) \in Seq(Nat) /\ <<Head(t)>> \in Seq(Nat)
  BY HeadTailProperties
<1>2. <<Head(t)>> \o Tail(t) = t
  OBVIOUS
<1>3. Append(s, Head(t)) = s \o <<Head(t)>>
  BY <1>1, AppendIsConcat
<1> QED
  BY <1>1, <1>2, <1>3, ConcatAssociative, AppendProperties

LEMMA Assoc ==
  ASSUME NEW d \in Seq(Nat), NEW s \in Seq(Nat), NEW t \in Seq(Nat)
  PROVE  (d \o s) \o t = d \o (s \o t)
  BY ConcatAssociative

LEMMA PopKeepsStream ==
  ASSUME NEW d \in Seq(Nat), NEW s \in Seq(Nat), NEW t \in Seq(Nat), t # <<>>
  PROVE  (d \o Append(s, Head(t))) \o Tail(t) = (d \o s) \o t
<1>1. /\ Append(s, Head(t)) \o Tail(t) = s \o t
      /\ Append(s, Head(t)) \in Seq(Nat) /\ Tail(t) \in Seq(Nat)
  BY PopMovesHead
<1>2. (d \o Append(s, Head(t))) \o Tail(t) = d \o (Append(s, Head(t)) \o Tail(t))
  BY <1>1, Assoc, Zenon
<1>3. (d \o s) \o t = d \o (s \o t)
  BY Assoc
<1> QED
  BY <1>1, <1>2, <1>3, Zenon

-----------------------------------------------------------------------------
(* The inductive invariant *)

LEMMA InitIInv == Init => IInv
<1> SUFFICES ASSUME Init PROVE IInv
  OBVIOUS
<1> USE ParametersAssumption DEF Init
<1>1. SeqsOK /\ MarkersOK /\ PlacesOK /\ CountsOK
  <2>1. SeqsOK
    BY DEF SeqsOK
  <2>2. MarkersOK
    BY DEF MarkersOK
  <2>3. PlacesOK
    BY DEF PlacesOK, T2States
  <2>4. CountsOK
    BY DEF CountsOK
  <2> QED
    BY <2>1, <2>2, <2>3, <2>4
<1>2. NothingLost
  BY DEF NothingLost
<1>3. RoomLeft /\ DropsAreCounted /\ DropsAreReported
  BY DEF RoomLeft, DropsAreCounted, Uncounted, DropsAreReported
<1>4. StopFollowsCapture /\ StopSeesTheEnd /\ StartsEmpty /\ PendingHasWindow
  BY DEF StopFollowsCapture, StopSeesTheEnd, StartsEmpty, PendingHasWindow
<1>5. MarkersAreKept
  BY DEF MarkersAreKept, Senders
<1> QED
  BY <1>1, <1>2, <1>3, <1>4, <1>5 DEF IInv

\* What a flush does to the stream, whichever step performs it.
LEMMA FlushStep ==
  ASSUME IInv, Flush
  PROVE  /\ shipped' \o pending' = shipped \o pending
         /\ shipped' \in Seq(Nat) /\ pending' \in Seq(Nat)
         /\ pending' = <<>> /\ Len(pending') = 0
         /\ reported' \in Nat /\ last_drops' \in Nat /\ batches' \in Nat
<1> USE DEF IInv, SeqsOK, CountsOK
<1>1. CASE pending = <<>>
  BY <1>1 DEF Flush, batchVars
<1>2. CASE pending # <<>>
  <2>1. shipped' = shipped \o pending /\ pending' = <<>>
    BY <1>2 DEF Flush
  <2>2. reported' \in Nat /\ last_drops' \in Nat /\ batches' \in Nat
    BY <1>2 DEF Flush, DropsAreReported
  <2> QED
    BY <2>1, <2>2, ConcatProperties, ConcatEmptySeq
<1> QED
  BY <1>1, <1>2

LEMMA SeqsStep ==
  ASSUME IInv, Next
  PROVE  SeqsOK'
<1> USE DEF IInv, SeqsOK, sharedVars, t1Vars, t2Vars, batchVars
<1>1. CASE Push
  BY <1>1, AppendProperties DEF Push, CountsOK
<1>2. CASE Pop
  BY <1>2, PopMovesHead DEF Pop
<1>3. CASE FlushFull \/ TurnWindow \/ Finish
  BY <1>3, FlushStep DEF FlushFull, TurnWindow, Finish
<1>4. CASE PushFull \/ CountDrop \/ CaptureEnds \/ StopShipping
  BY <1>4 DEF PushFull, CountDrop, CaptureEnds, StopShipping
<1>5. CASE SendSession \/ BeginPass \/ EndDrain \/ EndMarkers \/ Housekeep \/ Check \/ WindowElapses
  BY <1>5 DEF SendSession, BeginPass, EndDrain, EndMarkers, Housekeep, Check, WindowElapses
<1>6. CASE (\E s \in Senders : SendMarker(s) \/ DeliverMarker(s)) \/ Terminated
  BY <1>6 DEF SendMarker, DeliverMarker, Terminated, vars
<1> QED
  BY <1>1, <1>2, <1>3, <1>4, <1>5, <1>6 DEF Next, T1Next, T2Next

\* A marker moves from its sender's count to the channel, then to the sinks.
LEMMA MarkersStep ==
  ASSUME IInv, Next
  PROVE  MarkersOK' /\ MarkersAreKept'
<1> USE DEF IInv, MarkersOK, MarkersAreKept, sharedVars, markerVars, t2Vars
<1>1. ASSUME NEW s \in Senders, SendMarker(s) PROVE MarkersOK' /\ MarkersAreKept'
  BY <1>1 DEF SendMarker
<1>2. ASSUME NEW s \in Senders, DeliverMarker(s) PROVE MarkersOK' /\ MarkersAreKept'
  <2>1. MarkersOK'
    BY <1>2 DEF DeliverMarker
  <2>2. \A r \in Senders : markers_sent'[r] = markers_out'[r] + marker_chan'[r]
    BY <1>2 DEF DeliverMarker
  <2> QED
    BY <2>1, <2>2
<1>3. CASE Push \/ PushFull \/ CountDrop \/ CaptureEnds \/ StopShipping
  BY <1>3 DEF Push, PushFull, CountDrop, CaptureEnds, StopShipping
<1>4. CASE SendSession \/ BeginPass \/ EndDrain \/ EndMarkers \/ Housekeep \/ Check \/ WindowElapses
  BY <1>4 DEF SendSession, BeginPass, EndDrain, EndMarkers, Housekeep, Check, WindowElapses
<1>5. CASE Pop \/ FlushFull \/ TurnWindow \/ Finish \/ Terminated
  BY <1>5 DEF Pop, FlushFull, TurnWindow, Finish, Terminated, vars
<1> QED
  BY <1>1, <1>2, <1>3, <1>4, <1>5 DEF Next, T1Next, T2Next

LEMMA PlacesStep ==
  ASSUME IInv, Next
  PROVE  PlacesOK'
<1> USE DEF IInv, PlacesOK, T2States, sharedVars, t1Vars, t2Vars, loopVars
<1>1. CASE Push \/ PushFull \/ CountDrop \/ CaptureEnds \/ StopShipping
  BY <1>1 DEF Push, PushFull, CountDrop, CaptureEnds, StopShipping
<1>2. CASE (\E s \in Senders : SendMarker(s) \/ DeliverMarker(s)) \/ Terminated
  BY <1>2 DEF SendMarker, DeliverMarker, Terminated, vars
<1>3. CASE SendSession \/ BeginPass \/ EndDrain \/ EndMarkers
  BY <1>3 DEF SendSession, BeginPass, EndDrain, EndMarkers
<1>4. CASE Pop
  BY <1>4 DEF Pop
<1>5. CASE FlushFull \/ Finish \/ Housekeep \/ WindowElapses
  BY <1>5 DEF FlushFull, Finish, Housekeep, WindowElapses
<1>6. CASE TurnWindow
  BY <1>6 DEF TurnWindow, AdvanceWindow
<1>7. CASE Check
  BY <1>7 DEF Check
<1> QED
  BY <1>1, <1>2, <1>3, <1>4, <1>5, <1>6, <1>7 DEF Next, T1Next, T2Next

LEMMA CountsStep ==
  ASSUME IInv, Next
  PROVE  CountsOK'
<1> USE ParametersAssumption DEF IInv, CountsOK, sharedVars, t1Vars, t2Vars, loopVars, batchVars
<1>1. CASE Push
  BY <1>1 DEF Push
<1>7. CASE PushFull \/ CountDrop
  BY <1>7 DEF PushFull, CountDrop
<1>8. CASE CaptureEnds \/ StopShipping
  BY <1>8 DEF CaptureEnds, StopShipping
<1>2. CASE (\E s \in Senders : SendMarker(s) \/ DeliverMarker(s)) \/ Terminated
  BY <1>2 DEF SendMarker, DeliverMarker, Terminated, vars
<1>3. CASE SendSession \/ BeginPass \/ EndDrain \/ EndMarkers \/ Check \/ WindowElapses
  BY <1>3 DEF SendSession, BeginPass, EndDrain, EndMarkers, Check, WindowElapses
<1>4. CASE Pop
  BY <1>4 DEF Pop
<1>5. CASE FlushFull \/ Finish \/ TurnWindow
  BY <1>5, FlushStep DEF FlushFull, Finish, TurnWindow
<1>6. CASE Housekeep
  BY <1>6 DEF Housekeep
<1> QED
  BY <1>1, <1>2, <1>3, <1>4, <1>5, <1>6, <1>7, <1>8 DEF Next, T1Next, T2Next

\* Steps that touch neither the stream nor T1.
Quiet ==
    \/ SendSession \/ BeginPass \/ EndDrain \/ EndMarkers \/ Housekeep \/ Check
    \/ WindowElapses \/ StopShipping
    \/ (\E s \in Senders : SendMarker(s) \/ DeliverMarker(s)) \/ Terminated

LEMMA QuietStep ==
  ASSUME Quiet
  PROVE  UNCHANGED <<t1, generated, accepted, ring, ring_drops, pending,
                     last_drops, shipped, reported>>
<1> USE DEF sharedVars, t1Vars, t2Vars, batchVars, markerVars
<1>1. CASE SendSession \/ BeginPass \/ EndDrain \/ EndMarkers \/ Housekeep \/ Check
  BY <1>1 DEF SendSession, BeginPass, EndDrain, EndMarkers, Housekeep, Check
<1>2. CASE WindowElapses \/ StopShipping \/ Terminated
  BY <1>2 DEF WindowElapses, StopShipping, Terminated, vars
<1>3. CASE \E s \in Senders : SendMarker(s) \/ DeliverMarker(s)
  BY <1>3 DEF SendMarker, DeliverMarker
<1> QED
  BY <1>1, <1>2, <1>3 DEF Quiet

\* Next, by what a step does to the stream.
LEMMA NextCases ==
  ASSUME Next
  PROVE  \/ Push \/ PushFull \/ CountDrop \/ CaptureEnds
         \/ Pop \/ FlushFull \/ TurnWindow \/ Finish \/ Quiet
  BY DEF Next, T1Next, T2Next, Quiet

\* TurnWindow flushes, or leaves the stream alone.
LEMMA TurnWindowFlushes ==
  ASSUME TurnWindow
  PROVE  /\ Flush \/ UNCHANGED <<pending, last_drops, shipped, reported>>
         /\ UNCHANGED <<t1, generated, accepted, ring, ring_drops>>
  BY DEF TurnWindow, batchVars, sharedVars, t1Vars

LEMMA NothingLostStep ==
  ASSUME IInv, Next
  PROVE  NothingLost'
<1> USE DEF IInv, SeqsOK, NothingLost, sharedVars, t1Vars, t2Vars, batchVars
<1>0. (shipped \o pending) \in Seq(Nat)
  BY ConcatProperties
<1>1. CASE Push
  <2>1. generated' \in Nat
    BY <1>1 DEF Push, CountsOK
  <2>2. (shipped \o pending) \o Append(ring, generated') = Append(accepted, generated')
    BY <1>0, <2>1, ConcatAppend
  <2> QED
    BY <1>1, <2>2 DEF Push
<1>2. CASE Pop
  <2>1. ring # <<>> /\ pending' = Append(pending, Head(ring)) /\ ring' = Tail(ring)
        /\ UNCHANGED <<shipped, accepted>>
    BY <1>2 DEF Pop
  <2>2. (shipped \o Append(pending, Head(ring))) \o Tail(ring) = (shipped \o pending) \o ring
    BY <2>1, PopKeepsStream
  <2> QED
    BY <2>1, <2>2
<1>3. CASE FlushFull \/ TurnWindow \/ Finish
  <2>1. ring' = ring /\ accepted' = accepted
    BY <1>3 DEF FlushFull, TurnWindow, Finish
  <2>2. shipped' \o pending' = shipped \o pending
    BY <1>3, FlushStep DEF FlushFull, TurnWindow, Finish
  <2> QED
    BY <2>1, <2>2
<1>4. CASE PushFull \/ CountDrop \/ CaptureEnds
  BY <1>4 DEF PushFull, CountDrop, CaptureEnds
<1>5. CASE Quiet
  BY <1>5, QuietStep
<1> QED
  BY <1>1, <1>2, <1>3, <1>4, <1>5, NextCases

LEMMA RoomLeftStep ==
  ASSUME IInv, Next
  PROVE  RoomLeft'
<1> USE ParametersAssumption DEF IInv, SeqsOK, RoomLeft, sharedVars, t1Vars, t2Vars, batchVars, markerVars
<1>0. Len(pending) \in Nat
  BY LenProperties
<1>1. CASE Pop
  <2>1. Head(ring) \in Nat /\ pending' = Append(pending, Head(ring))
    BY <1>1, PopMovesHead DEF Pop
  <2>2. Len(pending') = Len(pending) + 1
    BY <2>1, AppendProperties
  <2>3. Len(pending) < MaxBatch
    BY <1>1 DEF Pop
  <2>4. t2' # "flush" => Len(pending') < MaxBatch
    BY <1>0, <1>1, <2>2 DEF Pop
  <2> QED
    BY <1>0, <2>2, <2>3, <2>4
<1>2. CASE FlushFull \/ Finish
  BY <1>2, FlushStep DEF FlushFull, Finish
<1>3. CASE TurnWindow
  <2>1. t2 = "window" /\ t2' = "housekeep"
    BY <1>3 DEF TurnWindow
  <2>2. CASE Flush
    BY <2>1, <2>2, FlushStep
  <2>3. CASE pending' = pending
    BY <2>1, <2>3
  <2> QED
    BY <1>3, <2>2, <2>3, TurnWindowFlushes
<1>4. CASE Push \/ PushFull \/ CountDrop \/ CaptureEnds
  BY <1>4 DEF Push, PushFull, CountDrop, CaptureEnds
<1>5. CASE SendSession \/ BeginPass \/ EndDrain \/ EndMarkers \/ Housekeep \/ Check
  BY <1>5 DEF SendSession, BeginPass, EndDrain, EndMarkers, Housekeep, Check
<1>6. CASE WindowElapses \/ StopShipping \/ Terminated
  BY <1>6 DEF WindowElapses, StopShipping, Terminated, vars
<1>7. CASE \E s \in Senders : SendMarker(s) \/ DeliverMarker(s)
  BY <1>7 DEF SendMarker, DeliverMarker
<1> QED
  BY <1>1, <1>2, <1>3, <1>4, <1>5, <1>6, <1>7, NextCases DEF Quiet

\* The part of the stream before the ring is what T1 accepted first.
LEMMA ShippedIsPrefix ==
  ASSUME IInv
  PROVE  /\ Len(shipped \o pending) <= Len(accepted)
         /\ \A i \in 1..Len(shipped \o pending) : (shipped \o pending)[i] = accepted[i]
<1> DEFINE front == shipped \o pending
<1>1. front \in Seq(Nat) /\ ring \in Seq(Nat) /\ accepted = front \o ring
  BY ConcatProperties DEF IInv, SeqsOK, NothingLost
<1> HIDE DEF front
<1>2. Len(accepted) = Len(front) + Len(ring) /\ Len(front) \in Nat /\ Len(ring) \in Nat
  BY <1>1, ConcatProperties, LenProperties
<1>3. \A i \in 1..Len(front) : accepted[i] = front[i]
  BY <1>1, ConcatProperties
<1>4. Len(front) <= Len(accepted) /\ \A i \in 1..Len(front) : front[i] = accepted[i]
  BY <1>2, <1>3
<1> QED
  BY <1>4 DEF front

LEMMA DropsAreCountedStep ==
  ASSUME IInv, Next
  PROVE  DropsAreCounted'
<1> USE DEF IInv, SeqsOK, CountsOK, PlacesOK, DropsAreCounted, Uncounted, sharedVars, t1Vars
<1>0. Len(accepted) \in Nat /\ \A i \in 1..Len(accepted) : accepted[i] \in Nat
  BY LenProperties, ElementOfSeq
<1>1. CASE Push
  <2>1. accepted' = Append(accepted, generated + 1) /\ generated' = generated + 1
        /\ t1 = "pump" /\ t1' = t1 /\ ring_drops' = ring_drops
    BY <1>1 DEF Push
  <2>2. /\ Len(accepted') = Len(accepted) + 1
        /\ accepted'[Len(accepted) + 1] = generated + 1
        /\ \A i \in 1..Len(accepted) : accepted'[i] = accepted[i]
    BY <2>1, AppendProperties
  <2>3. generated = Len(accepted) + ring_drops
    BY <2>1
  <2>4. \A i \in 1..Len(accepted') : accepted'[i] - i <= ring_drops'
    <3> TAKE i \in 1..Len(accepted')
    <3>1. CASE i \in 1..Len(accepted)
      BY <3>1, <1>0, <2>1, <2>2
    <3>2. CASE i = Len(accepted) + 1
      BY <3>2, <1>0, <2>1, <2>2, <2>3
    <3>3. i \in 1..Len(accepted) \/ i = Len(accepted) + 1
      <4> HIDE DEF IInv, SeqsOK, CountsOK, PlacesOK, DropsAreCounted, Uncounted
      <4> QED
        BY <1>0, <2>2
    <3> QED
      BY <3>1, <3>2, <3>3
  <2> QED
    BY <1>0, <2>1, <2>2, <2>3, <2>4
<1>2. CASE PushFull
  BY <1>0, <1>2 DEF PushFull
<1>3. CASE CountDrop
  BY <1>0, <1>3 DEF CountDrop
<1>4. CASE CaptureEnds
  BY <1>0, <1>4 DEF CaptureEnds
<1>5. CASE Pop \/ FlushFull \/ TurnWindow \/ Finish
  BY <1>5 DEF Pop, FlushFull, TurnWindow, Finish
<1>6. CASE Quiet
  BY <1>6, QuietStep
<1> QED
  BY <1>1, <1>2, <1>3, <1>4, <1>5, <1>6, NextCases

\* A flush announces every drop counted so far, and those were counted before
\* anything behind them was accepted.
LEMMA FlushReports ==
  ASSUME IInv, Flush, UNCHANGED ring_drops
  PROVE  DropsAreReported'
<1>1. CASE pending = <<>>
  BY <1>1 DEF Flush, batchVars, IInv, DropsAreReported
<1>2. CASE pending # <<>>
  <2>1. shipped' = shipped \o pending /\ last_drops' = ring_drops
        /\ reported' = reported + (ring_drops - last_drops)
    BY <1>2 DEF Flush
  <2>2. reported = last_drops /\ reported \in Nat /\ ring_drops \in Nat
    BY DEF IInv, DropsAreReported, CountsOK
  <2>3. reported' = ring_drops
    BY <2>1, <2>2
  <2>4. /\ Len(shipped') <= Len(accepted)
        /\ \A i \in 1..Len(shipped') : shipped'[i] = accepted[i]
    BY <2>1, ShippedIsPrefix
  <2>5. /\ Len(shipped') \in Nat /\ Len(accepted) \in Nat
        /\ \A i \in 1..Len(accepted) : accepted[i] - i <= ring_drops
    <3>1. shipped' \in Seq(Nat) /\ accepted \in Seq(Nat)
      BY FlushStep DEF IInv, SeqsOK
    <3> QED
      BY <3>1, LenProperties DEF IInv, DropsAreCounted
  <2>6. \A i \in 1..Len(shipped') : shipped'[i] - i <= ring_drops
    BY <2>4, <2>5
  <2> QED
    BY <2>1, <2>2, <2>3, <2>6 DEF DropsAreReported
<1> QED
  BY <1>1, <1>2

LEMMA DropsAreReportedStep ==
  ASSUME IInv, Next
  PROVE  DropsAreReported'
<1> USE DEF IInv, CountsOK, DropsAreReported, sharedVars, t1Vars, t2Vars, batchVars
<1>1. CASE FlushFull \/ Finish
  BY <1>1, FlushReports DEF FlushFull, Finish
<1>2. CASE TurnWindow
  <2>1. CASE Flush
    BY <2>1, <1>2, TurnWindowFlushes, FlushReports
  <2>2. CASE UNCHANGED <<pending, last_drops, shipped, reported>>
    BY <2>2, <1>2, TurnWindowFlushes
  <2> QED
    BY <2>1, <2>2, <1>2, TurnWindowFlushes
<1>3. CASE CountDrop
  BY <1>3 DEF CountDrop
<1>4. CASE Push \/ PushFull \/ CaptureEnds \/ Pop
  BY <1>4 DEF Push, PushFull, CaptureEnds, Pop
<1>5. CASE Quiet
  BY <1>5, QuietStep
<1> QED
  BY <1>1, <1>2, <1>3, <1>4, <1>5, NextCases

\* Once stopping, T1 is gone: it pushes and marks nothing more.
LEMMA StopFollowsCaptureStep ==
  ASSUME IInv, Next
  PROVE  StopFollowsCapture'
<1> USE DEF StopFollowsCapture, IInv, sharedVars, t1Vars, t2Vars, loopVars
<1>1. CASE Push \/ PushFull \/ CountDrop \/ CaptureEnds \/ StopShipping
  BY <1>1 DEF Push, PushFull, CountDrop, CaptureEnds, StopShipping
<1>2. CASE (\E s \in Senders : SendMarker(s) \/ DeliverMarker(s)) \/ Terminated
  BY <1>2 DEF SendMarker, DeliverMarker, Terminated, vars
<1>3. CASE SendSession \/ BeginPass \/ EndDrain \/ EndMarkers \/ Housekeep \/ Check \/ WindowElapses
  BY <1>3 DEF SendSession, BeginPass, EndDrain, EndMarkers, Housekeep, Check, WindowElapses
<1>4. CASE Pop \/ FlushFull \/ TurnWindow \/ Finish
  BY <1>4 DEF Pop, FlushFull, TurnWindow, Finish
<1> QED
  BY <1>1, <1>2, <1>3, <1>4 DEF Next, T1Next, T2Next

LEMMA StopSeesTheEndStep ==
  ASSUME IInv, Next
  PROVE  StopSeesTheEnd'
<1> USE DEF StopSeesTheEnd, StopFollowsCapture, sharedVars, t1Vars, t2Vars, loopVars, batchVars, markerVars
<1>0. StopSeesTheEnd /\ StopFollowsCapture /\ drained \in Nat
  BY ParametersAssumption DEF IInv, CountsOK
<1>1. CASE Push \/ PushFull \/ CountDrop \/ CaptureEnds \/ StopShipping
  BY <1>0, <1>1 DEF Push, PushFull, CountDrop, CaptureEnds, StopShipping
<1>2. ASSUME NEW s \in Senders, SendMarker(s) PROVE StopSeesTheEnd'
  <2>1. UNCHANGED <<t2, stopping, drained, ring, pending>>
    BY <1>2 DEF SendMarker
  <2>2. stopping => s # "t1"
    BY <1>0, <1>2 DEF SendMarker
  <2>3. s # "t1" => marker_chan'["t1"] = marker_chan["t1"]
    BY <1>2 DEF SendMarker, IInv, MarkersOK, Senders
  <2> QED
    BY <1>0, <2>1, <2>2, <2>3
<1>3. ASSUME NEW s \in Senders, DeliverMarker(s) PROVE StopSeesTheEnd'
  BY <1>0, <1>3 DEF DeliverMarker
<1>4. CASE SendSession \/ BeginPass \/ WindowElapses \/ Terminated
  BY <1>0, <1>4 DEF SendSession, BeginPass, WindowElapses, Terminated, vars
<1>5. CASE EndDrain
  BY <1>0, <1>5, ParametersAssumption DEF EndDrain
<1>6. CASE EndMarkers
  BY <1>0, <1>6 DEF EndMarkers, Senders
<1>7. CASE Housekeep \/ Check
  BY <1>0, <1>7 DEF Housekeep, Check
<1>8. CASE Pop \/ FlushFull
  BY <1>0, <1>8 DEF Pop, FlushFull
<1>9. CASE TurnWindow
  BY <1>0, <1>9 DEF TurnWindow
<1>10. CASE Finish
  BY <1>0, <1>10, FlushStep DEF Finish
<1> QED
  BY <1>1, <1>2, <1>3, <1>4, <1>5, <1>6, <1>7, <1>8, <1>9, <1>10 DEF Next, T1Next, T2Next

\* A pass that leaves events behind has opened a window for them.
LEMMA WindowStep ==
  ASSUME IInv, Next
  PROVE  StartsEmpty' /\ PendingHasWindow'
<1> USE DEF StartsEmpty, PendingHasWindow, sharedVars, t1Vars, t2Vars, loopVars, batchVars
<1>0. StartsEmpty /\ PendingHasWindow
  BY DEF IInv
<1>1. CASE Push \/ PushFull \/ CountDrop \/ CaptureEnds \/ StopShipping
  BY <1>0, <1>1 DEF Push, PushFull, CountDrop, CaptureEnds, StopShipping
<1>2. CASE (\E s \in Senders : SendMarker(s) \/ DeliverMarker(s)) \/ Terminated
  BY <1>0, <1>2 DEF SendMarker, DeliverMarker, Terminated, vars
<1>3. CASE SendSession \/ BeginPass \/ EndDrain \/ EndMarkers \/ Housekeep \/ Check \/ WindowElapses
  BY <1>0, <1>3 DEF SendSession, BeginPass, EndDrain, EndMarkers, Housekeep, Check, WindowElapses
<1>4. CASE Pop \/ FlushFull \/ Finish
  BY <1>0, <1>4 DEF Pop, FlushFull, Finish
<1>5. CASE TurnWindow
  <2>1. t2' = "housekeep" /\ AdvanceWindow
    BY <1>5 DEF TurnWindow
  <2>2. pending' # <<>> => pending # <<>>
    BY <1>5, FlushStep DEF TurnWindow
  <2> QED
    BY <2>1, <2>2 DEF AdvanceWindow, Live
<1> QED
  BY <1>1, <1>2, <1>3, <1>4, <1>5 DEF Next, T1Next, T2Next

LEMMA NextIInv == IInv /\ [Next]_vars => IInv'
<1> SUFFICES ASSUME IInv, [Next]_vars PROVE IInv'
  OBVIOUS
<1>1. CASE Next
  BY <1>1, SeqsStep, MarkersStep, PlacesStep, CountsStep, NothingLostStep, RoomLeftStep,
     DropsAreCountedStep, DropsAreReportedStep, StopFollowsCaptureStep,
     StopSeesTheEndStep, WindowStep DEF IInv
<1>2. CASE UNCHANGED vars
  BY <1>2 DEF IInv, vars, t1Vars, markerVars, batchVars, loopVars, SeqsOK, MarkersOK,
     PlacesOK, CountsOK, NothingLost, RoomLeft, DropsAreCounted, Uncounted,
     DropsAreReported, StopFollowsCapture, StopSeesTheEnd, MarkersAreKept,
     StartsEmpty, PendingHasWindow
<1> QED
  BY <1>1, <1>2

-----------------------------------------------------------------------------
(* Theorems *)

THEOREM IInvHolds == Spec => []IInv
  BY InitIInv, NextIInv, PTL DEF Spec

\* The sets the variables range over, for every capacity and budget.
THEOREM TypeCorrect == Spec => []TypeOK
<1>1. IInv => TypeOK
  BY TypeParts DEF IInv
<1> QED
  BY <1>1, IInvHolds, PTL

\* Every report the ring took is in the ring, the batcher or a batch, once and
\* in order.
THEOREM NothingLostHolds == Spec => []NothingLost
<1>1. IInv => NothingLost
  BY DEF IInv
<1> QED
  BY <1>1, IInvHolds, PTL

\* No batch grows past max_events, however long T2 was held up, and a partial
\* batch never waits without a window.
THEOREM BatchesAreSoundHolds == Spec => []BatchesAreSound
<1>1. IInv => BatchesAreSound
  BY DEF IInv, RoomLeft, BatchFits, BatchesAreSound
<1> QED
  BY <1>1, IInvHolds, PTL

\* Every gap is announced by the batch with the first report behind it.
THEOREM GapsAnnouncedHolds == Spec => []GapsAnnounced
<1>1. IInv => GapsAnnounced
  BY DEF IInv, DropsAreReported, GapsAnnounced
<1> QED
  BY <1>1, IInvHolds, PTL

\* When T2 returns, all accepted reports and all of T1's markers are out.
THEOREM StopIsCompleteHolds == Spec => []StopIsComplete
<1>1. IInv => StopIsComplete
  <2> SUFFICES ASSUME IInv, t2 = "done" PROVE shipped = accepted /\ markers_out["t1"] = markers_sent["t1"]
    BY DEF StopIsComplete
  <2>1. stopping /\ drained = 0 /\ pending = <<>>
    BY DEF IInv, StopSeesTheEnd
  <2>2. ring = <<>> /\ marker_chan["t1"] = 0
    BY <2>1 DEF IInv, StopSeesTheEnd
  <2>3. shipped = accepted
    BY <2>1, <2>2, ConcatEmptySeq, ConcatProperties DEF IInv, NothingLost, SeqsOK
  <2>4. markers_out["t1"] = markers_sent["t1"]
    BY <2>2 DEF IInv, MarkersAreKept, MarkersOK, Senders
  <2> QED
    BY <2>3, <2>4
<1> QED
  BY <1>1, IInvHolds, PTL

-----------------------------------------------------------------------------
(* Refinement: the pipeline implements LossyStream *)

\* Shipping the batch takes the front of the buffer and leaves the ring.
LEMMA BufferSplits ==
  ASSUME NEW p \in Seq(Nat), NEW r \in Seq(Nat), p # <<>>
  PROVE  /\ Len(p) \in 1..Len(p \o r)
         /\ SubSeq(p \o r, 1, Len(p)) = p
         /\ SubSeq(p \o r, Len(p) + 1, Len(p \o r)) = r
<1>1. Len(p) \in Nat \ {0} /\ Len(r) \in Nat /\ Len(p \o r) = Len(p) + Len(r)
  BY LenProperties, EmptySeq, ConcatProperties
<1>2. SubSeq(p \o r, 1, Len(p)) = p
  BY <1>1, SubSeqOfConcat1, SubSeqFull
<1>3. SubSeq(p \o r, Len(p) + 1, Len(p \o r)) = r
  <2>1. CASE r = <<>>
    <3>1. Len(r) = 0
      BY <2>1
    <3> QED
      BY <1>1, <2>1, <3>1, SubSeqEmpty
  <2>2. CASE r # <<>>
    <3>1. Len(r) \in Nat \ {0}
      BY <1>1, <2>2, EmptySeq
    <3>2. SubSeq(p \o r, Len(p) + 1, Len(p) + Len(r)) = SubSeq(r, 1, Len(r))
      BY <1>1, <3>1, SubSeqOfConcat2
    <3> QED
      BY <1>1, <3>2, SubSeqFull
  <2> QED
    BY <2>1, <2>2
<1> QED
  BY <1>1, <1>2, <1>3

\* A flush is one delivery of the stream, or no step of it.
LEMMA FlushDelivers ==
  ASSUME IInv, Flush, t2 # "done", t2' # "done",
         UNCHANGED <<t1, generated, accepted, ring, ring_drops>>
  PROVE  [Stream!Next]_Stream!vars
<1>1. CASE pending = <<>>
  BY <1>1 DEF Flush, batchVars, Stream!vars
<1>2. CASE pending # <<>>
  <2> DEFINE n == Len(pending)
  <2>1. shipped' = shipped \o pending /\ pending' = <<>> /\ reported' = ring_drops
    BY <1>2 DEF Flush, IInv, DropsAreReported, CountsOK
  <2>2. pending \in Seq(Nat) /\ ring \in Seq(Nat) /\ shipped' \in Seq(Nat)
    BY FlushStep DEF IInv, SeqsOK
  <2>3. /\ n \in 1..Len(pending \o ring)
        /\ SubSeq(pending \o ring, 1, n) = pending
        /\ SubSeq(pending \o ring, n + 1, Len(pending \o ring)) = ring
    BY <1>2, <2>2, BufferSplits
  <2>4. pending' \o ring' = ring
    BY <2>1, <2>2, ConcatEmptySeq
  <2>5. reported' \in reported..(generated - Len(accepted))
    <3>1. Len(accepted) \in Nat
      BY LenProperties DEF IInv, SeqsOK
    <3> QED
      BY <2>1, <3>1 DEF IInv, CountsOK, DropsAreReported, DropsAreCounted, Uncounted
  <2>6. shipped'[Len(shipped')] - Len(shipped') <= reported'
    <3>1. Len(shipped') \in 1..Len(shipped')
      <4>1. Len(shipped') = Len(shipped) + Len(pending)
        BY <2>1, ConcatProperties DEF IInv, SeqsOK
      <4>2. Len(shipped) \in Nat /\ Len(pending) \in Nat \ {0}
        BY <1>2, LenProperties, EmptySeq DEF IInv, SeqsOK
      <4> QED
        BY <4>1, <4>2
    <3> QED
      BY <3>1, FlushReports DEF DropsAreReported
  <2>7. Stream!Deliver(n)
    <3>1. shipped' = shipped \o SubSeq(pending \o ring, 1, n)
      BY <2>1, <2>3
    <3>2. pending' \o ring' = SubSeq(pending \o ring, n + 1, Len(pending \o ring))
      BY <2>3, <2>4
    <3> QED
      BY <2>5, <2>6, <3>1, <3>2 DEF Stream!Deliver, Stream!Gap
  <2> QED
    BY <2>3, <2>7 DEF Stream!Next
<1> QED
  BY <1>1, <1>2

LEMMA StreamStep ==
  ASSUME IInv, Next
  PROVE  [Stream!Next]_Stream!vars
<1> USE DEF sharedVars, t1Vars, t2Vars, batchVars
<1>0. /\ pending \in Seq(Nat) /\ ring \in Seq(Nat) /\ accepted \in Seq(Nat)
      /\ Len(accepted) \in Nat /\ generated \in Nat
  BY LenProperties DEF IInv, SeqsOK, CountsOK
<1>1. CASE Push
  <2>1. generated' \in Nat /\ generated' = generated + 1 /\ t1 = "pump" /\ t1' = t1
    BY <1>0, <1>1 DEF Push
  <2>2. pending' \o ring' = Append(pending \o ring, generated')
    BY <1>0, <1>1, <2>1, ConcatAppend DEF Push
  <2>3. generated' - Len(accepted') = generated - Len(accepted)
    <3>1. accepted' = Append(accepted, generated')
      BY <1>1 DEF Push
    <3>2. Len(accepted') = Len(accepted) + 1
      BY <1>0, <2>1, <3>1, AppendProperties
    <3> QED
      BY <1>0, <2>1, <3>2
  <2>4. Stream!Take
    BY <1>1, <2>1, <2>2, <2>3 DEF Push, Stream!Take
  <2> QED
    BY <2>4 DEF Stream!Next
<1>2. CASE PushFull
  <2>1. Stream!Lose
    BY <1>0, <1>2 DEF PushFull, Stream!Lose
  <2> QED
    BY <2>1 DEF Stream!Next
<1>3. CASE CountDrop
  BY <1>3 DEF CountDrop, Stream!vars
<1>4. CASE CaptureEnds
  <2>1. Stream!Close
    BY <1>4 DEF CaptureEnds, Stream!Close
  <2> QED
    BY <2>1 DEF Stream!Next
<1>5. CASE Pop
  <2>1. pending' \o ring' = pending \o ring
    BY <1>0, <1>5, PopMovesHead DEF Pop
  <2>2. (t2' = "done") = (t2 = "done")
    BY <1>5 DEF Pop
  <2> QED
    BY <1>5, <2>1, <2>2 DEF Pop, Stream!vars
<1>6. CASE FlushFull
  BY <1>6, FlushDelivers DEF FlushFull
<1>7. CASE TurnWindow
  <2>1. t2 = "window" /\ t2' = "housekeep"
    BY <1>7 DEF TurnWindow
  <2>2. CASE Flush
    BY <1>7, <2>1, <2>2, TurnWindowFlushes, FlushDelivers
  <2>3. CASE UNCHANGED <<pending, last_drops, shipped, reported>>
    BY <1>7, <2>1, <2>3, TurnWindowFlushes DEF Stream!vars
  <2> QED
    BY <1>7, <2>2, <2>3, TurnWindowFlushes
<1>8. CASE Finish
  <2>1. stopping /\ drained = 0 /\ pending = <<>> /\ t1 = "stopped"
    BY <1>8 DEF Finish, IInv, StopSeesTheEnd, StopFollowsCapture
  <2>2. ring = <<>>
    BY <1>8, <2>1 DEF Finish, IInv, StopSeesTheEnd
  <2>3. pending \o ring = <<>>
    BY <1>0, <2>1, <2>2, ConcatEmptySeq
  <2>4. Stream!End
    BY <1>8, <2>1, <2>3 DEF Finish, Flush, Stream!End
  <2> QED
    BY <2>4 DEF Stream!Next
<1>9. CASE Quiet
  <2>1. UNCHANGED <<t1, generated, accepted, ring, pending, shipped, reported>>
    BY <1>9, QuietStep
  <2>2. (t2' = "done") = (t2 = "done")
    <3>1. CASE SendSession \/ BeginPass \/ EndDrain \/ EndMarkers
      BY <3>1 DEF SendSession, BeginPass, EndDrain, EndMarkers
    <3>2. CASE Housekeep \/ Check \/ WindowElapses \/ StopShipping \/ Terminated
      BY <3>2 DEF Housekeep, Check, WindowElapses, StopShipping, Terminated, vars
    <3>3. CASE \E s \in Senders : SendMarker(s) \/ DeliverMarker(s)
      BY <3>3 DEF SendMarker, DeliverMarker
    <3> QED
      BY <1>9, <3>1, <3>2, <3>3 DEF Quiet
  <2> QED
    BY <2>1, <2>2 DEF Stream!vars
<1> QED
  BY <1>1, <1>2, <1>3, <1>4, <1>5, <1>6, <1>7, <1>8, <1>9, NextCases

\* Whatever the sizes and the interleaving, T1, T2 and teardown together
\* behave as the stream that is promised.
THEOREM PipelineImplementsStream == Spec => ImplementsStream
<1>1. Init => Stream!Init
  <2> SUFFICES ASSUME Init PROVE Stream!Init
    OBVIOUS
  <2>1. <<>> \o <<>> = <<>>
    <3>1. <<>> \in Seq(Nat)
      OBVIOUS
    <3> QED
      BY <3>1, ConcatEmptySeq
  <2>2. /\ generated = 0 /\ reported = 0 /\ shipped = <<>>
        /\ pending \o ring = <<>> /\ Len(accepted) = 0
    BY <2>1 DEF Init
  <2>3. generated - Len(accepted) = 0
    BY <2>2
  <2>4. (t1 = "stopped") = FALSE /\ (t2 = "done") = FALSE
    BY DEF Init
  <2> QED
    BY <2>2, <2>3, <2>4 DEF Stream!Init
<1>2. IInv /\ [Next]_vars => [Stream!Next]_Stream!vars
  <2> SUFFICES ASSUME IInv, [Next]_vars PROVE [Stream!Next]_Stream!vars
    OBVIOUS
  <2>1. CASE Next
    BY <2>1, StreamStep
  <2>2. CASE UNCHANGED vars
    BY <2>2 DEF vars, t1Vars, batchVars, Stream!vars
  <2> QED
    BY <2>1, <2>2
<1> QED
  BY <1>1, <1>2, IInvHolds, PTL DEF Spec, ImplementsStream, Stream!Spec
=============================================================================
