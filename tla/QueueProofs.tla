---------------------------- MODULE QueueProofs ----------------------------
(***************************************************************************)
(* Proofs about the accounting of a sink's queue and its two clients.      *)
(* First the accounting alone: the counters are exact for any number of    *)
(* envelopes and any interleaving of its operations.  Then the recorder    *)
(* and the Kafka forwarder: every step of their threads is an operation    *)
(* of the accounting within its contract, the recording is the accepted    *)
(* lines in order, and the backlog is what is counted, for any number of   *)
(* lines, any capacity and any limit of the join set.                      *)
(***************************************************************************)
EXTENDS MCQueues, SequenceTheorems, TLAPS

-----------------------------------------------------------------------------
(* The accounting alone.                                                   *)

\* The numeric half of the inductive invariant.
Books == CountsOK /\ Conservation /\ QueuedIsOutstanding

\* The inductive invariant: the typing and the accounting facts together.
IInv == FlagsOK /\ Books /\ ClaimedOwnsNothing

\* The queue starts with nothing offered and nothing owned.
LEMMA InitIInv == Init => IInv
<1> SUFFICES ASSUME Init PROVE IInv
  OBVIOUS
<1>1. FlagsOK
  BY DEF Init, FlagsOK
<1>2. Books
  BY DEF Init, Books, CountsOK, Conservation, QueuedIsOutstanding
<1>3. ClaimedOwnsNothing
  BY DEF Init, ClaimedOwnsNothing
<1> QED
  BY <1>1, <1>2, <1>3 DEF IInv

\* A claim always takes everything outstanding: after an earlier claim that is
\* nothing.
LEMMA ClaimableIsOutstanding == IInv => Claimable = outstanding
  BY DEF IInv, ClaimedOwnsNothing, Claimable

\* What enqueue does, one case per outcome of the channel send.
LEMMA EnqueueIInv ==
  ASSUME IInv, NEW result \in TrySend, Enqueue(result)
  PROVE  IInv'
<1> USE DEF IInv, Enqueue
<1>1. CASE EnqueueOnFailed
  <2> USE <1>1 DEF EnqueueOnFailed, flags, counters
  <2>1. FlagsOK'
    BY DEF FlagsOK
  <2>2. Books'
    BY DEF Books, CountsOK, Conservation, QueuedIsOutstanding
  <2>3. ClaimedOwnsNothing'
    BY DEF ClaimedOwnsNothing
  <2> QED
    BY <2>1, <2>2, <2>3
<1>2. CASE EnqueueSent
  <2> USE <1>2 DEF EnqueueSent
  <2>1. FlagsOK'
    BY DEF FlagsOK
  <2>2. Books'
    BY DEF Books, CountsOK, Conservation, QueuedIsOutstanding
  <2>3. ClaimedOwnsNothing'
    BY DEF ClaimedOwnsNothing
  <2> QED
    BY <2>1, <2>2, <2>3
<1>3. CASE EnqueueFull
  <2> USE <1>3 DEF EnqueueFull
  <2>1. FlagsOK'
    BY DEF FlagsOK
  <2>2. Books'
    BY DEF Books, CountsOK, Conservation, QueuedIsOutstanding
  <2>3. ClaimedOwnsNothing'
    BY DEF ClaimedOwnsNothing
  <2> QED
    BY <2>1, <2>2, <2>3
<1>4. CASE EnqueueClosed
  <2> USE <1>4 DEF EnqueueClosed
  <2>1. FlagsOK'
    BY DEF FlagsOK
  <2>2. Books'
    BY ClaimableIsOutstanding DEF Books, CountsOK, Conservation, QueuedIsOutstanding
  <2>3. ClaimedOwnsNothing'
    BY ClaimableIsOutstanding DEF ClaimedOwnsNothing, Books, CountsOK
  <2> QED
    BY <2>1, <2>2, <2>3
<1> QED
  BY <1>1, <1>2, <1>3, <1>4

\* A completion moves outstanding envelopes, unless the loss was claimed.
LEMMA FinishIInv ==
  ASSUME IInv, NEW n \in 1..MaxOffers, NEW ok \in BOOLEAN, Finish(n, ok)
  PROVE  IInv'
<1> USE DEF IInv, Finish, flags, counters
<1>1. n \in Nat
  BY MaxOffersAssumption
<1>2. FlagsOK'
  BY DEF FlagsOK
<1>3. Books'
  <2>1. CASE loss_claimed
    BY <2>1 DEF Books, CountsOK, Conservation, QueuedIsOutstanding
  <2>2. CASE ~loss_claimed
    BY <1>1, <2>2 DEF Books, CountsOK, Conservation, QueuedIsOutstanding
  <2> QED
    BY <2>1, <2>2
<1>4. ClaimedOwnsNothing'
  BY DEF ClaimedOwnsNothing
<1> QED
  BY <1>2, <1>3, <1>4

\* The terminal claim moves exactly what is outstanding.
LEMMA ClaimLossIInv == IInv /\ ClaimLoss => IInv'
<1> SUFFICES ASSUME IInv, ClaimLoss PROVE IInv'
  OBVIOUS
<1> USE DEF IInv, ClaimLoss
<1>1. FlagsOK'
  BY DEF FlagsOK
<1>2. Books'
  <2>1. Claimable = outstanding
    BY ClaimableIsOutstanding
  <2> QED
    BY <2>1 DEF Books, CountsOK, Conservation, QueuedIsOutstanding
<1>3. ClaimedOwnsNothing'
  BY ClaimableIsOutstanding DEF ClaimedOwnsNothing, Books, CountsOK
<1> QED
  BY <1>1, <1>2, <1>3

\* The operations that touch one counter or one flag.
LEMMA MarkIInv ==
  ASSUME IInv, CountDropped \/ CountError \/ MarkFailed \/ MarkFailureReported
  PROVE  IInv'
<1> USE DEF IInv, CountDropped, CountError, MarkFailed, MarkFailureReported, flags, counters
<1>1. FlagsOK'
  BY DEF FlagsOK
<1>2. Books'
  BY DEF Books, CountsOK, Conservation, QueuedIsOutstanding
<1>3. ClaimedOwnsNothing'
  BY DEF ClaimedOwnsNothing
<1> QED
  BY <1>1, <1>2, <1>3

\* Every operation of queue.rs keeps the books balanced.
LEMMA NextIInv == IInv /\ [Next]_vars => IInv'
<1> SUFFICES ASSUME IInv, [Next]_vars
             PROVE  IInv'
  OBVIOUS
<1>1. CASE Next
  BY <1>1, EnqueueIInv, FinishIInv, ClaimLossIInv, MarkIInv DEF Next
<1>2. CASE UNCHANGED vars
  BY <1>2 DEF vars, flags, counters, IInv, FlagsOK, Books, CountsOK, Conservation,
              QueuedIsOutstanding, ClaimedOwnsNothing
<1> QED
  BY <1>1, <1>2

\* The inductive invariant holds of every reachable state.
THEOREM IInvHolds == Spec => []IInv
  BY InitIInv, NextIInv, PTL DEF Spec

\* The state and the counters keep their types: no counter ever goes negative.
THEOREM TypeCorrect == Spec => []TypeOK
<1>1. IInv => TypeOK
  BY DEF IInv, Books, TypeOK
<1> QED
  BY <1>1, IInvHolds, PTL

\* Every offered envelope is dropped, delivered, outstanding or abandoned, once;
\* the gauge is what the worker owns; a claimed sink is failed and owns nothing.
THEOREM CountersExactHolds == Spec => []CountersExact
<1>1. IInv => CountersExact
  BY DEF IInv, Books, CountersExact
<1> QED
  BY <1>1, IInvHolds, PTL

\* A step from a claimed state never moves an envelope again.
LEMMA ClaimIsFinalStep ==
  ASSUME IInv, Next, loss_claimed
  PROVE  /\ delivered' = delivered
         /\ abandoned' = abandoned
         /\ outstanding' = 0
         /\ failed'
<1>1. failed /\ outstanding = 0 /\ Claimable = 0 /\ abandoned \in Nat
  BY DEF IInv, ClaimedOwnsNothing, Claimable, Books, CountsOK
<1>2. delivered' = delivered /\ abandoned' = abandoned /\ loss_claimed'
  <2>1. CASE \E result \in TrySend : Enqueue(result)
    BY <1>1, <2>1 DEF Enqueue, EnqueueOnFailed, EnqueueSent, EnqueueFull, EnqueueClosed, flags
  <2>2. CASE CountDropped \/ CountError
    BY <2>2 DEF CountDropped, CountError, flags
  <2>3. CASE \E n \in 1..MaxOffers, ok \in BOOLEAN : Finish(n, ok)
    BY <2>3 DEF Finish, flags
  <2>4. CASE ClaimLoss
    BY <1>1, <2>4 DEF ClaimLoss
  <2>5. CASE MarkFailed \/ MarkFailureReported
    BY <2>5 DEF MarkFailed, MarkFailureReported, counters
  <2> QED
    BY <2>1, <2>2, <2>3, <2>4, <2>5 DEF Next
<1>3. ClaimedOwnsNothing'
  BY NextIInv DEF IInv
<1> QED
  BY <1>2, <1>3 DEF ClaimedOwnsNothing

\* The terminal claim is final: late completions and second claims are no-ops.
THEOREM ClaimIsFinalHolds == Spec => ClaimIsFinal
<1>1. IInv /\ [Next]_vars => [loss_claimed =>
         /\ delivered' = delivered
         /\ abandoned' = abandoned
         /\ outstanding' = 0
         /\ failed']_vars
  BY ClaimIsFinalStep
<1> QED
  BY <1>1, IInvHolds, PTL DEF Spec, ClaimIsFinal
-----------------------------------------------------------------------------
(* The recording as a sequence: the file, the buffer and the channel.      *)

\* Everything that was accepted, in order, while the writer is at work.
AllLines(d, b, c) == (d \o b) \o c
OneMore(s, x) == s \o <<x>>

\* Append, as a concatenation.
LEMMA AppendIsOneMore ==
  ASSUME NEW S, NEW s \in Seq(S), NEW x \in S
  PROVE  Append(s, x) = OneMore(s, x)
  BY AppendIsConcat DEF OneMore

\* A sequence is a prefix of what it is continued to.
LEMMA PrefixOfConcat ==
  ASSUME NEW S, NEW s \in Seq(S), NEW t \in Seq(S)
  PROVE  J!IsPrefix(s, s \o t)
<1>1. Len(s) <= Len(s \o t)
  BY ConcatProperties
<1>2. SubSeq(s \o t, 1, Len(s)) = SubSeq(s, 1, Len(s))
  <2>1. CASE Len(s) = 0
    BY <2>1, SubSeqEmpty
  <2>2. CASE Len(s) # 0
    BY <2>2, SubSeqOfConcat1
  <2> QED
    BY <2>1, <2>2
<1> QED
  BY <1>1, <1>2 DEF J!IsPrefix

\* It stays one when that is continued further.
LEMMA PrefixOfAppend ==
  ASSUME NEW S, NEW s \in Seq(S), NEW t \in Seq(S), NEW x \in S, J!IsPrefix(s, t)
  PROVE  J!IsPrefix(s, Append(t, x))
<1>1. Len(s) <= Len(t) /\ Len(s) \in Nat /\ Len(t) \in Nat
  BY DEF J!IsPrefix
<1>2. SubSeq(Append(t, x), 1, Len(s)) = SubSeq(t, 1, Len(s))
  <2>1. CASE Len(s) = 0
    BY <2>1, SubSeqEmpty
  <2>2. CASE Len(s) # 0
    <3>1. Append(t, x) = t \o <<x>> /\ <<x>> \in Seq(S)
      BY AppendIsConcat
    <3> QED
      BY <1>1, <2>2, <3>1, SubSeqOfConcat1
  <2> QED
    BY <2>1, <2>2
<1>3. Len(Append(t, x)) = Len(t) + 1
  BY AppendProperties
<1> QED
  BY <1>1, <1>2, <1>3 DEF J!IsPrefix

\* A line offered to the channel is the last of what was accepted.
LEMMA AcceptedGrows ==
  ASSUME NEW S, NEW d \in Seq(S), NEW b \in Seq(S), NEW c \in Seq(S), NEW x \in S
  PROVE  AllLines(d, b, OneMore(c, x)) = OneMore(AllLines(d, b, c), x)
<1>1. d \o b \in Seq(S) /\ (d \o b) \o c \in Seq(S) /\ <<x>> \in Seq(S)
  BY ConcatProperties
<1> QED
  BY <1>1, ConcatAssociative DEF AllLines, OneMore

\* Moving the head of the channel to the end of the buffer keeps the order.
LEMMA LineMoves ==
  ASSUME NEW S, NEW b \in Seq(S), NEW c \in Seq(S), c # <<>>
  PROVE  Append(b, Head(c)) \o Tail(c) = b \o c
<1>1. Head(c) \in S /\ Tail(c) \in Seq(S) /\ <<Head(c)>> \in Seq(S)
  BY HeadTailProperties
<1>2. c = <<Head(c)>> \o Tail(c)
  BY HeadTailProperties
<1>3. Append(b, Head(c)) = b \o <<Head(c)>>
  BY <1>1, AppendIsConcat
<1>4. (b \o <<Head(c)>>) \o Tail(c) = b \o (<<Head(c)>> \o Tail(c))
  BY <1>1, ConcatAssociative
<1> QED
  BY <1>2, <1>3, <1>4

\* The grouping of three sequences does not matter.
LEMMA Grouping == \A S : \A e, f, t \in Seq(S) : (e \o f) \o t = e \o (f \o t)
  BY ConcatAssociative

\* A written line: it joins the buffer, or the buffer goes to the file first.
LEMMA LineIsWritten ==
  ASSUME NEW S, NEW d \in Seq(S), NEW b \in Seq(S), NEW c \in Seq(S), c # <<>>
  PROVE  /\ Tail(c) \in Seq(S) /\ <<Head(c)>> \in Seq(S)
         /\ Len(c) \in Nat /\ Len(c) > 0 /\ Len(Tail(c)) = Len(c) - 1
         /\ OneMore(b, Head(c)) \in Seq(S) /\ Len(OneMore(b, Head(c))) = Len(b) + 1
         /\ d \o b \in Seq(S) /\ Len(d \o b) = Len(d) + Len(b)
         /\ AllLines(d, OneMore(b, Head(c)), Tail(c)) = AllLines(d, b, c)
         /\ AllLines(d \o b, <<Head(c)>>, Tail(c)) = AllLines(d, b, c)
<1>1. /\ Head(c) \in S /\ Tail(c) \in Seq(S) /\ <<Head(c)>> \in Seq(S)
      /\ Len(Tail(c)) = Len(c) - 1
  BY HeadTailProperties
<1>2. Len(c) \in Nat /\ Len(c) > 0
  BY EmptySeq
<1>3. b \o <<Head(c)>> \in Seq(S) /\ Len(b \o <<Head(c)>>) = Len(b) + 1
  BY <1>1, ConcatProperties
<1>4. Append(b, Head(c)) = b \o <<Head(c)>>
  BY <1>1, AppendIsConcat
<1>5. d \o b \in Seq(S) /\ Len(d \o b) = Len(d) + Len(b)
  BY ConcatProperties
<1>6. (d \o (b \o <<Head(c)>>)) \o Tail(c) = (d \o b) \o c
  <2>1. (b \o <<Head(c)>>) \o Tail(c) = b \o c
    BY <1>4, LineMoves
  <2>2. (d \o b) \o c = d \o (b \o c)
    BY ConcatAssociative
  <2>3. \A e, t \in Seq(S) : (d \o e) \o t = d \o (e \o t)
    BY ConcatAssociative
  <2>4. (d \o (b \o <<Head(c)>>)) \o Tail(c) = d \o ((b \o <<Head(c)>>) \o Tail(c))
    BY <1>1, <1>3, <2>3
  <2> QED
    BY <2>1, <2>2, <2>4
<1>7. ((d \o b) \o <<Head(c)>>) \o Tail(c) = (d \o b) \o c
  <2>1. c = <<Head(c)>> \o Tail(c)
    BY HeadTailProperties
  <2>2. ((d \o b) \o <<Head(c)>>) \o Tail(c) = (d \o b) \o (<<Head(c)>> \o Tail(c))
    BY <1>1, <1>5, Grouping
  <2> QED
    BY <2>1, <2>2
<1> QED
  BY <1>1, <1>2, <1>3, <1>5, <1>6, <1>7 DEF AllLines, OneMore

\* A sequence continued by one that continues a front is continued by it.
LEMMA FrontIsPrefix ==
  ASSUME NEW S, NEW front \in Seq(S), NEW back \in Seq(S), NEW c \in Seq(S)
  PROVE  \A d \in Seq(S) :
           /\ d \o front \in Seq(S)
           /\ Len(d) <= Len(d \o front)
           /\ J!IsPrefix(d \o front, (d \o (front \o back)) \o c)
<1> SUFFICES ASSUME NEW d \in Seq(S)
             PROVE  /\ d \o front \in Seq(S)
                    /\ Len(d) <= Len(d \o front)
                    /\ J!IsPrefix(d \o front, (d \o (front \o back)) \o c)
  OBVIOUS
<1>1. d \o (front \o back) = (d \o front) \o back
  BY ConcatAssociative
<1>2. d \o front \in Seq(S) /\ back \o c \in Seq(S) /\ Len(d) <= Len(d \o front)
  BY ConcatProperties
<1>3. ASSUME NEW e \in Seq(S)
      PROVE  (e \o back) \o c = e \o (back \o c)
  BY ConcatAssociative
<1>4. J!IsPrefix(d \o front, (d \o front) \o (back \o c))
  BY <1>2, PrefixOfConcat
<1> QED
  BY <1>1, <1>2, <1>3, <1>4

\* What a failing spill leaves in the file is a prefix of everything accepted.
LEMMA SpillIsPrefix ==
  ASSUME NEW S, NEW d \in Seq(S), NEW b \in Seq(S), NEW c \in Seq(S), NEW k \in 0..Len(b)
  PROVE  /\ d \o SubSeq(b, 1, k) \in Seq(S)
         /\ Len(d) <= Len(d \o SubSeq(b, 1, k))
         /\ J!IsPrefix(d \o SubSeq(b, 1, k), AllLines(d, b, c))
<1>1. PICK front \in Seq(S), back \in Seq(S) : front = SubSeq(b, 1, k) /\ b = front \o back
  <2>1. SubSeq(b, 1, k) \in Seq(S) /\ SubSeq(b, k + 1, Len(b)) \in Seq(S)
    <3>1. \A i \in 1..k : b[i] \in S
      OBVIOUS
    <3>2. \A i \in (k + 1)..Len(b) : b[i] \in S
      OBVIOUS
    <3> QED
      BY <3>1, <3>2, SubSeqProperties
  <2>2. b = SubSeq(b, 1, k) \o SubSeq(b, k + 1, Len(b))
    <3>1. 1 \in 1..(Len(b) + 1) /\ k \in (1 - 1)..Len(b) /\ Len(b) \in k..Len(b)
      OBVIOUS
    <3>2. SubSeq(b, 1, k) \o SubSeq(b, k + 1, Len(b)) = SubSeq(b, 1, Len(b))
      BY <3>1, ConcatAdjacentSubSeq
    <3> QED
      BY <3>2, SubSeqFull
  <2> QED
    BY <2>1, <2>2
<1>2. \A e \in Seq(S) :
        /\ e \o front \in Seq(S)
        /\ Len(e) <= Len(e \o front)
        /\ J!IsPrefix(e \o front, (e \o (front \o back)) \o c)
  BY FrontIsPrefix
<1> QED
  BY <1>1, <1>2 DEF AllLines

\* A flush moves the whole buffer to the file.
LEMMA BufferIsFlushed ==
  ASSUME NEW S, NEW d \in Seq(S), NEW b \in Seq(S), NEW c \in Seq(S)
  PROVE  /\ AllLines(d \o b, <<>>, c) = AllLines(d, b, c)
         /\ J!IsPrefix(d, AllLines(d, <<>>, c))
         /\ J!IsPrefix(d \o b, AllLines(d, b, c))
         /\ AllLines(d, <<>>, <<>>) = d
         /\ Len(AllLines(d, b, c)) = Len(d) + Len(b) + Len(c)
<1>1. d \o b \in Seq(S) /\ Len(d \o b) = Len(d) + Len(b)
  BY ConcatProperties
<1>2. (d \o b) \o <<>> = d \o b /\ d \o <<>> = d
  BY <1>1, ConcatEmptySeq
<1>3. J!IsPrefix(d, d \o c) /\ J!IsPrefix(d \o b, (d \o b) \o c)
  BY <1>1, PrefixOfConcat
<1>4. Len((d \o b) \o c) = Len(d \o b) + Len(c)
  BY <1>1, ConcatProperties
<1> QED
  BY <1>1, <1>2, <1>3, <1>4 DEF AllLines
-----------------------------------------------------------------------------
(* The operations, as the sinks call them.                                 *)

\* The recorder's operations are those of the accounting.
LEMMA RecorderOps ==
  ASSUME offered \in Nat
  PROVE  /\ J!Queue!ClaimLoss => ClaimLoss
         /\ J!Queue!CountError => CountError
         /\ J!Queue!MarkFailureReported => MarkFailureReported
         /\ J!Queue!CountDropped => CountDropped
         /\ \A n : J!Queue!Finish(n, TRUE) => Finish(n, TRUE)
         /\ \A result : J!Queue!Enqueue(result) => Enqueue(result)
<1>1. J!Queue!ClaimLoss => ClaimLoss
  BY DEF J!Queue!ClaimLoss, ClaimLoss, J!Queue!Claimable, Claimable
<1>2. J!Queue!CountError => CountError
  BY DEF J!Queue!CountError, CountError, J!Queue!flags, flags
<1>3. J!Queue!MarkFailureReported => MarkFailureReported
  BY DEF J!Queue!MarkFailureReported, MarkFailureReported, J!Queue!counters, counters
<1>4. J!Queue!CountDropped => CountDropped
  BY OffersFit, MaxOffersAssumption DEF J!Queue!CountDropped, CountDropped, J!Queue!flags, flags
<1>5. \A n : J!Queue!Finish(n, TRUE) => Finish(n, TRUE)
  BY DEF J!Queue!Finish, Finish, J!Queue!flags, flags
<1>6. \A result : J!Queue!Enqueue(result) => Enqueue(result)
  BY OffersFit, MaxOffersAssumption DEF J!Queue!Enqueue, Enqueue, EnqueueOnFailed, EnqueueSent, EnqueueFull,
        EnqueueClosed, J!Queue!EnqueueOnFailed, J!Queue!EnqueueSent, J!Queue!EnqueueFull,
        J!Queue!EnqueueClosed, J!Queue!Claimable, Claimable, J!Queue!flags, flags
<1> QED
  BY <1>1, <1>2, <1>3, <1>4, <1>5, <1>6

\* The forwarder's operations are those of the accounting.
LEMMA ForwarderOps ==
  ASSUME offered \in Nat
  PROVE  /\ K!Queue!ClaimLoss => ClaimLoss
         /\ K!Queue!CountError => CountError
         /\ K!Queue!MarkFailed => MarkFailed
         /\ K!Queue!CountDropped => CountDropped
         /\ \A n, ok : K!Queue!Finish(n, ok) => Finish(n, ok)
         /\ \A result : K!Queue!Enqueue(result) => Enqueue(result)
<1>1. K!Queue!ClaimLoss => ClaimLoss
  BY DEF K!Queue!ClaimLoss, ClaimLoss, K!Queue!Claimable, Claimable
<1>2. K!Queue!CountError => CountError
  BY DEF K!Queue!CountError, CountError, K!Queue!flags, flags
<1>3. K!Queue!MarkFailed => MarkFailed
  BY DEF K!Queue!MarkFailed, MarkFailed, K!Queue!counters, counters
<1>4. K!Queue!CountDropped => CountDropped
  BY OffersFit, MaxOffersAssumption DEF K!Queue!CountDropped, CountDropped, K!Queue!flags, flags
<1>5. \A n, ok : K!Queue!Finish(n, ok) => Finish(n, ok)
  BY DEF K!Queue!Finish, Finish, K!Queue!flags, flags
<1>6. \A result : K!Queue!Enqueue(result) => Enqueue(result)
  BY OffersFit, MaxOffersAssumption DEF K!Queue!Enqueue, Enqueue, EnqueueOnFailed, EnqueueSent, EnqueueFull,
        EnqueueClosed, K!Queue!EnqueueOnFailed, K!Queue!EnqueueSent, K!Queue!EnqueueFull,
        K!Queue!EnqueueClosed, K!Queue!Claimable, Claimable, K!Queue!flags, flags
<1> QED
  BY <1>1, <1>2, <1>3, <1>4, <1>5, <1>6
-----------------------------------------------------------------------------
(* The recorder.  Its writer is at work until it is done, fails or panics. *)

AtWork == writer \in {"recv", "flush", "settle", "final_flush", "final_settle"}
HasSignalled == writer \in {"signal", "exiting"} \/ done = "sent"

\* The numbers of the lines.
Lines == 1..JsonlOffers

\* The typing of the recorder's own variables.
RecorderTypes ==
    /\ chan \in Seq(Lines) /\ Len(chan) <= JsonlCapacity
    /\ tx \in BOOLEAN /\ rx \in BOOLEAN
    /\ done \in {"open", "sent", "closed"}
    /\ ship \in J!ShipStates
    /\ writer \in J!WriterStates
    /\ pending \in 0..JsonlOffers
    /\ buf \in Seq(Lines)
    /\ disk \in Seq(Lines)
    /\ accepted \in Seq(Lines)

\* Who holds which end of which channel.
RecorderPlaces ==
    /\ tx <=> ship \in {"idle", "enqueue"}
    /\ ~rx => writer \in {"panicked", "gone"}
    /\ done = "open" => writer \notin {"exiting", "gone"}
    /\ done = "sent" => writer \in {"exiting", "gone"}
    /\ done = "closed" => writer \in {"panicked", "gone"}
    /\ ship = "closed" => writer = "gone"
    /\ ship = "counting" => writer = "gone"
    /\ writer \in {"final_flush", "final_settle"} => ~tx /\ chan = <<>>

\* A failure is claimed, then reported, then counted, by one of the threads.
RecorderMarks ==
    /\ failed <=> loss_claimed
    /\ failure_reported => failed
    /\ ~failed => abandoned = 0
    /\ ship \in {"joining", "counting", "timed_out"} => failed
    /\ ship = "counting" => failure_reported
    /\ AtWork /\ failed => ship = "timed_out"
    /\ writer \in {"report", "count"} => failed
    /\ writer = "count" => failure_reported
    /\ HasSignalled /\ failed /\ ship # "timed_out" => failure_reported
    /\ ship = "closed" /\ failed => failure_reported
    /\ ship = "closed" /\ ~failed => done = "sent"
    /\ errors = IF failure_reported /\ ship # "counting" /\ writer # "count"
                THEN 1 ELSE 0

\* What was accepted is on disk, in the buffer or in the channel, in order.
RecorderFile ==
    /\ J!IsPrefix(disk, accepted)
    /\ AtWork => accepted = AllLines(disk, buf, chan)
    /\ writer \in {"settle", "final_settle"} => buf = <<>>
    /\ HasSignalled /\ ~failed => disk = accepted /\ ~tx

\* What is not acknowledged yet is outstanding.
RecorderBooks ==
    /\ Len(accepted) <= offered /\ offered <= JsonlOffers
    /\ delivered <= Len(disk)
    /\ AtWork => delivered + pending <= Len(disk) + Len(buf)
    /\ AtWork /\ ~failed => outstanding = pending + Len(chan)
    /\ HasSignalled /\ ~failed => outstanding = 0

RecorderInv ==
    RecorderTypes /\ RecorderPlaces /\ RecorderMarks /\ RecorderFile /\ RecorderBooks

\* The recorder starts with nothing accepted.
LEMMA RecorderInit == Init /\ J!Init => RecorderInv
<1> SUFFICES ASSUME Init, J!Init PROVE RecorderInv
  OBVIOUS
<1> USE DEF Init, J!Init, AtWork, HasSignalled
<1>1. JsonlCapacity \in Nat /\ JsonlOffers \in Nat
  BY CapacitiesFit, OffersFit, MaxOffersAssumption DEF J!CapacityAssumption
<1>2. <<>> \in Seq(Lines) /\ Len(<<>>) = 0
  OBVIOUS
<1>3. RecorderTypes
  BY <1>1, <1>2 DEF RecorderTypes, J!ShipStates, J!WriterStates
<1>4. RecorderPlaces
  BY DEF RecorderPlaces
<1>5. RecorderMarks
  BY DEF RecorderMarks
<1>6. RecorderFile
  <2>1. AllLines(<<>>, <<>>, <<>>) = <<>>
    BY <1>2, BufferIsFlushed
  <2>2. J!IsPrefix(<<>>, <<>>)
    BY DEF J!IsPrefix
  <2> QED
    BY <2>1, <2>2 DEF RecorderFile
<1>7. RecorderBooks
  BY <1>1, <1>2 DEF RecorderBooks
<1> QED
  BY <1>3, <1>4, <1>5, <1>6, <1>7 DEF RecorderInv

\* Every step of the recorder is an operation of the accounting or none.
LEMMA RecorderSteps == IInv /\ RecorderTypes /\ J!Next => [Next]_vars
<1> SUFFICES ASSUME IInv, RecorderTypes, J!Next PROVE [Next]_vars
  OBVIOUS
<1>1. offered \in Nat
  BY DEF IInv, Books, CountsOK
<1>2. J!queueVars' = J!queueVars => UNCHANGED vars
  BY DEF J!queueVars, vars, flags, counters
<1>3. CASE J!SendOnFailed \/ J!DropAbandons \/ J!DropClaims \/ J!DropReports \/ J!DropCounts
  BY <1>1, <1>3, RecorderOps
     DEF J!SendOnFailed, J!DropAbandons, J!DropClaims, J!DropReports, J!DropCounts, Next
<1>4. CASE J!Enqueue
  <2>1. J!TrySendResult \in TrySend
    BY DEF J!TrySendResult, TrySend
  <2> QED
    BY <1>1, <1>4, <2>1, RecorderOps DEF J!Enqueue, Next
<1>5. CASE J!WriterClaims \/ J!WriterReports \/ J!WriterCounts
  BY <1>1, <1>5, RecorderOps DEF J!WriterClaims, J!WriterReports, J!WriterCounts, Next
<1>6. CASE J!Settle
  <2>1. CASE pending = 0
    BY <1>2, <1>6, <2>1 DEF J!Settle
  <2>2. CASE pending # 0
    <3>1. pending \in 1..MaxOffers
      BY <2>2, OffersFit, MaxOffersAssumption DEF RecorderTypes
    <3>2. Finish(pending, TRUE)
      BY <1>1, <1>6, <2>2, RecorderOps DEF J!Settle
    <3> QED
      BY <3>1, <3>2 DEF Next
  <2> QED
    BY <2>1, <2>2
<1>7. CASE J!SendChecked \/ J!DropSender \/ J!DropTimedOut \/ J!DropCompleted
  BY <1>2, <1>7 DEF J!SendChecked, J!DropSender, J!DropTimedOut, J!DropCompleted
<1>8. CASE J!WriteLine \/ J!WriteFails \/ J!FlushDue \/ J!Disconnected \/ J!Flush \/ J!FlushFails
  BY <1>2, <1>8
     DEF J!WriteLine, J!WriteFails, J!FlushDue, J!Disconnected, J!Flush, J!FlushFails
<1>9. CASE J!WriterSignals \/ J!WriterExits \/ J!WriterPanics \/ J!WriterUnwinds \/ J!Terminated
  BY <1>2, <1>9
     DEF J!WriterSignals, J!WriterExits, J!WriterPanics, J!WriterUnwinds, J!Terminated, J!vars
<1> QED
  BY <1>3, <1>4, <1>5, <1>6, <1>7, <1>8, <1>9 DEF J!Next, J!ShipNext, J!DropNext, J!WriterNext
-----------------------------------------------------------------------------
(* What each step of the recorder does to its invariant.                   *)

\* Steps that touch no counter and no line: only the threads move on.
LEMMA MovesOn ==
  ASSUME IInv, RecorderInv,
         \/ J!SendChecked \/ J!DropSender \/ J!DropTimedOut \/ J!DropCompleted
         \/ J!FlushDue \/ J!Disconnected
         \/ J!WriterSignals \/ J!WriterExits \/ J!WriterUnwinds \/ J!Terminated
  PROVE  RecorderInv'
<1> USE DEF J!SendChecked, J!DropSender, J!DropTimedOut, J!DropCompleted, J!FlushDue, J!Disconnected,
            J!WriterSignals, J!WriterExits, J!WriterUnwinds, J!Terminated, J!vars,
            J!queueVars, J!fileVars, RecorderInv
<1>1. RecorderTypes'
  BY DEF RecorderTypes, J!ShipStates, J!WriterStates
<1>2. RecorderPlaces'
  BY DEF RecorderTypes, RecorderPlaces
<1>3. RecorderMarks'
  BY DEF RecorderPlaces, RecorderMarks, AtWork, HasSignalled
<1>4. RecorderFile'
  <2>1. AtWork' => AtWork
    BY DEF AtWork
  <2>2. HasSignalled' => HasSignalled
    BY DEF RecorderPlaces, HasSignalled
  <2>3. tx' => tx
    OBVIOUS
  <2>4. buf' = buf /\ chan' = chan /\ disk' = disk /\ accepted' = accepted /\ failed' = failed
    OBVIOUS
  <2>5. writer' \in {"settle", "final_settle"} => writer \in {"settle", "final_settle"}
    OBVIOUS
  <2> QED
    BY <2>1, <2>2, <2>3, <2>4, <2>5 DEF RecorderFile
<1>5. RecorderBooks'
  BY DEF RecorderPlaces, RecorderMarks, RecorderBooks, AtWork, HasSignalled
<1> QED
  BY <1>1, <1>2, <1>3, <1>4, <1>5

\* Steps that call the accounting and touch no line.
LEMMA Counts ==
  ASSUME IInv, RecorderInv,
         \/ J!SendOnFailed \/ J!DropAbandons \/ J!DropClaims \/ J!DropReports \/ J!DropCounts
         \/ J!WriterClaims \/ J!WriterReports \/ J!WriterCounts
  PROVE  RecorderInv'
<1>1. \/ J!SendOnFailed /\ CountDropped /\ offered < JsonlOffers
      \/ (J!DropAbandons \/ J!DropClaims \/ J!WriterClaims) /\ ClaimLoss
      \/ (J!DropReports \/ J!WriterReports) /\ MarkFailureReported
      \/ (J!DropCounts \/ J!WriterCounts) /\ CountError
  BY RecorderOps DEF J!SendOnFailed, J!DropAbandons, J!DropClaims, J!DropReports, J!DropCounts,
        J!WriterClaims, J!WriterReports, J!WriterCounts, J!Queue!CountDropped,
        IInv, Books, CountsOK
<1>2. outstanding \in Nat /\ abandoned \in Nat /\ offered \in Nat /\ errors \in Nat
  BY DEF IInv, Books, CountsOK
<1>3. JsonlOffers \in Nat
  BY OffersFit, MaxOffersAssumption
<1> USE <1>1 DEF J!SendOnFailed, J!DropAbandons, J!DropClaims, J!DropReports, J!DropCounts,
            J!WriterClaims, J!WriterReports, J!WriterCounts,
            CountDropped, ClaimLoss, MarkFailureReported, CountError, flags, counters,
            J!fileVars, RecorderInv
<1>4. RecorderTypes'
  BY DEF RecorderTypes, J!ShipStates, J!WriterStates
<1>5. RecorderPlaces'
  BY DEF RecorderTypes, RecorderPlaces
<1>6. RecorderMarks'
  BY <1>2 DEF RecorderPlaces, RecorderMarks, AtWork, HasSignalled
<1>7. RecorderFile'
  BY DEF RecorderPlaces, RecorderMarks, RecorderFile, AtWork, HasSignalled
<1>8. RecorderBooks'
  BY <1>2, <1>3 DEF RecorderPlaces, RecorderMarks, RecorderBooks, AtWork, HasSignalled
<1> QED
  BY <1>4, <1>5, <1>6, <1>7, <1>8

\* The numbers the steps on lines reason with.
LEMMA LinesAreCounted ==
  ASSUME IInv, RecorderInv
  PROVE  /\ outstanding \in Nat /\ abandoned \in Nat /\ errors \in Nat
         /\ offered \in Nat /\ delivered \in Nat /\ JsonlOffers \in Nat /\ pending \in Nat
         /\ Len(disk) \in Nat /\ Len(buf) \in Nat /\ Len(chan) \in Nat /\ Len(accepted) \in Nat
         /\ disk \o buf \in Seq(Lines)
         /\ Len(disk \o buf) = Len(disk) + Len(buf)
         /\ AtWork => Len(accepted) = Len(disk) + Len(buf) + Len(chan)
<1>1. outstanding \in Nat /\ abandoned \in Nat /\ errors \in Nat
      /\ offered \in Nat /\ delivered \in Nat /\ JsonlOffers \in Nat
  BY OffersFit, MaxOffersAssumption DEF IInv, Books, CountsOK
<1> USE DEF RecorderInv, RecorderTypes
<1>2. pending \in Nat
  BY <1>1
<1>3. Len(disk) \in Nat /\ Len(buf) \in Nat /\ Len(chan) \in Nat /\ Len(accepted) \in Nat
  OBVIOUS
<1>4. disk \o buf \in Seq(Lines) /\ Len(disk \o buf) = Len(disk) + Len(buf)
  BY ConcatProperties
<1>5. AtWork => Len(accepted) = Len(disk) + Len(buf) + Len(chan)
  <2>1. Len(AllLines(disk, buf, chan)) = Len(disk) + Len(buf) + Len(chan)
    BY BufferIsFlushed
  <2> QED
    BY <2>1 DEF RecorderFile
<1> QED
  BY <1>1, <1>2, <1>3, <1>4, <1>5

\* enqueue: an accepted line is the last of the channel and of the accepted.
LEMMA EnqueueSentKeeps ==
  ASSUME IInv, RecorderInv, J!Enqueue, ~failed, J!TrySendResult = "Sent"
  PROVE  RecorderInv'
<1> USE DEF RecorderInv
<1>1. rx /\ Len(chan) # JsonlCapacity
  BY DEF J!TrySendResult
<1>2. Enqueue("Sent") /\ offered < JsonlOffers
  <2>1. J!Queue!Enqueue("Sent")
    BY DEF J!Enqueue
  <2> QED
    BY <2>1, RecorderOps, LinesAreCounted DEF J!Queue!Enqueue
<1>3. EnqueueSent /\ offered' = offered + 1 /\ delivered' = delivered
  BY <1>2 DEF Enqueue, EnqueueOnFailed
<1>4. /\ chan' = Append(chan, offered + 1) /\ accepted' = Append(accepted, offered + 1)
      /\ ship = "enqueue" /\ ship' = "idle"
      /\ UNCHANGED <<tx, rx, done, writer, pending, buf, disk>>
  BY DEF J!Enqueue
<1>5. offered + 1 \in Lines
  BY <1>2, LinesAreCounted DEF Lines
<1>6. /\ chan' \in Seq(Lines) /\ Len(chan') = Len(chan) + 1
      /\ accepted' \in Seq(Lines) /\ Len(accepted') = Len(accepted) + 1
  BY <1>4, <1>5, AppendProperties DEF RecorderTypes
<1>7. tx /\ ~HasSignalled'
  BY <1>4 DEF RecorderPlaces, RecorderFile, HasSignalled
<1>8. RecorderTypes'
  <2>1. Len(chan) + 1 <= JsonlCapacity
    BY <1>1, CapacitiesFit, LinesAreCounted DEF RecorderTypes, J!CapacityAssumption
  <2> QED
    BY <1>4, <1>6, <2>1 DEF RecorderTypes, J!ShipStates
<1>9. RecorderPlaces'
  BY <1>1, <1>4, <1>7 DEF RecorderPlaces, RecorderMarks, RecorderFile, HasSignalled
<1>10. RecorderMarks'
  BY <1>3, <1>4, <1>7 DEF EnqueueSent, RecorderMarks, AtWork
<1>11. RecorderFile'
  <2>1. J!IsPrefix(disk, Append(accepted, offered + 1))
    BY <1>5, PrefixOfAppend DEF RecorderTypes, RecorderFile
  <2>2. Append(chan, offered + 1) = OneMore(chan, offered + 1)
    BY <1>5, AppendIsOneMore DEF RecorderTypes
  <2>3. Append(accepted, offered + 1) = OneMore(accepted, offered + 1)
    BY <1>5, AppendIsOneMore DEF RecorderTypes
  <2>4. AllLines(disk, buf, OneMore(chan, offered + 1)) = OneMore(AllLines(disk, buf, chan), offered + 1)
    BY <1>5, AcceptedGrows DEF RecorderTypes
  <2>5. J!IsPrefix(disk', accepted')
    BY <1>4, <2>1
  <2>6. AtWork' => accepted' = AllLines(disk', buf', chan')
    BY <1>4, <2>2, <2>3, <2>4 DEF RecorderFile, AtWork
  <2>7. writer \in {"settle", "final_settle"} => buf = <<>>
    BY DEF RecorderFile
  <2> QED
    BY <1>4, <1>7, <2>5, <2>6, <2>7 DEF RecorderFile
<1>12. RecorderBooks'
  <2>0. /\ offered \in Nat /\ outstanding \in Nat /\ JsonlOffers \in Nat
        /\ Len(accepted) \in Nat /\ Len(chan) \in Nat /\ pending \in Nat
        /\ Len(accepted') = Len(accepted) + 1 /\ Len(chan') = Len(chan) + 1
    BY <1>6, LinesAreCounted
  <2>1. writer' = writer /\ pending' = pending /\ buf' = buf /\ disk' = disk
    BY <1>4
  <2>2. ~failed' /\ outstanding' = outstanding + 1
    BY <1>3 DEF EnqueueSent
  <2>3. Len(accepted) <= offered /\ delivered <= Len(disk)
    BY DEF RecorderBooks
  <2>4. AtWork => delivered + pending <= Len(disk) + Len(buf) /\ outstanding = pending + Len(chan)
    BY DEF RecorderBooks
  <2>5. AtWork' => AtWork
    BY <2>1 DEF AtWork
  <2>6. Len(accepted') <= offered' /\ offered' <= JsonlOffers /\ delivered' <= Len(disk')
    BY <1>2, <1>3, <2>0, <2>1, <2>3
  <2>7. AtWork' => /\ delivered' + pending' <= Len(disk') + Len(buf')
                   /\ outstanding' = pending' + Len(chan')
    BY <1>3, <2>0, <2>1, <2>2, <2>4, <2>5
  <2> QED
    BY <1>7, <2>6, <2>7 DEF RecorderBooks
<1> QED
  BY <1>8, <1>9, <1>10, <1>11, <1>12

\* enqueue of a line that is refused leaves the channel as it is.
LEMMA EnqueueRefusedKeeps ==
  ASSUME IInv, RecorderInv, J!Enqueue, failed \/ J!TrySendResult # "Sent"
  PROVE  RecorderInv'
<1> USE DEF RecorderInv
<1>1. J!Queue!Enqueue(J!TrySendResult)
  BY DEF J!Enqueue
<1>2. Enqueue(J!TrySendResult) /\ offered < JsonlOffers
  BY <1>1, RecorderOps, LinesAreCounted DEF J!Queue!Enqueue
<1>3. /\ EnqueueOnFailed \/ EnqueueFull \/ (EnqueueClosed /\ ~rx)
      /\ offered' = offered + 1 /\ delivered' = delivered
  <2>1. J!TrySendResult = "Closed" => ~rx
    BY DEF J!TrySendResult
  <2>2. ~EnqueueSent \/ J!TrySendResult # "Sent"
    BY DEF EnqueueSent
  <2> QED
    BY <1>2, <2>1, <2>2 DEF Enqueue
<1>4. /\ chan' = chan /\ accepted' = accepted
      /\ ship = "enqueue" /\ ship' = "idle"
      /\ UNCHANGED <<tx, rx, done, writer, pending, buf, disk>>
  BY DEF J!Enqueue
<1>5. RecorderTypes'
  BY <1>4 DEF RecorderTypes, J!ShipStates
<1>6. RecorderPlaces'
  BY <1>4 DEF RecorderPlaces
<1>7. RecorderMarks'
  <2>1. CASE EnqueueOnFailed
    BY <1>4, <2>1 DEF EnqueueOnFailed, flags, RecorderMarks, AtWork, HasSignalled
  <2>2. CASE EnqueueFull
    BY <1>4, <2>2 DEF EnqueueFull, RecorderMarks, AtWork, HasSignalled
  <2>3. CASE EnqueueClosed /\ ~rx
    <3>1. ~failed /\ ~failure_reported /\ errors = 0 /\ errors' = 1
      BY <2>3 DEF EnqueueClosed, RecorderMarks
    <3>2. writer \in {"panicked", "gone"}
      BY <2>3 DEF RecorderPlaces
    <3> QED
      BY <1>4, <2>3, <3>1, <3>2 DEF EnqueueClosed, RecorderMarks, AtWork, HasSignalled
  <2> QED
    BY <1>3, <2>1, <2>2, <2>3
<1>8. failed => failed'
  BY <1>3 DEF EnqueueOnFailed, EnqueueFull, EnqueueClosed, flags
<1>9. RecorderFile'
  BY <1>4, <1>8 DEF RecorderFile, AtWork, HasSignalled
<1>10. RecorderBooks'
  <2>1. ~failed' => outstanding' = outstanding
    BY <1>3 DEF EnqueueOnFailed, EnqueueFull, EnqueueClosed, flags
  <2> QED
    BY <1>2, <1>3, <1>4, <1>8, <2>1, LinesAreCounted DEF RecorderBooks, AtWork, HasSignalled
<1> QED
  BY <1>5, <1>6, <1>7, <1>9, <1>10

\* write_all: the line moves from the channel to the end of what was written.
LEMMA WriteLineKeeps ==
  ASSUME IInv, RecorderInv, J!WriteLine
  PROVE  RecorderInv'
<1> USE DEF RecorderInv
<1>1. /\ writer = "recv" /\ chan # <<>> /\ chan' = Tail(chan)
      /\ writer' \in {"recv", "flush"} /\ pending' = pending + 1
      /\ accepted' = accepted /\ ship' = ship /\ UNCHANGED <<tx, rx, done>>
      /\ UNCHANGED J!queueVars
  BY DEF J!WriteLine
<1>2. /\ Tail(chan) \in Seq(Lines) /\ <<Head(chan)>> \in Seq(Lines)
      /\ Len(chan) \in Nat /\ Len(chan) > 0 /\ Len(Tail(chan)) = Len(chan) - 1
      /\ OneMore(buf, Head(chan)) \in Seq(Lines)
      /\ Len(OneMore(buf, Head(chan))) = Len(buf) + 1
      /\ disk \o buf \in Seq(Lines) /\ Len(disk \o buf) = Len(disk) + Len(buf)
      /\ AllLines(disk, OneMore(buf, Head(chan)), Tail(chan)) = AllLines(disk, buf, chan)
      /\ AllLines(disk \o buf, <<Head(chan)>>, Tail(chan)) = AllLines(disk, buf, chan)
  <2>1. /\ disk \in Seq(Lines) /\ buf \in Seq(Lines)
        /\ chan \in Seq(Lines) /\ chan # <<>>
    BY <1>1 DEF RecorderTypes
  <2> QED
    BY <2>1, LineIsWritten
<1>3. /\ disk' \in Seq(Lines) /\ buf' \in Seq(Lines)
      /\ Len(disk') + Len(buf') = Len(disk) + Len(buf) + 1
      /\ Len(disk') >= Len(disk) /\ Len(disk') \in Nat /\ Len(buf') \in Nat
      /\ AllLines(disk', buf', chan') = AllLines(disk, buf, chan)
  <2>0. Len(disk) \in Nat /\ Len(buf) \in Nat /\ Len(<<Head(chan)>>) = 1 /\ disk \in Seq(Lines)
    BY LinesAreCounted DEF RecorderTypes
  <2>1. CASE disk' = disk /\ buf' = Append(buf, Head(chan))
    <3>1. Append(buf, Head(chan)) = OneMore(buf, Head(chan))
      BY <1>1, HeadTailProperties, AppendIsOneMore DEF RecorderTypes
    <3>2. disk' = disk /\ buf' = OneMore(buf, Head(chan))
      BY <2>1, <3>1
    <3>3. AllLines(disk', buf', chan') = AllLines(disk, buf, chan)
      BY <1>1, <1>2, <3>2
    <3>4. Len(disk') = Len(disk) /\ Len(buf') = Len(buf) + 1 /\ buf' \in Seq(Lines)
      BY <1>2, <3>2
    <3> QED
      BY <2>0, <3>2, <3>3, <3>4
  <2>2. CASE disk' = disk \o buf /\ buf' = <<Head(chan)>>
    BY <1>1, <1>2, <2>0, <2>2
  <2> QED
    BY <2>1, <2>2 DEF J!WriteLine
<1>4. AtWork /\ AtWork' /\ (HasSignalled' <=> HasSignalled) /\ ~HasSignalled
  BY <1>1 DEF AtWork, HasSignalled, RecorderPlaces
<1>5. pending' \in 0..JsonlOffers
  <2>1. /\ pending \in Nat /\ delivered \in Nat /\ JsonlOffers \in Nat
        /\ Len(disk) \in Nat /\ Len(buf) \in Nat /\ Len(chan) \in Nat /\ Len(accepted) \in Nat
        /\ Len(accepted) = Len(disk) + Len(buf) + Len(chan)
    BY <1>4, LinesAreCounted
  <2>2. /\ Len(accepted) <= offered /\ offered <= JsonlOffers /\ offered \in Nat
        /\ delivered + pending <= Len(disk) + Len(buf)
    BY <1>4, LinesAreCounted DEF RecorderBooks
  <2> QED
    BY <1>1, <1>2, <2>1, <2>2
<1>6. RecorderTypes'
  <2>1. Len(chan') <= JsonlCapacity
    BY <1>1, <1>2, CapacitiesFit, LinesAreCounted DEF RecorderTypes, J!CapacityAssumption
  <2> QED
    BY <1>1, <1>2, <1>3, <1>5, <2>1 DEF RecorderTypes, J!WriterStates
<1>7. RecorderPlaces'
  BY <1>1 DEF RecorderPlaces
<1>8. RecorderMarks'
  BY <1>1, <1>4 DEF J!queueVars, RecorderMarks
<1>9. RecorderFile'
  <2>1. J!IsPrefix(disk', accepted')
    <3>1. CASE disk' = disk
      BY <1>1, <3>1 DEF RecorderFile
    <3>2. CASE disk' = disk \o buf
      BY <1>1, <1>4, <3>2, BufferIsFlushed DEF RecorderFile, RecorderTypes
    <3> QED
      BY <3>1, <3>2 DEF J!WriteLine
  <2> QED
    BY <1>1, <1>3, <1>4, <2>1 DEF RecorderFile
<1>10. RecorderBooks'
  <2>1. UNCHANGED <<outstanding, offered, delivered, failed>>
    BY <1>1 DEF J!queueVars
  <2>2. /\ pending \in Nat /\ delivered \in Nat /\ outstanding \in Nat
        /\ Len(disk) \in Nat /\ Len(buf) \in Nat /\ Len(chan) \in Nat
    BY LinesAreCounted
  <2>3. /\ Len(accepted) <= offered /\ offered <= JsonlOffers /\ delivered <= Len(disk)
        /\ delivered + pending <= Len(disk) + Len(buf)
        /\ ~failed => outstanding = pending + Len(chan)
    BY <1>4 DEF RecorderBooks
  <2>4. /\ delivered' <= Len(disk') /\ delivered' + pending' <= Len(disk') + Len(buf')
        /\ ~failed => outstanding' = pending' + Len(chan')
    <3>1. pending' = pending + 1 /\ Len(chan') = Len(chan) - 1
      BY <1>1, <1>2
    <3>2. /\ Len(disk') + Len(buf') = Len(disk) + Len(buf) + 1
          /\ Len(disk') >= Len(disk) /\ Len(disk') \in Nat /\ Len(buf') \in Nat
      BY <1>3
    <3> QED
      BY <2>1, <2>2, <2>3, <3>1, <3>2
  <2> QED
    BY <1>1, <1>4, <2>1, <2>3, <2>4 DEF RecorderBooks
<1> QED
  BY <1>6, <1>7, <1>8, <1>9, <1>10

\* A failing or panicking writer leaves a front of the buffer in the file.
LEMMA SpillKeeps ==
  ASSUME IInv, RecorderInv, J!WriteFails \/ J!FlushFails \/ J!WriterPanics
  PROVE  RecorderInv'
<1> USE DEF RecorderInv
<1>1. /\ writer \in {"recv", "flush", "final_flush"} /\ writer' \in {"claim", "panicked"}
      /\ chan' = chan \/ (chan # <<>> /\ chan' = Tail(chan))
      /\ pending' = pending /\ accepted' = accepted /\ ship' = ship /\ UNCHANGED <<tx, rx, done>>
      /\ UNCHANGED J!queueVars
      /\ J!Spill
  BY DEF J!WriteFails, J!FlushFails, J!WriterPanics
<1>2. AtWork /\ ~AtWork' /\ (HasSignalled' <=> HasSignalled) /\ ~HasSignalled
  BY <1>1 DEF AtWork, HasSignalled, RecorderPlaces
<1>3. chan' \in Seq(Lines) /\ Len(chan') <= Len(chan)
  <2>1. chan # <<>> => Tail(chan) \in Seq(Lines) /\ Len(Tail(chan)) = Len(chan) - 1
    BY HeadTailProperties DEF RecorderTypes
  <2>2. chan \in Seq(Lines) /\ Len(chan) \in Nat
    BY LinesAreCounted DEF RecorderTypes
  <2>3. chan' = chan \/ (chan # <<>> /\ chan' = Tail(chan))
    BY <1>1
  <2> QED
    BY <2>1, <2>2, <2>3
<1>4. PICK k \in 0..Len(buf) : disk' = disk \o SubSeq(buf, 1, k) /\ buf' = <<>>
  BY <1>1 DEF J!Spill
<1>5. /\ disk' \in Seq(Lines) /\ Len(disk) <= Len(disk')
      /\ J!IsPrefix(disk', AllLines(disk, buf, chan))
  BY <1>4, SpillIsPrefix DEF RecorderTypes
<1>6. RecorderTypes'
  <2>1. Len(chan') <= JsonlCapacity
    BY <1>3, CapacitiesFit, LinesAreCounted DEF RecorderTypes, J!CapacityAssumption
  <2> QED
    BY <1>1, <1>3, <1>4, <1>5, <2>1 DEF RecorderTypes, J!WriterStates
<1>7. RecorderPlaces'
  BY <1>1 DEF RecorderPlaces
<1>8. RecorderMarks'
  BY <1>1, <1>2 DEF J!queueVars, RecorderMarks
<1>9. RecorderFile'
  BY <1>1, <1>2, <1>5 DEF RecorderFile
<1>10. RecorderBooks'
  <2>1. UNCHANGED <<outstanding, offered, delivered, failed>>
    BY <1>1 DEF J!queueVars
  <2>2. delivered \in Nat /\ Len(disk) \in Nat /\ Len(disk') \in Nat
    BY <1>5, LinesAreCounted
  <2>3. Len(accepted) <= offered /\ offered <= JsonlOffers /\ delivered <= Len(disk)
    BY DEF RecorderBooks
  <2> QED
    BY <1>1, <1>2, <1>5, <2>1, <2>2, <2>3 DEF RecorderBooks
<1> QED
  BY <1>6, <1>7, <1>8, <1>9, <1>10

\* flush_timed: the buffer is on disk.
LEMMA FlushKeeps ==
  ASSUME IInv, RecorderInv, J!Flush
  PROVE  RecorderInv'
<1> USE DEF RecorderInv
<1>1. /\ writer \in {"flush", "final_flush"}
      /\ writer' = IF writer = "flush" THEN "settle" ELSE "final_settle"
      /\ disk' = disk \o buf /\ buf' = <<>> /\ chan' = chan
      /\ pending' = pending /\ accepted' = accepted /\ ship' = ship /\ UNCHANGED <<tx, rx, done>>
      /\ UNCHANGED J!queueVars
  BY DEF J!Flush
<1>2. AtWork /\ AtWork' /\ (HasSignalled' <=> HasSignalled) /\ ~HasSignalled
  BY <1>1 DEF AtWork, HasSignalled, RecorderPlaces
<1>3. disk' \in Seq(Lines) /\ Len(disk') = Len(disk) + Len(buf)
  BY <1>1, LinesAreCounted
<1>4. RecorderTypes'
  BY <1>1, <1>3 DEF RecorderTypes, J!WriterStates
<1>5. RecorderPlaces'
  BY <1>1 DEF RecorderPlaces
<1>6. RecorderMarks'
  BY <1>1, <1>2 DEF J!queueVars, RecorderMarks
<1>7. RecorderFile'
  <2>1. AllLines(disk', buf', chan') = AllLines(disk, buf, chan)
    BY <1>1, BufferIsFlushed DEF RecorderTypes
  <2>2. J!IsPrefix(disk', AllLines(disk, buf, chan))
    BY <1>1, BufferIsFlushed DEF RecorderTypes
  <2> QED
    BY <1>1, <1>2, <2>1, <2>2 DEF RecorderFile
<1>8. RecorderBooks'
  <2>1. UNCHANGED <<outstanding, offered, delivered, failed>>
    BY <1>1 DEF J!queueVars
  <2>2. delivered \in Nat /\ pending \in Nat /\ Len(disk) \in Nat /\ Len(buf) \in Nat /\ Len(buf') = 0
    BY <1>1, LinesAreCounted
  <2>3. /\ Len(accepted) <= offered /\ offered <= JsonlOffers /\ delivered <= Len(disk)
        /\ delivered + pending <= Len(disk) + Len(buf)
        /\ ~failed => outstanding = pending + Len(chan)
    BY <1>2 DEF RecorderBooks
  <2>4. delivered' <= Len(disk') /\ delivered' + pending' <= Len(disk') + Len(buf')
    BY <1>1, <1>3, <2>1, <2>2, <2>3
  <2> QED
    BY <1>1, <1>2, <2>1, <2>3, <2>4 DEF RecorderBooks
<1> QED
  BY <1>4, <1>5, <1>6, <1>7, <1>8

\* finish acknowledges what the flush made durable, unless it was given up.
LEMMA SettleKeeps ==
  ASSUME IInv, RecorderInv, J!Settle
  PROVE  RecorderInv'
<1> USE DEF RecorderInv
<1>1. /\ writer \in {"settle", "final_settle"}
      /\ writer' = IF writer = "settle" THEN "recv" ELSE "signal"
      /\ pending' = 0 /\ ship' = ship /\ UNCHANGED <<chan, tx, rx, done>>
      /\ disk' = disk /\ buf' = buf /\ accepted' = accepted
  BY DEF J!Settle, J!fileVars
<1>2. /\ UNCHANGED <<flags, dropped, errors, offered>>
      /\ loss_claimed => UNCHANGED <<outstanding, abandoned, delivered>>
      /\ ~loss_claimed => /\ outstanding' = outstanding - pending
                          /\ delivered' = delivered + pending /\ UNCHANGED abandoned
  <2>1. CASE pending = 0
    BY <2>1, LinesAreCounted DEF J!Settle, J!queueVars, flags
  <2>2. CASE pending # 0
    <3>1. Finish(pending, TRUE)
      BY <2>2, RecorderOps, LinesAreCounted DEF J!Settle
    <3> QED
      BY <3>1 DEF Finish
  <2> QED
    BY <2>1, <2>2
<1>3. AtWork /\ ~HasSignalled /\ (HasSignalled' <=> writer = "final_settle")
  BY <1>1 DEF AtWork, HasSignalled, RecorderPlaces
<1>4. buf = <<>> /\ (writer = "final_settle" => ~tx /\ chan = <<>>)
  BY <1>1 DEF RecorderPlaces, RecorderFile
<1>5. RecorderTypes'
  BY <1>1, LinesAreCounted DEF RecorderTypes, J!WriterStates
<1>6. RecorderPlaces'
  BY <1>1 DEF RecorderPlaces
<1>7. RecorderMarks'
  BY <1>1, <1>2, <1>3 DEF flags, RecorderMarks, AtWork
<1>8. RecorderFile'
  <2>1. writer = "final_settle" => AllLines(disk, buf, chan) = disk
    BY <1>4, BufferIsFlushed DEF RecorderTypes
  <2> QED
    BY <1>1, <1>2, <1>3, <1>4, <2>1 DEF flags, RecorderFile, AtWork
<1>9. RecorderBooks'
  <2>1. /\ outstanding \in Nat /\ delivered \in Nat /\ pending \in Nat
        /\ Len(disk) \in Nat /\ Len(buf) = 0 /\ Len(chan) \in Nat
    BY <1>4, LinesAreCounted
  <2>2. /\ Len(accepted) <= offered /\ offered <= JsonlOffers /\ delivered <= Len(disk)
        /\ delivered + pending <= Len(disk) + Len(buf)
        /\ ~failed => outstanding = pending + Len(chan)
    BY <1>3 DEF RecorderBooks
  <2>3. failed <=> loss_claimed
    BY DEF RecorderMarks
  <2>4. /\ delivered' <= Len(disk') /\ delivered' + pending' <= Len(disk') + Len(buf')
        /\ ~failed => outstanding' = pending' + Len(chan')
    BY <1>1, <1>2, <2>1, <2>2, <2>3
  <2>5. writer = "final_settle" => Len(chan) = 0
    BY <1>4
  <2>6. failed' = failed /\ offered' = offered
    BY <1>2 DEF flags
  <2> QED
    BY <1>1, <1>3, <2>2, <2>4, <2>5, <2>6 DEF RecorderBooks
<1> QED
  BY <1>5, <1>6, <1>7, <1>8, <1>9

\* Every step of the recorder keeps its invariant.
LEMMA RecorderKeeps == IInv /\ RecorderInv /\ J!Next => RecorderInv'
  BY MovesOn, Counts, EnqueueSentKeeps, EnqueueRefusedKeeps, WriteLineKeeps, SpillKeeps,
     FlushKeeps, SettleKeeps DEF J!Next, J!ShipNext, J!DropNext, J!WriterNext

\* The invariant is what the recorder's properties say, and more.
LEMMA RecorderIsSound ==
  IInv /\ RecorderInv => J!RecordingIsSound /\ J!CloseIsSound
<1> SUFFICES ASSUME IInv, RecorderInv PROVE J!RecordingIsSound /\ J!CloseIsSound
  OBVIOUS
<1> USE DEF RecorderInv
<1>1. J!TypeOK
  <2>1. J!Queue!TypeOK
    BY DEF IInv, Books, FlagsOK, CountsOK, J!Queue!TypeOK, J!Queue!FlagsOK, J!Queue!CountsOK
  <2> QED
    BY <2>1 DEF J!TypeOK, RecorderTypes, Lines
<1>2. J!RecordingIsPrefix /\ J!DurableBeforeAcknowledged
  BY DEF J!RecordingIsPrefix, J!DurableBeforeAcknowledged, RecorderFile, RecorderBooks
<1>3. queued = outstanding /\ (loss_claimed => outstanding = 0)
  BY DEF IInv, Books, QueuedIsOutstanding, ClaimedOwnsNothing
<1>4. ship = "closed" /\ ~failed => HasSignalled
  BY DEF RecorderMarks, HasSignalled
<1>5. J!CleanCloseIsComplete
  BY <1>3, <1>4 DEF J!CleanCloseIsComplete, RecorderMarks, RecorderFile, RecorderBooks
<1>6. J!ClosedOwnsNothing
  BY <1>3, <1>4 DEF J!ClosedOwnsNothing, RecorderMarks, RecorderBooks
<1>7. J!FailureCountedOnce
  BY DEF J!FailureCountedOnce, RecorderPlaces, RecorderMarks
<1> QED
  BY <1>1, <1>2, <1>5, <1>6, <1>7 DEF J!RecordingIsSound, J!CloseIsSound
-----------------------------------------------------------------------------
(* The forwarder.  Its tasks are polled while the worker's future waits.   *)

Polling == worker \in {"serving", "draining", "aborting"}

ForwarderTypes ==
    /\ jobs \in 0..KafkaCapacity
    /\ sender \in BOOLEAN /\ receiver \in BOOLEAN /\ signalled \in BOOLEAN
    /\ kship \in K!ShipStates
    /\ worker \in K!WorkerStates
    /\ forwarder \in K!ForwarderStates
    /\ settling \in {"nobody", "task", "reaper"}
    /\ running \in Nat /\ finished \in Nat /\ crashed \in Nat
    /\ causes \in Nat

\* Who can take the next step.
ForwarderPlaces ==
    /\ sender <=> kship \in {"idle", "enqueue", "closing"}
    /\ worker \in {"starting", "connecting", "init_failed"} =>
         forwarder = "none" /\ receiver /\ ~failed
    /\ Polling => forwarder \notin {"none", "aborted"}
    /\ Polling /\ forwarder \notin {"done", "panicked"} => receiver
    /\ settling # "nobody" => Polling
    /\ settling = "task" => running > 0
    /\ forwarder \in {"joining", "done"} => jobs = 0 /\ ~sender
    /\ kship \in {"claim", "claim_again", "count"} =>
         worker = "panicked" /\ ~receiver /\ failed
    /\ worker \in {"panic_claim", "panic_claim_again", "panic_count"} => failed
    /\ kship = "count" \/ worker \in {"panic_count", "aborting"} => loss_claimed

\* Who still has to count the cause has found no other counted.
CausesAreOne ==
    /\ causes <= 1
    /\ worker \in {"starting", "connecting"} => causes = 0
    /\ worker = "panicked" /\ receiver => causes = 0
    /\ ~failed /\ worker # "init_failed" => causes = 0
    /\ kship \in {"claim", "count"} => causes = 0
    /\ worker \in {"panic_claim", "panic_count"} => causes = 0

Reaping == IF settling = "reaper" THEN 1 ELSE 0

\* The join set, and the place that was made in it.
JoinSetFits ==
    /\ K!Inflight + Reaping <= MaxInflight
    /\ forwarder = "room" => K!Inflight < MaxInflight

\* What the forwarder can still reach is what is outstanding.
Backlog ==
    /\ offered <= KafkaOffers
    /\ receiver /\ ~loss_claimed => outstanding = K!Unsettled
    /\ outstanding <= KafkaCapacity + 1 + MaxInflight
    /\ K!CompletedDrainIsComplete
    /\ worker \in {"exiting", "gone"} => outstanding = 0 /\ (failed \/ ~sender)
    /\ kship = "closed" => outstanding = 0

ForwarderInv == ForwarderTypes /\ ForwarderPlaces /\ CausesAreOne /\ JoinSetFits /\ Backlog

\* The forwarder starts with nothing to do.
LEMMA ForwarderInit == Init /\ K!Init => ForwarderInv
<1> SUFFICES ASSUME Init, K!Init PROVE ForwarderInv
  OBVIOUS
<1> USE DEF Init, K!Init, Polling
<1>1. KafkaCapacity \in Nat /\ MaxInflight \in Nat /\ KafkaOffers \in Nat
  BY CapacitiesFit, OffersFit, MaxOffersAssumption DEF K!CapacityAssumption
<1>2. ForwarderTypes
  <2>1. jobs \in 0..KafkaCapacity
    BY <1>1
  <2>2. sender \in BOOLEAN /\ receiver \in BOOLEAN /\ signalled \in BOOLEAN
    OBVIOUS
  <2>3. kship \in K!ShipStates /\ worker \in K!WorkerStates /\ forwarder \in K!ForwarderStates
    BY DEF K!ShipStates, K!WorkerStates, K!ForwarderStates
  <2>4. settling \in {"nobody", "task", "reaper"}
    OBVIOUS
  <2>5. running \in Nat /\ finished \in Nat /\ crashed \in Nat /\ causes \in Nat
    OBVIOUS
  <2> QED
    BY <2>1, <2>2, <2>3, <2>4, <2>5 DEF ForwarderTypes
<1>3. ForwarderPlaces
  BY DEF ForwarderPlaces
<1>4. CausesAreOne
  BY DEF CausesAreOne
<1>5. JoinSetFits
  BY <1>1 DEF JoinSetFits, K!Inflight, Reaping
<1>6. Backlog
  BY <1>1 DEF Backlog, K!Unsettled, K!Holding, K!CompletedDrainIsComplete
<1> QED
  BY <1>2, <1>3, <1>4, <1>5, <1>6 DEF ForwarderInv

\* The numbers the forwarder's steps reason with.
LEMMA JobsAreCounted ==
  ASSUME IInv, ForwarderInv
  PROVE  /\ offered \in Nat /\ outstanding \in Nat /\ errors \in Nat
         /\ jobs \in Nat /\ jobs <= KafkaCapacity
         /\ running \in Nat /\ finished \in Nat /\ crashed \in Nat /\ causes \in Nat
         /\ KafkaCapacity \in Nat /\ MaxInflight \in Nat /\ KafkaOffers \in Nat
         /\ loss_claimed => failed /\ outstanding = 0
         /\ failed \in BOOLEAN /\ loss_claimed \in BOOLEAN /\ failure_reported \in BOOLEAN
<1>1. KafkaCapacity \in Nat /\ MaxInflight \in Nat /\ KafkaOffers \in Nat
  BY CapacitiesFit, OffersFit, MaxOffersAssumption DEF K!CapacityAssumption
<1> QED
  BY <1>1 DEF IInv, FlagsOK, Books, CountsOK, ClaimedOwnsNothing, ForwarderInv, ForwarderTypes

\* Every step of the forwarder is an operation of the accounting or none.
LEMMA ForwarderSteps == IInv /\ ForwarderInv /\ K!Next => [Next]_vars
<1> SUFFICES ASSUME IInv, ForwarderInv, K!Next PROVE [Next]_vars
  OBVIOUS
<1>1. offered \in Nat /\ 1 \in 1..MaxOffers
  BY JobsAreCounted, OffersFit, MaxOffersAssumption
<1>2. K!queueVars' = K!queueVars => UNCHANGED vars
  BY DEF K!queueVars, vars, flags, counters
<1>3. CASE K!SendOnFailed \/ K!DropMarks \/ K!DropClaims \/ K!DropCounts
  BY <1>1, <1>3, ForwarderOps
     DEF K!SendOnFailed, K!DropMarks, K!DropClaims, K!DropCounts, Next
<1>4. CASE K!Enqueue
  <2>1. K!TrySendResult \in TrySend
    BY DEF K!TrySendResult, TrySend
  <2> QED
    BY <1>1, <1>4, <2>1, ForwarderOps DEF K!Enqueue, Next
<1>5. CASE \/ K!BuildFails \/ K!ConnectFails \/ K!ShutdownWhileConnecting \/ K!InitFailedClaims
           \/ K!DrainPanicked \/ K!DrainTimesOut \/ K!PanicClaims \/ K!PanicCounts
  BY <1>1, <1>5, ForwarderOps
     DEF K!BuildFails, K!ConnectFails, K!ShutdownWhileConnecting, K!InitFailedClaims,
         K!DrainPanicked, K!DrainTimesOut, K!PanicClaims, K!PanicCounts, Next
<1>6. CASE K!ReapCrashed \/ K!ProduceFails
  BY <1>1, <1>6, ForwarderOps DEF K!ReapCrashed, K!ProduceFails, Next
<1>7. CASE K!SettleCrashed \/ K!SettleRefused \/ K!ProduceOk
  <2>1. Finish(1, FALSE) \/ Finish(1, TRUE)
    BY <1>1, <1>7, ForwarderOps DEF K!SettleCrashed, K!SettleRefused, K!ProduceOk
  <2> QED
    BY <1>1, <2>1 DEF Next
<1>8. CASE K!SendChecked \/ K!DropSignals \/ K!DropSender \/ K!DropJoined \/ K!Terminated
  BY <1>2, <1>8 DEF K!SendChecked, K!DropSignals, K!DropSender, K!DropJoined, K!Terminated, K!vars
<1>9. CASE \/ K!BuildOk \/ K!Connected \/ K!StartDrain \/ K!DrainCompletes
           \/ K!Aborted \/ K!WorkerExits \/ K!WorkerPanics \/ K!WorkerUnwinds
  BY <1>2, <1>9 DEF K!BuildOk, K!Connected, K!StartDrain, K!DrainCompletes,
        K!Aborted, K!WorkerExits, K!WorkerPanics, K!WorkerUnwinds
<1>10. CASE \/ K!Receive \/ K!Reap \/ K!WaitForRoom \/ K!Spawn
            \/ K!ReceiveClosed \/ K!ForwarderEnds \/ K!ForwarderPanics \/ K!ProducePanics
  BY <1>2, <1>10 DEF K!Receive, K!Reap, K!WaitForRoom, K!Spawn,
        K!ReceiveClosed, K!ForwarderEnds, K!ForwarderPanics, K!ProducePanics
<1> QED
  BY <1>3, <1>4, <1>5, <1>6, <1>7, <1>8, <1>9, <1>10
     DEF K!Next, K!ShipNext, K!DropNext, K!WorkerTimed, K!ForwarderNext, K!Settle, K!ProduceAnswers

-----------------------------------------------------------------------------
(* What each step of the forwarder does to its invariant.                  *)

\* The shipping thread moves on, or counts a line it did not send.
LEMMA ShipMoves ==
  ASSUME IInv, ForwarderInv,
         \/ K!SendOnFailed \/ K!SendChecked
         \/ K!DropSignals \/ K!DropSender \/ K!DropJoined \/ K!Terminated
  PROVE  ForwarderInv'
<1>1. \/ K!SendOnFailed /\ CountDropped /\ offered < KafkaOffers
      \/ /\ K!SendChecked \/ K!DropSignals \/ K!DropSender \/ K!DropJoined \/ K!Terminated
         /\ UNCHANGED K!queueVars
  BY JobsAreCounted, ForwarderOps
     DEF K!SendOnFailed, K!SendChecked, K!DropSignals, K!DropSender, K!DropJoined, K!Terminated,
         K!vars, K!Queue!CountDropped
<1> USE <1>1 DEF K!SendOnFailed, K!SendChecked, K!DropSignals, K!DropSender, K!DropJoined,
            K!Terminated, K!vars, K!queueVars, K!chanVars, K!taskVars, CountDropped, flags
<1>2. ForwarderTypes'
  BY DEF ForwarderInv, ForwarderTypes, K!ShipStates
<1>3. ForwarderPlaces'
  BY DEF ForwarderInv, ForwarderPlaces, Polling
<1>4. CausesAreOne'
  BY DEF ForwarderInv, CausesAreOne
<1>5. JoinSetFits'
  BY DEF ForwarderInv, JoinSetFits, K!Inflight, Reaping
<1>6. Backlog'
  BY JobsAreCounted
     DEF ForwarderInv, ForwarderPlaces, Backlog, K!Unsettled, K!Holding, K!CompletedDrainIsComplete, K!Inflight
<1> QED
  BY <1>2, <1>3, <1>4, <1>5, <1>6 DEF ForwarderInv

\* The drop finds the worker panicked.
LEMMA DropFails ==
  ASSUME IInv, ForwarderInv, K!DropMarks \/ K!DropClaims \/ K!DropCounts
  PROVE  ForwarderInv'
<1>1. \/ K!DropMarks /\ MarkFailed
      \/ K!DropClaims /\ ClaimLoss
      \/ K!DropCounts /\ CountError
  BY JobsAreCounted, ForwarderOps DEF K!DropMarks, K!DropClaims, K!DropCounts
<1>2. Claimable = outstanding
  BY ClaimableIsOutstanding
<1> USE <1>1 DEF K!DropMarks, K!DropClaims, K!DropCounts, K!chanVars, K!taskVars,
            MarkFailed, ClaimLoss, CountError, flags, counters
<1>3. ForwarderTypes'
  BY DEF ForwarderInv, ForwarderTypes, K!ShipStates
<1>4. ForwarderPlaces'
  BY DEF ForwarderInv, ForwarderPlaces, Polling
<1>5. CausesAreOne'
  BY DEF ForwarderInv, ForwarderPlaces, CausesAreOne
<1>6. JoinSetFits'
  BY DEF ForwarderInv, JoinSetFits, K!Inflight, Reaping
<1>7. Backlog'
  BY <1>2, JobsAreCounted
     DEF ForwarderInv, ForwarderPlaces, Backlog, K!Unsettled, K!Holding, K!CompletedDrainIsComplete, K!Inflight
<1> QED
  BY <1>3, <1>4, <1>5, <1>6, <1>7 DEF ForwarderInv

\* enqueue: an accepted job is the one more the forwarder can reach; a closed
\* channel is the cause, unless one was counted before.
LEMMA EnqueueKeeps ==
  ASSUME IInv, ForwarderInv, K!Enqueue
  PROVE  ForwarderInv'
<1>1. Enqueue(K!TrySendResult) /\ offered < KafkaOffers
  BY JobsAreCounted, ForwarderOps DEF K!Enqueue, K!Queue!Enqueue
<1>2. /\ kship = "enqueue" /\ kship' = "idle"
      /\ jobs' = IF ~failed /\ K!TrySendResult = "Sent" THEN jobs + 1 ELSE jobs
      /\ causes' = causes + (errors' - errors)
      /\ UNCHANGED <<sender, receiver, signalled, worker, forwarder, settling>>
      /\ UNCHANGED <<running, finished, crashed>>
  BY DEF K!Enqueue, K!taskVars
<1>3. offered' = offered + 1
  BY <1>1 DEF Enqueue
<1>4. sender /\ forwarder \notin {"joining", "done"} /\ kship # "closed"
  BY <1>2 DEF ForwarderInv, ForwarderPlaces
<1>5. JoinSetFits'
  BY <1>2 DEF ForwarderInv, JoinSetFits, K!Inflight, Reaping
<1>6. CASE EnqueueOnFailed \/ (K!TrySendResult = "Full" /\ EnqueueFull)
  <2>1. /\ UNCHANGED <<failed, outstanding, loss_claimed, errors>> /\ jobs' = jobs /\ causes' = causes
    BY <1>2, <1>6, JobsAreCounted DEF EnqueueOnFailed, EnqueueFull, flags
  <2>2. ForwarderTypes'
    BY <1>2, <2>1 DEF ForwarderInv, ForwarderTypes, K!ShipStates
  <2>3. ForwarderPlaces'
    BY <1>2, <2>1 DEF ForwarderInv, ForwarderPlaces, Polling
  <2>4. CausesAreOne'
    BY <1>2, <2>1 DEF ForwarderInv, CausesAreOne
  <2>5. Backlog'
    BY <1>1, <1>2, <1>3, <1>4, <2>1, JobsAreCounted
       DEF ForwarderInv, Backlog, K!Unsettled, K!Holding, K!CompletedDrainIsComplete, K!Inflight
  <2> QED
    BY <1>5, <2>2, <2>3, <2>4, <2>5 DEF ForwarderInv
<1>7. CASE K!TrySendResult = "Sent" /\ EnqueueSent
  <2>1. /\ receiver /\ jobs # KafkaCapacity /\ jobs' = jobs + 1
        /\ outstanding' = outstanding + 1 /\ UNCHANGED <<failed, loss_claimed, errors>>
        /\ ~failed
    BY <1>2, <1>7 DEF K!TrySendResult, EnqueueSent
  <2>2. causes' = causes
    BY <1>2, <2>1, JobsAreCounted
  <2>3. ForwarderTypes'
    BY <1>2, <2>1, <2>2, JobsAreCounted DEF ForwarderInv, ForwarderTypes, K!ShipStates
  <2>4. ForwarderPlaces'
    BY <1>2, <1>4, <2>1 DEF ForwarderInv, ForwarderPlaces, Polling
  <2>5. CausesAreOne'
    BY <1>2, <2>1, <2>2 DEF ForwarderInv, CausesAreOne
  <2>6. Backlog'
    <3>1. ~loss_claimed /\ ~loss_claimed'
      BY <2>1, JobsAreCounted
    <3>2. outstanding = K!Unsettled /\ (worker \in {"exiting", "gone"} => FALSE)
      BY <1>4, <2>1, <3>1 DEF ForwarderInv, Backlog
    <3>3. outstanding' = K!Unsettled'
      BY <1>2, <2>1, <3>2, JobsAreCounted DEF K!Unsettled, K!Holding
    <3>4. outstanding' <= KafkaCapacity + 1 + MaxInflight
      <4>1. jobs' <= KafkaCapacity
        BY <2>1, JobsAreCounted
      <4>2. running' + crashed' + Reaping' <= MaxInflight /\ Reaping' = IF settling' = "reaper" THEN 1 ELSE 0
        BY <1>2, <1>5, JobsAreCounted DEF JoinSetFits, K!Inflight, Reaping
      <4> QED
        BY <1>2, <2>1, <3>3, <4>1, <4>2, JobsAreCounted DEF K!Unsettled, K!Holding
    <3> QED
      BY <1>1, <1>2, <1>3, <1>4, <3>2, <3>3, <3>4, JobsAreCounted
         DEF Backlog, K!CompletedDrainIsComplete
  <2> QED
    BY <1>5, <2>3, <2>4, <2>5, <2>6 DEF ForwarderInv
<1>8. CASE K!TrySendResult = "Closed" /\ EnqueueClosed
  <2>1. Claimable = outstanding
    BY ClaimableIsOutstanding
  <2>2. /\ ~receiver /\ jobs' = jobs /\ ~failed /\ failed' /\ loss_claimed' /\ outstanding' = 0
        /\ errors' = errors \/ errors' = errors + 1
    BY <1>2, <1>8, <2>1, JobsAreCounted DEF K!TrySendResult, EnqueueClosed
  <2>3. causes = 0 /\ causes' \in {0, 1} /\ worker \notin {"starting", "connecting", "init_failed", "panic_claim", "panic_count"}
    BY <1>2, <2>2, JobsAreCounted DEF ForwarderInv, ForwarderPlaces, CausesAreOne
  <2>4. ForwarderTypes'
    BY <1>2, <2>2, <2>3 DEF ForwarderInv, ForwarderTypes, K!ShipStates
  <2>5. ForwarderPlaces'
    BY <1>2, <2>2, <2>3 DEF ForwarderInv, ForwarderPlaces, Polling
  <2>6. CausesAreOne'
    BY <1>2, <2>2, <2>3 DEF ForwarderInv, CausesAreOne
  <2>7. Backlog'
    BY <1>1, <1>2, <1>3, <2>2, JobsAreCounted
       DEF ForwarderInv, Backlog, K!CompletedDrainIsComplete
  <2> QED
    BY <1>5, <2>4, <2>5, <2>6, <2>7 DEF ForwarderInv
<1>9. K!TrySendResult \in {"Sent", "Full", "Closed"}
  BY DEF K!TrySendResult
<1> QED
  BY <1>1, <1>6, <1>7, <1>8, <1>9 DEF Enqueue

\* The worker connects, or does not.
LEMMA WorkerStarts ==
  ASSUME IInv, ForwarderInv,
         \/ K!BuildOk \/ K!BuildFails \/ K!Connected \/ K!ConnectFails
         \/ K!ShutdownWhileConnecting \/ K!InitFailedClaims
         \/ K!WorkerPanics \/ K!WorkerUnwinds
  PROVE  ForwarderInv'
<1>1. \/ (K!BuildFails \/ K!ConnectFails) /\ CountError
      \/ (K!ShutdownWhileConnecting \/ K!InitFailedClaims) /\ ClaimLoss
      \/ /\ K!BuildOk \/ K!Connected \/ K!WorkerPanics \/ K!WorkerUnwinds
         /\ UNCHANGED K!queueVars
  BY JobsAreCounted, ForwarderOps
     DEF K!BuildOk, K!BuildFails, K!Connected, K!ConnectFails, K!ShutdownWhileConnecting,
         K!InitFailedClaims, K!WorkerPanics, K!WorkerUnwinds
<1>2. Claimable = outstanding
  BY ClaimableIsOutstanding
<1> USE <1>1 DEF K!BuildOk, K!BuildFails, K!Connected, K!ConnectFails,
            K!ShutdownWhileConnecting, K!InitFailedClaims, K!WorkerPanics, K!WorkerUnwinds,
            K!OnWorkerThread, K!queueVars, K!taskVars, CountError, ClaimLoss, flags
<1>3. ForwarderTypes'
  <2>1. jobs' \in 0..KafkaCapacity
    BY JobsAreCounted
  <2>2. sender' \in BOOLEAN /\ receiver' \in BOOLEAN /\ signalled' \in BOOLEAN
    BY DEF ForwarderInv, ForwarderTypes
  <2>3. kship' \in K!ShipStates /\ worker' \in K!WorkerStates
    BY DEF ForwarderInv, ForwarderTypes, K!WorkerStates
  <2>4. forwarder' \in K!ForwarderStates /\ settling' \in {"nobody", "task", "reaper"}
    BY DEF ForwarderInv, ForwarderTypes, K!ForwarderStates
  <2>5. running' \in Nat /\ finished' \in Nat /\ crashed' \in Nat /\ causes' \in Nat
    BY JobsAreCounted
  <2> QED
    BY <2>1, <2>2, <2>3, <2>4, <2>5 DEF ForwarderTypes
<1>4. ForwarderPlaces'
  BY DEF ForwarderInv, ForwarderPlaces, Polling
<1>5. CausesAreOne'
  BY JobsAreCounted DEF ForwarderInv, ForwarderPlaces, CausesAreOne
<1>6. JoinSetFits'
  BY DEF ForwarderInv, ForwarderPlaces, JoinSetFits, K!Inflight, Reaping
<1>7. Backlog'
  BY <1>2, JobsAreCounted
     DEF ForwarderInv, ForwarderPlaces, Backlog, K!Unsettled, K!Holding, K!CompletedDrainIsComplete, K!Inflight
<1> QED
  BY <1>3, <1>4, <1>5, <1>6, <1>7 DEF ForwarderInv

\* The worker drains, and gives up what it does not get done in time.
LEMMA WorkerDrains ==
  ASSUME IInv, ForwarderInv,
         \/ K!StartDrain \/ K!DrainCompletes \/ K!DrainPanicked \/ K!DrainTimesOut
         \/ K!PanicClaims \/ K!PanicCounts \/ K!Aborted \/ K!WorkerExits
  PROVE  ForwarderInv'
<1>1. \/ K!DrainPanicked /\ MarkFailed
      \/ (K!DrainTimesOut \/ K!PanicClaims) /\ ClaimLoss
      \/ K!PanicCounts /\ CountError
      \/ /\ K!StartDrain \/ K!DrainCompletes \/ K!Aborted \/ K!WorkerExits
         /\ UNCHANGED K!queueVars
  BY JobsAreCounted, ForwarderOps
     DEF K!StartDrain, K!DrainCompletes, K!DrainPanicked, K!DrainTimesOut,
         K!PanicClaims, K!PanicCounts, K!Aborted, K!WorkerExits
<1>2. Claimable = outstanding
  BY ClaimableIsOutstanding
<1> USE <1>1 DEF K!StartDrain, K!DrainCompletes, K!DrainPanicked, K!DrainTimesOut,
            K!PanicClaims, K!PanicCounts, K!Aborted, K!WorkerExits,
            K!OnWorkerThread, K!queueVars, K!taskVars, MarkFailed, CountError, ClaimLoss,
            flags, counters
<1>3. ForwarderTypes'
  <2>1. jobs' \in 0..KafkaCapacity
    BY JobsAreCounted
  <2>2. sender' \in BOOLEAN /\ receiver' \in BOOLEAN /\ signalled' \in BOOLEAN
    BY DEF ForwarderInv, ForwarderTypes
  <2>3. kship' \in K!ShipStates /\ worker' \in K!WorkerStates
    BY DEF ForwarderInv, ForwarderTypes, K!WorkerStates
  <2>4. forwarder' \in K!ForwarderStates /\ settling' \in {"nobody", "task", "reaper"}
    BY DEF ForwarderInv, ForwarderTypes, K!ForwarderStates
  <2>5. running' \in Nat /\ finished' \in Nat /\ crashed' \in Nat /\ causes' \in Nat
    BY JobsAreCounted
  <2> QED
    BY <2>1, <2>2, <2>3, <2>4, <2>5 DEF ForwarderTypes
<1>4. ForwarderPlaces'
  BY DEF ForwarderInv, ForwarderPlaces, Polling
<1>5. CausesAreOne'
  BY JobsAreCounted DEF ForwarderInv, ForwarderPlaces, CausesAreOne
<1>6. JoinSetFits'
  BY JobsAreCounted DEF ForwarderInv, ForwarderPlaces, JoinSetFits, K!Inflight, Reaping
<1>7. Backlog'
  BY <1>2, JobsAreCounted
     DEF ForwarderInv, ForwarderPlaces, Backlog, K!Unsettled, K!Holding, K!CompletedDrainIsComplete, K!Inflight, Polling
<1> QED
  BY <1>3, <1>4, <1>5, <1>6, <1>7 DEF ForwarderInv

\* Jobs move from the channel to the hand, to the join set, and out of it.
LEMMA JobsMove ==
  ASSUME IInv, ForwarderInv,
         \/ K!Receive \/ K!Reap \/ K!WaitForRoom \/ K!Spawn
         \/ K!ReceiveClosed \/ K!ForwarderEnds \/ K!ForwarderPanics \/ K!ProducePanics
  PROVE  ForwarderInv'
<1>1. /\ UNCHANGED K!queueVars
      /\ Polling /\ settling = "nobody"
      /\ UNCHANGED <<worker, kship, settling, sender, signalled, causes>>
  BY DEF K!Receive, K!Reap, K!WaitForRoom, K!Spawn, K!ReceiveClosed, K!ForwarderEnds,
         K!ForwarderPanics, K!ProducePanics, K!Polled, K!OnWorkerThread, Polling
<1> USE DEF K!Receive, K!Reap, K!WaitForRoom, K!Spawn, K!ReceiveClosed, K!ForwarderEnds,
            K!ForwarderPanics, K!ProducePanics, K!queueVars, K!taskVars
<1>2. ForwarderTypes'
  <2>1. jobs' \in 0..KafkaCapacity
    BY <1>1, JobsAreCounted
  <2>2. sender' \in BOOLEAN /\ receiver' \in BOOLEAN /\ signalled' \in BOOLEAN
    BY <1>1 DEF ForwarderInv, ForwarderTypes
  <2>3. kship' \in K!ShipStates /\ worker' \in K!WorkerStates
    BY <1>1 DEF ForwarderInv, ForwarderTypes, K!WorkerStates
  <2>4. forwarder' \in K!ForwarderStates /\ settling' \in {"nobody", "task", "reaper"}
    BY <1>1 DEF ForwarderInv, ForwarderTypes, K!ForwarderStates
  <2>5. running' \in Nat /\ finished' \in Nat /\ crashed' \in Nat /\ causes' \in Nat
    BY <1>1, JobsAreCounted
  <2> QED
    BY <2>1, <2>2, <2>3, <2>4, <2>5 DEF ForwarderTypes
<1>3. ForwarderPlaces'
  BY <1>1 DEF ForwarderInv, ForwarderPlaces, Polling
<1>4. CausesAreOne'
  BY <1>1 DEF ForwarderInv, CausesAreOne, Polling
<1>5. JoinSetFits'
  BY <1>1, JobsAreCounted DEF ForwarderInv, JoinSetFits, K!Inflight, Reaping
<1>6. Backlog'
  BY <1>1, JobsAreCounted
     DEF ForwarderInv, ForwarderPlaces, Backlog, K!Unsettled, K!Holding, K!CompletedDrainIsComplete, K!Inflight, Polling
<1> QED
  BY <1>2, <1>3, <1>4, <1>5, <1>6 DEF ForwarderInv

\* A job is settled, at once or after its error was counted.
LEMMA JobsSettle ==
  ASSUME IInv, ForwarderInv,
         \/ K!ReapCrashed \/ K!ProduceFails
         \/ K!SettleCrashed \/ K!SettleRefused \/ K!ProduceOk
  PROVE  ForwarderInv'
<1>1. /\ Polling /\ UNCHANGED <<kship, worker, jobs, sender, receiver, signalled, causes>>
      /\ UNCHANGED <<failed, loss_claimed, offered>>
  <2>1. CountError \/ Finish(1, TRUE) \/ Finish(1, FALSE)
    BY JobsAreCounted, ForwarderOps
       DEF K!ReapCrashed, K!ProduceFails, K!SettleCrashed, K!SettleRefused, K!ProduceOk
  <2>2. UNCHANGED <<failed, loss_claimed, offered>>
    BY <2>1 DEF CountError, Finish, flags
  <2> QED
    BY <2>2 DEF K!ReapCrashed, K!ProduceFails, K!SettleCrashed, K!SettleRefused, K!ProduceOk,
         K!Polled, K!OnWorkerThread, K!chanVars, Polling, ForwarderInv, ForwarderPlaces
<1>2. \/ /\ settling = "nobody" /\ settling' = "reaper" /\ outstanding' = outstanding
         /\ forwarder \in {"holding", "full", "joining"}
         /\ forwarder' = IF forwarder = "full" THEN "room" ELSE forwarder
         /\ crashed > 0 /\ crashed' = crashed - 1 /\ running' = running /\ finished' = finished
      \/ /\ settling = "nobody" /\ settling' = "task" /\ outstanding' = outstanding
         /\ running > 0 /\ UNCHANGED <<forwarder, running, finished, crashed>>
      \/ /\ settling = "reaper" /\ settling' = "nobody"
         /\ UNCHANGED <<forwarder, running, finished, crashed>>
         /\ loss_claimed => outstanding' = outstanding
         /\ ~loss_claimed => outstanding' = outstanding - 1 /\ outstanding >= 1
      \/ /\ settling \in {"nobody", "task"} /\ settling' = "nobody" /\ running > 0
         /\ running' = running - 1 /\ finished' = finished + 1
         /\ crashed' = crashed /\ forwarder' = forwarder
         /\ loss_claimed => outstanding' = outstanding
         /\ ~loss_claimed => outstanding' = outstanding - 1 /\ outstanding >= 1
  <2>1. CASE K!ReapCrashed
    BY <2>1, JobsAreCounted, ForwarderOps DEF K!ReapCrashed, CountError
  <2>2. CASE K!ProduceFails
    BY <2>2, JobsAreCounted, ForwarderOps DEF K!ProduceFails, K!taskVars, CountError
  <2>3. CASE K!SettleCrashed
    BY <2>3, JobsAreCounted, ForwarderOps DEF K!SettleCrashed, K!taskVars, Finish
  <2>4. CASE K!SettleRefused
    BY <2>4, JobsAreCounted, ForwarderOps
       DEF K!SettleRefused, Finish, ForwarderInv, ForwarderPlaces
  <2>5. CASE K!ProduceOk
    BY <2>5, JobsAreCounted, ForwarderOps DEF K!ProduceOk, K!Polled, K!OnWorkerThread, Finish
  <2> QED
    BY <2>1, <2>2, <2>3, <2>4, <2>5
<1>3. ForwarderTypes'
  <2>1. jobs' \in 0..KafkaCapacity
    BY <1>1, <1>2, JobsAreCounted
  <2>2. sender' \in BOOLEAN /\ receiver' \in BOOLEAN /\ signalled' \in BOOLEAN
    BY <1>1, <1>2 DEF ForwarderInv, ForwarderTypes
  <2>3. kship' \in K!ShipStates /\ worker' \in K!WorkerStates
    BY <1>1, <1>2 DEF ForwarderInv, ForwarderTypes, K!WorkerStates
  <2>4. forwarder' \in K!ForwarderStates /\ settling' \in {"nobody", "task", "reaper"}
    BY <1>1, <1>2 DEF ForwarderInv, ForwarderTypes, K!ForwarderStates
  <2>5. running' \in Nat /\ finished' \in Nat /\ crashed' \in Nat /\ causes' \in Nat
    BY <1>1, <1>2, JobsAreCounted DEF ForwarderInv, ForwarderPlaces
  <2> QED
    BY <2>1, <2>2, <2>3, <2>4, <2>5 DEF ForwarderTypes
<1>4. ForwarderPlaces'
  BY <1>1, <1>2, JobsAreCounted DEF ForwarderInv, ForwarderPlaces, Polling
<1>5. CausesAreOne'
  BY <1>1 DEF ForwarderInv, CausesAreOne, Polling
<1>6. JoinSetFits'
  <2>1. /\ running + finished + crashed + Reaping <= MaxInflight
        /\ Reaping = IF settling = "reaper" THEN 1 ELSE 0
        /\ forwarder = "room" => running + finished + crashed < MaxInflight
    BY DEF ForwarderInv, JoinSetFits, K!Inflight, Reaping
  <2>2. running \in Nat /\ finished \in Nat /\ crashed \in Nat /\ MaxInflight \in Nat
    BY JobsAreCounted
  <2> QED
    BY <1>2, <2>1, <2>2 DEF JoinSetFits, K!Inflight, Reaping
<1>7. Backlog'
  <2>0. /\ outstanding \in Nat /\ jobs \in Nat /\ running \in Nat /\ finished \in Nat /\ crashed \in Nat
        /\ KafkaCapacity \in Nat /\ MaxInflight \in Nat
    BY JobsAreCounted
  <2>1. receiver /\ ~loss_claimed => outstanding' = K!Unsettled'
    <3>1. receiver /\ ~loss_claimed => outstanding = K!Unsettled
      BY DEF ForwarderInv, Backlog
    <3>2. jobs' = jobs
      BY <1>1
    <3> QED
      BY <1>2, <2>0, <3>1, <3>2 DEF K!Unsettled, K!Holding
  <2>2. outstanding' <= outstanding /\ (outstanding = 0 => outstanding' = 0)
    BY <1>2, <2>0
  <2>3. (K!CompletedDrainIsComplete)'
    <3>1. K!CompletedDrainIsComplete
      BY DEF ForwarderInv, Backlog
    <3>2. forwarder' = "done" => forwarder = "done"
      BY <1>2
    <3>3. forwarder = "done" /\ ~loss_claimed =>
            running = 0 /\ finished = 0 /\ crashed = 0 /\ outstanding = 0 /\ jobs = 0
      BY <2>0, <3>1 DEF K!CompletedDrainIsComplete, K!Inflight
    <3> QED
      BY <1>1, <1>2, <2>0, <3>2, <3>3 DEF K!CompletedDrainIsComplete, K!Inflight
  <2>4. outstanding' \in Nat
    BY <1>2, <2>0
  <2> QED
    BY <1>1, <2>0, <2>1, <2>2, <2>3, <2>4 DEF ForwarderInv, Backlog
<1> QED
  BY <1>3, <1>4, <1>5, <1>6, <1>7 DEF ForwarderInv

\* Every step of the forwarder keeps its invariant.
LEMMA ForwarderKeeps == IInv /\ ForwarderInv /\ K!Next => ForwarderInv'
  BY ShipMoves, DropFails, EnqueueKeeps, WorkerStarts, WorkerDrains, JobsMove, JobsSettle
     DEF K!Next, K!ShipNext, K!DropNext, K!WorkerTimed, K!ForwarderNext, K!Settle, K!ProduceAnswers

\* The invariant is what the forwarder's properties say, and more.
LEMMA ForwarderIsSound ==
  IInv /\ ForwarderInv => K!BacklogIsSound /\ K!CloseIsSound
<1> SUFFICES ASSUME IInv, ForwarderInv PROVE K!BacklogIsSound /\ K!CloseIsSound
  OBVIOUS
<1>1. K!TypeOK
  <2>1. K!Queue!TypeOK
    BY DEF IInv, Books, FlagsOK, CountsOK, K!Queue!TypeOK, K!Queue!FlagsOK, K!Queue!CountsOK
  <2> QED
    BY <2>1 DEF K!TypeOK, ForwarderInv, ForwarderTypes
<1>2. K!OutstandingIsReachable
  BY DEF K!OutstandingIsReachable, ForwarderInv, Backlog
<1>3. K!BacklogIsBounded
  BY JobsAreCounted DEF K!BacklogIsBounded, ForwarderInv, JoinSetFits, Backlog, K!Inflight, Reaping
<1>4. K!ClosedOnce
  BY DEF K!ClosedOnce, ForwarderInv, CausesAreOne, Backlog, IInv, Books, QueuedIsOutstanding
<1>5. K!CompletedDrainIsComplete
  BY DEF ForwarderInv, Backlog
<1> QED
  BY <1>1, <1>2, <1>3, <1>4, <1>5 DEF K!BacklogIsSound, K!CloseIsSound

-----------------------------------------------------------------------------
(* The clients together.                                                   *)

\* The inductive invariant of all the clients: the books of the accounting,
\* and the invariant of the one that calls it.
ClientsInv ==
    /\ client \in {"any", "jsonl", "kafka"}
    /\ IInv
    /\ client = "jsonl" => RecorderInv
    /\ client = "kafka" => ForwarderInv

\* Each of the clients starts with empty books.
LEMMA ClientsInit == MCInit => ClientsInv
  BY InitIInv, RecorderInit, ForwarderInit DEF MCInit, ClientsInv

\* A step of a client is a step of the accounting.
LEMMA ClientsStep == ClientsInv /\ [MCNext]_mcVars => [Next]_vars
<1> SUFFICES ASSUME ClientsInv, [MCNext]_mcVars PROVE [Next]_vars
  OBVIOUS
<1>1. CASE Any
  BY <1>1 DEF Any
<1>2. CASE Jsonl
  BY <1>2, RecorderSteps DEF Jsonl, ClientsInv, RecorderInv
<1>3. CASE Kafka
  BY <1>3, ForwarderSteps DEF Kafka, ClientsInv
<1>4. CASE UNCHANGED mcVars
  BY <1>4 DEF mcVars
<1> QED
  BY <1>1, <1>2, <1>3, <1>4 DEF MCNext

\* And it keeps the invariant.
LEMMA ClientsKeep == ClientsInv /\ [MCNext]_mcVars => ClientsInv'
<1> SUFFICES ASSUME ClientsInv, [MCNext]_mcVars PROVE ClientsInv'
  OBVIOUS
<1>1. IInv'
  BY ClientsStep, NextIInv DEF ClientsInv
<1>2. client' = client
  BY DEF MCNext, mcVars
<1>3. CASE Any
  BY <1>1, <1>2, <1>3 DEF Any, ClientsInv
<1>4. CASE Jsonl
  BY <1>1, <1>2, <1>4, RecorderKeeps DEF Jsonl, ClientsInv
<1>5. CASE Kafka
  BY <1>1, <1>2, <1>5, ForwarderKeeps DEF Kafka, ClientsInv
<1>6. CASE UNCHANGED mcVars
  <2>1. UNCHANGED <<vars, jsonlVars, kafkaVars>>
    BY <1>6 DEF mcVars
  <2>2. CASE client = "jsonl"
    <3>1. RecorderInv'
      BY <2>1, <2>2 DEF vars, flags, counters, jsonlVars, ClientsInv, RecorderInv, RecorderTypes,
           RecorderPlaces, RecorderMarks, RecorderFile, RecorderBooks, AtWork, HasSignalled
    <3> QED
      BY <1>1, <1>2, <2>2, <3>1 DEF ClientsInv
  <2>3. CASE client = "kafka"
    <3>1. ForwarderInv'
      BY <2>1, <2>3 DEF vars, flags, counters, kafkaVars, ClientsInv, ForwarderInv, ForwarderTypes,
           ForwarderPlaces, CausesAreOne, JoinSetFits, Backlog, Polling, Reaping,
           K!Inflight, K!Unsettled, K!Holding, K!CompletedDrainIsComplete
    <3> QED
      BY <1>1, <1>2, <2>3, <3>1 DEF ClientsInv
  <2> QED
    BY <1>1, <1>2, <2>2, <2>3 DEF ClientsInv
<1> QED
  BY <1>3, <1>4, <1>5, <1>6 DEF MCNext

\* The invariant holds in every reachable state of every client.
THEOREM ClientsInvHolds == MCSpec => []ClientsInv
  BY ClientsInit, ClientsKeep, PTL DEF MCSpec

\* Both sinks implement the accounting: every step of any of their threads is
\* one operation of queue.rs within its contract, or none.
THEOREM ImplementsAccountingHolds == MCSpec => ImplementsAccounting
<1>1. MCInit => Init
  BY DEF MCInit
<1>2. ClientsInv /\ [MCNext]_mcVars => [Next]_vars
  BY ClientsStep
<1> QED
  BY <1>1, <1>2, ClientsInvHolds, PTL DEF MCSpec, ImplementsAccounting, Spec

\* The recording is what was accepted, in order and no less than was
\* acknowledged; the forwarder's backlog is what is counted as outstanding;
\* and a sink that was dropped has settled its counters.
THEOREM SinkIsSoundHolds == MCSpec => []SinkIsSound
<1>1. ClientsInv => SinkIsSound
  BY RecorderIsSound, ForwarderIsSound DEF ClientsInv, SinkIsSound
<1> QED
  BY <1>1, ClientsInvHolds, PTL

\* The counters are exact whichever client calls the accounting.
THEOREM ClientsCountExactly == MCSpec => []CountersExact
<1>1. ClientsInv => CountersExact
  BY DEF ClientsInv, IInv, Books, CountersExact
<1> QED
  BY <1>1, ClientsInvHolds, PTL

\* No client moves an envelope once the loss was claimed.
THEOREM ClientsClaimFinally == MCSpec => ClaimIsFinal
  BY ImplementsAccountingHolds, ClaimIsFinalHolds DEF ImplementsAccounting
=============================================================================
