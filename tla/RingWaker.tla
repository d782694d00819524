------------------------------ MODULE RingWaker ------------------------------
(***************************************************************************)
(* How the shipping thread T2 sleeps and how the capture thread T1 and the *)
(* marker senders wake it (RingWaker in raw_input.rs, the parks in         *)
(* shipping.rs).  T2 sleeps out an open window with the waker disarmed;    *)
(* with nothing in flight it arms the waker, looks at the ring once more   *)
(* and parks, for one window at first and for IDLE_PARK once such a park   *)
(* ran out.  T1 pays one relaxed load per event, which the processor may   *)
(* perform before the push in front of it is visible: with StoreBuffers a  *)
(* push waits in T1's store buffer, as x86 lets it.                        *)
(*                                                                         *)
(* Time is abstract: a park may run out whenever it lasts.                 *)
(***************************************************************************)
EXTENDS Integers, TLAPS

CONSTANTS
    StoreBuffers,         \* is T1's push visible only later?
    MaxEvents,            \* bound on the events T1 pushes
    MaxMail               \* bound on the markers (and the stop) handed over

ASSUME ParametersAssumption ==
    StoreBuffers \in BOOLEAN /\ MaxEvents \in Nat /\ MaxMail \in Nat

VARIABLES
    t1,                   \* "idle", or "wake": it pushed and has not looked yet
    pushed,               \* events pushed so far
    buffered,             \* of them, the pushes in T1's store buffer
    ring,                 \* events visible in the ring
    sender,               \* a marker sender: "idle", or "wake"
    mail,                 \* markers T2 has not received
    sent,                 \* markers handed over so far
    parked,               \* RingWaker.parked
    token,                \* T2's park token: set by unpark
    t2,                   \* where T2 is in its loop
    park,                 \* the park it chose: "window" or "idle"
    probe_expired,        \* idle_probe_expired
    window,               \* "closed", "open" or "elapsed"
    pending,              \* does the batcher hold events?
    overtaken             \* history: a wake looked ahead of its own push, which
                          \* T2 has not drained

t1Vars == <<t1, pushed, buffered>>
senderVars == <<sender, sent>>
batchVars == <<window, pending>>
vars == <<t1Vars, ring, senderVars, mail, parked, token, t2, park, probe_expired, batchVars,
          overtaken>>

TypeOK ==
    /\ t1 \in {"idle", "wake"} /\ sender \in {"idle", "wake"}
    /\ pushed \in 0..MaxEvents /\ buffered \in 0..MaxEvents /\ ring \in 0..MaxEvents
    /\ mail \in 0..MaxMail /\ sent \in 0..MaxMail
    /\ parked \in BOOLEAN /\ token \in BOOLEAN /\ probe_expired \in BOOLEAN /\ pending \in BOOLEAN
    /\ overtaken \in BOOLEAN
    /\ t2 \in {"pass", "sleep", "arm", "recheck", "parked", "disarm"}
    /\ park \in {"window", "idle"}
    /\ window \in {"closed", "open", "elapsed"}

Init ==
    /\ t1 = "idle" /\ pushed = 0 /\ buffered = 0 /\ ring = 0
    /\ sender = "idle" /\ mail = 0 /\ sent = 0
    /\ parked = FALSE /\ token = FALSE
    /\ t2 = "pass" /\ park = "window" /\ probe_expired = FALSE
    /\ window = "closed" /\ pending = FALSE /\ overtaken = FALSE

-----------------------------------------------------------------------------
(* T1 and the marker senders *)

\* process_mouse: the event is pushed ...
Push ==
    /\ t1 = "idle" /\ pushed < MaxEvents
    /\ pushed' = pushed + 1
    /\ IF StoreBuffers THEN buffered' = buffered + 1 /\ UNCHANGED ring
                       ELSE ring' = ring + 1 /\ UNCHANGED buffered
    /\ t1' = "wake"
    /\ UNCHANGED <<senderVars, mail, parked, token, t2, park, probe_expired, batchVars,
                   overtaken>>

\* ... and becomes visible to T2.
Drain ==
    /\ buffered > 0
    /\ buffered' = buffered - 1
    /\ ring' = ring + 1
    /\ UNCHANGED <<t1, pushed, senderVars, mail, parked, token, t2, park, probe_expired, batchVars,
                   overtaken>>

\* RingWaker::wake by T1: unpark, a fenced operation, only when parked is seen.
WakeByT1 ==
    /\ t1 = "wake"
    /\ t1' = "idle"
    /\ IF parked
       THEN token' = TRUE /\ ring' = ring + buffered /\ buffered' = 0
       ELSE UNCHANGED <<token, ring, buffered>>
    /\ overtaken' = (overtaken \/ (~parked /\ buffered > 0))
    /\ UNCHANGED <<pushed, senderVars, mail, parked, t2, park, probe_expired, batchVars>>

\* Faulty variant: the marker is sent again for good measure.
HandOverTwice ==
    /\ sender = "idle" /\ sent < MaxMail
    /\ sent' = sent + 1 /\ mail' = mail + 2
    /\ sender' = "wake"
    /\ UNCHANGED <<t1Vars, ring, parked, token, t2, park, probe_expired, batchVars,
                   overtaken>>

\* A marker is handed over the channel (a fenced operation), then its sender
\* wakes T2.  teardown stores capture_stopped and wakes T2 the same way.
HandOver ==
    /\ sender = "idle" /\ sent < MaxMail
    /\ sent' = sent + 1 /\ mail' = mail + 1
    /\ sender' = "wake"
    /\ UNCHANGED <<t1Vars, ring, parked, token, t2, park, probe_expired, batchVars,
                   overtaken>>

WakeBySender ==
    /\ sender = "wake"
    /\ sender' = "idle"
    /\ token' = (token \/ parked)
    /\ UNCHANGED <<t1Vars, ring, sent, mail, parked, t2, park, probe_expired, batchVars,
                   overtaken>>

-----------------------------------------------------------------------------
(* T2 *)

producerVars == <<t1Vars, senderVars>>

\* Time passes: an open window reaches its deadline.
WindowElapses ==
    /\ window = "open"
    /\ window' = "elapsed"
    /\ UNCHANGED <<producerVars, ring, mail, parked, token, t2, park, probe_expired, pending,
                   overtaken>>

\* Faulty variant: what was drained alone keeps the window running.
PassDrainedOnly ==
    /\ t2 = "pass"
    /\ ring' = 0 /\ mail' = 0
    /\ pending' = (window # "elapsed" /\ (pending \/ ring > 0))
    /\ window' = IF ring > 0 THEN "open" ELSE "closed"
    /\ IF window' = "open" THEN t2' = "sleep" /\ probe_expired' = FALSE
                           ELSE t2' = "arm" /\ UNCHANGED probe_expired
    /\ overtaken' = (overtaken /\ buffered > 0)
    /\ UNCHANGED <<producerVars, parked, token, park>>

\* Faulty variant: the channel is read only when there were events.
PassMailWithEvents ==
    /\ t2 = "pass"
    /\ ring' = 0 /\ mail' = (IF ring > 0 THEN 0 ELSE mail)
    /\ pending' = (window # "elapsed" /\ (pending \/ ring > 0))
    /\ LET live == ring > 0 \/ pending
       IN window' = IF live THEN "open" ELSE IF window = "elapsed" THEN "closed" ELSE window
    /\ IF window' = "open" THEN t2' = "sleep" /\ probe_expired' = FALSE
                           ELSE t2' = "arm" /\ UNCHANGED probe_expired
    /\ overtaken' = (overtaken /\ buffered > 0)
    /\ UNCHANGED <<producerVars, parked, token, park>>

\* One pass of the loop: drain the ring and the channel, flush what an elapsed
\* window holds, and advance the window.
Pass ==
    /\ t2 = "pass"
    /\ ring' = 0 /\ mail' = 0
    /\ pending' = (window # "elapsed" /\ (pending \/ ring > 0))
    /\ LET live == ring > 0 \/ pending
       IN window' = IF live THEN "open" ELSE IF window = "elapsed" THEN "closed" ELSE window
    /\ IF window' = "open" THEN t2' = "sleep" /\ probe_expired' = FALSE
                           ELSE t2' = "arm" /\ UNCHANGED probe_expired
    /\ overtaken' = (overtaken /\ buffered > 0)
    /\ UNCHANGED <<producerVars, parked, token, park>>

\* park_hint: sleep until the window's deadline, the waker disarmed.  A token
\* left over from an earlier wake, or nothing at all, ends the sleep early.
SleepWindow ==
    /\ t2 = "sleep"
    /\ token' = FALSE
    /\ t2' = "pass"
    /\ UNCHANGED <<producerVars, ring, mail, parked, park, probe_expired, batchVars,
                   overtaken>>

\* begin_park: a sequentially consistent store.
BeginPark ==
    /\ t2 = "arm"
    /\ parked' = TRUE
    /\ t2' = "recheck"
    /\ UNCHANGED <<producerVars, ring, mail, token, park, probe_expired, batchVars,
                   overtaken>>

\* next_park_timeout: one window first, IDLE_PARK after a park that ran out.
NextParkTimeout == IF probe_expired THEN "idle" ELSE "window"

\* Faulty variant: no second look.
RecheckSkipped ==
    /\ t2 = "recheck"
    /\ t2' = "parked" /\ park' = NextParkTimeout
    /\ UNCHANGED <<producerVars, ring, mail, parked, token, probe_expired, batchVars,
                   overtaken>>

\* consumer.is_empty again, then park or go on.
Recheck ==
    /\ t2 = "recheck"
    /\ IF ring = 0
       THEN t2' = "parked" /\ park' = NextParkTimeout /\ UNCHANGED probe_expired
       ELSE t2' = "disarm" /\ probe_expired' = FALSE /\ UNCHANGED park
    /\ UNCHANGED <<producerVars, ring, mail, parked, token, batchVars, overtaken>>

\* The park ends early: unparked, or for no reason at all.
Unparked ==
    /\ t2 = "parked"
    /\ token' = FALSE
    /\ probe_expired' = FALSE
    /\ t2' = "disarm"
    /\ UNCHANGED <<producerVars, ring, mail, parked, park, batchVars, overtaken>>

\* The park runs its time, much longer than a store stays buffered: the
\* descent goes on if the ring is still empty.
ParkRunsOut ==
    /\ t2 = "parked" /\ ~token /\ buffered = 0
    /\ probe_expired' = (ring = 0)
    /\ t2' = "disarm"
    /\ UNCHANGED <<producerVars, ring, mail, parked, token, park, batchVars, overtaken>>

EndPark ==
    /\ t2 = "disarm"
    /\ parked' = FALSE
    /\ t2' = "pass"
    /\ UNCHANGED <<producerVars, ring, mail, token, park, probe_expired, batchVars,
                   overtaken>>

T2Next == Pass \/ SleepWindow \/ BeginPark \/ Recheck \/ EndPark

ParkEnds == Unparked \/ ParkRunsOut

Next ==
    \/ Push \/ Drain \/ WakeByT1 \/ HandOver \/ WakeBySender
    \/ WindowElapses \/ T2Next \/ ParkEnds

(***************************************************************************)
(* T2's code runs, time passes (parks and windows end), store buffers      *)
(* drain, and a handler that pushed or handed over goes on to its wake.    *)
(***************************************************************************)
Spec ==
    /\ Init /\ [][Next]_vars
    /\ WF_vars(T2Next) /\ WF_vars(ParkEnds) /\ WF_vars(WindowElapses)
    /\ WF_vars(Drain) /\ WF_vars(WakeByT1) /\ WF_vars(WakeBySender)

-----------------------------------------------------------------------------
(* Properties *)

\* SAFETY: a wake is only lost to the store buffer.  T2 is in a park, short or
\* long, on a visible event that nobody will wake it for only if the wake of
\* an event behind T2's last drain looked ahead of its own push.
NoOtherWakeIsLost ==
    (t2 = "parked" /\ ring > 0) => (token \/ t1 = "wake" \/ overtaken)

\* Whatever wakes are lost, every event leaves the ring and every batch and
\* marker T2's hands.
EventsAreShipped == (ring + buffered > 0 \/ pending) ~> (ring = 0 /\ ~pending)
MailIsReceived == mail > 0 ~> mail = 0

\* LIVENESS: the park's time-out makes up for every wake that is lost.
EverythingArrives == EventsAreShipped /\ MailIsReceived

-----------------------------------------------------------------------------
(* The proof: a wake is lost to the store buffer and to nothing else,      *)
(* whatever the number of events and markers.                              *)

\* The waker is armed from begin_park to end_park, so a wake that looks after
\* the second look at the ring unparks T2.
Armed == t2 \in {"recheck", "parked", "disarm"} => parked

\* A push in the store buffer has its wake before it, or was overtaken by it.
BufferedIsAwaited == buffered > 0 => (t1 = "wake" \/ overtaken)

\* What a park can rely on.
IInv ==
    /\ t1 \in {"idle", "wake"}
    /\ buffered \in Nat /\ ring \in Nat
    /\ parked \in BOOLEAN /\ token \in BOOLEAN /\ overtaken \in BOOLEAN
    /\ Armed
    /\ BufferedIsAwaited
    /\ NoOtherWakeIsLost

LEMMA InitIInv == Init => IInv
<1> SUFFICES ASSUME Init PROVE IInv
  OBVIOUS
<1>1. t1 = "idle" /\ t2 = "pass" /\ buffered = 0 /\ ring = 0
  BY DEF Init
<1>2. parked \in BOOLEAN /\ token \in BOOLEAN /\ overtaken \in BOOLEAN
  BY Zenon DEF Init
<1> QED
  BY <1>1, <1>2 DEF IInv, Armed, BufferedIsAwaited, NoOtherWakeIsLost

LEMMA NextIInv ==
  ASSUME IInv, [Next]_vars
  PROVE  IInv'
<1> USE DEF IInv, Armed, BufferedIsAwaited, NoOtherWakeIsLost, t1Vars, senderVars,
            batchVars, producerVars
<1>1. CASE Push
  <2>1. t1' = "wake" /\ buffered' \in Nat /\ ring' \in Nat /\ t2' = t2
    BY <1>1 DEF Push
  <2>2. UNCHANGED <<parked, token, overtaken>>
    BY <1>1 DEF Push
  <2> QED
    BY <2>1, <2>2
<1>2. CASE Drain
  BY <1>2 DEF Drain
<1>3. CASE WakeByT1
  <2>1. t1' = "idle" /\ t2' = t2 /\ parked' = parked
    BY <1>3 DEF WakeByT1
  <2>2. buffered' \in Nat /\ ring' \in Nat
    BY <1>3 DEF WakeByT1
  <2>3. token' \in BOOLEAN /\ overtaken' \in BOOLEAN
    BY <1>3, Zenon DEF WakeByT1
  <2>4. parked => token'
    BY <1>3, Zenon DEF WakeByT1
  <2>5. buffered' > 0 => overtaken'
    <3>1. CASE parked
      BY <1>3, <3>1 DEF WakeByT1
    <3>2. CASE ~parked
      <4>1. buffered' = buffered
        BY <1>3, <3>2 DEF WakeByT1
      <4>2. overtaken' = (overtaken \/ (~parked /\ buffered > 0))
        BY <1>3, Zenon DEF WakeByT1
      <4> QED
        BY <3>2, <4>1, <4>2
    <3> QED
      BY <3>1, <3>2
  <2> QED
    BY <2>1, <2>2, <2>3, <2>4, <2>5
<1>4. CASE HandOver \/ WindowElapses
  BY <1>4 DEF HandOver, WindowElapses
<1>5. CASE WakeBySender
  <2>1. UNCHANGED <<t1, t2, buffered, ring, parked, overtaken>>
    BY <1>5 DEF WakeBySender
  <2>2. token' \in BOOLEAN /\ (token => token')
    BY <1>5, Zenon DEF WakeBySender
  <2> QED
    BY <2>1, <2>2
<1>6. CASE Pass
  <2>1. t2' # "parked" /\ t2' \notin {"recheck", "disarm"} /\ ring' = 0
    BY <1>6 DEF Pass
  <2>2. UNCHANGED <<t1, buffered, parked, token>>
    BY <1>6 DEF Pass
  <2>3. overtaken' = (overtaken /\ buffered > 0)
    BY <1>6, Zenon DEF Pass
  <2> QED
    BY <2>1, <2>2, <2>3
<1>7. CASE SleepWindow \/ BeginPark
  BY <1>7 DEF SleepWindow, BeginPark
<1>8. CASE Recheck
  BY <1>8 DEF Recheck
<1>9. CASE EndPark \/ ParkEnds
  BY <1>9 DEF EndPark, ParkEnds, Unparked, ParkRunsOut
<1>10. CASE UNCHANGED vars
  BY <1>10 DEF vars
<1> QED
  BY <1>1, <1>2, <1>3, <1>4, <1>5, <1>6, <1>7, <1>8, <1>9, <1>10 DEF Next, T2Next

\* A wake can only be lost to the store buffer: T2 never sits in a park on an
\* event that nobody will wake it for, unless that event's wake, or the wake of
\* one pushed since the last drain, looked ahead of its push.
THEOREM NoOtherWakeIsLostHolds == Spec => []NoOtherWakeIsLost
<1>1. IInv /\ [Next]_vars => IInv'
  BY NextIInv
<1>2. IInv => NoOtherWakeIsLost
  BY DEF IInv
<1> QED
  BY InitIInv, <1>1, <1>2, PTL DEF Spec
=============================================================================
