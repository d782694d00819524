---------------------------- MODULE ThreadsProofs ----------------------------
(***************************************************************************)
(* Proofs about T1's message loop (CaptureThread), the clock of T2's       *)
(* batches (BatchWindow) and its delivery (Shipper), T3 (ContextThread)    *)
(* and the server's statistics (FeedStats), whatever their intervals,      *)
(* budgets, windows and sinks are.                                         *)
(*                                                                         *)
(* T1 never waits for a report, but for a timer: what came meanwhile will  *)
(* have waited no longer than one cadence when the wait it is in ends, and *)
(* its stamp is put between the last drain and this one.                   *)
(*                                                                         *)
(* T3 looks at a desktop that changes under it.  What makes its picture    *)
(* true is that it is conservative about everything it has not looked at   *)
(* yet: a flag that is still up, a file that is newer than the time it     *)
(* took, events it has counted but not sampled, losses it has not told.    *)
(*                                                                         *)
(* T2 serves sinks that fail each on its own.  Its books are per sink; its *)
(* silence towards the viewer is measured from a moment that is never      *)
(* later than the last thing it sent; and while Kafka has yet to close,    *)
(* half of the budget is left.                                             *)
(***************************************************************************)
EXTENDS MCThreads, FiniteSets, FiniteSetTheorems, SequenceTheorems, WellFoundedInduction, Functions,
        TLAPS

allVars == <<machine, vars, capVars, ctxVars, shipVars, feedVars>>

\* What T3 counts are counts, and what it looked at is no newer than what is.
Counted ==
    /\ {ctx_now, events, last_events, delta, seen_rest, detector.run, file_mtime, config_mtime,
        losses, last, taken, last_at, warn_at, ctx_warned_at, recovered, ctx_told} \subseteq Nat
    /\ last_events <= events /\ config_mtime <= file_mtime
    /\ last <= taken /\ taken <= losses /\ last_at <= ctx_now

\* A run of frozen samples has seen an event each; what was counted but not yet
\* sampled is no part of it.
LockInv ==
    /\ detector.run + (IF ctx_pc = "sample" THEN delta ELSE 0) <= last_events - seen_rest
    /\ detector.locked => detector.run >= Confirm
    /\ ctx.locked => detector.locked
    /\ ctx.locked => ctx.cursor \in {Ctx!Nowhere, detector.last}

\* The configuration T3 holds, or has just loaded, is the file's, unless the
\* file has moved on.
Moved == config_mtime # file_mtime \/ edited_early
EditsInv ==
    /\ mail => ctx_pc \in {"wake_anchor", "wake_config"}
    /\ ctx_pc # "load" => \/ config.capture = file.capture \/ Moved \/ read_failed
                          \/ ctx_pc = "diff"
    /\ ctx_pc = "diff" => loaded.capture = file.capture \/ Moved
    /\ ctx_pc = "starting" => config = Ctx!Startup /\ (file = Ctx!Startup \/ edited_early)
    /\ config.capture # Ctx!Startup.capture => ctx_announced

\* The reports told what the window before this one had seen.
LossesInv == ctx_told = last

\* While an incident lasts the next warning is an interval after the last.
WarnInv ==
    /\ warn_at # 0 => warn_at = ctx_warned_at + Escalation
    /\ ctx_warned_at <= last_at

ContextInv ==
    Counted /\ Ctx!ScreenIsKnown /\ LockInv /\ EditsInv /\ LossesInv /\ WarnInv

\* Every step keeps the counts, and what was looked at no newer than what is.
LEMMA CountedKept ==
  ASSUME ContextInv, Ctx!Next
  PROVE  Counted'
<1> USE DEF ContextInv, Counted, LockInv, Ctx!Observe, Ctx!Lost, Ctx!WindowEnd, Ctx!MtimeTaken,
           Ctx!Nowhere, Ctx!TicksAssumption, Ctx!envVars, Ctx!sampleVars, Ctx!configVars,
           Ctx!reportVars
<1>1. CASE Ctx!Start
  BY <1>1, TicksFit DEF Ctx!Start
<1>2. CASE Ctx!TakeDisplayChanged
  BY <1>2, TicksFit DEF Ctx!TakeDisplayChanged
<1>3. CASE Ctx!ReadScreen
  BY <1>3, TicksFit DEF Ctx!ReadScreen
<1>4. CASE Ctx!Sample
  BY <1>4, TicksFit DEF Ctx!Sample
<1>5. CASE Ctx!CheckAnchor
  BY <1>5, TicksFit DEF Ctx!CheckAnchor
<1>6. CASE Ctx!Wake
  BY <1>6, TicksFit DEF Ctx!Wake
<1>7. CASE Ctx!StatConfig
  BY <1>7, TicksFit DEF Ctx!StatConfig
<1>8. CASE Ctx!LoadConfig
  BY <1>8, TicksFit DEF Ctx!LoadConfig
<1>9. CASE Ctx!ReloadConfig
  BY <1>9, TicksFit DEF Ctx!ReloadConfig
<1>10. CASE Ctx!TakeSnapshot
  BY <1>10, TicksFit DEF Ctx!TakeSnapshot
<1>11. CASE Ctx!Escalate
  BY <1>11, TicksFit DEF Ctx!Escalate
<1>12. CASE Ctx!Sleep
  BY <1>12, TicksFit DEF Ctx!Sleep
<1>13. CASE Ctx!Stop
  BY <1>13, TicksFit DEF Ctx!Stop
<1>14. CASE Ctx!DisplayChanges
  BY <1>14 DEF Ctx!DisplayChanges, Ctx!Happens
<1>15. CASE Ctx!MarkDisplayChanged
  BY <1>15 DEF Ctx!MarkDisplayChanged, Ctx!Happens
<1>16. CASE Ctx!EventsArrive
  BY <1>16 DEF Ctx!EventsArrive, Ctx!Happens
<1>17. CASE Ctx!EnvelopesAreLost
  BY <1>17 DEF Ctx!EnvelopesAreLost, Ctx!Happens
<1>18. CASE Ctx!ClockDrifts
  BY <1>18 DEF Ctx!ClockDrifts, Ctx!Happens
<1>19. ASSUME NEW to \in Places \cup {Ctx!Nowhere}, Ctx!PointerMoves(to)
      PROVE  Counted'
  BY <1>19 DEF Ctx!PointerMoves, Ctx!Happens
<1>20. ASSUME NEW body \in Ctx!Bodies, Ctx!EditConfig(body)
      PROVE  Counted'
  BY <1>20 DEF Ctx!EditConfig, Ctx!Happens
<1> QED
  BY <1>1, <1>2, <1>3, <1>4, <1>5, <1>6, <1>7, <1>8, <1>9, <1>10, <1>11, <1>12, <1>13, <1>14,
     <1>15, <1>16, <1>17, <1>18, <1>19, <1>20 DEF Ctx!Next, Ctx!T3

\* A flag that goes down is one T3 is about to look at the screen for.
LEMMA ScreenKept ==
  ASSUME ContextInv, Ctx!Next
  PROVE  (Ctx!ScreenIsKnown)'
<1> USE DEF ContextInv, Ctx!ScreenIsKnown, Ctx!envVars, Ctx!sampleVars, Ctx!configVars,
           Ctx!reportVars
<1>1. CASE Ctx!Start
  BY <1>1, TicksFit DEF Ctx!Start
<1>2. CASE Ctx!TakeDisplayChanged
  BY <1>2, TicksFit DEF Ctx!TakeDisplayChanged
<1>3. CASE Ctx!ReadScreen
  BY <1>3, TicksFit DEF Ctx!ReadScreen
<1>4. CASE Ctx!Sample
  BY <1>4, TicksFit DEF Ctx!Sample
<1>5. CASE Ctx!CheckAnchor
  BY <1>5, TicksFit DEF Ctx!CheckAnchor
<1>6. CASE Ctx!Wake
  BY <1>6, TicksFit DEF Ctx!Wake
<1>7. CASE Ctx!StatConfig
  BY <1>7, TicksFit DEF Ctx!StatConfig
<1>8. CASE Ctx!LoadConfig
  BY <1>8, TicksFit DEF Ctx!LoadConfig
<1>9. CASE Ctx!ReloadConfig
  BY <1>9, TicksFit DEF Ctx!ReloadConfig
<1>10. CASE Ctx!TakeSnapshot
  BY <1>10, TicksFit DEF Ctx!TakeSnapshot
<1>11. CASE Ctx!Escalate
  BY <1>11, TicksFit DEF Ctx!Escalate
<1>12. CASE Ctx!Sleep
  BY <1>12, TicksFit DEF Ctx!Sleep
<1>13. CASE Ctx!Stop
  BY <1>13, TicksFit DEF Ctx!Stop
<1>14. CASE Ctx!DisplayChanges
  BY <1>14 DEF Ctx!DisplayChanges, Ctx!Happens
<1>15. CASE Ctx!MarkDisplayChanged
  BY <1>15 DEF Ctx!MarkDisplayChanged, Ctx!Happens
<1>16. CASE Ctx!EventsArrive
  BY <1>16 DEF Ctx!EventsArrive, Ctx!Happens
<1>17. CASE Ctx!EnvelopesAreLost
  BY <1>17 DEF Ctx!EnvelopesAreLost, Ctx!Happens
<1>18. CASE Ctx!ClockDrifts
  BY <1>18 DEF Ctx!ClockDrifts, Ctx!Happens
<1>19. ASSUME NEW to \in Places \cup {Ctx!Nowhere}, Ctx!PointerMoves(to)
      PROVE  (Ctx!ScreenIsKnown)'
  BY <1>19 DEF Ctx!PointerMoves, Ctx!Happens
<1>20. ASSUME NEW body \in Ctx!Bodies, Ctx!EditConfig(body)
      PROVE  (Ctx!ScreenIsKnown)'
  BY <1>20 DEF Ctx!EditConfig, Ctx!Happens
<1> QED
  BY <1>1, <1>2, <1>3, <1>4, <1>5, <1>6, <1>7, <1>8, <1>9, <1>10, <1>11, <1>12, <1>13, <1>14,
     <1>15, <1>16, <1>17, <1>18, <1>19, <1>20 DEF Ctx!Next, Ctx!T3

\* A sample adds one frozen look for at least one event it has counted.
LEMMA LockKept ==
  ASSUME ContextInv, Ctx!Next
  PROVE  LockInv'
<1> USE DEF ContextInv, Counted, LockInv, Ctx!Observe, Ctx!Nowhere, Ctx!TicksAssumption,
           Ctx!envVars, Ctx!sampleVars, Ctx!configVars, Ctx!reportVars
<1>1. CASE Ctx!Start
  BY <1>1, TicksFit DEF Ctx!Start
<1>2. CASE Ctx!TakeDisplayChanged
  BY <1>2, TicksFit DEF Ctx!TakeDisplayChanged
<1>3. CASE Ctx!ReadScreen
  BY <1>3, TicksFit DEF Ctx!ReadScreen
<1>4. CASE Ctx!Sample
  <2>1. /\ ctx_pc = "sample" /\ ctx_pc' = "anchor"
        /\ detector' = IF cursor = 0 THEN detector ELSE Ctx!Observe(detector, cursor, delta > 0)
        /\ seen_rest' = IF cursor \in {0, detector.last} THEN seen_rest ELSE last_events
        /\ ctx'.locked = detector'.locked /\ ctx'.cursor = cursor
        /\ UNCHANGED <<delta, last_events>>
    BY <1>4, Zenon DEF Ctx!Sample
  <2>2. CASE cursor = 0
    BY <2>1, <2>2
  <2>3. CASE cursor # 0 /\ ~(detector.last = cursor /\ delta > 0)
    <3>1. detector' = [last |-> cursor, run |-> 0, locked |-> FALSE]
      BY <2>1, <2>3
    <3> QED
      BY <2>1, <2>3, <3>1
  <2>4. CASE cursor # 0 /\ detector.last = cursor /\ delta > 0
    <3>1. detector' = [last |-> cursor, run |-> detector.run + 1,
                       locked |-> detector.locked \/ detector.run + 1 >= Confirm]
      BY <2>1, <2>4
    <3>2. /\ detector'.last = cursor /\ detector'.run = detector.run + 1
          /\ detector'.locked = (detector.locked \/ detector.run + 1 >= Confirm)
      BY <3>1, Zenon
    <3>3. detector'.locked => detector.locked \/ detector.run + 1 >= Confirm
      BY <3>2, Zenon
    <3> QED
      BY <2>1, <2>4, <3>2, <3>3, TicksFit
  <2> QED
    BY <2>2, <2>3, <2>4
<1>5. CASE Ctx!CheckAnchor
  BY <1>5, TicksFit DEF Ctx!CheckAnchor
<1>6. CASE Ctx!Wake
  BY <1>6, TicksFit DEF Ctx!Wake
<1>7. CASE Ctx!StatConfig
  BY <1>7, TicksFit DEF Ctx!StatConfig
<1>8. CASE Ctx!LoadConfig
  BY <1>8, TicksFit DEF Ctx!LoadConfig
<1>9. CASE Ctx!ReloadConfig
  BY <1>9, TicksFit DEF Ctx!ReloadConfig
<1>10. CASE Ctx!TakeSnapshot
  BY <1>10, TicksFit DEF Ctx!TakeSnapshot
<1>11. CASE Ctx!Escalate
  BY <1>11, TicksFit DEF Ctx!Escalate
<1>12. CASE Ctx!Sleep
  BY <1>12, TicksFit DEF Ctx!Sleep
<1>13. CASE Ctx!Stop
  BY <1>13, TicksFit DEF Ctx!Stop
<1>14. CASE Ctx!DisplayChanges
  BY <1>14 DEF Ctx!DisplayChanges, Ctx!Happens
<1>15. CASE Ctx!MarkDisplayChanged
  BY <1>15 DEF Ctx!MarkDisplayChanged, Ctx!Happens
<1>16. CASE Ctx!EventsArrive
  BY <1>16 DEF Ctx!EventsArrive, Ctx!Happens
<1>17. CASE Ctx!EnvelopesAreLost
  BY <1>17 DEF Ctx!EnvelopesAreLost, Ctx!Happens
<1>18. CASE Ctx!ClockDrifts
  BY <1>18 DEF Ctx!ClockDrifts, Ctx!Happens
<1>19. ASSUME NEW to \in Places \cup {Ctx!Nowhere}, Ctx!PointerMoves(to)
      PROVE  LockInv'
  BY <1>19 DEF Ctx!PointerMoves, Ctx!Happens
<1>20. ASSUME NEW body \in Ctx!Bodies, Ctx!EditConfig(body)
      PROVE  LockInv'
  BY <1>20 DEF Ctx!EditConfig, Ctx!Happens
<1> QED
  BY <1>1, <1>2, <1>3, <1>4, <1>5, <1>6, <1>7, <1>8, <1>9, <1>10, <1>11, <1>12, <1>13, <1>14,
     <1>15, <1>16, <1>17, <1>18, <1>19, <1>20 DEF Ctx!Next, Ctx!T3

\* An edit after the stat makes the file newer than its time that was taken.
LEMMA EditsKept ==
  ASSUME ContextInv, Ctx!Next
  PROVE  EditsInv'
<1> USE DEF ContextInv, Counted, EditsInv, Moved, Ctx!Startup, Ctx!Changed, Ctx!MtimeTaken,
           Ctx!envVars, Ctx!sampleVars, Ctx!configVars, Ctx!reportVars
<1>1. CASE Ctx!Start
  BY <1>1, TicksFit DEF Ctx!Start
<1>2. CASE Ctx!TakeDisplayChanged
  BY <1>2, TicksFit DEF Ctx!TakeDisplayChanged
<1>3. CASE Ctx!ReadScreen
  BY <1>3, TicksFit DEF Ctx!ReadScreen
<1>4. CASE Ctx!Sample
  BY <1>4, TicksFit DEF Ctx!Sample
<1>5. CASE Ctx!CheckAnchor
  BY <1>5, TicksFit DEF Ctx!CheckAnchor
<1>6. CASE Ctx!Wake
  BY <1>6, TicksFit DEF Ctx!Wake
<1>7. CASE Ctx!StatConfig
  BY <1>7, TicksFit DEF Ctx!StatConfig
<1>8. CASE Ctx!LoadConfig
  BY <1>8, TicksFit DEF Ctx!LoadConfig
<1>9. CASE Ctx!ReloadConfig
  BY <1>9, TicksFit DEF Ctx!ReloadConfig
<1>10. CASE Ctx!TakeSnapshot
  BY <1>10, TicksFit DEF Ctx!TakeSnapshot
<1>11. CASE Ctx!Escalate
  BY <1>11, TicksFit DEF Ctx!Escalate
<1>12. CASE Ctx!Sleep
  BY <1>12, TicksFit DEF Ctx!Sleep
<1>13. CASE Ctx!Stop
  BY <1>13, TicksFit DEF Ctx!Stop
<1>14. CASE Ctx!DisplayChanges
  BY <1>14 DEF Ctx!DisplayChanges, Ctx!Happens
<1>15. CASE Ctx!MarkDisplayChanged
  BY <1>15 DEF Ctx!MarkDisplayChanged, Ctx!Happens
<1>16. CASE Ctx!EventsArrive
  BY <1>16 DEF Ctx!EventsArrive, Ctx!Happens
<1>17. CASE Ctx!EnvelopesAreLost
  BY <1>17 DEF Ctx!EnvelopesAreLost, Ctx!Happens
<1>18. CASE Ctx!ClockDrifts
  BY <1>18 DEF Ctx!ClockDrifts, Ctx!Happens
<1>19. ASSUME NEW to \in Places \cup {Ctx!Nowhere}, Ctx!PointerMoves(to)
      PROVE  EditsInv'
  BY <1>19 DEF Ctx!PointerMoves, Ctx!Happens
<1>20. ASSUME NEW body \in Ctx!Bodies, Ctx!EditConfig(body)
      PROVE  EditsInv'
  <2>1. /\ file' = body /\ file_mtime' = file_mtime + 1
        /\ edited_early' = (edited_early \/ ctx_pc = "starting")
        /\ UNCHANGED <<ctx_pc, mail, config_mtime, config, loaded, read_failed, ctx_announced>>
    BY <1>20 DEF Ctx!EditConfig, Ctx!Happens
  <2>2. ctx_pc = "starting" => edited_early'
    BY <2>1, Zenon
  <2>3. config_mtime' # file_mtime'
    BY <2>1
  <2> QED
    BY <2>1, <2>2, <2>3
<1> QED
  BY <1>1, <1>2, <1>3, <1>4, <1>5, <1>6, <1>7, <1>8, <1>9, <1>10, <1>11, <1>12, <1>13, <1>14,
     <1>15, <1>16, <1>17, <1>18, <1>19, <1>20 DEF Ctx!Next, Ctx!T3

\* A window ends with the snapshot the next one starts from.
LEMMA LossesKept ==
  ASSUME ContextInv, Ctx!Next
  PROVE  LossesInv'
<1> USE DEF ContextInv, Counted, LossesInv, Ctx!Lost, Ctx!WindowEnd, Ctx!envVars, Ctx!sampleVars,
           Ctx!configVars, Ctx!reportVars
<1>1. CASE Ctx!Start
  BY <1>1, TicksFit DEF Ctx!Start
<1>2. CASE Ctx!TakeDisplayChanged
  BY <1>2, TicksFit DEF Ctx!TakeDisplayChanged
<1>3. CASE Ctx!ReadScreen
  BY <1>3, TicksFit DEF Ctx!ReadScreen
<1>4. CASE Ctx!Sample
  BY <1>4, TicksFit DEF Ctx!Sample
<1>5. CASE Ctx!CheckAnchor
  BY <1>5, TicksFit DEF Ctx!CheckAnchor
<1>6. CASE Ctx!Wake
  BY <1>6, TicksFit DEF Ctx!Wake
<1>7. CASE Ctx!StatConfig
  BY <1>7, TicksFit DEF Ctx!StatConfig
<1>8. CASE Ctx!LoadConfig
  BY <1>8, TicksFit DEF Ctx!LoadConfig
<1>9. CASE Ctx!ReloadConfig
  BY <1>9, TicksFit DEF Ctx!ReloadConfig
<1>10. CASE Ctx!TakeSnapshot
  BY <1>10, TicksFit DEF Ctx!TakeSnapshot
<1>11. CASE Ctx!Escalate
  BY <1>11, TicksFit DEF Ctx!Escalate
<1>12. CASE Ctx!Sleep
  BY <1>12, TicksFit DEF Ctx!Sleep
<1>13. CASE Ctx!Stop
  BY <1>13, TicksFit DEF Ctx!Stop
<1>14. CASE Ctx!DisplayChanges
  BY <1>14 DEF Ctx!DisplayChanges, Ctx!Happens
<1>15. CASE Ctx!MarkDisplayChanged
  BY <1>15 DEF Ctx!MarkDisplayChanged, Ctx!Happens
<1>16. CASE Ctx!EventsArrive
  BY <1>16 DEF Ctx!EventsArrive, Ctx!Happens
<1>17. CASE Ctx!EnvelopesAreLost
  BY <1>17 DEF Ctx!EnvelopesAreLost, Ctx!Happens
<1>18. CASE Ctx!ClockDrifts
  BY <1>18 DEF Ctx!ClockDrifts, Ctx!Happens
<1>19. ASSUME NEW to \in Places \cup {Ctx!Nowhere}, Ctx!PointerMoves(to)
      PROVE  LossesInv'
  BY <1>19 DEF Ctx!PointerMoves, Ctx!Happens
<1>20. ASSUME NEW body \in Ctx!Bodies, Ctx!EditConfig(body)
      PROVE  LossesInv'
  BY <1>20 DEF Ctx!EditConfig, Ctx!Happens
<1> QED
  BY <1>1, <1>2, <1>3, <1>4, <1>5, <1>6, <1>7, <1>8, <1>9, <1>10, <1>11, <1>12, <1>13, <1>14,
     <1>15, <1>16, <1>17, <1>18, <1>19, <1>20 DEF Ctx!Next, Ctx!T3

\* A warning sets when the next is due, in the step that gives it.
LEMMA WarnKept ==
  ASSUME ContextInv, Ctx!Next
  PROVE  WarnInv'
<1> USE DEF ContextInv, Counted, WarnInv, Ctx!Lost, Ctx!WindowEnd, Ctx!TicksAssumption, Ctx!envVars,
           Ctx!sampleVars, Ctx!configVars, Ctx!reportVars
<1>1. CASE Ctx!Start
  BY <1>1, TicksFit DEF Ctx!Start
<1>2. CASE Ctx!TakeDisplayChanged
  BY <1>2, TicksFit DEF Ctx!TakeDisplayChanged
<1>3. CASE Ctx!ReadScreen
  BY <1>3, TicksFit DEF Ctx!ReadScreen
<1>4. CASE Ctx!Sample
  BY <1>4, TicksFit DEF Ctx!Sample
<1>5. CASE Ctx!CheckAnchor
  BY <1>5, TicksFit DEF Ctx!CheckAnchor
<1>6. CASE Ctx!Wake
  BY <1>6, TicksFit DEF Ctx!Wake
<1>7. CASE Ctx!StatConfig
  BY <1>7, TicksFit DEF Ctx!StatConfig
<1>8. CASE Ctx!LoadConfig
  BY <1>8, TicksFit DEF Ctx!LoadConfig
<1>9. CASE Ctx!ReloadConfig
  BY <1>9, TicksFit DEF Ctx!ReloadConfig
<1>10. CASE Ctx!TakeSnapshot
  BY <1>10, TicksFit DEF Ctx!TakeSnapshot
<1>11. CASE Ctx!Escalate
  BY <1>11, TicksFit DEF Ctx!Escalate
<1>12. CASE Ctx!Sleep
  BY <1>12, TicksFit DEF Ctx!Sleep
<1>13. CASE Ctx!Stop
  BY <1>13, TicksFit DEF Ctx!Stop
<1>14. CASE Ctx!DisplayChanges
  BY <1>14 DEF Ctx!DisplayChanges, Ctx!Happens
<1>15. CASE Ctx!MarkDisplayChanged
  BY <1>15 DEF Ctx!MarkDisplayChanged, Ctx!Happens
<1>16. CASE Ctx!EventsArrive
  BY <1>16 DEF Ctx!EventsArrive, Ctx!Happens
<1>17. CASE Ctx!EnvelopesAreLost
  BY <1>17 DEF Ctx!EnvelopesAreLost, Ctx!Happens
<1>18. CASE Ctx!ClockDrifts
  BY <1>18 DEF Ctx!ClockDrifts, Ctx!Happens
<1>19. ASSUME NEW to \in Places \cup {Ctx!Nowhere}, Ctx!PointerMoves(to)
      PROVE  WarnInv'
  BY <1>19 DEF Ctx!PointerMoves, Ctx!Happens
<1>20. ASSUME NEW body \in Ctx!Bodies, Ctx!EditConfig(body)
      PROVE  WarnInv'
  BY <1>20 DEF Ctx!EditConfig, Ctx!Happens
<1> QED
  BY <1>1, <1>2, <1>3, <1>4, <1>5, <1>6, <1>7, <1>8, <1>9, <1>10, <1>11, <1>12, <1>13, <1>14,
     <1>15, <1>16, <1>17, <1>18, <1>19, <1>20 DEF Ctx!Next, Ctx!T3

-----------------------------------------------------------------------------
\* What T2 keeps, of itself and per sink, is counts.
LoopCounted ==
    /\ sinks \subseteq Ship!Kinds
    /\ {ship_now, batches, drops, drops_last, ship_announced, heard, ship_deadline} \subseteq Nat
    /\ share \in [Ship!Kinds -> Int] /\ gate \in [batches : Nat, quiet_since : Nat]
SinksCounted ==
    /\ attempts \in [Ship!Kinds -> Nat] /\ ship_errors \in [Ship!Kinds -> Nat]
    /\ ship_told \in [Ship!Kinds -> Nat] /\ ship_warned_at \in [Ship!Kinds -> Nat]
    /\ limiter \in [Ship!Kinds -> [next_at : Nat, suppressed : Nat]]
    /\ sessions \in [Ship!Kinds -> Nat] /\ beats \in [Ship!Kinds -> Nat]
    /\ opening \in [Ship!Kinds -> {"nothing", "session", "batch", "heartbeat"}]
ShipCounted == LoopCounted /\ SinksCounted

\* A warning that was given sets when the next one may be.
FailuresInv ==
    \A s \in Ship!Kinds :
        /\ \A t \in Ship!Kinds : {s, t} \subseteq sinks \ {Ship!Udp} => attempts[s] = attempts[t]
        /\ ship_told[s] + limiter[s].suppressed = ship_errors[s]
        /\ ship_warned_at[s] > 0 => limiter[s].next_at = ship_warned_at[s] + WarnInterval

\* A session record is sent to a sink that drains before anything else is.
RecordingInv ==
    /\ Ship!RecordingHasOneSession
    /\ ship_pc = "session" => \A s \in Ship!Drains : sessions[s] = 0 /\ opening[s] = "nothing"

\* The gate's silence is no shorter than the viewer's: a batch it has not seen
\* was sent in this pass.
LiveInv ==
    /\ gate.quiet_since <= heard /\ heard <= ship_now
    /\ ~stopping =>
          /\ ship_pc \in {"session", "flush", "tick", "resend", "beat", "park"}
          /\ ship_pc \in {"session", "flush", "park"} => batches = gate.batches
          /\ batches # gate.batches => heard = ship_now
    /\ Ship!LiveIsNotSilent

\* Half of the budget is there for Kafka until it closes.
CloseInv ==
    /\ Ship!CloseIsFair
    /\ ship_closed \subseteq sinks
    /\ ship_pc \notin {"rest", "kafka"} => ship_closed = {}
    /\ sidecar <=> ship_pc = "kafka"
    /\ ship_pc \in {"rest", "kafka"} =>
          /\ ship_now <= ship_deadline
          /\ Ship!Jsonl \in sinks \ ship_closed => ship_deadline - ship_now = Budget
          /\ Ship!Kafka \in sinks \ ship_closed => ship_deadline - ship_now >= Budget \div 2

\* T2's count of T1's drops is behind by less than the counter's range.
DropsInv ==
    /\ drops_last = ship_announced % Wrap
    /\ ship_announced <= drops /\ drops - ship_announced < Wrap

ShipInv == ShipCounted /\ FailuresInv /\ RecordingInv /\ LiveInv /\ CloseInv /\ DropsInv

-----------------------------------------------------------------------------
USE DEF Ship!Kinds, Ship!Udp, Ship!Jsonl, Ship!Kafka, Ship!Drains

\* Two warnings about one sink are an interval apart.
WarningIsRare ==
    \A s \in Ship!Kinds :
        ship_warned_at'[s] # ship_warned_at[s] /\ ship_warned_at[s] > 0 =>
            ship_warned_at'[s] - ship_warned_at[s] >= WarnInterval

\* report_failure counts, and warns when it may; what it keeps quiet about is
\* told later.
LEMMA FailuresReported ==
  ASSUME ShipCounted, FailuresInv, NEW failed \in SUBSET Ship!Kinds, Ship!ReportFailures(failed)
  PROVE  /\ ship_errors' \in [Ship!Kinds -> Nat] /\ ship_told' \in [Ship!Kinds -> Nat]
         /\ ship_warned_at' \in [Ship!Kinds -> Nat]
         /\ limiter' \in [Ship!Kinds -> [next_at : Nat, suppressed : Nat]]
         /\ WarningIsRare
         /\ \A s \in Ship!Kinds :
              /\ ship_told'[s] + limiter'[s].suppressed = ship_errors'[s]
              /\ ship_warned_at'[s] > 0 => limiter'[s].next_at = ship_warned_at'[s] + WarnInterval
<1>1. WarnInterval \in Nat /\ ship_now \in Nat
  BY IntervalsFit DEF Ship!IntervalsAssumption, ShipCounted, LoopCounted
<1>2. ASSUME NEW s \in Ship!Kinds
      PROVE  /\ ship_errors[s] \in Nat /\ ship_told[s] \in Nat /\ ship_warned_at[s] \in Nat
             /\ limiter[s] \in [next_at : Nat, suppressed : Nat]
  BY DEF ShipCounted, LoopCounted, SinksCounted
<1>3. ASSUME NEW s \in Ship!Kinds, s \notin failed
      PROVE  /\ ship_errors'[s] = ship_errors[s] /\ ship_told'[s] = ship_told[s]
             /\ ship_warned_at'[s] = ship_warned_at[s] /\ limiter'[s] = limiter[s]
  BY <1>2, <1>3 DEF Ship!ReportFailures
<1>4. ASSUME NEW s \in Ship!Kinds, s \in failed, ~Ship!MayWarn(s)
      PROVE  /\ ship_errors'[s] = ship_errors[s] + 1 /\ ship_told'[s] = ship_told[s]
             /\ ship_warned_at'[s] = ship_warned_at[s]
             /\ limiter'[s] = [limiter[s] EXCEPT !.suppressed = @ + 1]
  BY <1>4 DEF Ship!ReportFailures
<1>5. ASSUME NEW s \in Ship!Kinds, s \in failed, Ship!MayWarn(s)
      PROVE  /\ ship_errors'[s] = ship_errors[s] + 1
             /\ ship_told'[s] = ship_told[s] + 1 + limiter[s].suppressed
             /\ ship_warned_at'[s] = ship_now
             /\ limiter'[s] = [next_at |-> ship_now + WarnInterval, suppressed |-> 0]
             /\ limiter[s].next_at <= ship_now
  BY <1>5 DEF Ship!ReportFailures, Ship!Allow, Ship!MayWarn
<1>6. ASSUME NEW s \in Ship!Kinds
      PROVE  /\ ship_errors'[s] \in Nat /\ ship_told'[s] \in Nat /\ ship_warned_at'[s] \in Nat
             /\ limiter'[s] \in [next_at : Nat, suppressed : Nat]
             /\ ship_told'[s] + limiter'[s].suppressed = ship_errors'[s]
             /\ ship_warned_at'[s] > 0 => limiter'[s].next_at = ship_warned_at'[s] + WarnInterval
             /\ ship_warned_at'[s] # ship_warned_at[s] /\ ship_warned_at[s] > 0 =>
                   ship_warned_at'[s] - ship_warned_at[s] >= WarnInterval
  <2>1. /\ ship_told[s] + limiter[s].suppressed = ship_errors[s]
        /\ ship_warned_at[s] > 0 => limiter[s].next_at = ship_warned_at[s] + WarnInterval
    BY DEF FailuresInv
  <2>2. CASE s \notin failed
    BY <1>1, <1>2, <1>3, <2>1, <2>2
  <2>3. CASE s \in failed /\ ~Ship!MayWarn(s)
    BY <1>1, <1>2, <1>4, <2>1, <2>3
  <2>4. CASE s \in failed /\ Ship!MayWarn(s)
    BY <1>1, <1>2, <1>5, <2>1, <2>4
  <2> QED
    BY <2>2, <2>3, <2>4
<1>7. \A f \in {ship_errors', ship_told', ship_warned_at', limiter'} :
         f = [s \in Ship!Kinds |-> f[s]]
  BY DEF Ship!ReportFailures
<1> QED
  BY <1>6, <1>7 DEF WarningIsRare

\* A record that was handed to some sinks: who was tried, and what the sinks
\* that took it hold now.
LEMMA RecordSent ==
  ASSUME ShipCounted, FailuresInv, NEW to \in SUBSET Ship!Kinds,
         NEW kind \in {"session", "batch", "heartbeat"}, Ship!Send(to, kind)
  PROVE  /\ \E failed \in SUBSET Ship!Kinds : Ship!ReportFailures(failed)
         /\ attempts' \in [Ship!Kinds -> Nat] /\ sessions' \in [Ship!Kinds -> Nat]
         /\ beats' \in [Ship!Kinds -> Nat]
         /\ opening' \in [Ship!Kinds -> {"nothing", "session", "batch", "heartbeat"}]
         /\ \A s \in Ship!Kinds :
              /\ attempts'[s] = attempts[s] + (IF s \in to THEN 1 ELSE 0)
              /\ s \notin to \/ kind # "session" => sessions'[s] = sessions[s]
              /\ s \notin to \/ kind # "heartbeat" => beats'[s] = beats[s]
              /\ s \notin to \/ opening[s] # "nothing" => opening'[s] = opening[s]
              /\ sessions'[s] # sessions[s] =>
                    sessions'[s] = sessions[s] + 1 /\ (opening[s] = "nothing" => opening'[s] = "session")
<1>1. PICK failed \in SUBSET to, lost \in BOOLEAN :
         LET kept == (to \ failed) \ (IF lost THEN {Ship!Udp} ELSE {}) IN
         /\ attempts' = [s \in Ship!Kinds |-> attempts[s] + (IF s \in to THEN 1 ELSE 0)]
         /\ Ship!ReportFailures(failed)
         /\ sessions' = [s \in Ship!Kinds |-> sessions[s] + (IF s \in kept /\ kind = "session" THEN 1 ELSE 0)]
         /\ beats' = [s \in Ship!Kinds |-> beats[s] + (IF s \in kept /\ kind = "heartbeat" THEN 1 ELSE 0)]
         /\ opening' = [s \in Ship!Kinds |-> IF s \in kept /\ opening[s] = "nothing" THEN kind ELSE opening[s]]
  BY Zenon DEF Ship!Send
<1> DEFINE kept == (to \ failed) \ (IF lost THEN {Ship!Udp} ELSE {})
<1>2. kept \subseteq to
  OBVIOUS
<1>3. /\ attempts' = [s \in Ship!Kinds |-> attempts[s] + (IF s \in to THEN 1 ELSE 0)]
      /\ sessions' = [s \in Ship!Kinds |-> sessions[s] + (IF s \in kept /\ kind = "session" THEN 1 ELSE 0)]
      /\ beats' = [s \in Ship!Kinds |-> beats[s] + (IF s \in kept /\ kind = "heartbeat" THEN 1 ELSE 0)]
      /\ opening' = [s \in Ship!Kinds |-> IF s \in kept /\ opening[s] = "nothing" THEN kind ELSE opening[s]]
  BY <1>1
<1> HIDE DEF kept
<1>4. /\ attempts \in [Ship!Kinds -> Nat] /\ sessions \in [Ship!Kinds -> Nat]
      /\ beats \in [Ship!Kinds -> Nat]
      /\ opening \in [Ship!Kinds -> {"nothing", "session", "batch", "heartbeat"}]
  BY DEF ShipCounted, LoopCounted, SinksCounted
<1>5. \E f \in SUBSET Ship!Kinds : Ship!ReportFailures(f)
  BY <1>1
<1>6. /\ attempts' \in [Ship!Kinds -> Nat] /\ sessions' \in [Ship!Kinds -> Nat]
      /\ beats' \in [Ship!Kinds -> Nat]
  BY <1>3, <1>4
<1>7. opening' \in [Ship!Kinds -> {"nothing", "session", "batch", "heartbeat"}]
  BY <1>3, <1>4
<1>8. ASSUME NEW s \in Ship!Kinds
      PROVE  /\ attempts'[s] = attempts[s] + (IF s \in to THEN 1 ELSE 0)
             /\ s \notin to \/ kind # "session" => sessions'[s] = sessions[s]
             /\ s \notin to \/ kind # "heartbeat" => beats'[s] = beats[s]
             /\ s \notin to \/ opening[s] # "nothing" => opening'[s] = opening[s]
             /\ sessions'[s] # sessions[s] =>
                   sessions'[s] = sessions[s] + 1 /\ (opening[s] = "nothing" => opening'[s] = "session")
  <2>1. sessions[s] \in Nat /\ beats[s] \in Nat
    BY <1>4
  <2>2. /\ sessions'[s] = sessions[s] + (IF s \in kept /\ kind = "session" THEN 1 ELSE 0)
        /\ beats'[s] = beats[s] + (IF s \in kept /\ kind = "heartbeat" THEN 1 ELSE 0)
        /\ opening'[s] = IF s \in kept /\ opening[s] = "nothing" THEN kind ELSE opening[s]
        /\ attempts'[s] = attempts[s] + (IF s \in to THEN 1 ELSE 0)
    BY <1>3
  <2> QED
    BY <1>2, <2>1, <2>2
<1> QED
  BY <1>5, <1>6, <1>7, <1>8

\* Whatever T2 does, each failure is counted and will be told, and no sink is
\* passed over.
LEMMA FailuresKept ==
  ASSUME ShipCounted, FailuresInv, Ship!Next
  PROVE  SinksCounted' /\ FailuresInv' /\ WarningIsRare
<1>1. ASSUME NEW to \in {sinks, sinks \cap {Ship!Udp}}, NEW kind \in {"session", "batch", "heartbeat"},
             Ship!Send(to, kind), sinks' = sinks
      PROVE  SinksCounted' /\ FailuresInv' /\ WarningIsRare
  <2>1. to \in SUBSET Ship!Kinds
    BY DEF ShipCounted, LoopCounted
  <2>2. PICK failed \in SUBSET Ship!Kinds : Ship!ReportFailures(failed)
    BY <1>1, <2>1, RecordSent
  <2>3. SinksCounted' /\ WarningIsRare
    BY <1>1, <2>1, <2>2, RecordSent, FailuresReported DEF SinksCounted
  <2>4. ASSUME NEW s \in Ship!Kinds, NEW t \in Ship!Kinds, {s, t} \subseteq sinks \ {Ship!Udp}
        PROVE  attempts'[s] = attempts'[t]
    <3>1. attempts[s] = attempts[t]
      BY <2>4 DEF FailuresInv
    <3>2. /\ attempts'[s] = attempts[s] + (IF s \in to THEN 1 ELSE 0)
          /\ attempts'[t] = attempts[t] + (IF t \in to THEN 1 ELSE 0)
      BY <1>1, <2>1, RecordSent
    <3> QED
      BY <2>4, <3>1, <3>2
  <2> QED
    BY <1>1, <2>2, <2>3, <2>4, FailuresReported DEF FailuresInv
<1>2. ASSUME NEW failed \in SUBSET Ship!Kinds, Ship!ReportFailures(failed),
             UNCHANGED <<sinks, attempts, sessions, beats, opening>>
      PROVE  SinksCounted' /\ FailuresInv' /\ WarningIsRare
  <2>1. SinksCounted' /\ WarningIsRare
    BY <1>2, FailuresReported DEF ShipCounted, SinksCounted
  <2> QED
    BY <1>2, <2>1, FailuresReported DEF FailuresInv
<1>3. ASSUME UNCHANGED <<sinks, Ship!sinkVars>>
      PROVE  SinksCounted' /\ FailuresInv' /\ WarningIsRare
  BY <1>3 DEF ShipCounted, SinksCounted, FailuresInv, WarningIsRare, Ship!sinkVars
<1>4. CASE Ship!OpenSession
  BY <1>1, <1>4 DEF Ship!OpenSession, Ship!Deliver
<1>5. CASE Ship!FlushBatch \/ Ship!FlushLast
  BY <1>1, <1>5 DEF Ship!FlushBatch, Ship!FlushLast, Ship!Flush, Ship!Deliver
<1>6. CASE Ship!Tick
  <2>1. CASE UNCHANGED <<ship_errors, limiter, ship_told, ship_warned_at>>
    BY <1>3, <1>6, <2>1 DEF Ship!Tick, Ship!sinkVars
  <2>2. CASE \E failed \in SUBSET (sinks \ {Ship!Udp}) : Ship!ReportFailures(failed)
    <3>1. sinks \subseteq Ship!Kinds
      BY DEF ShipCounted, LoopCounted
    <3> QED
      BY <1>2, <1>6, <2>2, <3>1 DEF Ship!Tick
  <2> QED
    BY <1>6, <2>1, <2>2 DEF Ship!Tick
<1>7. CASE Ship!ResendSession
  <2>1. CASE UNCHANGED Ship!sinkVars
    BY <1>3, <1>7, <2>1 DEF Ship!ResendSession
  <2>2. CASE Ship!Send(sinks \cap {Ship!Udp}, "session")
    BY <1>1, <1>7, <2>2 DEF Ship!ResendSession
  <2> QED
    BY <1>7, <2>1, <2>2 DEF Ship!ResendSession, Ship!SendLive
<1>8. CASE Ship!Heartbeat
  <2>1. CASE UNCHANGED Ship!sinkVars
    BY <1>3, <1>8, <2>1 DEF Ship!Heartbeat
  <2>2. CASE Ship!Send(sinks \cap {Ship!Udp}, "heartbeat")
    BY <1>1, <1>8, <2>2 DEF Ship!Heartbeat
  <2> QED
    BY <1>8, <2>1, <2>2 DEF Ship!Heartbeat, Ship!SendLive
<1>9. CASE Ship!NothingToFlush \/ Ship!Park \/ Ship!BeginClose \/ Ship!CloseRest
             \/ Ship!WriteSidecar \/ Ship!CloseKafka \/ Ship!CaptureStopped
             \/ \E n \in 1..(Wrap - 1) : Ship!T1Drops(n)
  BY <1>3, <1>9 DEF Ship!NothingToFlush, Ship!Park, Ship!BeginClose, Ship!CloseRest, Ship!Close,
     Ship!WriteSidecar, Ship!CloseKafka, Ship!CaptureStopped, Ship!T1Drops
<1> QED
  BY <1>4, <1>5, <1>6, <1>7, <1>8, <1>9 DEF Ship!Next

\* What is sent to the viewer alone leaves the recording and the broker alone.
LEMMA RecordingKept ==
  ASSUME ShipInv, Ship!Next
  PROVE  RecordingInv'
<1> USE DEF RecordingInv, Ship!RecordingHasOneSession
<1>1. ASSUME UNCHANGED <<sessions, beats, opening>>, ship_pc' # "session"
      PROVE  RecordingInv'
  BY <1>1 DEF ShipInv
<1>2. CASE Ship!OpenSession
  <2>1. Ship!Send(sinks, "session") /\ sinks \in SUBSET Ship!Kinds /\ ship_pc' = "flush"
    BY <1>2 DEF Ship!OpenSession, Ship!Deliver, ShipInv, ShipCounted, LoopCounted
  <2>2. \A s \in Ship!Drains :
          /\ sessions[s] = 0 /\ opening[s] = "nothing" /\ beats'[s] = beats[s] /\ beats[s] = 0
          /\ sessions'[s] # sessions[s] => sessions'[s] = 1 /\ opening'[s] = "session"
    BY <1>2, <2>1, RecordSent DEF Ship!OpenSession, ShipInv
  <2> QED
    BY <2>1, <2>2
<1>3. CASE Ship!FlushBatch \/ Ship!FlushLast
  <2>1. Ship!Send(sinks, "batch") /\ sinks \in SUBSET Ship!Kinds /\ ship_pc' # "session"
    BY <1>3 DEF Ship!FlushBatch, Ship!FlushLast, Ship!Flush, Ship!Deliver, ShipInv, ShipCounted,
       LoopCounted
  <2>2. \A s \in Ship!Drains :
          /\ sessions'[s] = sessions[s] /\ beats'[s] = beats[s]
          /\ opening[s] # "nothing" => opening'[s] = opening[s]
    BY <2>1, RecordSent DEF ShipInv
  <2> QED
    BY <2>1, <2>2 DEF ShipInv
<1>4. ASSUME NEW kind \in {"session", "heartbeat"}, Ship!Send(sinks \cap {Ship!Udp}, kind),
             ship_pc' # "session"
      PROVE  RecordingInv'
  <2>1. \A s \in Ship!Drains :
          sessions'[s] = sessions[s] /\ beats'[s] = beats[s] /\ opening'[s] = opening[s]
    BY <1>4, RecordSent DEF ShipInv
  <2> QED
    BY <1>4, <2>1 DEF ShipInv
<1>5. CASE Ship!Tick
  BY <1>1, <1>5 DEF Ship!Tick
<1>6. CASE Ship!ResendSession
  BY <1>1, <1>4, <1>6 DEF Ship!ResendSession, Ship!SendLive, Ship!sinkVars
<1>7. CASE Ship!Heartbeat
  BY <1>1, <1>4, <1>7 DEF Ship!Heartbeat, Ship!SendLive, Ship!sinkVars
<1>8. CASE Ship!CloseRest \/ Ship!CloseKafka \/ Ship!CaptureStopped
             \/ \E n \in 1..(Wrap - 1) : Ship!T1Drops(n)
  BY <1>8 DEF Ship!CloseRest, Ship!CloseKafka, Ship!Close, Ship!sinkVars, Ship!CaptureStopped,
     Ship!T1Drops, ShipInv
<1>9. CASE Ship!NothingToFlush \/ Ship!Park \/ Ship!BeginClose \/ Ship!WriteSidecar
  BY <1>1, <1>9 DEF Ship!NothingToFlush, Ship!Park, Ship!BeginClose, Ship!WriteSidecar,
     Ship!sinkVars
<1> QED
  BY <1>2, <1>3, <1>5, <1>6, <1>7, <1>8, <1>9 DEF Ship!Next

\* What is behind by less than the range is told by its remainder.
LEMMA RemainderTells ==
  ASSUME NEW m \in Nat \ {0}, NEW a \in Nat, NEW b \in Nat, a <= b, b - a < m
  PROVE  ((b % m) - (a % m) + m) % m = b - a
<1>1. a = m * (a \div m) + (a % m) /\ a % m \in 0..(m - 1) /\ a \div m \in Int
  OBVIOUS
<1>2. b = m * (b \div m) + (b % m) /\ b % m \in 0..(m - 1) /\ b \div m \in Int
  OBVIOUS
<1> DEFINE qa == a \div m
           qb == b \div m
           ra == a % m
           rb == b % m
<1>3. /\ a = m * qa + ra /\ ra \in 0..(m - 1) /\ qa \in Int
      /\ b = m * qb + rb /\ rb \in 0..(m - 1) /\ qb \in Int
  BY <1>1, <1>2
<1> HIDE DEF qa, qb, ra, rb
<1>4. qb - qa \in {0, 1}
  <2>1. m * (qb - qa) = (b - a) - (rb - ra)
    BY <1>3
  <2>2. m * (qb - qa) < 2 * m /\ m * (qb - qa) > (-1) * m
    BY <1>3, <2>1
  <2>3. ~(qb - qa >= 2)
    BY <1>3, <2>2
  <2>4. ~(qb - qa <= -1)
    BY <1>3, <2>2
  <2> QED
    BY <1>3, <2>3, <2>4
<1>5. rb - ra + m \in {b - a, b - a + m}
  BY <1>3, <1>4
<1>6. ASSUME NEW x \in 0..(m - 1)
      PROVE  x % m = x /\ (x + m) % m = x
  OBVIOUS
<1>7. (rb - ra + m) % m = b - a
  BY <1>5, <1>6
<1> QED
  BY <1>7 DEF ra, rb

\* A batch announces what T1 counted up to it, whatever the counter shows.
LEMMA DropsKept ==
  ASSUME ShipInv, Ship!Next
  PROVE  DropsInv' /\ (batches' # batches => ship_announced' = drops)
<1>1. Wrap \in Nat \ {0}
  BY IntervalsFit DEF Ship!IntervalsAssumption
<1>2. /\ drops_last = ship_announced % Wrap /\ ship_announced <= drops /\ drops - ship_announced < Wrap
      /\ ship_announced \in Nat /\ drops \in Nat
  BY DEF ShipInv, DropsInv, ShipCounted, LoopCounted
<1>3. ASSUME UNCHANGED <<batches, drops, drops_last, ship_announced>>
      PROVE  DropsInv' /\ (batches' # batches => ship_announced' = drops)
  BY <1>2, <1>3 DEF DropsInv
<1>4. CASE Ship!Flush
  <2>1. /\ ship_announced' = ship_announced + (((drops % Wrap) - drops_last + Wrap) % Wrap)
        /\ drops_last' = drops % Wrap /\ drops' = drops
    BY <1>4 DEF Ship!Flush, Ship!Delta
  <2>2. ((drops % Wrap) - (ship_announced % Wrap) + Wrap) % Wrap = drops - ship_announced
    BY <1>1, <1>2, RemainderTells
  <2>3. ship_announced' = ship_announced + (drops - ship_announced)
    BY <1>2, <2>1, <2>2, Zenon
  <2> QED
    BY <1>1, <1>2, <2>1, <2>3 DEF DropsInv
<1>5. ASSUME NEW n \in 1..(Wrap - 1), Ship!T1Drops(n)
      PROVE  DropsInv' /\ (batches' # batches => ship_announced' = drops)
  BY <1>1, <1>2, <1>5 DEF DropsInv, Ship!T1Drops
<1>6. CASE Ship!FlushBatch \/ Ship!FlushLast
  BY <1>4, <1>6 DEF Ship!FlushBatch, Ship!FlushLast
<1>7. CASE Ship!OpenSession \/ Ship!NothingToFlush \/ Ship!Tick \/ Ship!ResendSession \/ Ship!Heartbeat
             \/ Ship!Park \/ Ship!BeginClose \/ Ship!CloseRest \/ Ship!WriteSidecar \/ Ship!CloseKafka
             \/ Ship!CaptureStopped
  BY <1>3, <1>7 DEF Ship!OpenSession, Ship!NothingToFlush, Ship!Tick, Ship!ResendSession,
     Ship!Heartbeat,
     Ship!Park, Ship!BeginClose, Ship!CloseRest, Ship!WriteSidecar, Ship!CloseKafka, Ship!Close,
     Ship!CaptureStopped
<1> QED
  BY <1>5, <1>6, <1>7 DEF Ship!Next

\* A pass that sends nothing to the viewer ends before its interval does.
LEMMA LoopKept ==
  ASSUME ShipInv, Ship!Next
  PROVE  LiveInv'
<1> USE DEF LiveInv, Ship!LiveIsNotSilent, ShipInv, ShipCounted, LoopCounted, Ship!clockVars
<1>1. HeartbeatInterval \in Nat \ {0}
  BY IntervalsFit DEF Ship!IntervalsAssumption
<1>2. CASE Ship!OpenSession
  BY <1>2 DEF Ship!OpenSession
<1>3. CASE Ship!FlushBatch
  BY <1>3 DEF Ship!FlushBatch, Ship!Flush
<1>4. CASE Ship!FlushLast
  BY <1>4 DEF Ship!FlushLast, Ship!Flush
<1>5. CASE Ship!NothingToFlush
  BY <1>5 DEF Ship!NothingToFlush
<1>6. CASE Ship!Tick
  BY <1>6 DEF Ship!Tick
<1>7. CASE Ship!ResendSession
  BY <1>7 DEF Ship!ResendSession
<1>8. CASE Ship!Heartbeat
  <2>1. CASE stopping
    BY <1>8, <2>1 DEF Ship!Heartbeat
  <2>2. CASE ~stopping /\ batches # gate.batches
    BY <1>1, <1>8, <2>2 DEF Ship!Heartbeat, Ship!Due, Ship!Beats
  <2>3. CASE ~stopping /\ batches = gate.batches /\ ship_now - gate.quiet_since >= HeartbeatInterval
    BY <1>1, <1>8, <2>3 DEF Ship!Heartbeat, Ship!Due, Ship!Beats
  <2>4. CASE ~stopping /\ batches = gate.batches /\ ~(ship_now - gate.quiet_since >= HeartbeatInterval)
    BY <1>1, <1>8, <2>4 DEF Ship!Heartbeat, Ship!Due, Ship!Beats
  <2> QED
    BY <2>1, <2>2, <2>3, <2>4
<1>9. CASE Ship!Park
  BY <1>9 DEF Ship!Park
<1>10. CASE Ship!BeginClose \/ Ship!WriteSidecar
  BY <1>10 DEF Ship!BeginClose, Ship!WriteSidecar
<1>11. CASE Ship!CloseRest \/ Ship!CloseKafka
  BY <1>11 DEF Ship!CloseRest, Ship!CloseKafka, Ship!Close
<1>12. CASE Ship!CaptureStopped \/ \E n \in 1..(Wrap - 1) : Ship!T1Drops(n)
  BY <1>12 DEF Ship!CaptureStopped, Ship!T1Drops
<1> QED
  BY <1>2, <1>3, <1>4, <1>5, <1>6, <1>7, <1>8, <1>9, <1>10, <1>11, <1>12 DEF Ship!Next

\* Kafka closes later, or there is none.
LEMMA OneKafka ==
  Ship!Cardinality(sinks \cap {Ship!Kafka}) = IF Ship!Kafka \in sinks THEN 1 ELSE 0
<1>1. ASSUME NEW S
      PROVE  Ship!Cardinality(S) = Cardinality(S)
  BY Zenon DEF Ship!Cardinality, Cardinality
<1>2. sinks \cap {Ship!Kafka} = IF Ship!Kafka \in sinks THEN {Ship!Kafka} ELSE {}
  OBVIOUS
<1> QED
  BY <1>1, <1>2, FS_EmptySet, FS_Singleton

\* One sink that closes takes no more than a half of what is left, when Kafka
\* comes after it.
LEMMA ShareIsEven ==
  ASSUME LoopCounted, NEW later \in {0, 1}
  PROVE  Ship!Share(1, later) = (ship_deadline - ship_now) \div (1 + later)
<1>1. Ship!Max({1 + later, 1}) = 1 + later
  <2>1. CASE later = 0
    BY <2>1 DEF Ship!Max
  <2>2. CASE later = 1
    <3>1. 2 \in {2, 1} /\ \A y \in {2, 1} : 2 >= y
      OBVIOUS
    <3>2. Ship!Max({2, 1}) \in {2, 1} /\ \A y \in {2, 1} : Ship!Max({2, 1}) >= y
      BY <3>1, Zenon DEF Ship!Max
    <3> QED
      BY <2>2, <3>2
  <2> QED
    BY <2>1, <2>2
<1> QED
  BY <1>1 DEF Ship!Share

\* Each sink closes in its share, and what it leaves is Kafka's.
LEMMA CloseKept ==
  ASSUME ShipInv, Ship!Next
  PROVE  CloseInv'
<1> USE DEF CloseInv, Ship!CloseIsFair, ShipInv, ShipCounted
<1>1. Budget \in Nat /\ ship_deadline \in Nat /\ ship_now \in Nat /\ Budget \div 2 \in Nat
  BY IntervalsFit DEF Ship!IntervalsAssumption, LoopCounted
<1>2. CASE Ship!OpenSession \/ Ship!NothingToFlush \/ Ship!Tick \/ Ship!ResendSession \/ Ship!Heartbeat
             \/ Ship!FlushBatch \/ Ship!FlushLast
  <2>1. /\ ship_pc \notin {"rest", "kafka"} /\ ship_pc' \notin {"rest", "kafka"}
        /\ UNCHANGED <<ship_closed, sidecar, sinks, share>>
    BY <1>2 DEF Ship!OpenSession, Ship!NothingToFlush, Ship!Tick, Ship!ResendSession,
       Ship!Heartbeat,
       Ship!FlushBatch, Ship!FlushLast, Ship!Flush, Ship!closeVars
  <2> QED
    BY <2>1
<1>3. CASE Ship!Park \/ Ship!CaptureStopped \/ \E n \in 1..(Wrap - 1) : Ship!T1Drops(n)
  <2>1. /\ ship_pc \notin {"rest", "kafka"} /\ ship_pc' \notin {"rest", "kafka"}
        /\ UNCHANGED <<ship_closed, sidecar, sinks, share>>
    BY <1>3 DEF Ship!Park, Ship!CaptureStopped, Ship!T1Drops, Ship!closeVars
  <2> QED
    BY <2>1
<1>4. CASE Ship!BeginClose
  <2>1. /\ ship_pc = "close" /\ ship_pc' = "rest" /\ ship_deadline' = ship_now + Budget
        /\ UNCHANGED <<ship_now, ship_closed, sidecar, sinks, share>>
    BY <1>4 DEF Ship!BeginClose, Ship!clockVars
  <2> QED
    BY <1>1, <2>1
<1>5. ASSUME Ship!CloseRest
      PROVE  CloseInv'
  <2>1. PICK s \in sinks \ (ship_closed \cup {Ship!Kafka}) :
           ship_pc = "rest" /\ Ship!Close(s, Ship!Cardinality(sinks \cap {Ship!Kafka}))
    BY <1>5, Zenon DEF Ship!CloseRest
  <2> DEFINE later == Ship!Cardinality(sinks \cap {Ship!Kafka})
  <2>2. later = IF Ship!Kafka \in sinks THEN 1 ELSE 0
    BY OneKafka
  <2> HIDE DEF later
  <2>3. /\ ship_closed' = ship_closed \cup {s}
        /\ UNCHANGED <<ship_pc, sinks, ship_deadline, sidecar>>
    BY <2>1 DEF Ship!Close
  <2>4. CASE s = Ship!Udp
    <3>1. UNCHANGED <<share, ship_now>>
      BY <2>1, <2>4 DEF Ship!Close
    <3> QED
      BY <1>1, <2>1, <2>3, <2>4, <3>1
  <2>5. CASE s = Ship!Jsonl
    <3>1. ship_deadline - ship_now = Budget
      BY <2>1, <2>5
    <3>2. PICK h \in Int : h = Budget \div (1 + later) /\ h >= Budget \div 2 /\ h <= Budget
                             /\ (later = 1 => h = Budget \div 2)
      BY <1>1, <2>2
    <3>3. Ship!Share(1, later) = h
      BY <2>2, <3>1, <3>2, ShareIsEven
    <3>4. share' = [share EXCEPT ![s] = h] /\ \E t \in 0..h : ship_now' = ship_now + t
      BY <2>1, <2>5, <3>3 DEF Ship!Close, later
    <3>5. \A r \in ship_closed' \cap Ship!Drains : share'[r] >= Budget \div 2
      BY <2>1, <2>3, <2>5, <3>2, <3>4 DEF LoopCounted
    <3>6. PICK t \in 0..h : ship_now' = ship_now + t
      BY <3>4
    <3>7. /\ ship_now' <= ship_deadline'
          /\ later = 1 => ship_deadline' - ship_now' >= Budget \div 2
      BY <1>1, <2>3, <3>1, <3>2, <3>6
    <3> QED
      BY <2>1, <2>2, <2>3, <2>5, <3>5, <3>7
  <2> QED
    BY <2>1, <2>4, <2>5 DEF LoopCounted
<1>6. CASE Ship!WriteSidecar
  BY <1>6 DEF Ship!WriteSidecar, Ship!clockVars
<1>7. CASE Ship!CloseKafka
  <2>1. /\ ship_pc = "kafka" /\ Ship!Kafka \in sinks \ ship_closed
        /\ ship_closed' = ship_closed \cup {Ship!Kafka}
        /\ UNCHANGED <<ship_pc, sinks, ship_deadline, sidecar>>
    BY <1>7 DEF Ship!CloseKafka, Ship!Close
  <2>2. PICK h \in Int : h = (ship_deadline - ship_now) \div (1 + 0) /\ h = ship_deadline - ship_now
    BY <1>1
  <2>3. Ship!Share(1, 0) = h
    BY <2>2, ShareIsEven
  <2>4. share' = [share EXCEPT ![Ship!Kafka] = h] /\ \E t \in 0..h : ship_now' = ship_now + t
    BY <1>7, <2>3 DEF Ship!CloseKafka, Ship!Close
  <2>5. h >= Budget \div 2
    BY <2>1, <2>2
  <2>6. \A r \in ship_closed' \cap Ship!Drains : share'[r] >= Budget \div 2
    BY <2>1, <2>4, <2>5 DEF LoopCounted
  <2>7. ship_now' <= ship_deadline'
    BY <1>1, <2>1, <2>2, <2>4
  <2> QED
    BY <2>1, <2>6, <2>7
<1> QED
  BY <1>2, <1>3, <1>4, <1>5, <1>6, <1>7 DEF Ship!Next

\* Every step keeps T2's own counts.
LEMMA CountsKept ==
  ASSUME ShipInv, Ship!Next
  PROVE  LoopCounted'
<1>1. /\ Budget \in Nat /\ Wrap \in Nat \ {0}
      /\ \A a \in Nat, b \in Nat : Ship!Delta(a, b) \in Nat
  BY IntervalsFit DEF Ship!IntervalsAssumption, Ship!Delta
<1>2. /\ sinks \subseteq Ship!Kinds /\ share \in [Ship!Kinds -> Int]
      /\ gate \in [batches : Nat, quiet_since : Nat]
      /\ ship_now \in Nat /\ batches \in Nat /\ drops \in Nat /\ drops_last \in Nat
      /\ ship_announced \in Nat /\ heard \in Nat /\ ship_deadline \in Nat
  BY DEF ShipInv, ShipCounted, LoopCounted
<1>3. SUFFICES /\ sinks' \subseteq Ship!Kinds /\ share' \in [Ship!Kinds -> Int]
               /\ gate' \in [batches : Nat, quiet_since : Nat]
               /\ ship_now' \in Nat /\ batches' \in Nat /\ drops' \in Nat /\ drops_last' \in Nat
               /\ ship_announced' \in Nat /\ heard' \in Nat /\ ship_deadline' \in Nat
  BY DEF LoopCounted
<1> USE DEF Ship!clockVars, Ship!closeVars
<1>4. CASE Ship!OpenSession \/ Ship!NothingToFlush \/ Ship!Tick \/ Ship!ResendSession
             \/ Ship!CaptureStopped \/ Ship!WriteSidecar
  BY <1>2, <1>4 DEF Ship!OpenSession, Ship!NothingToFlush, Ship!Tick, Ship!ResendSession,
     Ship!CaptureStopped, Ship!WriteSidecar
<1>5. CASE Ship!FlushBatch \/ Ship!FlushLast
  <2>1. /\ ship_announced' = ship_announced + Ship!Delta(drops % Wrap, drops_last)
        /\ drops_last' = drops % Wrap /\ batches' = batches + 1 /\ heard' = ship_now
        /\ UNCHANGED <<sinks, gate, drops, ship_now, ship_deadline, share>>
    BY <1>5 DEF Ship!FlushBatch, Ship!FlushLast, Ship!Flush
  <2>2. drops % Wrap \in Nat
    BY <1>1, <1>2
  <2>3. Ship!Delta(drops % Wrap, drops_last) \in Nat
    BY <1>1, <1>2, <2>2
  <2> QED
    BY <1>2, <2>1, <2>2, <2>3
<1>6. CASE Ship!Heartbeat
  <2>1. /\ gate' = gate \/ gate' = Ship!Due(gate)
        /\ heard' \in {heard, ship_now}
        /\ UNCHANGED <<sinks, batches, drops, drops_last, ship_announced, ship_now, ship_deadline, share>>
    BY <1>6 DEF Ship!Heartbeat
  <2>2. Ship!Due(gate) \in [batches : Nat, quiet_since : Nat]
    BY <1>2 DEF Ship!Due
  <2> QED
    BY <1>2, <2>1, <2>2
<1>7. CASE Ship!Park
  <2>1. PICK t \in 0..2 : ship_now' = ship_now + t
    BY <1>7 DEF Ship!Park
  <2> QED
    BY <1>2, <1>7, <2>1 DEF Ship!Park
<1>8. CASE Ship!BeginClose
  BY <1>1, <1>2, <1>8 DEF Ship!BeginClose
<1>9. ASSUME NEW n \in 1..(Wrap - 1), Ship!T1Drops(n)
      PROVE  LoopCounted'
  <2>1. /\ drops' = drops + n /\ n \in Nat
        /\ UNCHANGED <<sinks, gate, batches, drops_last, ship_announced, heard, ship_now, ship_deadline, share>>
    BY <1>1, <1>9 DEF Ship!T1Drops
  <2> QED
    BY <1>2, <2>1 DEF LoopCounted
<1>10. ASSUME NEW s \in sinks, NEW later \in {0, 1}, Ship!Close(s, later)
      PROVE  LoopCounted'
  <2>1. PICK h \in Int : Ship!Share(1, later) = h
    BY <1>2, ShareIsEven DEF ShipInv, ShipCounted
  <2>2. /\ share' = [share EXCEPT ![s] = h] \/ share' = share
        /\ ship_now' = ship_now \/ \E t \in 0..h : ship_now' = ship_now + t
        /\ UNCHANGED <<sinks, gate, batches, drops, drops_last, ship_announced, heard, ship_deadline>>
    BY <1>10, <2>1 DEF Ship!Close
  <2>3. ship_now' \in Nat
    BY <1>2, <2>2
  <2> QED
    BY <1>2, <2>2, <2>3 DEF LoopCounted
<1>11. Ship!Cardinality(sinks \cap {Ship!Kafka}) \in {0, 1}
  BY OneKafka
<1>12. CASE Ship!CloseRest
  <2>1. PICK s \in sinks : Ship!Close(s, Ship!Cardinality(sinks \cap {Ship!Kafka}))
    BY <1>12, Zenon DEF Ship!CloseRest
  <2> QED
    BY <1>10, <1>11, <2>1 DEF LoopCounted
<1>13. CASE Ship!CloseKafka
  <2>1. 0 \in {0, 1} /\ Ship!Kafka \in sinks /\ Ship!Close(Ship!Kafka, 0)
    BY <1>13, Zenon DEF Ship!CloseKafka
  <2> QED
    BY <1>10, <2>1 DEF LoopCounted
<1> QED
  BY <1>4, <1>5, <1>6, <1>7, <1>8, <1>9, <1>12, <1>13 DEF Ship!Next, LoopCounted

\* All of it together.
LEMMA ShipInvKept ==
  ASSUME ShipInv, Ship!Next
  PROVE  ShipInv'
BY FailuresKept, RecordingKept, LoopKept, CloseKept, DropsKept, CountsKept DEF ShipInv, ShipCounted

-----------------------------------------------------------------------------
(* T1's message loop.                                                      *)

USE DEF Cap!Cadence, Cap!TimerWait

\* How long the pump may wait for its timer, or for the one it never set.
TimersWait ==
    IF timer = "refuses" THEN TimerSlack + 2 * (Coalesce + CadenceSlack) ELSE Coalesce + CadenceSlack

Reads == [at : Nat, ts : Int, by : {"drain", "message"}]
PumpTypes ==
    /\ cap_pc \in {"wait", "window", "cadence", "pump", "done"}
    /\ {cap_now, fires, due, wake, prev_now, cap_errors, quit_at, delay} \subseteq Nat
    /\ cap_now >= 1
    /\ stamper \in [step : Nat \ {0}, prev_wake : Nat, prev_n : Nat]
    /\ queue \in Seq(Nat) /\ messages \in Seq({"hotkey", "quit"})
    /\ read \in Seq(Reads)

\* What came at t and was not handled yet has not waited long, and will be
\* handled when the wait the thread is in is over.
Pending(t) ==
    /\ t <= cap_now
    /\ cap_pc \in {"wait", "cadence"} => t = cap_now
    /\ cap_pc = "window" => due - t <= TimersWait /\ (IF live THEN prev_now ELSE wake) <= t
    /\ cap_pc \in {"pump", "done"} => cap_now - t <= TimersWait + delay

\* The wait the thread is in starts soon after the last drain, and is short.
PumpInv ==
    /\ wake <= cap_now /\ prev_now <= cap_now /\ fires <= cap_now + Coalesce + CadenceSlack
    /\ cap_pc = "wait" => ~live
    /\ cap_pc = "cadence" => live
    /\ cap_pc \in {"cadence", "pump"} => cap_now - prev_now <= delay
    /\ cap_pc = "window" =>
          /\ cap_now <= due /\ Pending(cap_now)
          /\ live => due - prev_now <= TimersWait + delay
          /\ ~live => due = wake + Coalesce /\ prev_now <= wake

\* Reports wait in the order they came; a quit is the last message there is.
QueueInv ==
    /\ \A i \in DOMAIN queue : Pending(queue[i])
    /\ \A i, j \in DOMAIN queue : i <= j => queue[i] <= queue[j]
    /\ quit_at # 0 /\ cap_pc # "done" =>
          messages # <<>> /\ messages[Len(messages)] = "quit" /\ Pending(quit_at)

\* What was read came before what is queued, and no drain stamped anything
\* later than itself.
ReadInv ==
    /\ \A i \in DOMAIN read :
          /\ read[i].ts <= cap_now /\ read[i].at <= cap_now
          /\ read[i].ts - read[i].at <= TimersWait + delay
          /\ read[i].at - read[i].ts <= TimersWait + delay
          /\ read[i].by = "drain" => read[i].ts <= prev_now
          /\ \A j \in DOMAIN queue : read[i].at <= queue[j]
    /\ \A i, j \in DOMAIN read : i <= j =>
          /\ read[i].at <= read[j].at
          /\ read[i].by = "drain" /\ read[j].by = "drain" => read[i].ts <= read[j].ts

CaptureInv == PumpTypes /\ PumpInv /\ QueueInv /\ ReadInv


\* The larger of two, and the smaller.
LEMMA LargerOfTwo ==
  ASSUME NEW a \in Int, NEW b \in Int
  PROVE  Cap!Max({a, b}) = IF a >= b THEN a ELSE b
<1> DEFINE m == IF a >= b THEN a ELSE b
<1>1. m \in {a, b} /\ \A y \in {a, b} : m >= y
  OBVIOUS
<1> HIDE DEF m
<1>2. Cap!Max({a, b}) \in {a, b} /\ \A y \in {a, b} : Cap!Max({a, b}) >= y
  BY <1>1, Zenon DEF Cap!Max
<1>3. Cap!Max({a, b}) >= a /\ Cap!Max({a, b}) >= b
  BY <1>2
<1> QED
  BY <1>2, <1>3

LEMMA SmallerOfTwo ==
  ASSUME NEW a \in Int, NEW b \in Int
  PROVE  Cap!Min({a, b}) = IF a <= b THEN a ELSE b
<1> DEFINE m == IF a <= b THEN a ELSE b
<1>1. m \in {a, b} /\ \A y \in {a, b} : m <= y
  OBVIOUS
<1> HIDE DEF m
<1>2. Cap!Min({a, b}) \in {a, b} /\ \A y \in {a, b} : Cap!Min({a, b}) <= y
  BY <1>1, Zenon DEF Cap!Min
<1>3. Cap!Min({a, b}) <= a /\ Cap!Min({a, b}) <= b
  BY <1>2
<1> QED
  BY <1>2, <1>3

\* A part of x, and of more parts no less.
LEMMA PartsOf ==
  ASSUME NEW x \in Nat, NEW n \in Nat \ {0}, NEW j \in 0..n, NEW k \in 0..j
  PROVE  /\ (x * j) \div n \in 0..x
         /\ (x * k) \div n <= (x * j) \div n
<1>1. x * j \in Nat /\ x * k \in Nat
  OBVIOUS
<1>2. PICK u \in Nat, v \in Nat : u = x * j /\ v = x * k
  BY <1>1
<1>3. v <= u
  <2>1. x * (j - k) \in Nat /\ x * (j - k) = x * j - x * k
    OBVIOUS
  <2> QED
    BY <1>2, <2>1
<1>4. u <= x * n
  <2>1. x * (n - j) \in Nat /\ x * (n - j) = x * n - x * j
    OBVIOUS
  <2> QED
    BY <1>2, <2>1
<1>5. PICK q \in Int, r \in Int : q = u \div n /\ u = n * q + r /\ r >= 0 /\ r < n
  BY <1>2
<1>6. PICK p \in Int, s \in Int : p = v \div n /\ v = n * p + s /\ s >= 0 /\ s < n
  BY <1>2
<1>7. q >= 0
  <2>1. ~(q <= -1)
    BY <1>2, <1>5
  <2> QED
    BY <2>1
<1>8. q <= x
  <2>1. n * (q - x) <= 0
    BY <1>4, <1>5
  <2>2. ~(q - x >= 1)
    BY <1>5, <2>1
  <2> QED
    BY <1>5, <2>2
<1>9. p <= q
  <2>1. n * (p - q) < n
    BY <1>3, <1>5, <1>6
  <2>2. ~(p - q >= 1)
    BY <1>5, <1>6, <2>1
  <2> QED
    BY <1>5, <1>6, <2>2
<1> QED
  BY <1>2, <1>5, <1>6, <1>7, <1>8, <1>9

\* The constants of the pump, one by one.
LEMMA PumpConstants ==
  /\ Coalesce \in Nat /\ CadenceSlack \in Nat \ {0} /\ TimerSlack \in Nat /\ MaxGap \in Nat
  /\ BufferReports \in Nat \ {0}
  /\ TimersWait \in Nat /\ TimersWait >= Coalesce + CadenceSlack
BY CadenceFits DEF Cap!CadenceAssumption, TimersWait

\* The moment a drain spreads its stamps from.
SpreadsFrom == IF live THEN prev_now ELSE wake

\* The stamps of a drain lie between that moment and now, and never descend.
LEMMA StampsOfDrain ==
  ASSUME PumpTypes, PumpInv, NEW n \in Nat, NEW j \in 0..(n - 1), NEW i \in 0..j
  PROVE  /\ Cap!StampOf(n, j) \in Int
         /\ Cap!StampOf(n, j) <= cap_now /\ SpreadsFrom <= Cap!StampOf(n, j)
         /\ Cap!StampOf(n, i) <= Cap!StampOf(n, j)
<1>1. /\ wake \in Nat /\ prev_now \in Nat /\ cap_now \in Nat /\ stamper.step \in Nat \ {0}
      /\ wake <= cap_now /\ prev_now <= cap_now
  BY DEF PumpTypes, PumpInv
<1>2. BufferReports \in Nat \ {0}
  BY PumpConstants
<1>3. CASE ~live
  <2>1. Cap!StampOf(n, i) = Cap!Stamp(i) /\ Cap!StampOf(n, j) = Cap!Stamp(j)
    BY <1>3 DEF Cap!StampOf
  <2>2. PICK a \in Nat, b \in Nat : a = stamper.step * i /\ b = stamper.step * j /\ a <= b
    <3>1. /\ stamper.step * i \in Nat /\ stamper.step * j \in Nat
          /\ stamper.step * (j - i) = stamper.step * j - stamper.step * i /\ stamper.step * (j - i) >= 0
      BY <1>1
    <3> QED
      BY <3>1
  <2>3. ASSUME NEW k \in Nat, NEW c \in Nat, c = stamper.step * k
        PROVE  Cap!Stamp(k) = IF wake + c <= cap_now THEN wake + c ELSE cap_now
    <3>1. Cap!Max({cap_now, wake}) = cap_now
      BY <1>1, LargerOfTwo
    <3>2. Cap!Min({wake + c, cap_now}) = IF wake + c <= cap_now THEN wake + c ELSE cap_now
      BY <1>1, SmallerOfTwo
    <3> QED
      BY <2>3, <3>1, <3>2 DEF Cap!Stamp
  <2>4. /\ Cap!Stamp(i) = IF wake + a <= cap_now THEN wake + a ELSE cap_now
        /\ Cap!Stamp(j) = IF wake + b <= cap_now THEN wake + b ELSE cap_now
    BY <2>2, <2>3
  <2> QED
    BY <1>1, <1>3, <2>1, <2>2, <2>4 DEF SpreadsFrom
<1>4. CASE live
  <2>1. ASSUME NEW k \in 0..(n - 1), k >= BufferReports
        PROVE  Cap!StampOf(n, k) = cap_now
    <3>1. PICK d \in Int : d = k \div BufferReports /\ d # 0
      BY <1>2, <2>1
    <3>2. PICK m \in Int : m = k % BufferReports
      BY <1>2
    <3>3. PICK l \in Nat \ {0} : l = Cap!Max({Cap!InCall(n, d), 1})
      <4>1. Cap!InCall(n, d) \in Int
        <5>1. n - d * BufferReports \in Int
          BY <1>2, <3>1
        <5> QED
          BY <1>2, <5>1, SmallerOfTwo DEF Cap!InCall
      <4> QED
        BY <4>1, LargerOfTwo
    <3>4. Cap!StampOf(n, k) = Cap!Spread(cap_now, Cap!InCall(n, d), m)
      BY <1>4, <3>1, <3>2 DEF Cap!StampOf, Cap!Call
    <3>5. Cap!Spread(cap_now, Cap!InCall(n, d), m) = cap_now + (((cap_now - cap_now) * (m + 1)) \div l)
      BY <3>3 DEF Cap!Spread
    <3>6. (cap_now - cap_now) * (m + 1) = 0
      BY <1>1, <3>2
    <3>7. 0 \div l = 0
      BY <3>3
    <3> QED
      BY <1>1, <3>4, <3>5, <3>6, <3>7
  <2> DEFINE first == IF n <= BufferReports THEN n ELSE BufferReports
  <2>2. ASSUME NEW k \in 0..(n - 1), k < BufferReports
        PROVE  /\ Cap!StampOf(n, k) = prev_now + (((cap_now - prev_now) * (k + 1)) \div first)
               /\ k + 1 \in 1..first
    <3>1. k \div BufferReports = 0 /\ k % BufferReports = k
      BY <1>2, <2>2
    <3>2. Cap!InCall(n, 0) = first
      BY <1>2, SmallerOfTwo DEF Cap!InCall
    <3>3. first \in Nat \ {0} /\ k + 1 \in 1..first
      BY <1>2, <2>2
    <3>4. Cap!Max({first, 1}) = first
      BY <3>3, LargerOfTwo
    <3>5. Cap!StampOf(n, k) = Cap!Spread(prev_now, first, k)
      BY <1>4, <3>1, <3>2 DEF Cap!StampOf, Cap!Call, Cap!SpreadFrom
    <3> QED
      BY <3>3, <3>4, <3>5 DEF Cap!Spread
  <2>3. ASSUME NEW k \in 0..(n - 1), k < BufferReports
        PROVE  Cap!StampOf(n, k) \in prev_now..cap_now
    <3>1. first \in Nat \ {0} /\ cap_now - prev_now \in Nat /\ k + 1 \in 0..first
      BY <1>1, <1>2, <2>2, <2>3
    <3> HIDE DEF first
    <3>2. ((cap_now - prev_now) * (k + 1)) \div first \in 0..(cap_now - prev_now)
      BY <3>1, PartsOf
    <3> QED
      BY <1>1, <2>2, <2>3, <3>2
  <2>4. CASE j >= BufferReports
    <3>1. CASE i >= BufferReports
      BY <1>1, <1>4, <2>1, <2>4, <3>1 DEF SpreadsFrom
    <3>2. CASE i < BufferReports
      BY <1>1, <1>2, <1>4, <2>1, <2>3, <2>4, <3>2 DEF SpreadsFrom
    <3> QED
      BY <1>2, <3>1, <3>2
  <2>5. CASE j < BufferReports
    <3>1. first \in Nat \ {0} /\ cap_now - prev_now \in Nat /\ j + 1 \in 0..first /\ i + 1 \in 0..(j + 1)
      BY <1>1, <1>2, <2>2, <2>5
    <3>2. /\ Cap!StampOf(n, i) = prev_now + (((cap_now - prev_now) * (i + 1)) \div first)
          /\ Cap!StampOf(n, j) = prev_now + (((cap_now - prev_now) * (j + 1)) \div first)
      BY <1>2, <2>2, <2>5
    <3> HIDE DEF first
    <3>3. PICK a \in Int, b \in Int :
             /\ a = ((cap_now - prev_now) * (i + 1)) \div first
             /\ b = ((cap_now - prev_now) * (j + 1)) \div first
             /\ a <= b
      <4>1. ((cap_now - prev_now) * (i + 1)) \div first <= ((cap_now - prev_now) * (j + 1)) \div first
        BY <3>1, PartsOf
      <4>2. /\ ((cap_now - prev_now) * (i + 1)) \div first \in Int
            /\ ((cap_now - prev_now) * (j + 1)) \div first \in Int
        BY <3>1, PartsOf
      <4> QED
        BY <4>1, <4>2
    <3>4. Cap!StampOf(n, i) <= Cap!StampOf(n, j)
      BY <1>1, <3>2, <3>3
    <3> QED
      BY <1>1, <1>4, <2>3, <2>5, <3>4 DEF SpreadsFrom
  <2> QED
    BY <1>2, <2>4, <2>5
<1> QED
  BY <1>3, <1>4

-----------------------------------------------------------------------------
(* Sequences.                                                              *)

\* What a sequence is made of, how it grows at its end, and what its head and
\* tail are.
LEMMA LengthOf ==
  ASSUME NEW S, NEW s \in Seq(S)
  PROVE  /\ Len(s) \in Nat /\ DOMAIN s = 1..Len(s)
         /\ \A k \in 1..Len(s) : s[k] \in S
         /\ s # <<>> => Len(s) > 0
<1>1. Len(s) \in Nat /\ DOMAIN s = 1..Len(s) /\ s \in [1..Len(s) -> S]
  BY LenProperties, Zenon
<1>2. s # <<>> => Len(s) \in Nat \ {0}
  BY EmptySeq, Zenon
<1> QED
  BY <1>1, <1>2

LEMMA AddedAtEnd ==
  ASSUME NEW S, NEW s \in Seq(S), NEW e \in S
  PROVE  /\ Append(s, e) \in Seq(S) /\ Len(Append(s, e)) = Len(s) + 1 /\ Append(s, e) # <<>>
         /\ \A k \in 1..Len(s) : Append(s, e)[k] = s[k]
         /\ Append(s, e)[Len(s) + 1] = e
BY AppendProperties, LengthOf

LEMMA FirstAndRest ==
  ASSUME NEW S, NEW s \in Seq(S), s # <<>>
  PROVE  /\ Head(s) = s[1] /\ Head(s) \in S /\ Len(s) > 0
         /\ Tail(s) \in Seq(S) /\ Len(Tail(s)) = Len(s) - 1
         /\ \A k \in 1..Len(Tail(s)) : Tail(s)[k] = s[k + 1]
<1>1. /\ Head(s) \in S /\ Tail(s) \in Seq(S) /\ Len(Tail(s)) = Len(s) - 1
      /\ \A k \in 1..Len(Tail(s)) : Tail(s)[k] = s[k + 1]
  BY HeadTailProperties, Zenon
<1>2. Len(s) > 0
  BY LengthOf
<1>3. Head(s) = s[1]
  OBVIOUS
<1> QED
  BY <1>1, <1>2, <1>3

\* What a drain appends, report by report.
LEMMA DrainedReports ==
  ASSUME PumpTypes, PumpInv
  PROVE  LET n == Len(queue) IN
         /\ Cap!ReadAll(n) \in Seq(Reads) /\ Len(Cap!ReadAll(n)) = Len(read) + n
         /\ \A k \in 1..Len(read) : Cap!ReadAll(n)[k] = read[k]
         /\ \A k \in 1..n :
              /\ Cap!ReadAll(n)[Len(read) + k].at = queue[k]
              /\ Cap!ReadAll(n)[Len(read) + k].ts = Cap!StampOf(n, k - 1)
              /\ Cap!ReadAll(n)[Len(read) + k].by = "drain"
<1>1. read \in Seq(Reads) /\ queue \in Seq(Nat)
  BY DEF PumpTypes
<1>2. Len(read) \in Nat /\ Len(queue) \in Nat /\ \A k \in 1..Len(queue) : queue[k] \in Nat
  BY <1>1, LengthOf
<1>3. PICK n \in Nat : n = Len(queue)
  BY <1>2
<1> DEFINE new == [k \in 1..n |-> [at |-> queue[k], ts |-> Cap!StampOf(n, k - 1), by |-> "drain"]]
<1>4. \A k \in 1..n : Cap!StampOf(n, k - 1) \in Int
  <2> SUFFICES ASSUME NEW k \in 1..n PROVE Cap!StampOf(n, k - 1) \in Int
    OBVIOUS
  <2>1. k - 1 \in 0..(n - 1) /\ 0 \in 0..(k - 1)
    OBVIOUS
  <2> QED
    BY <2>1, StampsOfDrain
<1>5. new \in [1..n -> Reads]
  BY <1>2, <1>3, <1>4 DEF Reads
<1>6. new \in Seq(Reads) /\ Len(new) = n
  <2>1. new \in Seq(Reads)
    BY <1>5, SeqDef
  <2> QED
    BY <1>5, <2>1, LengthOf
<1>7. \A k \in 1..n : new[k].at = queue[k] /\ new[k].ts = Cap!StampOf(n, k - 1) /\ new[k].by = "drain"
  OBVIOUS
<1>8. Cap!ReadAll(n) = read \o new
  BY DEF Cap!ReadAll
<1> HIDE DEF new
<1>9. /\ read \o new \in Seq(Reads) /\ Len(read \o new) = Len(read) + n
      /\ \A k \in 1..(Len(read) + n) :
            (read \o new)[k] = IF k <= Len(read) THEN read[k] ELSE new[k - Len(read)]
  BY <1>1, <1>6, ConcatProperties
<1>10. \A k \in 1..Len(read) : (read \o new)[k] = read[k]
  BY <1>2, <1>3, <1>9
<1>11. \A k \in 1..n : (read \o new)[Len(read) + k] = new[k]
  <2> SUFFICES ASSUME NEW k \in 1..n PROVE (read \o new)[Len(read) + k] = new[k]
    OBVIOUS
  <2>1. Len(read) + k \in 1..(Len(read) + n) /\ ~(Len(read) + k <= Len(read)) /\ (Len(read) + k) - Len(read) = k
    BY <1>2, <1>3
  <2> QED
    BY <1>9, <2>1
<1> QED
  BY <1>3, <1>7, <1>8, <1>9, <1>10, <1>11

-----------------------------------------------------------------------------
(* The steps of the pump.                                                  *)

\* After a drain the timer fires within a cadence.
LEMMA FiredIsSoon ==
  ASSUME PumpTypes, PumpInv
  PROVE  Cap!Fired \in Nat /\ Cap!Fired <= cap_now + Coalesce + CadenceSlack
<1> DEFINE c == Coalesce + CadenceSlack
<1>1. /\ c \in Nat \ {0} /\ cap_now \in Nat /\ fires \in Nat /\ fires <= cap_now + c
      /\ Coalesce \in Nat /\ CadenceSlack \in Nat
  BY PumpConstants DEF PumpTypes, PumpInv
<1>2. CASE fires = 0
  BY <1>1, <1>2 DEF Cap!Fired
<1>3. CASE fires # 0
  <2>1. Cap!Fired = fires + c * Cap!Max({(cap_now - fires) \div c + 1, 0})
    BY <1>3 DEF Cap!Fired
  <2> HIDE DEF c
  <2>2. PICK q \in Int, r \in Int :
           q = (cap_now - fires) \div c /\ cap_now - fires = c * q + r /\ r >= 0 /\ r < c
    BY <1>1
  <2>3. q >= -1
    <3>1. c * (q + 1) > (-1) * c
      BY <1>1, <2>2
    <3>2. ~(q + 1 <= -1)
      BY <1>1, <2>2, <3>1
    <3> QED
      BY <2>2, <3>2
  <2>4. Cap!Max({q + 1, 0}) = q + 1
    BY <2>2, <2>3, LargerOfTwo
  <2>5. Cap!Fired = fires + c * (q + 1)
    BY <2>1, <2>2, <2>4
  <2>6. c * (q + 1) = c * q + c
    BY <1>1, <2>2
  <2>7. Cap!Fired = cap_now - r + c
    BY <1>1, <2>2, <2>5, <2>6
  <2>8. Cap!Fired \in Nat /\ Cap!Fired <= cap_now + c
    BY <1>1, <2>2, <2>7
  <2> QED
    BY <1>1, <2>8 DEF c
<1> QED
  BY <1>2, <1>3

\* The estimate stays at least one count.
LEMMA EstimateIsSound ==
  ASSUME PumpTypes, PumpInv, NEW n \in Nat
  PROVE  Cap!Refined(n) \in [step : Nat \ {0}, prev_wake : Nat, prev_n : Nat]
<1>1. stamper \in [step : Nat \ {0}, prev_wake : Nat, prev_n : Nat] /\ wake \in Nat
  BY DEF PumpTypes
<1>2. ASSUME NEW x \in Int
      PROVE  Cap!Clamp(x, 1, Cap!MaxStep) \in Nat \ {0}
  <2>1. Cap!MaxStep = Coalesce + 1 /\ Coalesce \in Nat
    BY PumpConstants, LargerOfTwo DEF Cap!MaxStep
  <2>2. PICK m \in Int : m = Cap!Min({x, Cap!MaxStep})
    BY <2>1, SmallerOfTwo
  <2>3. Cap!Max({1, m}) \in Nat \ {0}
    BY LargerOfTwo
  <2> QED
    BY <2>2, <2>3 DEF Cap!Clamp
<1> DEFINE gap == wake - stamper.prev_wake
           observed == Cap!Clamp(gap \div Cap!Max({stamper.prev_n, 1}), 1, Cap!MaxStep)
           step == IF stamper.prev_n > 0 /\ n > 0 /\ gap > 0 /\ gap <= MaxGap
                   THEN Cap!Clamp((stamper.step * 3 + observed) \div 4, 1, Cap!MaxStep) ELSE stamper.step
<1>3. observed \in Nat
  <2>1. Cap!Max({stamper.prev_n, 1}) \in Nat \ {0}
    <3>1. PICK p \in Nat : p = stamper.prev_n
      BY <1>1
    <3>2. Cap!Max({p, 1}) \in Nat \ {0}
      BY LargerOfTwo
    <3> QED
      BY <3>1, <3>2
  <2>2. gap \div Cap!Max({stamper.prev_n, 1}) \in Int
    BY <1>1, <2>1
  <2> QED
    BY <1>2, <2>2
<1> HIDE DEF observed
<1>4. (stamper.step * 3 + observed) \div 4 \in Int
  BY <1>1, <1>3
<1>5. step \in Nat \ {0}
  BY <1>1, <1>2, <1>4
<1>6. Cap!Refined(n) = IF n = 0 THEN [stamper EXCEPT !.step = step]
                       ELSE [step |-> step, prev_wake |-> wake, prev_n |-> n]
  BY DEF Cap!Refined, observed
<1> HIDE DEF step
<1> QED
  BY <1>1, <1>5, <1>6

\* What the end of a drain sets, whatever it read.
LEMMA DrainEnds ==
  ASSUME PumpTypes, PumpInv, NEW n \in Nat, Cap!EndDrain(n)
  PROVE  /\ prev_now' = cap_now /\ cap_pc' = "pump"
         /\ stamper' \in [step : Nat \ {0}, prev_wake : Nat, prev_n : Nat]
         /\ fires' \in Nat /\ fires' <= cap_now + Coalesce + CadenceSlack
         /\ UNCHANGED <<cap_now, timer, due, wake, messages, quit_at, delay>>
<1>1. /\ fires' = IF live /\ ~Cap!NextLive(n) THEN 0 ELSE Cap!Fired
      /\ stamper' = IF live THEN stamper ELSE Cap!Refined(n)
      /\ prev_now' = cap_now /\ cap_pc' = "pump"
      /\ UNCHANGED <<cap_now, timer, due, wake, messages, quit_at, delay>>
  BY DEF Cap!EndDrain
<1>2. fires' \in Nat /\ fires' <= cap_now + Coalesce + CadenceSlack
  <2>1. fires' \in {0, Cap!Fired} /\ cap_now \in Nat
    BY <1>1 DEF PumpTypes
  <2> QED
    BY <2>1, FiredIsSoon, PumpConstants
<1>3. stamper' \in [step : Nat \ {0}, prev_wake : Nat, prev_n : Nat]
  BY <1>1, EstimateIsSound DEF PumpTypes
<1> QED
  BY <1>1, <1>2, <1>3

\* Every step keeps the types.
LEMMA TypesKept ==
  ASSUME PumpTypes, PumpInv, Cap!Next
  PROVE  PumpTypes'
<1>1. /\ cap_now \in Nat /\ fires \in Nat /\ due \in Nat /\ wake \in Nat /\ prev_now \in Nat
      /\ cap_errors \in Nat /\ quit_at \in Nat /\ delay \in Nat /\ cap_now >= 1
      /\ stamper \in [step : Nat \ {0}, prev_wake : Nat, prev_n : Nat]
      /\ queue \in Seq(Nat) /\ messages \in Seq({"hotkey", "quit"}) /\ read \in Seq(Reads)
      /\ cap_pc \in {"wait", "window", "cadence", "pump", "done"}
  BY DEF PumpTypes
<1>2. Len(queue) \in Nat
  BY <1>1, LengthOf
<1>3. SUFFICES /\ cap_pc' \in {"wait", "window", "cadence", "pump", "done"}
               /\ cap_now' \in Nat /\ fires' \in Nat /\ due' \in Nat /\ wake' \in Nat /\ prev_now' \in Nat
               /\ cap_errors' \in Nat /\ quit_at' \in Nat /\ delay' \in Nat /\ cap_now' >= 1
               /\ stamper' \in [step : Nat \ {0}, prev_wake : Nat, prev_n : Nat]
               /\ queue' \in Seq(Nat) /\ messages' \in Seq({"hotkey", "quit"}) /\ read' \in Seq(Reads)
  BY DEF PumpTypes
<1>4. CASE Cap!Wake
  BY <1>1, <1>4, PumpConstants DEF Cap!Wake
<1>5. CASE Cap!WaitForTimer
  <2>1. Cap!Max({fires, cap_now}) \in Nat
    <3>1. fires \in Nat /\ cap_now \in Nat
      BY <1>1
    <3> QED
      BY ONLY <3>1, LargerOfTwo
  <2> QED
    BY <1>1, <1>5, <2>1, PumpConstants DEF Cap!WaitForTimer
<1>6. CASE Cap!Drain
  <2>1. Cap!EndDrain(Len(queue)) /\ read' = Cap!ReadAll(Len(queue)) /\ queue' = <<>> /\ UNCHANGED cap_errors
    BY <1>6 DEF Cap!Drain
  <2>2. Cap!ReadAll(Len(queue)) \in Seq(Reads) /\ <<>> \in Seq(Nat)
    BY DrainedReports, EmptySeq
  <2>3. /\ cap_pc' = "pump" /\ prev_now' = cap_now /\ fires' \in Nat
        /\ stamper' \in [step : Nat \ {0}, prev_wake : Nat, prev_n : Nat]
        /\ UNCHANGED <<cap_now, timer, due, wake, messages, quit_at, delay>>
    BY <1>2, <2>1, DrainEnds
  <2> QED
    BY <1>1, <2>1, <2>2, <2>3
<1>7. CASE Cap!ReadFails
  <2>1. Cap!EndDrain(0) /\ cap_errors' = cap_errors + 1 /\ UNCHANGED <<read, queue>>
    BY <1>7 DEF Cap!ReadFails
  <2>2. /\ cap_pc' = "pump" /\ prev_now' = cap_now /\ fires' \in Nat
        /\ stamper' \in [step : Nat \ {0}, prev_wake : Nat, prev_n : Nat]
        /\ UNCHANGED <<cap_now, timer, due, wake, messages, quit_at, delay>>
    BY <2>1, DrainEnds
  <2> QED
    BY <1>1, <2>1, <2>2
<1>8. CASE Cap!HandleInput
  <2>1. queue # <<>> /\ queue' = Tail(queue)
        /\ read' = Append(read, [at |-> Head(queue), ts |-> cap_now, by |-> "message"])
        /\ UNCHANGED <<cap_pc, cap_now, timer, fires, due, live, wake, prev_now, stamper,
                       messages,
                       cap_errors, quit_at, delay>>
    BY <1>8 DEF Cap!HandleInput
  <2>2. Head(queue) \in Nat /\ Tail(queue) \in Seq(Nat)
    BY <1>1, <2>1, FirstAndRest
  <2>3. [at |-> Head(queue), ts |-> cap_now, by |-> "message"] \in Reads
    BY <1>1, <2>2 DEF Reads
  <2>4. read' \in Seq(Reads)
    BY <1>1, <2>1, <2>3, AddedAtEnd
  <2> QED
    BY <1>1, <2>1, <2>2, <2>4
<1>9. CASE Cap!Dispatch
  <2>1. messages # <<>> /\ messages' = Tail(messages) /\ cap_pc' \in {"done", "pump"} /\ fires' \in {0, fires}
        /\ UNCHANGED <<cap_now, timer, due, live, wake, prev_now, stamper, queue, read,
                       cap_errors, quit_at, delay>>
    BY <1>9 DEF Cap!Dispatch
  <2>2. Tail(messages) \in Seq({"hotkey", "quit"})
    BY <1>1, <2>1, FirstAndRest
  <2> QED
    BY <1>1, <2>1, <2>2
<1>10. CASE Cap!EndPump
  BY <1>1, <1>10 DEF Cap!EndPump
<1>11. CASE Cap!Report
  <2>1. queue' = Append(queue, cap_now)
        /\ UNCHANGED <<cap_pc, cap_now, timer, fires, due, live, wake, prev_now, stamper,
                       messages, read,
                       cap_errors, quit_at, delay>>
    BY <1>11 DEF Cap!Report
  <2>2. queue' \in Seq(Nat)
    BY <1>1, <2>1, AddedAtEnd
  <2> QED
    BY <1>1, <2>1, <2>2
<1>12. ASSUME NEW m \in {"hotkey", "quit"}, Cap!Post(m)
       PROVE  PumpTypes'
  <2>1. messages' = Append(messages, m) /\ quit_at' \in {cap_now, quit_at}
        /\ UNCHANGED <<cap_pc, cap_now, timer, fires, due, live, wake, prev_now, stamper,
                       queue, read,
                       cap_errors, delay>>
    BY <1>12 DEF Cap!Post
  <2>2. messages' \in Seq({"hotkey", "quit"})
    BY <1>1, <2>1, AddedAtEnd
  <2> QED
    BY <1>1, <2>1, <2>2 DEF PumpTypes
<1>13. CASE Cap!Passes
  BY <1>1, <1>13 DEF Cap!Passes
<1> QED
  BY <1>4, <1>5, <1>6, <1>7, <1>8, <1>9, <1>10, <1>11, <1>12, <1>13 DEF Cap!Next, PumpTypes

\* What the invariant says of the moments, without the sequences.
LEMMA PumpFacts ==
  ASSUME PumpTypes, PumpInv
  PROVE  /\ cap_now \in Nat /\ fires \in Nat /\ due \in Nat /\ wake \in Nat /\ prev_now \in Nat
         /\ quit_at \in Nat /\ delay \in Nat
         /\ cap_pc \in {"wait", "window", "cadence", "pump", "done"}
         /\ wake <= cap_now /\ prev_now <= cap_now /\ fires <= cap_now + Coalesce + CadenceSlack
         /\ Coalesce \in Nat /\ CadenceSlack \in Nat \ {0} /\ TimerSlack \in Nat
         /\ TimersWait \in Nat /\ TimersWait >= Coalesce + CadenceSlack
BY PumpConstants DEF PumpTypes, PumpInv

\* A step that reads and enters nothing keeps what is queued, when whatever
\* was pending stays so.
LEMMA QueueStays ==
  ASSUME PumpTypes, QueueInv, UNCHANGED <<queue, messages, quit_at>>, cap_pc # "done",
         \A t \in Nat : Pending(t) => Pending(t)'
  PROVE  QueueInv'
<1>1. \A i \in DOMAIN queue : queue[i] \in Nat
  <2>1. queue \in Seq(Nat)
    BY DEF PumpTypes
  <2> QED
    BY <2>1, LengthOf
<1>2. quit_at \in Nat
  BY DEF PumpTypes
<1>3. (\A i \in DOMAIN queue : Pending(queue[i]))'
  <2> SUFFICES ASSUME NEW i \in DOMAIN queue PROVE Pending(queue[i])'
    OBVIOUS
  <2>1. PICK t \in Nat : t = queue[i]
    BY <1>1
  <2>2. Pending(t) /\ Pending(t)'
    BY <2>1 DEF QueueInv
  <2> QED
    BY <2>1, <2>2 DEF Pending, TimersWait
<1>4. (\A i, j \in DOMAIN queue : i <= j => queue[i] <= queue[j])'
  BY DEF QueueInv
<1>5. (quit_at # 0 /\ cap_pc # "done" =>
          messages # <<>> /\ messages[Len(messages)] = "quit" /\ Pending(quit_at))'
  <2> SUFFICES ASSUME quit_at # 0
               PROVE  messages # <<>> /\ messages[Len(messages)] = "quit" /\ Pending(quit_at)'
    OBVIOUS
  <2>1. PICK t \in Nat : t = quit_at
    BY <1>2
  <2>2. messages # <<>> /\ messages[Len(messages)] = "quit" /\ Pending(t)'
    BY <2>1 DEF QueueInv
  <2> QED
    BY <2>1, <2>2 DEF Pending, TimersWait
<1> QED
  BY <1>3, <1>4, <1>5 DEF QueueInv

\* What was read stays as it is while time passes.
LEMMA ReadStays ==
  ASSUME PumpTypes, PumpTypes', ReadInv, UNCHANGED <<queue, read, timer>>,
         cap_now <= cap_now', prev_now <= prev_now', delay <= delay'
  PROVE  ReadInv'
<1>1. /\ cap_now \in Nat /\ prev_now \in Nat /\ delay \in Nat
      /\ cap_now' \in Nat /\ prev_now' \in Nat /\ delay' \in Nat
      /\ TimersWait \in Nat /\ TimersWait' = TimersWait
  BY PumpConstants DEF PumpTypes, TimersWait
<1>2. \A i \in DOMAIN read : read[i].at \in Nat /\ read[i].ts \in Int
  <2>1. read \in Seq(Reads)
    BY DEF PumpTypes
  <2>2. \A i \in DOMAIN read : read[i] \in Reads
    BY <2>1, LengthOf
  <2> QED
    BY <2>2 DEF Reads
<1>3. \A i \in DOMAIN read :
         /\ read[i].ts <= cap_now' /\ read[i].at <= cap_now'
         /\ read[i].ts - read[i].at <= TimersWait + delay'
         /\ read[i].at - read[i].ts <= TimersWait + delay'
         /\ read[i].by = "drain" => read[i].ts <= prev_now'
  <2> SUFFICES ASSUME NEW i \in DOMAIN read
               PROVE  /\ read[i].ts <= cap_now' /\ read[i].at <= cap_now'
                      /\ read[i].ts - read[i].at <= TimersWait + delay'
                      /\ read[i].at - read[i].ts <= TimersWait + delay'
                      /\ read[i].by = "drain" => read[i].ts <= prev_now'
    OBVIOUS
  <2>1. /\ read[i].ts <= cap_now /\ read[i].at <= cap_now
        /\ read[i].ts - read[i].at <= TimersWait + delay
        /\ read[i].at - read[i].ts <= TimersWait + delay
        /\ read[i].by = "drain" => read[i].ts <= prev_now
    BY DEF ReadInv
  <2> QED
    BY <1>1, <1>2, <2>1
<1> QED
  BY <1>1, <1>3 DEF ReadInv

\* A message starts the window at the moment it came.
LEMMA WakeKept ==
  ASSUME CaptureInv, PumpTypes', Cap!Wake
  PROVE  CaptureInv'
<1> USE DEF CaptureInv
<1>1. /\ cap_pc = "wait" /\ cap_pc' = "window" /\ wake' = cap_now /\ due' = cap_now + Coalesce
      /\ fires' \in {fires, cap_now + Coalesce}
      /\ UNCHANGED <<cap_now, timer, live, prev_now, queue, messages, read, quit_at, delay>>
  BY DEF Cap!Wake
<1>2. ~live /\ TimersWait' = TimersWait
  BY <1>1 DEF PumpInv, TimersWait
<1>3. \A t \in Nat : Pending(t) => Pending(t)'
  BY <1>1, <1>2, PumpFacts DEF Pending
<1>4. PumpInv'
  <2>1. wake' <= cap_now' /\ prev_now' <= cap_now' /\ fires' <= cap_now' + Coalesce + CadenceSlack
    BY <1>1, PumpFacts
  <2>2. cap_now' <= due' /\ due' = wake' + Coalesce /\ prev_now' <= wake'
    BY <1>1, PumpFacts
  <2>3. Pending(cap_now)'
    BY <1>1, <1>2, PumpFacts DEF Pending
  <2> QED
    BY <1>1, <1>2, <2>1, <2>2, <2>3 DEF PumpInv
<1>5. QueueInv'
  BY <1>1, <1>3, QueueStays
<1>6. ReadInv'
  BY <1>1, ReadStays, PumpFacts
<1> QED
  BY <1>4, <1>5, <1>6

\* In a live stream the wait is for the timer, or one cadence without it.
LEMMA WaitForTimerKept ==
  ASSUME CaptureInv, PumpTypes', Cap!WaitForTimer
  PROVE  CaptureInv'
<1> USE DEF CaptureInv
<1>1. /\ cap_pc = "cadence" /\ cap_pc' = "window"
      /\ UNCHANGED <<cap_now, timer, fires, live, wake, prev_now, queue, messages, read,
                     quit_at, delay>>
  BY DEF Cap!WaitForTimer
<1>2. live /\ cap_now - prev_now <= delay /\ TimersWait' = TimersWait
  BY <1>1 DEF PumpInv, TimersWait
<1>3. due' \in Nat /\ due' >= cap_now /\ due' <= cap_now + TimersWait
  <2> SUFFICES due' >= cap_now /\ due' <= cap_now + TimersWait
    BY DEF PumpTypes
  <2>1. CASE fires # 0
    <3>1. due' = Cap!Max({fires, cap_now})
      BY <2>1 DEF Cap!WaitForTimer
    <3>2. due' = IF fires >= cap_now THEN fires ELSE cap_now
      BY <3>1, PumpFacts, LargerOfTwo
    <3> QED
      BY <3>2, PumpFacts
  <2>2. CASE fires = 0
    BY <2>2, PumpFacts DEF Cap!WaitForTimer, TimersWait
  <2> QED
    BY <2>1, <2>2
<1>4. \A t \in Nat : Pending(t) => Pending(t)'
  BY <1>1, <1>2, <1>3, PumpFacts DEF Pending
<1>5. PumpInv'
  <2>1. cap_now' <= due' /\ due' - prev_now' <= TimersWait' + delay'
    BY <1>1, <1>2, <1>3, PumpFacts
  <2>2. Pending(cap_now)'
    BY <1>1, <1>2, <1>3, PumpFacts DEF Pending
  <2> QED
    BY <1>1, <1>2, <2>1, <2>2, PumpFacts DEF PumpInv
<1>6. QueueInv'
  BY <1>1, <1>4, QueueStays
<1>7. ReadInv'
  BY <1>1, ReadStays, PumpFacts
<1> QED
  BY <1>5, <1>6, <1>7

\* Whatever a drain read: it ends a wait that was short for all who waited.
LEMMA DrainSettles ==
  ASSUME CaptureInv, NEW n \in Nat, Cap!EndDrain(n), cap_pc = "window", cap_now >= due
  PROVE  /\ PumpInv' /\ cap_now = due
         /\ \A t \in Nat : Pending(t) => Pending(t)'
         /\ UNCHANGED <<cap_now, timer, messages, quit_at, delay>>
         /\ prev_now' = cap_now /\ cap_pc' = "pump"
<1> USE DEF CaptureInv
<1>1. /\ prev_now' = cap_now /\ cap_pc' = "pump" /\ fires' \in Nat
      /\ fires' <= cap_now + Coalesce + CadenceSlack
      /\ UNCHANGED <<cap_now, timer, due, wake, messages, quit_at, delay>>
  BY DrainEnds
<1>2. cap_now = due /\ TimersWait' = TimersWait
  BY <1>1, PumpFacts DEF PumpInv, TimersWait
<1>3. PumpInv'
  BY <1>1, PumpFacts DEF PumpInv
<1>4. \A t \in Nat : Pending(t) => Pending(t)'
  BY <1>1, <1>2, PumpFacts DEF Pending
<1> QED
  BY <1>1, <1>2, <1>3, <1>4

\* A read of the buffer that fails ends the wait all the same.
LEMMA ReadFailsKept ==
  ASSUME CaptureInv, PumpTypes', Cap!ReadFails
  PROVE  CaptureInv'
<1> USE DEF CaptureInv
<1>1. cap_pc = "window" /\ cap_now >= due /\ Cap!EndDrain(0) /\ UNCHANGED <<read, queue>>
  BY DEF Cap!ReadFails
<1>2. /\ PumpInv' /\ \A t \in Nat : Pending(t) => Pending(t)'
      /\ UNCHANGED <<cap_now, timer, messages, quit_at, delay>> /\ prev_now' = cap_now
  BY <1>1, DrainSettles
<1>3. QueueInv'
  BY <1>1, <1>2, QueueStays
<1>4. ReadInv'
  BY <1>1, <1>2, ReadStays, PumpFacts
<1> QED
  BY <1>2, <1>3, <1>4

\* A drain reads what waited, and stamps it between the last drain and now.
LEMMA DrainKept ==
  ASSUME CaptureInv, PumpTypes', Cap!Drain
  PROVE  CaptureInv'
<1> USE DEF CaptureInv
<1>1. queue \in Seq(Nat) /\ read \in Seq(Reads)
  BY DEF PumpTypes
<1>2. PICK n \in Nat, r \in Nat :
         /\ n = Len(queue) /\ r = Len(read) /\ DOMAIN queue = 1..n /\ DOMAIN read = 1..r
         /\ \A k \in 1..n : queue[k] \in Nat
         /\ \A k \in 1..r : read[k].at \in Nat /\ read[k].ts \in Int
  <2>1. \A k \in DOMAIN read : read[k] \in Reads
    BY <1>1, LengthOf
  <2>2. \A k \in DOMAIN read : read[k].at \in Nat /\ read[k].ts \in Int
    BY <2>1 DEF Reads
  <2>3. Len(queue) \in Nat /\ DOMAIN queue = 1..Len(queue) /\ \A k \in 1..Len(queue) : queue[k] \in Nat
    BY <1>1, LengthOf
  <2>4. Len(read) \in Nat /\ DOMAIN read = 1..Len(read)
    BY <1>1, LengthOf
  <2> QED
    BY <2>2, <2>3, <2>4
<1>3. /\ cap_pc = "window" /\ cap_now >= due /\ Cap!EndDrain(n) /\ queue' = <<>>
      /\ read' = Cap!ReadAll(n)
  BY <1>2 DEF Cap!Drain
<1>4. /\ PumpInv' /\ cap_now = due /\ \A t \in Nat : Pending(t) => Pending(t)'
      /\ UNCHANGED <<cap_now, timer, messages, quit_at, delay>>
      /\ prev_now' = cap_now /\ cap_pc' = "pump"
  BY <1>3, DrainSettles
<1>5. TimersWait' = TimersWait
  BY <1>4 DEF TimersWait
<1>6. DOMAIN queue' = {}
  BY <1>3
<1>7. QueueInv'
  <2>1. (\A i \in DOMAIN queue : Pending(queue[i]))'
    BY <1>6
  <2>2. (\A i, j \in DOMAIN queue : i <= j => queue[i] <= queue[j])'
    BY <1>6
  <2>3. (quit_at # 0 /\ cap_pc # "done" =>
          messages # <<>> /\ messages[Len(messages)] = "quit" /\ Pending(quit_at))'
    <3> SUFFICES ASSUME quit_at # 0
                 PROVE  messages # <<>> /\ messages[Len(messages)] = "quit" /\ Pending(quit_at)'
      BY <1>4
    <3>1. PICK t \in Nat : t = quit_at
      BY PumpFacts
    <3>2. messages # <<>> /\ messages[Len(messages)] = "quit" /\ Pending(t)'
      BY <1>3, <1>4, <3>1 DEF QueueInv
    <3> QED
      BY <1>4, <3>1, <3>2 DEF Pending, TimersWait
  <2> QED
    BY <2>1, <2>2, <2>3 DEF QueueInv
\* The old reports, and the new ones.
<1>8. \A i \in 1..r : read'[i] = read[i]
  BY <1>2, <1>3, DrainedReports
<1>9. /\ DOMAIN read' = 1..(r + n)
      /\ \A k \in 1..n : /\ read'[r + k].at = queue[k] /\ read'[r + k].ts = Cap!StampOf(n, k - 1)
                         /\ read'[r + k].by = "drain"
  <2>1. Cap!ReadAll(n) \in Seq(Reads) /\ Len(Cap!ReadAll(n)) = r + n
    BY <1>2, DrainedReports
  <2>2. DOMAIN Cap!ReadAll(n) = 1..(r + n)
    BY <2>1, LengthOf
  <2> QED
    BY <1>2, <1>3, <2>2, DrainedReports
<1>10. SpreadsFrom \in Nat /\ prev_now <= SpreadsFrom /\ due - SpreadsFrom <= TimersWait + delay
  <2>1. CASE live
    <3>1. due - prev_now <= TimersWait + delay
      BY <1>3, <2>1 DEF PumpInv
    <3> QED
      BY <2>1, <3>1, PumpFacts DEF SpreadsFrom
  <2>2. CASE ~live
    <3>1. due = wake + Coalesce /\ prev_now <= wake
      BY <1>3, <2>2 DEF PumpInv
    <3> QED
      BY <2>2, <3>1, PumpFacts DEF SpreadsFrom
  <2> QED
    BY <2>1, <2>2
<1>11. ASSUME NEW k \in 1..n
       PROVE  /\ Cap!StampOf(n, k - 1) \in Int
              /\ SpreadsFrom <= Cap!StampOf(n, k - 1) /\ Cap!StampOf(n, k - 1) <= cap_now
              /\ \A l \in 1..k : Cap!StampOf(n, l - 1) <= Cap!StampOf(n, k - 1)
  <2>1. k - 1 \in 0..(n - 1) /\ 0 \in 0..(k - 1) /\ \A l \in 1..k : l - 1 \in 0..(k - 1)
    OBVIOUS
  <2> QED
    BY <2>1, StampsOfDrain
<1>12. ASSUME NEW k \in 1..n
       PROVE  queue[k] \in Nat /\ queue[k] <= cap_now /\ SpreadsFrom <= queue[k] /\ due - queue[k] <= TimersWait
  BY <1>2, <1>3 DEF QueueInv, Pending, SpreadsFrom
<1>13. ASSUME NEW i \in DOMAIN read', i \notin 1..r
       PROVE  \E k \in 1..n : i = r + k
  <2>1. i \in 1..(r + n)
    BY <1>9
  <2>2. i - r \in 1..n /\ i = r + (i - r)
    BY <1>13, <2>1
  <2> QED
    BY <2>2
\* Each of them by itself.
<1>14. ASSUME NEW i \in DOMAIN read'
       PROVE  /\ read'[i].ts <= cap_now /\ read'[i].at <= cap_now
              /\ read'[i].ts - read'[i].at <= TimersWait + delay
              /\ read'[i].at - read'[i].ts <= TimersWait + delay
              /\ read'[i].by = "drain" => read'[i].ts <= cap_now
  <2>1. CASE i \in 1..r
    <3>1. /\ read[i].ts <= cap_now /\ read[i].at <= cap_now
          /\ read[i].ts - read[i].at <= TimersWait + delay
          /\ read[i].at - read[i].ts <= TimersWait + delay
      BY <1>2, <2>1 DEF ReadInv
    <3> QED
      BY <1>8, <2>1, <3>1
  <2>2. CASE i \notin 1..r
    <3>1. PICK k \in 1..n : i = r + k
      BY <1>13, <2>2
    <3>2. PICK s \in Int, t \in Nat : s = Cap!StampOf(n, k - 1) /\ t = queue[k]
      BY <1>11, <1>12
    <3>3. read'[i].ts = s /\ read'[i].at = t
      BY <1>9, <3>1, <3>2
    <3>4. /\ SpreadsFrom <= s /\ s <= cap_now
          /\ t <= cap_now /\ SpreadsFrom <= t /\ due - t <= TimersWait
      BY <1>11, <1>12, <3>2
    <3>5. s <= cap_now /\ t <= cap_now /\ s - t <= TimersWait + delay /\ t - s <= TimersWait + delay
      BY <1>4, <1>10, <3>4, PumpFacts
    <3> QED
      BY <3>3, <3>5
  <2> QED
    BY <2>1, <2>2
\* And any two of them.
<1>15. ASSUME NEW i \in DOMAIN read', NEW j \in DOMAIN read', i <= j
       PROVE  /\ read'[i].at <= read'[j].at
              /\ read'[i].by = "drain" /\ read'[j].by = "drain" => read'[i].ts <= read'[j].ts
  <2>1. CASE j \in 1..r
    <3>1. i \in 1..r
      BY <1>9, <1>15, <2>1
    <3> QED
      BY <1>2, <1>8, <1>15, <2>1, <3>1 DEF ReadInv
  <2>2. CASE j \notin 1..r /\ i \in 1..r
    <3>1. PICK k \in 1..n : j = r + k
      BY <1>13, <2>2
    <3>2. read'[j].at = queue[k] /\ read'[j].ts = Cap!StampOf(n, k - 1)
      BY <1>9, <3>1
    <3>3. read[i].at <= queue[k]
      BY <1>2, <2>2 DEF ReadInv
    <3>4. read[i].by = "drain" => read[i].ts <= prev_now
      BY <1>2, <2>2 DEF ReadInv
    <3>5. read[i].by = "drain" => read[i].ts <= Cap!StampOf(n, k - 1)
      <4>1. PICK s \in Int, a \in Int : s = Cap!StampOf(n, k - 1) /\ a = read[i].ts
        BY <1>2, <1>11, <2>2
      <4>2. SpreadsFrom <= s
        BY <1>11, <4>1
      <4> QED
        BY <1>10, <3>4, <4>1, <4>2, PumpFacts
    <3> QED
      BY <1>8, <2>2, <3>2, <3>3, <3>5
  <2>3. CASE j \notin 1..r /\ i \notin 1..r
    <3>1. PICK k \in 1..n : j = r + k
      BY <1>13, <2>3
    <3>2. PICK l \in 1..n : i = r + l
      BY <1>13, <2>3
    <3>3. l \in 1..k
      BY <1>15, <3>1, <3>2
    <3>4. queue[l] <= queue[k]
      BY <1>2, <3>3 DEF QueueInv
    <3>5. Cap!StampOf(n, l - 1) <= Cap!StampOf(n, k - 1)
      BY <1>11, <3>3
    <3> QED
      BY <1>9, <3>1, <3>2, <3>4, <3>5
  <2> QED
    BY <2>1, <2>2, <2>3
<1>16. ReadInv'
  BY <1>4, <1>5, <1>6, <1>14, <1>15 DEF ReadInv
<1> QED
  BY <1>4, <1>7, <1>16

\* A report handled from the queue is the one that waited longest.
LEMMA HandleInputKept ==
  ASSUME CaptureInv, PumpTypes', Cap!HandleInput
  PROVE  CaptureInv'
<1> USE DEF CaptureInv
<1>1. queue \in Seq(Nat) /\ read \in Seq(Reads)
  BY DEF PumpTypes
<1>2. /\ cap_pc = "pump" /\ queue # <<>> /\ queue' = Tail(queue)
      /\ read' = Append(read, [at |-> Head(queue), ts |-> cap_now, by |-> "message"])
      /\ UNCHANGED <<cap_pc, cap_now, timer, fires, due, live, wake, prev_now, messages,
                     quit_at, delay>>
  BY DEF Cap!HandleInput
<1>3. PICK n \in Nat, r \in Nat :
         /\ n = Len(queue) /\ r = Len(read) /\ DOMAIN queue = 1..n /\ DOMAIN read = 1..r
         /\ \A k \in 1..n : queue[k] \in Nat
         /\ \A k \in 1..r : read[k].at \in Nat /\ read[k].ts \in Int
  <2>1. \A k \in DOMAIN read : read[k] \in Reads
    BY <1>1, LengthOf
  <2>2. \A k \in DOMAIN read : read[k].at \in Nat /\ read[k].ts \in Int
    BY <2>1 DEF Reads
  <2>3. Len(queue) \in Nat /\ DOMAIN queue = 1..Len(queue) /\ \A k \in 1..Len(queue) : queue[k] \in Nat
    BY <1>1, LengthOf
  <2>4. Len(read) \in Nat /\ DOMAIN read = 1..Len(read)
    BY <1>1, LengthOf
  <2> QED
    BY <2>2, <2>3, <2>4
<1>4. Head(queue) = queue[1] /\ 1 \in 1..n
  BY <1>1, <1>2, <1>3, FirstAndRest
<1>5. DOMAIN queue' = 1..(n - 1) /\ \A k \in 1..(n - 1) : queue'[k] = queue[k + 1] /\ k + 1 \in 1..n
  <2>1. Tail(queue) \in Seq(Nat) /\ Len(Tail(queue)) = n - 1
        /\ \A k \in 1..(n - 1) : Tail(queue)[k] = queue[k + 1]
    BY <1>1, <1>2, <1>3, FirstAndRest
  <2>2. DOMAIN Tail(queue) = 1..(n - 1)
    BY <2>1, LengthOf
  <2> QED
    BY <1>2, <1>3, <2>1, <2>2
<1>6. /\ DOMAIN read' = 1..(r + 1) /\ \A k \in 1..r : read'[k] = read[k]
      /\ read'[r + 1] = [at |-> Head(queue), ts |-> cap_now, by |-> "message"]
  <2> DEFINE e == [at |-> Head(queue), ts |-> cap_now, by |-> "message"]
  <2>1. e \in Reads
    BY <1>3, <1>4, PumpFacts DEF Reads
  <2> HIDE DEF e
  <2>2. Append(read, e) \in Seq(Reads) /\ Len(Append(read, e)) = r + 1
        /\ (\A k \in 1..r : Append(read, e)[k] = read[k]) /\ Append(read, e)[r + 1] = e
    BY <1>1, <1>3, <2>1, AddedAtEnd
  <2>3. DOMAIN Append(read, e) = 1..(r + 1)
    BY <2>2, LengthOf
  <2> QED
    BY <1>2, <2>2, <2>3 DEF e
<1>7. TimersWait' = TimersWait
  BY <1>2 DEF TimersWait
<1>8. \A t \in Nat : Pending(t) => Pending(t)'
  BY <1>2, <1>7, PumpFacts DEF Pending
<1>9. PumpInv'
  BY <1>2, <1>7, PumpFacts DEF PumpInv
<1>10. QueueInv'
  <2>1. (\A i \in DOMAIN queue : Pending(queue[i]))'
    <3> SUFFICES ASSUME NEW i \in DOMAIN queue' PROVE Pending(queue[i])'
      OBVIOUS
    <3>1. PICK t \in Nat : t = queue[i + 1] /\ t = queue'[i] /\ i + 1 \in DOMAIN queue
      BY <1>3, <1>5
    <3>2. Pending(t)'
      BY <1>8, <3>1 DEF QueueInv
    <3> QED
      BY <3>1, <3>2 DEF Pending, TimersWait
  <2>2. (\A i, j \in DOMAIN queue : i <= j => queue[i] <= queue[j])'
    <3> SUFFICES ASSUME NEW i \in DOMAIN queue', NEW j \in DOMAIN queue', i <= j
                 PROVE  queue'[i] <= queue'[j]
      OBVIOUS
    <3>1. i + 1 \in DOMAIN queue /\ j + 1 \in DOMAIN queue /\ i + 1 <= j + 1
      BY <1>3, <1>5
    <3> QED
      BY <1>5, <3>1 DEF QueueInv
  <2>3. (quit_at # 0 /\ cap_pc # "done" =>
          messages # <<>> /\ messages[Len(messages)] = "quit" /\ Pending(quit_at))'
    <3> SUFFICES ASSUME quit_at # 0
                 PROVE  messages # <<>> /\ messages[Len(messages)] = "quit" /\ Pending(quit_at)'
      BY <1>2
    <3>1. PICK t \in Nat : t = quit_at
      BY PumpFacts
    <3>2. messages # <<>> /\ messages[Len(messages)] = "quit" /\ Pending(t)'
      BY <1>2, <1>8, <3>1 DEF QueueInv
    <3> QED
      BY <1>2, <3>1, <3>2 DEF Pending, TimersWait
  <2> QED
    BY <2>1, <2>2, <2>3 DEF QueueInv
\* The report that is read is the one that waited longest.
<1>11. PICK h \in Nat :
          /\ h = queue[1] /\ Head(queue) = h /\ h <= cap_now /\ cap_now - h <= TimersWait + delay
          /\ \A k \in 1..n : h <= queue[k]
          /\ \A k \in 1..r : read[k].at <= h
  <2>1. queue[1] \in Nat /\ Pending(queue[1])
    BY <1>3, <1>4 DEF QueueInv
  <2>2. \A k \in 1..n : queue[1] <= queue[k]
    BY <1>3, <1>4 DEF QueueInv
  <2>3. \A k \in 1..r : read[k].at <= queue[1]
    BY <1>3, <1>4 DEF ReadInv
  <2> QED
    BY <1>2, <1>4, <2>1, <2>2, <2>3 DEF Pending
<1>12. read'[r + 1].at = h /\ read'[r + 1].ts = cap_now /\ read'[r + 1].by = "message"
  BY <1>6, <1>11
<1>13. ASSUME NEW i \in DOMAIN read'
       PROVE  /\ read'[i].ts <= cap_now /\ read'[i].at <= cap_now
              /\ read'[i].ts - read'[i].at <= TimersWait + delay
              /\ read'[i].at - read'[i].ts <= TimersWait + delay
              /\ read'[i].by = "drain" => read'[i].ts <= prev_now
              /\ \A j \in DOMAIN queue' : read'[i].at <= queue'[j]
  <2>1. CASE i \in 1..r
    <3>1. read'[i] = read[i] /\ i \in DOMAIN read
      BY <1>3, <1>6, <2>1
    <3>2. \A j \in DOMAIN queue' : read[i].at <= queue'[j]
      BY <1>3, <1>5, <3>1 DEF ReadInv
    <3> QED
      BY <3>1, <3>2 DEF ReadInv
  <2>2. CASE i = r + 1
    <3>1. \A j \in DOMAIN queue' : h <= queue'[j]
      BY <1>5, <1>11
    <3>2. cap_now - cap_now = 0 /\ h - cap_now <= TimersWait + delay
      BY <1>11, PumpFacts
    <3> QED
      BY <1>11, <1>12, <2>2, <3>1, <3>2, PumpFacts
  <2> QED
    BY <1>3, <1>6, <2>1, <2>2
<1>14. ASSUME NEW i \in DOMAIN read', NEW j \in DOMAIN read', i <= j
       PROVE  /\ read'[i].at <= read'[j].at
              /\ read'[i].by = "drain" /\ read'[j].by = "drain" => read'[i].ts <= read'[j].ts
  <2>1. CASE j \in 1..r
    <3>1. i \in 1..r
      BY <1>3, <1>6, <1>14, <2>1
    <3> QED
      BY <1>3, <1>6, <1>14, <2>1, <3>1 DEF ReadInv
  <2>2. CASE j = r + 1 /\ i \in 1..r
    <3>1. read'[i].at = read[i].at
      BY <1>6, <2>2
    <3> QED
      BY <1>11, <1>12, <2>2, <3>1
  <2>3. CASE j = r + 1 /\ i = r + 1
    BY <1>12, <2>3
  <2> QED
    BY <1>3, <1>6, <1>14, <2>1, <2>2, <2>3
<1>15. ReadInv'
  BY <1>2, <1>7, <1>13, <1>14 DEF ReadInv
<1> QED
  BY <1>9, <1>10, <1>15

\* Every message is handled before the quit, and nothing after it.
LEMMA DispatchKept ==
  ASSUME CaptureInv, PumpTypes', Cap!Dispatch
  PROVE  CaptureInv'
<1> USE DEF CaptureInv
<1>1. /\ cap_pc = "pump" /\ messages # <<>> /\ messages' = Tail(messages)
      /\ cap_pc' = (IF Head(messages) = "quit" THEN "done" ELSE "pump") /\ fires' \in {0, fires}
      /\ UNCHANGED <<cap_now, timer, due, live, wake, prev_now, queue, read, quit_at, delay>>
  BY DEF Cap!Dispatch
<1>2. TimersWait' = TimersWait
  BY <1>1 DEF TimersWait
<1>3. \A t \in Nat : Pending(t) => Pending(t)'
  BY <1>1, <1>2, PumpFacts DEF Pending
<1>4. PumpInv'
  BY <1>1, <1>2, PumpFacts DEF PumpInv
<1>5. (\A i \in DOMAIN queue : Pending(queue[i]))'
  <2> SUFFICES ASSUME NEW i \in DOMAIN queue PROVE Pending(queue[i])'
    BY <1>1
  <2>1. queue[i] \in Nat
    <3>1. queue \in Seq(Nat)
      BY DEF PumpTypes
    <3> QED
      BY <3>1, LengthOf
  <2>2. PICK t \in Nat : t = queue[i] /\ Pending(t)
    BY <2>1 DEF QueueInv
  <2>3. Pending(t)'
    BY <1>3, <2>2
  <2> QED
    BY <1>1, <2>2, <2>3 DEF Pending, TimersWait
\* A message that is not the quit stands before it.
<1>6. (quit_at # 0 /\ cap_pc # "done" =>
          messages # <<>> /\ messages[Len(messages)] = "quit" /\ Pending(quit_at))'
  <2> SUFFICES ASSUME quit_at # 0, Head(messages) # "quit"
               PROVE  messages' # <<>> /\ messages'[Len(messages')] = "quit" /\ Pending(quit_at)'
    BY <1>1
  <2>1. messages \in Seq({"hotkey", "quit"}) /\ messages[Len(messages)] = "quit" /\ Pending(quit_at)
    BY <1>1 DEF QueueInv, PumpTypes
  <2>2. PICK l \in Nat \ {0} : l = Len(messages)
    BY <1>1, <2>1, LengthOf
  <2>3. l # 1
    BY <1>1, <2>1, <2>2, FirstAndRest
  <2>4. /\ messages' \in Seq({"hotkey", "quit"}) /\ Len(messages') = l - 1
        /\ \A k \in 1..(l - 1) : messages'[k] = messages[k + 1]
    BY <1>1, <2>1, <2>2, FirstAndRest
  <2>5. l - 1 \in 1..(l - 1) /\ (l - 1) + 1 = l
    BY <2>3
  <2>6. messages'[l - 1] = "quit"
    BY <2>1, <2>2, <2>4, <2>5
  <2>7. messages' # <<>>
    <3>1. Len(<<>>) = 0
      OBVIOUS
    <3> QED
      BY <2>4, <2>5, <3>1
  <2>8. PICK t \in Nat : t = quit_at /\ Pending(t)'
    BY <1>3, <2>1, PumpFacts
  <2> QED
    BY <1>1, <2>4, <2>6, <2>7, <2>8 DEF Pending, TimersWait
<1>7. QueueInv'
  BY <1>1, <1>5, <1>6 DEF QueueInv
<1>8. ReadInv'
  BY <1>1, ReadStays, PumpFacts
<1> QED
  BY <1>4, <1>7, <1>8

\* The thread waits again when nothing is left, so no quit is pending.
LEMMA EndPumpKept ==
  ASSUME CaptureInv, PumpTypes', Cap!EndPump
  PROVE  CaptureInv'
<1> USE DEF CaptureInv
<1>1. /\ cap_pc = "pump" /\ queue = <<>> /\ messages = <<>>
      /\ cap_pc' = (IF live THEN "cadence" ELSE "wait")
      /\ UNCHANGED <<cap_now, timer, fires, due, live, wake, prev_now, queue, messages,
                     read, quit_at, delay>>
  BY DEF Cap!EndPump
<1>2. TimersWait' = TimersWait
  BY <1>1 DEF TimersWait
<1>3. PumpInv'
  BY <1>1, <1>2, PumpFacts DEF PumpInv
<1>4. QueueInv'
  <2>1. quit_at = 0
    BY <1>1 DEF QueueInv
  <2>2. DOMAIN queue' = {}
    BY <1>1
  <2> QED
    BY <1>1, <2>1, <2>2 DEF QueueInv
<1>5. ReadInv'
  BY <1>1, ReadStays, PumpFacts
<1> QED
  BY <1>3, <1>4, <1>5

\* A report comes while the thread waits for it, or soon will.
LEMMA ReportKept ==
  ASSUME CaptureInv, PumpTypes', Cap!Report
  PROVE  CaptureInv'
<1> USE DEF CaptureInv
<1>1. queue \in Seq(Nat) /\ read \in Seq(Reads)
  BY DEF PumpTypes
<1>2. /\ cap_pc # "done" /\ queue' = Append(queue, cap_now)
      /\ UNCHANGED <<cap_pc, cap_now, timer, fires, due, live, wake, prev_now, messages,
                     read, quit_at, delay>>
  BY DEF Cap!Report
<1>3. PICK n \in Nat :
         n = Len(queue) /\ DOMAIN queue = 1..n /\ \A k \in 1..n : queue[k] \in Nat
  BY <1>1, LengthOf
<1>4. /\ DOMAIN queue' = 1..(n + 1) /\ \A k \in 1..n : queue'[k] = queue[k]
      /\ queue'[n + 1] = cap_now
  <2>1. cap_now \in Nat
    BY PumpFacts
  <2>2. Append(queue, cap_now) \in Seq(Nat) /\ Len(Append(queue, cap_now)) = n + 1
        /\ (\A k \in 1..n : Append(queue, cap_now)[k] = queue[k])
        /\ Append(queue, cap_now)[n + 1] = cap_now
    BY <1>1, <1>3, <2>1, AddedAtEnd
  <2>3. DOMAIN Append(queue, cap_now) = 1..(n + 1)
    BY <2>2, LengthOf
  <2> QED
    BY <1>2, <2>2, <2>3
<1>5. TimersWait' = TimersWait
  BY <1>2 DEF TimersWait
<1>6. PumpInv'
  <2>1. cap_pc = "window" => Pending(cap_now)'
    BY <1>2, <1>5 DEF PumpInv, Pending
  <2> QED
    BY <1>2, <1>5, <2>1, PumpFacts DEF PumpInv
<1>7. Pending(cap_now)
  BY <1>2, PumpFacts DEF PumpInv, Pending
<1>8. \A t \in Nat : Pending(t) => Pending(t)'
  BY <1>2, <1>5, PumpFacts DEF Pending
<1>9. (\A i \in DOMAIN queue : Pending(queue[i]))'
  <2> SUFFICES ASSUME NEW i \in DOMAIN queue' PROVE Pending(queue[i])'
    OBVIOUS
  <2>1. queue'[i] \in Nat /\ Pending(queue'[i])
    <3>1. CASE i \in 1..n
      BY <1>3, <1>4, <3>1 DEF QueueInv
    <3>2. CASE i = n + 1
      BY <1>4, <1>7, <3>2, PumpFacts
    <3> QED
      BY <1>3, <1>4, <3>1, <3>2
  <2>2. PICK t \in Nat : t = queue'[i] /\ Pending(t)'
    BY <1>8, <2>1
  <2> QED
    BY <2>2 DEF Pending, TimersWait
<1>10. (\A i, j \in DOMAIN queue : i <= j => queue[i] <= queue[j])'
  <2> SUFFICES ASSUME NEW i \in DOMAIN queue', NEW j \in DOMAIN queue', i <= j
               PROVE  queue'[i] <= queue'[j]
    OBVIOUS
  <2>1. CASE j \in 1..n
    BY <1>3, <1>4, <2>1 DEF QueueInv
  <2>2. CASE j = n + 1 /\ i \in 1..n
    <3>1. queue[i] <= cap_now
      BY <1>3, <2>2 DEF QueueInv, Pending
    <3> QED
      BY <1>4, <2>2, <3>1
  <2>3. CASE j = n + 1 /\ i = n + 1
    BY <1>4, <2>3, PumpFacts
  <2> QED
    BY <1>3, <1>4, <2>1, <2>2, <2>3
<1>11. (quit_at # 0 /\ cap_pc # "done" =>
          messages # <<>> /\ messages[Len(messages)] = "quit" /\ Pending(quit_at))'
  <2> SUFFICES ASSUME quit_at # 0
               PROVE  messages # <<>> /\ messages[Len(messages)] = "quit" /\ Pending(quit_at)'
    BY <1>2
  <2>1. PICK t \in Nat : t = quit_at
    BY PumpFacts
  <2>2. messages # <<>> /\ messages[Len(messages)] = "quit" /\ Pending(t)'
    BY <1>2, <1>8, <2>1 DEF QueueInv
  <2> QED
    BY <1>2, <2>1, <2>2 DEF Pending, TimersWait
<1>12. QueueInv'
  BY <1>9, <1>10, <1>11 DEF QueueInv
<1>13. ASSUME NEW i \in DOMAIN read, NEW j \in DOMAIN queue'
       PROVE  read[i].at <= queue'[j]
  <2>1. CASE j \in 1..n
    BY <1>3, <1>4, <2>1 DEF ReadInv
  <2>2. CASE j = n + 1
    BY <1>4, <2>2 DEF ReadInv
  <2> QED
    BY <1>3, <1>4, <2>1, <2>2
<1>14. ReadInv'
  BY <1>2, <1>5, <1>13 DEF ReadInv
<1> QED
  BY <1>6, <1>12, <1>14

\* So does a quit, and it is the last message.
LEMMA PostKept ==
  ASSUME CaptureInv, PumpTypes', NEW m \in {"hotkey", "quit"}, Cap!Post(m)
  PROVE  CaptureInv'
<1> USE DEF CaptureInv
<1>1. /\ quit_at = 0 /\ cap_pc # "done" /\ messages' = Append(messages, m)
      /\ quit_at' = (IF m = "quit" THEN cap_now ELSE quit_at)
      /\ UNCHANGED <<cap_pc, cap_now, timer, fires, due, live, wake, prev_now, queue, read,
                     delay>>
  BY DEF Cap!Post
<1>2. TimersWait' = TimersWait
  BY <1>1 DEF TimersWait
<1>3. PumpInv'
  <2>1. cap_pc = "window" => Pending(cap_now)'
    BY <1>1, <1>2 DEF PumpInv, Pending
  <2> QED
    BY <1>1, <1>2, <2>1, PumpFacts DEF PumpInv
<1>4. Pending(cap_now)'
  BY <1>1, <1>2, PumpFacts DEF PumpInv, Pending
<1>5. (\A i \in DOMAIN queue : Pending(queue[i]))'
  BY <1>1, <1>2 DEF QueueInv, Pending
<1>6. (quit_at # 0 /\ cap_pc # "done" =>
          messages # <<>> /\ messages[Len(messages)] = "quit" /\ Pending(quit_at))'
  <2> SUFFICES ASSUME quit_at' # 0
               PROVE  messages' # <<>> /\ messages'[Len(messages')] = "quit" /\ Pending(quit_at)'
    OBVIOUS
  <2>1. m = "quit" /\ quit_at' = cap_now
    BY <1>1
  <2>2. messages' \in Seq({"hotkey", "quit"}) /\ messages \in Seq({"hotkey", "quit"})
    BY DEF PumpTypes
  <2>3. messages' # <<>> /\ messages'[Len(messages')] = m
    BY <1>1, <2>2, AddedAtEnd
  <2>4. Pending(quit_at)'
    BY <1>1, <1>4, <2>1 DEF Pending, TimersWait
  <2> QED
    BY <2>1, <2>3, <2>4
<1>7. QueueInv'
  BY <1>1, <1>5, <1>6 DEF QueueInv
<1>8. ReadInv'
  BY <1>1, ReadStays, PumpFacts
<1> QED
  BY <1>3, <1>7, <1>8

\* Time passes in the wait with nothing there, up to the end of a window, and
\* in the pump only while the thread is kept from running.
LEMMA PassesKept ==
  ASSUME CaptureInv, PumpTypes', Cap!Passes
  PROVE  CaptureInv'
<1> USE DEF CaptureInv
<1>1. /\ cap_now' = cap_now + 1 /\ delay' \in Nat
      /\ UNCHANGED <<cap_pc, timer, fires, due, live, wake, prev_now, queue, messages,
                     read, quit_at>>
      /\ \/ cap_pc = "wait" /\ queue = <<>> /\ messages = <<>> /\ delay' = delay
         \/ cap_pc = "window" /\ cap_now < due /\ delay' = delay
         \/ cap_pc = "pump" /\ delay' = delay + 1
  BY DEF Cap!Passes, Cap!Woken, PumpTypes
<1>2. TimersWait' = TimersWait
  BY <1>1 DEF TimersWait
<1>3. ReadInv'
  <2>1. PumpTypes /\ PumpInv /\ ReadInv
    OBVIOUS
  <2> HIDE DEF CaptureInv
  <2>2. cap_now \in Nat /\ delay \in Nat /\ prev_now \in Nat
    BY <2>1, PumpFacts
  <2>3. cap_now <= cap_now' /\ prev_now <= prev_now' /\ delay <= delay'
    BY <1>1, <2>2
  <2> QED
    BY <1>1, <2>1, <2>3, ReadStays
<1>4. CASE cap_pc = "wait"
  <2>1. queue = <<>> /\ messages = <<>> /\ delay' = delay
    BY <1>1, <1>4
  <2>2. PumpInv'
    <3>1. PumpTypes /\ PumpInv
      OBVIOUS
    <3> HIDE DEF CaptureInv
    <3>2. ~live /\ cap_now \in Nat /\ wake \in Nat /\ prev_now \in Nat /\ fires \in Nat
          /\ wake <= cap_now /\ prev_now <= cap_now /\ fires <= cap_now + Coalesce + CadenceSlack
          /\ Coalesce \in Nat /\ CadenceSlack \in Nat
      BY <1>4, <3>1, PumpFacts DEF PumpInv
    <3> QED
      BY <1>1, <1>4, <2>1, <3>2 DEF PumpInv
  <2>3. quit_at = 0
    BY <1>4, <2>1 DEF QueueInv
  <2>4. DOMAIN queue' = {}
    BY <1>1, <2>1
  <2>5. QueueInv'
    BY <1>1, <2>3, <2>4 DEF QueueInv
  <2> QED
    BY <1>3, <2>2, <2>5
<1>5. CASE cap_pc = "window"
  <2>1. cap_now < due /\ delay' = delay /\ cap_pc' = "window" /\ cap_now' = cap_now + 1
    BY <1>1, <1>5
  <2>2. \A t \in Nat : Pending(t) => Pending(t)'
    BY <1>1, <1>2, <1>5, <2>1, PumpFacts DEF Pending
  <2>3. Pending(cap_now)'
    BY <1>1, <1>2, <1>5, <2>1, PumpFacts DEF PumpInv, Pending
  <2>4. PumpInv'
    BY <1>1, <1>2, <1>5, <2>1, <2>3, PumpFacts DEF PumpInv
  <2> QED
    BY <1>1, <1>3, <1>5, <2>2, <2>4, QueueStays
<1>6. CASE cap_pc = "pump"
  <2>1. delay' = delay + 1 /\ cap_pc' = "pump" /\ cap_now' = cap_now + 1
    BY <1>1, <1>6
  <2>2. \A t \in Nat : Pending(t) => Pending(t)'
    BY <1>1, <1>2, <1>6, <2>1, PumpFacts DEF Pending
  <2>3. PumpInv'
    <3>1. cap_now - prev_now <= delay
      BY <1>6 DEF PumpInv
    <3>2. cap_now' - prev_now' <= delay'
      BY <1>1, <2>1, <3>1, PumpFacts
    <3>3. wake' <= cap_now' /\ prev_now' <= cap_now' /\ fires' <= cap_now' + Coalesce + CadenceSlack
      BY <1>1, <2>1, PumpFacts
    <3> QED
      BY <2>1, <3>2, <3>3 DEF PumpInv
  <2> QED
    BY <1>1, <1>3, <1>6, <2>2, <2>3, QueueStays
<1> QED
  BY <1>1, <1>4, <1>5, <1>6

\* The pump starts with nothing read and nothing waiting.
LEMMA CaptureInvInit == MCInit => CaptureInv
<1> SUFFICES ASSUME MCInit PROVE CaptureInv
  OBVIOUS
<1>1. /\ cap_pc = "wait" /\ cap_now = 1 /\ fires = 0 /\ due = 0 /\ live = FALSE /\ wake = 0 /\ prev_now = 0
      /\ stamper = [step |-> 1, prev_wake |-> 0, prev_n |-> 0] /\ queue = <<>> /\ messages = <<>>
      /\ read = <<>> /\ cap_errors = 0 /\ quit_at = 0 /\ delay = 0
  BY DEF MCInit, Cap!Init
<1>2. /\ \A S : <<>> \in Seq(S)
      /\ DOMAIN queue = {} /\ DOMAIN read = {}
  BY <1>1, EmptySeq
<1>3. PumpTypes
  <2>1. stamper \in [step : Nat \ {0}, prev_wake : Nat, prev_n : Nat]
    BY <1>1
  <2>2. queue \in Seq(Nat) /\ messages \in Seq({"hotkey", "quit"}) /\ read \in Seq(Reads)
    BY <1>1, EmptySeq, Zenon
  <2> QED
    BY <1>1, <2>1, <2>2 DEF PumpTypes
<1>4. PumpInv
  BY <1>1, PumpConstants DEF PumpInv
<1>5. QueueInv /\ ReadInv
  BY <1>1, <1>2 DEF QueueInv, ReadInv
<1> QED
  BY <1>3, <1>4, <1>5 DEF CaptureInv

\* Every step of T1's loop keeps its invariant.
LEMMA CaptureInvKept ==
  ASSUME CaptureInv, Cap!Next \/ UNCHANGED capVars
  PROVE  CaptureInv'
<1>1. CASE Cap!Next
  <2>1. PumpTypes'
    BY <1>1, TypesKept DEF CaptureInv
  <2>2. CASE Cap!Wake
    BY <2>1, <2>2, WakeKept
  <2>3. CASE Cap!WaitForTimer
    BY <2>1, <2>3, WaitForTimerKept
  <2>4. CASE Cap!Drain
    BY <2>1, <2>4, DrainKept
  <2>5. CASE Cap!ReadFails
    BY <2>1, <2>5, ReadFailsKept
  <2>6. CASE Cap!HandleInput
    BY <2>1, <2>6, HandleInputKept
  <2>7. CASE Cap!Dispatch
    BY <2>1, <2>7, DispatchKept
  <2>8. CASE Cap!EndPump
    BY <2>1, <2>8, EndPumpKept
  <2>9. CASE Cap!Report
    BY <2>1, <2>9, ReportKept
  <2>10. CASE \E m \in {"hotkey", "quit"} : Cap!Post(m)
    BY <2>1, <2>10, PostKept
  <2>11. CASE Cap!Passes
    BY <2>1, <2>11, PassesKept
  <2> QED
    BY <1>1, <2>2, <2>3, <2>4, <2>5, <2>6, <2>7, <2>8, <2>9, <2>10, <2>11, Zenon DEF Cap!Next
<1>2. CASE UNCHANGED capVars
  BY <1>2 DEF capVars, CaptureInv, PumpTypes, PumpInv, QueueInv, ReadInv, Pending, TimersWait
<1> QED
  BY <1>1, <1>2

\* The invariant says all that T1 promises.
LEMMA CaptureIsTimely ==
  ASSUME CaptureInv
  PROVE  ReportsAreTimely
<1> USE DEF CaptureInv
<1>1. Cap!LongestWait = TimersWait + delay
  BY PumpFacts DEF Cap!LongestWait, TimersWait
<1>2. ASSUME NEW t \in Nat, Pending(t)
      PROVE  cap_now - t <= TimersWait + delay
  <2>1. cap_pc = "window" => cap_now <= due
    BY DEF PumpInv
  <2> QED
    BY <1>2, <2>1, PumpFacts DEF Pending
<1>3. \A i \in DOMAIN queue : cap_now - queue[i] <= TimersWait + delay
  <2>1. \A i \in DOMAIN queue : queue[i] \in Nat
    <3>1. queue \in Seq(Nat)
      BY DEF PumpTypes
    <3> QED
      BY <3>1, LengthOf
  <2> QED
    BY <1>2, <2>1 DEF QueueInv
<1>4. Cap!ReportsAreRead
  BY <1>1, <1>3 DEF Cap!ReportsAreRead, ReadInv
<1>5. Cap!StampsAreClose
  BY <1>1 DEF Cap!StampsAreClose, ReadInv
<1>6. Cap!QuitIsPrompt
  BY <1>1, <1>2, PumpFacts DEF Cap!QuitIsPrompt, QueueInv
<1> QED
  BY <1>4, <1>5, <1>6 DEF ReportsAreTimely

HIDE DEF Cap!Cadence, Cap!TimerWait

-----------------------------------------------------------------------------
(* The threads together.                                                   *)

\* A step of the threads is one of T3's, or T3 stays as it is; so for T2.
LEMMA OneThreadSteps ==
  ASSUME [MCNext]_allVars
  PROVE  /\ Cap!Next \/ UNCHANGED capVars
         /\ Ctx!Next \/ UNCHANGED ctxVars
         /\ Ship!Next \/ UNCHANGED shipVars
BY Zenon DEF MCNext, WindowSteps, CaptureSteps, ContextSteps, ShipperSteps, FeedSteps, allVars

\* T3's invariant holds in every behaviour of the threads.
LEMMA ContextInvIsInvariant == MCSpec => []ContextInv
<1>1. MCInit => ContextInv
  <2> SUFFICES ASSUME MCInit PROVE ContextInv
    OBVIOUS
  <2>1. Ctx!Init
    BY DEF MCInit
  <2> QED
    BY <2>1 DEF Ctx!Init, ContextInv, Counted, Ctx!ScreenIsKnown, LockInv, EditsInv, LossesInv,
       WarnInv,
       Moved, Ctx!NewDetector, Ctx!Nowhere, Ctx!Startup
<1>2. ContextInv /\ [MCNext]_allVars => ContextInv'
  <2> SUFFICES ASSUME ContextInv, [MCNext]_allVars PROVE ContextInv'
    OBVIOUS
  <2>1. CASE Ctx!Next
    BY <2>1, CountedKept, ScreenKept, LockKept, EditsKept, LossesKept, WarnKept DEF ContextInv
  <2>2. CASE UNCHANGED ctxVars
    BY <2>2 DEF ctxVars, ContextInv, Counted, Ctx!ScreenIsKnown, LockInv, EditsInv, LossesInv,
       WarnInv, Moved
  <2> QED
    BY <2>1, <2>2, OneThreadSteps
<1> QED
  BY <1>1, <1>2, PTL DEF MCSpec, allVars

\* So does T2's.
LEMMA ShipInvIsInvariant == MCSpec => []ShipInv
<1>1. MCInit => ShipInv
  <2> SUFFICES ASSUME MCInit PROVE ShipInv
    OBVIOUS
  <2>1. Ship!Init
    BY DEF MCInit
  <2>2. sinks \subseteq Ship!Kinds /\ Wrap \in Nat \ {0} /\ HeartbeatInterval \in Nat \ {0}
    BY <2>1, IntervalsFit DEF Ship!Init, Ship!IntervalsAssumption
  <2>3. ShipCounted
    BY <2>1, <2>2 DEF Ship!Init, ShipCounted, LoopCounted, SinksCounted, Ship!Zero
  <2>4. FailuresInv /\ RecordingInv
    BY <2>1 DEF Ship!Init, FailuresInv, RecordingInv, Ship!RecordingHasOneSession, Ship!Zero
  <2>5. LiveInv /\ CloseInv
    BY <2>1 DEF Ship!Init, LiveInv, Ship!LiveIsNotSilent, CloseInv, Ship!CloseIsFair
  <2>6. DropsInv
    BY <2>1, <2>2 DEF Ship!Init, DropsInv
  <2> QED
    BY <2>3, <2>4, <2>5, <2>6 DEF ShipInv
<1>2. ShipInv /\ [MCNext]_allVars => ShipInv'
  <2> SUFFICES ASSUME ShipInv, [MCNext]_allVars PROVE ShipInv'
    OBVIOUS
  <2>1. CASE UNCHANGED shipVars
    BY <2>1 DEF shipVars, ShipInv, ShipCounted, LoopCounted, SinksCounted, FailuresInv,
       RecordingInv,
       Ship!RecordingHasOneSession, LiveInv, Ship!LiveIsNotSilent, CloseInv, Ship!CloseIsFair, DropsInv
  <2> QED
    BY <2>1, OneThreadSteps, ShipInvKept
<1> QED
  BY <1>1, <1>2, PTL DEF MCSpec, allVars

\* So does T1's.
LEMMA CaptureInvIsInvariant == MCSpec => []CaptureInv
<1>1. CaptureInv /\ [MCNext]_allVars => CaptureInv'
  BY OneThreadSteps, CaptureInvKept
<1> QED
  BY <1>1, CaptureInvInit, PTL DEF MCSpec, allVars

\* Whatever the mouse does and however long the thread is kept from running,
\* T1 reads every report within the cadence, stamps it close to its arrival and
\* never before an earlier one of its drains, and handles a quit after the next
\* drain.
THEOREM ReportsAreTimelyHolds == MCSpec => []ReportsAreTimely
<1>1. CaptureInv => ReportsAreTimely
  BY CaptureIsTimely
<1> QED
  BY <1>1, CaptureInvIsInvariant, PTL

\* T3 never calls a pointer locked that moved, never misses a display or an
\* edit it could have seen, and tells every loss once.
THEOREM ContextIsTrueHolds == MCSpec => []ContextIsTrue
<1>1. ContextInv => ContextIsTrue
  <2> SUFFICES ASSUME ContextInv PROVE ContextIsTrue
    OBVIOUS
  <2>1. Ctx!ScreenIsKnown
    BY DEF ContextInv
  <2>2. Ctx!LockIsEarned
    BY TicksFit DEF ContextInv, Counted, LockInv, Ctx!LockIsEarned, Ctx!TicksAssumption
  <2>3. Ctx!EditsAreMarked
    BY DEF ContextInv, EditsInv, Moved, Ctx!EditsAreMarked
  <2>4. Ctx!LossesAreTold
    BY DEF ContextInv, Counted, LossesInv, Ctx!LossesAreTold
  <2> QED
    BY <2>1, <2>2, <2>3, <2>4 DEF ContextIsTrue
<1> QED
  BY <1>1, ContextInvIsInvariant, PTL

\* T2 passes over no sink, sends a recording one session and no heartbeat, lets
\* the viewer wait no longer than an interval, and closes within the budget.
THEOREM SinksAreServedHolds == MCSpec => []SinksAreServed
<1>1. ShipInv => SinksAreServed
  <2> SUFFICES ASSUME ShipInv PROVE SinksAreServed
    OBVIOUS
  <2>1. Ship!FailuresAreCounted
    BY DEF ShipInv, ShipCounted, LoopCounted, FailuresInv, Ship!FailuresAreCounted
  <2>2. Ship!RecordingHasOneSession /\ Ship!LiveIsNotSilent /\ Ship!CloseIsFair
    BY DEF ShipInv, RecordingInv, LiveInv, CloseInv
  <2> QED
    BY <2>1, <2>2 DEF SinksAreServed
<1> QED
  BY <1>1, ShipInvIsInvariant, PTL

\* What Ctx!IncidentsAreWarned and Ship!DropsAreAnnounced say of a step.
IncidentWarned ==
    last_at' # last_at =>
        /\ (taken > last) => ctx_warned_at' = ctx_now \/ (warn_at # 0 /\ ctx_now - ctx_warned_at < Escalation)
        /\ recovered' > recovered <=> (taken = last /\ warn_at # 0)
        /\ ctx_warned_at' = ctx_now => warn_at = 0 \/ ctx_now - ctx_warned_at >= Escalation
DropsAnnounced == batches' # batches => ship_announced' = drops

\* An incident is warned about at once and then at its intervals, a sink's
\* failures no oftener than they may be, and a batch tells every drop before it,
\* the counter's wrap included.
THEOREM WarningsAreTimelyHolds == MCSpec => WarningsAreTimely
<1>1. ContextInv /\ [MCNext]_allVars => [IncidentWarned]_(Ctx!vars)
  <2> SUFFICES ASSUME ContextInv, [MCNext]_allVars, ~UNCHANGED Ctx!vars, last_at' # last_at
               PROVE  IncidentWarned
    BY DEF IncidentWarned
  <2>1. Ctx!Next
    BY OneThreadSteps DEF ctxVars
  <2>2. Ctx!Escalate
    BY <2>1 DEF Ctx!Next, Ctx!T3, Ctx!Start, Ctx!TakeDisplayChanged, Ctx!ReadScreen, Ctx!Sample,
       Ctx!CheckAnchor, Ctx!Wake, Ctx!StatConfig, Ctx!LoadConfig, Ctx!ReloadConfig, Ctx!TakeSnapshot,
       Ctx!Sleep, Ctx!Stop, Ctx!Happens, Ctx!DisplayChanges, Ctx!MarkDisplayChanged, Ctx!EventsArrive,
       Ctx!EnvelopesAreLost, Ctx!ClockDrifts, Ctx!PointerMoves, Ctx!EditConfig, Ctx!reportVars
  <2> QED
    BY <2>2, TicksFit DEF Ctx!Escalate, Ctx!Lost, ContextInv, Counted, WarnInv, IncidentWarned,
       Ctx!TicksAssumption
<1>2. ShipInv /\ [MCNext]_allVars => [WarningIsRare]_(Ship!vars) /\ [DropsAnnounced]_(Ship!vars)
  <2> SUFFICES ASSUME ShipInv, [MCNext]_allVars, ~UNCHANGED Ship!vars
               PROVE  WarningIsRare /\ DropsAnnounced
    BY DEF WarningIsRare, DropsAnnounced
  <2>1. Ship!Next
    BY OneThreadSteps DEF shipVars, Ship!vars, Ship!clockVars, Ship!sinkVars, Ship!closeVars
  <2> QED
    BY <2>1, FailuresKept, DropsKept DEF ShipInv, DropsAnnounced
<1>3. MCSpec => [][IncidentWarned]_(Ctx!vars)
  BY <1>1, ContextInvIsInvariant, PTL DEF MCSpec, allVars
<1>4. MCSpec => [][WarningIsRare]_(Ship!vars) /\ [][DropsAnnounced]_(Ship!vars)
  BY <1>2, ShipInvIsInvariant, PTL DEF MCSpec, allVars
<1> QED
  BY <1>3, <1>4, PTL DEF WarningsAreTimely, Ctx!IncidentsAreWarned, Ship!WarningsAreRare,
     Ship!DropsAreAnnounced, IncidentWarned, WarningIsRare, DropsAnnounced

-----------------------------------------------------------------------------
(* The bridge's statistics: the UDP task and its reporter.                 *)

\* The shapes of what the UDP task and the reporter hold.
Hists == [Feed!Slots -> Nat]
Numbers == [datagrams : Nat, parse_errors : Nat, forwarded : Nat]
Windows == [samples : Nat, p50 : Int, p99 : Int, max : Nat, sum : Nat, negative : Nat]
Feeds == {"never", "live", "stalled"}
TaskTypes ==
    /\ count \in Numbers /\ latency \in [hist : Hists, prev : Hists, max_us : Nat]
    /\ sum \in Nat /\ negative \in Nat /\ feed_now \in Nat /\ last_datagram \in Nat \cup {Feed!None}
    /\ datagram \in [kind : {"none", "heartbeat", "bad", "batch"}, latency : Int, at : Nat, gap : Int]
    /\ todo \subseteq DOMAIN Feed!Place
    /\ recorded \in Seq(Int)
ReporterTypes ==
    /\ rep \in [pc : {"tick", "datagrams", "parse_errors", "forwarded", "push", "snapshot", "close",
                      "max", "sum", "negative", "gaps", "feed"},
                woken : Nat, cur : Numbers, window : Numbers, pushes : Nat, quiet : Nat,
                feed : Feeds, snap : Hists, slot : Nat, hist : Hists, max : Nat, sum : Nat,
                negative : Nat]
    /\ rep.pc = "snapshot" => rep.slot \in Feed!Slots
    /\ feed_closed \in Seq(Windows) /\ last_latency \in Windows
    /\ lines \in Seq([delta : Numbers, said : BOOLEAN, feed : Feeds, told : BOOLEAN])

\* What the reporter reads is never ahead of what the UDP task counts, and its
\* baselines never ahead of that.
LoadsInv ==
    /\ \A i \in Feed!Slots : latency.prev[i] <= rep.snap[i] /\ rep.snap[i] <= latency.hist[i]
    /\ \A field \in {"datagrams", "parse_errors"} :
          rep.window[field] <= rep.cur[field] /\ rep.cur[field] <= count[field]

\* A batch's latency is counted before it is summed, once the feed clock has
\* moved.
TodoInv ==
    /\ "clock" \in todo => todo = {"clock"}
    /\ "latency_count" \in todo => "sum" \in todo

\* What the page shows is the last window that measured something.
ReadoutInv ==
    /\ \A k \in DOMAIN feed_closed :
          feed_closed[k].samples > 0 /\ (\A j \in DOMAIN feed_closed : j > k => feed_closed[j].samples = 0)
            => last_latency = feed_closed[k]
    /\ \A k \in DOMAIN feed_closed : feed_closed[k].p50 <= feed_closed[k].p99 /\ feed_closed[k].p99 <= feed_closed[k].max

\* The lines since the last one that was said are the quiet ones.
LinesInv ==
    /\ Feed!LinesTellEverything
    /\ rep.quiet < HeartbeatEvery
    /\ rep.quiet = Len(lines) \/ (rep.quiet < Len(lines) /\ lines[Len(lines) - rep.quiet].said)

\* The last state that was told is the one the reporter is in.
ToldInv ==
    /\ Feed!TransitionsAreTold
    /\ lines = <<>> => rep.feed = "never"
    /\ rep.feed # "never" => udp_bound /\ last_datagram # Feed!None
    /\ \A i \in DOMAIN lines :
          lines[i].told /\ (\A j \in DOMAIN lines : j > i => ~lines[j].told) => lines[i].feed = rep.feed

FeedInv ==
    /\ TaskTypes /\ ReporterTypes /\ LoadsInv /\ TodoInv
    /\ Feed!WindowsAddUp /\ ReadoutInv /\ LinesInv /\ ToldInv

-----------------------------------------------------------------------------
(* Sums over finite sets and sequences.                                    *)

\* A set of numbers that has 0, and the next of each that it has, has them all:
\* induction, from the least number that is missing.
LEMMA EveryNatural ==
  ASSUME NEW S, 0 \in S, \A n \in Nat : n \in S => n + 1 \in S
  PROVE  \A n \in Nat : n \in S
<1> SUFFICES ASSUME NEW k \in Nat, k \notin S PROVE FALSE
  OBVIOUS
<1> DEFINE T == {n \in Nat : n \notin S}
           R == OpToRel(<, Nat)
<1>1. T \subseteq Nat /\ T # {}
  OBVIOUS
<1>2. IsWellFoundedOn(R, Nat)
  BY NatLessThanWellFounded, Zenon
<1>3. PICK x \in T : \A y \in T : ~(<<y, x>> \in R)
  <2> HIDE DEF T, R
  <2> QED
    BY <1>1, <1>2, WFMin
<1>4. x \in Nat /\ x \notin S /\ x # 0
  OBVIOUS
<1>5. x - 1 \in Nat /\ x - 1 < x /\ (x - 1) + 1 = x
  BY <1>4
<1>6. x - 1 \in T
  BY <1>4, <1>5
<1>7. <<x - 1, x>> \in R
  BY <1>4, <1>5 DEF OpToRel
<1> QED
  BY <1>3, <1>6, <1>7

\* The element of a set that a fold takes first.
Chosen(s) == CHOOSE x \in s : TRUE

\* A set of subsets that has the empty one, and each that it has without its
\* chosen element, has them all.
LEMMA EverySubset ==
  ASSUME NEW S, IsFiniteSet(S), NEW Q, {} \in Q,
         \A s \in SUBSET S : s # {} /\ s \ {Chosen(s)} \in Q => s \in Q
  PROVE  S \in Q
<1> DEFINE N == {n \in Nat : \A s \in SUBSET S : Cardinality(s) = n => s \in Q}
<1>1. \A s \in SUBSET S : IsFiniteSet(s) /\ Cardinality(s) \in Nat
  BY FS_Subset, FS_CardinalityType
<1>2. 0 \in N
  <2> SUFFICES ASSUME NEW s \in SUBSET S, Cardinality(s) = 0 PROVE s \in Q
    OBVIOUS
  <2>1. s = {}
    BY <1>1, FS_EmptySet
  <2> QED
    BY <2>1
<1>3. ASSUME NEW n \in Nat, n \in N
      PROVE  n + 1 \in N
  <2> SUFFICES ASSUME NEW s \in SUBSET S, Cardinality(s) = n + 1 PROVE s \in Q
    OBVIOUS
  <2>1. s # {}
    BY FS_EmptySet
  <2>2. Chosen(s) \in s
    BY <2>1 DEF Chosen
  <2>3. Cardinality(s \ {Chosen(s)}) = (n + 1) - 1 /\ s \ {Chosen(s)} \in SUBSET S
    BY <1>1, <2>2, FS_RemoveElement
  <2>4. s \ {Chosen(s)} \in Q
    BY <1>3, <2>3
  <2> QED
    BY <2>1, <2>4
<1>4. \A n \in Nat : n \in N
  <2> HIDE DEF N
  <2> QED
    BY <1>2, <1>3, EveryNatural
<1> QED
  BY <1>1, <1>4

\* What the fold that sums up is.
Folded(f, S, it) ==
  it = [s \in SUBSET S |-> IF s = {} THEN 0 ELSE f[Chosen(s)] + it[s \ {Chosen(s)}]]

\* What the library's sum is.
LEMMA FoldIsChosen ==
  ASSUME NEW f, NEW S
  PROVE  SumFunctionOnSet(f, S) = (CHOOSE it : Folded(f, S, it))[S]
BY DEF SumFunctionOnSet, FoldFunctionOnSet, MapThenFoldSet, Folded, Chosen

\* There is such a function.
LEMMA FoldExists ==
  ASSUME NEW S, IsFiniteSet(S), NEW f
  PROVE  \E it : Folded(f, S, it)
<1> DEFINE E(g, s) == g[s] = IF s = {} THEN 0 ELSE f[Chosen(s)] + g[s \ {Chosen(s)}]
           N == {n \in Nat : \E g : \A s \in SUBSET S : Cardinality(s) <= n => E(g, s)}
<1>1. \A s \in SUBSET S : IsFiniteSet(s) /\ Cardinality(s) \in Nat
  BY FS_Subset, FS_CardinalityType
<1>2. ASSUME NEW s \in SUBSET S, s # {}
      PROVE  s \ {Chosen(s)} \in SUBSET S /\ Cardinality(s \ {Chosen(s)}) = Cardinality(s) - 1
  <2>1. Chosen(s) \in s
    BY <1>2 DEF Chosen
  <2> QED
    BY <1>1, <2>1, FS_RemoveElement
<1>3. 0 \in N
  <2> DEFINE g == [s \in SUBSET S |-> 0]
  <2>1. ASSUME NEW s \in SUBSET S, Cardinality(s) <= 0 PROVE E(g, s)
    <3>1. s = {}
      BY <1>1, <2>1, FS_EmptySet
    <3> QED
      BY <3>1
  <2> QED
    BY <2>1
<1>4. ASSUME NEW n \in Nat, n \in N
      PROVE  n + 1 \in N
  <2>1. PICK g : \A s \in SUBSET S : Cardinality(s) <= n => E(g, s)
    BY <1>4
  <2> DEFINE h == [s \in SUBSET S |->
                     IF Cardinality(s) <= n THEN g[s] ELSE f[Chosen(s)] + g[s \ {Chosen(s)}]]
  <2>2. ASSUME NEW s \in SUBSET S, Cardinality(s) <= n + 1 PROVE E(h, s)
    <3>1. CASE s = {}
      <4>1. Cardinality(s) <= n
        BY <3>1, FS_EmptySet
      <4> QED
        BY <2>1, <3>1, <4>1
    <3>2. CASE s # {}
      <4>1. PICK r \in SUBSET S : r = s \ {Chosen(s)} /\ Cardinality(r) = Cardinality(s) - 1
        BY <1>2, <3>2
      <4>2. Cardinality(r) <= n
        BY <1>1, <2>2, <4>1
      <4>3. h[r] = g[r]
        BY <4>2
      <4>4. h[s] = f[Chosen(s)] + g[r]
        BY <2>1, <3>2, <4>1
      <4> QED
        BY <3>2, <4>1, <4>3, <4>4
    <3> QED
      BY <3>1, <3>2
  <2>3. \E k : \A s \in SUBSET S : Cardinality(s) <= n + 1 => E(k, s)
    <3> HIDE DEF h
    <3> QED
      BY <2>2
  <2>4. n + 1 \in Nat
    OBVIOUS
  <2> HIDE DEF h, E
  <2> QED
    BY <2>3, <2>4
<1>5. Cardinality(S) \in N
  <2>1. \A n \in Nat : n \in N
    <3> HIDE DEF N
    <3> QED
      BY <1>3, <1>4, EveryNatural
  <2> QED
    BY <1>1, <2>1
<1>6. PICK g : \A s \in SUBSET S : E(g, s)
  <2>1. \A s \in SUBSET S : Cardinality(s) <= Cardinality(S)
    BY FS_Subset
  <2> QED
    BY <1>5, <2>1
<1> DEFINE it == [s \in SUBSET S |-> g[s]]
<1>7. Folded(f, S, it)
  BY <1>6 DEF Folded
<1> QED
  BY <1>7

\* Any two of them agree, so the sum over a part does not depend on the whole.
LEMMA FoldsAgree ==
  ASSUME NEW f, NEW S, IsFiniteSet(S), NEW T, S \subseteq T,
         NEW a, Folded(f, T, a), NEW b, Folded(f, S, b)
  PROVE  a[S] = b[S]
<1> DEFINE Q == {s \in SUBSET S : a[s] = b[s]}
<1>1. {} \in Q
  <2>1. a[{}] = 0 /\ b[{}] = 0
    BY DEF Folded
  <2> QED
    BY <2>1
<1>2. ASSUME NEW s \in SUBSET S, s # {}, s \ {Chosen(s)} \in Q
      PROVE  s \in Q
  <2>1. a[s] = f[Chosen(s)] + a[s \ {Chosen(s)}]
    <3>1. s \in SUBSET T
      OBVIOUS
    <3> QED
      BY <1>2, <3>1 DEF Folded
  <2>2. b[s] = f[Chosen(s)] + b[s \ {Chosen(s)}]
    BY <1>2 DEF Folded
  <2> QED
    BY <1>2, <2>1, <2>2
<1>3. S \in Q
  <2> HIDE DEF Q
  <2> QED
    BY <1>1, <1>2, EverySubset
<1> QED
  BY <1>3

\* The sum of nothing, and of something.
LEMMA SumUnfolds ==
  ASSUME NEW f, NEW S, IsFiniteSet(S)
  PROVE  SumFunctionOnSet(f, S) =
            IF S = {} THEN 0 ELSE f[Chosen(S)] + SumFunctionOnSet(f, S \ {Chosen(S)})
<1> DEFINE r == S \ {Chosen(S)}
           a == CHOOSE it : Folded(f, S, it)
           b == CHOOSE it : Folded(f, r, it)
<1>1. IsFiniteSet(r) /\ r \subseteq S
  BY FS_Subset
<1>2. Folded(f, S, a)
  BY FoldExists, Zenon
<1>3. Folded(f, r, b)
  BY <1>1, FoldExists, Zenon
<1>4. SumFunctionOnSet(f, S) = a[S] /\ SumFunctionOnSet(f, r) = b[r]
  BY FoldIsChosen, Zenon
<1> HIDE DEF a, b
<1>5. a[r] = b[r]
  BY <1>1, <1>2, <1>3, FoldsAgree
<1>6. a[S] = IF S = {} THEN 0 ELSE f[Chosen(S)] + a[r]
  BY <1>2 DEF Folded
<1> QED
  BY <1>4, <1>5, <1>6

\* The sum is of the values at the elements, and a whole number if they are.
LEMMA SumsAgree ==
  ASSUME NEW f, NEW g, NEW S, IsFiniteSet(S), \A x \in S : f[x] = g[x]
  PROVE  SumFunctionOnSet(f, S) = SumFunctionOnSet(g, S)
<1> DEFINE Q == {s \in SUBSET S : SumFunctionOnSet(f, s) = SumFunctionOnSet(g, s)}
<1>1. {} \in Q
  BY FS_EmptySet, SumUnfolds
<1>2. ASSUME NEW s \in SUBSET S, s # {}, s \ {Chosen(s)} \in Q
      PROVE  s \in Q
  <2>1. IsFiniteSet(s) /\ Chosen(s) \in S
    BY <1>2, FS_Subset DEF Chosen
  <2> QED
    BY <1>2, <2>1, SumUnfolds
<1>3. S \in Q
  <2> HIDE DEF Q
  <2> QED
    BY <1>1, <1>2, EverySubset
<1> QED
  BY <1>3

\* A sum of integers is one, and a sum of naturals is no less than 0.
LEMMA SumIsWhole ==
  ASSUME NEW f, NEW S, IsFiniteSet(S), \A x \in S : f[x] \in Int
  PROVE  /\ SumFunctionOnSet(f, S) \in Int
         /\ (\A x \in S : f[x] >= 0) => SumFunctionOnSet(f, S) >= 0
<1> DEFINE Q == {s \in SUBSET S : /\ SumFunctionOnSet(f, s) \in Int
                                  /\ (\A x \in S : f[x] >= 0) => SumFunctionOnSet(f, s) >= 0}
<1>1. {} \in Q
  <2>1. SumFunctionOnSet(f, {}) = 0
    BY FS_EmptySet, SumUnfolds
  <2> QED
    BY <2>1
<1>2. ASSUME NEW s \in SUBSET S, s # {}, s \ {Chosen(s)} \in Q
      PROVE  s \in Q
  <2>1. IsFiniteSet(s) /\ Chosen(s) \in S
    BY <1>2, FS_Subset DEF Chosen
  <2>2. SumFunctionOnSet(f, s) = f[Chosen(s)] + SumFunctionOnSet(f, s \ {Chosen(s)})
    BY <1>2, <2>1, SumUnfolds
  <2> QED
    BY <1>2, <2>1, <2>2
<1>3. S \in Q
  <2> HIDE DEF Q
  <2> QED
    BY <1>1, <1>2, EverySubset
<1> QED
  BY <1>3

\* Sums are added term by term.
LEMMA SumsAddUp ==
  ASSUME NEW f, NEW g, NEW h, NEW S, IsFiniteSet(S),
         \A x \in S : f[x] \in Int /\ g[x] \in Int /\ h[x] = f[x] + g[x]
  PROVE  SumFunctionOnSet(h, S) = SumFunctionOnSet(f, S) + SumFunctionOnSet(g, S)
<1> DEFINE Q == {s \in SUBSET S :
                   SumFunctionOnSet(h, s) = SumFunctionOnSet(f, s) + SumFunctionOnSet(g, s)}
<1>1. {} \in Q
  <2>1. SumFunctionOnSet(f, {}) = 0 /\ SumFunctionOnSet(g, {}) = 0 /\ SumFunctionOnSet(h, {}) = 0
    BY FS_EmptySet, SumUnfolds
  <2> QED
    BY <2>1
<1>2. ASSUME NEW s \in SUBSET S, s # {}, s \ {Chosen(s)} \in Q
      PROVE  s \in Q
  <2>1. IsFiniteSet(s) /\ IsFiniteSet(s \ {Chosen(s)}) /\ Chosen(s) \in S
    BY <1>2, FS_Subset DEF Chosen
  <2> DEFINE c == Chosen(s)  r == s \ {c}
  <2>2. /\ SumFunctionOnSet(f, s) = f[c] + SumFunctionOnSet(f, r)
        /\ SumFunctionOnSet(g, s) = g[c] + SumFunctionOnSet(g, r)
        /\ SumFunctionOnSet(h, s) = h[c] + SumFunctionOnSet(h, r)
    BY <1>2, <2>1, SumUnfolds
  <2>3. SumFunctionOnSet(f, r) \in Int /\ SumFunctionOnSet(g, r) \in Int
    BY <2>1, SumIsWhole
  <2>4. SumFunctionOnSet(h, r) = SumFunctionOnSet(f, r) + SumFunctionOnSet(g, r)
    BY <1>2
  <2>5. f[c] \in Int /\ g[c] \in Int /\ h[c] = f[c] + g[c]
    BY <2>1
  <2> HIDE DEF c, r
  <2>6. SumFunctionOnSet(h, s) = SumFunctionOnSet(f, s) + SumFunctionOnSet(g, s)
    BY <2>2, <2>3, <2>4, <2>5
  <2> QED
    BY <2>6
<1>3. S \in Q
  <2> HIDE DEF Q
  <2> QED
    BY <1>1, <1>2, EverySubset
<1> QED
  BY <1>3

\* A finite set without one of its elements.
LEMMA OneLess ==
  ASSUME NEW s, IsFiniteSet(s), NEW n \in Nat, Cardinality(s) = n + 1, NEW y \in s
  PROVE  Cardinality(s \ {y}) = n
<1>1. Cardinality(s \ {y}) = Cardinality(s) - 1
  BY FS_RemoveElement
<1> QED
  BY <1>1

\* Which element is taken off first makes no difference.
LEMMA SumWithout ==
  ASSUME NEW f, NEW S, IsFiniteSet(S), NEW x \in S, \A y \in S : f[y] \in Int
  PROVE  SumFunctionOnSet(f, S) = f[x] + SumFunctionOnSet(f, S \ {x})
<1> DEFINE N == {n \in Nat : \A s \in SUBSET S : Cardinality(s) = n =>
                   \A y \in s : SumFunctionOnSet(f, s) = f[y] + SumFunctionOnSet(f, s \ {y})}
<1>1. \A s \in SUBSET S : IsFiniteSet(s) /\ Cardinality(s) \in Nat /\ SumFunctionOnSet(f, s) \in Int
  BY FS_Subset, FS_CardinalityType, SumIsWhole
<1>2. 0 \in N
  BY <1>1, FS_EmptySet
<1>3. ASSUME NEW n \in Nat, n \in N
      PROVE  n + 1 \in N
  <2> SUFFICES ASSUME NEW s \in SUBSET S, Cardinality(s) = n + 1, NEW y \in s
               PROVE  SumFunctionOnSet(f, s) = f[y] + SumFunctionOnSet(f, s \ {y})
    OBVIOUS
  <2> DEFINE c == Chosen(s)
  <2>1. c \in s
    BY DEF Chosen
  <2>2. SumFunctionOnSet(f, s) = f[c] + SumFunctionOnSet(f, s \ {c})
    BY <1>1, <2>1, SumUnfolds
  <2> HIDE DEF c
  <2>3. CASE y = c
    BY <2>2, <2>3
  <2>4. CASE y # c
    <3>1. /\ s \ {c} \in SUBSET S /\ s \ {y} \in SUBSET S /\ (s \ {c}) \ {y} \in SUBSET S
          /\ y \in s \ {c} /\ c \in s \ {y} /\ (s \ {c}) \ {y} = (s \ {y}) \ {c}
      BY <2>1, <2>4
    <3>2. Cardinality(s \ {c}) = n /\ Cardinality(s \ {y}) = n
      <4> HIDE DEF N
      <4>1. IsFiniteSet(s)
        BY <1>1
      <4> QED
        BY <2>1, <4>1, OneLess
    <3>3. SumFunctionOnSet(f, s \ {c}) = f[y] + SumFunctionOnSet(f, (s \ {c}) \ {y})
      BY <1>3, <3>1, <3>2
    <3>4. SumFunctionOnSet(f, s \ {y}) = f[c] + SumFunctionOnSet(f, (s \ {y}) \ {c})
      BY <1>3, <3>1, <3>2
    <3>5. PICK k \in Int : k = SumFunctionOnSet(f, (s \ {c}) \ {y})
      BY <1>1, <3>1
    <3>6. f[y] \in Int /\ f[c] \in Int
      BY <2>1
    <3>7. PICK l \in Int, m \in Int : l = f[y] /\ m = f[c]
      BY <3>6
    <3>8. SumFunctionOnSet(f, s \ {c}) = l + k /\ SumFunctionOnSet(f, s \ {y}) = m + k
      BY <3>1, <3>3, <3>4, <3>5, <3>7
    <3>9. SumFunctionOnSet(f, s) = m + (l + k) /\ m + (l + k) = l + (m + k)
      BY <2>2, <3>5, <3>7, <3>8
    <3> QED
      BY <3>7, <3>8, <3>9
  <2> QED
    BY <2>3, <2>4
<1>4. \A n \in Nat : n \in N
  <2> HIDE DEF N
  <2> QED
    BY <1>2, <1>3, EveryNatural
<1> QED
  BY <1>1, <1>4

\* One more at the end of a sequence.
LEMMA SumOfOneMore ==
  ASSUME NEW f, NEW g, NEW n \in Nat, DOMAIN f = 1..n, DOMAIN g = 1..(n + 1),
         \A k \in 1..n : f[k] \in Int /\ g[k] = f[k], g[n + 1] \in Int
  PROVE  SumFunction(g) = SumFunction(f) + g[n + 1] /\ SumFunction(f) \in Int
<1>1. IsFiniteSet(1..(n + 1)) /\ IsFiniteSet(1..n)
  BY FS_Interval
<1>2. n + 1 \in 1..(n + 1) /\ (1..(n + 1)) \ {n + 1} = 1..n
  OBVIOUS
<1>3. \A k \in 1..(n + 1) : g[k] \in Int
  OBVIOUS
<1>4. SumFunctionOnSet(g, 1..(n + 1)) = g[n + 1] + SumFunctionOnSet(g, 1..n)
  BY <1>1, <1>2, <1>3, SumWithout
<1>5. SumFunctionOnSet(g, 1..n) = SumFunctionOnSet(f, 1..n)
  BY <1>1, SumsAgree
<1>6. SumFunctionOnSet(f, 1..n) \in Int
  BY <1>1, SumIsWhole
<1> QED
  BY <1>4, <1>5, <1>6 DEF SumFunction

-----------------------------------------------------------------------------
(* Helpers of the statistics.                                              *)

\* The sum of what a window's buckets hold is that of the functions module.
LEMMA TotalIsSum ==
  ASSUME NEW f, NEW S
  PROVE  Feed!SumFunctionOnSet(f, S) = SumFunctionOnSet(f, S) /\ Feed!SumFunction(f) = SumFunction(f)
BY Zenon DEF Feed!SumFunction, Feed!SumFunctionOnSet, Feed!FoldFunctionOnSet, Feed!MapThenFoldSet,
   SumFunction, SumFunctionOnSet, FoldFunctionOnSet, MapThenFoldSet

\* The least of some numbers, the smaller and the larger of two.
LEMMA LeastOfSome ==
  ASSUME NEW S, S \subseteq Nat, S # {}
  PROVE  Feed!Min(S) \in S /\ \A y \in S : Feed!Min(S) <= y
<1> DEFINE R == OpToRel(<, Nat)
<1>1. IsWellFoundedOn(R, Nat)
  BY NatLessThanWellFounded, Zenon
<1>2. PICK x \in S : \A y \in S : ~(<<y, x>> \in R)
  <2> HIDE DEF R
  <2> QED
    BY <1>1, WFMin
<1>3. \A y \in S : x <= y
  <2> SUFFICES ASSUME NEW y \in S PROVE x <= y
    OBVIOUS
  <2>1. x \in Nat /\ y \in Nat /\ ~(<<y, x>> \in R)
    BY <1>2
  <2>2. ~(y < x)
    BY <2>1 DEF OpToRel
  <2>3. \A a, b \in Nat : ~(b < a) => a <= b
    OBVIOUS
  <2> QED
    BY <2>1, <2>2, <2>3
<1> QED
  BY <1>3, Zenon DEF Feed!Min

\* Min and Max of two numbers.
LEMMA SmallerNumber ==
  ASSUME NEW a \in Int, NEW b \in Int
  PROVE  Feed!Min({a, b}) = IF a <= b THEN a ELSE b
<1> DEFINE m == IF a <= b THEN a ELSE b
<1>1. m \in {a, b} /\ \A y \in {a, b} : m <= y
  OBVIOUS
<1> HIDE DEF m
<1>2. Feed!Min({a, b}) \in {a, b} /\ \A y \in {a, b} : Feed!Min({a, b}) <= y
  BY <1>1, Zenon DEF Feed!Min
<1>3. Feed!Min({a, b}) <= a /\ Feed!Min({a, b}) <= b
  BY <1>2
<1> QED
  BY <1>2, <1>3

LEMMA LargerNumber ==
  ASSUME NEW a \in Int, NEW b \in Int
  PROVE  Feed!Max({a, b}) = IF a >= b THEN a ELSE b
<1> DEFINE m == IF a >= b THEN a ELSE b
<1>1. m \in {a, b} /\ \A y \in {a, b} : m >= y
  OBVIOUS
<1> HIDE DEF m
<1>2. Feed!Max({a, b}) \in {a, b} /\ \A y \in {a, b} : Feed!Max({a, b}) >= y
  BY <1>1, Zenon DEF Feed!Max
<1>3. Feed!Max({a, b}) >= a /\ Feed!Max({a, b}) >= b
  BY <1>2
<1> QED
  BY <1>2, <1>3

\* What the constants satisfy.
LEMMA StatsConstants ==
  /\ Width \in Nat \ {0} /\ Buckets \in Nat \ {0} /\ LogEvery \in Nat \ {0} /\ HeartbeatEvery \in Nat \ {0}
  /\ \A l \in TrueLatencies : l - ClockSkew \in Int
  /\ Feed!Slots = 0..(Buckets - 1) /\ IsFiniteSet(Feed!Slots)
<1>1. Feed!Slots = 0..(Buckets - 1)
  BY DEF Feed!Slots
<1>2. /\ Width \in Nat \ {0} /\ Buckets \in Nat \ {0} /\ LogEvery \in Nat \ {0}
      /\ HeartbeatEvery \in Nat \ {0} /\ \A l \in TrueLatencies : l - ClockSkew \in Int
  BY StatsFit DEF Feed!StatsAssumption
<1>3. IsFiniteSet(0..(Buckets - 1))
  BY <1>2, FS_Interval
<1> QED
  BY <1>1, <1>2, <1>3

\* What a histogram holds is a number, the parts of it no more than the whole.
LEMMA TotalOfHist ==
  ASSUME NEW h \in Hists
  PROVE  Feed!Total(h) \in Nat /\ Feed!Total(h) = SumFunctionOnSet(h, Feed!Slots)
<1>1. Feed!Total(h) = SumFunctionOnSet(h, Feed!Slots)
  BY TotalIsSum DEF Feed!Total, SumFunction, Hists
<1>2. \A i \in Feed!Slots : h[i] \in Int /\ h[i] >= 0
  BY DEF Hists
<1>3. SumFunctionOnSet(h, Feed!Slots) \in Int /\ SumFunctionOnSet(h, Feed!Slots) >= 0
  BY <1>2, StatsConstants, SumIsWhole
<1> QED
  BY <1>1, <1>3

\* One observation more in one bucket is one more in all.
LEMMA OneMoreObserved ==
  ASSUME NEW h \in Hists, NEW g \in Hists, NEW b \in Feed!Slots, g = [h EXCEPT ![b] = @ + 1]
  PROVE  Feed!Total(g) = Feed!Total(h) + 1
<1> DEFINE r == Feed!Slots \ {b}
<1>1. IsFiniteSet(Feed!Slots) /\ IsFiniteSet(r)
  BY StatsConstants, FS_RemoveElement
<1>2. /\ \A i \in Feed!Slots : h[i] \in Int /\ g[i] \in Int
      /\ g[b] = h[b] + 1 /\ \A i \in r : g[i] = h[i]
  BY DEF Hists
<1>3. /\ SumFunctionOnSet(g, Feed!Slots) = g[b] + SumFunctionOnSet(g, r)
      /\ SumFunctionOnSet(h, Feed!Slots) = h[b] + SumFunctionOnSet(h, r)
  <2>1. (\A i \in Feed!Slots : h[i] \in Int) /\ (\A i \in Feed!Slots : g[i] \in Int)
    BY <1>2
  <2>2. ASSUME NEW f, \A i \in Feed!Slots : f[i] \in Int
        PROVE  SumFunctionOnSet(f, Feed!Slots) = f[b] + SumFunctionOnSet(f, Feed!Slots \ {b})
    BY <1>1, <2>2, SumWithout
  <2> HIDE DEF r
  <2>3. /\ SumFunctionOnSet(g, Feed!Slots) = g[b] + SumFunctionOnSet(g, Feed!Slots \ {b})
        /\ SumFunctionOnSet(h, Feed!Slots) = h[b] + SumFunctionOnSet(h, Feed!Slots \ {b})
    BY <2>1, <2>2, Zenon
  <2> QED
    BY <2>3, Zenon DEF r
<1>4. SumFunctionOnSet(g, r) = SumFunctionOnSet(h, r) /\ SumFunctionOnSet(h, r) \in Int
  <2> HIDE DEF r
  <2>1. \A i \in r : i \in Feed!Slots
    BY DEF r
  <2>2. \A i \in r : h[i] \in Int /\ g[i] = h[i]
    BY <1>2, <2>1
  <2> QED
    BY <1>1, <2>2, SumsAgree, SumIsWhole
<1>5. SumFunctionOnSet(g, Feed!Slots) = SumFunctionOnSet(h, Feed!Slots) + 1
  <2>1. PICK x \in Int, y \in Int : x = h[b] /\ y = SumFunctionOnSet(h, r)
    BY <1>2, <1>4
  <2> HIDE DEF r
  <2> QED
    BY <1>2, <1>3, <1>4, <2>1
<1> QED
  BY <1>5, TotalOfHist

\* Two windows that meet hold what the window over both holds.
LEMMA WindowsMeet ==
  ASSUME NEW from \in Hists, NEW mid \in Hists, NEW to \in Hists,
         \A i \in Feed!Slots : from[i] <= mid[i] /\ mid[i] <= to[i]
  PROVE  /\ Feed!Delta(mid, from) \in Hists /\ Feed!Delta(to, mid) \in Hists /\ Feed!Delta(to, from) \in Hists
         /\ Feed!Total(Feed!Delta(to, from)) = Feed!Total(Feed!Delta(mid, from)) + Feed!Total(Feed!Delta(to, mid))
<1>1. ASSUME NEW x \in Hists, NEW y \in Hists, \A i \in Feed!Slots : x[i] <= y[i]
      PROVE  /\ Feed!Delta(y, x) \in Hists
             /\ \A i \in Feed!Slots : Feed!Delta(y, x)[i] = y[i] - x[i]
  BY <1>1 DEF Hists, Feed!Delta, Feed!Saturating, Feed!Positive
<1>2. \A i \in Feed!Slots : from[i] <= to[i]
  BY DEF Hists
<1>3. PICK a \in Hists, b \in Hists, c \in Hists :
         /\ a = Feed!Delta(mid, from) /\ b = Feed!Delta(to, mid) /\ c = Feed!Delta(to, from)
         /\ \A i \in Feed!Slots : a[i] = mid[i] - from[i] /\ b[i] = to[i] - mid[i] /\ c[i] = to[i] - from[i]
  BY <1>1, <1>2
<1>4. \A i \in Feed!Slots : a[i] \in Int /\ b[i] \in Int /\ c[i] = a[i] + b[i]
  BY <1>3 DEF Hists
<1>5. SumFunctionOnSet(c, Feed!Slots) = SumFunctionOnSet(a, Feed!Slots) + SumFunctionOnSet(b, Feed!Slots)
  BY <1>4, StatsConstants, SumsAddUp
<1> QED
  BY <1>3, <1>5, TotalOfHist

\* An empty histogram holds nothing.
LEMMA NothingObserved == Feed!EmptyHist \in Hists /\ Feed!Total(Feed!EmptyHist) = 0
<1>1. Feed!EmptyHist \in Hists /\ \A i \in Feed!Slots : Feed!EmptyHist[i] = 0
  BY DEF Feed!EmptyHist, Hists
<1>2. PICK e \in Hists : e = Feed!EmptyHist /\ \A i \in Feed!Slots : e[i] = 0
  BY <1>1
<1>3. \A i \in Feed!Slots : e[i] \in Int /\ e[i] \in Int /\ e[i] = e[i] + e[i]
  BY <1>2
<1>4. SumFunctionOnSet(e, Feed!Slots) = SumFunctionOnSet(e, Feed!Slots) + SumFunctionOnSet(e, Feed!Slots)
  <2>1. ASSUME NEW f, \A i \in Feed!Slots : f[i] \in Int /\ f[i] \in Int /\ f[i] = f[i] + f[i]
        PROVE  SumFunctionOnSet(f, Feed!Slots) = SumFunctionOnSet(f, Feed!Slots) + SumFunctionOnSet(f, Feed!Slots)
    <3>1. IsFiniteSet(Feed!Slots)
      BY StatsConstants
    <3> QED
      BY <2>1, <3>1, SumsAddUp
  <2> QED
    BY <1>3, <2>1, Zenon
<1>5. Feed!Total(e) \in Nat /\ Feed!Total(e) = SumFunctionOnSet(e, Feed!Slots)
  BY TotalOfHist, Zenon
<1>6. Feed!Total(e) = Feed!Total(e) + Feed!Total(e)
  BY <1>4, <1>5, Zenon
<1>7. PICK n \in Nat : n = Feed!Total(e)
  BY <1>5
<1>8. n = n + n
  BY <1>6, <1>7, Zenon
<1>9. n = 0
  BY <1>8
<1> QED
  BY <1>1, <1>2, <1>7, <1>9

\* A latency falls into a bucket.
LEMMA InSomeBucket ==
  ASSUME NEW us \in Int
  PROVE  Feed!BucketOf(us) \in Feed!Slots /\ Feed!Positive(us) \in Nat
<1>1. Feed!Positive(us) \in Nat
  BY DEF Feed!Positive
<1>2. PICK p \in Nat : p = Feed!Positive(us)
  BY <1>1
<1>3. PICK q \in Int, r \in Int : q = p \div Width /\ p = Width * q + r /\ r >= 0 /\ r < Width
  BY StatsConstants
<1>4. q >= 0
  <2>1. ~(q <= -1)
    BY <1>3, StatsConstants
  <2> QED
    BY <1>3, <2>1
<1>5. Feed!BucketOf(us) = IF q < Buckets THEN q ELSE Buckets - 1
  BY <1>2, <1>3 DEF Feed!BucketOf
<1>6. Feed!BucketOf(us) \in 0..(Buckets - 1)
  BY <1>3, <1>4, <1>5, StatsConstants
<1> QED
  BY <1>1, <1>6, StatsConstants

\* A higher percentile is reached no earlier, and later buckets lie higher.
LEMMA BucketsRise ==
  ASSUME NEW i \in Feed!Slots, NEW j \in Feed!Slots, i <= j
  PROVE  Feed!AtBucket(i) \in Int /\ Feed!AtBucket(j) \in Int /\ Feed!AtBucket(i) <= Feed!AtBucket(j)
<1> DEFINE edge(k) == IF k = Buckets - 1 THEN k ELSE k + 1
<1>1. i \in Int /\ j \in Int /\ i <= Buckets - 1 /\ j <= Buckets - 1 /\ Buckets \in Int /\ Width \in Nat
  BY StatsConstants
<1>2. PICK a \in Int, b \in Int : a = edge(i) /\ b = edge(j) /\ a <= b
  BY <1>1
<1>3. Feed!AtBucket(i) = a * Width /\ Feed!AtBucket(j) = b * Width
  BY <1>2 DEF Feed!AtBucket
<1>4. a * Width \in Int /\ b * Width \in Int
  BY <1>1
<1>5. (b - a) * Width >= 0
  <2>1. PICK d \in Nat : d = b - a
    BY <1>2
  <2>2. d * Width \in Nat
    BY <1>1
  <2> QED
    BY <2>1, <2>2
<1>6. (b - a) * Width = b * Width - a * Width
  BY <1>1
<1> QED
  BY <1>3, <1>4, <1>5, <1>6

\* The median is no greater than the 99th percentile.
LEMMA PercentilesInOrder ==
  ASSUME NEW h \in Hists
  PROVE  /\ Feed!PercentileUs(h, 50) \in Int /\ Feed!PercentileUs(h, 99) \in Int
         /\ Feed!PercentileUs(h, 50) <= Feed!PercentileUs(h, 99)
<1> DEFINE held(i) == Feed!SumFunctionOnSet(h, 0 .. i)
           ceiling(per) == (Feed!Total(h) * per + 99) \div 100
           rank(per) == IF ceiling(per) > 1 THEN ceiling(per) ELSE 1
           reached(per) == {i \in Feed!Slots : held(i) >= rank(per)}
<1>1. PICK t \in Nat : t = Feed!Total(h)
  BY TotalOfHist
<1>2. \A per : Feed!PercentileUs(h, per)
                 = IF Feed!Total(h) = 0 THEN 0 ELSE Feed!AtBucket(Feed!Min(reached(per)))
  BY DEF Feed!PercentileUs
<1>3. CASE t = 0
  <2>1. \A per : Feed!PercentileUs(h, per) = 0
    BY <1>1, <1>2, <1>3
  <2> QED
    BY <2>1
<1>4. CASE t # 0
  <2>1. PICK r50 \in Int, r99 \in Int :
          r50 = rank(50) /\ r99 = rank(99) /\ r50 <= r99 /\ r99 <= t
    <3>1. PICK q50 \in Int, q99 \in Int, m50 \in Int, m99 \in Int :
            /\ q50 = (t * 50 + 99) \div 100 /\ t * 50 + 99 = 100 * q50 + m50 /\ m50 >= 0 /\ m50 < 100
            /\ q99 = (t * 99 + 99) \div 100 /\ t * 99 + 99 = 100 * q99 + m99 /\ m99 >= 0 /\ m99 < 100
      <4>1. \A n \in Int : \E q \in Int, m \in Int :
              q = n \div 100 /\ n = 100 * q + m /\ m >= 0 /\ m < 100
        OBVIOUS
      <4>2. t * 50 + 99 \in Int /\ t * 99 + 99 \in Int
        BY <1>1
      <4>3. PICK q50 \in Int, m50 \in Int : q50 = (t * 50 + 99) \div 100 /\ t * 50 + 99 = 100 * q50 + m50 /\ m50 >= 0 /\ m50 < 100
        BY <4>1, <4>2
      <4>4. PICK q99 \in Int, m99 \in Int : q99 = (t * 99 + 99) \div 100 /\ t * 99 + 99 = 100 * q99 + m99 /\ m99 >= 0 /\ m99 < 100
        BY <4>1, <4>2
      <4> QED
        BY <4>3, <4>4
    <3>2. q50 <= q99 /\ q99 <= t
      BY <1>1, <1>4, <3>1
    <3>3. ceiling(50) = q50 /\ ceiling(99) = q99
      BY <1>1, <3>1
    <3> HIDE DEF ceiling
    <3> QED
      BY <1>1, <1>4, <3>2, <3>3
  <2>2. \A i \in Feed!Slots : held(i) \in Int
    <3> SUFFICES ASSUME NEW i \in Feed!Slots PROVE held(i) \in Int
      OBVIOUS
    <3>1. i \in Int /\ i <= Buckets - 1 /\ 0..i \subseteq Feed!Slots
      BY StatsConstants
    <3>2. IsFiniteSet(0..i) /\ \A k \in 0..i : h[k] \in Int
      <4>1. IsFiniteSet(0..i)
        BY <3>1, FS_Interval
      <4>2. \A k \in Feed!Slots : h[k] \in Int
        BY DEF Hists
      <4> QED
        BY <3>1, <4>1, <4>2
    <3>3. SumFunctionOnSet(h, 0..i) \in Int
      BY <3>2, SumIsWhole
    <3> QED
      BY <3>3, TotalIsSum
  <2>3. Buckets - 1 \in Feed!Slots /\ held(Buckets - 1) = t
    <3>1. Buckets - 1 \in Feed!Slots /\ 0 .. Buckets - 1 = Feed!Slots
      BY StatsConstants
    <3>2. held(Buckets - 1) = SumFunctionOnSet(h, Feed!Slots)
      BY <3>1, TotalIsSum
    <3> QED
      BY <3>1, <3>2, <1>1, TotalOfHist
  <2> HIDE DEF held, rank
  <2>4. /\ reached(50) \subseteq Nat /\ reached(50) \subseteq Feed!Slots
        /\ reached(99) \subseteq reached(50) /\ reached(99) # {}
    <3>1. Feed!Slots \subseteq Nat
      BY StatsConstants
    <3>2. reached(50) = {i \in Feed!Slots : held(i) >= r50} /\ reached(99) = {i \in Feed!Slots : held(i) >= r99}
      BY <2>1
    <3>3. \A i \in Feed!Slots : held(i) >= r99 => held(i) >= r50
      BY <2>1, <2>2
    <3>4. Buckets - 1 \in reached(99)
      BY <1>1, <2>1, <2>3, <3>2
    <3> QED
      BY <3>1, <3>2, <3>3, <3>4
  <2>5. PICK a \in Feed!Slots, b \in Feed!Slots :
          a = Feed!Min(reached(50)) /\ b = Feed!Min(reached(99)) /\ a <= b
    <3> HIDE DEF reached
    <3>1. reached(50) \subseteq Nat /\ reached(50) # {} /\ reached(99) \subseteq Nat /\ reached(99) # {}
      BY <2>4
    <3>2. Feed!Min(reached(50)) \in reached(50) /\ \A y \in reached(50) : Feed!Min(reached(50)) <= y
      BY <3>1, LeastOfSome
    <3>3. Feed!Min(reached(99)) \in reached(99)
      BY <3>1, LeastOfSome
    <3> QED
      BY <2>4, <3>2, <3>3
  <2>6. Feed!PercentileUs(h, 50) = Feed!AtBucket(a) /\ Feed!PercentileUs(h, 99) = Feed!AtBucket(b)
    <3> HIDE DEF reached
    <3> QED
      BY <1>1, <1>2, <1>4, <2>5
  <2> QED
    BY <2>5, <2>6, BucketsRise
<1> QED
  BY <1>3, <1>4

\* A window's numbers: how many, how much, and the percentiles in order.
LEMMA WindowInOrder ==
  ASSUME NEW h \in Hists, NEW most \in Nat, NEW whole \in Nat, NEW below \in Nat
  PROVE  LET w == Feed!Summary(h, most, whole, below)
         IN  /\ w \in Windows /\ w.samples = Feed!Total(h) /\ w.sum = whole
             /\ w.p50 <= w.p99 /\ w.p99 <= w.max
<1>1. PICK p \in Int, q \in Int : p = Feed!PercentileUs(h, 50) /\ q = Feed!PercentileUs(h, 99) /\ p <= q
  BY PercentilesInOrder
<1>2. /\ Feed!Min({Feed!PercentileUs(h, 50), most}) = IF p <= most THEN p ELSE most
      /\ Feed!Min({Feed!PercentileUs(h, 99), most}) = IF q <= most THEN q ELSE most
  BY <1>1, SmallerNumber
<1>3. Feed!Total(h) \in Nat
  BY TotalOfHist
<1> QED
  BY <1>1, <1>2, <1>3 DEF Feed!Summary, Windows

-----------------------------------------------------------------------------
(* Steps of the UDP task and of the reporter.                              *)

Operations == {"clock", "parse_error", "gap_max", "gap_count", "latency_max", "latency_count",
               "negative", "sum", "forwarded"}

\* What publish_at has left to do: a batch's latency is counted and summed, in
\* that order.
LEMMA RestOfBatch ==
  ASSUME NEW d, NEW gap
  PROVE  /\ Feed!RestOf(d, gap) \subseteq Operations \ {"clock"}
         /\ "latency_count" \in Feed!RestOf(d, gap) <=> "sum" \in Feed!RestOf(d, gap)
BY DEF Feed!RestOf, Operations

\* A latency is counted before it is summed, and the clock moves before that.
LEMMA PlaceOrder ==
  /\ DOMAIN Feed!Place = Operations
  /\ ~(Feed!Place["sum"] <= Feed!Place["latency_count"])
  /\ ~(Feed!Place["latency_count"] <= Feed!Place["clock"])
BY DEF Feed!Place, Operations

\* The histogram window after one atomic operation of a record.
Latencies == [hist : Hists, prev : Hists, max_us : Nat]
LEMMA RecordedWindow ==
  ASSUME NEW w \in Latencies, NEW us \in Int
  PROVE  /\ Feed!Raise(w, us) \in Latencies /\ Feed!Record(w, us) \in Latencies
         /\ Feed!Raise(w, us).hist = w.hist /\ Feed!Raise(w, us).prev = w.prev
         /\ Feed!Record(w, us).prev = w.prev /\ Feed!Record(w, us).max_us = w.max_us
         /\ Feed!Record(w, us).hist = [w.hist EXCEPT ![Feed!BucketOf(us)] = @ + 1]
<1>1. Feed!BucketOf(us) \in Feed!Slots /\ Feed!Positive(us) \in Nat
  BY InSomeBucket
<1>2. Feed!Max({w.max_us, Feed!Positive(us)}) \in Nat
  BY <1>1, LargerNumber DEF Latencies
<1>3. [w.hist EXCEPT ![Feed!BucketOf(us)] = @ + 1] \in Hists
  BY <1>1 DEF Latencies, Hists
<1> QED
  BY <1>1, <1>2, <1>3 DEF Feed!Raise, Feed!Record, Latencies

\* The disjuncts of the machine's step that write what the readout depends on.
ReporterLoads ==
    \/ Feed!Load("datagrams", "parse_errors") \/ Feed!Load("parse_errors", "forwarded")
    \/ Feed!Load("forwarded", "push")

\* One atomic operation leaves the counters numbers, and the reporter alone.
LEMMA PublishTypes ==
  ASSUME FeedInv, Feed!Publish
  PROVE  TaskTypes' /\ UNCHANGED <<rep, feed_closed, last_latency, lines, feed_now, last_datagram, udp_bound, datagram>>
<1>1. /\ count \in Numbers /\ latency \in Latencies /\ sum \in Nat /\ negative \in Nat
      /\ datagram.latency \in Int /\ Feed!Positive(datagram.latency) \in Nat
      /\ recorded \in Seq(Int) /\ todo \subseteq Operations
  BY PlaceOrder, InSomeBucket DEF FeedInv, TaskTypes, Latencies
<1>2. PICK op \in todo \ {"clock"} :
        /\ todo' = todo \ {op}
        /\ latency' = IF op = "latency_max" THEN Feed!Raise(latency, datagram.latency)
                      ELSE IF op = "latency_count" THEN Feed!Record(latency, datagram.latency) ELSE latency
        /\ negative' = negative + (IF op = "negative" THEN 1 ELSE 0)
        /\ sum' = sum + (IF op = "sum" THEN Feed!Positive(datagram.latency) ELSE 0)
        /\ count' = [count EXCEPT
                       !.parse_errors = @ + (IF op = "parse_error" THEN 1 ELSE 0),
                       !.forwarded = @ + (IF op = "forwarded" THEN 1 ELSE 0)]
        /\ recorded' = IF op = "latency_count" THEN Append(recorded, datagram.latency) ELSE recorded
        /\ UNCHANGED <<last_latency, last_datagram, udp_bound, clients, feed_now, datagram, rep, feed_closed, lines>>
  BY Zenon DEF Feed!Publish
<1>3. latency' \in Latencies
  BY <1>1, <1>2, RecordedWindow
<1>4. count' \in Numbers
  <2>1. PICK bad \in Nat, sent \in Nat :
          count' = [count EXCEPT !.parse_errors = @ + bad, !.forwarded = @ + sent]
    BY <1>2
  <2>2. ASSUME NEW c \in Numbers, NEW x \in Nat, NEW y \in Nat
        PROVE  [c EXCEPT !.parse_errors = x, !.forwarded = y] \in Numbers
    BY DEF Numbers
  <2>3. count.parse_errors + bad \in Nat /\ count.forwarded + sent \in Nat
    BY <1>1 DEF Numbers
  <2>4. count' = [count EXCEPT !.parse_errors = count.parse_errors + bad, !.forwarded = count.forwarded + sent]
    BY <1>1, <2>1, Zenon DEF Numbers
  <2> QED
    BY <1>1, <2>2, <2>3, <2>4
<1>5. negative' \in Nat /\ sum' \in Nat /\ recorded' \in Seq(Int) /\ todo' \subseteq Operations
  <2>1. negative' \in Nat /\ sum' \in Nat
    BY <1>1, <1>2
  <2>2. recorded' \in Seq(Int)
    BY <1>1, <1>2, AppendProperties
  <2> QED
    BY <1>1, <1>2, <2>1, <2>2
<1> QED
  BY <1>2, <1>3, <1>4, <1>5, PlaceOrder DEF FeedInv, TaskTypes, Latencies

\* What the UDP task holds keeps its shape.
LEMMA TaskTypesKept ==
  ASSUME FeedInv, Feed!Next
  PROVE  TaskTypes'
<1> USE DEF FeedInv, TaskTypes, Feed!Quietly, Feed!task, Feed!history
<1>1. CASE Feed!Bind
  BY <1>1, Zenon DEF Feed!Bind
<1>2. ASSUME NEW kind \in {"heartbeat", "bad", "batch"}, NEW us \in Int, Feed!Receive(kind, us)
      PROVE  TaskTypes'
  <2>2. /\ count' = [count EXCEPT !.datagrams = count.datagrams + 1]
        /\ datagram' = [kind |-> kind, latency |-> us, at |-> feed_now, gap |-> Feed!None]
        /\ todo' = {"clock"}
        /\ UNCHANGED <<latency, sum, negative, feed_now, last_datagram, recorded>>
    BY <1>2, Zenon DEF Feed!Receive
  <2>3. count' \in Numbers
    <3>1. count \in Numbers
      OBVIOUS
    <3> HIDE DEF FeedInv, TaskTypes
    <3> QED
      BY <2>2, <3>1 DEF Numbers
  <2>4. todo' \subseteq DOMAIN Feed!Place
    BY <2>2, PlaceOrder DEF Operations
  <2>5. datagram' \in [kind : {"none", "heartbeat", "bad", "batch"}, latency : Int, at : Nat, gap : Int]
    BY <2>2 DEF Feed!None
  <2> QED
    BY <2>2, <2>3, <2>4, <2>5, Zenon
<1>3. CASE \/ \E kind \in {"heartbeat", "bad"} : Feed!Receive(kind, 0)
           \/ \E us \in {l - ClockSkew : l \in TrueLatencies} : Feed!Receive("batch", us)
  <2>1. \A l \in TrueLatencies : l - ClockSkew \in Int
    BY StatsConstants
  <2> HIDE DEF FeedInv, TaskTypes
  <2>2. CASE \E kind \in {"heartbeat", "bad"} : Feed!Receive(kind, 0)
    BY <1>2, <2>2
  <2>3. CASE \E us \in {l - ClockSkew : l \in TrueLatencies} : Feed!Receive("batch", us)
    <3>1. PICK us \in Int : Feed!Receive("batch", us)
      BY <2>1, <2>3
    <3> QED
      BY <1>2, <3>1
  <2> QED
    BY <1>3, <2>2, <2>3
<1>4. CASE Feed!MoveFeedClock
  <2>1. PICK gap \in Int :
          /\ datagram' = [datagram EXCEPT !.gap = gap] /\ todo' = Feed!RestOf(datagram, gap)
          /\ last_datagram' = datagram.at
          /\ UNCHANGED <<count, latency, sum, negative, feed_now, recorded>>
    <3> DEFINE gap == IF last_datagram = Feed!None THEN Feed!None ELSE datagram.at - last_datagram
    <3>1. gap \in Int
      BY DEF Feed!None
    <3>2. /\ datagram' = [datagram EXCEPT !.gap = gap] /\ todo' = Feed!RestOf(datagram, gap)
          /\ last_datagram' = datagram.at
          /\ UNCHANGED <<count, latency, sum, negative, feed_now, recorded>>
      BY <1>4, Zenon DEF Feed!MoveFeedClock
    <3> HIDE DEF gap
    <3> QED
      BY <3>1, <3>2
  <2>2. todo' \subseteq DOMAIN Feed!Place
    BY <2>1, PlaceOrder, RestOfBatch
  <2> QED
    BY <2>1, <2>2
<1>5. CASE Feed!Publish
  BY <1>5, PublishTypes
<1>6. CASE Feed!CloseWindow
  BY <1>6 DEF Feed!CloseWindow, ReporterTypes
<1>7. CASE Feed!TakeMax
  BY <1>7 DEF Feed!TakeMax
<1>8. CASE Feed!TakeSum \/ Feed!TakeNegative
  BY <1>8 DEF Feed!TakeSum, Feed!TakeNegative
<1>9. CASE Feed!Tick \/ ReporterLoads \/ Feed!Push \/ Feed!ReadBucket \/ Feed!RollGaps \/ Feed!Report
  BY <1>9, Zenon DEF ReporterLoads, Feed!Tick, Feed!Load, Feed!Push, Feed!ReadBucket, Feed!RollGaps, Feed!Report, Feed!history
<1>10. CASE Feed!Second
  BY <1>10 DEF Feed!Second, Feed!stats, Feed!history
<1> QED
  BY <1>1, <1>3, <1>4, <1>5, <1>6, <1>7, <1>8, <1>9, <1>10, Zenon DEF Feed!Next, Feed!UdpTask,
     Feed!Reporter, ReporterLoads

\* What the reporter holds keeps its shape.
LEMMA ReporterTypesKept ==
  ASSUME FeedInv, Feed!Next
  PROVE  ReporterTypes'
<1> USE DEF FeedInv, ReporterTypes, Feed!Quietly, Feed!task, Feed!history, Feed!Step
<1>1. CASE Feed!UdpTask \/ Feed!Second
  <2>1. UNCHANGED <<rep, feed_closed, last_latency, lines>>
    BY <1>1, Zenon DEF Feed!UdpTask, Feed!Second, Feed!Bind, Feed!Receive, Feed!MoveFeedClock, Feed!Publish, Feed!stats
  <2> QED
    BY <2>1
<1>2. CASE Feed!Tick
  BY <1>2 DEF Feed!Tick, TaskTypes
<1>3. CASE ReporterLoads
  <2>1. PICK field \in DOMAIN rep.cur, next \in {"parse_errors", "forwarded", "push"} :
          /\ rep' = [rep EXCEPT !.pc = next, !.cur[field] = count[field]]
          /\ field \in {"datagrams", "parse_errors", "forwarded"}
          /\ UNCHANGED <<feed_closed, last_latency, lines>>
    BY <1>3 DEF ReporterLoads, Feed!Load, Numbers
  <2> QED
    BY <2>1 DEF TaskTypes, Numbers
<1>4. CASE Feed!Push
  <2>1. 0 \in Feed!Slots
    BY StatsConstants
  <2>2. UNCHANGED <<feed_closed, last_latency, lines>>
    BY <1>4 DEF Feed!Push
  <2>3. \/ rep' = [rep EXCEPT !.pc = "tick", !.pushes = rep.pushes + 1]
        \/ rep' = [rep EXCEPT !.pc = "snapshot", !.pushes = 0, !.slot = 0]
    BY <1>4, Zenon DEF Feed!Push
  <2>4. CASE rep' = [rep EXCEPT !.pc = "tick", !.pushes = rep.pushes + 1]
    <3>1. PICK n \in Nat : n = rep.pushes + 1
      OBVIOUS
    <3>2. rep' = [rep EXCEPT !.pc = "tick", !.pushes = n]
      BY <2>4, <3>1
    <3> QED
      BY <2>2, <3>2
  <2>5. CASE rep' = [rep EXCEPT !.pc = "snapshot", !.pushes = 0, !.slot = 0]
    BY <2>1, <2>2, <2>5
  <2> QED
    BY <2>3, <2>4, <2>5
<1>5. CASE Feed!ReadBucket
  <2>1. /\ rep.pc = "snapshot" /\ rep.slot \in Feed!Slots /\ rep.slot \in Nat
        /\ rep.slot # Buckets - 1 => rep.slot + 1 \in Feed!Slots
    BY <1>5, StatsConstants DEF Feed!ReadBucket
  <2>2. PICK snap \in Hists : snap = [rep.snap EXCEPT ![rep.slot] = latency.hist[rep.slot]]
    BY <2>1 DEF TaskTypes, Hists
  <2>3. PICK pc \in {"close", "snapshot"} :
          /\ rep' = [rep EXCEPT !.snap = snap, !.slot = rep.slot + 1, !.pc = pc]
          /\ pc = "snapshot" => rep.slot # Buckets - 1
    BY <1>5, <2>2 DEF Feed!ReadBucket
  <2>4. UNCHANGED <<feed_closed, last_latency, lines>>
    BY <1>5, Zenon DEF Feed!ReadBucket
  <2> QED
    <3>1. PICK n \in Nat : n = rep.slot + 1 /\ (pc = "snapshot" => n \in Feed!Slots)
      BY <2>1, <2>3
    <3>2. rep' = [rep EXCEPT !.snap = snap, !.slot = n, !.pc = pc]
      BY <2>3, <3>1
    <3>3. rep'.pc = "snapshot" => rep'.slot \in Feed!Slots
      BY <3>1, <3>2
    <3> QED
      BY <2>4, <3>2, <3>3
<1>6. CASE Feed!CloseWindow
  <2>1. Feed!Delta(rep.snap, latency.prev) \in Hists
    BY WindowsMeet DEF LoadsInv, TaskTypes, Hists
  <2> QED
    BY <1>6, <2>1 DEF Feed!CloseWindow
<1>7. CASE Feed!TakeMax \/ Feed!TakeSum
  BY <1>7 DEF Feed!TakeMax, Feed!TakeSum, TaskTypes
<1>8. CASE Feed!TakeNegative
  <2> DEFINE w == Feed!Summary(rep.hist, rep.max, rep.sum, negative)
  <2>1. w \in Windows
    BY WindowInOrder DEF TaskTypes
  <2>2. /\ last_latency' = Feed!Rolled(w) /\ feed_closed' = Append(feed_closed, w)
        /\ rep' = [rep EXCEPT !.pc = "gaps"] /\ UNCHANGED lines
    BY <1>8, Zenon DEF Feed!TakeNegative
  <2> HIDE DEF w
  <2>3. feed_closed' \in Seq(Windows) /\ last_latency' \in Windows
    BY <2>1, <2>2, AppendProperties DEF Feed!Rolled
  <2> QED
    BY <2>2, <2>3
<1>9. CASE Feed!RollGaps
  BY <1>9 DEF Feed!RollGaps
<1>10. CASE Feed!Report
  <2> DEFINE since == Feed!Since(rep.cur, rep.window)
             kept == Feed!IsIdle(since) /\ rep.quiet + 1 < HeartbeatEvery
             line == [delta |-> since, said |-> ~kept, feed |-> Feed!FeedState, told |-> Feed!FeedState # rep.feed]
  <2>1. line \in [delta : Numbers, said : BOOLEAN, feed : Feeds, told : BOOLEAN]
    <3>1. since \in Numbers
      <4>1. \A a, b \in Nat : Feed!Saturating(a, b) \in Nat
        BY DEF Feed!Saturating, Feed!Positive
      <4> QED
        BY <4>1 DEF Feed!Since, Numbers
    <3>2. Feed!FeedState \in Feeds
      BY DEF Feed!FeedState, Feeds
    <3> HIDE DEF since
    <3> QED
      BY <3>1, <3>2
  <2>2. /\ lines' = Append(lines, line) /\ UNCHANGED <<feed_closed, last_latency>>
        /\ rep' = [rep EXCEPT !.pc = "tick", !.window = rep.cur, !.feed = Feed!FeedState,
                              !.quiet = IF kept THEN @ + 1 ELSE 0]
    BY <1>10, Zenon DEF Feed!Report
  <2>3. lines' \in Seq([delta : Numbers, said : BOOLEAN, feed : Feeds, told : BOOLEAN])
    <3> HIDE DEF line
    <3> QED
      BY <2>1, <2>2, AppendProperties
  <2>4. Feed!FeedState \in Feeds
    BY DEF Feed!FeedState, Feeds
  <2>5. PICK q \in Nat : rep' = [rep EXCEPT !.pc = "tick", !.window = rep.cur, !.feed = Feed!FeedState, !.quiet = q]
    <3> DEFINE q == IF kept THEN rep.quiet + 1 ELSE 0
    <3>1. q \in Nat
      OBVIOUS
    <3>2. rep' = [rep EXCEPT !.pc = "tick", !.window = rep.cur, !.feed = Feed!FeedState, !.quiet = q]
      <4>1. rep.quiet = rep["quiet"]
        OBVIOUS
      <4> HIDE DEF kept
      <4> QED
        BY <2>2
    <3> HIDE DEF q
    <3> QED
      BY <3>1, <3>2
  <2> QED
    BY <2>2, <2>3, <2>4, <2>5
<1> QED
  BY <1>1, <1>2, <1>3, <1>4, <1>5, <1>6, <1>7, <1>8, <1>9, <1>10, Zenon DEF Feed!Next, Feed!Reporter, ReporterLoads

\* The steps that close no window, observe nothing and report nothing.
Aside ==
    \/ Feed!Bind \/ (\E kind, us : Feed!Receive(kind, us)) \/ Feed!MoveFeedClock
    \/ Feed!Tick \/ ReporterLoads \/ Feed!Push \/ Feed!RollGaps \/ Feed!Second

\* Every step is one of these.
LEMMA FeedStepIs ==
  ASSUME Feed!Next
  PROVE  \/ Aside \/ Feed!Publish \/ Feed!ReadBucket \/ Feed!CloseWindow \/ Feed!TakeMax
         \/ Feed!TakeSum \/ Feed!TakeNegative \/ Feed!Report
BY Zenon DEF Feed!Next, Feed!UdpTask, Feed!Reporter, ReporterLoads, Aside

\* What they leave as it is.
LEMMA AsideLeaves ==
  ASSUME FeedInv, Aside
  PROVE  /\ UNCHANGED <<latency, sum, negative, last_latency, recorded, feed_closed, lines>>
         /\ rep'.snap = rep.snap /\ rep'.hist = rep.hist /\ rep'.max = rep.max /\ rep'.sum = rep.sum
         /\ rep'.window = rep.window /\ rep'.quiet = rep.quiet /\ rep'.feed = rep.feed
         /\ rep'.pc = rep.pc \/ {rep.pc, rep'.pc} \cap {"max", "sum", "negative"} = {}
<1> USE DEF FeedInv, ReporterTypes, Feed!Quietly, Feed!task, Feed!history, Feed!Step, Feed!stats
<1>1. CASE Feed!Bind \/ (\E kind, us : Feed!Receive(kind, us)) \/ Feed!MoveFeedClock \/ Feed!Second
  <2>1. UNCHANGED <<rep, latency, sum, negative, last_latency, recorded, feed_closed, lines>>
    BY <1>1, Zenon DEF Feed!Bind, Feed!Receive, Feed!MoveFeedClock, Feed!Second
  <2> QED
    BY <2>1
<1>2. CASE Feed!Tick
  BY <1>2 DEF Feed!Tick
<1>3. CASE ReporterLoads
  <2>1. PICK field \in DOMAIN rep.cur, next \in {"parse_errors", "forwarded", "push"} :
          /\ rep' = [rep EXCEPT !.pc = next, !.cur[field] = count[field]]
          /\ rep.pc \in {"datagrams", "parse_errors", "forwarded"}
          /\ UNCHANGED <<latency, sum, negative, last_latency, recorded, feed_closed, lines>>
    BY <1>3 DEF ReporterLoads, Feed!Load, Numbers
  <2> QED
    BY <2>1
<1>4. CASE Feed!Push
  <2>1. UNCHANGED <<latency, sum, negative, last_latency, recorded, feed_closed, lines>> /\ rep.pc = "push"
    BY <1>4, Zenon DEF Feed!Push
  <2>2. \/ rep' = [rep EXCEPT !.pc = "tick", !.pushes = rep.pushes + 1]
        \/ rep' = [rep EXCEPT !.pc = "snapshot", !.pushes = 0, !.slot = 0]
    BY <1>4, Zenon DEF Feed!Push
  <2>3. CASE rep' = [rep EXCEPT !.pc = "tick", !.pushes = rep.pushes + 1]
    BY <2>1, <2>3
  <2>4. CASE rep' = [rep EXCEPT !.pc = "snapshot", !.pushes = 0, !.slot = 0]
    BY <2>1, <2>4
  <2> QED
    BY <2>2, <2>3, <2>4
<1>5. CASE Feed!RollGaps
  BY <1>5 DEF Feed!RollGaps
<1> QED
  BY <1>1, <1>2, <1>3, <1>4, <1>5, Zenon DEF Aside

\* What is read follows what is counted.
BucketsRead == \A i \in Feed!Slots : latency.prev[i] <= rep.snap[i] /\ rep.snap[i] <= latency.hist[i]
FieldRead(field) == rep.window[field] <= rep.cur[field] /\ rep.cur[field] <= count[field]

\* A bucket that was read is never ahead of what was counted in it.
LEMMA BucketsReadKept ==
  ASSUME FeedInv, Feed!Next
  PROVE  BucketsRead'
<1> USE DEF BucketsRead
<1>1. BucketsRead /\ latency \in Latencies /\ rep.snap \in Hists
  BY DEF FeedInv, LoadsInv, TaskTypes, ReporterTypes, Latencies
<1>2. CASE Aside
  BY <1>1, <1>2, AsideLeaves
<1>3. CASE Feed!Publish
  <2>1. rep' = rep /\ datagram.latency \in Int
    BY <1>3, Zenon DEF Feed!Publish, FeedInv, TaskTypes
  <2>2. \/ latency' = latency \/ latency' = Feed!Raise(latency, datagram.latency)
        \/ latency' = Feed!Record(latency, datagram.latency)
    BY <1>3, Zenon DEF Feed!Publish
  <2>3. latency'.prev = latency.prev /\ \A i \in Feed!Slots : latency.hist[i] <= latency'.hist[i]
    <3>1. CASE latency' = latency
      BY <1>1, <3>1 DEF Latencies, Hists
    <3>2. CASE latency' = Feed!Raise(latency, datagram.latency)
      <4>1. latency'.prev = latency.prev /\ latency'.hist = latency.hist
        BY <1>1, <2>1, <3>2, RecordedWindow
      <4> QED
        BY <1>1, <4>1 DEF Latencies, Hists
    <3>3. CASE latency' = Feed!Record(latency, datagram.latency)
      <4>1. /\ latency'.prev = latency.prev
            /\ latency'.hist = [latency.hist EXCEPT ![Feed!BucketOf(datagram.latency)] = @ + 1]
        BY <1>1, <2>1, <3>3, RecordedWindow
      <4> QED
        BY <1>1, <4>1 DEF Latencies, Hists
    <3> QED
      BY <2>2, <3>1, <3>2, <3>3
  <2>4. latency' \in Latencies
    BY <1>3, PublishTypes DEF TaskTypes, Latencies
  <2> QED
    BY <1>1, <2>1, <2>3, <2>4 DEF Latencies, Hists
<1>4. CASE Feed!ReadBucket
  <2>1. latency' = latency /\ rep'.snap = [rep.snap EXCEPT ![rep.slot] = latency.hist[rep.slot]]
    BY <1>4 DEF Feed!ReadBucket, FeedInv, ReporterTypes
  <2>2. \A i \in Feed!Slots : rep'.snap[i] = IF i = rep.slot THEN latency.hist[i] ELSE rep.snap[i]
    BY <1>1, <2>1 DEF Hists
  <2> QED
    BY <1>1, <2>1, <2>2 DEF Latencies, Hists
<1>5. CASE Feed!CloseWindow
  <2>1. latency'.hist = latency.hist /\ latency'.prev = rep.snap /\ rep'.snap = rep.snap
    BY <1>1, <1>5 DEF Feed!CloseWindow, FeedInv, ReporterTypes, Latencies
  <2> QED
    BY <1>1, <2>1 DEF Latencies, Hists
<1>6. CASE Feed!TakeMax
  <2>1. latency'.hist = latency.hist /\ latency'.prev = latency.prev /\ rep'.snap = rep.snap
    BY <1>1, <1>6 DEF Feed!TakeMax, FeedInv, ReporterTypes, Latencies
  <2> QED
    BY <1>1, <2>1
<1>7. CASE Feed!TakeSum \/ Feed!TakeNegative \/ Feed!Report
  <2>1. latency' = latency /\ rep'.snap = rep.snap
    BY <1>7 DEF Feed!TakeSum, Feed!TakeNegative, Feed!Report, Feed!Step, FeedInv, ReporterTypes
  <2> QED
    BY <1>1, <2>1
<1> QED
  BY <1>2, <1>3, <1>4, <1>5, <1>6, <1>7, FeedStepIs

\* Nor is a counter, and its baseline is never ahead of it.
LEMMA FieldReadKept ==
  ASSUME FeedInv, Feed!Next, NEW field \in {"datagrams", "parse_errors"}
  PROVE  FieldRead(field)'
<1> USE DEF FieldRead
<1>1. FieldRead(field) /\ {rep.window[field], rep.cur[field], count[field]} \subseteq Nat
  BY DEF FeedInv, LoadsInv, TaskTypes, ReporterTypes, Numbers
<1>2. CASE ReporterLoads
  <2>1. PICK loaded_field \in DOMAIN rep.cur, next \in {"parse_errors", "forwarded", "push"} :
          /\ rep' = [rep EXCEPT !.pc = next, !.cur[loaded_field] = count[loaded_field]]
          /\ count' = count
    BY <1>2 DEF ReporterLoads, Feed!Load, Numbers, FeedInv, ReporterTypes
  <2>2. rep'.window = rep.window /\ rep'.cur[field] \in {rep.cur[field], count[field]}
    BY <2>1 DEF FeedInv, ReporterTypes, Numbers
  <2> QED
    BY <1>1, <2>1, <2>2
<1>3. CASE \E kind, us : Feed!Receive(kind, us)
  <2>1. rep' = rep /\ count' = [count EXCEPT !.datagrams = @ + 1]
    BY <1>3, Zenon DEF Feed!Receive
  <2>2. count \in Numbers
    BY DEF FeedInv, TaskTypes
  <2>3. count'.datagrams = count.datagrams + 1 /\ count'.parse_errors = count.parse_errors
    BY <2>1, <2>2 DEF Numbers
  <2>4. count[field] <= count'[field] /\ count'[field] \in Nat
    BY <2>2, <2>3 DEF Numbers
  <2> QED
    BY <1>1, <2>1, <2>4
<1>4. CASE Feed!Publish
  <2>1. PICK bad \in Nat, sent \in Nat : rep' = rep /\
          count' = [count EXCEPT !.parse_errors = @ + bad, !.forwarded = @ + sent]
    BY <1>4 DEF Feed!Publish
  <2>2. count \in Numbers
    BY DEF FeedInv, TaskTypes
  <2>3. count'.datagrams = count.datagrams /\ count'.parse_errors = count.parse_errors + bad
    BY <2>1, <2>2 DEF Numbers
  <2>4. count[field] <= count'[field] /\ count'[field] \in Nat
    BY <2>2, <2>3 DEF Numbers
  <2> QED
    BY <1>1, <2>1, <2>4
<1>5. CASE Feed!Report
  <2>1. count' = count /\ rep'.window = rep.cur /\ rep'.cur = rep.cur
    BY <1>5 DEF Feed!Report, FeedInv, ReporterTypes
  <2> QED
    BY <1>1, <2>1
<1>6. CASE Feed!Bind \/ Feed!MoveFeedClock \/ Feed!Second
  <2>1. UNCHANGED <<rep, count>>
    BY <1>6, Zenon DEF Feed!Bind, Feed!MoveFeedClock, Feed!Second, Feed!stats
  <2> QED
    BY <1>1, <2>1
<1>7. CASE Feed!Tick \/ Feed!Push \/ Feed!RollGaps \/ Feed!ReadBucket \/ Feed!CloseWindow
           \/ Feed!TakeMax \/ Feed!TakeSum \/ Feed!TakeNegative
  <2>1. count' = count
    BY <1>7, Zenon DEF Feed!Tick, Feed!Push, Feed!RollGaps, Feed!ReadBucket, Feed!CloseWindow,
       Feed!TakeMax, Feed!TakeSum, Feed!TakeNegative
  <2>2. rep'.window = rep.window /\ rep'.cur = rep.cur
    BY <1>7 DEF Feed!Tick, Feed!Push, Feed!RollGaps, Feed!ReadBucket, Feed!CloseWindow,
       Feed!TakeMax, Feed!TakeSum, Feed!TakeNegative, Feed!Step, FeedInv, ReporterTypes
  <2> QED
    BY <1>1, <2>1, <2>2
<1> QED
  BY <1>2, <1>3, <1>4, <1>5, <1>6, <1>7, FeedStepIs DEF Aside

\* The order of the operations is kept as they are done.
LEMMA TodoKept ==
  ASSUME FeedInv, Feed!Next
  PROVE  TodoInv'
<1> USE DEF TodoInv
<1>1. TodoInv /\ todo \subseteq Operations
  BY PlaceOrder DEF FeedInv, TaskTypes
<1>2. CASE \E kind, us : Feed!Receive(kind, us)
  BY <1>2 DEF Feed!Receive
<1>3. CASE Feed!MoveFeedClock
  BY <1>3, RestOfBatch DEF Feed!MoveFeedClock
<1>4. CASE Feed!Publish
  <2>1. PICK op \in todo \ {"clock"} :
          (\A other \in todo : Feed!Place[op] <= Feed!Place[other]) /\ todo' = todo \ {op}
    BY <1>4, Zenon DEF Feed!Publish
  <2>2. op = "sum" => "latency_count" \notin todo
    BY <2>1, PlaceOrder
  <2> QED
    BY <1>1, <2>1, <2>2
<1>5. CASE UNCHANGED todo
  BY <1>1, <1>5
<1> QED
  BY <1>2, <1>3, <1>4, <1>5, FeedStepIs, Zenon DEF Aside, ReporterLoads, Feed!Load, Feed!Bind, Feed!Tick, Feed!Push, Feed!RollGaps,
     Feed!Second, Feed!ReadBucket, Feed!CloseWindow, Feed!TakeMax, Feed!TakeSum, Feed!TakeNegative,
     Feed!Report, Feed!Quietly, Feed!task

-----------------------------------------------------------------------------
(* The closed windows and the open one hold what was recorded.             *)

Held == IF rep.pc \in {"max", "sum", "negative"} THEN rep.hist ELSE Feed!EmptyHist
OpenBuckets == Feed!Delta(latency.hist, latency.prev)
TakenSum == IF rep.pc = "negative" THEN rep.sum ELSE 0
PendingSum == IF "sum" \in todo /\ "latency_count" \notin todo THEN Feed!Positive(datagram.latency) ELSE 0
ClosedSum(field) == SumFunction([k \in DOMAIN feed_closed |-> feed_closed[k][field]])
RecordedSum == SumFunction([k \in DOMAIN recorded |-> Feed!Positive(recorded[k])])

SamplesHeld == ClosedSum("samples") + Feed!Total(Held) + Feed!Total(OpenBuckets) = Len(recorded)
LatencyHeld == ClosedSum("sum") + TakenSum + sum + PendingSum = RecordedSum

\* WindowsAddUp in its parts.
LEMMA WindowsAddUpIs == Feed!WindowsAddUp <=> SamplesHeld /\ LatencyHeld
<1>1. Feed!Sum("samples") = ClosedSum("samples") /\ Feed!Sum("sum") = ClosedSum("sum")
  BY TotalIsSum DEF Feed!Sum, ClosedSum
<1>2. Feed!SumFunction([k \in DOMAIN recorded |-> Feed!Positive(recorded[k])]) = RecordedSum
  BY TotalIsSum DEF RecordedSum
<1> QED
  BY <1>1, <1>2, Zenon DEF Feed!WindowsAddUp, SamplesHeld, LatencyHeld, Held, OpenBuckets, TakenSum, PendingSum

\* The sums are numbers, and one element more is one addend more.
LEMMA ClosedSumIs ==
  ASSUME feed_closed \in Seq(Windows), NEW field \in {"samples", "sum"}
  PROVE  /\ ClosedSum(field) \in Int
         /\ \A w \in Windows : feed_closed' = Append(feed_closed, w) =>
               ClosedSum(field)' = ClosedSum(field) + w[field]
<1> DEFINE n == Len(feed_closed)
           f == [k \in DOMAIN feed_closed |-> feed_closed[k][field]]
<1>0. \A w \in Windows : w[field] \in Int
  <2>1. \A w \in Windows : w["samples"] \in Int /\ w["sum"] \in Int
    BY DEF Windows
  <2> QED
    BY <2>1
<1>1. /\ n \in Nat /\ DOMAIN feed_closed = 1..n
      /\ \A k \in 1..n : feed_closed[k] \in Windows
  BY LenProperties, ElementOfSeq
<1>2. DOMAIN f = 1..n /\ \A k \in 1..n : f[k] = feed_closed[k][field] /\ f[k] \in Int
  BY <1>0, <1>1
<1>3. SumFunction(f) \in Int
  <2>1. IsFiniteSet(1..n) /\ SumFunction(f) = SumFunctionOnSet(f, 1..n)
    BY <1>1, <1>2, FS_Interval DEF SumFunction
  <2> HIDE DEF f
  <2> QED
    BY <1>2, <2>1, SumIsWhole
<1>4. ASSUME NEW w \in Windows, feed_closed' = Append(feed_closed, w)
      PROVE  ClosedSum(field)' = ClosedSum(field) + w[field]
  <2> DEFINE g == [k \in DOMAIN feed_closed' |-> feed_closed'[k][field]]
  <2>1. /\ Len(feed_closed') = n + 1 /\ DOMAIN feed_closed' = 1..(n + 1) /\ feed_closed'[n + 1] = w
        /\ \A k \in 1..n : feed_closed'[k] = feed_closed[k]
    BY <1>1, <1>4, AppendProperties, LenProperties
  <2>2. /\ DOMAIN g = 1..(n + 1) /\ g[n + 1] = w[field] /\ g[n + 1] \in Int
        /\ \A k \in 1..n : f[k] \in Int /\ g[k] = f[k]
    BY <1>0, <1>1, <1>2, <2>1
  <2> HIDE DEF f, g
  <2>3. SumFunction(g) = SumFunction(f) + w[field]
    BY <1>1, <1>2, <2>2, SumOfOneMore
  <2> QED
    BY <2>3 DEF ClosedSum, f, g
<1> QED
  BY <1>3, <1>4 DEF ClosedSum

LEMMA RecordedSumIs ==
  ASSUME recorded \in Seq(Int)
  PROVE  /\ RecordedSum \in Int
         /\ \A us \in Int : recorded' = Append(recorded, us) =>
               RecordedSum' = RecordedSum + Feed!Positive(us)
<1> DEFINE n == Len(recorded)
           f == [k \in DOMAIN recorded |-> Feed!Positive(recorded[k])]
<1>1. /\ n \in Nat /\ DOMAIN recorded = 1..n
      /\ \A k \in 1..n : recorded[k] \in Int
  BY LenProperties, ElementOfSeq
<1>2. DOMAIN f = 1..n /\ \A k \in 1..n : f[k] = Feed!Positive(recorded[k]) /\ f[k] \in Int
  BY <1>1 DEF Feed!Positive
<1>3. SumFunction(f) \in Int
  <2>1. IsFiniteSet(1..n) /\ SumFunction(f) = SumFunctionOnSet(f, 1..n)
    BY <1>1, <1>2, FS_Interval DEF SumFunction
  <2> HIDE DEF f
  <2> QED
    BY <1>2, <2>1, SumIsWhole
<1>4. ASSUME NEW us \in Int, recorded' = Append(recorded, us)
      PROVE  RecordedSum' = RecordedSum + Feed!Positive(us)
  <2> DEFINE g == [k \in DOMAIN recorded' |-> Feed!Positive(recorded'[k])]
  <2>1. /\ Len(recorded') = n + 1 /\ DOMAIN recorded' = 1..(n + 1) /\ recorded'[n + 1] = us
        /\ \A k \in 1..n : recorded'[k] = recorded[k]
    BY <1>1, <1>4, AppendProperties, LenProperties
  <2>2. /\ DOMAIN g = 1..(n + 1) /\ g[n + 1] = Feed!Positive(us) /\ g[n + 1] \in Int
        /\ \A k \in 1..n : f[k] \in Int /\ g[k] = f[k]
    BY <1>1, <1>2, <2>1 DEF Feed!Positive
  <2> HIDE DEF f, g
  <2>3. SumFunction(g) = SumFunction(f) + Feed!Positive(us)
    BY <1>1, <1>2, <2>2, SumOfOneMore
  <2> QED
    BY <2>3 DEF RecordedSum, f, g
<1> QED
  BY <1>3, <1>4 DEF RecordedSum

\* What the windows hold are numbers.
LEMMA HeldAre ==
  ASSUME FeedInv
  PROVE  /\ Held \in Hists /\ OpenBuckets \in Hists
         /\ Feed!Total(Held) \in Nat /\ Feed!Total(OpenBuckets) \in Nat
         /\ \A i \in Feed!Slots : OpenBuckets[i] = latency.hist[i] - latency.prev[i]
<1>1. Held \in Hists
  BY NothingObserved DEF Held, FeedInv, ReporterTypes
<1>2. latency.hist \in Hists /\ latency.prev \in Hists /\ \A i \in Feed!Slots : latency.prev[i] <= latency.hist[i]
  <2>1. /\ latency \in Latencies /\ rep.snap \in Hists
        /\ \A i \in Feed!Slots : latency.prev[i] <= rep.snap[i] /\ rep.snap[i] <= latency.hist[i]
    BY DEF FeedInv, TaskTypes, ReporterTypes, LoadsInv, Latencies
  <2> QED
    BY <2>1 DEF Latencies, Hists
<1>3. OpenBuckets \in Hists /\ \A i \in Feed!Slots : OpenBuckets[i] = latency.hist[i] - latency.prev[i]
  BY <1>2 DEF OpenBuckets, Feed!Delta, Feed!Saturating, Feed!Positive, Hists
<1> QED
  BY <1>1, <1>3, TotalOfHist

\* However a record interleaves with a roll, no observation is lost or counted
\* twice.
LEMMA SamplesHeldKept ==
  ASSUME FeedInv, Feed!Next
  PROVE  SamplesHeld'
<1>1. /\ SamplesHeld /\ ClosedSum("samples") \in Int /\ Feed!Total(Held) \in Nat /\ Feed!Total(OpenBuckets) \in Nat
      /\ Len(recorded) \in Nat /\ feed_closed \in Seq(Windows) /\ recorded \in Seq(Int)
  <2>1. feed_closed \in Seq(Windows) /\ recorded \in Seq(Int) /\ SamplesHeld
    BY WindowsAddUpIs DEF FeedInv, TaskTypes, ReporterTypes
  <2> QED
    BY <2>1, HeldAre, ClosedSumIs, LenProperties
<1>2. /\ latency \in Latencies /\ latency.hist \in Hists /\ latency.prev \in Hists /\ rep.snap \in Hists
      /\ rep.hist \in Hists /\ datagram.latency \in Int
  BY DEF FeedInv, TaskTypes, ReporterTypes, Latencies
<1>3. ASSUME Held' = Held, OpenBuckets' = OpenBuckets, UNCHANGED <<feed_closed, recorded>>
      PROVE  SamplesHeld'
  BY <1>1, <1>3 DEF SamplesHeld, ClosedSum
<1>4. CASE Aside
  <2>1. UNCHANGED <<latency, feed_closed, recorded>> /\ Held' = Held
    BY <1>4, AsideLeaves DEF Held
  <2> QED
    BY <1>3, <2>1 DEF OpenBuckets
<1>5. CASE Feed!Publish
  <2>1. UNCHANGED <<rep, feed_closed>>
    BY <1>5, Zenon DEF Feed!Publish
  <2>2. \/ latency' = latency /\ recorded' = recorded
        \/ latency' = Feed!Raise(latency, datagram.latency) /\ recorded' = recorded
        \/ latency' = Feed!Record(latency, datagram.latency) /\ recorded' = Append(recorded, datagram.latency)
    BY <1>5 DEF Feed!Publish
  <2>3. CASE latency' = latency /\ recorded' = recorded
    BY <1>3, <2>1, <2>3 DEF OpenBuckets, Held
  <2>4. CASE latency' = Feed!Raise(latency, datagram.latency) /\ recorded' = recorded
    <3>1. latency'.hist = latency.hist /\ latency'.prev = latency.prev
      BY <1>2, <2>4, RecordedWindow
    <3> QED
      BY <1>3, <2>1, <2>4, <3>1 DEF OpenBuckets, Held
  <2>5. CASE latency' = Feed!Record(latency, datagram.latency) /\ recorded' = Append(recorded, datagram.latency)
    <3> DEFINE b == Feed!BucketOf(datagram.latency)
    <3>1. b \in Feed!Slots /\ latency'.prev = latency.prev /\ latency'.hist = [latency.hist EXCEPT ![b] = @ + 1]
      BY <1>2, <2>5, RecordedWindow, InSomeBucket
    <3> HIDE DEF b
    <3>2. OpenBuckets' \in Hists /\ OpenBuckets' = [OpenBuckets EXCEPT ![b] = @ + 1]
      <4>1. \A i \in Feed!Slots : latency.hist[i] \in Nat /\ latency.prev[i] \in Nat /\ latency.prev[i] <= latency.hist[i]
        BY <1>2 DEF FeedInv, LoadsInv, Hists
      <4>2. \A i \in Feed!Slots : latency'.hist[i] = IF i = b THEN latency.hist[i] + 1 ELSE latency.hist[i]
        BY <1>2, <3>1 DEF Hists
      <4>3. OpenBuckets' = [i \in Feed!Slots |-> Feed!Saturating(latency'.hist[i], latency'.prev[i])]
        BY DEF OpenBuckets, Feed!Delta
      <4>4. OpenBuckets = [i \in Feed!Slots |-> Feed!Saturating(latency.hist[i], latency.prev[i])]
        BY DEF OpenBuckets, Feed!Delta
      <4>5. \A i \in Feed!Slots : Feed!Saturating(latency'.hist[i], latency'.prev[i])
                = IF i = b THEN OpenBuckets[i] + 1 ELSE OpenBuckets[i]
        <5>1. \A i \in Feed!Slots : OpenBuckets[i] = latency.hist[i] - latency.prev[i]
          BY HeldAre
        <5> QED
          BY <3>1, <4>1, <4>2, <5>1 DEF Feed!Saturating, Feed!Positive
      <4>6. OpenBuckets \in Hists
        BY HeldAre
      <4> HIDE DEF OpenBuckets
      <4>7. OpenBuckets' = [i \in Feed!Slots |-> IF i = b THEN OpenBuckets[i] + 1 ELSE OpenBuckets[i]]
        BY <4>3, <4>5
      <4> QED
        <5>1. ASSUME NEW o \in Hists, NEW more,
                     more = [i \in Feed!Slots |-> IF i = b THEN o[i] + 1 ELSE o[i]]
              PROVE  more \in Hists /\ more = [o EXCEPT ![b] = @ + 1]
          <6>1. \A i \in Feed!Slots : more[i] \in Nat
            BY <5>1 DEF Hists
          <6>2. more \in Hists
            BY <5>1, <6>1 DEF Hists
          <6>3. o = [i \in Feed!Slots |-> o[i]]
            BY DEF Hists
          <6>4. [o EXCEPT ![b] = @ + 1] = [i \in Feed!Slots |-> IF i = b THEN o[i] + 1 ELSE o[i]]
            BY <6>3
          <6> QED
            BY <5>1, <6>2, <6>4
        <5> QED
          BY <4>6, <4>7, <5>1
    <3>3. Feed!Total(OpenBuckets') = Feed!Total(OpenBuckets) + 1
      BY <3>1, <3>2, HeldAre, OneMoreObserved
    <3>4. Len(recorded') = Len(recorded) + 1
      BY <1>1, <1>2, <2>5, AppendProperties
    <3>5. Held' = Held /\ ClosedSum("samples")' = ClosedSum("samples")
      BY <2>1 DEF Held, ClosedSum
    <3> QED
      BY <1>1, <3>3, <3>4, <3>5 DEF SamplesHeld
  <2> QED
    BY <2>2, <2>3, <2>4, <2>5
<1>6. CASE Feed!ReadBucket
  <2>1. UNCHANGED <<latency, feed_closed, recorded>> /\ rep'.pc \in {"close", "snapshot"} /\ rep.pc = "snapshot"
    BY <1>6 DEF Feed!ReadBucket, Feed!history, FeedInv, ReporterTypes
  <2> QED
    BY <1>3, <2>1 DEF OpenBuckets, Held
<1>7. CASE Feed!CloseWindow
  <2>1. /\ rep.pc = "close" /\ rep'.pc = "max" /\ rep'.hist = Feed!Delta(rep.snap, latency.prev)
        /\ latency'.hist = latency.hist /\ latency'.prev = rep.snap /\ UNCHANGED <<feed_closed, recorded>>
    BY <1>2, <1>7 DEF Feed!CloseWindow, Feed!history, FeedInv, ReporterTypes, Latencies
  <2>2. \A i \in Feed!Slots : latency.prev[i] <= rep.snap[i] /\ rep.snap[i] <= latency.hist[i]
    BY DEF FeedInv, LoadsInv
  <2>3. Feed!Total(Feed!Delta(latency.hist, latency.prev))
          = Feed!Total(Feed!Delta(rep.snap, latency.prev)) + Feed!Total(Feed!Delta(latency.hist, rep.snap))
    BY <1>2, <2>2, WindowsMeet
  <2>4. Feed!Total(Held) = 0 /\ Held' = Feed!Delta(rep.snap, latency.prev)
    BY <2>1, NothingObserved DEF Held
  <2>5. OpenBuckets = Feed!Delta(latency.hist, latency.prev) /\ OpenBuckets' = Feed!Delta(latency.hist, rep.snap)
    BY <2>1 DEF OpenBuckets
  <2>6. ClosedSum("samples")' = ClosedSum("samples")
    BY <2>1 DEF ClosedSum
  <2>7. Feed!Total(Feed!Delta(rep.snap, latency.prev)) \in Nat /\ Feed!Total(Feed!Delta(latency.hist, rep.snap)) \in Nat
    BY <1>2, <2>2, WindowsMeet, TotalOfHist
  <2> HIDE DEF OpenBuckets
  <2> QED
    BY <1>1, <2>1, <2>3, <2>4, <2>5, <2>6, <2>7 DEF SamplesHeld
<1>8. CASE Feed!TakeMax \/ Feed!TakeSum
  <2>1. /\ {rep.pc, rep'.pc} \subseteq {"max", "sum", "negative"} /\ rep'.hist = rep.hist
        /\ latency'.hist = latency.hist /\ latency'.prev = latency.prev /\ UNCHANGED <<feed_closed, recorded>>
    BY <1>2, <1>8 DEF Feed!TakeMax, Feed!TakeSum, Feed!history, FeedInv, ReporterTypes, Latencies
  <2> QED
    BY <1>3, <2>1 DEF OpenBuckets, Held
<1>9. CASE Feed!TakeNegative
  <2> DEFINE w == Feed!Summary(rep.hist, rep.max, rep.sum, negative)
  <2>1. w \in Windows /\ w.samples = Feed!Total(rep.hist)
    <3>1. rep.hist \in Hists /\ rep.max \in Nat /\ rep.sum \in Nat /\ negative \in Nat
      BY DEF FeedInv, TaskTypes, ReporterTypes
    <3> QED
      BY <3>1, WindowInOrder
  <2>2. /\ rep.pc = "negative" /\ rep'.pc = "gaps" /\ feed_closed' = Append(feed_closed, w)
        /\ UNCHANGED <<latency, recorded>>
    BY <1>9 DEF Feed!TakeNegative, Feed!Step, FeedInv, ReporterTypes
  <2> HIDE DEF w
  <2>3. ClosedSum("samples")' = ClosedSum("samples") + w["samples"]
    BY <1>1, <2>1, <2>2, ClosedSumIs
  <2>4. Held = rep.hist /\ Feed!Total(Held') = 0
    BY <2>2, NothingObserved DEF Held
  <2>5. OpenBuckets' = OpenBuckets
    BY <2>2 DEF OpenBuckets
  <2> QED
    BY <1>1, <2>1, <2>2, <2>3, <2>4, <2>5 DEF SamplesHeld
<1>10. CASE Feed!Report
  <2>1. UNCHANGED <<latency, feed_closed, recorded>> /\ rep'.pc = "tick" /\ rep.pc = "feed"
    BY <1>10 DEF Feed!Report, FeedInv, ReporterTypes
  <2> QED
    BY <1>3, <2>1 DEF OpenBuckets, Held
<1> QED
  BY <1>4, <1>5, <1>6, <1>7, <1>8, <1>9, <1>10, FeedStepIs

\* So are the sums of what was recorded, whichever step a batch is at.
LEMMA LatencyHeldKept ==
  ASSUME FeedInv, Feed!Next
  PROVE  LatencyHeld'
<1>1. /\ LatencyHeld /\ ClosedSum("sum") \in Int /\ RecordedSum \in Int /\ sum \in Nat /\ TakenSum \in Nat
      /\ PendingSum \in Nat /\ feed_closed \in Seq(Windows) /\ recorded \in Seq(Int)
      /\ datagram.latency \in Int /\ Feed!Positive(datagram.latency) \in Nat
  <2>1. /\ feed_closed \in Seq(Windows) /\ recorded \in Seq(Int) /\ LatencyHeld /\ sum \in Nat /\ rep.sum \in Nat
        /\ datagram.latency \in Int
    BY WindowsAddUpIs DEF FeedInv, TaskTypes, ReporterTypes
  <2>2. Feed!Positive(datagram.latency) \in Nat
    BY <2>1, InSomeBucket
  <2> QED
    BY <2>1, <2>2, ClosedSumIs, RecordedSumIs DEF TakenSum, PendingSum
<1>2. ASSUME UNCHANGED <<feed_closed, recorded, sum>>, TakenSum' = TakenSum, PendingSum' = PendingSum
      PROVE  LatencyHeld'
  BY <1>1, <1>2 DEF LatencyHeld, ClosedSum, RecordedSum
<1>3. CASE Aside
  <2>1. UNCHANGED <<feed_closed, recorded, sum>> /\ TakenSum' = TakenSum
    BY <1>3, AsideLeaves DEF TakenSum
  <2>2. PendingSum' = PendingSum
    <3>1. CASE \E kind, us : Feed!Receive(kind, us)
      <4>1. todo = {} /\ todo' = {"clock"}
        BY <3>1, Zenon DEF Feed!Receive
      <4> QED
        BY <4>1 DEF PendingSum
    <3>2. CASE Feed!MoveFeedClock
      <4>1. "clock" \in todo /\ ("latency_count" \in todo' <=> "sum" \in todo')
        BY <3>2, RestOfBatch DEF Feed!MoveFeedClock
      <4>2. "sum" \notin todo
        BY <4>1 DEF FeedInv, TodoInv
      <4> QED
        BY <4>1, <4>2 DEF PendingSum
    <3>3. CASE UNCHANGED <<todo, datagram>>
      BY <3>3 DEF PendingSum
    <3> QED
      BY <1>3, <3>1, <3>2, <3>3, Zenon DEF Aside, ReporterLoads, Feed!Load, Feed!Bind, Feed!Tick, Feed!Push,
         Feed!RollGaps, Feed!Second, Feed!Quietly, Feed!task
  <2> QED
    BY <1>2, <2>1, <2>2
<1>4. CASE Feed!Publish
  <2>1. PICK op \in todo \ {"clock"} :
          /\ \A other \in todo : Feed!Place[op] <= Feed!Place[other]
          /\ todo' = todo \ {op}
          /\ sum' = sum + (IF op = "sum" THEN Feed!Positive(datagram.latency) ELSE 0)
          /\ recorded' = IF op = "latency_count" THEN Append(recorded, datagram.latency) ELSE recorded
          /\ UNCHANGED <<datagram, rep, feed_closed>>
    BY <1>4, Zenon DEF Feed!Publish
  <2>2. TakenSum' = TakenSum /\ ClosedSum("sum")' = ClosedSum("sum")
    BY <2>1 DEF TakenSum, ClosedSum
  <2>3. CASE op = "latency_count"
    <3>1. PendingSum = 0 /\ PendingSum' = Feed!Positive(datagram.latency) /\ sum' = sum
      BY <1>1, <2>1, <2>3 DEF PendingSum, FeedInv, TodoInv
    <3>2. RecordedSum' = RecordedSum + Feed!Positive(datagram.latency)
      BY <1>1, <2>1, <2>3, RecordedSumIs
    <3> QED
      BY <1>1, <2>2, <3>1, <3>2 DEF LatencyHeld
  <2>4. CASE op = "sum"
    <3>1. "latency_count" \notin todo
      BY <2>1, <2>4, PlaceOrder
    <3>2. PendingSum = Feed!Positive(datagram.latency) /\ PendingSum' = 0
      BY <2>1, <2>4, <3>1 DEF PendingSum
    <3>3. RecordedSum' = RecordedSum /\ sum' = sum + Feed!Positive(datagram.latency)
      BY <2>1, <2>4 DEF RecordedSum
    <3> QED
      BY <1>1, <2>2, <3>2, <3>3 DEF LatencyHeld
  <2>5. CASE op \notin {"latency_count", "sum"}
    <3>1. PendingSum' = PendingSum /\ recorded' = recorded /\ sum' = sum
      BY <1>1, <2>1, <2>5 DEF PendingSum
    <3> QED
      BY <1>2, <2>1, <2>2, <3>1
  <2> QED
    BY <2>3, <2>4, <2>5
<1>5. CASE Feed!TakeSum
  <2>1. /\ rep.pc = "sum" /\ rep'.pc = "negative" /\ rep'.sum = sum /\ sum' = 0
        /\ UNCHANGED <<feed_closed, recorded, todo, datagram>>
    BY <1>5 DEF Feed!TakeSum, Feed!history, Feed!Quietly, Feed!task, FeedInv, ReporterTypes
  <2>2. TakenSum = 0 /\ TakenSum' = sum
    BY <2>1 DEF TakenSum
  <2>3. ClosedSum("sum")' = ClosedSum("sum") /\ RecordedSum' = RecordedSum /\ PendingSum' = PendingSum
    BY <2>1 DEF ClosedSum, RecordedSum, PendingSum
  <2> QED
    BY <1>1, <2>1, <2>2, <2>3 DEF LatencyHeld
<1>6. CASE Feed!TakeNegative
  <2> DEFINE w == Feed!Summary(rep.hist, rep.max, rep.sum, negative)
  <2>1. w \in Windows /\ w.sum = rep.sum
    <3>1. rep.hist \in Hists /\ rep.max \in Nat /\ rep.sum \in Nat /\ negative \in Nat
      BY DEF FeedInv, TaskTypes, ReporterTypes
    <3> QED
      BY <3>1, WindowInOrder
  <2>2. /\ rep.pc = "negative" /\ rep'.pc = "gaps" /\ feed_closed' = Append(feed_closed, w)
        /\ UNCHANGED <<sum, recorded, todo, datagram>>
    BY <1>6 DEF Feed!TakeNegative, Feed!Step, Feed!Quietly, Feed!task, FeedInv, ReporterTypes
  <2> HIDE DEF w
  <2>3. ClosedSum("sum")' = ClosedSum("sum") + w["sum"]
    BY <1>1, <2>1, <2>2, ClosedSumIs
  <2>4. TakenSum = rep.sum /\ TakenSum' = 0
    BY <2>2 DEF TakenSum
  <2>5. RecordedSum' = RecordedSum /\ PendingSum' = PendingSum
    BY <2>2 DEF RecordedSum, PendingSum
  <2> QED
    BY <1>1, <2>1, <2>2, <2>3, <2>4, <2>5 DEF LatencyHeld
<1>7. CASE Feed!ReadBucket \/ Feed!CloseWindow \/ Feed!TakeMax \/ Feed!Report
  <2>1. UNCHANGED <<feed_closed, recorded, sum, todo, datagram>>
    BY <1>7, Zenon DEF Feed!ReadBucket, Feed!CloseWindow, Feed!TakeMax, Feed!Report, Feed!history, Feed!Quietly, Feed!task
  <2>2. "negative" \notin {rep.pc, rep'.pc}
    BY <1>7 DEF Feed!ReadBucket, Feed!CloseWindow, Feed!TakeMax, Feed!Report, FeedInv, ReporterTypes
  <2> QED
    BY <1>2, <2>1, <2>2 DEF TakenSum, PendingSum
<1> QED
  BY <1>3, <1>4, <1>5, <1>6, <1>7, FeedStepIs

-----------------------------------------------------------------------------
(* The readout, the log lines and what they tell of the feed.              *)

\* An element more at the end of a sequence.
LEMMA OneAtEnd ==
  ASSUME NEW S, NEW s \in Seq(S), NEW x, NEW t, t = Append(s, x), x \in S
  PROVE  /\ Len(s) \in Nat /\ Len(t) = Len(s) + 1
         /\ DOMAIN s = 1..Len(s) /\ DOMAIN t = 1..(Len(s) + 1)
         /\ t[Len(s) + 1] = x /\ \A k \in 1..Len(s) : t[k] = s[k]
BY AppendProperties, LenProperties

\* The last window that measured something is what the page shows.
LEMMA ReadoutKept ==
  ASSUME FeedInv, Feed!Next
  PROVE  ReadoutInv'
<1>1. ReadoutInv
  BY DEF FeedInv
<1>2. CASE UNCHANGED <<feed_closed, last_latency>>
  BY <1>1, <1>2 DEF ReadoutInv
<1>3. CASE Feed!TakeNegative
  <2> DEFINE w == Feed!Summary(rep.hist, rep.max, rep.sum, negative)
             n == Len(feed_closed)
  <2>1. w \in Windows /\ w.p50 <= w.p99 /\ w.p99 <= w.max
    <3>1. rep.hist \in Hists /\ rep.max \in Nat /\ rep.sum \in Nat /\ negative \in Nat
      BY DEF FeedInv, TaskTypes, ReporterTypes
    <3> QED
      BY <3>1, WindowInOrder
  <2>2. feed_closed' = Append(feed_closed, w) /\ last_latency' = IF w.samples > 0 THEN w ELSE last_latency
    BY <1>3, Zenon DEF Feed!TakeNegative, Feed!Rolled
  <2> HIDE DEF w
  <2>3. /\ n \in Nat /\ DOMAIN feed_closed = 1..n /\ DOMAIN feed_closed' = 1..(n + 1)
        /\ feed_closed'[n + 1] = w /\ \A k \in 1..n : feed_closed'[k] = feed_closed[k]
        /\ \A k \in 1..n : feed_closed[k].samples \in Nat
        /\ w.samples \in Nat
    <3>1. feed_closed \in Seq(Windows)
      BY DEF FeedInv, ReporterTypes
    <3>2. \A k \in 1..n : feed_closed[k] \in Windows
      BY <3>1, ElementOfSeq
    <3> QED
      <4>1. /\ n \in Nat /\ DOMAIN feed_closed = 1..n /\ DOMAIN feed_closed' = 1..(n + 1)
            /\ feed_closed'[n + 1] = w /\ \A k \in 1..n : feed_closed'[k] = feed_closed[k]
        BY <3>1, <2>1, <2>2, OneAtEnd
      <4>2. \A v \in Windows : v.samples \in Nat
        BY DEF Windows
      <4> QED
        BY <2>1, <3>2, <4>1, <4>2
  <2> HIDE DEF n
  <2>4. ASSUME NEW k \in DOMAIN feed_closed', feed_closed'[k].samples > 0,
               \A j \in DOMAIN feed_closed' : j > k => feed_closed'[j].samples = 0
        PROVE  last_latency' = feed_closed'[k]
    <3>1. CASE k = n + 1
      BY <2>2, <2>3, <2>4, <3>1
    <3>2. CASE k \in 1..n
      <4>1. w.samples = 0
        BY <2>3, <2>4, <3>2
      <4>2. feed_closed[k].samples > 0 /\ \A j \in 1..n : j > k => feed_closed[j].samples = 0
        BY <2>3, <2>4, <3>2
      <4>3. last_latency = feed_closed[k]
        BY <1>1, <2>3, <3>2, <4>2 DEF ReadoutInv
      <4> QED
        BY <2>2, <2>3, <3>2, <4>1, <4>3
    <3> QED
      BY <2>3, <3>1, <3>2
  <2>5. ASSUME NEW k \in DOMAIN feed_closed'
        PROVE  feed_closed'[k].p50 <= feed_closed'[k].p99 /\ feed_closed'[k].p99 <= feed_closed'[k].max
    <3>1. CASE k = n + 1
      BY <2>1, <2>3, <3>1
    <3>2. CASE k \in 1..n
      BY <1>1, <2>3, <3>2 DEF ReadoutInv
    <3> QED
      BY <2>3, <3>1, <3>2
  <2> QED
    BY <2>4, <2>5 DEF ReadoutInv
<1>4. CASE Aside
  BY <1>2, <1>4, AsideLeaves
<1>5. CASE Feed!Publish \/ Feed!ReadBucket \/ Feed!CloseWindow \/ Feed!TakeMax \/ Feed!TakeSum \/ Feed!Report
  <2>1. UNCHANGED <<feed_closed, last_latency>>
    BY <1>5, Zenon DEF Feed!Publish, Feed!ReadBucket, Feed!CloseWindow, Feed!TakeMax, Feed!TakeSum,
       Feed!Report, Feed!history
  <2> QED
    BY <1>2, <2>1
<1> QED
  BY <1>3, <1>4, <1>5, FeedStepIs

\* What a report's line says, and of what.
LinesOf == [delta : Numbers, said : BOOLEAN, feed : Feeds, told : BOOLEAN]
Line == LET since == Feed!Since(rep.cur, rep.window)
        IN  [delta |-> since, said |-> ~(Feed!IsIdle(since) /\ rep.quiet + 1 < HeartbeatEvery),
             feed |-> Feed!FeedState, told |-> Feed!FeedState # rep.feed]

\* A report adds one line, and its baseline is what it has read.
LEMMA ReportDoes ==
  ASSUME FeedInv, Feed!Report
  PROVE  /\ Line \in LinesOf /\ lines' = Append(lines, Line) /\ lines \in Seq(LinesOf)
         /\ rep'.window = rep.cur /\ rep'.feed = Feed!FeedState
         /\ rep'.quiet = IF Line.said THEN 0 ELSE rep.quiet + 1
         /\ ~Line.said => rep.quiet + 1 < HeartbeatEvery
         /\ \A field \in {"datagrams", "parse_errors"} :
              /\ Line.delta[field] = rep.cur[field] - rep.window[field]
              /\ ~Line.said => Line.delta[field] = 0
         /\ Line.feed = Feed!FeedState /\ (Line.told <=> Feed!FeedState # rep.feed)
         /\ UNCHANGED <<udp_bound, last_datagram>>
<1> DEFINE since == Feed!Since(rep.cur, rep.window)
           kept == Feed!IsIdle(since) /\ rep.quiet + 1 < HeartbeatEvery
<1>1. /\ rep.cur \in Numbers /\ rep.window \in Numbers /\ rep.quiet \in Nat /\ lines \in Seq(LinesOf)
      /\ \A field \in {"datagrams", "parse_errors"} : rep.window[field] <= rep.cur[field]
  BY DEF FeedInv, ReporterTypes, LoadsInv, LinesOf
<1>2. /\ lines' = Append(lines, Line) /\ UNCHANGED <<udp_bound, last_datagram>>
      /\ rep' = [rep EXCEPT !.pc = "tick", !.window = rep.cur, !.feed = Feed!FeedState,
                            !.quiet = IF kept THEN rep.quiet + 1 ELSE 0]
  BY Zenon DEF Feed!Report, Line, Feed!Quietly
<1>3. /\ Line.delta = since /\ Line.feed = Feed!FeedState
      /\ (Line.said <=> ~kept) /\ (Line.told <=> Feed!FeedState # rep.feed)
  BY Zenon DEF Line
<1>4. Line \in LinesOf
  <2>1. since \in Numbers
    <3>1. \A a, b \in Nat : Feed!Saturating(a, b) \in Nat
      BY DEF Feed!Saturating, Feed!Positive
    <3> QED
      BY <1>1, <3>1 DEF Feed!Since, Numbers
  <2>2. Feed!FeedState \in Feeds
    BY DEF Feed!FeedState, Feeds
  <2> HIDE DEF since
  <2> QED
    BY <2>1, <2>2 DEF Line, LinesOf, since
<1>5. ASSUME NEW field \in {"datagrams", "parse_errors"}
      PROVE  /\ since[field] = rep.cur[field] - rep.window[field]
             /\ kept => since[field] = 0
  <2>1. rep.window[field] \in Nat /\ rep.cur[field] \in Nat /\ rep.window[field] <= rep.cur[field]
    BY <1>1 DEF Numbers
  <2>2. since[field] = Feed!Saturating(rep.cur[field], rep.window[field])
    BY DEF Feed!Since
  <2>3. kept => since[field] = 0
    BY DEF Feed!IsIdle
  <2> QED
    BY <2>1, <2>2, <2>3 DEF Feed!Saturating, Feed!Positive
<1>6. rep'.window = rep.cur /\ rep'.feed = Feed!FeedState /\ rep'.quiet = IF kept THEN rep.quiet + 1 ELSE 0
  BY <1>2 DEF FeedInv, ReporterTypes
<1> HIDE DEF since
<1>7. kept => rep.quiet + 1 < HeartbeatEvery
  OBVIOUS
<1> HIDE DEF kept, Line
<1> QED
  BY <1>1, <1>2, <1>3, <1>4, <1>5, <1>6, <1>7

\* The deltas of the lines so far.
Told(field) == SumFunction([k \in DOMAIN lines |-> lines[k].delta[field]])

\* They are a number, and one line more adds its own.
LEMMA ToldIs ==
  ASSUME lines \in Seq(LinesOf), NEW field \in {"datagrams", "parse_errors"}
  PROVE  /\ Told(field) \in Int
         /\ \A l \in LinesOf : lines' = Append(lines, l) => Told(field)' = Told(field) + l.delta[field]
<1> DEFINE n == Len(lines)
           f == [k \in DOMAIN lines |-> lines[k].delta[field]]
<1>1. \A l \in LinesOf : l.delta[field] \in Int
  <2>1. \A c \in Numbers : c["datagrams"] \in Int /\ c["parse_errors"] \in Int
    BY DEF Numbers
  <2>2. \A l \in LinesOf : l.delta \in Numbers
    BY DEF LinesOf
  <2> QED
    BY <2>1, <2>2
<1>2. /\ n \in Nat /\ DOMAIN lines = 1..n
      /\ \A k \in 1..n : lines[k] \in LinesOf
  BY LenProperties, ElementOfSeq
<1>3. DOMAIN f = 1..n /\ \A k \in 1..n : f[k] = lines[k].delta[field] /\ f[k] \in Int
  BY <1>1, <1>2
<1>4. SumFunction(f) \in Int
  <2>1. IsFiniteSet(1..n) /\ SumFunction(f) = SumFunctionOnSet(f, 1..n)
    BY <1>2, <1>3, FS_Interval DEF SumFunction
  <2> HIDE DEF f
  <2> QED
    BY <1>3, <2>1, SumIsWhole
<1>5. ASSUME NEW l \in LinesOf, lines' = Append(lines, l)
      PROVE  Told(field)' = Told(field) + l.delta[field]
  <2> DEFINE g == [k \in DOMAIN lines' |-> lines'[k].delta[field]]
  <2>1. /\ DOMAIN lines' = 1..(n + 1) /\ lines'[n + 1] = l
        /\ \A k \in 1..n : lines'[k] = lines[k]
    BY <1>5, OneAtEnd
  <2>2. /\ DOMAIN g = 1..(n + 1) /\ g[n + 1] = l.delta[field] /\ g[n + 1] \in Int
        /\ \A k \in 1..n : f[k] \in Int /\ g[k] = f[k]
    BY <1>1, <1>2, <1>3, <2>1
  <2> HIDE DEF f, g
  <2>3. SumFunction(g) = SumFunction(f) + l.delta[field]
    BY <1>2, <1>3, <2>2, SumOfOneMore
  <2> QED
    BY <2>3 DEF Told, f, g
<1> QED
  BY <1>4, <1>5 DEF Told

\* LinesTellEverything in its parts.
DeltasTold(field) ==
    /\ Told(field) = rep.window[field]
    /\ \A k \in DOMAIN lines : ~lines[k].said => lines[k].delta[field] = 0
SaidInTime ==
    \A k \in 1 .. Len(lines) - HeartbeatEvery + 1 : \E j \in k .. k + HeartbeatEvery - 1 : lines[j].said
QuietSince == rep.quiet = Len(lines) \/ (rep.quiet < Len(lines) /\ lines[Len(lines) - rep.quiet].said)

LEMMA LinesInvIs ==
  LinesInv <=> /\ DeltasTold("datagrams") /\ DeltasTold("parse_errors")
               /\ SaidInTime /\ rep.quiet < HeartbeatEvery /\ QuietSince
<1>1. \A field : Feed!SumFunction([k \in DOMAIN lines |-> lines[k].delta[field]]) = Told(field)
  BY TotalIsSum DEF Told
<1>2. Feed!LinesTellEverything <=> DeltasTold("datagrams") /\ DeltasTold("parse_errors") /\ SaidInTime
  BY <1>1, Zenon DEF Feed!LinesTellEverything, DeltasTold, SaidInTime
<1> QED
  BY <1>2, Zenon DEF LinesInv, QuietSince

\* The lines tell everything, and no more than HeartbeatEvery - 1 are kept back.
LEMMA LinesKept ==
  ASSUME FeedInv, Feed!Next
  PROVE  LinesInv'
<1>1. /\ DeltasTold("datagrams") /\ DeltasTold("parse_errors") /\ SaidInTime /\ rep.quiet < HeartbeatEvery
      /\ QuietSince /\ lines \in Seq(LinesOf) /\ rep.quiet \in Nat
  BY LinesInvIs DEF FeedInv, ReporterTypes, LinesOf
<1>2. ASSUME lines' = lines, rep'.window = rep.window, rep'.quiet = rep.quiet
      PROVE  LinesInv'
  <2>1. LinesInv' <=> /\ DeltasTold("datagrams")' /\ DeltasTold("parse_errors")'
                      /\ SaidInTime' /\ (rep.quiet < HeartbeatEvery)' /\ QuietSince'
    BY LinesInvIs, PTL
  <2> QED
    BY <1>1, <1>2, <2>1 DEF DeltasTold, Told, SaidInTime, QuietSince
<1>3. CASE Feed!Report
  <2> DEFINE n == Len(lines)
             h == HeartbeatEvery
  <2>1. /\ Line \in LinesOf /\ lines' = Append(lines, Line)
        /\ rep'.window = rep.cur
        /\ rep'.quiet = IF Line.said THEN 0 ELSE rep.quiet + 1
        /\ ~Line.said => rep.quiet + 1 < h
        /\ \A field \in {"datagrams", "parse_errors"} :
             /\ Line.delta[field] = rep.cur[field] - rep.window[field]
             /\ ~Line.said => Line.delta[field] = 0
    BY <1>3, ReportDoes
  <2>2. /\ n \in Nat /\ Len(lines') = n + 1 /\ DOMAIN lines = 1..n /\ DOMAIN lines' = 1..(n + 1)
        /\ lines'[n + 1] = Line /\ \A k \in 1..n : lines'[k] = lines[k]
    BY <1>1, <2>1, OneAtEnd
  <2>3. h \in Nat /\ h >= 1
    BY StatsConstants
  <2>4. ASSUME NEW field \in {"datagrams", "parse_errors"} PROVE DeltasTold(field)'
    <3>1. Told(field)' = Told(field) + Line.delta[field] /\ Told(field) \in Int /\ Told(field) = rep.window[field]
      BY <1>1, <2>1, ToldIs DEF DeltasTold
    <3>2. rep.cur[field] \in Int
      BY DEF FeedInv, ReporterTypes, Numbers
    <3>3. \A k \in DOMAIN lines' : ~lines'[k].said => lines'[k].delta[field] = 0
      BY <1>1, <2>1, <2>2 DEF DeltasTold
    <3>4. Told(field)' = rep'.window[field]
      BY <2>1, <3>1, <3>2
    <3> QED
      BY <3>3, <3>4 DEF DeltasTold
  <2> HIDE DEF n, h
  <2>5. rep'.quiet < h /\ QuietSince'
    <3> rep'.quiet \in Nat
      BY <2>1 DEF FeedInv, ReporterTypes
    <3>1. QuietSince' <=> (rep'.quiet = n + 1 \/ (rep'.quiet < n + 1 /\ lines'[n + 1 - rep'.quiet].said))
      BY <2>2 DEF QuietSince
    <3>2. rep.quiet = n \/ (rep.quiet < n /\ lines[n - rep.quiet].said)
      BY <1>1 DEF QuietSince, n
    <3>3. CASE Line.said
      BY <2>1, <2>2, <2>3, <3>1, <3>3
    <3>4. CASE ~Line.said
      <4>1. rep'.quiet = rep.quiet + 1 /\ rep'.quiet < h
        BY <2>1, <3>4
      <4>2. CASE rep.quiet = n
        BY <2>2, <3>1, <4>1, <4>2
      <4>3. CASE rep.quiet < n /\ lines[n - rep.quiet].said
        <5>1. n + 1 - rep'.quiet = n - rep.quiet /\ n - rep.quiet \in 1..n
          BY <1>1, <2>2, <4>1, <4>3
        <5> QED
          BY <1>1, <2>2, <3>1, <4>1, <4>3, <5>1
      <4> QED
        BY <3>2, <4>1, <4>2, <4>3
    <3> QED
      BY <3>3, <3>4
  <2>6. SaidInTime'
    <3>1. ASSUME NEW k \in 1 .. n + 1 - h + 1 PROVE \E j \in k .. k + h - 1 : lines'[j].said
      <4>2. CASE k \in 1 .. n - h + 1
        <5>1. PICK j \in k .. k + h - 1 : lines[j].said
          BY <1>1, <4>2 DEF SaidInTime, n, h
        <5>2. j \in 1..n
          BY <2>2, <2>3, <4>2
        <5> QED
          BY <2>2, <5>1, <5>2
      <4>3. CASE k = n + 1 - h + 1
        <5>1. CASE Line.said
          <6>1. n + 1 \in k .. k + h - 1 /\ lines'[n + 1].said
            BY <2>2, <2>3, <4>3, <5>1
          <6> QED
            BY <6>1
        <5>2. CASE ~Line.said
          <6>1. rep.quiet + 1 < h
            BY <2>1, <5>2
          <6>2. rep.quiet # n
            BY <1>1, <2>2, <2>3, <4>3, <6>1
          <6>3. rep.quiet < n /\ lines[n - rep.quiet].said
            BY <1>1, <6>2 DEF QuietSince, n
          <6>4. n - rep.quiet \in 1..n /\ n - rep.quiet \in k .. k + h - 1
            BY <1>1, <2>2, <2>3, <4>3, <6>1, <6>3
          <6> QED
            BY <2>2, <6>3, <6>4
        <5> QED
          BY <5>1, <5>2
      <4> QED
        BY <2>2, <2>3, <3>1, <4>2, <4>3
    <3>2. SaidInTime' <=> \A k \in 1 .. n + 1 - h + 1 : \E j \in k .. k + h - 1 : lines'[j].said
      BY <2>2, <2>3 DEF SaidInTime, h
    <3> QED
      BY <2>2, <3>1, <3>2
  <2>7. LinesInv' <=> /\ DeltasTold("datagrams")' /\ DeltasTold("parse_errors")'
                      /\ SaidInTime' /\ (rep.quiet < HeartbeatEvery)' /\ QuietSince'
    BY LinesInvIs, PTL
  <2> QED
    BY <2>4, <2>5, <2>6, <2>7 DEF h
<1>4. CASE Aside
  BY <1>2, <1>4, AsideLeaves
<1>5. CASE Feed!Publish
  <2>1. UNCHANGED <<lines, rep>>
    BY <1>5, Zenon DEF Feed!Publish
  <2> QED
    BY <1>2, <2>1
<1>6. CASE Feed!ReadBucket \/ Feed!CloseWindow \/ Feed!TakeMax \/ Feed!TakeSum \/ Feed!TakeNegative
  <2>1. lines' = lines /\ rep'.window = rep.window /\ rep'.quiet = rep.quiet
    BY <1>6 DEF Feed!ReadBucket, Feed!CloseWindow, Feed!TakeMax, Feed!TakeSum,
       Feed!TakeNegative, Feed!history, Feed!Step, FeedInv, ReporterTypes
  <2> QED
    BY <1>2, <2>1
<1> QED
  BY <1>3, <1>4, <1>5, <1>6, FeedStepIs

-----------------------------------------------------------------------------
(* The transitions of the feed.                                            *)

\* ToldInv in its parts.
ToldIsHeard == \A k \in DOMAIN lines : lines[k].told => lines[k].feed # "never"
ToldOnce ==
    \A i, k \in DOMAIN lines :
       i < k /\ lines[i].told /\ lines[k].told /\ (\A j \in i + 1 .. k - 1 : ~lines[j].told)
         => lines[i].feed # lines[k].feed
ToldLast ==
    \A i \in DOMAIN lines :
       lines[i].told /\ (\A j \in DOMAIN lines : j > i => ~lines[j].told) => lines[i].feed = rep.feed
FeedIsLast ==
    /\ lines # <<>> => rep.feed = lines[Len(lines)].feed
    /\ lines = <<>> => rep.feed = "never"
HeardIsBound == rep.feed # "never" => udp_bound /\ last_datagram # Feed!None

LEMMA ToldInvIs == ToldInv <=> ToldIsHeard /\ ToldOnce /\ ToldLast /\ FeedIsLast /\ HeardIsBound
<1>1. Feed!Last(lines) = lines[Len(lines)]
  BY Zenon DEF Feed!Last
<1> QED
  BY <1>1, Zenon DEF ToldInv, Feed!TransitionsAreTold, ToldIsHeard, ToldOnce, ToldLast, FeedIsLast, HeardIsBound

\* A feed that was heard is never again one that was not.
LEMMA HeardForGood ==
  ASSUME FeedInv, Feed!Next, udp_bound, last_datagram # Feed!None
  PROVE  udp_bound' /\ last_datagram' # Feed!None
<1>1. CASE Feed!Bind
  BY <1>1 DEF Feed!Bind
<1>2. CASE Feed!MoveFeedClock
  <2>1. udp_bound' = udp_bound /\ last_datagram' = datagram.at
    BY <1>2, Zenon DEF Feed!MoveFeedClock
  <2>2. datagram.at \in Nat
    BY DEF FeedInv, TaskTypes
  <2> QED
    BY <2>1, <2>2 DEF Feed!None
<1>3. CASE UNCHANGED <<udp_bound, last_datagram>>
  BY <1>3
<1>4. CASE ~(Feed!Bind \/ Feed!MoveFeedClock)
  <2>1. UNCHANGED <<udp_bound, last_datagram>>
    BY <1>4, FeedStepIs, Zenon DEF Aside, ReporterLoads, Feed!Receive, Feed!Publish, Feed!Load, Feed!Tick,
       Feed!Push, Feed!RollGaps, Feed!Second, Feed!ReadBucket, Feed!CloseWindow, Feed!TakeMax, Feed!TakeSum,
       Feed!TakeNegative, Feed!Report, Feed!Quietly, Feed!stats
  <2> QED
    BY <1>3, <2>1
<1> QED
  BY <1>1, <1>2, <1>4

\* A transition is told once, when the feed's state is another than the last.
LEMMA ToldKept ==
  ASSUME FeedInv, Feed!Next
  PROVE  ToldInv'
<1>1. ToldIsHeard /\ ToldOnce /\ ToldLast /\ FeedIsLast /\ HeardIsBound
  BY ToldInvIs DEF FeedInv
<1>2. ToldInv' <=> ToldIsHeard' /\ ToldOnce' /\ ToldLast' /\ FeedIsLast' /\ HeardIsBound'
  BY ToldInvIs, PTL
<1>3. CASE lines' = lines /\ rep'.feed = rep.feed
  <2>1. HeardIsBound'
    BY <1>1, <1>3, HeardForGood DEF HeardIsBound
  <2>2. ToldIsHeard' /\ ToldOnce' /\ FeedIsLast'
    BY <1>1, <1>3, Zenon DEF ToldIsHeard, ToldOnce, FeedIsLast
  <2>3. ToldLast'
    BY <1>1, <1>3, Zenon DEF ToldLast
  <2> QED
    BY <1>2, <2>1, <2>2, <2>3
<1>4. CASE Feed!Report
  <2> DEFINE n == Len(lines)
  <2>1. /\ Line \in LinesOf /\ lines' = Append(lines, Line) /\ lines \in Seq(LinesOf)
        /\ rep'.feed = Feed!FeedState
        /\ Line.feed = Feed!FeedState /\ (Line.told <=> Feed!FeedState # rep.feed)
        /\ UNCHANGED <<udp_bound, last_datagram>>
    BY <1>4, ReportDoes
  <2>2. /\ n \in Nat /\ Len(lines') = n + 1 /\ DOMAIN lines = 1..n /\ DOMAIN lines' = 1..(n + 1)
        /\ lines'[n + 1] = Line /\ \A k \in 1..n : lines'[k] = lines[k]
    BY <2>1, OneAtEnd
  <2>3. Feed!FeedState # "never" <=> udp_bound /\ last_datagram # Feed!None
    BY DEF Feed!FeedState
  <2>4. Line.told => Line.feed # "never" /\ Line.feed # rep.feed
    BY <1>1, <2>1, <2>3 DEF HeardIsBound
  <2>5. HeardIsBound'
    BY <2>1, <2>3 DEF HeardIsBound
  <2>6. FeedIsLast'
    <3>1. lines' # <<>>
      BY <2>2
    <3>2. lines'[Len(lines')] = Line
      BY <2>2
    <3> QED
      BY <2>1, <3>1, <3>2, Zenon DEF FeedIsLast
  <2> HIDE DEF n, Line
  <2>7. ToldIsHeard'
    <3>1. ASSUME NEW k \in DOMAIN lines', lines'[k].told PROVE lines'[k].feed # "never"
      <4>1. CASE k = n + 1
        BY <2>2, <2>4, <3>1, <4>1
      <4>2. CASE k \in 1..n
        BY <1>1, <2>2, <3>1, <4>2 DEF ToldIsHeard
      <4> QED
        BY <2>2, <4>1, <4>2
    <3> QED
      BY <3>1 DEF ToldIsHeard
  <2>8. ToldOnce'
    <3>1. ASSUME NEW i \in DOMAIN lines', NEW k \in DOMAIN lines', i < k, lines'[i].told, lines'[k].told,
                 \A j \in i + 1 .. k - 1 : ~lines'[j].told
          PROVE  lines'[i].feed # lines'[k].feed
      <4>1. i \in 1..n /\ lines'[i] = lines[i]
        BY <2>2, <3>1
      <4>2. CASE k = n + 1
        <5>1. \A j \in 1..n : j > i => ~lines[j].told
          BY <2>2, <3>1, <4>1, <4>2
        <5>2. lines[i].feed = rep.feed
          BY <1>1, <2>2, <3>1, <4>1, <5>1 DEF ToldLast
        <5> QED
          BY <2>2, <2>4, <3>1, <4>1, <4>2, <5>2
      <4>3. CASE k \in 1..n
        <5>1. lines'[k] = lines[k] /\ \A j \in i + 1 .. k - 1 : ~lines[j].told
          BY <2>2, <3>1, <4>1, <4>3
        <5> QED
          BY <1>1, <2>2, <3>1, <4>1, <4>3, <5>1 DEF ToldOnce
      <4> QED
        BY <2>2, <4>2, <4>3
    <3> QED
      BY <3>1, Zenon DEF ToldOnce
  <2>9. ToldLast'
    <3>1. ASSUME NEW i \in DOMAIN lines', lines'[i].told, \A j \in DOMAIN lines' : j > i => ~lines'[j].told
          PROVE  lines'[i].feed = rep'.feed
      <4>1. CASE i = n + 1
        BY <2>1, <2>2, <4>1
      <4>2. CASE i \in 1..n
        <5>1. ~Line.told
          BY <2>2, <3>1, <4>2
        <5>2. lines'[i] = lines[i] /\ \A j \in 1..n : j > i => ~lines[j].told
          BY <2>2, <3>1, <4>2
        <5>3. lines[i].feed = rep.feed
          BY <1>1, <2>2, <3>1, <4>2, <5>2 DEF ToldLast
        <5> QED
          BY <2>1, <5>1, <5>2, <5>3
      <4> QED
        BY <2>2, <4>1, <4>2
    <3> QED
      BY <3>1, Zenon DEF ToldLast
  <2> QED
    BY <1>2, <2>5, <2>6, <2>7, <2>8, <2>9
<1>5. CASE Aside
  BY <1>3, <1>5, AsideLeaves
<1>6. CASE Feed!Publish
  <2>1. UNCHANGED <<lines, rep>>
    BY <1>6, Zenon DEF Feed!Publish
  <2> QED
    BY <1>3, <2>1
<1>7. CASE Feed!ReadBucket \/ Feed!CloseWindow \/ Feed!TakeMax \/ Feed!TakeSum \/ Feed!TakeNegative
  <2>1. lines' = lines /\ rep'.feed = rep.feed
    BY <1>7 DEF Feed!ReadBucket, Feed!CloseWindow, Feed!TakeMax, Feed!TakeSum,
       Feed!TakeNegative, Feed!history, Feed!Step, FeedInv, ReporterTypes
  <2> QED
    BY <1>3, <2>1
<1> QED
  BY <1>4, <1>5, <1>6, <1>7, FeedStepIs

-----------------------------------------------------------------------------
(* The invariant of the statistics.                                        *)

\* A sum of nothing is 0.
LEMMA NothingSummed ==
  ASSUME NEW f, DOMAIN f = {}
  PROVE  SumFunction(f) = 0
BY FS_EmptySet, SumUnfolds DEF SumFunction

\* The invariant holds at the start, and every step keeps it.
LEMMA FeedInvInit ==
  ASSUME MCInit
  PROVE  FeedInv
<1>1. /\ count = Feed!NoNumbers /\ latency = Feed!EmptyWindow /\ sum = 0 /\ negative = 0
      /\ last_latency = Feed!NoLatency /\ last_datagram = Feed!None /\ feed_now = 0
      /\ todo = {} /\ datagram = [kind |-> "none", latency |-> 0, at |-> 0, gap |-> Feed!None]
      /\ recorded = <<>> /\ feed_closed = <<>> /\ lines = <<>>
  BY Zenon DEF MCInit, Feed!Init
<1>2. rep = [pc |-> "tick", woken |-> 0, cur |-> Feed!NoNumbers, window |-> Feed!NoNumbers,
             pushes |-> 0, quiet |-> 0, feed |-> "never", snap |-> Feed!EmptyHist, slot |-> 0,
             hist |-> Feed!EmptyHist, max |-> 0, sum |-> 0, negative |-> 0]
  BY Zenon DEF MCInit, Feed!Init
<1>3. Feed!NoNumbers \in Numbers /\ Feed!EmptyHist \in Hists /\ Feed!NoLatency \in Windows
  BY NothingObserved DEF Feed!NoNumbers, Numbers, Feed!NoLatency, Windows
<1>4. /\ Feed!EmptyWindow = [hist |-> Feed!EmptyHist, prev |-> Feed!EmptyHist, max_us |-> 0]
      /\ Feed!NoNumbers = [datagrams |-> 0, parse_errors |-> 0, forwarded |-> 0]
      /\ \A i \in Feed!Slots : Feed!EmptyHist[i] = 0
  BY DEF Feed!EmptyWindow, Feed!EmptyHist, Feed!NoNumbers
<1>5. TaskTypes
  BY <1>1, <1>3, <1>4 DEF TaskTypes, Feed!None
<1>6. ReporterTypes
  <2>1. /\ feed_closed \in Seq(Windows) /\ last_latency \in Windows
        /\ lines \in Seq([delta : Numbers, said : BOOLEAN, feed : Feeds, told : BOOLEAN])
    BY <1>1, <1>3
  <2> HIDE DEF Hists, Numbers
  <2> QED
    BY <1>2, <1>3, <2>1 DEF ReporterTypes, Feeds
<1>7. LoadsInv
  BY <1>1, <1>2, <1>4 DEF LoadsInv
<1>8. TodoInv
  BY <1>1 DEF TodoInv
<1>9. SamplesHeld
  <2>1. Held = Feed!EmptyHist
    BY <1>2 DEF Held
  <2>2. OpenBuckets = Feed!EmptyHist
    BY <1>1, <1>4 DEF OpenBuckets, Feed!Delta, Feed!Saturating, Feed!Positive, Feed!EmptyHist
  <2>3. ClosedSum("samples") = 0
    BY <1>1, NothingSummed DEF ClosedSum
  <2>4. Len(recorded) = 0
    BY <1>1
  <2> QED
    BY <2>1, <2>2, <2>3, <2>4, NothingObserved DEF SamplesHeld
<1>10. LatencyHeld
  <2>1. ClosedSum("sum") = 0
    BY <1>1, NothingSummed DEF ClosedSum
  <2>2. RecordedSum = 0
    BY <1>1, NothingSummed DEF RecordedSum
  <2>3. TakenSum = 0 /\ PendingSum = 0
    BY <1>1, <1>2 DEF TakenSum, PendingSum
  <2> QED
    BY <1>1, <2>1, <2>2, <2>3 DEF LatencyHeld
<1>11. ReadoutInv
  BY <1>1 DEF ReadoutInv
<1>12. LinesInv
  <2>1. ASSUME NEW field \in {"datagrams", "parse_errors"} PROVE DeltasTold(field)
    <3>1. Told(field) = 0
      BY <1>1, NothingSummed DEF Told
    <3>2. rep.window[field] = 0 /\ DOMAIN lines = {}
      BY <1>1, <1>2, <1>4
    <3> QED
      BY <3>1, <3>2 DEF DeltasTold
  <2>2. Len(lines) = 0 /\ rep.quiet = 0
    BY <1>1, <1>2
  <2>3. SaidInTime /\ QuietSince /\ rep.quiet < HeartbeatEvery
    BY <2>2, StatsConstants DEF SaidInTime, QuietSince
  <2> QED
    BY <2>1, <2>3, LinesInvIs
<1>13. ToldInv
  <2>1. DOMAIN lines = {} /\ rep.feed = "never" /\ lines = <<>>
    BY <1>1, <1>2
  <2> QED
    BY <2>1, ToldInvIs DEF ToldIsHeard, ToldOnce, ToldLast, FeedIsLast, HeardIsBound
<1> QED
  BY <1>5, <1>6, <1>7, <1>8, <1>9, <1>10, <1>11, <1>12, <1>13, WindowsAddUpIs DEF FeedInv

LEMMA FeedInvKept ==
  ASSUME FeedInv, Feed!Next
  PROVE  FeedInv'
<1>1. TaskTypes' /\ ReporterTypes' /\ TodoInv' /\ ReadoutInv' /\ LinesInv' /\ ToldInv'
  BY TaskTypesKept, ReporterTypesKept, TodoKept, ReadoutKept, LinesKept, ToldKept
<1>2. LoadsInv'
  <2>1. \A field \in {"datagrams", "parse_errors"} : FieldRead(field)'
    BY FieldReadKept
  <2> QED
    BY <2>1, BucketsReadKept DEF LoadsInv, BucketsRead, FieldRead
<1>3. Feed!WindowsAddUp'
  <2>1. Feed!WindowsAddUp' <=> SamplesHeld' /\ LatencyHeld'
    BY WindowsAddUpIs, PTL
  <2> QED
    BY <2>1, SamplesHeldKept, LatencyHeldKept
<1> QED
  BY <1>1, <1>2, <1>3 DEF FeedInv

\* While the task is on the other threads nothing is observed or reported.
LEMMA FeedInvStays ==
  ASSUME FeedInv, UNCHANGED feedVars
  PROVE  FeedInv'
<1>1. UNCHANGED <<count, latency, gaps, sum, negative, last_latency, last_datagram, udp_bound, clients,
                  feed_now, todo, datagram, rep, recorded, feed_closed, lines>>
  BY DEF feedVars
<1>2. TaskTypes' /\ ReporterTypes' /\ LoadsInv' /\ TodoInv' /\ ReadoutInv'
  BY <1>1 DEF FeedInv, TaskTypes, ReporterTypes, LoadsInv, TodoInv, ReadoutInv
<1>3. Feed!WindowsAddUp'
  BY <1>1, Zenon DEF FeedInv, Feed!WindowsAddUp, Feed!Sum, Feed!Total, Feed!Delta
<1>4. LinesInv'
  <2>1. DeltasTold("datagrams") /\ DeltasTold("parse_errors") /\ SaidInTime /\ QuietSince
        /\ rep.quiet < HeartbeatEvery
    BY LinesInvIs DEF FeedInv
  <2>2. LinesInv' <=> /\ DeltasTold("datagrams")' /\ DeltasTold("parse_errors")'
                      /\ SaidInTime' /\ (rep.quiet < HeartbeatEvery)' /\ QuietSince'
    BY LinesInvIs, PTL
  <2>3. DeltasTold("datagrams")' /\ DeltasTold("parse_errors")'
    BY <1>1, <2>1 DEF DeltasTold, Told
  <2>4. SaidInTime' /\ QuietSince' /\ (rep.quiet < HeartbeatEvery)'
    BY <1>1, <2>1, Zenon DEF SaidInTime, QuietSince
  <2> QED
    BY <2>2, <2>3, <2>4
<1>5. ToldInv'
  <2>1. ToldIsHeard /\ ToldOnce /\ ToldLast /\ FeedIsLast /\ HeardIsBound
    BY ToldInvIs DEF FeedInv
  <2>2. ToldInv' <=> ToldIsHeard' /\ ToldOnce' /\ ToldLast' /\ FeedIsLast' /\ HeardIsBound'
    BY ToldInvIs, PTL
  <2>3. ToldIsHeard' /\ ToldOnce' /\ ToldLast' /\ FeedIsLast' /\ HeardIsBound'
    BY <1>1, <2>1, Zenon DEF ToldIsHeard, ToldOnce, ToldLast, FeedIsLast, HeardIsBound
  <2> QED
    BY <2>2, <2>3
<1> QED
  BY <1>2, <1>3, <1>4, <1>5 DEF FeedInv

\* However a datagram's atomics interleave with a report's loads and swaps,
\* the closed windows and the open one hold every observation once, the page
\* keeps the last window that measured something, the lines tell every datagram
\* and parse error, and each change of the feed's state is said once.
THEOREM FeedIsAccountedHolds == MCSpec => []FeedIsAccounted
<1>1. FeedInv => FeedIsAccounted
  <2> SUFFICES ASSUME FeedInv PROVE FeedIsAccounted
    OBVIOUS
  <2>1. Feed!WindowsAddUp /\ Feed!LinesTellEverything /\ Feed!TransitionsAreTold
    BY DEF FeedInv, LinesInv, ToldInv
  <2>2. Feed!ReadoutIsStable
    <3>1. ReadoutInv
      BY DEF FeedInv
    <3>2. ASSUME NEW k \in DOMAIN feed_closed, feed_closed[k].samples > 0,
                 \A j \in DOMAIN feed_closed : j > k => feed_closed[j].samples = 0
          PROVE  Feed!LatencySnapshot = feed_closed[k]
      <4>1. last_latency = feed_closed[k]
        BY <3>1, <3>2 DEF ReadoutInv
      <4> QED
        BY <3>2, <4>1, Zenon DEF Feed!LatencySnapshot
    <3> QED
      BY <3>1, <3>2, Zenon DEF ReadoutInv, Feed!ReadoutIsStable
  <2> QED
    BY <2>1, <2>2, Zenon DEF FeedIsAccounted, Feed!FeedIsAccounted
<1>2. FeedInv /\ [MCNext]_allVars => FeedInv'
  <2>1. [MCNext]_allVars => Feed!Next \/ UNCHANGED feedVars
    BY Zenon DEF MCNext, WindowSteps, CaptureSteps, ContextSteps, ShipperSteps, FeedSteps, allVars
  <2> QED
    BY <2>1, FeedInvKept, FeedInvStays
<1>3. MCInit => FeedInv
  BY FeedInvInit
<1> QED
  BY <1>1, <1>2, <1>3, PTL DEF MCSpec, allVars

-----------------------------------------------------------------------------
(* The clock of T2's batches: BatchWindow by itself.                       *)

\* The first window, or one after a pause, never starts in the future nor
\* before the first event.
LEMMA AnchorBounds ==
  ASSUME TypeOK, NEW drain \in Drains, NEW first \in Nat
  PROVE  Anchor(drain, first) \in Nat /\ Anchor(drain, first) <= now
BY DEF TypeOK, Anchor

\* A window opens into the future, at most one window from now.
LEMMA OpenWindowBounds ==
  ASSUME TypeOK, NEW drain \in Drains, NEW first \in Nat,
         window = "open" => now >= deadline
  PROVE  /\ OpenWindow(drain, first) \in Nat
         /\ now < OpenWindow(drain, first)
         /\ OpenWindow(drain, first) <= now + WindowTicks
         /\ window = "open" => OpenWindow(drain, first) >= deadline + WindowTicks
         /\ window = "closed" => OpenWindow(drain, first) - WindowTicks \in Nat
<1>1. Anchor(drain, first) \in Nat /\ Anchor(drain, first) <= now
  BY AnchorBounds
<1> QED
  BY <1>1, ParametersAssumption DEF TypeOK, OpenWindow

\* A park never lasts beyond the deadline by more than the shortest park.
LEMMA ParkHintBounds ==
  ASSUME TypeOK
  PROVE  /\ ParkHint \in Nat
         /\ ParkHint <= MinPark \/ now + ParkHint <= deadline
BY ParametersAssumption DEF TypeOK, ParkHint

\* Counting one window more.
LEMMA OneMoreWindow ==
  ASSUME NEW n \in Nat, NEW w \in Nat
  PROVE  n * w \in Nat /\ (n + 1) * w = n * w + w /\ 0 * w = 0
OBVIOUS

LEMMA WindowInvInit == Init => IInv
BY ParametersAssumption DEF Init, IInv, TypeOK, StepIsInTime, DeadlineIsSound

LEMMA WindowTickKept == IInv /\ Tick => IInv'
<1> SUFFICES ASSUME IInv, Tick PROVE IInv'
  OBVIOUS
<1>1. windows * WindowTicks \in Nat
  BY OneMoreWindow, ParametersAssumption DEF IInv, TypeOK
<1>2. TypeOK'
  BY ParametersAssumption DEF IInv, TypeOK, Tick, batchVars, historyVars
<1>3. StepIsInTime'
  BY DEF IInv, TypeOK, StepIsInTime, Tick, batchVars, historyVars
<1>4. DeadlineIsSound'
  BY <1>1, ParametersAssumption DEF IInv, TypeOK, DeadlineIsSound, Tick, batchVars, historyVars
<1> QED
  BY <1>2, <1>3, <1>4 DEF IInv

LEMMA WindowParkKept == IInv /\ Park => IInv'
<1> SUFFICES ASSUME IInv, Park PROVE IInv'
  OBVIOUS
<1>1. ParkHint \in Nat /\ (ParkHint <= MinPark \/ now + ParkHint <= deadline)
  BY ParkHintBounds DEF IInv
<1>2. TypeOK'
  BY <1>1, ParametersAssumption DEF IInv, TypeOK, Park, batchVars, historyVars
<1>3. StepIsInTime'
  BY <1>1, ParametersAssumption DEF IInv, TypeOK, StepIsInTime, Slack, Park, batchVars, historyVars
<1>4. DeadlineIsSound'
  BY DEF IInv, DeadlineIsSound, Park, batchVars, historyVars
<1> QED
  BY <1>2, <1>3, <1>4 DEF IInv

LEMMA WindowPassKept ==
  ASSUME IInv, NEW drain \in Drains, NEW first \in FirstStamps(drain), Pass(drain, first)
  PROVE  IInv'
<1>1. first \in Nat
  BY ParametersAssumption DEF IInv, TypeOK, FirstStamps
<1>2. windows * WindowTicks \in Nat /\ (windows + 1) * WindowTicks = windows * WindowTicks + WindowTicks
      /\ 0 * WindowTicks = 0
  BY OneMoreWindow, ParametersAssumption DEF IInv, TypeOK
<1>3. CASE Live(drain) /\ (Expired \/ window = "closed")
  <2> DEFINE next == OpenWindow(drain, first)
  <2>1. /\ next \in Nat /\ now < next /\ next <= now + WindowTicks
        /\ window = "open" => next >= deadline + WindowTicks /\ now >= deadline
        /\ window = "closed" => next - WindowTicks \in Nat
    BY <1>1, <1>3, OpenWindowBounds DEF IInv, TypeOK, Expired
  <2>2. /\ window' = "open" /\ deadline' = next /\ live_at' = now /\ limit' = now + Busy
        /\ now' = now /\ stamp' = first /\ t2' \in {"pass", "turned"}
        /\ window = "open" => base' = base /\ windows' = windows + 1
        /\ window = "closed" => base' = next - WindowTicks /\ windows' = 0
    BY <1>3 DEF Pass, AdvanceWindow, IInv, TypeOK
  <2>3. pending' = "yes" => window = "closed" /\ seen' = now
    BY <1>3 DEF Pass, IInv, TypeOK, DeadlineIsSound, Drains, Fresh, PendingAfter, Expired
  <2>4. pending' \in {"no", "yes"} /\ seen' \in Nat
    BY DEF Pass, IInv, TypeOK, Drains, PendingAfter
  <2> HIDE DEF next
  <2>5. TypeOK'
    BY <1>1, <2>1, <2>2, <2>4, ParametersAssumption DEF IInv, TypeOK
  <2>6. StepIsInTime'
    BY <2>1, <2>2, ParametersAssumption DEF IInv, TypeOK, StepIsInTime
  <2>7. DeadlineIsSound'
    <3>1. CASE window = "open"
      BY <3>1, <1>2, <2>1, <2>2, <2>3, ParametersAssumption DEF IInv, TypeOK, DeadlineIsSound
    <3>2. CASE window = "closed"
      BY <3>2, <1>2, <2>1, <2>2, <2>3, ParametersAssumption DEF IInv, TypeOK, DeadlineIsSound
    <3> QED
      BY <3>1, <3>2 DEF IInv, TypeOK
  <2> QED
    BY <2>5, <2>6, <2>7 DEF IInv
<1>4. CASE ~(Live(drain) /\ (Expired \/ window = "closed"))
  <2>1. /\ now' = now /\ limit' = now + Busy /\ stamp' = first /\ t2' \in {"pass", "turned"}
        /\ deadline' = deadline /\ base' = base /\ windows' = windows
    BY <1>4 DEF Pass, AdvanceWindow
  <2>2. window' = "open" => window = "open" /\ now < deadline /\ window' = window
    BY <1>4 DEF Pass, AdvanceWindow, Expired, IInv, TypeOK
  <2>3. window' \in {"open", "closed"} /\ pending' \in {"no", "yes"} /\ seen' \in Nat /\ live_at' \in {live_at, now}
    BY <1>4 DEF Pass, AdvanceWindow, IInv, TypeOK, Drains, PendingAfter
  <2>4. pending' = "yes" => window' = "open" /\ seen' \in {seen, now} /\ (seen' = seen => pending = "yes" \/ seen = now)
    BY <1>4 DEF Pass, AdvanceWindow, IInv, TypeOK, Drains, Fresh, PendingAfter, Expired, Live
  <2>5. TypeOK'
    BY <1>1, <2>1, <2>3, ParametersAssumption DEF IInv, TypeOK
  <2>6. StepIsInTime'
    BY <2>1, <2>2, ParametersAssumption DEF IInv, TypeOK, StepIsInTime
  <2>7. live_at' <= now'
    BY <2>1, <2>3 DEF IInv, TypeOK, DeadlineIsSound
  <2>8. ASSUME window' = "open"
        PROVE  /\ deadline' <= live_at' + WindowTicks
               /\ base' + windows' * WindowTicks + WindowTicks <= deadline'
               /\ base' + windows' * WindowTicks <= now'
    <3>1. window = "open" /\ deadline <= live_at + WindowTicks /\ live_at <= now
      BY <2>2, <2>8 DEF IInv, DeadlineIsSound
    <3>2. deadline <= live_at' + WindowTicks
      <4>1. CASE live_at' = live_at
        BY <3>1, <4>1
      <4>2. CASE live_at' = now
        <5>1. deadline \in Nat /\ live_at \in Nat /\ now \in Nat /\ WindowTicks \in Nat
          BY ParametersAssumption DEF IInv, TypeOK
        <5> QED
          BY <3>1, <4>2, <5>1
      <4> QED
        BY <2>3, <4>1, <4>2
    <3>3. base + windows * WindowTicks + WindowTicks <= deadline /\ base + windows * WindowTicks <= now
      BY <3>1 DEF IInv, DeadlineIsSound
    <3> QED
      BY <2>1, <3>2, <3>3
  <2>9. ASSUME pending' = "yes"
        PROVE  window' = "open" /\ deadline' <= seen' + WindowTicks
    <3>1. window' = "open" /\ deadline' <= now + WindowTicks
      BY <2>1, <2>2, <2>4, <2>9, ParametersAssumption DEF IInv, TypeOK, DeadlineIsSound
    <3>2. pending = "yes" => deadline' <= seen + WindowTicks
      BY <2>1 DEF IInv, DeadlineIsSound
    <3> QED
      BY <2>4, <2>9, <3>1, <3>2
  <2>10. DeadlineIsSound'
    BY <2>7, <2>8, <2>9 DEF DeadlineIsSound
  <2> QED
    BY <2>5, <2>6, <2>10 DEF IInv
<1> QED
  BY <1>3, <1>4

\* Every step keeps the invariant.
LEMMA WindowInvKept == IInv /\ [Next]_vars => IInv'
<1> SUFFICES ASSUME IInv, [Next]_vars PROVE IInv'
  OBVIOUS
<1>1. CASE UNCHANGED vars
  BY <1>1 DEF IInv, TypeOK, StepIsInTime, DeadlineIsSound, vars, batchVars, historyVars
<1>2. CASE \E drain \in Drains : \E first \in FirstStamps(drain) : Pass(drain, first)
  BY <1>2, WindowPassKept
<1> QED
  BY <1>1, <1>2, WindowTickKept, WindowParkKept DEF Next

\* The invariant holds of every behaviour.
THEOREM WindowInvIsInvariant == Spec => []IInv
BY WindowInvInit, WindowInvKept, PTL DEF Spec

\* Times and counts are natural numbers: no subtraction underflows.
THEOREM WindowIsTyped == Spec => []TypeOK
<1>1. IInv => TypeOK
  BY DEF IInv
<1> QED
  BY <1>1, WindowInvIsInvariant, PTL

\* Every partial batch goes out within a window of its first event, and the
\* timer stands down within a window of the last, but for T2's own lateness.
THEOREM WindowIsTimelyHolds == Spec => []WindowIsTimely
<1>1. IInv => WindowIsTimely
  BY ParametersAssumption
  DEF IInv, TypeOK, StepIsInTime, DeadlineIsSound, Slack, WindowIsTimely, EventsAreTimely, TimerStandsDown
<1> QED
  BY <1>1, WindowInvIsInvariant, PTL

\* No more than one timed batch per window, whatever the stamps say.
THEOREM CadenceIsBoundedHolds == Spec => []CadenceIsBounded
<1>1. IInv => CadenceIsBounded
  BY DEF IInv, DeadlineIsSound, CadenceIsBounded
<1> QED
  BY <1>1, WindowInvIsInvariant, PTL
=============================================================================
