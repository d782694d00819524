----------------------------- MODULE AgentProofs -----------------------------
(***************************************************************************)
(* Proofs about Agent: whatever hangs, panics or interrupts the run, the    *)
(* sidecar's verdict is true and its reason, once told, stays.              *)
(***************************************************************************)
EXTENDS Agent, TLAPS

\* Where main is before the run has a reason to end, and once the verdict is
\* settled.
Watching == {"flag", "deadline", "t1", "t2", "t3", "stall", "prewait", "lock",
             "waiting"}
Settled == {"refresh", "written", "returning", "done"}

\* Where main is once it is done with T1, with T2 and with T3.
PastT3 == {"settle"} \cup Settled
PastT2 == {"join_t3"} \cup PastT3
PastT1 == {"tell_t2", "join_t2"} \cup PastT2

\* A worker main has joined is gone, and its panic is in the verdict.
WasJoined(w) == pc[w] = "gone" /\ (joined_clean => w \notin panicked)

JoinedAreGone ==
    /\ main \in PastT1 => detached \/ WasJoined("t1")
    /\ main \in PastT2 => WasJoined("t2")
    /\ main \in PastT3 => WasJoined("t3")

\* What the agent knows of its end follows main.
StateFollowsMain ==
    /\ main \in Watching <=> reason = "running"
    /\ main \in Watching \cup {"leave"} => state.exit = "running"
    /\ main \notin Watching \cup {"leave"} => state.exit = reason
    /\ main \notin Settled => ~state.clean
    /\ main \in Settled => state = [exit |-> reason, clean |-> joined_clean]

\* Who holds the sidecar's lock is there to give it back.
WritersAreThere ==
    /\ writer = "t2" => pc["t2"] = "closing"
    /\ writer = "t3" => pc["t3"] = "run"
    /\ writer = "main" <=> main = "written"

\* The document is no newer than the state and no older than the file.
DiskFollowsState ==
    /\ doc.exit \in {"running", state.exit}
    /\ disk.exit \in {"none", "running", doc.exit}
    /\ doc.clean => doc = state
    /\ disk.clean => disk = state
    /\ main = "written" => doc = state
    /\ main \in {"returning", "done"} => stale \/ disk = state
    /\ finished => main = "done"

IInv ==
    /\ TypeOK /\ JoinedAreGone /\ StateFollowsMain /\ WritersAreThere
    /\ DiskFollowsState

-----------------------------------------------------------------------------
(* Steps of everybody but main.                                            *)

\* The reasons watch leaves with.
LEMMA ReasonsAreNotRunning ==
    /\ \A w \in Workers : Exited[w] \in Reasons \ {"running"}
    /\ \A w \in {"t2", "t3"} : Stalled[w] \in Reasons \ {"running"}
    /\ {"running", "interrupt", "duration"} \subseteq Reasons
BY DEF Exited, Stalled, Workers, Reasons

\* Deadline, console events and a killed process: main is woken at most.
LEMMA OutsideIInv ==
  ASSUME IInv,
         DeadlinePasses \/ CloseKills
           \/ \E e \in Events : ConsoleStores(e) \/ ConsoleNotifies(e)
  PROVE  IInv'
<1> USE DEF mainVars, t1Vars, sidecarVars
<1>1. /\ UNCHANGED <<reason, target, joined_clean, pc, t1Vars, panicked,
                     capture_stopped, sidecarVars, finished>>
      /\ main' = main \/ (main = "waiting" /\ main' = "flag")
  BY DEF DeadlinePasses, CloseKills, ConsoleStores, ConsoleNotifies, stopVars,
         consoleVars, NotifiedMain
<1>2. /\ stop' \in BOOLEAN /\ late' \in BOOLEAN
      /\ console' \in [Events -> {"idle", "stored", "notified", "returned"}]
      /\ ended' \in {"no", "returned", "killed"}
  BY DEF IInv, TypeOK, DeadlinePasses, CloseKills, ConsoleStores, ConsoleNotifies,
         stopVars, consoleVars
<1>3. TypeOK'
  BY <1>1, <1>2 DEF IInv, TypeOK, MainPlaces
<1>4. JoinedAreGone'
  BY <1>1 DEF IInv, JoinedAreGone, WasJoined, PastT1, PastT2, PastT3, Settled
<1>5. StateFollowsMain' /\ WritersAreThere' /\ DiskFollowsState'
  BY <1>1 DEF IInv, StateFollowsMain, WritersAreThere, DiskFollowsState, Watching,
              Settled
<1> QED
  BY <1>3, <1>4, <1>5 DEF IInv

\* A worker moves on, or its life ends, with the sidecar in nobody's hands or
\* another's.
LEMMA WorkersIInv ==
  ASSUME IInv, NEW w \in Workers,
         \/ Panic(w) \/ ClearAlive(w) \/ NotifyDeath(w) \/ Hang(w)
         \/ w = "t1" /\ \/ Publish \/ MakeQueue \/ OpenWindow \/ Register
                        \/ PumpQuits \/ CaptureFails
         \/ w = "t2" /\ ShippingStops
         \/ w = "t3" /\ ContextStops
  PROVE  IInv'
<1> USE DEF mainVars, t1Vars, stopVars, consoleVars, sidecarVars, workerRest, Goes
<1>1. /\ UNCHANGED <<reason, target, joined_clean, quit, detached, stopVars,
                     consoleVars, ended, sidecarVars>>
      /\ main' = main \/ (main = "waiting" /\ main' = "flag")
      /\ hwnd' \in {hwnd, TRUE} /\ panicked' \in {panicked, panicked \cup {w}}
  BY DEF Panic, ClearAlive, NotifyDeath, Hang, Publish, MakeQueue, OpenWindow,
         Register, PumpQuits, CaptureFails, ShippingStops, ContextStops,
         NotifiedMain
<1>2. PICK place \in WorkerPlaces \cup {"returned"} :
        /\ pc' = [pc EXCEPT ![w] = place]
        /\ writer # w
        /\ pc[w] # "gone" /\ (panicked' # panicked => place # "gone" /\ w \in Panics)
  <2>1. CASE w = "t2" /\ ShippingStops
    BY <2>1 DEF ShippingStops, IInv, WritersAreThere, WorkerPlaces
  <2>2. CASE w = "t1" /\ \/ Publish \/ MakeQueue \/ OpenWindow \/ Register
                         \/ PumpQuits \/ CaptureFails
    BY <2>2 DEF Publish, MakeQueue, OpenWindow, Register, PumpQuits, CaptureFails,
                IInv, TypeOK, WorkerPlaces, T1Places
  <2>3. CASE w = "t3" /\ ContextStops
    BY <2>3 DEF ContextStops, WorkerPlaces
  <2>4. CASE Panic(w) \/ Hang(w)
    BY <2>4 DEF Panic, Hang, WorkerPlaces
  <2>5. CASE ClearAlive(w) \/ NotifyDeath(w)
    BY <2>5 DEF ClearAlive, NotifyDeath, WorkerPlaces, IInv, TypeOK,
                WritersAreThere, Workers
  <2> QED
    BY <2>1, <2>2, <2>3, <2>4, <2>5
<1>3. TypeOK'
  <2>1. hwnd' \in BOOLEAN
    BY <1>1, Zenon DEF IInv, TypeOK
  <2>2. panicked' \subseteq Panics
    BY <1>1, <1>2 DEF IInv, TypeOK
  <2>3. pc' \in [Workers -> WorkerPlaces \cup {"returned"}]
    BY <1>2 DEF IInv, TypeOK
  <2>4. main' \in MainPlaces
    BY <1>1 DEF IInv, TypeOK, MainPlaces
  <2> QED
    BY <1>1, <2>1, <2>2, <2>3, <2>4 DEF IInv, TypeOK
<1>4. JoinedAreGone'
  <2>1. ASSUME NEW v \in Workers, WasJoined(v)
        PROVE  WasJoined(v)'
    BY <1>1, <1>2, <2>1 DEF WasJoined, IInv, TypeOK
  <2> QED
    BY <1>1, <2>1 DEF IInv, JoinedAreGone, PastT1, PastT2, PastT3, Settled, Workers
<1>5. StateFollowsMain' /\ DiskFollowsState'
  BY <1>1 DEF IInv, StateFollowsMain, DiskFollowsState, Watching, Settled
<1>6. WritersAreThere'
  BY <1>1, <1>2 DEF IInv, TypeOK, WritersAreThere, Workers
<1> QED
  BY <1>3, <1>4, <1>5, <1>6 DEF IInv

\* T2 or T3 rewrites the sidecar.
LEMMA RefreshesIInv ==
  ASSUME IInv,
         ShippingRefreshes \/ ShippingReturns \/ ContextRefreshes \/ ContextWrites
  PROVE  IInv'
<1> USE DEF mainVars, t1Vars, stopVars, consoleVars, workerRest, Goes
<1>1. /\ UNCHANGED <<mainVars, t1Vars, panicked, stopVars, consoleVars, ended, state>>
      /\ pc' = pc \/ (pc["t2"] = "closing" /\ pc' = [pc EXCEPT !["t2"] = "returned"])
  BY DEF ShippingRefreshes, ShippingReturns, ContextRefreshes, ContextWrites, Lock,
         WriteDocument
<1>2. \/ /\ writer = "none" /\ doc' = state /\ UNCHANGED <<disk, stale, pc>>
         /\ \/ writer' = "t2" /\ pc["t2"] = "closing"
            \/ writer' = "t3" /\ pc["t3"] = "run"
      \/ /\ writer \in {"t2", "t3"} /\ writer' = "none" /\ doc' = doc
         /\ (disk' = doc /\ stale' = FALSE) \/ (disk' = disk /\ stale' = TRUE)
  BY DEF ShippingRefreshes, ShippingReturns, ContextRefreshes, ContextWrites, Lock,
         WriteDocument
<1>3. main \notin {"written", "returning", "done"}
  BY <1>2 DEF IInv, WritersAreThere, JoinedAreGone, WasJoined, PastT2,
              PastT3, Settled
<1>4. TypeOK'
  <2>1. /\ writer' \in {"none", "t2", "t3", "main"} /\ doc' \in Documents
        /\ disk' \in Documents \cup {[exit |-> "none", clean |-> FALSE]}
    BY <1>2 DEF IInv, TypeOK
  <2>2. stale' \in BOOLEAN
    BY <1>2, Zenon DEF IInv, TypeOK
  <2>3. pc' \in [Workers -> WorkerPlaces \cup {"returned"}]
    BY <1>1 DEF IInv, TypeOK
  <2> QED
    BY <1>1, <2>1, <2>2, <2>3 DEF IInv, TypeOK
<1>5. JoinedAreGone'
  BY <1>1 DEF IInv, TypeOK, JoinedAreGone, WasJoined, Workers
<1>6. StateFollowsMain'
  BY <1>1 DEF IInv, StateFollowsMain
<1>7. WritersAreThere'
  BY <1>1, <1>2, <1>3 DEF IInv, WritersAreThere
<1>8. DiskFollowsState'
  BY <1>1, <1>2, <1>3 DEF IInv, TypeOK, DiskFollowsState, Documents
<1> QED
  BY <1>4, <1>5, <1>6, <1>7, <1>8 DEF IInv

-----------------------------------------------------------------------------
(* Steps of main.                                                          *)

\* While it watches and waits main only moves, until it leaves with a reason.
LEMMA WatchIInv ==
  ASSUME IInv,
         \/ LookAtFlag \/ LookAtDeadline \/ LookAtT1 \/ LookAtT2 \/ LookAtT3
         \/ LookForStalls \/ BeforeWait \/ BeginWait \/ WaitEnds
  PROVE  IInv'
<1> USE DEF t1Vars, stopVars, consoleVars, sidecarVars, mainRest
<1>1. /\ UNCHANGED <<target, joined_clean, pc, t1Vars, panicked, stopVars,
                     consoleVars, ended, sidecarVars>>
      /\ main \in Watching
      /\ \/ main' \in Watching /\ reason' = reason
         \/ main' = "leave" /\ reason' \in Reasons \ {"running"}
  <2>1. CASE BeforeWait \/ BeginWait \/ WaitEnds
    BY <2>1 DEF BeforeWait, BeginWait, WaitEnds, Watching
  <2>2. CASE LookAtFlag \/ LookAtDeadline
    BY <2>2, ReasonsAreNotRunning DEF LookAtFlag, LookAtDeadline, Look, Watching
  <2>3. CASE LookAtT1 \/ LookAtT2 \/ LookAtT3
    BY <2>3, ReasonsAreNotRunning
       DEF LookAtT1, LookAtT2, LookAtT3, Look, Watching, Workers
  <2>4. CASE LookForStalls
    <3>1. \A w \in Hangs : Stalled[w] \in Reasons \ {"running"}
      BY ReasonsAreNotRunning, ParametersAssumption
    <3> QED
      BY <2>4, <3>1 DEF LookForStalls, Look, Watching
  <2> QED
    BY <2>1, <2>2, <2>3, <2>4
<1>2. TypeOK'
  BY <1>1 DEF IInv, TypeOK, Watching, MainPlaces
<1>3. JoinedAreGone'
  BY <1>1 DEF JoinedAreGone, PastT1, PastT2, PastT3, Settled, Watching
<1>4. StateFollowsMain' /\ WritersAreThere' /\ DiskFollowsState'
  BY <1>1 DEF IInv, StateFollowsMain, WritersAreThere, DiskFollowsState, Watching,
              Settled
<1> QED
  BY <1>2, <1>3, <1>4 DEF IInv

\* teardown: the reason is settled, the quit goes out, the workers are joined.
LEMMA TeardownIInv ==
  ASSUME IInv,
         \/ SettleReason \/ RequestStop \/ FindAddress \/ PostQuit
         \/ JoinT1 \/ TellT2 \/ JoinT2 \/ JoinT3
  PROVE  IInv'
<1> USE DEF t1Vars, stopVars, consoleVars, sidecarVars, mainRest
<1>1. UNCHANGED <<reason, pc, hwnd, panicked, late, consoleVars, ended, writer,
                  doc, disk, stale>>
  BY DEF SettleReason, RequestStop, FindAddress, PostQuit, JoinT1, TellT2, JoinT2,
         JoinT3, Join
<1>2. CASE SettleReason
  <2>1. /\ main = "leave" /\ main' = "set"
        /\ state' = [exit |-> reason, clean |-> FALSE]
        /\ UNCHANGED <<target, joined_clean, quit, detached, stop, capture_stopped>>
    BY <1>2 DEF SettleReason
  <2>2. TypeOK'
    BY <1>1, <2>1 DEF IInv, TypeOK, MainPlaces, Documents
  <2>3. JoinedAreGone' /\ StateFollowsMain' /\ WritersAreThere'
    BY <1>1, <2>1 DEF IInv, JoinedAreGone, StateFollowsMain, WritersAreThere,
       PastT1, PastT2, PastT3, Settled, Watching
  <2>4. DiskFollowsState'
    BY <1>1, <2>1 DEF IInv, TypeOK, DiskFollowsState, StateFollowsMain, Settled,
       Documents
  <2> QED
    BY <2>2, <2>3, <2>4 DEF IInv
<1>3. CASE RequestStop \/ FindAddress
  <2>1. /\ \/ main = "set" /\ main' = "address"
           \/ main = "address" /\ main' = "post"
        /\ target' = target \/ target' \in {"window", "thread", "nothing"}
        /\ UNCHANGED <<joined_clean, quit, detached, capture_stopped, state>>
    BY <1>3 DEF RequestStop, FindAddress
  <2>2. TypeOK'
    <3>1. stop' \in BOOLEAN
      BY <1>3, Zenon DEF RequestStop, FindAddress, IInv, TypeOK
    <3> QED
      BY <1>1, <2>1, <3>1 DEF IInv, TypeOK, MainPlaces
  <2>3. JoinedAreGone' /\ StateFollowsMain' /\ WritersAreThere' /\ DiskFollowsState'
    BY <1>1, <2>1 DEF IInv, JoinedAreGone, StateFollowsMain, WritersAreThere,
       DiskFollowsState, PastT1, PastT2, PastT3, Settled, Watching
  <2> QED
    BY <2>2, <2>3 DEF IInv
<1>4. CASE PostQuit
  <2>1. /\ main = "post"
        /\ \/ main' = "tell_t2" /\ detached'
           \/ main' = "join_t1" /\ ~detached'
        /\ UNCHANGED <<target, joined_clean, stop, capture_stopped, state>>
    <3>1. /\ main = "post" /\ main' = IF detached' THEN "tell_t2" ELSE "join_t1"
          /\ UNCHANGED <<target, joined_clean, stop, capture_stopped, state>>
      BY <1>4, Zenon DEF PostQuit
    <3> QED
      BY <3>1
  <2>2. quit' \in BOOLEAN /\ detached' \in BOOLEAN
    BY <1>4, Zenon DEF PostQuit
  <2>3. TypeOK'
    BY <1>1, <2>1, <2>2 DEF IInv, TypeOK, MainPlaces
  <2>4. JoinedAreGone' /\ StateFollowsMain' /\ WritersAreThere' /\ DiskFollowsState'
    BY <1>1, <2>1 DEF IInv, JoinedAreGone, StateFollowsMain, WritersAreThere,
       DiskFollowsState, PastT1, PastT2, PastT3, Settled, Watching
  <2> QED
    BY <2>3, <2>4 DEF IInv
<1>5. CASE TellT2
  <2>1. /\ main = "tell_t2" /\ main' = "join_t2" /\ capture_stopped' = TRUE
        /\ UNCHANGED <<target, joined_clean, quit, detached, stop, state>>
    BY <1>5 DEF TellT2
  <2>2. TypeOK'
    BY <1>1, <2>1 DEF IInv, TypeOK, MainPlaces
  <2>3. JoinedAreGone' /\ StateFollowsMain' /\ WritersAreThere' /\ DiskFollowsState'
    BY <1>1, <2>1 DEF IInv, JoinedAreGone, WasJoined, StateFollowsMain,
       WritersAreThere, DiskFollowsState, PastT1, PastT2, PastT3, Settled, Watching
  <2> QED
    BY <2>2, <2>3 DEF IInv
<1>6. CASE JoinT1 \/ JoinT2 \/ JoinT3
  <2>1. PICK w \in Workers :
          /\ \/ w = "t1" /\ main = "join_t1" /\ main' = "tell_t2"
             \/ w = "t2" /\ main = "join_t2" /\ main' = "join_t3"
             \/ w = "t3" /\ main = "join_t3" /\ main' = "settle"
          /\ pc[w] = "gone"
          /\ joined_clean' = (joined_clean /\ w \notin panicked)
          /\ UNCHANGED <<target, quit, detached, stop, capture_stopped, state>>
    BY <1>6 DEF JoinT1, JoinT2, JoinT3, Join, Workers
  <2>2. joined_clean' \in BOOLEAN
    BY <2>1, Zenon
  <2>3. TypeOK'
    BY <1>1, <2>1, <2>2 DEF IInv, TypeOK, MainPlaces
  <2>4. WasJoined(w)' /\ (joined_clean' => joined_clean)
    BY <1>1, <2>1 DEF WasJoined
  <2>5. \A v \in Workers : WasJoined(v) => WasJoined(v)'
    BY <1>1, <2>4 DEF WasJoined
  <2>6. JoinedAreGone'
    BY <2>1, <2>4, <2>5 DEF IInv, JoinedAreGone, PastT1, PastT2, PastT3, Settled,
       Workers
  <2>7. StateFollowsMain' /\ WritersAreThere' /\ DiskFollowsState'
    BY <1>1, <2>1 DEF IInv, StateFollowsMain, WritersAreThere, DiskFollowsState,
       Settled, Watching
  <2> QED
    BY <2>3, <2>6, <2>7 DEF IInv
<1> QED
  BY <1>2, <1>3, <1>4, <1>5, <1>6

\* cmd_run: the verdict is settled and written.
LEMMA VerdictIInv ==
  ASSUME IInv,
         SettleVerdict \/ FinalRefresh \/ FinalWrite \/ ReleaseHandler \/ ProcessEnds
  PROVE  IInv'
<1> USE DEF mainVars, t1Vars, stopVars, consoleVars, sidecarVars
<1>1. UNCHANGED <<reason, target, joined_clean, pc, t1Vars, panicked, stopVars,
                  console>>
  BY DEF SettleVerdict, FinalRefresh, FinalWrite, ReleaseHandler, ProcessEnds
<1>2. main \in PastT3 /\ main' \in PastT3
  BY DEF SettleVerdict, FinalRefresh, FinalWrite, ReleaseHandler, ProcessEnds,
         PastT3, Settled
<1>3. JoinedAreGone'
  BY <1>1, <1>2 DEF IInv, JoinedAreGone, WasJoined, PastT1, PastT2
<1>4. pc["t2"] = "gone" /\ pc["t3"] = "gone"
  BY <1>2 DEF IInv, JoinedAreGone, WasJoined, PastT2
<1>5. CASE SettleVerdict
  <2>1. /\ main = "settle" /\ main' = "refresh"
        /\ state' = [exit |-> reason, clean |-> joined_clean]
        /\ UNCHANGED <<finished, ended, writer, doc, disk, stale>>
    BY <1>5 DEF SettleVerdict
  <2>2. TypeOK'
    BY <1>1, <2>1 DEF IInv, TypeOK, MainPlaces, Documents
  <2>3. StateFollowsMain' /\ WritersAreThere'
    BY <1>1, <2>1 DEF IInv, StateFollowsMain, WritersAreThere, Settled, Watching
  <2>4. DiskFollowsState'
    BY <1>1, <2>1 DEF IInv, TypeOK, DiskFollowsState, StateFollowsMain, Settled,
       Watching, Documents
  <2> QED
    BY <1>3, <2>2, <2>3, <2>4 DEF IInv
<1>6. CASE FinalRefresh
  <2>1. /\ main = "refresh" /\ main' = "written"
        /\ writer = "none" /\ writer' = "main" /\ doc' = state
        /\ UNCHANGED <<finished, ended, state, disk, stale>>
    BY <1>6 DEF FinalRefresh, Lock
  <2>2. TypeOK'
    BY <1>1, <2>1 DEF IInv, TypeOK, MainPlaces
  <2>3. StateFollowsMain' /\ WritersAreThere' /\ DiskFollowsState'
    BY <1>1, <2>1 DEF IInv, TypeOK, StateFollowsMain, WritersAreThere,
       DiskFollowsState, Settled, Watching, Documents
  <2> QED
    BY <1>3, <2>2, <2>3 DEF IInv
<1>7. CASE FinalWrite
  <2>1. /\ main = "written" /\ main' = "returning"
        /\ writer = "main" /\ writer' = "none"
        /\ (disk' = doc /\ stale' = FALSE) \/ (disk' = disk /\ stale' = TRUE)
        /\ UNCHANGED <<finished, ended, state, doc>>
    BY <1>7 DEF FinalWrite, WriteDocument
  <2>2. TypeOK'
    <3>1. stale' \in BOOLEAN
      BY <2>1, Zenon
    <3>2. disk' \in Documents \cup {[exit |-> "none", clean |-> FALSE]}
      BY <2>1 DEF IInv, TypeOK
    <3> QED
      BY <1>1, <2>1, <3>1, <3>2 DEF IInv, TypeOK, MainPlaces
  <2>3. StateFollowsMain' /\ WritersAreThere' /\ DiskFollowsState'
    BY <1>1, <2>1 DEF IInv, TypeOK, StateFollowsMain, WritersAreThere,
       DiskFollowsState, Settled, Watching, Documents
  <2> QED
    BY <1>3, <2>2, <2>3 DEF IInv
<1>8. CASE ReleaseHandler \/ ProcessEnds
  <2>1. /\ main \in {"returning", "done"} /\ main' = "done"
        /\ finished' \in {finished, TRUE} /\ ended' \in {ended, "returned"}
        /\ UNCHANGED <<state, writer, doc, disk, stale>>
    BY <1>8 DEF ReleaseHandler, ProcessEnds
  <2>2. TypeOK'
    <3>1. finished' \in BOOLEAN
      BY <2>1, Zenon DEF IInv, TypeOK
    <3> QED
      BY <1>1, <2>1, <3>1 DEF IInv, TypeOK, MainPlaces
  <2>3. StateFollowsMain' /\ WritersAreThere' /\ DiskFollowsState'
    BY <1>1, <2>1 DEF IInv, StateFollowsMain, WritersAreThere, DiskFollowsState,
       Settled, Watching
  <2> QED
    BY <1>3, <2>2, <2>3 DEF IInv
<1> QED
  BY <1>5, <1>6, <1>7, <1>8

-----------------------------------------------------------------------------
(* The invariant, and what follows from it.                                *)

LEMMA InitIInv == Init => IInv
<1> SUFFICES ASSUME Init PROVE IInv
  OBVIOUS
<1> USE DEF Init, Running
<1>1. TypeOK
  BY DEF TypeOK, MainPlaces, Reasons, WorkerPlaces, T1Places, Documents, Workers
<1>2. JoinedAreGone /\ StateFollowsMain /\ WritersAreThere /\ DiskFollowsState
  BY DEF JoinedAreGone, StateFollowsMain, WritersAreThere, DiskFollowsState, PastT1,
         PastT2, PastT3, Settled, Watching
<1> QED
  BY <1>1, <1>2 DEF IInv

LEMMA NextIInv ==
  ASSUME IInv, [Next]_vars
  PROVE  IInv'
<1>1. CASE MainNext
  BY <1>1, WatchIInv, TeardownIInv, VerdictIInv DEF MainNext
<1>2. CASE \/ CaptureNext \/ CaptureFails \/ ShippingNext \/ ContextNext
           \/ ContextRefreshes
           \/ \E w \in Workers : GuardNext(w) \/ Panic(w) \/ Hang(w)
  BY <1>2, WorkersIInv, RefreshesIInv
     DEF CaptureNext, ShippingNext, ContextNext, GuardNext, Workers
<1>3. CASE \/ \E e \in Events : ConsoleStores(e) \/ ConsoleNotifies(e)
           \/ CloseKills \/ DeadlinePasses
  BY <1>3, OutsideIInv
<1>4. CASE UNCHANGED vars
  BY <1>4 DEF vars, mainVars, t1Vars, stopVars, consoleVars, sidecarVars, IInv,
     TypeOK, JoinedAreGone, WasJoined, StateFollowsMain, WritersAreThere,
     DiskFollowsState
<1> QED
  BY <1>1, <1>2, <1>3, <1>4 DEF Next, StepNext

LEMMA Invariance == Spec => []IInv
<1>1. IInv /\ [Next]_vars => IInv'
  BY NextIInv
<1> QED
  BY InitIInv, <1>1, PTL DEF Spec

\* Whichever workers hang or panic and whatever ends the run: a sidecar that
\* says clean speaks of a run whose workers are all gone and none panicked,
\* unless T1 was left behind; and who waits for the end of teardown finds the
\* last verdict on disk, unless its write failed (teardown, cmd_run,
\* Sidecar::refresh).
THEOREM VerdictIsTrueHolds == Spec => []VerdictIsTrue
<1>1. IInv => VerdictIsTrue
  <2> SUFFICES ASSUME IInv PROVE VerdictIsTrue
    OBVIOUS
  <2>1. CleanIsTrueWhenJoined
    <3> SUFFICES ASSUME ~detached, disk.clean
                 PROVE  panicked = {} /\ \A w \in Workers : pc[w] = "gone"
      BY DEF CleanIsTrueWhenJoined, CleanIsTrue
    <3>1. state.clean
      BY DEF IInv, DiskFollowsState
    <3>2. main \in Settled
      BY <3>1 DEF IInv, StateFollowsMain
    <3>3. joined_clean
      BY <3>1, <3>2 DEF IInv, StateFollowsMain
    <3>4. \A w \in Workers : WasJoined(w)
      BY <3>2 DEF IInv, JoinedAreGone, PastT1, PastT2, PastT3, Workers
    <3>5. panicked \subseteq Workers
      BY ParametersAssumption DEF IInv, TypeOK, Workers
    <3> QED
      BY <3>3, <3>4, <3>5 DEF WasJoined
  <2>2. VerdictIsWritten
    BY DEF VerdictIsWritten, IInv, DiskFollowsState, StateFollowsMain, Settled
  <2> QED
    BY <2>1, <2>2 DEF VerdictIsTrue
<1> QED
  BY Invariance, <1>1, PTL

\* The file never takes back a reason it has told: no refresh, however late its
\* thread comes to the lock, writes an older document over a newer one.
THEOREM ReasonStaysHolds == Spec => ReasonStays
<1>1. IInv /\ [Next]_vars =>
        [disk.exit \notin {"none", "running"} => disk'.exit = disk.exit]_vars
  <2> SUFFICES ASSUME IInv, [Next]_vars, disk.exit \notin {"none", "running"}
               PROVE  disk'.exit = disk.exit
    OBVIOUS
  <2>1. disk' = disk \/ disk' = doc
    <3> USE DEF sidecarVars, workerRest, mainRest
    <3>1. CASE MainNext
      BY <3>1 DEF MainNext, LookAtFlag, LookAtDeadline, LookAtT1, LookAtT2, LookAtT3,
         LookForStalls, Look, BeforeWait, BeginWait, WaitEnds, SettleReason,
         RequestStop, FindAddress, PostQuit, JoinT1, TellT2, JoinT2, JoinT3, Join,
         SettleVerdict, FinalRefresh, Lock, FinalWrite, WriteDocument,
         ReleaseHandler, ProcessEnds
    <3>2. CASE CaptureNext \/ CaptureFails \/ ShippingNext \/ ContextNext
               \/ ContextRefreshes
      BY <3>2 DEF CaptureNext, Publish, MakeQueue, OpenWindow, Register, PumpQuits,
         CaptureFails, ShippingNext, ShippingStops, ShippingRefreshes,
         ShippingReturns, ContextNext, ContextWrites, ContextStops,
         ContextRefreshes, Lock, WriteDocument
    <3>3. CASE \E w \in Workers : GuardNext(w) \/ Panic(w) \/ Hang(w)
      BY <3>3 DEF GuardNext, ClearAlive, NotifyDeath, Panic, Hang
    <3>4. CASE \/ \E e \in Events : ConsoleStores(e) \/ ConsoleNotifies(e)
               \/ CloseKills \/ DeadlinePasses \/ UNCHANGED vars
      BY <3>4 DEF ConsoleStores, ConsoleNotifies, CloseKills, DeadlinePasses, vars
    <3> QED
      BY <3>1, <3>2, <3>3, <3>4 DEF Next, StepNext
  <2> QED
    BY <2>1 DEF IInv, DiskFollowsState
<1> QED
  BY Invariance, <1>1, PTL DEF Spec, ReasonStays
=============================================================================
