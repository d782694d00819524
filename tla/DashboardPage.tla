--------------------------- MODULE DashboardPage ---------------------------
(***************************************************************************)
(* The viewer page's controller (`ui` in app.js): the live socket with its *)
(* reconnect timer, the list of recordings, and the loading of one of them *)
(* line by line into the same engine the live feed fills.  Everything runs *)
(* on the page's event loop; what interleaves are the answers: a list, a   *)
(* response, a chunk of a body, a socket event, the retry timer, a click.  *)
(* A load belongs to the token it took; a later load or a change of mode   *)
(* takes a new one and the older load stops at its next await.             *)
(*                                                                         *)
(* The engine is reduced to what it holds: the lines ingested since its    *)
(* last reset, each with the session it came from.  ReplayEngine has the   *)
(* rest.  Recordings are positive numbers, the sessions of the live feed   *)
(* negative ones: -1 is the agent's first run, -2 the next.  A batch of    *)
(* the feed may be lost, late or doubled on its way, as datagrams are; as  *)
(* in VizHub none of a run comes after the envelope of its successor.      *)
(***************************************************************************)
EXTENDS Integers, Sequences, FiniteSets, FiniteSetsExt, SequencesExt, SequenceTheorems,
        FiniteSetTheorems, WellFoundedInduction, TLAPS

CONSTANTS Listing,      \* the recordings the server lists, in its order
          Span,         \* the first and last moment of each, as a pair
          Slack,        \* a second past a recording's end still belongs to it
          Length,       \* the lines of a recording; the first is its envelope
          Times,        \* the moments a go-to-time may name
          MaxClicks, MaxFaults, MaxBatches   \* bounds of the exploration

Recordings == Range(Listing)
ASSUME DashAssumption ==
    /\ Listing \in Seq(Nat \ {0}) /\ Listing # <<>>
    /\ \A r \in Recordings : Span[r][1] \in Int /\ Span[r][2] \in Int /\ Span[r][1] <= Span[r][2]
    /\ Slack \in Nat /\ Length \in Nat \ {0} /\ Times \subseteq Int

VARIABLES
    mode, ws, wsState, closing, timer,  \* ui.mode, the socket, sockets being closed, wsTimer
    pill,                    \* setConn: what the pill says, and of which recording
    loadToken, loads, lists, \* the current load, the loads and list requests in flight
    sessions,                \* ui.sessions, the list last received
    loadedSession, seekAfter, pendingAt, pendingId, playing,
    loading, eng,            \* engine.loading and what the engine holds
    feed,                    \* the agent: its session and the number of its last batch
    clicks, faults

socketVars == <<ws, wsState, closing, timer>>
replayVars == <<loadToken, loads, lists, sessions, loadedSession, seekAfter,
                pendingAt, pendingId, playing, loading>>
vars == <<mode, socketVars, pill, replayVars, eng, feed, clicks, faults>>

None == 0
Unlisted == -1               \* an id in the page's address that no recording has
Empty == [sid |-> None, lines |-> <<>>, last |-> -1, lost |-> 0, head |-> 0]
Pill(kind, id) == [kind |-> kind, id |-> id]

Init ==
    /\ feed = [sid |-> -1, seq |-> 0] /\ closing = {} /\ loads = {}
    /\ sessions = <<>> /\ loadedSession = None /\ seekAfter = None
    /\ playing = FALSE /\ loading = FALSE /\ eng = Empty /\ clicks = 0 /\ faults = 0
    /\ timer = FALSE
    /\ \/ /\ mode = "live" /\ ws = 1 /\ wsState = "connecting" /\ lists = 0 /\ loadToken = 0
          /\ pill = Pill("connecting", None) /\ pendingAt = None /\ pendingId = None
       \/ /\ mode = "replay" /\ ws = 0 /\ wsState = "none" /\ lists = 1 /\ loadToken = 1
          /\ pill = Pill("replay", None)
          /\ \/ pendingAt \in Times /\ pendingId = None
             \/ pendingAt = None /\ pendingId \in Recordings \cup {Unlisted}

-----------------------------------------------------------------------------
(* The engine as the controller sees it.                                   *)

\* accountLoss: a number past the next one leaves a gap, one that goes
\* backwards is late and changes nothing.
\* Faulty variant: the newest number is kept only while numbers are in step.
InStepOnly(last, seq) ==
    [lost |-> IF last # -1 /\ seq > last + 1 THEN seq - last - 1 ELSE 0,
     last |-> IF last = -1 \/ seq = last + 1 THEN seq ELSE last]
AccountLoss(last, seq) ==
    [lost |-> IF last # -1 /\ seq > last + 1 THEN seq - last - 1 ELSE 0,
     last |-> IF last = -1 \/ seq > last THEN seq ELSE last]

\* An envelope of another session tears everything down first; a batch goes
\* on the timeline, whosever it is.
IngestSession(e, sid) ==
    IF e.sid \notin {None, sid} THEN [Empty EXCEPT !.sid = sid] ELSE [e EXCEPT !.sid = sid]
IngestBatch(e, src, seq) ==
    LET loss == AccountLoss(e.last, seq)
    IN  [e EXCEPT !.lines = Append(@, <<src, seq>>), !.last = loss.last, !.lost = @ + loss.lost]
IngestLine(e, id, n) == IF n = 1 THEN IngestSession(e, id) ELSE IngestBatch(e, id, n)

\* seekUtcUs: to that moment, clamped to the engine's own timeline.
SeekUtc(e, t) ==
    IF e.sid <= None \/ e.lines = <<>> THEN e
    ELSE [e EXCEPT !.head = Max({Span[e.sid][1], Min({Span[e.sid][2], t})})]

-----------------------------------------------------------------------------
(* The socket: connect, its handlers, disconnect, scheduleReconnect.       *)

Connect ==
    /\ ws' = ws + 1 /\ wsState' = "connecting" /\ timer' = FALSE
    /\ closing' = IF wsState = "none" THEN closing ELSE closing \cup {ws}
Disconnect ==
    /\ wsState' = "none" /\ timer' = FALSE /\ UNCHANGED ws
    /\ closing' = IF wsState = "none" THEN closing ELSE closing \cup {ws}

\* onopen; the bridge then sends the session it has cached.
Opened ==
    /\ wsState = "connecting" /\ wsState' = "open"
    /\ pill' = Pill("open", None) /\ eng' = IngestSession(eng, feed.sid)
    /\ UNCHANGED <<mode, ws, closing, timer, replayVars, feed, clicks, faults>>

\* onclose of socket w: only the page's own socket makes it retry.
CurrentSocket(w) == wsState # "none" /\ w = ws
Closed(w) ==
    /\ \/ w \in closing /\ UNCHANGED faults
       \/ wsState # "none" /\ w = ws /\ faults < MaxFaults /\ faults' = faults + 1
    /\ closing' = closing \ {w}
    /\ IF ~CurrentSocket(w) THEN UNCHANGED <<wsState, pill, timer>>
       ELSE /\ wsState' = "none"
            /\ IF mode = "live" THEN pill' = Pill("retry", None) /\ timer' = TRUE
               ELSE UNCHANGED <<pill, timer>>
    /\ UNCHANGED <<mode, ws, replayVars, eng, feed, clicks>>

Retry ==
    /\ timer /\ Connect /\ pill' = Pill("connecting", None)
    /\ UNCHANGED <<mode, replayVars, eng, feed, clicks, faults>>

\* The agent ships a batch; the page has it when its socket is open and
\* neither UDP nor the bridge lost it.
FeedBatch(arrives) ==
    /\ feed.seq < MaxBatches
    /\ feed' = [feed EXCEPT !.seq = @ + 1]
    /\ IF arrives /\ wsState = "open" THEN eng' = IngestBatch(eng, feed.sid, feed'.seq) /\ UNCHANGED faults
       ELSE /\ UNCHANGED eng
            /\ IF wsState = "open" THEN faults < MaxFaults /\ faults' = faults + 1 ELSE UNCHANGED faults
    /\ UNCHANGED <<mode, socketVars, pill, replayVars, clicks>>

\* A datagram that was overtaken; or one comes a second time, which counts as
\* a fault.  The length of the timeline bounds both.
LateBatch(n) ==
    /\ wsState = "open" /\ Len(eng.lines) < MaxBatches
    /\ IF Contains(eng.lines, <<feed.sid, n>>) THEN faults < MaxFaults /\ faults' = faults + 1
       ELSE UNCHANGED faults
    /\ eng' = IngestBatch(eng, feed.sid, n)
    /\ UNCHANGED <<mode, socketVars, pill, replayVars, feed, clicks>>

Datagram ==
    \/ \E arrives \in BOOLEAN : FeedBatch(arrives)
    \/ \E n \in 1..feed.seq : LateBatch(n)

\* A new agent: its envelope comes before its batches.
FeedRestarts ==
    /\ faults < MaxFaults /\ faults' = faults + 1
    /\ feed' = [sid |-> feed.sid - 1, seq |-> 0]
    /\ eng' = IF wsState = "open" THEN IngestSession(eng, feed'.sid) ELSE eng
    /\ UNCHANGED <<mode, socketVars, pill, replayVars, clicks>>

-----------------------------------------------------------------------------
(* Loading: loadSession, streamLines.                                      *)

\* loadSession up to its first await.
StartLoad(id) ==
    /\ loadToken' = loadToken + 1
    /\ loads' = loads \cup {[token |-> loadToken + 1, id |-> id, next |-> 0]}
    /\ playing' = FALSE /\ loading' = TRUE /\ eng' = Empty
    /\ pill' = Pill("loading", id)

\* Faulty variant: a load in a later mode or behind a later load goes on.
NeverSuperseded(l) == TRUE
Alive(l) == l.token = loadToken

\* What an await of a superseded load does when it returns: nothing more.
LoadStops(l) ==
    /\ l \in loads /\ ~Alive(l) /\ loads' = loads \ {l}
    /\ UNCHANGED <<mode, socketVars, pill, loadToken, lists, sessions, loadedSession,
                   seekAfter, pendingAt, pendingId, playing, loading, eng, feed, clicks, faults>>

\* The response is not ok, or the body breaks off.
LoadFails(l) ==
    /\ l \in loads /\ Alive(l) /\ faults < MaxFaults /\ faults' = faults + 1
    /\ loads' = loads \ {l} /\ loading' = FALSE /\ pill' = Pill("failed", None)
    /\ UNCHANGED <<mode, socketVars, loadToken, lists, sessions, loadedSession, seekAfter,
                   pendingAt, pendingId, playing, eng, feed, clicks>>

\* A slice of the body, one line here, ingested between two awaits; unless
\* the body's chunk ends first, the pill says how far it is.
LoadSlice(l) ==
    /\ l \in loads /\ Alive(l) /\ l.next < Length
    /\ loads' = (loads \ {l}) \cup {[l EXCEPT !.next = @ + 1]}
    /\ eng' = IngestLine(eng, l.id, l.next + 1)
    /\ pill' \in {pill, Pill("loading", l.id)}
    /\ UNCHANGED <<mode, socketVars, loadToken, lists, sessions, loadedSession,
                   seekAfter, pendingAt, pendingId, playing, loading, feed, clicks, faults>>

\* After the last line: rewind, then the seek that waited for the load.
LoadEnds(l) ==
    /\ l \in loads /\ Alive(l) /\ l.next = Length
    /\ loads' = loads \ {l} /\ loading' = FALSE /\ loadedSession' = l.id
    /\ eng' = LET e == SeekUtc(eng, Span[l.id][1])
              IN  IF seekAfter = None THEN e ELSE SeekUtc(e, seekAfter)
    /\ seekAfter' = None /\ pill' = Pill("ok", l.id) /\ playing' = (mode = "replay")
    /\ UNCHANGED <<mode, socketVars, loadToken, lists, sessions, pendingAt, pendingId,
                   feed, clicks, faults>>

-----------------------------------------------------------------------------
(* The list of recordings, and going to a moment.                          *)

\* sessionAt: the first listed that covers t, else the first of those that
\* ended last before.
SessionAt(list, t) ==
    LET begun == {s \in Range(list) : Span[s][1] <= t}
        covers(s) == t <= Span[s][2] + Slack
        EndsLast(s) == \A o \in begun : Span[o][2] <= Span[s][2]
    IN  IF begun = {} THEN None
        ELSE IF \E s \in begun : covers(s)
             THEN list[Min({i \in 1..Len(list) : list[i] \in begun /\ covers(list[i])})]
             ELSE list[Min({i \in 1..Len(list) : list[i] \in begun /\ EndsLast(list[i])})]

\* gotoUtcUs where some recording of list could hold t.
Goto(list, t) ==
    LET s == SessionAt(list, t)
    IN  IF loadedSession = s /\ ~loading
        THEN /\ eng' = SeekUtc(eng, t)
             /\ UNCHANGED <<loadToken, loads, playing, loading, seekAfter, pill>>
        ELSE seekAfter' = t /\ StartLoad(s)

\* The list arrives, in whatever mode the page is by then.
ListArrives(list) ==
    /\ lists > 0 /\ lists' = lists - 1
    /\ sessions' = list /\ pendingAt' = None
    /\ IF pendingAt # None /\ SessionAt(list, pendingAt) # None
       THEN Goto(list, pendingAt) /\ UNCHANGED pendingId
       ELSE /\ pendingId' = None /\ UNCHANGED seekAfter
            /\ StartLoad(IF pendingId \in Range(list) THEN pendingId ELSE list[1])
    /\ UNCHANGED <<mode, socketVars, loadedSession, feed, clicks, faults>>

\* It fails, or there is none.
NoList ==
    /\ lists > 0 /\ lists' = lists - 1
    /\ faults < MaxFaults /\ faults' = faults + 1
    /\ pill' = Pill("nolist", None)
    /\ UNCHANGED <<mode, socketVars, loadToken, loads, sessions, loadedSession, seekAfter,
                   pendingAt, pendingId, playing, loading, eng, feed, clicks>>

-----------------------------------------------------------------------------
(* The user.                                                               *)

\* setMode: cancels the load, empties the engine.
\* Faulty variant: the token stays.
KeepToken == loadToken
NextToken == loadToken + 1
SetMode(to) ==
    /\ to # mode /\ mode' = to
    /\ loadToken' = NextToken /\ eng' = Empty /\ loading' = FALSE
    /\ IF to = "live"
       THEN Connect /\ playing' = FALSE /\ pill' = Pill("connecting", None) /\ UNCHANGED lists
       ELSE Disconnect /\ pill' = Pill("replay", None) /\ lists' = lists + 1 /\ UNCHANGED playing
    /\ UNCHANGED <<loads, sessions, loadedSession, seekAfter, pendingAt, pendingId, feed, faults>>

\* The drop-down, and the go-to-time box; both belong to the replay bar.
PickSession(id) ==
    /\ mode = "replay" /\ id \in Range(sessions) /\ StartLoad(id)
    /\ UNCHANGED <<mode, socketVars, lists, sessions, loadedSession, seekAfter, pendingAt,
                   pendingId, feed, faults>>
GotoTime(t) ==
    /\ mode = "replay" /\ SessionAt(sessions, t) # None /\ Goto(sessions, t)
    /\ UNCHANGED <<mode, socketVars, lists, sessions, loadedSession, pendingAt, pendingId,
                   feed, faults>>

\* btnPlay.
TogglePlay ==
    /\ mode = "replay" /\ playing' = ~playing
    /\ UNCHANGED <<mode, socketVars, pill, loadToken, loads, lists, sessions, loadedSession,
                   seekAfter, pendingAt, pendingId, loading, eng, feed, faults>>

\* A frame of a replay that plays: the head moves on to t, and stops at the end.
PlaysOn(t) ==
    /\ mode = "replay" /\ playing /\ ~loading
    /\ eng' = SeekUtc(eng, Max({eng.head, t}))
    /\ playing' = (eng.lines # <<>> /\ eng'.head < Span[eng.sid][2])
    /\ UNCHANGED <<mode, socketVars, pill, loadToken, loads, lists, sessions, loadedSession,
                   seekAfter, pendingAt, pendingId, loading, feed, clicks, faults>>

Click ==
    /\ clicks < MaxClicks /\ clicks' = clicks + 1
    /\ \/ \E to \in {"live", "replay"} : SetMode(to)
       \/ \E id \in Recordings : PickSession(id)
       \/ \E t \in Times : GotoTime(t)
       \/ TogglePlay

Next ==
    \/ Opened \/ Retry \/ FeedRestarts \/ NoList \/ Click
    \/ \E w \in 1..ws : Closed(w)
    \/ Datagram
    \/ \E t \in Times : PlaysOn(t)
    \/ \E l \in loads : LoadStops(l) \/ LoadFails(l) \/ LoadSlice(l) \/ LoadEnds(l)
    \/ ListArrives(Listing)

\* A request is answered and a body goes on or breaks off: the page waits on
\* its own machine's server.
LoadStep == \E l \in loads : LoadStops(l) \/ LoadFails(l) \/ LoadSlice(l) \/ LoadEnds(l)
Fairness == WF_vars(LoadStep)
Spec == Init /\ [][Next]_vars /\ Fairness

-----------------------------------------------------------------------------
(* What holds, whatever comes when.                                        *)

\* In replay the engine holds lines of one recording, from its first on and
\* in order; while a load runs it is the one being loaded, and once the pill
\* names it as loaded it is whole and, if it has a batch at all, shown from
\* inside its span.
ReplayIsWhole ==
    mode = "replay" =>
        /\ \A i \in 1..Len(eng.lines) : eng.sid > None /\ eng.lines[i] = <<eng.sid, i + 1>>
        /\ loading => pill.kind \in {"loading", "nolist"}
                      /\ \E l \in loads : Alive(l) /\ eng.sid \in {None, l.id}
        /\ pill.kind = "ok" => eng.sid = pill.id /\ Len(eng.lines) = Length - 1
                               /\ (Length > 1 => eng.head \in Span[pill.id][1]..Span[pill.id][2])

\* The live page always has a socket or a timer that will open one; in replay
\* it has neither, so that nothing of the feed reaches the engine.
LiveIsTrying ==
    IF mode = "live" THEN (wsState # "none") # timer
    ELSE wsState = "none" /\ ~timer

\* The numbers that came when no greater one had come before them, and those
\* from the first number on that did not: the missing ones, and the ones that
\* came after a later one had already been counted from.
InTurn(lines) ==
    {lines[i][2] : i \in {k \in 1..Len(lines) : \A j \in 1..(k - 1) : lines[j][2] < lines[k][2]}}
OutOfTurn(lines) ==
    (lines[1][2]..Max({lines[i][2] : i \in 1..Len(lines)})) \ InTurn(lines)

\* What the page calls lost is what did not come in its turn, counted once:
\* a gap is counted when it is seen, nothing is taken back when a number of
\* it comes late, and a late or doubled number counts nothing by itself.
LossIsExact ==
    eng.lost = IF eng.lines = <<>> THEN 0 ELSE Cardinality(OutOfTurn(eng.lines))

PageShowsItsSource == ReplayIsWhole /\ LiveIsTrying /\ LossIsExact

\* A page that says it is loading stops saying so.
LoadsSettle == loading ~> ~loading

\* A recording the page believes to be loaded is the one the engine holds:
\* what gotoUtcUs goes by when it seeks at once instead of loading.
LoadedIsHeld ==
    (mode = "replay" /\ loadedSession # None /\ ~loading) =>
        eng.sid = loadedSession /\ Len(eng.lines) = Length - 1

-----------------------------------------------------------------------------
(* The inductive invariant: the engine in replay is as far as the one load *)
(* that is not superseded; and in either mode what is counted as lost is   *)
(* what did not come in its turn.                                          *)

Sources == {n \in Int : n <= None} \cup Recordings
Engine == [sid : Sources, lines : Seq(Int \X Nat), last : Int, lost : Int, head : Int]
FeedIds == {n \in Int : n < None}
Pills == [kind : {"connecting", "open", "retry", "replay", "loading", "failed", "nolist", "ok"},
          id : Int]
Loads == [token : Nat, id : Recordings, next : 0..Length]

Flags == timer \in BOOLEAN /\ playing \in BOOLEAN /\ loading \in BOOLEAN
TypeOK ==
    /\ Flags
    /\ mode \in {"live", "replay"} /\ ws \in Nat /\ wsState \in {"none", "connecting", "open"}
    /\ closing \subseteq Nat /\ pill \in Pills
    /\ loadToken \in Nat /\ loads \subseteq Loads /\ lists \in Nat
    /\ sessions \in {<<>>, Listing} /\ loadedSession \in Recordings \cup {None}
    /\ seekAfter \in Int /\ pendingAt \in Int /\ pendingId \in Recordings \cup {None, Unlisted}
    /\ eng \in Engine /\ feed \in [sid : FeedIds, seq : Nat] /\ clicks \in Nat /\ faults \in Nat

\* Every load took a token of its own; the page is loading while the last one
\* to do so is not through.
LoadsInv ==
    /\ \A l \in loads : l.token <= loadToken
    /\ \A l, m \in loads : l.token = m.token => l = m
    /\ loading <=> \E l \in loads : Alive(l)

\* In replay: a load that has read `next` lines has put all but the first on
\* the timeline, and nothing else is there.
ReadUpTo(l, e) ==
    /\ l.next = 0 => e.sid = None /\ e.lines = <<>>
    /\ l.next > 0 => e.sid = l.id /\ Len(e.lines) = l.next - 1
OfOneRecording(e) == \A i \in 1..Len(e.lines) : e.sid > None /\ e.lines[i] = <<e.sid, i + 1>>
Whole(e, id) ==
    /\ e.sid = id /\ Len(e.lines) = Length - 1
    /\ Length > 1 => e.head \in Span[id][1]..Span[id][2]
ReplayInv ==
    mode = "replay" =>
        /\ OfOneRecording(eng)
        /\ \A l \in loads : Alive(l) => ReadUpTo(l, eng)
        /\ loading => pill.kind \in {"loading", "nolist"}
        /\ pill.kind = "ok" => Whole(eng, pill.id)

\* What accountLoss has counted: the newest number, and up to it the numbers
\* that did not come in their turn.
Newest(lines, n) ==
    /\ \E i \in 1..Len(lines) : lines[i][2] = n
    /\ \A i \in 1..Len(lines) : lines[i][2] <= n
Tally(e) ==
    IF e.lines = <<>> THEN e.last = -1 /\ e.lost = 0
    ELSE /\ Newest(e.lines, e.last)
         /\ e.lost = Cardinality((e.lines[1][2]..e.last) \ InTurn(e.lines))

IInv == TypeOK /\ LiveIsTrying /\ LoadsInv /\ ReplayInv /\ Tally(eng)

-----------------------------------------------------------------------------
(* What the proofs rest on: least numbers, the list of recordings.         *)

\* A set of numbers that has 0, and the next of each that it has, has them all.
LEMMA EveryNatural ==
  ASSUME NEW S, 0 \in S, \A n \in Nat : n \in S => n + 1 \in S
  PROVE  \A n \in Nat : n \in S
<1> DEFINE T == Nat \ S
<1>1. SUFFICES ASSUME T # {} PROVE FALSE
  OBVIOUS
<1>2. PICK x \in T : \A y \in T : ~(<<y, x>> \in OpToRel(<, Nat))
  <2>1. T \subseteq Nat
    OBVIOUS
  <2> HIDE DEF T
  <2> QED
    BY <1>1, <2>1, NatLessThanWellFounded, WFMin
<1>3. x - 1 \in T /\ x - 1 < x /\ x \in Nat
  OBVIOUS
<1> QED
  BY <1>2, <1>3 DEF OpToRel

\* A set of naturals has a least one.
LEMMA LeastIsThere ==
  ASSUME NEW S \in SUBSET Nat, S # {}
  PROVE  Min(S) \in S
<1>1. PICK x \in S : \A y \in S : ~(<<y, x>> \in OpToRel(<, Nat))
  BY NatLessThanWellFounded, WFMin
<1>2. ASSUME NEW y \in S, y < x PROVE FALSE
  <2>1. <<y, x>> \in OpToRel(<, Nat)
    BY <1>2 DEF OpToRel
  <2> QED
    BY <1>1, <2>1
<1>3. x \in S /\ \A y \in S : x <= y
  BY <1>2
<1> QED
  BY <1>3 DEF Min

LEMMA RecordingsAreListed ==
  /\ Len(Listing) \in Nat \ {0} /\ DOMAIN Listing = 1..Len(Listing)
  /\ Recordings = {Listing[i] : i \in 1..Len(Listing)}
  /\ Recordings \subseteq Nat \ {0}
<1>1. Listing \in Seq(Nat \ {0}) /\ Listing # <<>>
  BY DashAssumption
<1>2. Len(Listing) \in Nat \ {0} /\ DOMAIN Listing = 1..Len(Listing)
      /\ \A i \in 1..Len(Listing) : Listing[i] \in Nat \ {0}
  BY <1>1
<1> QED
  BY <1>2 DEF Recordings, Range

\* Of some recordings, one ended last.
LEMMA OneEndsLast ==
  ASSUME NEW T \in SUBSET Recordings, T # {}
  PROVE  \E s \in T : \A o \in T : Span[o][2] <= Span[s][2]
<1> DEFINE End(i) == Span[Listing[i]][2]
           N == {n \in Nat : \A J \in SUBSET (1..Len(Listing)) :
                    J # {} /\ J \subseteq 1..n => \E i \in J : \A j \in J : End(j) <= End(i)}
<1>1. \A i \in 1..Len(Listing) : End(i) \in Int
  BY DashAssumption, RecordingsAreListed
<1> HIDE DEF End
<1>2. 0 \in N
  <2>1. 1..0 = {}
    OBVIOUS
  <2> QED
    BY <2>1
<1>3. ASSUME NEW n \in Nat, n \in N
      PROVE  n + 1 \in N
  <2> SUFFICES ASSUME NEW J \in SUBSET (1..Len(Listing)), J # {}, J \subseteq 1..(n + 1)
               PROVE  \E i \in J : \A j \in J : End(j) <= End(i)
    OBVIOUS
  <2> DEFINE K == J \ {n + 1}
  <2>1. K \in SUBSET (1..Len(Listing)) /\ K \subseteq 1..n
    OBVIOUS
  <2>2. \A j \in J : End(j) \in Int
    BY <1>1
  <2>3. CASE K = {}
    <3>1. J = {n + 1}
      BY <2>3
    <3> QED
      BY <2>2, <3>1
  <2>4. CASE K # {}
    <3>1. PICK i \in K : \A j \in K : End(j) <= End(i)
      BY <1>3, <2>1, <2>4
    <3>2. CASE n + 1 \notin J \/ End(n + 1) <= End(i)
      BY <3>1, <3>2
    <3>3. CASE n + 1 \in J /\ ~(End(n + 1) <= End(i))
      <4>1. \A j \in J : End(j) <= End(n + 1)
        BY <2>2, <3>1, <3>3
      <4> QED
        BY <3>3, <4>1
    <3> QED
      BY <3>2, <3>3
  <2> QED
    BY <2>3, <2>4
<1>4. Len(Listing) \in N
  <2> HIDE DEF N
  <2> QED
    BY <1>2, <1>3, EveryNatural, RecordingsAreListed
<1> DEFINE J == {i \in 1..Len(Listing) : Listing[i] \in T}
<1>5. J # {} /\ J \in SUBSET (1..Len(Listing))
  BY RecordingsAreListed
<1>6. PICK i \in J : \A j \in J : End(j) <= End(i)
  BY <1>4, <1>5
<1>7. \A o \in T : \E j \in J : o = Listing[j]
  BY RecordingsAreListed
<1> QED
  BY <1>6, <1>7 DEF End

\* sessionAt answers with a recording of the list, or with none.
LEMMA SessionAtIsListed ==
  ASSUME NEW list \in {<<>>, Listing}, NEW t \in Int
  PROVE  SessionAt(list, t) \in Recordings \cup {None}
<1> DEFINE begun == {s \in Range(list) : Span[s][1] <= t}
           covers(s) == t <= Span[s][2] + Slack
           endsLast(s) == \A o \in begun : Span[o][2] <= Span[s][2]
           places == {i \in 1..Len(list) : list[i] \in begun /\ covers(list[i])}
           ends == {i \in 1..Len(list) : list[i] \in begun /\ endsLast(list[i])}
<1>1. DOMAIN list = 1..Len(list) /\ Range(list) \subseteq Recordings
  BY RecordingsAreListed DEF Recordings, Range
<1>2. SessionAt(list, t) =
         IF begun = {} THEN None
         ELSE IF \E s \in begun : covers(s) THEN list[Min(places)]
         ELSE list[Min(ends)]
  BY DEF SessionAt
<1>3. CASE begun # {} /\ \E s \in begun : covers(s)
  <2>1. places # {} /\ places \in SUBSET Nat
    BY <1>1, <1>3 DEF Range
  <2>2. Min(places) \in places
    <3> HIDE DEF places
    <3> QED
      BY <2>1, LeastIsThere
  <2> QED
    BY <1>1, <1>2, <1>3, <2>2
<1>4. CASE begun # {} /\ ~\E s \in begun : covers(s)
  <2>1. \E s \in begun : endsLast(s)
    <3>1. begun \in SUBSET Recordings
      BY <1>1
    <3> HIDE DEF begun
    <3> QED
      BY <1>4, <3>1, OneEndsLast
  <2>2. ends # {} /\ ends \in SUBSET Nat
    <3>1. \A s \in begun : \E i \in 1..Len(list) : s = list[i]
      BY <1>1 DEF Range
    <3> HIDE DEF begun, endsLast
    <3> QED
      BY <2>1, <3>1
  <2>3. Min(ends) \in ends
    <3> HIDE DEF ends
    <3> QED
      BY <2>2, LeastIsThere
  <2> QED
    BY <1>1, <1>2, <1>4, <2>3
<1> QED
  BY <1>2, <1>3, <1>4

-----------------------------------------------------------------------------
(* What the engine's own operations keep.                                  *)

LEMMA EmptyEngine ==
  /\ Empty \in Engine /\ Empty.sid = None /\ Empty.lines = <<>> /\ Len(Empty.lines) = 0
  /\ Tally(Empty)
BY DEF Empty, Engine, Sources, None, Tally

LEMMA LinesAre ==
  ASSUME NEW e \in Engine
  PROVE  /\ e.lines \in Seq(Int \X Nat) /\ Len(e.lines) \in Nat
         /\ \A i \in 1..Len(e.lines) : e.lines[i] \in Int \X Nat
                                       /\ e.lines[i][1] \in Int /\ e.lines[i][2] \in Nat
         /\ e.lines = <<>> <=> Len(e.lines) = 0
<1>1. e.lines \in Seq(Int \X Nat)
  BY DEF Engine
<1>2. Len(e.lines) \in Nat /\ (e.lines = <<>> <=> Len(e.lines) = 0)
  BY <1>1
<1>3. ASSUME NEW i \in 1..Len(e.lines)
      PROVE  e.lines[i] \in Int \X Nat /\ e.lines[i][1] \in Int /\ e.lines[i][2] \in Nat
  <2>1. e.lines[i] \in Int \X Nat
    BY <1>1, ElementOfSeq
  <2> QED
    BY <2>1
<1> QED
  BY <1>1, <1>2, <1>3

\* An envelope names the session and keeps the lines of it, or of nobody yet.
LEMMA SessionAdopted ==
  ASSUME NEW e \in Engine, NEW sid \in Sources, Tally(e)
  PROVE  /\ IngestSession(e, sid) \in Engine /\ IngestSession(e, sid).sid = sid
         /\ IngestSession(e, sid).lines = IF e.sid \notin {None, sid} THEN <<>> ELSE e.lines
         /\ Tally(IngestSession(e, sid))
<1>1. CASE e.sid \notin {None, sid}
  <2>1. IngestSession(e, sid) = [Empty EXCEPT !.sid = sid]
    BY <1>1 DEF IngestSession
  <2> QED
    BY <1>1, <2>1, EmptyEngine DEF Engine, Tally
<1>2. CASE e.sid \in {None, sid}
  <2>1. IngestSession(e, sid) = [e EXCEPT !.sid = sid]
    BY <1>2 DEF IngestSession
  <2>2. /\ IngestSession(e, sid) \in Engine /\ IngestSession(e, sid).sid = sid
        /\ IngestSession(e, sid).lines = e.lines /\ IngestSession(e, sid).last = e.last
        /\ IngestSession(e, sid).lost = e.lost
    BY <2>1 DEF Engine
  <2> QED
    BY <1>2, <2>2 DEF Tally
<1> QED
  BY <1>1, <1>2

\* A number that comes at the end of the timeline is in its turn when it is
\* the newest; nothing before it changes.
LEMMA TurnOfTheLast ==
  ASSUME NEW e \in Engine, NEW M, NEW n \in Nat, NEW seq \in Nat, n = Len(e.lines),
         Len(M) = n + 1, \A i \in 1..n : M[i] = e.lines[i], M[n + 1][2] = seq
  PROVE  InTurn(M) = InTurn(e.lines) \cup
                     (IF \A j \in 1..n : e.lines[j][2] < seq THEN {seq} ELSE {})
<1> DEFINE L == e.lines
           Leads(lines, k) == \A j \in 1..(k - 1) : lines[j][2] < lines[k][2]
<1>1. ASSUME NEW k \in 1..n
      PROVE  M[k][2] = L[k][2] /\ (Leads(M, k) <=> Leads(L, k))
  <2>1. 1..(k - 1) \subseteq 1..n
    OBVIOUS
  <2> QED
    BY <2>1
<1>2. Leads(M, n + 1) <=> \A j \in 1..n : L[j][2] < seq
  <2>1. 1..((n + 1) - 1) = 1..n
    OBVIOUS
  <2> QED
    BY <2>1
<1>3. /\ InTurn(M) = {M[k][2] : k \in {i \in 1..(n + 1) : Leads(M, i)}}
      /\ InTurn(L) = {L[k][2] : k \in {i \in 1..n : Leads(L, i)}}
  BY DEF InTurn
<1>4. 1..(n + 1) = (1..n) \cup {n + 1}
  OBVIOUS
<1> HIDE DEF Leads, L
<1>5. ASSUME NEW x \in InTurn(M)
      PROVE  x \in InTurn(L) \/ (Leads(M, n + 1) /\ x = seq)
  <2>1. PICK k \in 1..(n + 1) : Leads(M, k) /\ x = M[k][2]
    BY <1>3, <1>5
  <2>2. k \in 1..n \/ k = n + 1
    BY <1>4
  <2> QED
    BY <1>1, <1>3, <2>1, <2>2
<1>6. ASSUME NEW x \in InTurn(L)
      PROVE  x \in InTurn(M)
  <2>1. PICK k \in 1..n : Leads(L, k) /\ x = L[k][2]
    BY <1>3, <1>6
  <2> QED
    BY <1>1, <1>3, <1>4, <2>1
<1>7. Leads(M, n + 1) => seq \in InTurn(M)
  <2>1. n + 1 \in 1..(n + 1)
    OBVIOUS
  <2> QED
    BY <1>3, <2>1
<1>8. InTurn(M) = InTurn(L) \cup (IF Leads(M, n + 1) THEN {seq} ELSE {})
  BY <1>5, <1>6, <1>7
<1> QED
  BY <1>2, <1>8 DEF L

\* accountLoss, whatever number comes.
LEMMA BatchCounted ==
  ASSUME NEW e \in Engine, NEW src \in Int, NEW seq \in Nat, Tally(e)
  PROVE  /\ IngestBatch(e, src, seq) \in Engine /\ IngestBatch(e, src, seq).sid = e.sid
         /\ IngestBatch(e, src, seq).lines = Append(e.lines, <<src, seq>>)
         /\ IngestBatch(e, src, seq).head = e.head
         /\ Tally(IngestBatch(e, src, seq))
<1> DEFINE loss == AccountLoss(e.last, seq)
           f == IngestBatch(e, src, seq)
<1>0. PICK n \in Nat : n = Len(e.lines)
  BY LinesAre
<1>1. /\ e.last \in Int /\ e.lost \in Int /\ e.sid \in Sources /\ e.head \in Int /\ Len(e.lines) = n
      /\ e.lines \in Seq(Int \X Nat)
      /\ \A i \in 1..n : e.lines[i][1] \in Int /\ e.lines[i][2] \in Nat
  BY <1>0, LinesAre DEF Engine
<1>2. /\ loss.lost = IF e.last # -1 /\ seq > e.last + 1 THEN seq - e.last - 1 ELSE 0
      /\ loss.last = IF e.last = -1 \/ seq > e.last THEN seq ELSE e.last
  BY DEF AccountLoss
<1>3. loss.lost \in Int /\ loss.last \in Int
  BY <1>1, <1>2
<1>4. f = [e EXCEPT !.lines = Append(e.lines, <<src, seq>>), !.last = loss.last,
                    !.lost = e.lost + loss.lost]
  BY DEF IngestBatch, Engine
<1> HIDE DEF loss, f
<1>5. /\ f.sid = e.sid /\ f.lines = Append(e.lines, <<src, seq>>) /\ f.head = e.head
      /\ f.last = loss.last /\ f.lost = e.lost + loss.lost
  BY <1>4 DEF Engine
<1>6. /\ f.lines \in Seq(Int \X Nat) /\ f.lines # <<>> /\ Len(f.lines) = n + 1
      /\ \A i \in 1..n : f.lines[i] = e.lines[i]
      /\ f.lines[n + 1] = <<src, seq>>
  <2>1. <<src, seq>> \in Int \X Nat
    OBVIOUS
  <2> QED
    <3> DEFINE x == <<src, seq>>
               A == Append(e.lines, x)
    <3>1. e.lines \in Seq(Int \X Nat) /\ x \in Int \X Nat
      BY <1>1, <2>1
    <3> HIDE DEF x
    <3>2. /\ A \in Seq(Int \X Nat) /\ A # <<>> /\ Len(A) = Len(e.lines) + 1
          /\ \A i \in 1..Len(e.lines) : A[i] = e.lines[i]
          /\ A[Len(e.lines) + 1] = x
      BY <3>1, AppendProperties
    <3>3. f.lines = A
      BY <1>5 DEF x
    <3> HIDE DEF A
    <3> QED
      BY <1>1, <3>2, <3>3 DEF x
<1>7. f \in Engine
  <2>1. ASSUME NEW lines \in Seq(Int \X Nat), NEW last \in Int, NEW lost \in Int
        PROVE  [e EXCEPT !.lines = lines, !.last = last, !.lost = lost] \in Engine
    BY DEF Engine
  <2>2. Append(e.lines, <<src, seq>>) \in Seq(Int \X Nat) /\ e.lost + loss.lost \in Int
    BY <1>1, <1>3, <1>5, <1>6
  <2> QED
    BY <1>3, <1>4, <2>1, <2>2
<1>8. Tally(f)
  <2> SUFFICES /\ Newest(f.lines, f.last)
               /\ f.lost = Cardinality((f.lines[1][2]..f.last) \ InTurn(f.lines))
    BY <1>6 DEF Tally
  <2>1. f.lines[n + 1][2] = seq
    BY <1>6
  <2>2. InTurn(f.lines) = InTurn(e.lines) \cup
                          (IF \A j \in 1..n : e.lines[j][2] < seq THEN {seq} ELSE {})
    <3>1. PICK M : M = f.lines
      OBVIOUS
    <3>2. Len(M) = n + 1 /\ (\A i \in 1..n : M[i] = e.lines[i]) /\ M[n + 1][2] = seq
      BY <1>6, <2>1, <3>1
    <3>3. InTurn(M) = InTurn(e.lines) \cup
                      (IF \A j \in 1..n : e.lines[j][2] < seq THEN {seq} ELSE {})
      BY <1>0, <3>2, TurnOfTheLast
    <3> QED
      BY <3>1, <3>3
  <2>3. ASSUME NEW last, \/ last = seq /\ \A j \in 1..n : e.lines[j][2] <= seq
                         \/ Newest(e.lines, last) /\ seq <= last
        PROVE  Newest(f.lines, last)
    <3>1. ASSUME NEW i \in 1..(n + 1) PROVE f.lines[i][2] <= last
      <4>1. CASE i = n + 1
        BY <2>1, <2>3, <4>1
      <4>2. CASE i \in 1..n
        BY <1>1, <1>6, <2>3, <4>2 DEF Newest
      <4> QED
        BY <4>1, <4>2
    <3>2. \E i \in 1..(n + 1) : f.lines[i][2] = last
      <4>1. n + 1 \in 1..(n + 1) /\ 1..n \subseteq 1..(n + 1)
        OBVIOUS
      <4> QED
        BY <1>1, <1>6, <2>1, <2>3, <4>1 DEF Newest
    <3> QED
      BY <1>6, <3>1, <3>2 DEF Newest
  <2>4. CASE n = 0
    <3>1. e.last = -1 /\ e.lost = 0
      BY <1>1, <2>4 DEF Tally
    <3>2. f.last = seq /\ f.lost = 0
      BY <1>2, <1>5, <3>1
    <3>3. f.lines[1][2] = seq /\ seq \in InTurn(f.lines)
      BY <2>1, <2>2, <2>4
    <3>4. (seq..seq) \ InTurn(f.lines) = {}
      BY <3>3
    <3>5. Newest(f.lines, seq)
      BY <2>3, <2>4
    <3> QED
      BY <3>2, <3>3, <3>4, <3>5, FS_EmptySet
  <2>5. CASE n > 0
    <3>1. /\ Newest(e.lines, e.last)
          /\ e.lost = Cardinality((e.lines[1][2]..e.last) \ InTurn(e.lines))
      <4>1. e.lines # <<>>
        BY <1>1, <2>5
      <4> QED
        BY <4>1 DEF Tally
    <3>2. PICK z \in Nat : z = e.last /\ \A i \in 1..n : e.lines[i][2] <= z
      <4>1. \A i \in 1..n : e.lines[i][2] <= e.last
        BY <1>1, <3>1 DEF Newest
      <4>2. e.last \in Nat
        BY <1>1, <3>1 DEF Newest
      <4> QED
        BY <4>1, <4>2
    <3>3. PICK a \in Nat : a = e.lines[1][2] /\ a = f.lines[1][2] /\ a <= z
      <4>1. 1 \in 1..n
        BY <2>5
      <4> QED
        BY <1>1, <1>6, <3>2, <4>1
    <3> DEFINE T == InTurn(e.lines)
               S == (a..z) \ T
    <3>4. e.lost = Cardinality(S)
      BY <3>1, <3>2, <3>3
    <3>5. CASE seq <= z
      <4>1. f.last = z /\ f.lost = e.lost
        BY <1>1, <1>2, <1>5, <3>2, <3>5
      <4>2. ~\A j \in 1..n : e.lines[j][2] < seq
        <5>1. PICK j \in 1..n : e.lines[j][2] = z
          BY <1>1, <3>1, <3>2 DEF Newest
        <5> QED
          BY <3>5, <5>1
      <4>3. InTurn(f.lines) = T
        BY <2>2, <4>2
      <4>4. Newest(f.lines, z)
        BY <2>3, <3>1, <3>2, <3>5
      <4> QED
        BY <3>3, <3>4, <4>1, <4>3, <4>4
    <3>6. CASE seq > z
      <4>1. f.last = seq /\ loss.lost = seq - z - 1
        BY <1>2, <1>5, <3>2, <3>6
      <4>2. \A j \in 1..n : e.lines[j][2] < seq
        BY <1>1, <3>2, <3>6
      <4>3. InTurn(f.lines) = T \cup {seq}
        BY <2>2, <4>2
      <4>4. Newest(f.lines, seq)
        BY <1>1, <2>3, <4>2
      <4>5. \A x \in T : x \in Nat /\ x <= z
        BY <1>1, <3>2 DEF InTurn
      <4> DEFINE G == (z + 1)..(seq - 1)
                 U == (a..seq) \ (T \cup {seq})
      <4>6. U = S \cup G /\ S \cap G = {}
        <5>1. ASSUME NEW x \in U PROVE x \in S \cup G
          <6>1. x \in Int /\ a <= x /\ x <= seq /\ x # seq /\ x \notin T
            OBVIOUS
          <6>2. x <= z \/ x \in G
            BY <6>1
          <6> QED
            BY <6>1, <6>2
        <5>2. ASSUME NEW x \in S PROVE x \in U
          <6>1. x \in Int /\ a <= x /\ x <= z /\ x \notin T
            OBVIOUS
          <6>2. x \in a..seq /\ x # seq
            BY <3>6, <6>1
          <6> QED
            BY <6>1, <6>2
        <5>3. ASSUME NEW x \in G PROVE x \in U
          <6>1. x \in Int /\ z < x /\ x < seq
            OBVIOUS
          <6>2. x \notin T
            BY <4>5, <6>1
          <6>3. x \in a..seq /\ x # seq
            BY <3>3, <6>1
          <6> QED
            BY <6>2, <6>3
        <5>4. \A x \in S : x <= z
          OBVIOUS
        <5>5. \A x \in G : ~(x <= z)
          OBVIOUS
        <5> HIDE DEF S, G, U
        <5> QED
          BY <5>1, <5>2, <5>3, <5>4, <5>5
      <4>7. IsFiniteSet(S) /\ Cardinality(S) \in Nat
        <5>1. IsFiniteSet(a..z) /\ S \subseteq a..z
          BY FS_Interval
        <5> HIDE DEF S
        <5> QED
          BY <5>1, FS_Subset, FS_CardinalityType
      <4>8. IsFiniteSet(G) /\ Cardinality(G) = seq - z - 1
        <5>1. z + 1 \in Int /\ seq - 1 \in Int
          OBVIOUS
        <5>2. /\ IsFiniteSet(G)
              /\ Cardinality(G) = IF z + 1 > seq - 1 THEN 0 ELSE (seq - 1) - (z + 1) + 1
          BY <5>1, FS_Interval
        <5> HIDE DEF G
        <5> QED
          BY <3>6, <5>2
      <4>9. Cardinality(U) = Cardinality(S) + Cardinality(G)
        <5> HIDE DEF S, G, U
        <5>1. Cardinality(S \cup G) = Cardinality(S) + Cardinality(G) - Cardinality({})
          BY <4>6, <4>7, <4>8, FS_Union
        <5>2. Cardinality({}) = 0
          BY FS_EmptySet
        <5>3. PICK g \in Int : g = Cardinality(G)
          BY <4>8
        <5> QED
          BY <4>6, <4>7, <5>1, <5>2, <5>3
      <4>10. f.lost = Cardinality(U)
        BY <1>5, <3>4, <4>1, <4>8, <4>9
      <4> QED
        BY <3>3, <4>1, <4>3, <4>4, <4>10
    <3> QED
      BY <3>5, <3>6
  <2> QED
    BY <2>4, <2>5
<1> QED
  BY <1>5, <1>7, <1>8 DEF f

\* A line of a recording: the envelope first, then batches.
LEMMA LineIngested ==
  ASSUME NEW e \in Engine, NEW id \in Recordings, NEW n \in Nat \ {0}, Tally(e)
  PROVE  /\ IngestLine(e, id, n) \in Engine /\ Tally(IngestLine(e, id, n))
         /\ n = 1 => /\ IngestLine(e, id, n).sid = id
                     /\ IngestLine(e, id, n).lines = IF e.sid \notin {None, id} THEN <<>> ELSE e.lines
         /\ n # 1 => /\ IngestLine(e, id, n).sid = e.sid
                     /\ IngestLine(e, id, n).lines = Append(e.lines, <<id, n>>)
<1>1. id \in Sources /\ id \in Int
  BY RecordingsAreListed DEF Sources
<1>2. CASE n = 1
  BY <1>1, <1>2, SessionAdopted DEF IngestLine
<1>3. CASE n # 1
  BY <1>1, <1>3, BatchCounted DEF IngestLine
<1> QED
  BY <1>2, <1>3

\* A seek moves the head, into the span of what is there.
LEMMA Sought ==
  ASSUME NEW e \in Engine, NEW t \in Int
  PROVE  /\ SeekUtc(e, t) \in Engine /\ SeekUtc(e, t).sid = e.sid
         /\ SeekUtc(e, t).lines = e.lines
         /\ Tally(e) => Tally(SeekUtc(e, t))
         /\ e.sid > None /\ e.lines # <<>> =>
               SeekUtc(e, t).head \in Span[e.sid][1]..Span[e.sid][2]
<1>1. CASE e.sid <= None \/ e.lines = <<>>
  <2>1. SeekUtc(e, t) = e /\ e.sid \in Int
    BY <1>1, RecordingsAreListed DEF SeekUtc, Engine, Sources
  <2> QED
    BY <1>1, <2>1 DEF None
<1>2. CASE ~(e.sid <= None \/ e.lines = <<>>)
  <2>1. e.sid \in Recordings
    BY <1>2 DEF Engine, Sources
  <2>2. PICK a \in Int, b \in Int : a = Span[e.sid][1] /\ b = Span[e.sid][2] /\ a <= b
    BY <2>1, DashAssumption
  <2>3. PICK m \in Int : m = Min({b, t}) /\ m <= b /\ m \in {b, t}
    <3>1. CASE b <= t
      BY <3>1 DEF Min
    <3>2. CASE t < b
      BY <3>2 DEF Min
    <3> QED
      BY <3>1, <3>2
  <2>4. PICK h \in Int : h = Max({a, m}) /\ h >= a /\ h <= b
    <3>1. CASE m <= a
      BY <2>2, <3>1 DEF Max
    <3>2. CASE a < m
      BY <2>3, <3>2 DEF Max
    <3> QED
      BY <3>1, <3>2
  <2>5. SeekUtc(e, t) = [e EXCEPT !.head = h]
    BY <1>2, <2>2, <2>3, <2>4 DEF SeekUtc
  <2>6. /\ SeekUtc(e, t) \in Engine /\ SeekUtc(e, t).sid = e.sid
        /\ SeekUtc(e, t).lines = e.lines /\ SeekUtc(e, t).last = e.last
        /\ SeekUtc(e, t).lost = e.lost /\ SeekUtc(e, t).head = h
    BY <2>5 DEF Engine
  <2> QED
    BY <2>2, <2>4, <2>6 DEF Tally
<1> QED
  BY <1>1, <1>2

\* The newest number is the greatest.
LEMMA NewestIsGreatest ==
  ASSUME NEW e \in Engine, NEW last \in Int, Newest(e.lines, last)
  PROVE  Max({e.lines[i][2] : i \in 1..Len(e.lines)}) = last
<1> DEFINE seqs == {e.lines[i][2] : i \in 1..Len(e.lines)}
<1>1. \A x \in seqs : x \in Nat
  BY LinesAre
<1>2. last \in seqs /\ \A x \in seqs : last >= x
  BY <1>1 DEF Newest
<1>3. ASSUME NEW y \in seqs, \A x \in seqs : y >= x PROVE y = last
  <2>1. y \in Nat /\ y >= last /\ last >= y
    BY <1>1, <1>2, <1>3
  <2> QED
    BY <2>1
<1> HIDE DEF seqs
<1>4. Max(seqs) = last
  BY <1>2, <1>3 DEF Max
<1> QED
  BY <1>4 DEF seqs

LEMMA IInvImplies == IInv => PageShowsItsSource
<1> SUFFICES ASSUME IInv PROVE PageShowsItsSource
  OBVIOUS
<1>1. ReplayIsWhole
  <2> SUFFICES ASSUME mode = "replay"
               PROVE  /\ \A i \in 1..Len(eng.lines) : eng.sid > None /\ eng.lines[i] = <<eng.sid, i + 1>>
                      /\ loading => pill.kind \in {"loading", "nolist"}
                                    /\ \E l \in loads : Alive(l) /\ eng.sid \in {None, l.id}
                      /\ pill.kind = "ok" => eng.sid = pill.id /\ Len(eng.lines) = Length - 1
                            /\ (Length > 1 => eng.head \in Span[pill.id][1]..Span[pill.id][2])
    BY DEF ReplayIsWhole
  <2>1. /\ OfOneRecording(eng) /\ \A l \in loads : Alive(l) => ReadUpTo(l, eng)
        /\ loading => pill.kind \in {"loading", "nolist"}
        /\ pill.kind = "ok" => Whole(eng, pill.id)
    BY DEF IInv, ReplayInv
  <2>2. ASSUME loading
        PROVE  \E l \in loads : Alive(l) /\ eng.sid \in {None, l.id}
    <3>1. PICK l \in loads : Alive(l)
      BY <2>2 DEF IInv, LoadsInv
    <3>2. l.next \in Nat
      BY DashAssumption DEF IInv, TypeOK, Loads
    <3>3. eng.sid = None \/ eng.sid = l.id
      <4>1. ReadUpTo(l, eng)
        BY <2>1, <3>1
      <4>2. l.next = 0 \/ l.next > 0
        BY <3>2
      <4> QED
        BY <4>1, <4>2 DEF ReadUpTo
    <3> QED
      BY <3>1, <3>3
  <2> QED
    BY <2>1, <2>2 DEF OfOneRecording, Whole
<1>2. LossIsExact
  <2>1. eng \in Engine /\ Tally(eng) /\ eng.last \in Int
    BY DEF IInv, TypeOK, Engine
  <2>2. CASE eng.lines = <<>>
    BY <2>1, <2>2 DEF Tally, LossIsExact
  <2>3. CASE eng.lines # <<>>
    <3>1. /\ Newest(eng.lines, eng.last)
          /\ eng.lost = Cardinality((eng.lines[1][2]..eng.last) \ InTurn(eng.lines))
      BY <2>1, <2>3 DEF Tally
    <3>2. Max({eng.lines[i][2] : i \in 1..Len(eng.lines)}) = eng.last
      BY <2>1, <3>1, NewestIsGreatest
    <3>3. OutOfTurn(eng.lines) = (eng.lines[1][2]..eng.last) \ InTurn(eng.lines)
      BY <3>2, Zenon DEF OutOfTurn
    <3> QED
      BY <2>3, <3>1, <3>3 DEF LossIsExact
  <2> QED
    BY <2>2, <2>3
<1> QED
  BY <1>1, <1>2 DEF PageShowsItsSource, IInv

-----------------------------------------------------------------------------
(* The steps, as far as the engine and the loads go: whatever way a load   *)
(* is started or the head moved.                                           *)

HeadMoves ==
    /\ eng' = eng \/ \E t \in Int : eng' = SeekUtc(eng, t)
    /\ playing' \in {playing, TRUE, FALSE}
    /\ UNCHANGED <<mode, socketVars, pill, loadToken, loads, loadedSession, loading, feed>>
LoadStarts ==
    /\ \E id \in Recordings : StartLoad(id)
    /\ UNCHANGED <<mode, socketVars, loadedSession, feed>>

LEMMA GoingTo ==
  ASSUME NEW list \in {<<>>, Listing}, NEW t \in Int, SessionAt(list, t) # None, Goto(list, t),
         UNCHANGED <<mode, socketVars, loadedSession, feed>>
  PROVE  /\ HeadMoves \/ LoadStarts
         /\ seekAfter' \in {seekAfter, t}
<1>1. SessionAt(list, t) \in Recordings
  BY SessionAtIsListed
<1>2. CASE loadedSession = SessionAt(list, t) /\ ~loading
  BY <1>2, Zenon DEF Goto, HeadMoves
<1>3. CASE ~(loadedSession = SessionAt(list, t) /\ ~loading)
  <2>1. StartLoad(SessionAt(list, t)) /\ seekAfter' = t
    BY <1>3, Zenon DEF Goto
  <2> QED
    BY <1>1, <2>1 DEF LoadStarts
<1> QED
  BY <1>2, <1>3

LEMMA ListArriving ==
  ASSUME TypeOK, ListArrives(Listing)
  PROVE  /\ HeadMoves \/ LoadStarts
         /\ seekAfter' \in {seekAfter, pendingAt} /\ pendingId' \in {pendingId, None}
<1>1. UNCHANGED <<mode, socketVars, loadedSession, feed>> /\ pendingAt \in Int
  BY DEF ListArrives, TypeOK
<1>2. CASE pendingAt # None /\ SessionAt(Listing, pendingAt) # None
  <2>1. Goto(Listing, pendingAt) /\ UNCHANGED pendingId
    BY <1>2 DEF ListArrives
  <2> QED
    BY <1>1, <1>2, <2>1, GoingTo
<1>3. CASE ~(pendingAt # None /\ SessionAt(Listing, pendingAt) # None)
  <2>1. /\ StartLoad(IF pendingId \in Range(Listing) THEN pendingId ELSE Listing[1])
        /\ pendingId' = None /\ seekAfter' = seekAfter
    BY <1>3 DEF ListArrives
  <2>2. (IF pendingId \in Range(Listing) THEN pendingId ELSE Listing[1]) \in Recordings
    BY RecordingsAreListed DEF Recordings
  <2> QED
    BY <1>1, <2>1, <2>2 DEF LoadStarts
<1> QED
  BY <1>2, <1>3

LEMMA Toggling ==
  ASSUME TypeOK, TogglePlay
  PROVE  HeadMoves
<1>1. playing' \in {playing, TRUE, FALSE}
  BY Zenon DEF TogglePlay, TypeOK, Flags
<1> QED
  BY <1>1 DEF TogglePlay, HeadMoves

LEMMA Clicking ==
  ASSUME TypeOK, Click
  PROVE  /\ \/ \E to \in {"live", "replay"} : SetMode(to)
            \/ HeadMoves \/ LoadStarts
         /\ seekAfter' \in {seekAfter} \cup Times
<1>1. CASE \E to \in {"live", "replay"} : SetMode(to)
  BY <1>1 DEF SetMode
<1>2. CASE \E id \in Recordings : PickSession(id)
  BY <1>2 DEF PickSession, LoadStarts
<1>3. CASE \E t \in Times : GotoTime(t)
  <2>1. PICK t \in Times : GotoTime(t)
    BY <1>3
  <2>2. t \in Int /\ sessions \in {<<>>, Listing}
    BY DashAssumption DEF TypeOK
  <2>3. /\ SessionAt(sessions, t) # None /\ Goto(sessions, t)
        /\ UNCHANGED <<mode, socketVars, loadedSession, feed>>
    BY <2>1 DEF GotoTime
  <2> QED
    BY <2>2, <2>3, GoingTo
<1>4. CASE TogglePlay
  BY <1>4, Toggling DEF TogglePlay
<1> QED
  BY <1>1, <1>2, <1>3, <1>4 DEF Click

LEMMA LargerOfTwo ==
  ASSUME NEW a \in Int, NEW b \in Int
  PROVE  Max({a, b}) \in Int
<1>1. \E x \in {a, b} : \A y \in {a, b} : x >= y
  OBVIOUS
<1>2. Max({a, b}) \in {a, b}
  BY <1>1 DEF Max
<1> QED
  BY <1>2

LEMMA Playing ==
  ASSUME TypeOK, NEW t \in Times, PlaysOn(t)
  PROVE  HeadMoves
<1>1. eng.head \in Int /\ t \in Int
  BY DashAssumption DEF TypeOK, Engine
<1>2. Max({eng.head, t}) \in Int
  BY <1>1, LargerOfTwo
<1>3. playing' \in BOOLEAN
  BY Zenon DEF PlaysOn
<1> QED
  BY <1>2, <1>3 DEF PlaysOn, HeadMoves

LEMMA StepKinds ==
  ASSUME TypeOK, Next
  PROVE  \/ Opened \/ Retry \/ FeedRestarts \/ NoList
         \/ (\E w \in Nat : Closed(w)) \/ Datagram
         \/ \E l \in loads : LoadStops(l) \/ LoadFails(l) \/ LoadSlice(l) \/ LoadEnds(l)
         \/ (\E to \in {"live", "replay"} : SetMode(to)) \/ HeadMoves \/ LoadStarts
<1>1. ASSUME Click
      PROVE (\E to \in {"live", "replay"} : SetMode(to)) \/ HeadMoves \/ LoadStarts
  BY <1>1, Clicking
<1>2. ASSUME ListArrives(Listing)
      PROVE  HeadMoves \/ LoadStarts
  BY <1>2, ListArriving
<1>3. 1..ws \subseteq Nat
  OBVIOUS
<1>4. ASSUME NEW t \in Times, PlaysOn(t)
      PROVE  HeadMoves
  BY <1>4, Playing
<1> QED
  BY <1>1, <1>2, <1>3, <1>4 DEF Next

-----------------------------------------------------------------------------
(* What each step keeps of the invariant.                                  *)

\* A batch of the feed, in its turn or not, goes on the timeline or is lost.
LEMMA DatagramKept ==
  ASSUME TypeOK, Tally(eng), Datagram
  PROVE  eng' \in Engine /\ Tally(eng')
<1>1. feed.sid \in Int /\ feed.seq \in Nat /\ eng \in Engine
  BY DEF TypeOK, FeedIds
<1>2. CASE eng' = eng
  BY <1>1, <1>2
<1>3. CASE \E n \in Nat : eng' = IngestBatch(eng, feed.sid, n)
  BY <1>1, <1>3, BatchCounted
<1>4. ASSUME NEW arrives \in BOOLEAN, FeedBatch(arrives)
      PROVE  eng' = eng \/ \E n \in Nat : eng' = IngestBatch(eng, feed.sid, n)
  <2>1. feed' = [feed EXCEPT !.seq = @ + 1]
        /\ (eng' = eng \/ eng' = IngestBatch(eng, feed.sid, feed'.seq))
    BY <1>4 DEF FeedBatch
  <2>2. feed'.seq \in Nat
    BY <2>1 DEF TypeOK
  <2> QED
    BY <2>1, <2>2
<1>5. ASSUME NEW n \in 1..feed.seq, LateBatch(n)
      PROVE  \E m \in Nat : eng' = IngestBatch(eng, feed.sid, m)
  <2>1. n \in Nat /\ eng' = IngestBatch(eng, feed.sid, n)
    BY <1>1, <1>5 DEF LateBatch
  <2> QED
    BY <2>1
<1> QED
  BY <1>2, <1>3, <1>4, <1>5 DEF Datagram

\* A line of a load is the next of its recording.
LEMMA LoadSliceKept ==
  ASSUME TypeOK, Tally(eng), NEW l \in loads, LoadSlice(l)
  PROVE  eng' \in Engine /\ Tally(eng')
<1>1. /\ l \in Loads /\ eng \in Engine /\ eng' = IngestLine(eng, l.id, l.next + 1)
  BY DEF TypeOK, LoadSlice
<1>2. l.id \in Recordings /\ l.next + 1 \in Nat \ {0}
  BY <1>1, DashAssumption DEF Loads
<1> QED
  BY <1>1, <1>2, LineIngested

\* A load that ends seeks once or twice.
LEMMA LoadEnding ==
  ASSUME TypeOK, NEW l \in loads, LoadEnds(l)
  PROVE  \E e \in Engine, t \in Int : /\ eng' = SeekUtc(e, t) /\ e.sid = eng.sid
                                      /\ e.lines = eng.lines /\ (Tally(eng) => Tally(e))
<1>1. l.id \in Recordings /\ eng \in Engine /\ seekAfter \in Int
  BY DEF TypeOK, Loads
<1>2. PICK a \in Int : a = Span[l.id][1]
  BY <1>1, DashAssumption
<1>3. eng' = IF seekAfter = None THEN SeekUtc(eng, a) ELSE SeekUtc(SeekUtc(eng, a), seekAfter)
  BY <1>2 DEF LoadEnds
<1>4. CASE seekAfter = None
  BY <1>1, <1>3, <1>4
<1>5. CASE seekAfter # None
  <2>1. /\ SeekUtc(eng, a) \in Engine /\ SeekUtc(eng, a).sid = eng.sid
        /\ SeekUtc(eng, a).lines = eng.lines /\ (Tally(eng) => Tally(SeekUtc(eng, a)))
    BY <1>1, Sought
  <2> QED
    BY <1>1, <1>3, <1>5, <2>1
<1> QED
  BY <1>4, <1>5

\* Another envelope of the feed, in the socket that is open.
LEMMA EnvelopeKept ==
  ASSUME TypeOK, Tally(eng), Opened \/ FeedRestarts
  PROVE  eng' \in Engine /\ Tally(eng')
<1>1. feed.sid \in Sources /\ feed.sid - 1 \in Sources /\ eng \in Engine
  BY DEF TypeOK, FeedIds, Sources, None
<1>2. CASE Opened
  BY <1>1, <1>2, SessionAdopted DEF Opened
<1>3. CASE FeedRestarts
  <2>1. eng' = eng \/ eng' = IngestSession(eng, feed.sid - 1)
    BY <1>3 DEF FeedRestarts
  <2> QED
    BY <1>1, <2>1, SessionAdopted
<1> QED
  BY <1>2, <1>3

\* Whatever happens, what did not come in its turn is counted.
LEMMA EngineKept ==
  ASSUME TypeOK, Tally(eng), [Next]_vars
  PROVE  eng' \in Engine /\ Tally(eng')
<1>1. CASE Opened \/ FeedRestarts
  BY <1>1, EnvelopeKept
<1>2. CASE \/ Retry \/ NoList \/ UNCHANGED vars
           \/ \E w \in Nat : Closed(w)
           \/ \E l \in loads : LoadStops(l) \/ LoadFails(l)
  <2>1. eng' = eng
    BY <1>2, Zenon DEF Retry, NoList, vars, Closed, LoadStops, LoadFails
  <2> QED
    BY <2>1 DEF TypeOK
<1>3. CASE Datagram
  BY <1>3, DatagramKept
<1>4. CASE \E l \in loads : LoadSlice(l)
  BY <1>4, LoadSliceKept
<1>5. CASE \E l \in loads : LoadEnds(l)
  <2>1. PICK l \in loads : LoadEnds(l)
    BY <1>5
  <2>2. PICK e \in Engine, t \in Int : eng' = SeekUtc(e, t) /\ Tally(e)
    BY <2>1, LoadEnding
  <2> QED
    BY <2>2, Sought
<1>6. CASE (\E to \in {"live", "replay"} : SetMode(to)) \/ LoadStarts
  <2>1. eng' = Empty
    BY <1>6, Zenon DEF SetMode, LoadStarts, StartLoad
  <2> QED
    BY <2>1, EmptyEngine
<1>7. CASE HeadMoves
  <2>1. eng' = eng \/ \E t \in Int : eng' = SeekUtc(eng, t)
    BY <1>7 DEF HeadMoves
  <2> QED
    BY <2>1, Sought DEF TypeOK
<1> QED
  BY <1>1, <1>2, <1>3, <1>4, <1>5, <1>6, <1>7, StepKinds

LEMMA LiveKept ==
  ASSUME TypeOK, LiveIsTrying, [Next]_vars
  PROVE  LiveIsTrying'
<1> USE DEF TypeOK, Flags, LiveIsTrying
<1>1. CASE \/ FeedRestarts \/ NoList \/ LoadStarts \/ HeadMoves \/ UNCHANGED vars \/ Datagram
           \/ \E l \in loads : LoadStops(l) \/ LoadFails(l) \/ LoadSlice(l) \/ LoadEnds(l)
  <2>1. UNCHANGED <<mode, wsState, timer>>
    BY <1>1, Zenon DEF FeedRestarts, NoList, LoadStarts, HeadMoves, vars, Datagram, FeedBatch, LateBatch, LoadStops,
       LoadFails, LoadSlice, LoadEnds, socketVars
  <2> QED
    BY <2>1
<1>2. CASE Opened
  BY <1>2 DEF Opened
<1>3. CASE Retry
  BY <1>3 DEF Retry, Connect
<1>4. CASE \E w \in Nat : Closed(w)
  BY <1>4 DEF Closed, CurrentSocket
<1>5. CASE \E to \in {"live", "replay"} : SetMode(to)
  BY <1>5 DEF SetMode, Connect, Disconnect
<1> QED
  BY <1>1, <1>2, <1>3, <1>4, <1>5, StepKinds

LEMMA LoadsKept ==
  ASSUME TypeOK, LoadsInv, [Next]_vars
  PROVE  LoadsInv'
<1>1. /\ loadToken \in Nat /\ loading \in BOOLEAN /\ \A l \in loads : l \in Loads /\ l.token \in Nat
      /\ \A l \in loads : l.token <= loadToken
      /\ \A l, m \in loads : l.token = m.token => l = m
      /\ loading <=> \E l \in loads : l.token = loadToken
  BY DEF TypeOK, Flags, LoadsInv, Loads, Alive
<1>2. SUFFICES /\ \A l \in loads' : l.token <= loadToken'
               /\ \A l, m \in loads' : l.token = m.token => l = m
               /\ loading' <=> \E l \in loads' : l.token = loadToken'
  BY DEF LoadsInv, Alive
<1>3. CASE \/ Opened \/ Retry \/ FeedRestarts \/ NoList \/ HeadMoves \/ UNCHANGED vars
           \/ (\E w \in Nat : Closed(w)) \/ Datagram
  <2>1. UNCHANGED <<loadToken, loads, loading>>
    BY <1>3, Zenon DEF Opened, Retry, FeedRestarts, NoList, HeadMoves, vars, Closed, Datagram, FeedBatch, LateBatch, replayVars
  <2> QED
    BY <1>1, <2>1
<1>4. CASE LoadStarts
  <2>1. PICK id \in Recordings : StartLoad(id)
    BY <1>4 DEF LoadStarts
  <2> DEFINE new == [token |-> loadToken + 1, id |-> id, next |-> 0]
  <2>2. loadToken' = loadToken + 1 /\ loads' = loads \cup {new} /\ loading' = TRUE
    BY <2>1 DEF StartLoad
  <2>3. new.token = loadToken + 1
    OBVIOUS
  <2> HIDE DEF new
  <2> QED
    BY <1>1, <2>2, <2>3
<1>5. CASE \E l \in loads : LoadStops(l)
  <2>1. PICK l \in loads : ~Alive(l) /\ loads' = loads \ {l} /\ UNCHANGED <<loadToken, loading>>
    BY <1>5 DEF LoadStops
  <2> QED
    BY <1>1, <2>1 DEF Alive
<1>6. CASE \E l \in loads : LoadFails(l) \/ LoadEnds(l)
  <2>1. PICK l \in loads : Alive(l) /\ loads' = loads \ {l} /\ loadToken' = loadToken /\ loading' = FALSE
    BY <1>6, Zenon DEF LoadFails, LoadEnds
  <2> QED
    BY <1>1, <2>1 DEF Alive
<1>7. CASE \E l \in loads : LoadSlice(l)
  <2>1. PICK l \in loads : /\ loads' = (loads \ {l}) \cup {[l EXCEPT !.next = l.next + 1]}
                           /\ UNCHANGED <<loadToken, loading>>
    BY <1>1, <1>7 DEF LoadSlice, Loads
  <2>2. [l EXCEPT !.next = l.next + 1].token = l.token
    BY <1>1 DEF Loads
  <2> QED
    BY <1>1, <2>1, <2>2
<1>8. CASE \E to \in {"live", "replay"} : SetMode(to)
  <2>1. loadToken' = loadToken + 1 /\ loads' = loads /\ loading' = FALSE
    BY <1>8 DEF SetMode, NextToken
  <2> QED
    BY <1>1, <2>1
<1> QED
  BY <1>3, <1>4, <1>5, <1>6, <1>7, <1>8, StepKinds

\* A step that leaves the engine alone and starts no load keeps what replay
\* shows, if its pill says no more than before.
LEMMA ReplayStays ==
  ASSUME ReplayInv, LoadsInv', mode = "replay", UNCHANGED <<loadToken, eng>>, loads' \subseteq loads,
         loading' => loading,
         pill' = pill \/ pill'.kind = "nolist" \/ (pill'.kind # "ok" /\ ~loading')
  PROVE  ReplayInv'
<1>1. OfOneRecording(eng') /\ \A l \in loads' : Alive(l)' => ReadUpTo(l, eng')
  BY DEF ReplayInv, Alive
<1>2. loading' => pill'.kind \in {"loading", "nolist"}
  BY DEF ReplayInv
<1>3. pill'.kind = "ok" => Whole(eng', pill'.id)
  BY DEF ReplayInv
<1> QED
  BY <1>1, <1>2, <1>3 DEF ReplayInv

\* In replay nothing but a load puts anything into the engine: the page has
\* no socket, and a superseded load stops at its next await.
LEMMA ReplayKept ==
  ASSUME IInv, LoadsInv', [Next]_vars
  PROVE  ReplayInv'
<1>0. SUFFICES ASSUME mode' = "replay"
               PROVE  ReplayInv'
  BY DEF ReplayInv
<1>1. TypeOK /\ LoadsInv /\ ReplayInv /\ eng \in Engine
  BY DEF IInv, TypeOK
<1>2. mode = "replay" => wsState = "none" /\ ~timer
  BY DEF IInv, LiveIsTrying
<1>3. CASE Opened \/ Retry
  <2>1. mode = "replay" /\ (wsState = "connecting" \/ timer)
    BY <1>0, <1>3 DEF Opened, Retry
  <2> QED
    BY <1>2, <2>1
<1>4. CASE \/ FeedRestarts \/ NoList \/ UNCHANGED vars \/ (\E w \in Nat : Closed(w))
           \/ Datagram \/ \E l \in loads : LoadStops(l) \/ LoadFails(l)
  <2>1. mode = "replay"
    BY <1>0, <1>4, Zenon DEF FeedRestarts, NoList, vars, Closed, Datagram, FeedBatch, LateBatch,
       LoadStops, LoadFails
  <2>2. wsState = "none"
    BY <1>2, <2>1
  <2>3. CASE FeedRestarts \/ UNCHANGED vars \/ Datagram \/ \E l \in loads : LoadStops(l)
    <3>1. UNCHANGED <<eng, pill, loadToken, loading>> /\ loads' \subseteq loads
      BY <2>2, <2>3 DEF FeedRestarts, Datagram, FeedBatch, LateBatch, vars, LoadStops, replayVars
    <3> QED
      BY <1>1, <2>1, <3>1, ReplayStays
  <2>4. CASE \E w \in Nat : Closed(w)
    <3>1. UNCHANGED <<eng, pill, loadToken, loading, loads>>
      BY <2>1, <2>2, <2>4 DEF Closed, CurrentSocket, replayVars
    <3> QED
      BY <1>1, <2>1, <3>1, ReplayStays
  <2>5. CASE NoList
    <3>1. pill'.kind = "nolist" /\ UNCHANGED <<eng, loadToken, loading, loads>>
      BY <2>5 DEF NoList, Pill
    <3> QED
      BY <1>1, <2>1, <3>1, ReplayStays
  <2>6. CASE \E l \in loads : LoadFails(l)
    <3>1. pill'.kind = "failed" /\ ~loading' /\ UNCHANGED <<eng, loadToken>> /\ loads' \subseteq loads
      <4>1. PICK l \in loads : LoadFails(l)
        BY <2>6
      <4>2. /\ pill' = Pill("failed", None) /\ loading' = FALSE
            /\ UNCHANGED <<eng, loadToken>> /\ loads' = loads \ {l}
        BY <4>1, Zenon DEF LoadFails
      <4> QED
        BY <4>2 DEF Pill
    <3> QED
      BY <1>1, <2>1, <3>1, ReplayStays
  <2> QED
    BY <1>4, <2>3, <2>4, <2>5, <2>6
<1>5. CASE \E l \in loads : LoadSlice(l)
  <2>1. PICK l \in loads : LoadSlice(l)
    BY <1>5
  <2>2. /\ l \in Loads /\ l.id \in Recordings /\ l.next \in Nat /\ l.next < Length /\ Length \in Nat
        /\ Alive(l) /\ mode = "replay" /\ loading
        /\ loads' = (loads \ {l}) \cup {[l EXCEPT !.next = l.next + 1]}
        /\ eng' = IngestLine(eng, l.id, l.next + 1)
        /\ pill' \in {pill, Pill("loading", l.id)} /\ UNCHANGED <<loadToken, loading>>
    BY <1>0, <1>1, <2>1, DashAssumption DEF LoadSlice, TypeOK, Loads, LoadsInv
  <2>3. ReadUpTo(l, eng) /\ OfOneRecording(eng) /\ pill.kind \in {"loading", "nolist"}
    BY <1>1, <2>2 DEF ReplayInv
  <2>4. PICK n \in Nat : n = Len(eng.lines)
    BY <1>1, LinesAre
  <2>5. l.id \in Nat /\ l.id > None /\ l.id # None /\ Tally(eng)
    <3>1. l.id \in Nat \ {0}
      BY <2>2, RecordingsAreListed
    <3> QED
      BY <3>1 DEF None, IInv
  <2>6. OfOneRecording(eng') /\ eng'.sid = l.id /\ Len(eng'.lines) = l.next
    <3>1. CASE l.next = 0
      <4>1. eng.sid = None /\ eng.lines = <<>> /\ n = 0
        BY <1>1, <2>3, <2>4, <3>1 DEF ReadUpTo
      <4>2. eng'.sid = l.id /\ eng'.lines = <<>>
        BY <1>1, <2>2, <2>4, <2>5, <3>1, <4>1, LineIngested
      <4> QED
        BY <3>1, <4>2 DEF OfOneRecording
    <3>2. CASE l.next > 0
      <4>1. eng.sid = l.id /\ n = l.next - 1
        BY <2>3, <2>4, <3>2 DEF ReadUpTo
      <4>2. \A i \in 1..n : eng.lines[i] = <<l.id, i + 1>>
        BY <2>3, <2>4, <4>1 DEF OfOneRecording
      <4>4. l.next + 1 \in Nat \ {0} /\ l.next + 1 # 1
        BY <2>2, <3>2
      <4>5. eng'.sid = l.id /\ eng'.lines = Append(eng.lines, <<l.id, l.next + 1>>)
        BY <1>1, <2>2, <2>5, <4>1, <4>4, LineIngested
      <4>6. /\ Len(eng'.lines) = n + 1 /\ eng'.lines[n + 1] = <<l.id, l.next + 1>>
            /\ \A i \in 1..n : eng'.lines[i] = eng.lines[i]
        <5>1. eng.lines \in Seq(Int \X Nat) /\ <<l.id, l.next + 1>> \in Int \X Nat
          BY <1>1, <2>5, <4>4, LinesAre
        <5> QED
          BY <2>4, <4>5, <5>1, AppendProperties
      <4>7. ASSUME NEW i \in 1..(n + 1)
            PROVE  eng'.lines[i] = <<l.id, i + 1>>
        <5>1. CASE i = n + 1
          BY <2>2, <4>1, <4>6, <5>1
        <5>2. CASE i \in 1..n
          BY <4>2, <4>6, <5>2
        <5> QED
          BY <5>1, <5>2
      <4> QED
        BY <2>2, <2>5, <4>1, <4>5, <4>6, <4>7 DEF OfOneRecording
    <3> QED
      BY <2>2, <3>1, <3>2
  <2>7. ASSUME NEW m \in loads', Alive(m)'
        PROVE  ReadUpTo(m, eng')
    <3>1. m \notin loads \ {l}
      BY <1>1, <2>2, <2>7 DEF LoadsInv, Alive
    <3>2. m.next = l.next + 1 /\ m.id = l.id
      BY <2>2, <3>1 DEF Loads
    <3> QED
      BY <2>2, <2>6, <3>2 DEF ReadUpTo
  <2>8. pill'.kind \in {"loading", "nolist"}
    <3>1. Pill("loading", l.id).kind = "loading"
      BY DEF Pill
    <3> QED
      BY <2>2, <2>3, <3>1
  <2> QED
    BY <2>2, <2>6, <2>7, <2>8 DEF ReplayInv
<1>6. CASE \E l \in loads : LoadEnds(l)
  <2>1. PICK l \in loads : LoadEnds(l)
    BY <1>6
  <2>2. /\ l.id \in Recordings /\ l.next = Length /\ Length \in Nat \ {0} /\ Alive(l) /\ mode = "replay"
        /\ pill' = Pill("ok", l.id) /\ loading' = FALSE
    BY <1>0, <1>1, <2>1, DashAssumption DEF LoadEnds, TypeOK, Loads
  <2>3. PICK e \in Engine, t \in Int : eng' = SeekUtc(e, t) /\ e.sid = eng.sid /\ e.lines = eng.lines
    BY <1>1, <2>1, LoadEnding
  <2>4. /\ eng'.sid = eng.sid /\ eng'.lines = eng.lines
        /\ eng.sid > None /\ eng.lines # <<>> => eng'.head \in Span[eng.sid][1]..Span[eng.sid][2]
    BY <2>3, Sought
  <2>5. OfOneRecording(eng) /\ eng.sid = l.id /\ Len(eng.lines) = Length - 1
    <3>1. OfOneRecording(eng) /\ ReadUpTo(l, eng)
      BY <1>1, <2>1, <2>2 DEF ReplayInv, LoadEnds
    <3> QED
      BY <2>2, <3>1 DEF ReadUpTo
  <2>6. Whole(eng', l.id)
    <3>1. l.id > None
      <4>1. l.id \in Nat \ {0}
        BY <2>2, RecordingsAreListed
      <4> QED
        BY <4>1 DEF None
    <3>2. Length > 1 => eng.lines # <<>>
      BY <1>1, <2>2, <2>5, LinesAre
    <3> QED
      BY <2>4, <2>5, <3>1, <3>2 DEF Whole
  <2>7. \A m \in loads' : ~Alive(m)'
    BY <2>2 DEF LoadsInv
  <2> QED
    BY <2>2, <2>4, <2>5, <2>6, <2>7 DEF ReplayInv, OfOneRecording, Pill
<1>7. CASE \E to \in {"live", "replay"} : SetMode(to)
  <2>1. /\ eng' = Empty /\ loading' = FALSE /\ pill'.kind = "replay"
    BY <1>0, <1>7 DEF SetMode, Pill
  <2>2. \A m \in loads' : ~Alive(m)'
    BY <2>1 DEF LoadsInv
  <2>3. OfOneRecording(eng')
    BY <2>1, EmptyEngine DEF OfOneRecording
  <2> QED
    BY <2>1, <2>2, <2>3 DEF ReplayInv
<1>8. CASE LoadStarts
  <2>1. PICK id \in Recordings : StartLoad(id)
    BY <1>8 DEF LoadStarts
  <2>2. /\ loadToken' = loadToken + 1 /\ eng' = Empty /\ pill'.kind = "loading"
        /\ loads' = loads \cup {[token |-> loadToken + 1, id |-> id, next |-> 0]}
    BY <2>1 DEF StartLoad, Pill
  <2>3. ASSUME NEW m \in loads', Alive(m)'
        PROVE  ReadUpTo(m, eng')
    <3>1. m \notin loads
      <4>1. \A k \in loads : k.token \in Nat /\ k.token <= loadToken /\ loadToken \in Nat
        BY <1>1 DEF TypeOK, Loads, LoadsInv
      <4> QED
        BY <2>2, <2>3, <4>1 DEF Alive
    <3>2. m.next = 0
      BY <2>2, <3>1
    <3> QED
      BY <2>2, <3>2, EmptyEngine DEF ReadUpTo
  <2>4. OfOneRecording(eng')
    BY <2>2, EmptyEngine DEF OfOneRecording
  <2> QED
    BY <2>2, <2>3, <2>4 DEF ReplayInv
<1>9. CASE HeadMoves
  <2>1. eng' = eng \/ \E t \in Int : eng' = SeekUtc(eng, t)
    BY <1>9 DEF HeadMoves
  <2>2. /\ eng'.sid = eng.sid /\ eng'.lines = eng.lines
        /\ eng' # eng /\ eng.sid > None /\ eng.lines # <<>> => eng'.head \in Span[eng.sid][1]..Span[eng.sid][2]
    BY <1>1, <2>1, Sought
  <2>3. mode = "replay" /\ UNCHANGED <<pill, loadToken, loads, loading>>
    BY <1>0, <1>9 DEF HeadMoves
  <2>4. /\ OfOneRecording(eng') /\ \A l \in loads' : Alive(l)' => ReadUpTo(l, eng')
        /\ loading' => pill'.kind \in {"loading", "nolist"}
    BY <1>1, <2>2, <2>3 DEF ReplayInv, OfOneRecording, ReadUpTo, Alive
  <2>5. ASSUME pill'.kind = "ok"
        PROVE  Whole(eng', pill'.id)
    <3>1. Whole(eng, pill.id) /\ pill' = pill /\ OfOneRecording(eng)
      BY <1>1, <2>3, <2>5 DEF ReplayInv
    <3>2. ASSUME Length > 1
          PROVE  eng.sid > None /\ eng.lines # <<>>
      <4>1. PICK n \in Nat : n = Len(eng.lines)
        BY <1>1, LinesAre
      <4>2. n >= 1 /\ 1 \in 1..n
        BY <3>1, <3>2, <4>1, DashAssumption DEF Whole
      <4> QED
        BY <1>1, <3>1, <4>1, <4>2, LinesAre DEF OfOneRecording
    <3> QED
      BY <2>2, <3>1, <3>2 DEF Whole
  <2> QED
    BY <2>4, <2>5 DEF ReplayInv
<1> QED
  BY <1>1, <1>3, <1>4, <1>5, <1>6, <1>7, <1>8, <1>9, StepKinds

LEMMA NoneIsNumber == None \in Nat
  BY DEF None

\* Every variable keeps its type.
LEMMA TypesKept ==
  ASSUME TypeOK, [Next]_vars, eng' \in Engine
  PROVE  TypeOK'
<1> USE DEF TypeOK
<1>1. Length \in Nat \ {0} /\ Times \subseteq Int
  BY DashAssumption
<1>2. /\ Pill("open", None) \in Pills /\ Pill("connecting", None) \in Pills
      /\ Pill("retry", None) \in Pills /\ Pill("replay", None) \in Pills
      /\ Pill("failed", None) \in Pills /\ Pill("nolist", None) \in Pills
  BY DEF Pill, Pills, None
<1>3. ASSUME NEW id \in Recordings
      PROVE  Pill("loading", id) \in Pills /\ Pill("ok", id) \in Pills
  <2>1. id \in Int
    BY <1>3, RecordingsAreListed
  <2> QED
    BY <2>1 DEF Pill, Pills
<1>4. Flags'
  <2>1. CASE UNCHANGED vars \/ Opened \/ FeedRestarts \/ NoList \/ Retry
    BY <2>1, Zenon DEF Flags, vars, Opened, FeedRestarts, NoList, Retry, Connect, socketVars, replayVars
  <2>2. CASE (\E w \in Nat : Closed(w)) \/ Datagram
    BY <2>2, Zenon DEF Flags, Closed, Datagram, FeedBatch, LateBatch, socketVars, replayVars
  <2>3. CASE \E l \in loads : LoadStops(l) \/ LoadFails(l) \/ LoadSlice(l) \/ LoadEnds(l)
    BY <2>3, Zenon DEF Flags, LoadStops, LoadFails, LoadSlice, LoadEnds, socketVars
  <2>4. CASE (\E to \in {"live", "replay"} : SetMode(to)) \/ HeadMoves \/ LoadStarts
    BY <2>4, Zenon DEF Flags, SetMode, Connect, Disconnect, HeadMoves, LoadStarts, StartLoad, socketVars
  <2> HIDE DEF TypeOK
  <2> QED
    BY <2>1, <2>2, <2>3, <2>4, StepKinds
<1>5. pill' \in Pills
  <2>1. CASE UNCHANGED vars \/ FeedRestarts \/ HeadMoves \/ Datagram
    BY <2>1, Zenon DEF vars, FeedRestarts, HeadMoves, Datagram, FeedBatch, LateBatch
  <2>2. CASE Opened \/ NoList \/ Retry \/ \E w \in Nat : Closed(w)
    BY <1>2, <2>2, Zenon DEF Opened, NoList, Retry, Closed
  <2>3. CASE \E l \in loads : LoadStops(l) \/ LoadFails(l) \/ LoadSlice(l) \/ LoadEnds(l)
    <3>1. PICK l \in loads : LoadStops(l) \/ LoadFails(l) \/ LoadSlice(l) \/ LoadEnds(l)
      BY <2>3
    <3>2. Pill("ok", l.id) \in Pills /\ Pill("loading", l.id) \in Pills
      BY <1>3 DEF Loads
    <3>3. CASE LoadSlice(l)
      <4>1. pill' = pill \/ pill' = Pill("loading", l.id)
        BY <3>3, Zenon DEF LoadSlice
      <4> QED
        BY <3>2, <4>1, Zenon
    <3>4. CASE LoadStops(l) \/ LoadFails(l) \/ LoadEnds(l)
      BY <1>2, <3>2, <3>4, Zenon DEF LoadStops, LoadFails, LoadEnds
    <3> QED
      BY <3>1, <3>3, <3>4
  <2>4. CASE \E to \in {"live", "replay"} : SetMode(to)
    BY <1>2, <2>4, Zenon DEF SetMode
  <2>5. CASE LoadStarts
    BY <1>3, <2>5, Zenon DEF LoadStarts, StartLoad
  <2> HIDE DEF TypeOK
  <2> QED
    BY <2>1, <2>2, <2>3, <2>4, <2>5, StepKinds
<1>6. CASE UNCHANGED vars
  BY <1>4, <1>5, <1>6, Zenon DEF vars, socketVars, replayVars
<1>7. CASE Opened
  BY <1>4, <1>5, <1>7 DEF Opened, socketVars, replayVars
<1>8. CASE Retry
  BY <1>4, <1>5, <1>8 DEF Retry, Connect, replayVars
<1>9. CASE FeedRestarts
  <2>1. feed'.sid \in FeedIds
    BY <1>9 DEF FeedRestarts, FeedIds, None
  <2> QED
    BY <1>4, <1>5, <1>9, <2>1 DEF FeedRestarts, socketVars, replayVars
<1>10. CASE NoList
  BY <1>4, <1>5, <1>10 DEF NoList, socketVars
<1>11. CASE \E w \in 1..ws : Closed(w)
  BY <1>4, <1>5, <1>11 DEF Closed, replayVars
<1>12. CASE Datagram
  <2>1. CASE \E arrives \in BOOLEAN : FeedBatch(arrives)
    BY <1>4, <1>5, <2>1 DEF FeedBatch, socketVars, replayVars
  <2>2. CASE \E n \in 1..feed.seq : LateBatch(n)
    BY <1>4, <1>5, <2>2 DEF LateBatch, socketVars, replayVars
  <2> QED
    BY <1>12, <2>1, <2>2 DEF Datagram
<1>13. CASE \E l \in loads : LoadStops(l)
  BY <1>4, <1>5, <1>13 DEF LoadStops, socketVars
<1>14. CASE \E l \in loads : LoadFails(l)
  BY <1>4, <1>5, <1>14 DEF LoadFails, socketVars
<1>15. CASE \E l \in loads : LoadSlice(l)
  <2>1. PICK l \in loads : LoadSlice(l)
    BY <1>15
  <2>2. [l EXCEPT !.next = l.next + 1] \in Loads
    BY <1>1, <2>1 DEF LoadSlice, Loads
  <2> QED
    BY <1>4, <1>5, <2>1, <2>2 DEF LoadSlice, socketVars, Loads
<1>16. CASE \E l \in loads : LoadEnds(l)
  <2>1. PICK l \in loads : LoadEnds(l)
    BY <1>16
  <2>2. l.id \in Recordings
    BY DEF Loads
  <2> QED
    BY <1>4, <1>5, <2>1, <2>2, NoneIsNumber DEF LoadEnds, socketVars
<1>17. ASSUME HeadMoves \/ LoadStarts
       PROVE  /\ loadToken' \in Nat /\ loads' \subseteq Loads
              /\ UNCHANGED <<mode, socketVars, loadedSession, feed>>
  <2>1. CASE HeadMoves
    BY <2>1 DEF HeadMoves
  <2>2. CASE LoadStarts
    <3>1. PICK id \in Recordings : StartLoad(id)
      BY <2>2 DEF LoadStarts
    <3>2. [token |-> loadToken + 1, id |-> id, next |-> 0] \in Loads
      BY <1>1 DEF Loads
    <3> QED
      BY <2>2, <3>1, <3>2 DEF StartLoad, LoadStarts
  <2> QED
    BY <1>17, <2>1, <2>2
<1>18. CASE \E t \in Times : PlaysOn(t)
  <2>1. /\ UNCHANGED <<mode, socketVars, loadToken, loads, lists, sessions, loadedSession>>
        /\ UNCHANGED <<seekAfter, pendingAt, pendingId, feed, clicks, faults>>
    BY <1>18, Zenon DEF PlaysOn
  <2> QED
    BY <1>4, <1>5, <2>1 DEF socketVars
<1>19. CASE ListArrives(Listing)
  <2>1. /\ HeadMoves \/ LoadStarts
        /\ seekAfter' \in {seekAfter, pendingAt} /\ pendingId' \in {pendingId, None}
    BY <1>19, ListArriving
  <2>2. /\ lists' \in Nat /\ sessions' = Listing /\ pendingAt' = None
        /\ UNCHANGED <<clicks, faults>>
    BY <1>19 DEF ListArrives
  <2> QED
    <3>1. seekAfter' \in Int /\ pendingAt' \in Int /\ pendingId' \in Recordings \cup {None, Unlisted}
      BY <2>1, <2>2, NoneIsNumber
    <3>2. loadToken' \in Nat /\ loads' \subseteq Loads /\ UNCHANGED <<mode, socketVars, loadedSession, feed>>
      BY <1>17, <2>1
    <3>3. ws' \in Nat /\ wsState' \in {"none", "connecting", "open"} /\ closing' \subseteq Nat
      BY <3>2 DEF socketVars
    <3>4. lists' \in Nat /\ sessions' \in {<<>>, Listing} /\ clicks' \in Nat /\ faults' \in Nat
      BY <2>2
    <3>5. mode' \in {"live", "replay"} /\ loadedSession' \in Recordings \cup {None} /\ feed' \in [sid : FeedIds, seq : Nat]
      BY <3>2
    <3> QED
      BY <1>4, <1>5, <3>1, <3>2, <3>3, <3>4, <3>5
<1>20. CASE Click
  <2>1. seekAfter' \in {seekAfter} \cup Times /\ clicks' \in Nat
    BY <1>20, Clicking DEF Click
  <2>2. CASE \E to \in {"live", "replay"} : SetMode(to)
    <3>1. PICK to \in {"live", "replay"} : SetMode(to)
      BY <2>2
    <3>2. mode' \in {"live", "replay"} /\ loadToken' \in Nat /\ lists' \in Nat
      BY <3>1 DEF SetMode, NextToken
    <3>3. Connect \/ Disconnect
      BY <3>1 DEF SetMode
    <3>4. ws' \in Nat /\ wsState' \in {"none", "connecting", "open"} /\ closing' \subseteq Nat
      <4>1. closing' \in {closing, closing \cup {ws}} /\ ws' \in {ws, ws + 1}
        BY <3>3 DEF Connect, Disconnect
      <4>2. wsState' \in {"none", "connecting", "open"}
        BY <3>3 DEF Connect, Disconnect
      <4> QED
        BY <4>1, <4>2
    <3>5. seekAfter' \in Int /\ UNCHANGED <<loads, sessions, loadedSession, pendingAt, pendingId, feed, faults>>
      BY <3>1 DEF SetMode
    <3> QED
      BY <1>4, <1>5, <2>1, <3>2, <3>4, <3>5
  <2>3. CASE (\E id \in Recordings : PickSession(id)) \/ (\E t \in Times : GotoTime(t)) \/ TogglePlay
    <3>1. UNCHANGED <<lists, sessions, pendingAt, pendingId, faults>>
      BY <2>3, Zenon DEF PickSession, GotoTime, TogglePlay
    <3>2. HeadMoves \/ LoadStarts
      <4>0. CASE TogglePlay
        BY <4>0, Toggling
      <4>1. CASE \E id \in Recordings : PickSession(id)
        BY <4>1 DEF PickSession, LoadStarts
      <4>2. CASE \E t \in Times : GotoTime(t)
        <5>1. PICK t \in Times : GotoTime(t)
          BY <4>2
        <5>2. t \in Int
          BY <1>1
        <5> QED
          BY <5>1, <5>2, GoingTo DEF GotoTime
      <4> QED
        BY <2>3, <4>0, <4>1, <4>2
    <3> QED
      BY <1>1, <1>4, <1>5, <1>17, <2>1, <3>1, <3>2 DEF socketVars
  <2> QED
    BY <1>20, <2>2, <2>3 DEF Click
<1> QED
  BY <1>6, <1>7, <1>8, <1>9, <1>10, <1>11, <1>12, <1>13, <1>14, <1>15, <1>16, <1>18, <1>19, <1>20 DEF Next

LEMMA InitIInv == Init => IInv
<1> SUFFICES ASSUME Init PROVE IInv
  OBVIOUS
<1>1. TypeOK
  <2>1. Times \subseteq Int /\ None \in Int /\ None \in Nat
    BY DashAssumption DEF None
  <2>2. Pill("connecting", None) \in Pills /\ Pill("replay", None) \in Pills
    BY DEF Pill, Pills, None
  <2>3. Flags /\ pill \in Pills
    BY <2>2, Zenon DEF Init, Flags
  <2> QED
    <3>1. mode \in {"live", "replay"} /\ ws \in Nat /\ wsState \in {"none", "connecting", "open"} /\ lists \in Nat
      BY DEF Init
    <3>2. pendingAt \in Int /\ pendingId \in Recordings \cup {None, Unlisted}
      BY <2>1 DEF Init
    <3>3. closing \subseteq Nat /\ loads \subseteq Loads /\ loadToken \in Nat /\ sessions \in {<<>>, Listing}
      BY DEF Init
    <3>4. loadedSession \in Recordings \cup {None} /\ seekAfter \in Int
      BY <2>1 DEF Init
    <3>5. eng \in Engine /\ feed \in [sid : FeedIds, seq : Nat] /\ clicks \in Nat /\ faults \in Nat
      BY EmptyEngine DEF Init, FeedIds, None
    <3> QED
      BY <2>3, <3>1, <3>2, <3>3, <3>4, <3>5 DEF TypeOK
<1>2. LiveIsTrying /\ LoadsInv
  BY DEF Init, LiveIsTrying, LoadsInv
<1>3. ReplayInv
  <2>1. pill.kind # "ok"
    <3>1. Pill("connecting", None).kind # "ok" /\ Pill("replay", None).kind # "ok"
      BY DEF Pill
    <3> QED
      BY <3>1, Zenon DEF Init
  <2> QED
    BY <2>1, EmptyEngine DEF Init, ReplayInv, OfOneRecording
<1>4. Tally(eng)
  BY EmptyEngine DEF Init
<1> QED
  BY <1>1, <1>2, <1>3, <1>4 DEF IInv

LEMMA NextIInv == IInv /\ [Next]_vars => IInv'
<1> SUFFICES ASSUME IInv, [Next]_vars PROVE IInv'
  OBVIOUS
<1>1. TypeOK /\ LiveIsTrying /\ LoadsInv /\ ReplayInv /\ Tally(eng)
  BY DEF IInv
<1>2. LoadsInv'
  BY <1>1, LoadsKept
<1>3. eng' \in Engine /\ Tally(eng')
  BY <1>1, EngineKept
<1>4. TypeOK'
  BY <1>1, <1>3, TypesKept
<1>5. LiveIsTrying' /\ ReplayInv'
  BY <1>1, <1>2, LiveKept, ReplayKept
<1> QED
  BY <1>2, <1>3, <1>4, <1>5 DEF IInv

-----------------------------------------------------------------------------
\* The invariant holds, whatever the server lists, however long a recording
\* is and however often the page is clicked, refused or restarted.
THEOREM IInvHolds == Spec => []IInv
<1>1. Init => IInv
  BY InitIInv
<1>2. IInv /\ [Next]_vars => IInv'
  BY NextIInv
<1> QED
  BY <1>1, <1>2, PTL DEF Spec

\* ui.loadSession, setMode and the socket's handlers: whatever answers come in
\* whatever order, the page in replay holds one recording from its start and
\* says it is loaded only when it is whole, in live mode is connected or about
\* to be, and what it counts as lost, with lost, late and doubled datagrams,
\* is what did not come in its turn.
THEOREM PageShowsItsSourceHolds == Spec => []PageShowsItsSource
<1>1. IInv => PageShowsItsSource
  BY IInvImplies
<1> QED
  BY <1>1, IInvHolds, PTL
=============================================================================
