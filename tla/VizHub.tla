------------------------------- MODULE VizHub -------------------------------
(***************************************************************************)
(* The live half of the viz server: the UDP task puts what the capture     *)
(* agent sends into the hub, the hub caches the session envelope and       *)
(* broadcasts, and every browser has a task that relays to its WebSocket.  *)
(* The cache has a lock, the broadcast ring has its own, and nothing holds *)
(* both while it publishes; a browser may connect between any two steps.   *)
(* Slots for browsers are counted by an atomic add that is taken back when *)
(* it was one too many.  A browser may stop reading or go away at any      *)
(* moment, and so may the server.                                          *)
(*                                                                         *)
(* A datagram the hub rejects changes a counter and no more, and is left   *)
(* out.  Markers and heartbeats carry no session state; "batch" stands for *)
(* every envelope with a number.  Datagrams may be lost or late, session   *)
(* envelopes come again and again, and those of a run that was replaced do *)
(* not come after its successor's.                                         *)
(***************************************************************************)
EXTENDS Integers, Sequences, FiniteSets

CONSTANTS
    Clients,              \* connections, each tried once
    MaxClients,           \* MAX_WS_CLIENTS
    Capacity,             \* BROADCAST_CAPACITY
    MaxRun,               \* bound: runs of the capture agent
    MaxSeq,               \* bound: numbered envelopes of a run
    MaxFrames             \* bound: frames the hub broadcasts

ASSUME ParametersAssumption ==
    /\ IsFiniteSet(Clients)
    /\ MaxClients \in Nat \ {0} /\ Capacity \in Nat \ {0}
    /\ MaxRun \in Nat \ {0} /\ MaxSeq \in Nat /\ MaxFrames \in Nat

VARIABLES
    agent_run,            \* the capture agent's run, the session's identity
    sent,                 \* all the broadcast channel was ever given
    session,              \* the cached session envelope, at most one
    accepted,             \* the UDP task's frame on its way through publish
    publish,              \* "recv", "cache" or "send"
    tracker,              \* SeqTracker: the session and last number seen
    seq_gaps,             \* stats.seq_gaps
    clients,              \* stats.clients
    pc,                   \* of each client: where its task is
    rx,                   \* its receiver: the next frame of sent
    out,                  \* frames its task is about to send
    peer,                 \* the browser: "reading" or "silent", that is
                          \* stalled or gone without a word
    got,                  \* what the browser was sent, in order
    joined,               \* history: the first frame of its subscription
    greeted,              \* history: catch-up frames it had coming
    stop,                 \* Shutdown: has it fired?
    exited                \* has serve returned?

hubVars == <<sent, session, accepted, publish, tracker, seq_gaps>>
clientVars == <<clients, pc, rx, out, got, joined, greeted>>
vars == <<agent_run, hubVars, clientVars, peer, stop, exited>>

Session(r) == [kind |-> "session", run |-> r, seq |-> 0]
Batch(r, s) == [kind |-> "batch", run |-> r, seq |-> s]
Datagrams == {Session(r) : r \in 1..MaxRun}
             \cup {Batch(r, s) : r \in 1..MaxRun, s \in 1..MaxSeq}
AtMostOne(S) == {<<>>} \cup {<<x>> : x \in S}

Places == {"away", "overfull", "upgrading", "relay", "sending", "closing",
           "gone", "refused"}

\* A client's place under MaxClients is taken from the reservation on.
Live(c) == pc[c] \in {"upgrading", "relay", "sending", "closing"}

TypeOK ==
    /\ agent_run \in 1..MaxRun
    /\ sent \in Seq(Datagrams) /\ session \in AtMostOne(Datagrams)
    /\ accepted \in AtMostOne(Datagrams)
    /\ publish \in {"recv", "cache", "send"}
    /\ tracker \in [run : 0..MaxRun, last : 0..MaxSeq] /\ seq_gaps \in Nat
    /\ clients \in Nat /\ pc \in [Clients -> Places]
    /\ rx \in [Clients -> Nat] /\ joined \in [Clients -> Nat]
    /\ out \in [Clients -> AtMostOne(Datagrams)]
    /\ peer \in [Clients -> {"reading", "silent"}]
    /\ got \in [Clients -> Seq(Datagrams)] /\ greeted \in [Clients -> {0, 1}]
    /\ stop \in BOOLEAN /\ exited \in BOOLEAN

Init ==
    /\ agent_run = 1 /\ sent = <<>> /\ session = <<>>
    /\ accepted = <<>> /\ publish = "recv"
    /\ tracker = [run |-> 0, last |-> 0] /\ seq_gaps = 0
    /\ clients = 0 /\ pc = [c \in Clients |-> "away"]
    /\ rx = [c \in Clients |-> 0] /\ joined = [c \in Clients |-> 0]
    /\ out = [c \in Clients |-> <<>>] /\ got = [c \in Clients |-> <<>>]
    /\ greeted = [c \in Clients |-> 0]
    /\ peer = [c \in Clients |-> "reading"]
    /\ stop = FALSE /\ exited = FALSE

-----------------------------------------------------------------------------
(* The UDP task.  (The stats task's frame is one more in the ring.)        *)

\* What SeqTracker makes of a number: how many are missing before it.  A
\* tracker that is new to the session (last = 0) has no opinion.
TrackerFor(r) == IF tracker.run = r THEN tracker ELSE [run |-> r, last |-> 0]
Missing(t, s) == IF t.last > 0 /\ s > t.last + 1 THEN s - t.last - 1 ELSE 0
\* Faulty variant: a late number moves the tracker back.
ObserveAlways(d) ==
    LET t == TrackerFor(d.run)
    IN  /\ seq_gaps' = seq_gaps + Missing(t, d.seq)
        /\ tracker' = [t EXCEPT !.last = d.seq]
\* SeqTracker::observe: only a higher number is the next to expect after.
Observe(d) ==
    LET t == TrackerFor(d.run)
    IN  /\ seq_gaps' = seq_gaps + Missing(t, d.seq)
        /\ tracker' = [t EXCEPT !.last = IF d.seq > @ THEN d.seq ELSE @]

\* publish_at up to the cache: accepted, and a number observed.  The datagram
\* is of the agent's present run, or the agent was started again.
Receive(d) ==
    /\ ~exited /\ publish = "recv" /\ d.run >= agent_run
    /\ Len(sent) < MaxFrames
    /\ d.kind = "batch" => \A i \in 1..Len(sent) : sent[i] # d
    /\ agent_run' = d.run
    /\ accepted' = <<d>>
    /\ IF d.kind = "batch"
       THEN Observe(d) /\ publish' = "send"
       ELSE UNCHANGED <<seq_gaps, tracker>> /\ publish' = "cache"
    /\ UNCHANGED <<sent, session, clientVars, peer, stop, exited>>

\* A session envelope goes to the cache first, under the cache's lock.
CacheSession ==
    /\ ~exited /\ publish = "cache"
    /\ session' = accepted
    /\ publish' = "send"
    /\ UNCHANGED <<agent_run, sent, accepted, tracker, seq_gaps, clientVars,
                   peer, stop, exited>>

SendFrame ==
    /\ ~exited /\ publish = "send"
    /\ sent' = sent \o accepted
    /\ accepted' = <<>> /\ publish' = "recv"
    /\ UNCHANGED <<agent_run, session, tracker, seq_gaps, clientVars, peer,
                   stop, exited>>

-----------------------------------------------------------------------------
(* A client: ws_upgrade, then client_loop.                                 *)

Goes(c, where) ==
    /\ pc' = [pc EXCEPT ![c] = where]
    /\ UNCHANGED <<agent_run, hubVars, peer, stop, exited>>

Reset(f, S, v) == [c \in Clients |-> IF c \in S THEN v ELSE f[c]]
\* The tasks of S are over: their slots are dropped and all they held.
Over(S, where) ==
    /\ pc' = Reset(pc, S, where)
    /\ rx' = Reset(rx, S, 0) /\ joined' = Reset(joined, S, 0)
    /\ out' = Reset(out, S, <<>>) /\ got' = Reset(got, S, <<>>)
    /\ greeted' = Reset(greeted, S, 0) /\ peer' = Reset(peer, S, "reading")
    /\ UNCHANGED <<agent_run, hubVars, stop>>

\* Faulty variant: one more than there are slots.
ReserveLate(c) ==
    /\ ~exited /\ pc[c] = "away"
    /\ \/ stop /\ Goes(c, "refused") /\ UNCHANGED clients
       \/ /\ ~stop /\ clients' = clients + 1
          /\ Goes(c, IF clients > MaxClients THEN "overfull" ELSE "upgrading")
    /\ UNCHANGED <<rx, out, got, joined, greeted>>
\* try_reserve_client: the increment is the check.
Reserve(c) ==
    /\ ~exited /\ pc[c] = "away"
    /\ \/ stop /\ Goes(c, "refused") /\ UNCHANGED clients
       \/ /\ ~stop /\ clients' = clients + 1
          /\ Goes(c, IF clients >= MaxClients THEN "overfull" ELSE "upgrading")
    /\ UNCHANGED <<rx, out, got, joined, greeted>>

Leave(c, where) ==
    clients' = clients - 1 /\ Over({c}, where) /\ UNCHANGED exited

\* One too many: the increment is taken back.
GiveBack(c) == ~exited /\ pc[c] = "overfull" /\ Leave(c, "refused")

\* The handshake fails, and the callback that owns the slot is dropped unrun.
UpgradeFails(c) == ~exited /\ pc[c] = "upgrading" /\ Leave(c, "refused")

\* Hub::subscribe: the receiver and the cached session under one lock.
Subscribe(c) ==
    /\ ~exited /\ pc[c] = "upgrading"
    /\ joined' = [joined EXCEPT ![c] = Len(sent) + 1]
    /\ rx' = [rx EXCEPT ![c] = Len(sent) + 1]
    /\ out' = [out EXCEPT ![c] = session]
    /\ greeted' = [greeted EXCEPT ![c] = Len(session)]
    /\ Goes(c, IF session = <<>> THEN "relay" ELSE "sending")
    /\ UNCHANGED <<clients, got>>

\* send_bounded of what is in hand goes through ...
Sent(c) ==
    /\ ~exited /\ pc[c] = "sending" /\ peer[c] = "reading"
    /\ got' = [got EXCEPT ![c] = @ \o out[c]]
    /\ out' = [out EXCEPT ![c] = <<>>]
    /\ Goes(c, "relay")
    /\ UNCHANGED <<clients, rx, joined, greeted>>

\* Faulty variant: the send has no deadline.
SendWaits(c) ==
    ~exited /\ pc[c] = "sending" /\ peer[c] # "reading" /\ UNCHANGED vars
\* ... or the peer is gone, or does not read for WS_SEND_TIMEOUT.
SendFails(c) ==
    /\ ~exited /\ pc[c] = "sending" /\ peer[c] # "reading"
    /\ Leave(c, "gone")

Lagging(c) == rx[c] + Capacity <= Len(sent)

\* The next broadcast frame.
Receives(c) ==
    /\ ~exited /\ pc[c] = "relay" /\ rx[c] <= Len(sent) /\ ~Lagging(c)
    /\ out' = [out EXCEPT ![c] = <<sent[rx[c]]>>]
    /\ rx' = [rx EXCEPT ![c] = @ + 1]
    /\ Goes(c, "sending")
    /\ UNCHANGED <<clients, got, joined, greeted>>

\* Faulty variant: it goes on with what is left.
LaggedSkips(c) ==
    /\ ~exited /\ pc[c] = "relay" /\ Lagging(c)
    /\ rx' = [rx EXCEPT ![c] = Len(sent) - Capacity + 1]
    /\ Goes(c, "relay")
    /\ UNCHANGED <<clients, out, got, joined, greeted>>
\* The channel overwrote what this client had not read: it is sent away, and
\* its receiver, if it were used again, would begin at the oldest frame left.
Lagged(c) ==
    /\ ~exited /\ pc[c] = "relay" /\ Lagging(c)
    /\ rx' = [rx EXCEPT ![c] = Len(sent) - Capacity + 1]
    /\ Goes(c, "closing")
    /\ UNCHANGED <<clients, out, got, joined, greeted>>

\* The browser closed, or a ping found that it does not read.
PeerLost(c) ==
    /\ ~exited /\ pc[c] = "relay" /\ peer[c] # "reading"
    /\ Leave(c, "gone")

\* The shutdown arm of the relay's select.
SaysGoodbye(c) ==
    /\ ~exited /\ pc[c] = "relay" /\ stop
    /\ Goes(c, "closing")
    /\ UNCHANGED <<clients, rx, out, got, joined, greeted>>

\* The Close frame went out, or did not: either way the task ends.
Closes(c) == ~exited /\ pc[c] = "closing" /\ Leave(c, "gone")

Task(c) ==
    \/ GiveBack(c) \/ Subscribe(c) \/ UpgradeFails(c)
    \/ Sent(c) \/ SendFails(c)
    \/ Receives(c) \/ Lagged(c) \/ PeerLost(c) \/ SaysGoodbye(c) \/ Closes(c)

\* The browser, at any moment.
PeerChanges(c) ==
    /\ ~exited /\ Live(c)
    /\ peer' = [peer EXCEPT ![c] = IF @ = "silent" THEN "reading" ELSE "silent"]
    /\ UNCHANGED <<agent_run, hubVars, clientVars, stop, exited>>

-----------------------------------------------------------------------------
(* Stopping.                                                               *)

Fire ==
    /\ ~stop /\ stop' = TRUE
    /\ UNCHANGED <<agent_run, hubVars, clientVars, peer, exited>>

\* Every connection closed, or SHUTDOWN_DEADLINE is over: the runtime goes
\* and with it every task that is left.
Exit ==
    /\ stop /\ ~exited
    /\ exited' = TRUE
    /\ clients' = 0 /\ Over({c \in Clients : Live(c)}, "gone")

Publishes == CacheSession \/ SendFrame

Next ==
    \/ (\E d \in Datagrams : Receive(d)) \/ Publishes
    \/ \E c \in Clients : Reserve(c) \/ Task(c) \/ PeerChanges(c)
    \/ Fire \/ Exit

\* Tasks run and their sends are bounded; serve returns at its deadline.
Fairness ==
    /\ WF_vars(Publishes) /\ WF_vars(Exit)
    /\ \A c \in Clients : WF_vars(Task(c))

Spec == Init /\ [][Next]_vars /\ Fairness

-----------------------------------------------------------------------------
(* Properties.                                                             *)

Subscribed(c) == joined[c] > 0

\* What the i-th frame a client got was to the channel.
PositionOf(c, i) == joined[c] + i - greeted[c] - 1

\* A browser sees what was broadcast from its subscription on, without a
\* hole: one that missed a frame is sent away rather than served on.
NoHoles ==
    \A c \in Clients : \A i \in greeted[c] + 1..Len(got[c]) :
        got[c][i] = sent[PositionOf(c, i)]

\* A browser that gets a batch knows its session, if the hub does: the
\* session envelope went to that browser before.
SessionFirst ==
    \A c \in Clients : \A i \in greeted[c] + 1..Len(got[c]) :
        got[c][i].kind = "batch"
        /\ (\E k \in 1..PositionOf(c, i) : sent[k] = Session(got[c][i].run))
        => \E j \in 1..i : got[c][j] = Session(got[c][i].run)

\* SAFETY: a browser's view is sound, whenever it connects and however the
\* publisher's cache and send interleave with its subscription.
ViewIsSound == NoHoles /\ SessionFirst

\* SAFETY: the slots are never overcommitted, and the counter is exactly the
\* tasks alive and the attempts about to be refused (try_reserve_client).
SlotsAreSound ==
    /\ TypeOK
    /\ Cardinality({c \in Clients : Live(c)}) <= MaxClients
    /\ ~exited =>
         clients = Cardinality({c \in Clients : Live(c) \/ pc[c] = "overfull"})

\* The numbered envelopes of a run, and those of them that were higher than
\* all before.
Log == sent \o accepted
BatchesOf(r) == {i \in 1..Len(Log) : Log[i].kind = "batch" /\ Log[i].run = r}
Rises(r) == {i \in BatchesOf(r) :
               \A j \in BatchesOf(r) : j < i => Log[j].seq < Log[i].seq}
Skipped == {n \in (1..MaxRun) \X (1..MaxSeq) :
              /\ \E i, j \in Rises(n[1]) :
                     Log[i].seq < n[2] /\ n[2] < Log[j].seq
              /\ \A i \in Rises(n[1]) : Log[i].seq # n[2]}

\* SAFETY: seq_gaps counts every number that did not come in its turn since
\* the first of its run, each once, however datagrams are lost or late;
\* a restarted agent costs nothing (SeqTracker).
GapsAreExact == seq_gaps = Cardinality(Skipped)

\* LIVENESS: every frame reaches each browser that keeps reading or its task
\* is over; one that does not read holds its slot for a time only; and after
\* a stop no slot is held.
EveryFrameSettles ==
    /\ \A c \in Clients : []<>(rx[c] > Len(sent) \/ ~Live(c) \/ ~Subscribed(c))
    /\ \A c \in Clients : <>[]Live(c) => []<>(peer[c] = "reading")
    /\ stop ~> \A c \in Clients : ~Live(c)
=============================================================================
