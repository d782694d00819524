----------------------------- MODULE VizHubProofs -----------------------------
(***************************************************************************)
(* Proofs about VizHub, for any number of browsers, slots, frames and runs: *)
(* the slots are never overcommitted, a browser's view has no hole and      *)
(* knows its session, and the gaps counted are the numbers that are missing. *)
(***************************************************************************)
EXTENDS VizHub, SequenceTheorems, FiniteSetTheorems, TLAPS

\* One frame at a time is on its way, and a session envelope is cached before
\* it is sent.
PublishIsOrdered ==
    /\ publish = "recv" <=> accepted = <<>>
    /\ publish = "cache" => accepted[1].kind = "session"
    /\ publish = "send" /\ accepted[1].kind = "session" => session = accepted
    /\ accepted # <<>> => accepted[1].run = agent_run

\* The cache holds the session of the latest run that told one.
CacheIsLatest ==
    /\ session # <<>> => session[1].kind = "session" /\ session[1].run <= agent_run
    /\ \A i \in 1..Len(sent) : sent[i].kind = "session" =>
         session # <<>> /\ sent[i].run <= session[1].run

\* What was read of the channel, in order, is what the browser got and what is
\* in hand; a browser that is sent away has got no more than that.
RelayIsOpen(c) ==
    /\ pc[c] \in {"relay", "sending", "closing"} <=> joined[c] > 0
    /\ joined[c] = 0 => got[c] = <<>>
RelayIsInOrder(c) ==
    joined[c] > 0 =>
      /\ joined[c] <= rx[c] /\ rx[c] <= Len(sent) + 1
      /\ Len(got[c]) <= greeted[c] + Len(sent) + 1 - joined[c]
      /\ pc[c] # "closing" =>
           Len(got[c]) + Len(out[c]) = greeted[c] + rx[c] - joined[c]
HandIsExact(c) ==
    /\ pc[c] \in {"relay", "closing"} => out[c] = <<>>
    /\ pc[c] = "sending" => out[c] # <<>>
    /\ pc[c] = "sending" /\ rx[c] > joined[c] => out[c] = <<sent[rx[c] - 1]>>
RelayIsExact(c) == RelayIsOpen(c) /\ RelayIsInOrder(c) /\ HandIsExact(c)

\* NoHoles, of one browser.
NoHolesOf(c) ==
    \A i \in greeted[c] + 1..Len(got[c]) : got[c][i] = sent[PositionOf(c, i)]

\* The session a greeted browser was told of.
Greeting(c) == IF got[c] = <<>> THEN out[c][1] ELSE got[c][1]

\* It is the latest one of those from before the subscription, and no older
\* frame came since.
GreetingIsLatest(c) ==
    joined[c] > 0 =>
      /\ \A k \in 1..Len(sent) : k < joined[c] /\ sent[k].kind = "session" =>
           greeted[c] = 1 /\ sent[k].run <= Greeting(c).run
      /\ greeted[c] = 1 =>
           /\ got[c] # <<>> \/ out[c] # <<>>
           /\ Greeting(c).kind = "session"
           /\ Greeting(c).run <= agent_run
           /\ \A k \in 1..Len(sent) : k >= joined[c] => Greeting(c).run <= sent[k].run

\* The slots.
LiveOnes == {c \in Clients : Live(c)}
Occupied == {c \in Clients : Live(c) \/ pc[c] = "overfull"}
SlotsAreCounted ==
    /\ Cardinality(LiveOnes) <= MaxClients
    /\ ~exited => clients = Cardinality(Occupied)

\* The tracker knows the latest run with a number, and its highest.
TrackerIsLatest ==
    /\ \A i \in 1..Len(Log) : Log[i].kind = "batch" => Log[i].run <= tracker.run
    /\ tracker.run <= agent_run
    /\ tracker.last = 0 <=> tracker.run = 0
    /\ tracker.last > 0 => \E i \in Rises(tracker.run) : Log[i].seq = tracker.last
    /\ \A i \in BatchesOf(tracker.run) : Log[i].seq <= tracker.last

IInv ==
    /\ TypeOK
    /\ PublishIsOrdered /\ CacheIsLatest
    /\ \A c \in Clients : RelayIsExact(c) /\ NoHolesOf(c) /\ GreetingIsLatest(c)
    /\ SlotsAreCounted
    /\ TrackerIsLatest /\ GapsAreExact

-----------------------------------------------------------------------------
(* Datagrams, and what is at most one of them.                             *)

LEMMA OneOrNone ==
  ASSUME NEW S, NEW o \in AtMostOne(S)
  PROVE  /\ o \in Seq(S)
         /\ o = <<>> <=> Len(o) = 0
         /\ Len(o) \in {0, 1}
         /\ o # <<>> => Len(o) = 1 /\ o[1] \in S /\ o = <<o[1]>>
<1>1. CASE o = <<>>
  BY <1>1
<1>2. ASSUME NEW x \in S, o = <<x>>
      PROVE  o \in Seq(S) /\ Len(o) = 1 /\ o[1] = x /\ o # <<>>
  BY <1>2
<1> QED
  BY <1>1, <1>2 DEF AtMostOne

LEMMA DatagramKinds ==
  ASSUME NEW d \in Datagrams
  PROVE  /\ d.run \in 1..MaxRun /\ d.seq \in 0..MaxSeq
         /\ d.kind \in {"session", "batch"}
         /\ d.kind = "session" => d = Session(d.run)
         /\ d.kind = "batch" => d.seq \in 1..MaxSeq
BY ParametersAssumption DEF Datagrams, Session, Batch, ParametersAssumption

-----------------------------------------------------------------------------
(* Types.                                                                  *)

LEMMA TypeInit == Init => TypeOK
<1> SUFFICES ASSUME Init PROVE TypeOK
  OBVIOUS
<1>1. <<>> \in AtMostOne(Datagrams)
  BY DEF AtMostOne
<1>2. tracker \in [run : 0..MaxRun, last : 0..MaxSeq] /\ agent_run \in 1..MaxRun
  BY ParametersAssumption DEF Init, ParametersAssumption
<1>3. <<>> \in Seq(Datagrams)
  OBVIOUS
<1> QED
  BY <1>1, <1>2, <1>3 DEF Init, TypeOK, Places

\* The publisher's steps.
LEMMA HubType ==
  ASSUME TypeOK, (\E d \in Datagrams : Receive(d)) \/ Publishes
  PROVE  TypeOK'
<1>1. UNCHANGED <<clientVars, peer, stop, exited>>
  BY DEF Receive, Publishes, CacheSession, SendFrame
<1>2. agent_run' \in 1..MaxRun /\ accepted' \in AtMostOne(Datagrams)
  BY DatagramKinds DEF TypeOK, Receive, Publishes, CacheSession, SendFrame, AtMostOne
<1>3. /\ session' \in AtMostOne(Datagrams)
      /\ publish' \in {"recv", "cache", "send"}
  BY DEF TypeOK, Receive, Publishes, CacheSession, SendFrame
<1>4. sent' \in Seq(Datagrams)
  <2>1. CASE SendFrame
    <3>1. accepted \in Seq(Datagrams)
      BY OneOrNone DEF TypeOK
    <3> QED
      BY <2>1, <3>1 DEF SendFrame, TypeOK
  <2> QED
    BY <2>1 DEF Receive, Publishes, CacheSession, TypeOK
<1>5. tracker' \in [run : 0..MaxRun, last : 0..MaxSeq] /\ seq_gaps' \in Nat
  <2>1. ASSUME NEW d \in Datagrams, Observe(d)
        PROVE  tracker' \in [run : 0..MaxRun, last : 0..MaxSeq] /\ seq_gaps' \in Nat
    <3> DEFINE t == TrackerFor(d.run)
    <3>1. d.run \in 1..MaxRun /\ d.seq \in 0..MaxSeq
      BY DatagramKinds
    <3>2. t \in [run : 0..MaxRun, last : 0..MaxSeq]
      BY <3>1, ParametersAssumption DEF TrackerFor, TypeOK, ParametersAssumption
    <3>3. /\ tracker' = [t EXCEPT !.last = IF d.seq > @ THEN d.seq ELSE @]
          /\ seq_gaps' = seq_gaps + Missing(t, d.seq)
      BY <2>1 DEF Observe
    <3> HIDE DEF t
    <3>4. Missing(t, d.seq) \in Nat
      BY <3>1, <3>2, ParametersAssumption DEF Missing, ParametersAssumption
    <3>5. seq_gaps' \in Nat
      BY <3>3, <3>4 DEF TypeOK
    <3>6. (IF d.seq > t.last THEN d.seq ELSE t.last) \in 0..MaxSeq
      BY <3>1, <3>2
    <3> QED
      BY <3>2, <3>3, <3>5, <3>6
  <2> QED
    BY <2>1 DEF Receive, Publishes, CacheSession, SendFrame, TypeOK
<1> QED
  BY <1>1, <1>2, <1>3, <1>4, <1>5 DEF TypeOK, clientVars

\* A task's own step that leaves it alive.
Stays(c) ==
    \/ Subscribe(c) \/ Sent(c) \/ Receives(c) \/ Lagged(c) \/ SaysGoodbye(c)

\* A task that ends, or an attempt taken back.
Ends(c) ==
    /\ ~exited /\ pc[c] \in {"overfull", "upgrading", "sending", "relay", "closing"}
    /\ \E where \in {"gone", "refused"} : Leave(c, where)

LEMMA TaskSteps ==
  ASSUME NEW c \in Clients, Task(c)
  PROVE  Stays(c) \/ Ends(c)
BY DEF Task, Stays, Ends, GiveBack, UpgradeFails, SendFails, PeerLost, Closes

LEMMA StaysType ==
  ASSUME TypeOK, NEW c \in Clients, RelayIsExact(c), Stays(c)
  PROVE  TypeOK'
<1>1. UNCHANGED <<agent_run, hubVars, peer, stop, exited, clients>>
  BY DEF Stays, Subscribe, Sent, Receives, Lagged, SaysGoodbye, Goes
<1>2. pc' \in [Clients -> Places]
  BY DEF Stays, Subscribe, Sent, Receives, Lagged, SaysGoodbye, Goes, TypeOK, Places
<1>3. sent \in Seq(Datagrams) /\ Len(sent) \in Nat
  BY DEF TypeOK
<1>4. rx' \in [Clients -> Nat] /\ joined' \in [Clients -> Nat]
  <2>1. CASE Lagged(c)
    <3>1. Len(sent) - Capacity + 1 \in Nat
      BY <1>3, <2>1, ParametersAssumption
      DEF Lagged, Lagging, TypeOK, ParametersAssumption
    <3> QED
      BY <2>1, <3>1 DEF Lagged, TypeOK
  <2>2. CASE Subscribe(c)
    BY <1>3, <2>2 DEF Subscribe, TypeOK
  <2> QED
    BY <2>1, <2>2 DEF Stays, Sent, Receives, SaysGoodbye, TypeOK
<1>5. greeted' \in [Clients -> {0, 1}]
  <2>1. Len(session) \in {0, 1}
    BY OneOrNone DEF TypeOK
  <2> QED
    BY <2>1 DEF Stays, Subscribe, Sent, Receives, Lagged, SaysGoodbye, TypeOK
<1>6. out' \in [Clients -> AtMostOne(Datagrams)]
  <2>1. <<>> \in AtMostOne(Datagrams) /\ session \in AtMostOne(Datagrams)
    BY DEF AtMostOne, TypeOK
  <2>2. Receives(c) => <<sent[rx[c]]>> \in AtMostOne(Datagrams)
    <3> SUFFICES ASSUME Receives(c) PROVE <<sent[rx[c]]>> \in AtMostOne(Datagrams)
      OBVIOUS
    <3>1. rx[c] \in Nat /\ rx[c] <= Len(sent) /\ rx[c] + Capacity > Len(sent)
      BY <1>3, ParametersAssumption DEF Receives, Lagging, TypeOK, ParametersAssumption
    <3>2. rx[c] \in 1..Len(sent)
      BY <3>1 DEF RelayIsExact, RelayIsOpen, RelayIsInOrder, Receives, TypeOK
    <3>3. sent[rx[c]] \in Datagrams
      BY <1>3, <3>2
    <3> QED
      BY <3>3 DEF AtMostOne
  <2> QED
    BY <2>1, <2>2 DEF Stays, Subscribe, Sent, Receives, Lagged, SaysGoodbye, TypeOK
<1>7. got' \in [Clients -> Seq(Datagrams)]
  <2>1. got[c] \in Seq(Datagrams) /\ out[c] \in Seq(Datagrams)
    BY OneOrNone DEF TypeOK
  <2>2. got[c] \o out[c] \in Seq(Datagrams)
    BY <2>1
  <2> QED
    BY <2>2 DEF Stays, Subscribe, Sent, Receives, Lagged, SaysGoodbye, TypeOK
<1> QED
  BY <1>1, <1>2, <1>4, <1>5, <1>6, <1>7 DEF TypeOK, hubVars

LEMMA OverType ==
  ASSUME TypeOK, NEW S \in SUBSET Clients, NEW where \in {"gone", "refused"},
         Over(S, where), clients' \in Nat, exited' \in BOOLEAN
  PROVE  TypeOK'
<1>1. UNCHANGED <<agent_run, hubVars, stop>>
  BY DEF Over
<1>2. pc' \in [Clients -> Places] /\ peer' \in [Clients -> {"reading", "silent"}]
  BY DEF Over, Reset, TypeOK, Places
<1>3. /\ rx' \in [Clients -> Nat] /\ joined' \in [Clients -> Nat]
      /\ greeted' \in [Clients -> {0, 1}]
  BY DEF Over, Reset, TypeOK
<1>4. /\ <<>> \in AtMostOne(Datagrams) /\ <<>> \in Seq(Datagrams)
  BY DEF AtMostOne
<1>5. out' \in [Clients -> AtMostOne(Datagrams)] /\ got' \in [Clients -> Seq(Datagrams)]
  BY <1>4 DEF Over, Reset, TypeOK
<1> QED
  BY <1>1, <1>2, <1>3, <1>5 DEF TypeOK, hubVars

LEMMA ReserveType ==
  ASSUME TypeOK, NEW c \in Clients, Reserve(c)
  PROVE  TypeOK'
<1>1. UNCHANGED <<agent_run, hubVars, peer, stop, exited, rx, out, got, joined, greeted>>
  BY DEF Reserve, Goes
<1>2. clients' \in Nat
  BY DEF Reserve, TypeOK
<1>3. \E where \in Places : pc' = [pc EXCEPT ![c] = where]
  BY DEF Reserve, Goes, Places
<1>4. pc' \in [Clients -> Places]
  BY <1>3 DEF TypeOK
<1> QED
  BY <1>1, <1>2, <1>4 DEF TypeOK, hubVars

-----------------------------------------------------------------------------
(* The slots.                                                              *)

LivePlaces == {"upgrading", "relay", "sending", "closing"}

LEMMA SlotsAreFinite ==
  ASSUME TypeOK
  PROVE  /\ IsFiniteSet(LiveOnes) /\ IsFiniteSet(Occupied)
         /\ Cardinality(LiveOnes) \in Nat /\ Cardinality(Occupied) \in Nat
         /\ Cardinality(LiveOnes) <= Cardinality(Occupied)
<1>1. LiveOnes \subseteq Clients /\ Occupied \subseteq Clients /\ LiveOnes \subseteq Occupied
  BY DEF LiveOnes, Occupied
<1>2. IsFiniteSet(LiveOnes) /\ IsFiniteSet(Occupied)
  BY <1>1, FS_Subset, ParametersAssumption DEF ParametersAssumption
<1>3. Cardinality(LiveOnes) <= Cardinality(Occupied)
  BY <1>1, <1>2, FS_Subset
<1> QED
  BY <1>2, <1>3, FS_CardinalityType

\* A set's size with and without one of its members.
Counted(with, had, n) ==
    IF with THEN (IF had THEN n ELSE n + 1) ELSE (IF had THEN n - 1 ELSE n)

\* What one task's move does to the slots.
LEMMA OneMoves ==
  ASSUME TypeOK, NEW c \in Clients, NEW where \in Places,
         pc' = [pc EXCEPT ![c] = where]
  PROVE  /\ Cardinality(LiveOnes') =
              Counted(where \in LivePlaces, c \in LiveOnes, Cardinality(LiveOnes))
         /\ Cardinality(Occupied') =
              Counted(where \in LivePlaces \cup {"overfull"}, c \in Occupied,
                    Cardinality(Occupied))
<1> DEFINE Taken == where \in LivePlaces \cup {"overfull"}
<1>2. LiveOnes' = IF where \in LivePlaces THEN LiveOnes \cup {c} ELSE LiveOnes \ {c}
  BY DEF LiveOnes, Live, LivePlaces, TypeOK
<1>3. Occupied' = IF Taken THEN Occupied \cup {c} ELSE Occupied \ {c}
  BY DEF Occupied, Live, LivePlaces, TypeOK
<1>4. /\ Cardinality(LiveOnes \cup {c}) =
           IF c \in LiveOnes THEN Cardinality(LiveOnes) ELSE Cardinality(LiveOnes) + 1
      /\ Cardinality(Occupied \cup {c}) =
           IF c \in Occupied THEN Cardinality(Occupied) ELSE Cardinality(Occupied) + 1
  BY SlotsAreFinite, FS_AddElement
<1>5. /\ Cardinality(LiveOnes \ {c}) =
           IF c \in LiveOnes THEN Cardinality(LiveOnes) - 1 ELSE Cardinality(LiveOnes)
      /\ Cardinality(Occupied \ {c}) =
           IF c \in Occupied THEN Cardinality(Occupied) - 1 ELSE Cardinality(Occupied)
  BY SlotsAreFinite, FS_RemoveElement
<1> QED
  BY <1>2, <1>3, <1>4, <1>5 DEF Counted

\* A member counts.
LEMMA OneIsThere ==
  ASSUME NEW S, NEW c \in S, IsFiniteSet(S)
  PROVE  Cardinality(S) >= 1
<1>1. Cardinality(S) \in Nat /\ Cardinality(S) # 0
  BY FS_CardinalityType, FS_EmptySet
<1> QED
  BY <1>1

LEMMA ReserveSlots ==
  ASSUME TypeOK, SlotsAreCounted, NEW c \in Clients, Reserve(c)
  PROVE  SlotsAreCounted'
<1>1. c \notin LiveOnes /\ c \notin Occupied /\ ~exited /\ exited' = exited
  BY DEF Reserve, LiveOnes, Occupied, Live, Goes
<1>2. /\ clients = Cardinality(Occupied) /\ clients \in Nat
      /\ Cardinality(LiveOnes) <= clients /\ Cardinality(LiveOnes) \in Nat
      /\ Cardinality(LiveOnes) <= MaxClients /\ MaxClients \in Nat
  BY <1>1, SlotsAreFinite, ParametersAssumption DEF SlotsAreCounted, TypeOK, ParametersAssumption
<1>3. CASE stop
  <2>1. clients' = clients /\ pc' = [pc EXCEPT ![c] = "refused"]
    BY <1>3 DEF Reserve, Goes
  <2>2. Cardinality(LiveOnes') = Cardinality(LiveOnes) /\ Cardinality(Occupied') = Cardinality(Occupied)
    BY <1>1, <2>1, OneMoves DEF Counted, LivePlaces, Places
  <2> QED
    BY <1>2, <2>1, <2>2 DEF SlotsAreCounted
<1>4. CASE ~stop /\ clients >= MaxClients
  <2>1. clients' = clients + 1 /\ pc' = [pc EXCEPT ![c] = "overfull"]
    BY <1>4 DEF Reserve, Goes
  <2>2. /\ Cardinality(LiveOnes') = Cardinality(LiveOnes)
        /\ Cardinality(Occupied') = Cardinality(Occupied) + 1
    BY <1>1, <2>1, OneMoves DEF Counted, LivePlaces, Places
  <2> QED
    BY <1>2, <2>1, <2>2 DEF SlotsAreCounted
<1>5. CASE ~stop /\ ~(clients >= MaxClients)
  <2>1. clients' = clients + 1 /\ pc' = [pc EXCEPT ![c] = "upgrading"]
    BY <1>5 DEF Reserve, Goes
  <2>2. /\ Cardinality(LiveOnes') = Cardinality(LiveOnes) + 1
        /\ Cardinality(Occupied') = Cardinality(Occupied) + 1
    BY <1>1, <2>1, OneMoves DEF Counted, LivePlaces, Places
  <2> QED
    BY <1>2, <1>5, <2>1, <2>2 DEF SlotsAreCounted
<1> QED
  BY <1>3, <1>4, <1>5

LEMMA StaysSlots ==
  ASSUME TypeOK, SlotsAreCounted, NEW c \in Clients, Stays(c)
  PROVE  SlotsAreCounted'
<1>1. c \in LiveOnes /\ c \in Occupied /\ clients' = clients /\ exited' = exited
  BY DEF Stays, Subscribe, Sent, Receives, Lagged, SaysGoodbye, LiveOnes, Occupied,
         Live, Goes
<1>2. \E where \in LivePlaces : pc' = [pc EXCEPT ![c] = where]
  BY DEF Stays, Subscribe, Sent, Receives, Lagged, SaysGoodbye, Goes, LivePlaces
<1>3. Cardinality(LiveOnes') = Cardinality(LiveOnes) /\ Cardinality(Occupied') = Cardinality(Occupied)
  BY <1>1, <1>2, OneMoves DEF Counted, LivePlaces, Places
<1> QED
  BY <1>1, <1>3 DEF SlotsAreCounted

LEMMA EndsSlots ==
  ASSUME TypeOK, SlotsAreCounted, NEW c \in Clients, Ends(c)
  PROVE  SlotsAreCounted' /\ clients' \in Nat
<1> PICK where \in {"gone", "refused"} : Leave(c, where)
  BY DEF Ends
<1>1. ~exited /\ exited' = exited /\ clients' = clients - 1
  BY DEF Leave, Ends
<1>2. c \in Occupied
  BY DEF Ends, Occupied, Live
<1>3. pc' = [pc EXCEPT ![c] = where]
  BY DEF Leave, Over, Reset, TypeOK
<1>4. /\ Cardinality(LiveOnes') <= Cardinality(LiveOnes) /\ Cardinality(LiveOnes') \in Int
      /\ Cardinality(Occupied') = Cardinality(Occupied) - 1
  <2>1. where \in Places /\ where \notin LivePlaces /\ where # "overfull"
    BY DEF Places, LivePlaces
  <2>2. /\ Cardinality(LiveOnes') = Counted(FALSE, c \in LiveOnes, Cardinality(LiveOnes))
        /\ Cardinality(Occupied') = Counted(FALSE, TRUE, Cardinality(Occupied))
    BY <1>2, <1>3, <2>1, OneMoves DEF Counted
  <2> QED
    BY <2>2, SlotsAreFinite DEF Counted
<1>5. Cardinality(Occupied) >= 1
  BY <1>2, OneIsThere, SlotsAreFinite
<1> QED
  BY <1>1, <1>4, <1>5, SlotsAreFinite, ParametersAssumption
  DEF SlotsAreCounted, ParametersAssumption

LEMMA ExitSlots ==
  ASSUME TypeOK, SlotsAreCounted, Exit
  PROVE  SlotsAreCounted'
<1>1. exited' = TRUE /\ pc' = Reset(pc, LiveOnes, "gone")
  BY DEF Exit, Over, LiveOnes
<1>2. LiveOnes' = {}
  BY <1>1 DEF LiveOnes, Live, Reset
<1> QED
  BY <1>1, <1>2, FS_EmptySet, ParametersAssumption DEF SlotsAreCounted, ParametersAssumption

-----------------------------------------------------------------------------
(* Every step keeps the types and the slots.                               *)

LEMMA EndsType ==
  ASSUME TypeOK, SlotsAreCounted, NEW c \in Clients, Ends(c)
  PROVE  TypeOK'
<1> PICK where \in {"gone", "refused"} : Leave(c, where)
  BY DEF Ends
<1>1. clients' \in Nat
  BY EndsSlots
<1>2. Over({c}, where) /\ exited' = exited
  BY DEF Leave
<1> QED
  BY <1>1, <1>2, OverType DEF TypeOK

LEMMA StepKeepsSlots ==
  ASSUME TypeOK, SlotsAreCounted, \A c \in Clients : RelayIsExact(c), [Next]_vars
  PROVE  TypeOK' /\ SlotsAreCounted'
<1>1. ASSUME (\E d \in Datagrams : Receive(d)) \/ Publishes
      PROVE  TypeOK' /\ SlotsAreCounted'
  <2>1. UNCHANGED <<clients, pc, exited>>
    BY <1>1 DEF Receive, Publishes, CacheSession, SendFrame, clientVars
  <2> QED
    BY <1>1, <2>1, HubType DEF SlotsAreCounted, LiveOnes, Occupied, Live
<1>2. ASSUME NEW c \in Clients, Reserve(c) PROVE TypeOK' /\ SlotsAreCounted'
  BY <1>2, ReserveType, ReserveSlots
<1>3. ASSUME NEW c \in Clients, Task(c) PROVE TypeOK' /\ SlotsAreCounted'
  BY <1>3, TaskSteps, StaysType, StaysSlots, EndsType, EndsSlots
<1>4. ASSUME NEW c \in Clients, PeerChanges(c) PROVE TypeOK' /\ SlotsAreCounted'
  <2>1. peer' \in [Clients -> {"reading", "silent"}]
    BY <1>4 DEF PeerChanges, TypeOK
  <2>2. UNCHANGED <<agent_run, hubVars, clientVars, stop, exited>>
    BY <1>4 DEF PeerChanges
  <2>3. TypeOK'
    BY <2>1, <2>2 DEF TypeOK, hubVars, clientVars
  <2> QED
    BY <2>2, <2>3 DEF SlotsAreCounted, LiveOnes, Occupied, Live, clientVars
<1>5. CASE Fire
  <2>1. TypeOK'
    BY <1>5 DEF Fire, TypeOK, hubVars, clientVars
  <2> QED
    BY <1>5, <2>1 DEF Fire, clientVars, SlotsAreCounted, LiveOnes, Occupied, Live
<1>6. CASE Exit
  <2>1. TypeOK'
    <3>1. /\ {c \in Clients : Live(c)} \in SUBSET Clients
          /\ Over({c \in Clients : Live(c)}, "gone")
          /\ clients' = 0 /\ exited' = TRUE
      BY <1>6 DEF Exit
    <3> QED
      BY <3>1, OverType
  <2> QED
    BY <1>6, <2>1, ExitSlots
<1>7. CASE UNCHANGED vars
  <2>1. TypeOK'
    BY <1>7 DEF vars, TypeOK, hubVars, clientVars
  <2> QED
    BY <1>7, <2>1 DEF vars, clientVars, SlotsAreCounted, LiveOnes, Occupied, Live
<1> QED
  BY <1>1, <1>2, <1>3, <1>4, <1>5, <1>6, <1>7 DEF Next

-----------------------------------------------------------------------------
(* What a browser is told.                                                 *)

RelayInv(c) == RelayIsExact(c) /\ NoHolesOf(c) /\ GreetingIsLatest(c)

LEMMA PublisherSteps ==
  ASSUME TypeOK, PublishIsOrdered, (\E d \in Datagrams : Receive(d)) \/ Publishes
  PROVE  /\ agent_run' \in Nat /\ agent_run <= agent_run'
         /\ \/ sent' = sent
            \/ /\ publish = "send" /\ accepted # <<>> /\ session' = session
               /\ agent_run' = agent_run
               /\ accepted[1] \in Datagrams /\ accepted[1].run = agent_run
               /\ Len(sent') = Len(sent) + 1 /\ sent'[Len(sent) + 1] = accepted[1]
               /\ \A k \in 1..Len(sent) : sent'[k] = sent[k]
<1>1. CASE SendFrame
  <2>1. publish = "send" /\ accepted # <<>>
    BY <1>1 DEF SendFrame, PublishIsOrdered, TypeOK
  <2>2. accepted[1] \in Datagrams /\ accepted = <<accepted[1]>>
    BY <2>1, OneOrNone DEF TypeOK
  <2>3. sent' = Append(sent, accepted[1])
    <3>1. sent \in Seq(Datagrams) /\ sent' = sent \o accepted
      BY <1>1 DEF SendFrame, TypeOK
    <3>2. Append(sent, accepted[1]) = sent \o <<accepted[1]>>
      BY <2>2, <3>1, AppendIsConcat
    <3> QED
      BY <2>2, <3>1, <3>2
  <2>4. /\ Len(sent') = Len(sent) + 1 /\ sent'[Len(sent) + 1] = accepted[1]
        /\ \A k \in 1..Len(sent) : sent'[k] = sent[k]
    BY <2>2, <2>3 DEF TypeOK
  <2> QED
    BY <1>1, <2>1, <2>2, <2>4 DEF SendFrame, PublishIsOrdered, TypeOK
<1> QED
  BY <1>1, DatagramKinds DEF Receive, Publishes, CacheSession, TypeOK

\* What is told of a browser that has subscribed.
LEMMA Holdings ==
  ASSUME TypeOK, NEW c \in Clients
  PROVE  /\ rx[c] \in Nat /\ joined[c] \in Nat /\ greeted[c] \in {0, 1}
         /\ sent \in Seq(Datagrams) /\ got[c] \in Seq(Datagrams)
         /\ out[c] \in Seq(Datagrams) /\ Len(out[c]) \in {0, 1}
         /\ out[c] # <<>> => Len(out[c]) = 1 /\ out[c][1] \in Datagrams
         /\ got[c] # <<>> => Len(got[c]) >= 1 /\ got[c][1] \in Datagrams
         /\ got[c] # <<>> \/ out[c] # <<>> => Greeting(c) \in Datagrams
<1>1. out[c] \in AtMostOne(Datagrams)
  BY DEF TypeOK
<1>2. /\ out[c] \in Seq(Datagrams) /\ Len(out[c]) \in {0, 1}
      /\ out[c] # <<>> => Len(out[c]) = 1 /\ out[c][1] \in Datagrams
  BY <1>1, OneOrNone
<1>3. got[c] # <<>> => Len(got[c]) >= 1 /\ got[c][1] \in Datagrams
  BY DEF TypeOK
<1> QED
  BY <1>2, <1>3 DEF TypeOK, Greeting

HoldingTypes ==
    /\ sent \in Seq(Datagrams)
    /\ rx \in [Clients -> Nat] /\ joined \in [Clients -> Nat]
    /\ greeted \in [Clients -> Nat] /\ out \in [Clients -> Seq(Datagrams)]
    /\ got \in [Clients -> Seq(Datagrams)]

LEMMA NarrowRange ==
  ASSUME NEW A, NEW S, NEW T, NEW f \in [A -> S], \A a \in A : f[a] \in T
  PROVE  f \in [A -> T]
OBVIOUS

LEMMA TypesOfHoldings ==
  ASSUME TypeOK
  PROVE  HoldingTypes
<1>1. \A c \in Clients : out[c] \in Seq(Datagrams)
  BY Holdings
<1>2. out \in [Clients -> Seq(Datagrams)]
  <2>1. out \in [Clients -> AtMostOne(Datagrams)]
    BY DEF TypeOK
  <2> QED
    BY <1>1, <2>1, NarrowRange
<1>3. greeted \in [Clients -> Nat]
  <2>1. greeted \in [Clients -> {0, 1}]
    BY DEF TypeOK
  <2>2. \A c \in Clients : greeted[c] \in Nat
    BY <2>1
  <2> QED
    BY <2>1, <2>2, NarrowRange
<1> QED
  BY <1>2, <1>3 DEF TypeOK, HoldingTypes

\* A frame more, or a new run, changes nothing of what it was told.
LEMMA HubRelay ==
  ASSUME TypeOK, PublishIsOrdered, (\E d \in Datagrams : Receive(d)) \/ Publishes,
         NEW c \in Clients, RelayInv(c)
  PROVE  RelayInv(c)'
<1>1. UNCHANGED <<pc, rx, out, got, joined, greeted>>
  BY DEF Receive, Publishes, CacheSession, SendFrame, clientVars
<1>2. /\ agent_run' \in Nat /\ agent_run <= agent_run' /\ agent_run \in Nat
      /\ Len(sent) <= Len(sent') /\ Len(sent) \in Nat /\ Len(sent') \in Nat
  BY PublisherSteps DEF TypeOK
<1>3. /\ \A k \in 1..Len(sent) : sent'[k] = sent[k]
      /\ \A k \in 1..Len(sent') : k > Len(sent) => sent'[k].run = agent_run
  <2>1. CASE sent' = sent
    BY <2>1 DEF TypeOK
  <2>2. CASE sent' # sent
    <3>1. \A k \in 1..Len(sent') : k > Len(sent) => k = Len(sent) + 1
      BY <2>2, <1>2, PublisherSteps
    <3> QED
      BY <2>2, <3>1, PublisherSteps
  <2> QED
    BY <2>1, <2>2
<1>4. HoldingTypes
  BY TypesOfHoldings
<1>5. RelayIsOpen(c)' /\ RelayIsInOrder(c)'
  <2>1. RelayIsOpen(c)'
    BY <1>1 DEF RelayInv, RelayIsExact, RelayIsOpen
  <2>2. RelayIsInOrder(c)'
    BY <1>1, <1>2, <1>4 DEF HoldingTypes, RelayInv, RelayIsExact, RelayIsInOrder
  <2> QED
    BY <2>1, <2>2
<1>6. HandIsExact(c)'
  <2>1. CASE pc[c] = "sending" /\ rx[c] > joined[c]
    <3>1. rx[c] - 1 \in 1..Len(sent)
      BY <1>2, <1>4, <2>1 DEF HoldingTypes, RelayInv, RelayIsExact, RelayIsOpen, RelayIsInOrder
    <3> QED
      BY <1>1, <1>3, <2>1, <3>1 DEF RelayInv, RelayIsExact, HandIsExact
  <2>2. CASE ~(pc[c] = "sending" /\ rx[c] > joined[c])
    BY <1>1, <2>2 DEF RelayInv, RelayIsExact, HandIsExact
  <2> QED
    BY <2>1, <2>2
<1>7. NoHolesOf(c)'
  <2> SUFFICES ASSUME NEW i \in greeted[c] + 1..Len(got[c])
               PROVE  got[c][i] = sent'[PositionOf(c, i)]
    BY <1>1 DEF NoHolesOf, PositionOf
  <2>1. PositionOf(c, i) \in 1..Len(sent)
    <3>1. Len(got[c]) > 0
      BY <1>4 DEF HoldingTypes
    <3>2. joined[c] > 0
      BY <1>4, <3>1 DEF HoldingTypes, RelayInv, RelayIsExact, RelayIsOpen
    <3>3. Len(got[c]) <= greeted[c] + Len(sent) + 1 - joined[c]
      BY <1>4, <3>2 DEF HoldingTypes, RelayInv, RelayIsExact, RelayIsInOrder
    <3> QED
      BY <1>4, <3>2, <3>3 DEF HoldingTypes, PositionOf
  <2> QED
    BY <1>3, <2>1 DEF RelayInv, NoHolesOf
<1>8. GreetingIsLatest(c)'
  <2> SUFFICES ASSUME joined[c] > 0 PROVE GreetingIsLatest(c)'
    BY <1>1 DEF GreetingIsLatest
  <2>1. joined[c] <= Len(sent) + 1
    BY <1>2, <1>4 DEF HoldingTypes, RelayInv, RelayIsExact, RelayIsInOrder
  <2>2. Greeting(c)' = Greeting(c)
    BY <1>1 DEF Greeting
  <2>3. \A k \in 1..Len(sent') : k < joined[c] => k \in 1..Len(sent)
    BY <1>2, <1>4, <2>1 DEF HoldingTypes
  <2>4. \A k \in 1..Len(sent') : k < joined[c] /\ sent'[k].kind = "session" =>
           greeted[c] = 1 /\ sent'[k].run <= Greeting(c).run
    BY <1>3, <2>3 DEF RelayInv, GreetingIsLatest
  <2>5. CASE greeted[c] = 1
    <3>1. /\ got[c] # <<>> \/ out[c] # <<>>
          /\ Greeting(c).kind = "session" /\ Greeting(c).run <= agent_run
          /\ \A k \in 1..Len(sent) : k >= joined[c] => Greeting(c).run <= sent[k].run
      BY <2>5 DEF RelayInv, GreetingIsLatest
    <3>2. Greeting(c).run \in Nat
      BY <3>1, Holdings, DatagramKinds
    <3>3. Greeting(c).run <= agent_run'
      BY <1>2, <3>1, <3>2
    <3>4. ASSUME NEW k \in 1..Len(sent'), k >= joined[c]
          PROVE  Greeting(c).run <= sent'[k].run
      <4>1. CASE k \in 1..Len(sent)
        BY <1>3, <3>1, <3>4, <4>1
      <4>2. CASE k \notin 1..Len(sent)
        BY <1>2, <1>3, <3>1, <4>2
      <4> QED
        BY <4>1, <4>2
    <3> QED
      BY <1>1, <2>2, <2>4, <3>1, <3>3, <3>4 DEF GreetingIsLatest
  <2> QED
    BY <1>1, <2>2, <2>4, <2>5 DEF GreetingIsLatest
<1> QED
  BY <1>5, <1>6, <1>7, <1>8 DEF RelayInv, RelayIsExact

\* What a browser was told stays with it as long as its task does not move.
LEMMA UntouchedRelay ==
  ASSUME NEW c \in Clients, RelayInv(c), sent' = sent, agent_run' = agent_run,
         UNCHANGED <<rx[c], out[c], got[c], joined[c], greeted[c]>>,
         \/ pc'[c] = pc[c]
         \/ /\ pc[c] \notin {"relay", "sending", "closing"}
            /\ pc'[c] \notin {"relay", "sending", "closing"}
  PROVE  RelayInv(c)'
<1>1. RelayIsOpen(c)' /\ RelayIsInOrder(c)' /\ HandIsExact(c)'
  BY DEF RelayInv, RelayIsExact, RelayIsOpen, RelayIsInOrder, HandIsExact
<1>2. NoHolesOf(c)'
  BY DEF RelayInv, NoHolesOf, PositionOf
<1>3. GreetingIsLatest(c)'
  BY DEF RelayInv, GreetingIsLatest, Greeting
<1> QED
  BY <1>1, <1>2, <1>3 DEF RelayInv, RelayIsExact

\* A task that is over has told nothing.
LEMMA OverRelay ==
  ASSUME NEW c \in Clients, joined'[c] = 0, got'[c] = <<>>, greeted'[c] = 0,
         pc'[c] \in {"gone", "refused"}
  PROVE  RelayInv(c)'
<1>1. RelayIsOpen(c)' /\ RelayIsInOrder(c)' /\ HandIsExact(c)'
  BY DEF RelayIsOpen, RelayIsInOrder, HandIsExact
<1>2. NoHolesOf(c)'
  BY DEF NoHolesOf
<1>3. GreetingIsLatest(c)'
  BY DEF GreetingIsLatest
<1> QED
  BY <1>1, <1>2, <1>3 DEF RelayInv, RelayIsExact

LEMMA SubscribeRelay ==
  ASSUME TypeOK, CacheIsLatest, NEW c \in Clients, RelayInv(c), Subscribe(c)
  PROVE  RelayInv(c)'
<1>1. got[c] = <<>> /\ got' = got
  BY DEF Subscribe, RelayInv, RelayIsExact, RelayIsOpen, TypeOK
<1>2. /\ joined'[c] = Len(sent) + 1 /\ rx'[c] = Len(sent) + 1
      /\ out'[c] = session /\ greeted'[c] = Len(session)
      /\ pc'[c] = IF session = <<>> THEN "relay" ELSE "sending"
      /\ sent' = sent /\ agent_run' = agent_run
  BY DEF Subscribe, Goes, TypeOK, hubVars
<1>3. /\ Len(sent) \in Nat /\ Len(session) \in {0, 1}
      /\ session = <<>> <=> Len(session) = 0
      /\ session # <<>> => session[1] \in Datagrams
  BY OneOrNone DEF TypeOK
<1>4. RelayIsOpen(c)' /\ HandIsExact(c)'
  BY <1>2, <1>3 DEF RelayIsOpen, HandIsExact
<1>5. RelayIsInOrder(c)'
  BY <1>1, <1>2, <1>3 DEF RelayIsInOrder
<1>6. NoHolesOf(c)'
  BY <1>1, <1>2, <1>3 DEF NoHolesOf
<1>7. GreetingIsLatest(c)'
  <2>1. session # <<>> => greeted'[c] = 1 /\ Greeting(c)' = session[1]
    BY <1>1, <1>2, <1>3 DEF Greeting
  <2>2. \A k \in 1..Len(sent) : sent[k].kind = "session" =>
          greeted'[c] = 1 /\ sent[k].run <= Greeting(c)'.run
    BY <2>1 DEF CacheIsLatest
  <2>3. \A k \in 1..Len(sent) : ~(k >= joined'[c])
    BY <1>2, <1>3
  <2>4. greeted'[c] = 1 => session # <<>>
    BY <1>2, <1>3
  <2> QED
    BY <1>2, <2>1, <2>2, <2>3, <2>4 DEF GreetingIsLatest, CacheIsLatest
<1> QED
  BY <1>4, <1>5, <1>6, <1>7 DEF RelayInv, RelayIsExact

LEMMA SentRelay ==
  ASSUME TypeOK, NEW c \in Clients, RelayInv(c), Sent(c)
  PROVE  RelayInv(c)'
<1>1. /\ got'[c] = got[c] \o out[c] /\ out'[c] = <<>> /\ pc'[c] = "relay"
      /\ UNCHANGED <<rx, joined, greeted, sent, agent_run>> /\ pc[c] = "sending"
  BY DEF Sent, Goes, TypeOK, hubVars
<1>2. HoldingTypes
  BY TypesOfHoldings
<1>3. joined[c] > 0 /\ out[c] # <<>> /\ Len(out[c]) = 1
  BY <1>1, Holdings DEF RelayInv, RelayIsExact, RelayIsOpen, HandIsExact
<1>4. /\ Len(got'[c]) = Len(got[c]) + 1 /\ got'[c][Len(got[c]) + 1] = out[c][1]
      /\ \A i \in 1..Len(got[c]) : got'[c][i] = got[c][i]
  <2>1. PICK x \in Datagrams : out[c] = <<x>>
    BY <1>3, OneOrNone DEF TypeOK
  <2>2. got[c] \in Seq(Datagrams)
    BY <1>2 DEF HoldingTypes
  <2>3. got'[c] = Append(got[c], x)
    BY <1>1, <2>1, <2>2, AppendIsConcat
  <2> QED
    BY <2>1, <2>2, <2>3
<1>5. /\ joined[c] <= rx[c] /\ rx[c] <= Len(sent) + 1
      /\ Len(got[c]) + 1 = greeted[c] + rx[c] - joined[c]
  BY <1>1, <1>2, <1>3 DEF HoldingTypes, RelayInv, RelayIsExact, RelayIsInOrder
<1>6. RelayIsOpen(c)' /\ HandIsExact(c)'
  BY <1>1, <1>3 DEF RelayIsOpen, HandIsExact
<1>7. RelayIsInOrder(c)'
  BY <1>1, <1>2, <1>4, <1>5 DEF HoldingTypes, RelayIsInOrder
<1>8. NoHolesOf(c)'
  <2> SUFFICES ASSUME NEW i \in greeted[c] + 1..Len(got'[c])
               PROVE  got'[c][i] = sent[PositionOf(c, i)]
    BY <1>1 DEF NoHolesOf, PositionOf
  <2>1. CASE i \in 1..Len(got[c])
    <3>1. i \in greeted[c] + 1..Len(got[c])
      BY <1>2, <2>1 DEF HoldingTypes
    <3> QED
      BY <1>4, <2>1, <3>1 DEF RelayInv, NoHolesOf
  <2>2. CASE i \notin 1..Len(got[c])
    <3>1. i = Len(got[c]) + 1 /\ rx[c] > joined[c] /\ PositionOf(c, i) = rx[c] - 1
      <4>1. /\ Len(got[c]) \in Nat /\ greeted[c] \in Nat /\ rx[c] \in Nat
            /\ joined[c] \in Nat
        BY <1>2 DEF HoldingTypes
      <4>2. i = Len(got[c]) + 1
        BY <1>4, <2>2, <4>1
      <4> QED
        BY <1>5, <4>1, <4>2 DEF PositionOf
    <3>2. out[c] = <<sent[rx[c] - 1]>>
      BY <1>1, <3>1 DEF RelayInv, RelayIsExact, HandIsExact
    <3> QED
      BY <1>4, <3>1, <3>2
  <2> QED
    BY <2>1, <2>2
<1>9. GreetingIsLatest(c)'
  <2>1. Greeting(c)' = Greeting(c) /\ got'[c] # <<>>
    <3>1. got'[c][1] = IF got[c] = <<>> THEN out[c][1] ELSE got[c][1]
      <4>1. CASE got[c] = <<>>
        BY <1>4, <4>1
      <4>2. CASE got[c] # <<>>
        BY <1>4, <4>2, Holdings
      <4> QED
        BY <4>1, <4>2
    <3>2. Len(got'[c]) > 0
      BY <1>2, <1>4 DEF HoldingTypes
    <3>3. got'[c] # <<>>
      BY <3>2
    <3> QED
      BY <3>1, <3>3 DEF Greeting
  <2> QED
    BY <1>1, <2>1 DEF RelayInv, GreetingIsLatest
<1> QED
  BY <1>6, <1>7, <1>8, <1>9 DEF RelayInv, RelayIsExact

LEMMA ReceivesRelay ==
  ASSUME TypeOK, NEW c \in Clients, RelayInv(c), Receives(c)
  PROVE  RelayInv(c)'
<1>1. /\ out'[c] = <<sent[rx[c]]>> /\ rx'[c] = rx[c] + 1 /\ pc'[c] = "sending"
      /\ UNCHANGED <<got, joined, greeted, sent, agent_run>> /\ pc[c] = "relay"
      /\ rx[c] <= Len(sent)
  BY DEF Receives, Goes, TypeOK, hubVars
<1>2. HoldingTypes
  BY TypesOfHoldings
<1>3. joined[c] > 0 /\ out[c] = <<>>
  BY <1>1 DEF RelayInv, RelayIsExact, RelayIsOpen, HandIsExact
<1>4. RelayIsOpen(c)'
  BY <1>1, <1>3 DEF RelayIsOpen
<1>5. RelayIsInOrder(c)' /\ HandIsExact(c)'
  <2>1. /\ joined[c] <= rx[c] /\ rx[c] <= Len(sent)
        /\ Len(got[c]) <= greeted[c] + Len(sent) + 1 - joined[c]
        /\ Len(got[c]) = greeted[c] + rx[c] - joined[c]
    BY <1>1, <1>2, <1>3 DEF HoldingTypes, RelayInv, RelayIsExact, RelayIsInOrder
  <2>2. Len(out'[c]) = 1 /\ out'[c] # <<>> /\ out'[c] = <<sent[rx'[c] - 1]>>
    BY <1>1, <1>2 DEF HoldingTypes
  <2> QED
    <3>1. HandIsExact(c)'
      BY <1>1, <2>2 DEF HandIsExact
    <3>2. /\ Len(sent) \in Nat /\ Len(got[c]) \in Nat /\ rx[c] \in Nat
          /\ joined[c] \in Nat /\ greeted[c] \in Nat
      BY <1>2 DEF HoldingTypes
    <3>3. /\ joined[c] <= rx[c] + 1 /\ rx[c] + 1 <= Len(sent) + 1
          /\ Len(got[c]) + 1 = greeted[c] + (rx[c] + 1) - joined[c]
      BY <2>1, <3>2
    <3>4. RelayIsInOrder(c)'
      BY <1>1, <2>1, <2>2, <3>3 DEF RelayIsInOrder
    <3> QED
      BY <3>1, <3>4
<1>6. NoHolesOf(c)'
  BY <1>1 DEF RelayInv, NoHolesOf, PositionOf
<1>7. GreetingIsLatest(c)'
  <2>1. CASE got[c] # <<>>
    BY <1>1, <2>1 DEF RelayInv, GreetingIsLatest, Greeting
  <2>2. CASE got[c] = <<>>
    <3>1. greeted[c] # 1
      BY <1>3, <2>2 DEF RelayInv, GreetingIsLatest
    <3> QED
      BY <1>1, <1>3, <3>1 DEF RelayInv, GreetingIsLatest
  <2> QED
    BY <2>1, <2>2
<1> QED
  BY <1>4, <1>5, <1>6, <1>7 DEF RelayInv, RelayIsExact

\* Sent away, for what it missed or because the server stops.
LEMMA ClosingRelay ==
  ASSUME TypeOK, NEW c \in Clients, RelayInv(c), Lagged(c) \/ SaysGoodbye(c)
  PROVE  RelayInv(c)'
<1>1. /\ pc[c] = "relay" /\ pc'[c] = "closing"
      /\ UNCHANGED <<out, got, joined, greeted, sent, agent_run>>
  BY DEF Lagged, SaysGoodbye, Goes, TypeOK, hubVars
<1>2. HoldingTypes
  BY TypesOfHoldings
<1>3. joined[c] > 0 /\ out[c] = <<>>
  BY <1>1 DEF RelayInv, RelayIsExact, RelayIsOpen, HandIsExact
<1>4. RelayIsOpen(c)' /\ HandIsExact(c)'
  BY <1>1, <1>3 DEF RelayIsOpen, HandIsExact
<1>5. RelayIsInOrder(c)'
  <2>1. /\ joined[c] <= rx[c] /\ rx[c] <= Len(sent) + 1
        /\ Len(got[c]) <= greeted[c] + Len(sent) + 1 - joined[c]
    BY <1>1, <1>2, <1>3 DEF HoldingTypes, RelayInv, RelayIsExact, RelayIsInOrder
  <2>2. joined[c] <= rx'[c] /\ rx'[c] <= Len(sent) + 1
    <3>1. CASE Lagged(c)
      <4>1. /\ rx'[c] = Len(sent) - Capacity + 1 /\ rx[c] + Capacity <= Len(sent)
        BY <3>1 DEF Lagged, Lagging, TypeOK
      <4> QED
        BY <1>2, <2>1, <4>1, ParametersAssumption DEF HoldingTypes, ParametersAssumption
    <3>2. CASE SaysGoodbye(c)
      BY <2>1, <3>2 DEF SaysGoodbye
    <3> QED
      BY <3>1, <3>2
  <2> QED
    BY <1>1, <2>1, <2>2 DEF RelayIsInOrder
<1>6. NoHolesOf(c)'
  BY <1>1 DEF RelayInv, NoHolesOf, PositionOf
<1>7. GreetingIsLatest(c)'
  BY <1>1 DEF RelayInv, GreetingIsLatest, Greeting
<1> QED
  BY <1>4, <1>5, <1>6, <1>7 DEF RelayInv, RelayIsExact

\* Whatever a task or a connection attempt does, nobody's view is harmed.
LEMMA OneRelay ==
  ASSUME TypeOK, CacheIsLatest, NEW d \in Clients, Reserve(d) \/ Task(d),
         NEW c \in Clients, RelayInv(c)
  PROVE  RelayInv(c)'
<1>1. CASE Reserve(d)
  <2>1. UNCHANGED <<rx, out, got, joined, greeted, sent, agent_run>>
    BY <1>1 DEF Reserve, Goes, hubVars
  <2>2. \/ pc'[c] = pc[c]
        \/ /\ pc[c] \notin {"relay", "sending", "closing"}
           /\ pc'[c] \notin {"relay", "sending", "closing"}
    BY <1>1 DEF Reserve, Goes, TypeOK
  <2> QED
    BY <2>1, <2>2, UntouchedRelay
<1>2. CASE Ends(d)
  <2> PICK where \in {"gone", "refused"} : Leave(d, where)
    BY <1>2 DEF Ends
  <2>1. Over({d}, where) /\ sent' = sent /\ agent_run' = agent_run
    BY DEF Leave, Over, hubVars
  <2>2. CASE c = d
    <3>1. /\ joined'[c] = 0 /\ got'[c] = <<>> /\ greeted'[c] = 0 /\ pc'[c] = where
      BY <2>1, <2>2 DEF Over, Reset
    <3> QED
      BY <3>1, OverRelay
  <2>3. CASE c # d
    <3>1. UNCHANGED <<rx[c], out[c], got[c], joined[c], greeted[c], pc[c]>>
      BY <2>1, <2>3 DEF Over, Reset
    <3> QED
      BY <2>1, <3>1, UntouchedRelay
  <2> QED
    BY <2>2, <2>3
<1>3. CASE Stays(d)
  <2>1. CASE c = d
    BY <1>3, <2>1, SubscribeRelay, SentRelay, ReceivesRelay, ClosingRelay DEF Stays
  <2>2. CASE c # d
    <3>1. UNCHANGED <<rx[c], out[c], got[c], joined[c], greeted[c], pc[c]>>
      BY <1>3, <2>2 DEF Stays, Subscribe, Sent, Receives, Lagged, SaysGoodbye, Goes, TypeOK
    <3>2. sent' = sent /\ agent_run' = agent_run
      BY <1>3 DEF Stays, Subscribe, Sent, Receives, Lagged, SaysGoodbye, Goes, hubVars
    <3> QED
      BY <3>1, <3>2, UntouchedRelay
  <2> QED
    BY <2>1, <2>2
<1> QED
  BY <1>1, <1>2, <1>3, TaskSteps

-----------------------------------------------------------------------------
(* The publisher's order and its cache.                                    *)

LEMMA PublishKeepsOrder ==
  ASSUME TypeOK, PublishIsOrdered, CacheIsLatest,
         (\E d \in Datagrams : Receive(d)) \/ Publishes
  PROVE  PublishIsOrdered' /\ CacheIsLatest'
<1>1. CASE \E d \in Datagrams : Receive(d)
  <2> PICK d \in Datagrams : Receive(d)
    BY <1>1
  <2>1. /\ accepted' = <<d>> /\ agent_run' = d.run /\ agent_run <= d.run
        /\ publish' = IF d.kind = "batch" THEN "send" ELSE "cache"
        /\ UNCHANGED <<sent, session>>
    BY DatagramKinds DEF Receive, TypeOK
  <2>2. PublishIsOrdered'
    BY <2>1, DatagramKinds DEF PublishIsOrdered
  <2>3. session # <<>> => session[1] \in Datagrams
    BY OneOrNone DEF TypeOK
  <2>4. CacheIsLatest'
    BY <2>1, <2>3, DatagramKinds DEF CacheIsLatest, TypeOK
  <2> QED
    BY <2>2, <2>4
<1>2. CASE CacheSession
  <2>1. /\ session' = accepted /\ publish' = "send" /\ publish = "cache"
        /\ UNCHANGED <<sent, accepted, agent_run>>
    BY <1>2 DEF CacheSession
  <2>2. /\ accepted # <<>> /\ accepted[1].kind = "session"
        /\ accepted[1].run = agent_run /\ agent_run \in Nat
    BY <2>1 DEF PublishIsOrdered, TypeOK
  <2>3. PublishIsOrdered'
    BY <2>1, <2>2 DEF PublishIsOrdered
  <2>4. \A i \in 1..Len(sent) : sent[i].kind = "session" => sent[i].run <= agent_run
    <3> SUFFICES ASSUME NEW i \in 1..Len(sent), sent[i].kind = "session"
                 PROVE  sent[i].run <= agent_run
      OBVIOUS
    <3>1. /\ session # <<>> /\ sent[i].run <= session[1].run
          /\ session[1].run <= agent_run
      BY DEF CacheIsLatest
    <3>2. sent[i].run \in Nat /\ session[1].run \in Nat
      BY <3>1, OneOrNone, DatagramKinds DEF TypeOK
    <3> QED
      BY <2>2, <3>1, <3>2
  <2>5. CacheIsLatest'
    BY <2>1, <2>2, <2>4 DEF CacheIsLatest
  <2> QED
    BY <2>3, <2>5
<1>3. CASE SendFrame
  <2>1. /\ publish' = "recv" /\ accepted' = <<>> /\ publish = "send"
        /\ UNCHANGED <<session, agent_run>> /\ accepted # <<>>
    BY <1>3 DEF SendFrame, PublishIsOrdered
  <2>2. PublishIsOrdered'
    BY <2>1 DEF PublishIsOrdered
  <2>3. /\ Len(sent') = Len(sent) + 1 /\ sent'[Len(sent) + 1] = accepted[1]
        /\ \A k \in 1..Len(sent) : sent'[k] = sent[k]
        /\ accepted[1].run = agent_run /\ agent_run \in Nat
    <3>1. sent' # sent
      <4>1. accepted \in Seq(Datagrams) /\ Len(accepted) = 1
        BY <2>1, OneOrNone DEF TypeOK
      <4>2. Len(sent') = Len(sent) + 1 /\ Len(sent) \in Nat
        <5>1. sent \in Seq(Datagrams) /\ sent' = sent \o accepted
          BY <1>3 DEF SendFrame, TypeOK
        <5>2. Len(sent \o accepted) = Len(sent) + Len(accepted)
          BY <4>1, <5>1, ConcatProperties
        <5> QED
          BY <4>1, <5>1, <5>2
      <4> QED
        BY <4>2
    <3> QED
      BY <3>1, PublisherSteps DEF TypeOK
  <2>4. ASSUME NEW i \in 1..Len(sent'), sent'[i].kind = "session"
        PROVE  session # <<>> /\ sent'[i].run <= session[1].run
    <3>1. CASE i \in 1..Len(sent)
      BY <2>3, <2>4, <3>1 DEF CacheIsLatest
    <3>2. CASE i \notin 1..Len(sent)
      <4>1. sent'[i] = accepted[1]
        BY <2>3, <3>2 DEF TypeOK
      <4>2. session = accepted
        BY <2>1, <2>4, <4>1 DEF PublishIsOrdered
      <4> QED
        BY <2>1, <2>3, <4>1, <4>2
    <3> QED
      BY <3>1, <3>2
  <2>5. CacheIsLatest'
    BY <2>1, <2>4 DEF CacheIsLatest
  <2> QED
    BY <2>2, <2>5
<1> QED
  BY <1>1, <1>2, <1>3 DEF Publishes

\* The steps of everybody else.
Elsewhere ==
    \/ \E c \in Clients : Reserve(c) \/ Task(c) \/ PeerChanges(c)
    \/ Fire \/ Exit \/ UNCHANGED vars

LEMMA HubIsLeftAlone ==
  ASSUME Elsewhere
  PROVE  UNCHANGED <<agent_run, hubVars>>
<1>1. ASSUME NEW c \in Clients, Task(c) PROVE UNCHANGED <<agent_run, hubVars>>
  BY <1>1, TaskSteps DEF Ends, Leave, Over, Stays, Subscribe, Sent, Receives, Lagged,
     SaysGoodbye, Goes
<1>2. ASSUME NEW c \in Clients, Reserve(c) \/ PeerChanges(c)
      PROVE  UNCHANGED <<agent_run, hubVars>>
  BY <1>2 DEF Reserve, Goes, PeerChanges
<1> QED
  BY <1>1, <1>2 DEF Elsewhere, Fire, Exit, Over, vars

LEMMA StepKeepsOrder ==
  ASSUME TypeOK, PublishIsOrdered, CacheIsLatest, [Next]_vars
  PROVE  PublishIsOrdered' /\ CacheIsLatest'
<1>1. CASE Elsewhere
  BY <1>1, HubIsLeftAlone DEF hubVars, PublishIsOrdered, CacheIsLatest
<1> QED
  BY <1>1, PublishKeepsOrder DEF Next, Elsewhere

LEMMA StepKeepsRelay ==
  ASSUME TypeOK, PublishIsOrdered, CacheIsLatest, [Next]_vars,
         NEW c \in Clients, RelayInv(c)
  PROVE  RelayInv(c)'
<1>1. CASE PeerChanges(c) \/ Fire \/ UNCHANGED vars
  <2>1. UNCHANGED <<pc, rx, out, got, joined, greeted, sent, agent_run>>
    BY <1>1 DEF PeerChanges, Fire, vars, clientVars, hubVars
  <2> QED
    BY <2>1, UntouchedRelay
<1>2. CASE \E d \in Clients : PeerChanges(d)
  <2>1. UNCHANGED <<pc, rx, out, got, joined, greeted, sent, agent_run>>
    BY <1>2 DEF PeerChanges, clientVars, hubVars
  <2> QED
    BY <2>1, UntouchedRelay
<1>3. CASE Exit
  <2>1. /\ Over({d \in Clients : Live(d)}, "gone")
        /\ sent' = sent /\ agent_run' = agent_run
    BY <1>3 DEF Exit, Over, hubVars
  <2>2. CASE Live(c)
    <3>1. /\ joined'[c] = 0 /\ got'[c] = <<>> /\ greeted'[c] = 0 /\ pc'[c] = "gone"
      BY <2>1, <2>2 DEF Over, Reset
    <3> QED
      BY <3>1, OverRelay
  <2>3. CASE ~Live(c)
    <3>1. UNCHANGED <<rx[c], out[c], got[c], joined[c], greeted[c], pc[c]>>
      BY <2>1, <2>3 DEF Over, Reset
    <3> QED
      BY <2>1, <3>1, UntouchedRelay
  <2> QED
    BY <2>2, <2>3
<1> QED
  BY <1>1, <1>2, <1>3, HubRelay, OneRelay DEF Next

-----------------------------------------------------------------------------
(* The gaps.                                                               *)

LEMMA LogIsTyped ==
  ASSUME TypeOK
  PROVE  Log \in Seq(Datagrams)
<1>1. sent \in Seq(Datagrams) /\ accepted \in Seq(Datagrams)
  BY OneOrNone DEF TypeOK
<1> QED
  BY <1>1 DEF Log

\* A datagram that is accepted is the next of the log ...
LEMMA ReceiveLogs ==
  ASSUME TypeOK, PublishIsOrdered, NEW d \in Datagrams, Receive(d)
  PROVE  /\ Len(Log') = Len(Log) + 1 /\ Log'[Len(Log) + 1] = d
         /\ \A i \in 1..Len(Log) : Log'[i] = Log[i]
<1>1. accepted = <<>> /\ accepted' = <<d>> /\ sent' = sent /\ sent \in Seq(Datagrams)
  BY DEF Receive, PublishIsOrdered, TypeOK
<1>2. Log = sent
  BY <1>1 DEF Log
<1>3. Log' = Append(sent, d)
  <2>1. Append(sent, d) = sent \o <<d>>
    BY <1>1, AppendIsConcat
  <2> QED
    BY <1>1, <2>1 DEF Log
<1> QED
  BY <1>1, <1>2, <1>3

\* ... and stays there when it is sent.
LEMMA SendLogs ==
  ASSUME TypeOK, Publishes
  PROVE  Log' = Log
<1>1. sent \in Seq(Datagrams) /\ accepted \in Seq(Datagrams)
  BY OneOrNone DEF TypeOK
<1>2. CASE SendFrame
  <2>1. sent' = sent \o accepted /\ accepted' = <<>>
    BY <1>2 DEF SendFrame
  <2>2. sent \o accepted \in Seq(Datagrams)
    BY <1>1
  <2>3. (sent \o accepted) \o <<>> = sent \o accepted
    BY <2>2
  <2> QED
    BY <2>1, <2>3 DEF Log
<1> QED
  BY <1>2 DEF Publishes, CacheSession, Log

LEMMA BatchesGrow ==
  ASSUME TypeOK, PublishIsOrdered, NEW d \in Datagrams, Receive(d), NEW r
  PROVE  BatchesOf(r)' = IF d.kind = "batch" /\ d.run = r
                         THEN BatchesOf(r) \cup {Len(Log) + 1} ELSE BatchesOf(r)
<1>1. Len(Log) \in Nat
  BY LogIsTyped
<1>2. 1..Len(Log') = 1..Len(Log) \cup {Len(Log) + 1}
  BY <1>1, ReceiveLogs
<1> QED
  BY <1>1, <1>2, ReceiveLogs DEF BatchesOf

IsRise(d) == d.kind = "batch" /\ \A j \in BatchesOf(d.run) : Log[j].seq < d.seq

LEMMA RisesGrow ==
  ASSUME TypeOK, PublishIsOrdered, NEW d \in Datagrams, Receive(d), NEW r
  PROVE  Rises(r)' = IF IsRise(d) /\ d.run = r
                     THEN Rises(r) \cup {Len(Log) + 1} ELSE Rises(r)
<1> DEFINE n == Len(Log) + 1
<1>1. Len(Log) \in Nat /\ BatchesOf(r) \subseteq 1..Len(Log)
  BY LogIsTyped DEF BatchesOf
<1>2. \A i \in BatchesOf(r) : i \in Nat /\ i < n /\ Log'[i] = Log[i]
  BY <1>1, ReceiveLogs
<1>3. Log'[n] = d
  BY ReceiveLogs
<1> HIDE DEF n
<1>4. CASE d.kind = "batch" /\ d.run = r
  <2>1. BatchesOf(r)' = BatchesOf(r) \cup {n}
    BY <1>4, BatchesGrow DEF n
  <2>2. n \in Nat /\ n \notin BatchesOf(r)
    BY <1>1, <1>2 DEF n
  <2>3. \A i \in BatchesOf(r) : i \in Rises(r)' <=> i \in Rises(r)
    BY <1>2, <2>1, <2>2 DEF Rises
  <2>4. n \in Rises(r)' <=> IsRise(d)
    BY <1>2, <1>3, <1>4, <2>1, <2>2 DEF Rises, IsRise
  <2>5. Rises(r)' \subseteq BatchesOf(r) \cup {n} /\ Rises(r) \subseteq BatchesOf(r)
    BY <2>1 DEF Rises
  <2>6. Rises(r)' = IF IsRise(d) THEN Rises(r) \cup {n} ELSE Rises(r)
    BY <2>2, <2>3, <2>4, <2>5
  <2> QED
    BY <1>4, <2>6 DEF n
<1>5. CASE ~(d.kind = "batch" /\ d.run = r)
  <2>1. BatchesOf(r)' = BatchesOf(r)
    BY <1>5, BatchesGrow
  <2>2. Rises(r)' = Rises(r)
    BY <1>2, <2>1 DEF Rises
  <2> QED
    BY <1>5, <2>2 DEF IsRise
<1> QED
  BY <1>4, <1>5

\* Skipped, of one run.
SkippedOf(r) == {n \in 1..MaxSeq :
                   /\ \E i, j \in Rises(r) : Log[i].seq < n /\ n < Log[j].seq
                   /\ \A i \in Rises(r) : Log[i].seq # n}

LEMMA SkippedByRun ==
  /\ Skipped = {p \in (1..MaxRun) \X (1..MaxSeq) : p[2] \in SkippedOf(p[1])}
  /\ Skipped' = {p \in (1..MaxRun) \X (1..MaxSeq) : p[2] \in SkippedOf(p[1])'}
BY DEF Skipped, SkippedOf

LEMMA SkippedIsFinite ==
  IsFiniteSet(Skipped) /\ Cardinality(Skipped) \in Nat
<1>1. Skipped \in SUBSET ((1..MaxRun) \X (1..MaxSeq))
  BY DEF Skipped
<1>2. IsFiniteSet(1..MaxRun) /\ IsFiniteSet(1..MaxSeq)
  BY ParametersAssumption, FS_Interval DEF ParametersAssumption
<1>3. IsFiniteSet((1..MaxRun) \X (1..MaxSeq))
  BY <1>2, FS_Product
<1>4. IsFiniteSet(Skipped)
  BY <1>1, <1>3, FS_Subset
<1> QED
  BY <1>4, FS_CardinalityType

\* A run nothing rose in misses what it missed before.
LEMMA SkippedStays ==
  ASSUME TypeOK, PublishIsOrdered, NEW d \in Datagrams, Receive(d), NEW r,
         Rises(r)' = Rises(r)
  PROVE  SkippedOf(r)' = SkippedOf(r)
<1>1. \A i \in Rises(r) : Log'[i] = Log[i]
  BY ReceiveLogs DEF Rises, BatchesOf
<1> QED
  BY <1>1 DEF SkippedOf

\* The first number of a run misses none.
LEMMA NewRunSkipsNone ==
  ASSUME TypeOK, PublishIsOrdered, NEW d \in Datagrams, Receive(d),
         d.kind = "batch", BatchesOf(d.run) = {}
  PROVE  SkippedOf(d.run)' = SkippedOf(d.run)
<1>1. Rises(d.run) = {}
  BY DEF Rises
<1>2. Rises(d.run)' \subseteq {Len(Log) + 1}
  BY <1>1, RisesGrow
<1>3. Log'[Len(Log) + 1] = d /\ d.seq \in Nat
  BY ReceiveLogs, DatagramKinds
<1>4. SkippedOf(d.run) = {}
  BY <1>1 DEF SkippedOf
<1>5. \A n \in 1..MaxSeq :
        ~\E i, j \in Rises(d.run)' : Log'[i].seq < n /\ n < Log'[j].seq
  BY <1>2, <1>3, ParametersAssumption DEF ParametersAssumption
<1>6. SkippedOf(d.run)' = {}
  BY <1>5 DEF SkippedOf
<1> QED
  BY <1>4, <1>6

\* A later one that is higher than the highest misses those in between.
LEMMA RiseSkips ==
  ASSUME TypeOK, PublishIsOrdered, TrackerIsLatest, NEW d \in Datagrams, Receive(d),
         d.kind = "batch", d.run = tracker.run, d.seq > tracker.last
  PROVE  /\ SkippedOf(d.run)' = SkippedOf(d.run) \cup (tracker.last + 1..d.seq - 1)
         /\ SkippedOf(d.run) \cap (tracker.last + 1..d.seq - 1) = {}
<1> DEFINE r == d.run
           n == Len(Log) + 1
           last == tracker.last
<1>1. /\ last \in Nat /\ d.seq \in 1..MaxSeq /\ MaxSeq \in Nat
      /\ \A i \in BatchesOf(r) : Log[i].seq \in Nat /\ Log[i].seq <= last
  <2>1. \A i \in BatchesOf(r) : Log[i].seq \in Nat
    BY LogIsTyped, DatagramKinds DEF BatchesOf
  <2> QED
    BY <2>1, DatagramKinds, ParametersAssumption
    DEF TypeOK, TrackerIsLatest, ParametersAssumption
<1>2. PICK i0 \in Rises(r) : Log[i0].seq = last
  <2>1. last > 0
    BY <1>1, DatagramKinds DEF TrackerIsLatest
  <2> QED
    BY <2>1 DEF TrackerIsLatest
<1>3. IsRise(d)
  BY <1>1 DEF IsRise
<1>4. Rises(r)' = Rises(r) \cup {n}
  BY <1>3, RisesGrow
<1>5. /\ \A i \in Rises(r) : Log'[i] = Log[i] /\ Log[i].seq \in Nat /\ Log[i].seq <= last
      /\ Log'[n] = d
  BY <1>1, ReceiveLogs DEF Rises, BatchesOf
<1> HIDE DEF n, r, last
<1>6. ASSUME NEW x \in 1..MaxSeq
      PROVE  x \in SkippedOf(r)' <=> x \in SkippedOf(r) \/ x \in last + 1..d.seq - 1
  <2>0. x \in Nat
    BY <1>1
  <2>1. ASSUME x \in SkippedOf(r)', x \notin last + 1..d.seq - 1
        PROVE  x \in SkippedOf(r)
    <3>1. PICK i \in Rises(r) \cup {n}, j \in Rises(r) \cup {n} :
            Log'[i].seq < x /\ x < Log'[j].seq
      BY <1>4, <2>1 DEF SkippedOf
    <3>2. x < d.seq
      BY <1>1, <1>5, <2>0, <3>1, d.seq > last DEF last
    <3>3. x <= last
      BY <1>1, <2>0, <2>1, <3>2
    <3>4. x # last
      BY <1>2, <1>4, <1>5, <2>1 DEF SkippedOf
    <3>5. i \in Rises(r) /\ Log[i].seq < x /\ x < Log[i0].seq
      BY <1>1, <1>2, <1>5, <2>0, <3>1, <3>2, <3>3, <3>4
    <3>6. \A k \in Rises(r) : Log[k].seq # x
      BY <1>4, <1>5, <2>1 DEF SkippedOf
    <3> QED
      BY <1>2, <3>5, <3>6 DEF SkippedOf
  <2>2. ASSUME x \in SkippedOf(r)
        PROVE  x \in SkippedOf(r)' /\ x < last
    <3>1. PICK i \in Rises(r), j \in Rises(r) : Log[i].seq < x /\ x < Log[j].seq
      BY <2>2 DEF SkippedOf
    <3>2. x < last
      BY <1>1, <1>5, <2>0, <3>1
    <3>3. \A k \in Rises(r) \cup {n} : Log'[k].seq # x
      BY <1>1, <1>5, <2>0, <2>2, <3>2, d.seq > last DEF SkippedOf, last
    <3>4. Log'[i].seq < x /\ x < Log'[j].seq
      BY <1>5, <3>1
    <3> QED
      BY <1>4, <3>1, <3>2, <3>3, <3>4 DEF SkippedOf
  <2>3. ASSUME x \in last + 1..d.seq - 1
        PROVE  x \in SkippedOf(r)'
    <3>1. Log'[i0].seq < x /\ x < Log'[n].seq
      BY <1>1, <1>2, <1>5, <2>0, <2>3
    <3>2. \A k \in Rises(r) \cup {n} : Log'[k].seq # x
      BY <1>1, <1>5, <2>0, <2>3
    <3> QED
      BY <1>2, <1>4, <3>1, <3>2 DEF SkippedOf
  <2> QED
    BY <2>1, <2>2, <2>3
<1>7. \A x \in last + 1..d.seq - 1 : x \in 1..MaxSeq
  BY <1>1
<1>8. SkippedOf(r)' = SkippedOf(r) \cup (last + 1..d.seq - 1)
  BY <1>6, <1>7 DEF SkippedOf
<1>9. ASSUME NEW x \in SkippedOf(r)
      PROVE  x \notin last + 1..d.seq - 1
  <2>1. PICK j \in Rises(r) : x < Log[j].seq
    BY DEF SkippedOf
  <2>2. x \in Nat
    BY <1>1 DEF SkippedOf
  <2> QED
    BY <1>1, <1>5, <2>1, <2>2
<1> QED
  BY <1>8, <1>9 DEF r, last

\* What a rise misses is counted once more for each number in between.
LEMMA ReceiveCounts ==
  ASSUME TypeOK, PublishIsOrdered, TrackerIsLatest, GapsAreExact,
         NEW d \in Datagrams, Receive(d)
  PROVE  GapsAreExact'
<1>0. /\ d.run \in 1..MaxRun /\ d.seq \in 0..MaxSeq /\ MaxRun \in Nat /\ MaxSeq \in Nat
      /\ tracker.last \in Nat /\ d.kind \in {"session", "batch"}
      /\ d.kind = "batch" => d.seq > 0
  BY DatagramKinds, ParametersAssumption DEF ParametersAssumption, TypeOK
<1>1. ASSUME \A r \in 1..MaxRun : SkippedOf(r)' = SkippedOf(r), seq_gaps' = seq_gaps
      PROVE  GapsAreExact'
  <2>1. Skipped' = Skipped
    BY <1>1, SkippedByRun
  <2> QED
    BY <1>1, <2>1 DEF GapsAreExact
<1>2. ASSUME NEW r, d.kind = "session" \/ d.run # r
      PROVE  SkippedOf(r)' = SkippedOf(r)
  BY <1>2, RisesGrow, SkippedStays DEF IsRise
<1>3. CASE d.kind = "session"
  BY <1>1, <1>2, <1>3 DEF Receive
<1>4. CASE d.kind = "batch" /\ d.run # tracker.run
  <2>1. BatchesOf(d.run) = {}
    <3> SUFFICES ASSUME NEW i \in BatchesOf(d.run) PROVE FALSE
      OBVIOUS
    <3>1. Log[i].run = d.run /\ d.run <= tracker.run
      BY DEF BatchesOf, TrackerIsLatest
    <3>2. tracker.run <= agent_run /\ agent_run <= d.run
      BY DEF TrackerIsLatest, Receive
    <3> QED
      BY <1>0, <1>4, <3>1, <3>2 DEF TypeOK
  <2>2. SkippedOf(d.run)' = SkippedOf(d.run)
    BY <1>4, <2>1, NewRunSkipsNone
  <2>3. seq_gaps' = seq_gaps
    BY <1>4 DEF Receive, Observe, TrackerFor, Missing, TypeOK
  <2> QED
    BY <1>1, <1>2, <2>2, <2>3
<1>5. CASE d.kind = "batch" /\ d.run = tracker.run /\ d.seq <= tracker.last
  <2>1. ~IsRise(d)
    <3>1. tracker.last > 0
      BY <1>0, <1>5
    <3>2. PICK i \in Rises(tracker.run) : Log[i].seq = tracker.last
      BY <3>1 DEF TrackerIsLatest
    <3>3. i \in BatchesOf(d.run) /\ ~(Log[i].seq < d.seq)
      BY <1>0, <1>5, <3>2 DEF Rises
    <3> QED
      BY <3>3 DEF IsRise
  <2>2. \A r \in 1..MaxRun : SkippedOf(r)' = SkippedOf(r)
    BY <2>1, RisesGrow, SkippedStays
  <2>3. seq_gaps' = seq_gaps
    BY <1>0, <1>5 DEF Receive, Observe, TrackerFor, Missing, TypeOK
  <2> QED
    BY <1>1, <2>2, <2>3
<1>6. CASE d.kind = "batch" /\ d.run = tracker.run /\ d.seq > tracker.last
  <2> DEFINE r == d.run
             gap == tracker.last + 1..d.seq - 1
  <2>1. SkippedOf(r)' = SkippedOf(r) \cup gap /\ SkippedOf(r) \cap gap = {}
    BY <1>6, RiseSkips
  <2>2. gap \subseteq 1..MaxSeq
    BY <1>0
  <2>3. IsFiniteSet(gap) /\ Cardinality(gap) = d.seq - tracker.last - 1
    <3>1. tracker.last + 1 \in Int /\ d.seq - 1 \in Int
      BY <1>0
    <3>2. /\ IsFiniteSet(gap)
          /\ Cardinality(gap) = IF tracker.last + 1 > d.seq - 1 THEN 0
                                ELSE (d.seq - 1) - (tracker.last + 1) + 1
      BY <3>1, FS_Interval
    <3> QED
      BY <1>0, <1>6, <3>2
  <2>4. seq_gaps' = seq_gaps + (d.seq - tracker.last - 1)
    <3>1. tracker.last > 0
      BY <1>0, <1>6 DEF TrackerIsLatest
    <3>2. seq_gaps' = seq_gaps + Missing(tracker, d.seq)
      BY <1>6 DEF Receive, Observe, TrackerFor
    <3>3. Missing(tracker, d.seq) = d.seq - tracker.last - 1
      BY <1>0, <1>6, <3>1 DEF Missing
    <3> QED
      BY <3>2, <3>3
  <2> HIDE DEF gap, r
  <2>5. Skipped' = Skipped \cup ({r} \X gap)
    <3>1. \A q \in 1..MaxRun : q # r => SkippedOf(q)' = SkippedOf(q)
      BY <1>2 DEF r
    <3>2. r \in 1..MaxRun
      BY <1>0 DEF r
    <3> QED
      BY <2>1, <2>2, <3>1, <3>2, SkippedByRun
  <2>6. Skipped \cap ({r} \X gap) = {}
    BY <2>1, SkippedByRun
  <2>7. IsFiniteSet({r} \X gap) /\ Cardinality({r} \X gap) = d.seq - tracker.last - 1
    <3>1. IsFiniteSet({r}) /\ Cardinality({r}) = 1
      BY FS_Singleton
    <3>2. /\ IsFiniteSet({r} \X gap)
          /\ Cardinality({r} \X gap) = Cardinality({r}) * Cardinality(gap)
      BY <2>3, <3>1, FS_Product
    <3> QED
      BY <1>0, <2>3, <3>1, <3>2
  <2>8. Cardinality(Skipped') = Cardinality(Skipped) + (d.seq - tracker.last - 1)
    <3>1. Cardinality(Skipped') = Cardinality(Skipped) + Cardinality({r} \X gap)
                                  - Cardinality(Skipped \cap ({r} \X gap))
      BY <2>5, <2>7, SkippedIsFinite, FS_Union
    <3>2. Cardinality(Skipped \cap ({r} \X gap)) = 0
      BY <2>6, FS_EmptySet
    <3> QED
      BY <1>0, <2>7, <3>1, <3>2, SkippedIsFinite
  <2> QED
    BY <2>4, <2>8 DEF GapsAreExact
<1> QED
  BY <1>0, <1>3, <1>4, <1>5, <1>6

LEMMA ReceiveTracks ==
  ASSUME TypeOK, PublishIsOrdered, TrackerIsLatest, NEW d \in Datagrams, Receive(d)
  PROVE  TrackerIsLatest'
<1>1. /\ d.run \in Nat /\ d.run > 0 /\ d.seq \in Nat /\ tracker.last \in Nat
      /\ tracker.run \in Nat /\ agent_run \in Nat
      /\ d.kind \in {"session", "batch"}
      /\ d.kind = "batch" => d.seq > 0
  BY DatagramKinds, ParametersAssumption DEF ParametersAssumption, TypeOK
<1>2. agent_run' = d.run /\ agent_run <= d.run /\ tracker.run <= d.run
  BY <1>1 DEF Receive, TrackerIsLatest
<1>3. /\ Len(Log) \in Nat /\ Len(Log') = Len(Log) + 1 /\ Log'[Len(Log) + 1] = d
      /\ \A i \in 1..Len(Log) : Log'[i] = Log[i] /\ Log[i].run \in Nat /\ Log[i].seq \in Nat
  BY LogIsTyped, ReceiveLogs, DatagramKinds
<1>4. \A r : BatchesOf(r) \subseteq 1..Len(Log) /\ Rises(r) \subseteq BatchesOf(r)
  BY DEF BatchesOf, Rises
<1>5. CASE d.kind = "session"
  <2>1. tracker' = tracker
    BY <1>5 DEF Receive
  <2>2. \A r : BatchesOf(r)' = BatchesOf(r) /\ Rises(r)' = Rises(r)
    BY <1>5, BatchesGrow, RisesGrow DEF IsRise
  <2>3. \A i \in 1..Len(Log') : Log'[i].kind = "batch" => Log'[i].run <= tracker.run
    BY <1>3, <1>5 DEF TrackerIsLatest
  <2> QED
    BY <1>1, <1>2, <1>3, <1>4, <2>1, <2>2, <2>3 DEF TrackerIsLatest
<1>6. CASE d.kind = "batch"
  <2> DEFINE t == TrackerFor(d.run)
  <2>1. /\ tracker' = [t EXCEPT !.last = IF d.seq > @ THEN d.seq ELSE @]
        /\ t \in [run : Nat, last : Nat] /\ t.run = d.run
    BY <1>1, <1>6 DEF Receive, Observe, TrackerFor, TypeOK
  <2>2. tracker'.run = d.run /\ tracker'.last = IF d.seq > t.last THEN d.seq ELSE t.last
    BY <2>1
  <2>3. /\ \A i \in BatchesOf(d.run) : Log[i].seq <= t.last
        /\ t.last > 0 => \E i \in Rises(d.run) : Log[i].seq = t.last
    <3>1. CASE d.run = tracker.run
      BY <3>1 DEF TrackerFor, TrackerIsLatest
    <3>2. CASE d.run # tracker.run
      <4>1. \A i \in BatchesOf(d.run) : FALSE
        BY <1>1, <1>2, <3>2 DEF BatchesOf, TrackerIsLatest
      <4>2. t.last = 0
        BY <3>2 DEF TrackerFor
      <4> QED
        BY <4>1, <4>2
    <3> QED
      BY <3>1, <3>2
  <2>4. t.last \in Nat
    BY <2>1
  <2> HIDE DEF t
  <2>5. \A i \in 1..Len(Log') : Log'[i].kind = "batch" => Log'[i].run <= d.run
    <3> SUFFICES ASSUME NEW i \in 1..Len(Log'), Log'[i].kind = "batch"
                 PROVE  Log'[i].run <= d.run
      OBVIOUS
    <3>1. CASE i \in 1..Len(Log)
      <4>1. Log'[i].run <= tracker.run /\ Log'[i].run \in Nat
        BY <1>3, <3>1 DEF TrackerIsLatest
      <4> QED
        BY <1>1, <1>2, <4>1
    <3>2. CASE i \notin 1..Len(Log)
      BY <1>1, <1>3, <3>2
    <3> QED
      BY <3>1, <3>2
  <2>6. BatchesOf(d.run)' = BatchesOf(d.run) \cup {Len(Log) + 1}
    BY <1>6, BatchesGrow
  <2>7. \A i \in BatchesOf(d.run)' : Log'[i].seq <= tracker'.last
    <3>1. d.seq <= tracker'.last /\ t.last <= tracker'.last /\ tracker'.last \in Nat
      BY <1>1, <2>2, <2>4
    <3>2. \A i \in BatchesOf(d.run) : Log'[i].seq <= tracker'.last
      BY <1>3, <1>4, <2>3, <2>4, <3>1
    <3> QED
      BY <1>3, <2>6, <3>1, <3>2
  <2>8. \E i \in Rises(d.run)' : Log'[i].seq = tracker'.last
    <3>1. CASE d.seq > t.last
      <4>1. IsRise(d)
        BY <1>1, <1>3, <1>4, <1>6, <2>3, <2>4, <3>1 DEF IsRise
      <4>2. Len(Log) + 1 \in Rises(d.run)'
        BY <4>1, RisesGrow
      <4> QED
        BY <1>3, <2>2, <3>1, <4>2
    <3>2. CASE ~(d.seq > t.last)
      <4>1. PICK i \in Rises(d.run) : Log[i].seq = t.last
        BY <1>1, <1>6, <2>3, <2>4, <3>2
      <4>2. i \in Rises(d.run)' /\ Log'[i] = Log[i]
        BY <1>3, <1>4, RisesGrow
      <4> QED
        BY <2>2, <3>2, <4>1, <4>2
    <3> QED
      BY <3>1, <3>2
  <2>9. tracker'.last > 0
    BY <1>1, <1>6, <2>2, <2>4
  <2> QED
    BY <1>1, <1>2, <2>2, <2>5, <2>7, <2>8, <2>9 DEF TrackerIsLatest
<1> QED
  BY <1>1, <1>5, <1>6

\* A step that leaves the log, the tracker and the count alone.
LEMMA LogStays ==
  ASSUME Log' = Log, UNCHANGED <<tracker, seq_gaps, agent_run>>,
         TrackerIsLatest, GapsAreExact
  PROVE  TrackerIsLatest' /\ GapsAreExact'
<1>1. \A r : BatchesOf(r)' = BatchesOf(r)
  BY DEF BatchesOf
<1>2. \A r : Rises(r)' = Rises(r)
  BY <1>1 DEF Rises
<1>3. Skipped' = Skipped
  BY <1>2 DEF Skipped
<1> QED
  BY <1>1, <1>2, <1>3 DEF TrackerIsLatest, GapsAreExact

LEMMA StepKeepsTracker ==
  ASSUME TypeOK, PublishIsOrdered, TrackerIsLatest, GapsAreExact, [Next]_vars
  PROVE  TrackerIsLatest' /\ GapsAreExact'
<1>1. CASE \E d \in Datagrams : Receive(d)
  BY <1>1, ReceiveTracks, ReceiveCounts
<1>2. CASE Publishes
  <2>1. UNCHANGED <<tracker, seq_gaps, agent_run>>
    BY <1>2 DEF Publishes, CacheSession, SendFrame
  <2> QED
    BY <1>2, <2>1, SendLogs, LogStays
<1>3. CASE Elsewhere
  <2>1. Log' = Log /\ UNCHANGED <<tracker, seq_gaps, agent_run>>
    BY <1>3, HubIsLeftAlone DEF hubVars, Log
  <2> QED
    BY <2>1, LogStays
<1> QED
  BY <1>1, <1>2, <1>3 DEF Next, Elsewhere

-----------------------------------------------------------------------------
(* The theorems.                                                           *)

LEMMA InitIInv == Init => IInv
<1> SUFFICES ASSUME Init PROVE IInv
  OBVIOUS
<1>1. TypeOK
  BY TypeInit
<1>2. PublishIsOrdered /\ CacheIsLatest
  BY DEF Init, PublishIsOrdered, CacheIsLatest
<1>3. ASSUME NEW c \in Clients PROVE RelayInv(c)
  BY DEF Init, RelayInv, RelayIsExact, RelayIsOpen, RelayIsInOrder, HandIsExact,
         NoHolesOf, GreetingIsLatest
<1>4. SlotsAreCounted
  <2>1. LiveOnes = {} /\ Occupied = {}
    BY DEF Init, LiveOnes, Occupied, Live
  <2> QED
    BY <2>1, FS_EmptySet, ParametersAssumption
    DEF Init, SlotsAreCounted, ParametersAssumption
<1>5. TrackerIsLatest /\ GapsAreExact
  <2>1. Log = <<>>
    BY DEF Init, Log
  <2>2. \A r : BatchesOf(r) = {} /\ Rises(r) = {}
    BY <2>1 DEF BatchesOf, Rises
  <2>3. Skipped = {}
    BY <2>2 DEF Skipped
  <2> QED
    BY <2>1, <2>2, <2>3, FS_EmptySet DEF Init, TrackerIsLatest, GapsAreExact
<1> QED
  BY <1>1, <1>2, <1>3, <1>4, <1>5 DEF IInv, RelayInv

LEMMA NextIInv == IInv /\ [Next]_vars => IInv'
<1> SUFFICES ASSUME IInv, [Next]_vars PROVE IInv'
  OBVIOUS
<1>1. /\ TypeOK /\ PublishIsOrdered /\ CacheIsLatest /\ SlotsAreCounted
      /\ TrackerIsLatest /\ GapsAreExact
      /\ \A c \in Clients : RelayInv(c) /\ RelayIsExact(c)
  BY DEF IInv, RelayInv
<1>2. TypeOK' /\ SlotsAreCounted'
  BY <1>1, StepKeepsSlots
<1>3. PublishIsOrdered' /\ CacheIsLatest'
  BY <1>1, StepKeepsOrder
<1>4. \A c \in Clients : RelayInv(c)'
  BY <1>1, StepKeepsRelay
<1>5. TrackerIsLatest' /\ GapsAreExact'
  BY <1>1, StepKeepsTracker
<1> QED
  BY <1>2, <1>3, <1>4, <1>5 DEF IInv, RelayInv

LEMMA InvariantHolds == Spec => []IInv
<1> QED
  BY InitIInv, NextIInv, PTL DEF Spec

\* For any number of browsers and slots: the slots are never overcommitted, and
\* their counter is exact.
THEOREM SlotsAreSoundHolds == Spec => []SlotsAreSound
<1>1. IInv => SlotsAreSound
  BY DEF IInv, SlotsAreCounted, SlotsAreSound, LiveOnes, Occupied
<1> QED
  BY <1>1, InvariantHolds, PTL

\* For any number of runs and numbers: the gaps counted are the numbers that
\* did not come in their turn.
THEOREM GapsAreExactHolds == Spec => []GapsAreExact
<1>1. IInv => GapsAreExact
  BY DEF IInv
<1> QED
  BY <1>1, InvariantHolds, PTL

LEMMA PositionsFit ==
  ASSUME NEW first \in Nat, NEW g \in Nat, NEW n \in Nat, NEW m \in Nat,
         first > 0, n <= g + m + 1 - first, NEW i \in g + 1..n
  PROVE  /\ first + i - g - 1 \in 1..m /\ first <= first + i - g - 1
         /\ i \in 1..n /\ 1..first + i - g - 1 \subseteq 1..m
OBVIOUS

\* A greeted browser's session is no older than a batch's if the hub knew it.
LEMMA SessionsCameFirst ==
  ASSUME TypeOK, NEW c \in Clients, RelayInv(c),
         NEW i \in greeted[c] + 1..Len(got[c]), got[c][i].kind = "batch",
         NEW k \in 1..PositionOf(c, i), sent[k] = Session(got[c][i].run)
  PROVE  \E j \in 1..i : got[c][j] = Session(got[c][i].run)
<1>1. HoldingTypes
  BY TypesOfHoldings
<1>2. Len(got[c]) \in Nat /\ greeted[c] \in Nat /\ joined[c] \in Nat /\ Len(sent) \in Nat
  BY <1>1 DEF HoldingTypes
<1>3. joined[c] > 0
  BY <1>1 DEF HoldingTypes, RelayInv, RelayIsExact, RelayIsOpen
<1>4. Len(got[c]) <= greeted[c] + Len(sent) + 1 - joined[c]
  BY <1>1, <1>3 DEF HoldingTypes, RelayInv, RelayIsExact, RelayIsInOrder
<1>5. /\ PositionOf(c, i) \in 1..Len(sent) /\ joined[c] <= PositionOf(c, i)
      /\ k \in 1..Len(sent) /\ i \in 1..Len(got[c])
  BY <1>2, <1>3, <1>4, PositionsFit DEF PositionOf
<1>6. got[c][i] = sent[PositionOf(c, i)]
  BY DEF RelayInv, NoHolesOf
<1>7. CASE k >= joined[c]
  <2> DEFINE j == k - joined[c] + greeted[c] + 1
  <2>1. j \in greeted[c] + 1..Len(got[c]) /\ j \in 1..i /\ PositionOf(c, j) = k
    <3> DEFINE F == joined[c]
               G == greeted[c]
               N == Len(got[c])
    <3>1. /\ F \in Nat /\ G \in Nat /\ N \in Nat /\ k \in Nat /\ k >= F
          /\ i \in G + 1..N
      BY <1>2, <1>5, <1>7
    <3>2. k <= F + i - G - 1
      BY <1>2, <1>5 DEF PositionOf
    <3> HIDE DEF F, G, N
    <3>3. /\ k - F + G + 1 \in G + 1..N /\ k - F + G + 1 \in 1..i
          /\ F + (k - F + G + 1) - G - 1 = k
      BY <3>1, <3>2
    <3> QED
      BY <3>3 DEF F, G, N, PositionOf
  <2>2. got[c][j] = sent[k]
    BY <2>1 DEF RelayInv, NoHolesOf
  <2> QED
    BY <2>1, <2>2
<1>8. CASE k < joined[c]
  <2>1. sent[k].kind = "session" /\ sent[k].run = got[c][i].run
    BY DEF Session
  <2>2. greeted[c] = 1 /\ sent[k].run <= Greeting(c).run
    BY <1>3, <1>5, <1>8, <2>1 DEF RelayInv, GreetingIsLatest
  <2>3. Greeting(c).run <= sent[PositionOf(c, i)].run /\ Greeting(c).kind = "session"
    BY <1>3, <1>5, <2>2 DEF RelayInv, GreetingIsLatest
  <2>4. got[c] # <<>> /\ got[c][1] \in Datagrams /\ sent[k].run \in Nat
    BY <1>1, <1>5, Holdings, DatagramKinds DEF HoldingTypes
  <2>5. Greeting(c) = got[c][1]
    BY <2>4 DEF Greeting
  <2>6. got[c][1].run \in Nat /\ got[c][1].run = got[c][i].run
    BY <1>6, <2>1, <2>2, <2>3, <2>4, <2>5, DatagramKinds
  <2>7. got[c][1] = Session(got[c][i].run)
    BY <2>3, <2>4, <2>5, <2>6, DatagramKinds
  <2> QED
    BY <1>2, <2>7
<1> QED
  BY <1>2, <1>5, <1>7, <1>8

\* For any number of browsers, frames and runs: what a browser got has no hole,
\* and a batch comes after its session.
THEOREM ViewIsSoundHolds == Spec => []ViewIsSound
<1>1. IInv => ViewIsSound
  <2> SUFFICES ASSUME IInv PROVE ViewIsSound
    OBVIOUS
  <2>1. \A c \in Clients : RelayInv(c) /\ NoHolesOf(c)
    BY DEF IInv, RelayInv
  <2>2. NoHoles
    BY <2>1 DEF NoHoles, NoHolesOf
  <2>3. SessionFirst
    BY <2>1, SessionsCameFirst DEF SessionFirst, IInv
  <2> QED
    BY <2>2, <2>3 DEF ViewIsSound
<1> QED
  BY <1>1, InvariantHolds, PTL
=============================================================================
