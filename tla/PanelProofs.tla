----------------------------- MODULE PanelProofs -----------------------------
(***************************************************************************)
(* Proofs about the control panel: the manager of its children, its window  *)
(* and the feed between them, then the three together.                      *)
(*                                                                          *)
(* PanelManager, for any number of components and of children: no slot ever *)
(* has two children, every exit is in the books exactly once, and the panel *)
(* leaves no child behind but those it may.  The invariant is stated slot   *)
(* by slot: nearly every action is about one slot, and two facts about a    *)
(* slot (Settled, Passing) carry over to a step that leaves it alone.       *)
(*                                                                          *)
(* PanelWindow: what the page's runtime was asked and has not answered says *)
(* which power states are possible, and a frozen page is known to be frozen *)
(* or its answer is on the way.  The icon and the page are two halves that  *)
(* hardly meet.                                                             *)
(*                                                                          *)
(* PanelFeed: a publisher that waits for work is registered for it, and a   *)
(* window that is shown is in the snapshot under way or has poked.          *)
(***************************************************************************)
EXTENDS MCPanel, FiniteSetTheorems, SequenceTheorems, WellFoundedInduction, TLAPS

\* Children are numbered as they are spawned, and only the last may run.
Numbered(c) ==
    /\ started[c] <= MaxStarts[c]
    /\ \A g \in Generations :
         /\ proc[c][g] = "none" <=> g > started[c]
         /\ proc[c][g] = "running" => g = started[c]

\* The last child is in the slot, or with a stop, or neither; a running one is
\* never neither while the panel lives.
Placed(c) ==
    /\ child[c] \in {0, started[c]} /\ held[c] \in {0, started[c]}
    /\ ~(child[c] # 0 /\ held[c] # 0)
    /\ held[c] # 0 <=> stopper[c] # "nobody"
    /\ held[c] # 0 => mark[c] = "in_stop"
    /\ mark[c] = "in_stop" => child[c] = 0
    /\ mark[c] = "stopping" => child[c] # 0
    /\ Alive => \A g \in Generations :
                  proc[c][g] = "running" => g \in {child[c], held[c]}

\* The marks of a slot say what stops have done to its child.
Marked(c) ==
    \A g \in Generations :
        /\ <<c, g>> \in taken \cup lost => g <= started[c]
        /\ <<c, g>> \in lost => mark[c] = "in_stop" /\ held[c] = 0
        /\ g = child[c] => (mark[c] = "stopping" <=> <<c, g>> \in taken)
        /\ g = held[c] => <<c, g>> \in taken

\* The exits nobody asked for.
Alarms(c) ==
    {g \in Recorded(c) : <<c, g>> \notin taken
                          /\ ~(c \notin Services /\ proc[c][g] = "ended")}

\* The counters of a slot agree with what was there to be recorded.
Booked(c) ==
    Alive => /\ exits[c] = Cardinality(Recorded(c))
             /\ unexpected[c] = Cardinality(Alarms(c))

Settled(c) == Numbered(c) /\ Placed(c) /\ Marked(c) /\ Booked(c)

\* stop_all_within has been to c, or is over.
Passed(c) ==
    panel \in {"draining", "exited"} \/ (panel = "stopping" /\ c \notin todo)

\* What still runs behind stop_all_within is in its own list or is spared.
Passing(c) ==
    /\ stopper[c] = "shutdown" => panel = "stopping" /\ c \notin todo
    /\ Passed(c) => \A g \in Generations :
                      proc[c][g] = "running" =>
                        <<c, g>> \in spared \/ stopper[c] = "shutdown"

\* Only the end kills, and only what was spared.
KilledAreSpared ==
    /\ Alive => killed = {}
    /\ killed \subseteq spared

IInv ==
    /\ TypeOK
    /\ \A c \in Components : Settled(c) /\ Passing(c)
    /\ KilledAreSpared

-----------------------------------------------------------------------------
(* Finite sets of children.                                                *)

LEMMA GenerationsAreFinite ==
    /\ IsFiniteSet(Generations)
    /\ Generations \subseteq Nat \ {0}
<1>1. Generations \subseteq 1..(ServiceStarts + TaskStarts)
  BY ParametersAssumption DEF Generations, MaxStarts, Components
<1>2. IsFiniteSet(1..(ServiceStarts + TaskStarts))
  BY FS_Interval, ParametersAssumption
<1>3. IsFiniteSet(Generations)
  BY <1>1, <1>2, FS_Subset
<1> QED
  BY <1>1, <1>3

LEMMA SubsetsAreFinite ==
  ASSUME NEW S \in SUBSET Generations
  PROVE  IsFiniteSet(S) /\ Cardinality(S) \in Nat
BY GenerationsAreFinite, FS_Subset, FS_CardinalityType

\* One more element, or the same set: what a counter that counts it does.
LEMMA OneMore ==
  ASSUME NEW S \in SUBSET Generations, NEW g \in Generations, g \notin S
  PROVE  Cardinality(S \cup {g}) = Cardinality(S) + 1
BY SubsetsAreFinite, FS_AddElement

LEMMA NumbersOfComponents ==
  ASSUME NEW c \in Components
  PROVE  /\ MaxStarts[c] \in Nat
         /\ \A g \in Nat \ {0} : g <= MaxStarts[c] => g \in Generations
BY ParametersAssumption DEF MaxStarts, Generations

\* The components have a first one, so that stop_all_within's next is defined.
LEMMA FirstComponent ==
  ASSUME NEW S \in SUBSET Components, S # {}
  PROVE  (CHOOSE d \in S : \A e \in S : d <= e) \in S
<1>1. S \subseteq Nat
  BY ParametersAssumption DEF Components
<1> DEFINE less == {nn \in Nat \X Nat : nn[1] < nn[2]}
<1>2. IsWellFoundedOn(less, Nat)
  BY NatLessThanWellFounded, Zenon DEF OpToRel
<1> HIDE DEF less
<1>3. PICK d \in S : \A e \in S : ~(<<e, d>> \in less)
  BY <1>1, <1>2, WFMin
<1>4. ASSUME NEW e \in S
      PROVE  d <= e
  <2>1. d \in Nat /\ e \in Nat /\ ~(<<e, d>> \in less)
    BY <1>1, <1>3
  <2>2. e < d => <<e, d>> \in less
    BY <2>1 DEF less
  <2> QED
    BY <2>1, <2>2
<1> QED
  BY <1>4

-----------------------------------------------------------------------------
(* Steps that leave a slot alone.                                          *)

\* Nothing of slot c changes but who is spared, and nobody ceases to be.
Untouched(c) ==
    /\ started'[c] = started[c] /\ proc'[c] = proc[c]
    /\ child'[c] = child[c] /\ mark'[c] = mark[c]
    /\ exits'[c] = exits[c] /\ unexpected'[c] = unexpected[c]
    /\ stopper'[c] = stopper[c] /\ held'[c] = held[c]
    /\ \A g \in Generations : <<c, g>> \in taken' <=> <<c, g>> \in taken
    /\ \A g \in Generations : <<c, g>> \in lost' <=> <<c, g>> \in lost

LEMMA UntouchedStaysSettled ==
  ASSUME NEW c \in Components, Settled(c), Untouched(c), Alive' => Alive
  PROVE  Settled(c)'
<1> USE DEF Untouched
<1>1. Numbered(c)'
  BY DEF Settled, Numbered
<1>2. Placed(c)'
  BY DEF Settled, Placed
<1>3. Marked(c)'
  BY DEF Settled, Marked
<1>4. Recorded(c)' = Recorded(c)
  BY DEF Recorded, Dead
<1>5. Alarms(c)' = Alarms(c)
  BY <1>4 DEF Alarms, Recorded
<1>6. Booked(c)'
  BY <1>4, <1>5 DEF Settled, Booked
<1> QED
  BY <1>1, <1>2, <1>3, <1>6 DEF Settled

\* The shutdown's side of a slot needs less.
LEMMA PassingStays ==
  ASSUME NEW c \in Components, Passing(c),
         stopper'[c] = stopper[c], UNCHANGED panelVars, spared \subseteq spared',
         \A g \in Generations : proc'[c][g] = "running" => proc[c][g] = "running"
  PROVE  Passing(c)'
BY DEF Passing, Passed, panelVars

-----------------------------------------------------------------------------
(* The exit of a slot's child is recorded: reap and PutBack.               *)

\* The child g of slot c, dead, leaves the slot or its stop and is counted, as
\* an alarm if it is one.
Recording(c, g) ==
    /\ started'[c] = started[c] /\ proc'[c] = proc[c]
    /\ child'[c] = 0 /\ mark'[c] = "no"
    /\ stopper'[c] = "nobody" /\ held'[c] = 0
    /\ exits'[c] = exits[c] + 1
    /\ unexpected'[c] = unexpected[c] +
         Count(c, <<c, g>> \notin taken
                  /\ ~(c \notin Services /\ proc[c][g] = "ended"))
    /\ UNCHANGED <<taken, lost>>

LEMMA RecordingStaysSettled ==
  ASSUME NEW c \in Components, NEW g \in Generations, TypeOK, Settled(c), Alive,
         Dead(c, g), g = child[c] \/ g = held[c], mark[c] = "in_stop" => g = held[c],
         Recording(c, g)
  PROVE  Settled(c)'
<1> USE DEF Recording
<1>1. g = started[c] /\ g \in Nat \ {0} /\ g # 0
  BY GenerationsAreFinite DEF Settled, Placed
<1>2. Numbered(c)'
  BY DEF Settled, Numbered
<1>3. Placed(c)'
  BY <1>1 DEF Settled, Placed, Numbered, Dead, TypeOK
<1>4. <<c, g>> \notin lost
  BY <1>1 DEF Settled, Marked, Placed
<1>5. \A h \in Generations : <<c, h>> \notin lost
  BY <1>1, GenerationsAreFinite DEF Settled, Marked, Placed
<1>6. Marked(c)'
  BY <1>5, GenerationsAreFinite DEF Settled, Marked
<1>7. Recorded(c)' = Recorded(c) \cup {g} /\ g \notin Recorded(c)
  <2>1. {child[c], held[c]} \subseteq {0, g}
    BY <1>1 DEF Settled, Placed
  <2>2. g \in Recorded(c)'
    BY <1>1, <1>4 DEF Recorded, Dead
  <2>3. \A h \in Generations : h # g => (h \in Recorded(c)' <=> h \in Recorded(c))
    BY <2>1, GenerationsAreFinite DEF Recorded, Dead
  <2> QED
    BY <2>2, <2>3 DEF Recorded
<1>8. Booked(c)'
  <2> DEFINE alarm == <<c, g>> \notin taken
                      /\ ~(c \notin Services /\ proc[c][g] = "ended")
  <2>1. Recorded(c) \in SUBSET Generations /\ Alarms(c) \in SUBSET Generations
    BY DEF Recorded, Alarms
  <2>2. Cardinality(Recorded(c)') = Cardinality(Recorded(c)) + 1
    BY <1>7, <2>1, OneMore
  <2>3. CASE alarm
    <3>1. Alarms(c)' = Alarms(c) \cup {g} /\ g \notin Alarms(c)
      BY <1>7, <2>3 DEF Alarms
    <3>2. Cardinality(Alarms(c)') = Cardinality(Alarms(c)) + 1
      BY <3>1, <2>1, OneMore
    <3> QED
      BY <2>2, <2>3, <3>2 DEF Booked, Settled, Count
  <2>4. CASE ~alarm
    <3>1. Alarms(c)' = Alarms(c)
      BY <1>7, <2>4 DEF Alarms
    <3> QED
      BY <2>2, <2>4, <3>1 DEF Booked, Settled, Count, TypeOK
  <2> QED
    BY <2>3, <2>4
<1> QED
  BY <1>2, <1>3, <1>6, <1>8 DEF Settled

LEMMA ReapSettles ==
  ASSUME IInv, Alive, NEW S \in SUBSET Components, ReapSlots(S),
         UNCHANGED <<started, proc, stopVars, taken, lost>>,
         NEW c \in Components
  PROVE  Settled(c)'
<1> USE DEF ReapSlots, stopVars
<1>1. Settled(c) /\ TypeOK
  BY DEF IInv
<1>2. exits[c] \in Nat /\ unexpected[c] \in Nat /\ child[c] \in Generations \cup {0}
  BY <1>1 DEF TypeOK
<1>3. CASE c \in S /\ HasExit(c)
  <2>1. child[c] \in Generations /\ held[c] = 0 /\ stopper[c] = "nobody"
    BY <1>1, <1>2, <1>3 DEF HasExit, Settled, Placed, TypeOK
  <2>2. mark[c] = "stopping" <=> <<c, child[c]>> \in taken
    BY <1>1, <2>1 DEF Settled, Marked
  <2>3. Recording(c, child[c])
    BY <1>2, <1>3, <2>1, <2>2 DEF Recording, Expected, Count
  <2> QED
    BY <1>1, <1>3, <2>1, <2>3, RecordingStaysSettled DEF HasExit
<1>4. CASE ~(c \in S /\ HasExit(c))
  <2>1. Untouched(c)
    BY <1>2, <1>4 DEF Untouched, Count
  <2> QED
    BY <1>1, <2>1, UntouchedStaysSettled
<1> QED
  BY <1>3, <1>4

LEMMA ReapKeepsTypes ==
  ASSUME TypeOK, NEW S \in SUBSET Components, ReapSlots(S)
  PROVE  /\ child' \in [Components -> Generations \cup {0}]
         /\ mark' \in [Components -> {"no", "in_stop", "stopping"}]
         /\ exits' \in [Components -> Nat]
         /\ unexpected' \in [Components -> Nat]
BY DEF TypeOK, ReapSlots, Count

LEMMA PollIInv ==
  ASSUME IInv, NEW c \in Components, Poll(c)
  PROVE  IInv'
<1> USE DEF Poll, stopVars, reaperVars, panelVars, historyVars, Alive
<1>1. TypeOK'
  BY ReapKeepsTypes DEF IInv, TypeOK
<1>2. \A d \in Components : Settled(d)'
  BY ReapSettles
<1>3. \A d \in Components : Passing(d)'
  BY PassingStays DEF IInv
<1> QED
  BY <1>1, <1>2, <1>3 DEF IInv, KilledAreSpared

LEMMA ReapIInv ==
  ASSUME IInv, Reap
  PROVE  IInv'
<1> USE DEF Reap, stopVars, reaperVars, panelVars, historyVars, Alive
<1>1. TypeOK'
  BY ReapKeepsTypes DEF IInv, TypeOK
<1>2. \A d \in Components : Settled(d)'
  BY ReapSettles
<1>3. \A d \in Components : Passing(d)'
  BY PassingStays DEF IInv
<1> QED
  BY <1>1, <1>2, <1>3 DEF IInv, KilledAreSpared

-----------------------------------------------------------------------------
(* Children start, and exit on their own.                                  *)

LEMMA StartSettles ==
  ASSUME IInv, NEW c \in Components, Start(c)
  PROVE  Settled(c)'
<1> DEFINE g == started[c] + 1
           old == child[c]
<1> USE DEF Start, IsGone, stopVars
<1>1. Settled(c) /\ TypeOK /\ Alive
  BY DEF IInv
<1>2. g \in Generations /\ started[c] \in Nat
  BY <1>1, NumbersOfComponents DEF TypeOK, Settled, Numbered
<1>3. /\ started'[c] = g /\ child'[c] = g /\ mark'[c] = "no"
      /\ held'[c] = held[c] /\ stopper'[c] = stopper[c]
      /\ UNCHANGED <<taken, lost>>
  BY <1>1 DEF TypeOK
<1>4. proc'[c] = [proc[c] EXCEPT ![g] = "running"]
      /\ proc[c] \in [Generations -> {"none", "running", "ended", "failed"}]
  BY <1>1 DEF TypeOK
<1>5. held[c] = 0 /\ stopper[c] = "nobody" /\ mark[c] # "in_stop"
  BY <1>1 DEF Settled, Placed, TypeOK
<1>6. \A h \in Generations : proc[c][h] # "running"
  BY <1>1, <1>5, GenerationsAreFinite
     DEF HasExit, Settled, Placed, Numbered, Dead
<1>7. Numbered(c)'
  <2>1. MaxStarts[c]' = MaxStarts[c] /\ g <= MaxStarts[c]
    BY <1>1, <1>2, NumbersOfComponents DEF TypeOK, MaxStarts, Components
  <2>2. ASSUME NEW h \in Generations
        PROVE  /\ proc'[c][h] = "none" <=> h > started'[c]
               /\ proc'[c][h] = "running" => h = started'[c]
    <3>1. h \in Nat
      BY GenerationsAreFinite
    <3>2. CASE h = g
      BY <1>2, <1>3, <1>4, <3>2
    <3>3. CASE h # g
      <4>1. proc'[c][h] = proc[c][h] /\ proc[c][h] # "running"
        BY <1>4, <1>6, <3>3
      <4>2. h > started[c] <=> h > g
        BY <1>2, <3>1, <3>3
      <4> QED
        BY <1>1, <1>3, <4>1, <4>2 DEF Settled, Numbered
    <3> QED
      BY <3>2, <3>3
  <2> QED
    BY <1>3, <2>1, <2>2 DEF Numbered
<1>8. Placed(c)'
  BY <1>2, <1>3, <1>4, <1>5, <1>6 DEF Placed
<1>9. Marked(c)'
  <2>1. ASSUME NEW h \in Generations
        PROVE  /\ <<c, h>> \in taken \cup lost => h <= started[c]
               /\ <<c, h>> \notin lost
    BY <1>1, <1>5 DEF Settled, Marked
  <2>2. \A h \in Generations : h \in Nat /\ h # 0
    BY GenerationsAreFinite
  <2> QED
    BY <1>2, <1>3, <1>5, <2>1, <2>2 DEF Marked
<1>10. Booked(c)'
  <2>1. g \notin Recorded(c) /\ ~Dead(c, g)
    BY <1>1, <1>2, GenerationsAreFinite DEF Recorded, Dead, Settled, Numbered
  <2>2. \A h \in Generations : Dead(c, h)' <=> Dead(c, h)
    BY <1>4, <2>1 DEF Dead
  <2>3. \A h \in Generations : h # g => proc'[c][h] = proc[c][h]
    BY <1>4
  <2>4. /\ Recorded(c) \in SUBSET Generations
        /\ Alarms(c) \in SUBSET Recorded(c) /\ Alarms(c) \in SUBSET Generations
    BY DEF Recorded, Alarms
  <2>5. exits[c] \in Nat /\ unexpected[c] \in Nat
    BY <1>1 DEF TypeOK
  <2>6. CASE ~HasExit(c)
    <3>1. old = 0
      BY <2>6
    <3>2. Recorded(c)' = Recorded(c)
      BY <1>2, <1>3, <1>5, <2>1, <2>2, <3>1, GenerationsAreFinite DEF Recorded
    <3>3. Alarms(c)' = Alarms(c)
      BY <1>3, <2>1, <2>3, <2>4, <3>2 DEF Alarms
    <3>4. exits'[c] = exits[c] /\ unexpected'[c] = unexpected[c]
      BY <1>1, <2>5, <2>6 DEF Count, TypeOK
    <3> QED
      BY <1>1, <3>2, <3>3, <3>4 DEF Booked, Settled
  <2>7. CASE HasExit(c)
    <3>1. old \in Generations /\ Dead(c, old) /\ old = started[c] /\ old # g
      BY <1>1, <1>2, <2>7 DEF HasExit, TypeOK, Settled, Placed
    <3>2. \A h \in Generations : <<c, h>> \notin lost
      BY <1>1, <1>5 DEF Settled, Marked
    <3>3. Recorded(c)' = Recorded(c) \cup {old} /\ old \notin Recorded(c)
      BY <1>2, <1>3, <1>5, <2>1, <2>2, <3>1, <3>2, GenerationsAreFinite
         DEF Recorded
    <3>4. Cardinality(Recorded(c)') = Cardinality(Recorded(c)) + 1
      BY <2>4, <3>1, <3>3, OneMore
    <3>5. exits'[c] = exits[c] + 1
      BY <1>1, <2>7 DEF Count, TypeOK
    <3>6. mark[c] = "stopping" <=> <<c, old>> \in taken
      BY <1>1, <3>1 DEF Settled, Marked
    <3>7. CASE Expected(c, old, mark[c] = "stopping")
      <4>1. Alarms(c)' = Alarms(c)
        BY <1>3, <2>1, <2>3, <2>4, <3>1, <3>3, <3>6, <3>7 DEF Alarms, Expected
      <4>2. unexpected'[c] = unexpected[c]
        BY <1>1, <2>5, <3>7 DEF Count, TypeOK
      <4> QED
        BY <1>1, <3>4, <3>5, <4>1, <4>2 DEF Booked, Settled
    <3>8. CASE ~Expected(c, old, mark[c] = "stopping")
      <4>1. Alarms(c)' = Alarms(c) \cup {old} /\ old \notin Alarms(c)
        BY <1>3, <2>1, <2>3, <2>4, <3>1, <3>3, <3>6, <3>8 DEF Alarms, Expected
      <4>2. unexpected'[c] = unexpected[c] + 1
        BY <1>1, <2>7, <3>8 DEF Count, TypeOK
      <4>3. Cardinality(Alarms(c)') = Cardinality(Alarms(c)) + 1
        BY <2>4, <3>1, <4>1, OneMore
      <4> QED
        BY <1>1, <3>4, <3>5, <4>2, <4>3 DEF Booked, Settled
    <3> QED
      BY <3>7, <3>8
  <2> QED
    BY <2>6, <2>7
<1> QED
  BY <1>7, <1>8, <1>9, <1>10 DEF Settled

LEMMA StartIInv ==
  ASSUME IInv, NEW c \in Components, Start(c)
  PROVE  IInv'
<1> DEFINE g == started[c] + 1
<1> USE DEF Start, IsGone, stopVars, reaperVars, panelVars
<1>1. TypeOK /\ g \in Generations
  BY NumbersOfComponents DEF IInv, TypeOK, Settled, Numbered
<1>2. TypeOK'
  <2>1. started' \in [Components -> Nat] /\ news' \subseteq Components
        /\ child' \in [Components -> Generations \cup {0}]
        /\ mark' \in [Components -> {"no", "in_stop", "stopping"}]
    BY <1>1 DEF TypeOK
  <2>2. proc' \in [Components -> [Generations -> {"none", "running", "ended", "failed"}]]
    BY <1>1 DEF TypeOK
  <2>3. exits' \in [Components -> Nat] /\ unexpected' \in [Components -> Nat]
    BY <1>1 DEF TypeOK, Count
  <2>4. spared' \subseteq Children
    BY <1>1 DEF TypeOK, Children
  <2> QED
    BY <1>1, <2>1, <2>2, <2>3, <2>4 DEF TypeOK
<1>3. ASSUME NEW d \in Components
      PROVE  Settled(d)'
  <2>1. CASE d = c
    BY <2>1, StartSettles
  <2>2. CASE d # c
    <3>1. Untouched(d)
      BY <1>1, <2>2 DEF Untouched, TypeOK
    <3> QED
      BY <3>1, UntouchedStaysSettled DEF IInv, Alive
  <2> QED
    BY <2>1, <2>2
<1>4. ASSUME NEW d \in Components
      PROVE  Passing(d)'
  <2>1. spared \subseteq spared'
    BY Zenon
  <2>2. CASE d = c
    <3>1. stopper'[c] = stopper[c] /\ (Passed(c)' <=> Late(c))
      BY DEF Passed, Late, Alive
    <3>2. Late(c) => <<c, g>> \in spared'
      BY Zenon
    <3>3. \A h \in Generations : proc'[c][h] = "running" =>
                                  proc[c][h] = "running" \/ h = g
      BY <1>1 DEF TypeOK
    <3> QED
      BY <2>1, <2>2, <3>1, <3>2, <3>3 DEF IInv, Passing, Passed, Late, Alive
  <2>3. CASE d # c
    <3>1. proc'[d] = proc[d]
      BY <1>1, <2>3 DEF TypeOK
    <3> QED
      BY <2>1, <3>1, PassingStays DEF IInv
  <2> QED
    BY <2>2, <2>3
<1>5. KilledAreSpared'
  BY DEF IInv, KilledAreSpared, Alive
<1> QED
  BY <1>2, <1>3, <1>4, <1>5 DEF IInv

LEMMA ExitsIInv ==
  ASSUME IInv, NEW c \in Components, Exits(c)
  PROVE  IInv'
<1> USE DEF Exits, slotVars, stopVars, reaperVars, panelVars, historyVars
<1>1. PICK g \in Generations, how \in {"ended", "failed"} :
        proc[c][g] = "running" /\ proc' = [proc EXCEPT ![c][g] = how]
  OBVIOUS
<1>2. TypeOK /\ TypeOK'
  BY <1>1 DEF IInv, TypeOK
<1>3. proc'[c] = [proc[c] EXCEPT ![g] = how]
      /\ proc[c] \in [Generations -> {"none", "running", "ended", "failed"}]
  BY <1>1, <1>2 DEF TypeOK
<1>4. Settled(c)'
  <2>1. Settled(c) /\ g = started[c] /\ g # 0
    BY <1>1, GenerationsAreFinite DEF IInv, Settled, Numbered
  <2>2. Numbered(c)'
    <3>1. \A h \in Generations :
            /\ h # g => proc'[c][h] = proc[c][h]
            /\ h = g => proc'[c][h] = how /\ ~(h > started[c])
      BY <1>3, <2>1, GenerationsAreFinite
    <3> QED
      BY <2>1, <3>1 DEF Settled, Numbered
  <2>3. Placed(c)'
    BY <1>3, <2>1 DEF Settled, Placed, Alive
  <2>4. Marked(c)'
    BY <2>1 DEF Settled, Marked
  <2>5. Booked(c)'
    <3> SUFFICES ASSUME Alive PROVE Booked(c)'
      BY DEF Booked, Alive
    <3>1. g \in {child[c], held[c]}
      BY <1>1, <2>1 DEF Settled, Placed
    <3>2. Recorded(c)' = Recorded(c)
      BY <1>3, <3>1 DEF Recorded, Dead
    <3>3. Alarms(c)' = Alarms(c)
      BY <1>3, <3>1, <3>2 DEF Alarms, Recorded
    <3> QED
      BY <2>1, <3>2, <3>3 DEF Booked, Settled
  <2> QED
    BY <2>2, <2>3, <2>4, <2>5 DEF Settled
<1>5. ASSUME NEW d \in Components
      PROVE  Settled(d)'
  <2>1. CASE d # c
    <3>1. Untouched(d)
      BY <1>1, <1>2, <2>1 DEF Untouched, TypeOK
    <3> QED
      BY <3>1, UntouchedStaysSettled DEF IInv, Alive
  <2> QED
    BY <1>4, <2>1
<1>6. ASSUME NEW d \in Components
      PROVE  Passing(d)'
  <2>1. \A h \in Generations : proc'[d][h] = "running" => proc[d][h] = "running"
    BY <1>1, <1>2 DEF TypeOK
  <2> QED
    BY <2>1, PassingStays DEF IInv
<1> QED
  BY <1>2, <1>5, <1>6 DEF IInv, KilledAreSpared, Alive

-----------------------------------------------------------------------------
(* Stops.                                                                  *)

\* Whoever detaches: the slot of c is settled with its child taken out, and
\* the others are as they were.
LEMMA TakeOutSettles ==
  ASSUME IInv, NEW c \in Components, NEW who \in {"page", "tray", "shutdown"},
         CanDetach(c), TakeOut(c, who), UNCHANGED <<started, proc, lost>>,
         Alive, NEW d \in Components
  PROVE  Settled(d)'
<1> USE DEF CanDetach, TakeOut, IsGone
<1>1. TypeOK /\ Settled(c) /\ Settled(d)
  BY DEF IInv
<1>2. /\ child[c] \in Generations /\ child[c] = started[c] /\ child[c] # 0
      /\ held[c] = 0 /\ mark[c] # "in_stop"
  BY <1>1, GenerationsAreFinite DEF TypeOK, Settled, Placed
<1>3. CASE d = c
  <2>1. /\ child'[c] = 0 /\ mark'[c] = "in_stop" /\ stopper'[c] = who
        /\ held'[c] = child[c] /\ UNCHANGED <<started, proc, lost>>
    BY <1>1 DEF TypeOK
  <2>2. Numbered(c)'
    BY <1>1, <2>1 DEF Settled, Numbered
  <2>3. Placed(c)'
    BY <1>1, <1>2, <2>1 DEF Settled, Placed, Alive
  <2>4. Marked(c)'
    <3>1. \A h \in Generations : <<c, h>> \notin lost
      BY <1>1, <1>2 DEF Settled, Marked
    <3>2. \A h \in Generations : h # 0 /\ h \in Nat
      BY GenerationsAreFinite
    <3>3. \A h \in Generations : <<c, h>> \in taken => h <= started[c]
      BY <1>1 DEF Settled, Marked
    <3>4. started[c] \in Nat
      BY <1>1 DEF TypeOK
    <3> QED
      BY <1>2, <2>1, <3>1, <3>2, <3>3, <3>4 DEF Marked
  <2>5. Recorded(c)' = Recorded(c)
    BY <1>2, <2>1, GenerationsAreFinite DEF Recorded, Dead
  <2>6. Alarms(c)' = Alarms(c)
    <3>1. child[c] \notin Recorded(c)
      BY DEF Recorded
    <3> QED
      BY <2>1, <2>5, <3>1 DEF Alarms
  <2>7. Booked(c)'
    BY <1>1, <2>5, <2>6 DEF Settled, Booked
  <2> QED
    BY <1>3, <2>2, <2>3, <2>4, <2>7 DEF Settled
<1>4. CASE d # c
  <2>1. Untouched(d)
    BY <1>1, <1>4 DEF Untouched, TypeOK
  <2> QED
    BY <1>1, <2>1, UntouchedStaysSettled DEF Alive
<1> QED
  BY <1>3, <1>4

LEMMA TakeOutKeepsTypes ==
  ASSUME TypeOK, NEW c \in Components, NEW who \in {"page", "tray", "shutdown"},
         CanDetach(c), TakeOut(c, who)
  PROVE  /\ child' \in [Components -> Generations \cup {0}]
         /\ mark' \in [Components -> {"no", "in_stop", "stopping"}]
         /\ stopper' \in [Components -> {"nobody", "page", "tray", "shutdown"}]
         /\ held' \in [Components -> Generations \cup {0}]
         /\ taken' \subseteq Children
         /\ UNCHANGED <<exits, unexpected>>
<1>1. child[c] \in Generations
  BY DEF TypeOK, CanDetach, IsGone
<1> QED
  BY <1>1 DEF TypeOK, TakeOut, Children

LEMMA StopIInv ==
  ASSUME IInv, NEW c \in Components, NEW who \in {"page", "tray"}, Stop(c, who)
  PROVE  IInv'
<1> USE DEF Stop, reaperVars, panelVars
<1>1. TypeOK'
  BY TakeOutKeepsTypes DEF IInv, TypeOK
<1>2. \A d \in Components : Settled(d)'
  BY TakeOutSettles
<1>3. ASSUME NEW d \in Components
      PROVE  Passing(d)'
  <2>1. stopper'[d] = "shutdown" <=> stopper[d] = "shutdown"
    <3>1. stopper[c] = "nobody"
      BY DEF IInv, TypeOK, Settled, Placed, CanDetach, TakeOut
    <3> QED
      BY <3>1 DEF IInv, TypeOK, TakeOut
  <2> QED
    BY <2>1 DEF IInv, Passing, Passed
<1> QED
  BY <1>1, <1>2, <1>3 DEF IInv, KilledAreSpared, Alive

\* A child comes back to its slot: recorded if it is dead, marked if it is not.
LEMMA PutBackSettles ==
  ASSUME IInv, NEW c \in Components, ItsTurn(c), PutBack(c), NEW d \in Components
  PROVE  Settled(d)'
<1> DEFINE g == held[c]
<1> USE DEF ItsTurn, PutBack
<1>1. TypeOK /\ Settled(c) /\ Settled(d) /\ Alive
  BY DEF IInv
<1>2. /\ g \in Generations /\ g # 0 /\ g = started[c] /\ child[c] = 0
      /\ mark[c] = "in_stop" /\ <<c, g>> \in taken
  BY <1>1, GenerationsAreFinite DEF TypeOK, Settled, Placed, Marked
<1>3. /\ stopper'[c] = "nobody" /\ held'[c] = 0
      /\ UNCHANGED <<started, proc, unexpected, taken, lost>>
  BY <1>1 DEF TypeOK
<1>4. CASE d = c /\ Dead(c, g)
  <2>1. Recording(c, g)
    BY <1>1, <1>2, <1>3, <1>4 DEF Recording, Count, TypeOK
  <2> QED
    BY <1>1, <1>2, <1>4, <2>1, RecordingStaysSettled
<1>5. CASE d = c /\ ~Dead(c, g)
  <2>1. child'[c] = g /\ mark'[c] = "stopping" /\ exits'[c] = exits[c]
    BY <1>1, <1>5 DEF TypeOK, Count
  <2>2. Numbered(c)'
    BY <1>1, <1>3 DEF Settled, Numbered
  <2>3. Placed(c)'
    BY <1>1, <1>2, <1>3, <2>1 DEF Settled, Placed, Alive
  <2>4. Marked(c)'
    <3>1. \A h \in Generations : h # 0 /\ <<c, h>> \notin lost
      BY <1>1, <1>2, GenerationsAreFinite DEF Settled, Marked
    <3> QED
      BY <1>1, <1>2, <1>3, <2>1, <3>1 DEF Settled, Marked
  <2>5. Recorded(c)' = Recorded(c)
    BY <1>2, <1>3, <2>1, GenerationsAreFinite DEF Recorded, Dead
  <2>6. Alarms(c)' = Alarms(c)
    BY <1>3, <2>5 DEF Alarms
  <2>7. Booked(c)'
    BY <1>1, <1>3, <2>1, <2>5, <2>6 DEF Settled, Booked
  <2> QED
    BY <1>5, <2>2, <2>3, <2>4, <2>7 DEF Settled
<1>6. CASE d # c
  <2>1. Untouched(d)
    BY <1>1, <1>3, <1>6 DEF Untouched, TypeOK
  <2> QED
    BY <1>1, <2>1, UntouchedStaysSettled DEF Alive
<1> QED
  BY <1>4, <1>5, <1>6

LEMMA PutBackKeepsTypes ==
  ASSUME TypeOK, NEW c \in Components, PutBack(c)
  PROVE  /\ child' \in [Components -> Generations \cup {0}]
         /\ mark' \in [Components -> {"no", "in_stop", "stopping"}]
         /\ exits' \in [Components -> Nat]
         /\ stopper' \in [Components -> {"nobody", "page", "tray", "shutdown"}]
         /\ held' \in [Components -> Generations \cup {0}]
         /\ news' \subseteq Components
BY DEF TypeOK, PutBack, Count

LEMMA PutBackIInv ==
  ASSUME IInv, NEW c \in Components, Ends(c) \/ Survives(c)
  PROVE  IInv'
<1> DEFINE g == held[c]
<1>1. /\ TypeOK /\ ItsTurn(c) /\ PutBack(c) /\ g \in Generations
      /\ g = started[c] /\ stopper[c] # "nobody"
  BY DEF IInv, Ends, Survives, ItsTurn, TypeOK, Settled, Placed
<1>2. spared \subseteq spared' /\ spared' \subseteq Children
  BY <1>1 DEF Ends, Survives, TypeOK, Children
<1>3. TypeOK'
  BY <1>1, <1>2, PutBackKeepsTypes DEF PutBack, TypeOK, reaperVars, panelVars
<1>4. \A d \in Components : Settled(d)'
  BY <1>1, PutBackSettles
<1>5. UNCHANGED <<proc, panel, todo, killed>>
  BY <1>1 DEF PutBack, panelVars
<1>6. ASSUME NEW d \in Components
      PROVE  Passing(d)'
  <2>1. CASE d = c
    <3>1. stopper'[c] = "nobody"
      BY <1>1 DEF PutBack, TypeOK
    <3>2. \A h \in Generations : proc[c][h] = "running" =>
             h = g /\ <<c, h>> \in spared'
      BY <1>1 DEF Ends, Survives, Dead, IInv, Settled, Numbered
    <3> QED
      BY <1>5, <2>1, <3>1, <3>2 DEF Passing
  <2>2. CASE d # c
    <3>1. stopper'[d] = stopper[d]
      BY <1>1, <2>2 DEF PutBack, TypeOK
    <3> QED
      BY <1>2, <1>5, <3>1, PassingStays DEF IInv, panelVars
  <2> QED
    BY <2>1, <2>2
<1> QED
  BY <1>1, <1>2, <1>3, <1>4, <1>5, <1>6 DEF IInv, KilledAreSpared, ItsTurn, Alive

\* A held child dies by its stop's hand, which keeps it or lets go of it.
LEMMA KillsIInv ==
  ASSUME IInv, NEW c \in Components, Kills(c)
  PROVE  IInv'
<1> DEFINE g == held[c]
<1> USE DEF Kills, slotVars, stopVars, reaperVars, panelVars, historyVars
<1>1. TypeOK /\ Settled(c) /\ g \in Generations /\ g = started[c] /\ g # 0
  BY GenerationsAreFinite DEF IInv, ItsTurn, TypeOK, Settled, Placed
<1>2. TypeOK'
  BY <1>1 DEF TypeOK
<1>3. proc'[c] = [proc[c] EXCEPT ![g] = "failed"]
      /\ proc[c] \in [Generations -> {"none", "running", "ended", "failed"}]
  BY <1>1 DEF TypeOK
<1>4. Settled(c)'
  <2>1. Numbered(c)'
    <3>1. \A h \in Generations :
            /\ h # g => proc'[c][h] = proc[c][h]
            /\ h = g => proc'[c][h] = "failed" /\ ~(h > started[c])
      BY <1>1, <1>3, GenerationsAreFinite
    <3> QED
      BY <1>1, <3>1 DEF Settled, Numbered
  <2>2. Placed(c)'
    BY <1>1, <1>3 DEF Settled, Placed, Alive
  <2>3. Marked(c)'
    BY <1>1 DEF Settled, Marked
  <2>4. Recorded(c)' = Recorded(c)
    BY <1>3 DEF Recorded, Dead
  <2>5. Alarms(c)' = Alarms(c)
    BY <1>3, <2>4 DEF Alarms, Recorded
  <2>6. Booked(c)'
    BY <1>1, <2>4, <2>5 DEF Settled, Booked, Alive
  <2> QED
    BY <2>1, <2>2, <2>3, <2>6 DEF Settled
<1>5. ASSUME NEW d \in Components
      PROVE  Settled(d)'
  <2>1. CASE d # c
    <3>1. Untouched(d)
      BY <1>1, <2>1 DEF Untouched, TypeOK
    <3> QED
      BY <3>1, UntouchedStaysSettled DEF IInv, Alive
  <2> QED
    BY <1>4, <2>1
<1>6. ASSUME NEW d \in Components
      PROVE  Passing(d)'
  <2>1. \A h \in Generations : proc'[d][h] = "running" => proc[d][h] = "running"
    BY <1>1 DEF TypeOK
  <2> QED
    BY <2>1, PassingStays DEF IInv
<1> QED
  BY <1>2, <1>5, <1>6 DEF IInv, KilledAreSpared, Alive

LEMMA AbandonIInv ==
  ASSUME IInv, NEW c \in Components, Abandon(c)
  PROVE  IInv'
<1> DEFINE g == held[c]
<1> USE DEF Abandon, slotVars, reaperVars, panelVars
<1>1. /\ TypeOK /\ Settled(c) /\ Alive /\ g \in Generations /\ g = started[c]
      /\ g # 0 /\ mark[c] = "in_stop" /\ child[c] = 0 /\ <<c, g>> \in taken
  BY GenerationsAreFinite DEF IInv, TypeOK, Settled, Placed, Marked
<1>2. TypeOK'
  <2>1. proc' \in [Components -> [Generations -> {"none", "running", "ended", "failed"}]]
    BY <1>1 DEF TypeOK
  <2>2. lost' \subseteq Children
    BY <1>1 DEF TypeOK, Children
  <2> QED
    BY <1>1, <2>1, <2>2 DEF TypeOK
<1>3. /\ \A h \in Generations : h # g => proc'[c][h] = proc[c][h]
      /\ proc'[c][g] \in {"ended", "failed"}
  BY <1>1 DEF TypeOK, Dead
<1>4. stopper'[c] = "nobody" /\ held'[c] = 0 /\ lost' = lost \cup {<<c, g>>}
  BY <1>1 DEF TypeOK
<1>5. Settled(c)'
  <2>1. Numbered(c)'
    <3>1. \A h \in Generations : h \in Nat
      BY GenerationsAreFinite
    <3> QED
      BY <1>1, <1>3, <3>1 DEF Settled, Numbered
  <2>2. Placed(c)'
    <3>1. \A h \in Generations : proc'[c][h] # "running"
      BY <1>1, <1>3 DEF Settled, Numbered
    <3> QED
      BY <1>1, <1>4, <3>1 DEF Settled, Placed, Alive
  <2>3. Marked(c)'
    <3>1. \A h \in Generations : h # 0 /\ h \in Nat
      BY GenerationsAreFinite
    <3> QED
      BY <1>1, <1>4, <3>1 DEF Settled, Marked
  <2>4. Recorded(c)' = Recorded(c)
    <3>1. ASSUME NEW h \in Generations
          PROVE  h \in Recorded(c)' <=> h \in Recorded(c)
      <4>1. CASE h = g
        BY <1>4, <4>1 DEF Recorded
      <4>2. CASE h # g
        <5>1. Dead(c, h)' <=> Dead(c, h)
          BY <1>3, <4>2 DEF Dead
        <5>2. h # 0
          BY GenerationsAreFinite
        <5> QED
          BY <1>1, <1>4, <4>2, <5>1, <5>2 DEF Recorded
      <4> QED
        BY <4>1, <4>2
    <3> QED
      BY <3>1 DEF Recorded
  <2>5. Alarms(c)' = Alarms(c)
    <3>1. g \notin Recorded(c)
      BY DEF Recorded
    <3> QED
      BY <1>3, <2>4, <3>1 DEF Alarms, Recorded
  <2>6. Booked(c)'
    BY <1>1, <2>4, <2>5 DEF Settled, Booked
  <2> QED
    BY <2>1, <2>2, <2>3, <2>6 DEF Settled
<1>6. ASSUME NEW d \in Components
      PROVE  Settled(d)'
  <2>1. CASE d # c
    <3>1. Untouched(d)
      BY <1>1, <2>1 DEF Untouched, TypeOK
    <3> QED
      BY <3>1, UntouchedStaysSettled DEF IInv, Alive
  <2> QED
    BY <1>5, <2>1
<1>7. ASSUME NEW d \in Components
      PROVE  Passing(d)'
  <2>1. \A h \in Generations : proc'[d][h] = "running" => proc[d][h] = "running"
    BY <1>1 DEF TypeOK
  <2>2. stopper'[d] = "shutdown" <=> stopper[d] = "shutdown"
    BY <1>1 DEF TypeOK
  <2> QED
    BY <2>1, <2>2 DEF IInv, Passing, Passed
<1> QED
  BY <1>2, <1>6, <1>7 DEF IInv, KilledAreSpared, Alive

-----------------------------------------------------------------------------
(* The reaper's waits, and the shutdown.                                   *)

\* Notifying, and the reaper's waiting, leave the slots as they are.
LEMMA WaitsIInv ==
  ASSUME IInv, ReaperWaits \/ \E c \in Components : NotifyWork(c)
  PROVE  IInv'
<1> USE DEF slotVars, stopVars, panelVars, historyVars, Alive
<1>1. UNCHANGED <<started, proc, slotVars, stopVars, panelVars, historyVars>>
  BY DEF ReaperWaits, NotifyWork
<1>2. TypeOK'
  <2>1. news' \subseteq Components
    BY DEF ReaperWaits, NotifyWork, IInv, TypeOK
  <2>2. reaper' \in {"ask", "asked", "waiting", "sleeping"}
    BY DEF ReaperWaits, NotifyWork, AsksRunning, Awaits, Wakes, IInv, TypeOK
  <2>3. woken' \in BOOLEAN
    <3>1. CASE ReaperWaits
      BY <3>1 DEF ReaperWaits, AsksRunning, Awaits, Wakes, IInv, TypeOK
    <3>2. CASE \E c \in Components : NotifyWork(c)
      BY <3>2, Zenon DEF NotifyWork
    <3> QED
      BY <3>1, <3>2
  <2> QED
    BY <1>1, <2>1, <2>2, <2>3 DEF IInv, TypeOK
<1>3. ASSUME NEW d \in Components
      PROVE  Settled(d)' /\ Passing(d)'
  <2>1. Untouched(d)
    BY <1>1 DEF Untouched
  <2> QED
    BY <1>1, <2>1, UntouchedStaysSettled, PassingStays DEF IInv
<1> QED
  BY <1>1, <1>2, <1>3 DEF IInv, KilledAreSpared

LEMMA SignalIInv ==
  ASSUME IInv, Signal
  PROVE  IInv'
<1> USE DEF Signal, slotVars, stopVars, reaperVars, historyVars, Alive
<1>1. TypeOK'
  BY DEF IInv, TypeOK
<1>2. ASSUME NEW d \in Components
      PROVE  Settled(d)' /\ Passing(d)'
  <2>1. Untouched(d)
    BY DEF Untouched
  <2>2. Passing(d)'
    BY DEF IInv, Passing, Passed
  <2> QED
    BY <2>1, <2>2, UntouchedStaysSettled DEF IInv
<1> QED
  BY <1>1, <1>2 DEF IInv, KilledAreSpared

LEMMA ShutdownTakesIInv ==
  ASSUME IInv, ShutdownTakes
  PROVE  IInv'
<1> DEFINE c == CHOOSE d \in todo : \A e \in todo : d <= e
<1>1. /\ TypeOK /\ Alive /\ Alive' /\ panel = "stopping" /\ panel' = "stopping"
      /\ todo \subseteq Components /\ todo # {} /\ todo' = todo \ {c}
      /\ UNCHANGED <<started, proc, news, reaper, woken, lost, killed>>
  BY DEF ShutdownTakes, reaperVars, IInv, TypeOK, Alive
<1>2. c \in Components
  BY <1>1, FirstComponent
<1>3. \/ CanDetach(c) /\ TakeOut(c, "shutdown") /\ UNCHANGED spared
      \/ /\ ~CanDetach(c) /\ ReapSlots({c}) /\ UNCHANGED <<stopper, held, taken>>
         /\ spared' = IF held[c] = 0 THEN spared ELSE spared \cup {<<c, held[c]>>}
  BY DEF ShutdownTakes, stopVars
<1> HIDE DEF c
<1>4. CASE CanDetach(c) /\ TakeOut(c, "shutdown") /\ UNCHANGED spared
  <2>1. TypeOK'
    BY <1>1, <1>2, <1>4, TakeOutKeepsTypes DEF TypeOK
  <2>2. \A d \in Components : Settled(d)'
    BY <1>1, <1>2, <1>4, TakeOutSettles
  <2>3. ASSUME NEW d \in Components
        PROVE  Passing(d)'
    <3>1. stopper'[c] = "shutdown" /\ (d # c => stopper'[d] = stopper[d])
      BY <1>1, <1>2, <1>4 DEF TypeOK, TakeOut
    <3> QED
      BY <1>1, <1>4, <3>1 DEF IInv, Passing, Passed
  <2> QED
    BY <1>1, <1>4, <2>1, <2>2, <2>3 DEF IInv, KilledAreSpared
<1>5. CASE /\ ~CanDetach(c) /\ ReapSlots({c}) /\ UNCHANGED <<stopper, held, taken>>
           /\ spared' = IF held[c] = 0 THEN spared ELSE spared \cup {<<c, held[c]>>}
  <2>1. spared \subseteq spared' /\ spared' \subseteq Children
    BY <1>1, <1>2, <1>5 DEF TypeOK, Children
  <2>2. TypeOK'
    BY <1>1, <1>2, <1>5, <2>1, ReapKeepsTypes DEF TypeOK
  <2>3. \A d \in Components : Settled(d)'
    BY <1>1, <1>2, <1>5, ReapSettles DEF stopVars
  <2>4. ASSUME NEW d \in Components
        PROVE  Passing(d)'
    <3>1. CASE d = c
      <4>1. \A g \in Generations : proc[c][g] = "running" => <<c, g>> \in spared'
        BY <1>1, <1>2, <1>5, GenerationsAreFinite
           DEF IInv, CanDetach, IsGone, HasExit, Dead, Settled, Placed
      <4>2. stopper[c] = "shutdown" => c \notin todo'
        BY <1>1, <1>2 DEF IInv, Passing
      <4> QED
        BY <1>1, <1>5, <3>1, <4>1, <4>2 DEF Passing
    <3>2. CASE d # c
      BY <1>1, <1>5, <2>1, <3>2 DEF IInv, Passing, Passed
    <3> QED
      BY <3>1, <3>2
  <2> QED
    BY <1>1, <2>1, <2>2, <2>3, <2>4 DEF IInv, KilledAreSpared
<1> QED
  BY <1>3, <1>4, <1>5

LEMMA ShutdownReturnsIInv ==
  ASSUME IInv, ShutdownReturns
  PROVE  IInv'
<1> USE DEF ShutdownReturns, slotVars, stopVars, reaperVars, historyVars
<1>1. TypeOK'
  BY DEF IInv, TypeOK
<1>2. ASSUME NEW d \in Components
      PROVE  Settled(d)' /\ Passing(d)'
  <2>1. Untouched(d) /\ (Alive' => Alive)
    BY DEF Untouched, Alive
  <2>2. Passing(d)'
    BY DEF IInv, Passing, Passed
  <2> QED
    BY <2>1, <2>2, UntouchedStaysSettled DEF IInv
<1> QED
  BY <1>1, <1>2 DEF IInv, KilledAreSpared, Alive

LEMMA ExitIInv ==
  ASSUME IInv, Exit
  PROVE  IInv'
<1> DEFINE left == {n \in Children : proc[n[1]][n[2]] = "running"
                                      /\ n[2] \in {child[n[1]], held[n[1]]}}
<1>1. /\ TypeOK /\ panel = "draining" /\ panel' = "exited" /\ killed' = left
      /\ proc' = [c \in Components |-> [g \in Generations |->
                    IF <<c, g>> \in left THEN "failed" ELSE proc[c][g]]]
      /\ UNCHANGED <<started, slotVars, stopVars, news, reaperVars, todo, taken,
                     lost, spared>>
  BY DEF IInv, Exit
<1>2. ASSUME NEW c \in Components, NEW g \in Generations
      PROVE  /\ <<c, g>> \in left <=> /\ proc[c][g] = "running"
                                      /\ g \in {child[c], held[c]}
             /\ <<c, g>> \in left => proc'[c][g] = "failed"
             /\ <<c, g>> \notin left => proc'[c][g] = proc[c][g]
  BY <1>1 DEF Children
<1>3. ASSUME NEW c \in Components, NEW g \in Generations, proc[c][g] = "running"
      PROVE  <<c, g>> \in spared
  BY <1>1, <1>3 DEF IInv, Passing, Passed
<1>4. left \subseteq spared
  BY <1>3 DEF Children
<1>5. left \subseteq Children
  OBVIOUS
<1> HIDE DEF left
<1>6. TypeOK'
  <2>1. proc' \in [Components -> [Generations -> {"none", "running", "ended", "failed"}]]
    BY <1>1 DEF TypeOK
  <2> QED
    BY <1>1, <1>5, <2>1 DEF TypeOK, slotVars, stopVars, reaperVars
<1>7. ASSUME NEW c \in Components
      PROVE  Settled(c)' /\ Passing(c)'
  <2> USE DEF slotVars, stopVars
  <2>1. Settled(c) /\ Passing(c)
    BY DEF IInv
  <2>2. \A g \in Generations : proc'[c][g] = "running" => proc[c][g] = "running"
    BY <1>2
  <2>3. \A g \in Generations : proc'[c][g] = "none" <=> proc[c][g] = "none"
    BY <1>2
  <2>4. Numbered(c)'
    BY <1>1, <2>1, <2>2, <2>3 DEF Settled, Numbered
  <2>5. Placed(c)'
    BY <1>1, <2>1 DEF Settled, Placed, Alive
  <2>6. Marked(c)'
    BY <1>1, <2>1 DEF Settled, Marked
  <2>7. Booked(c)'
    BY <1>1 DEF Booked, Alive
  <2>8. stopper[c] # "shutdown"
    BY <1>1, <2>1 DEF Passing
  <2>9. Passing(c)'
    BY <1>1, <1>3, <2>2, <2>8 DEF Passing
  <2> QED
    BY <2>4, <2>5, <2>6, <2>7, <2>9 DEF Settled
<1> QED
  BY <1>1, <1>4, <1>6, <1>7 DEF IInv, KilledAreSpared, Alive

-----------------------------------------------------------------------------
(* The invariant, and what follows from it.                                *)

LEMMA InitIInv == Init => IInv
<1> SUFFICES ASSUME Init PROVE IInv
  OBVIOUS
<1> USE DEF Init
<1>1. TypeOK
  BY DEF TypeOK
<1>2. ASSUME NEW c \in Components
      PROVE  Settled(c) /\ Passing(c)
  <2>1. MaxStarts[c] \in Nat /\ \A g \in Generations : g \in Nat /\ g > 0
    BY NumbersOfComponents, GenerationsAreFinite
  <2>2. Numbered(c)
    BY <2>1 DEF Numbered
  <2>3. Placed(c) /\ Marked(c)
    BY <2>1 DEF Placed, Marked
  <2>4. Recorded(c) = {} /\ Alarms(c) = {}
    BY DEF Recorded, Alarms, Dead
  <2>5. Booked(c)
    BY <2>4, FS_EmptySet DEF Booked
  <2>6. Passing(c)
    BY DEF Passing, Passed
  <2> QED
    BY <2>2, <2>3, <2>5, <2>6 DEF Settled
<1> QED
  BY <1>1, <1>2 DEF IInv, KilledAreSpared

LEMMA NextIInv ==
  ASSUME IInv, [Next]_vars
  PROVE  IInv'
<1>1. ASSUME NEW c \in Components,
             \/ Exits(c) \/ Poll(c) \/ Start(c) \/ StopStep(c) \/ Abandon(c)
             \/ NotifyWork(c)
             \/ \E who \in {"page", "tray"} : Stop(c, who)
      PROVE  IInv'
  BY <1>1, ExitsIInv, PollIInv, StartIInv, PutBackIInv, KillsIInv, AbandonIInv,
     WaitsIInv, StopIInv DEF StopStep
<1>2. CASE ReaperWaits \/ Reap
  BY <1>2, WaitsIInv, ReapIInv
<1>3. CASE Signal \/ ShutdownTakes \/ ShutdownReturns \/ Exit
  BY <1>3, SignalIInv, ShutdownTakesIInv, ShutdownReturnsIInv, ExitIInv
<1>4. CASE UNCHANGED vars
  <2> USE <1>4 DEF vars, slotVars, stopVars, reaperVars, panelVars, historyVars
  <2>1. TypeOK'
    BY DEF IInv, TypeOK
  <2>2. ASSUME NEW d \in Components
        PROVE  Settled(d)' /\ Passing(d)'
    <3>1. Untouched(d) /\ (Alive' => Alive)
      BY DEF Untouched, Alive
    <3> QED
      BY <3>1, UntouchedStaysSettled, PassingStays DEF IInv
  <2> QED
    BY <2>1, <2>2 DEF IInv, KilledAreSpared, Alive
<1> QED
  BY <1>1, <1>2, <1>3, <1>4 DEF Next

LEMMA IInvImpliesOneChild == IInv => OneChild
<1> SUFFICES ASSUME IInv, NEW c \in Components
             PROVE  Cardinality(Living(c)) <= 1
  BY DEF OneChild
<1>1. Living(c) \subseteq {started[c]}
  BY DEF IInv, Settled, Numbered, Living
<1>2. IsFiniteSet({started[c]}) /\ Cardinality({started[c]}) = 1
  BY FS_Singleton
<1> QED
  BY <1>1, <1>2, FS_Subset

LEMMA IInvImpliesChildrenAreAccountedFor == IInv => ChildrenAreAccountedFor
<1> SUFFICES ASSUME IInv PROVE ChildrenAreAccountedFor
  OBVIOUS
<1>1. SlotTellsTheTruth
  <2>1. ASSUME NEW c \in Components, Alive, ~Running(c)
        PROVE  Living(c) = {}
    <3>1. child[c] = 0 /\ held[c] = 0
      BY <2>1 DEF Running, IInv, Settled, Placed
    <3> QED
      BY <2>1, <3>1, GenerationsAreFinite DEF Living, IInv, Settled, Placed
  <2> QED
    BY <2>1 DEF SlotTellsTheTruth, IInv, Settled, Placed
<1>2. SlotsAreSound
  BY <1>1, IInvImpliesOneChild DEF SlotsAreSound, IInv
<1>3. ExitsAreExact
  BY DEF ExitsAreExact, IInv, Settled, Booked, Alarms
<1>4. ShutdownLeavesNothing
  <2> SUFFICES ASSUME panel = "exited", NEW n \in Children,
                      n \in killed \/ proc[n[1]][n[2]] = "running"
               PROVE  n \in spared
    BY DEF ShutdownLeavesNothing, IInv, TypeOK
  <2>1. CASE n \in killed
    BY <2>1 DEF IInv, KilledAreSpared
  <2>2. CASE proc[n[1]][n[2]] = "running"
    <3>1. n[1] \in Components /\ n[2] \in Generations /\ n = <<n[1], n[2]>>
      BY DEF Children
    <3> QED
      BY <2>2, <3>1 DEF IInv, Passing, Passed
  <2> QED
    BY <2>1, <2>2
<1> QED
  BY <1>2, <1>3, <1>4 DEF ChildrenAreAccountedFor

LEMMA Invariance == Spec => []IInv
<1>1. IInv /\ [Next]_vars => IInv'
  BY NextIInv
<1> QED
  BY InitIInv, <1>1, PTL DEF Spec

\* However many components and children, and however starts, stops, dropped
\* stops, reads, the reaper and the shutdown interleave: no component ever has
\* two children, no slot is called empty over a running child, every exit is
\* in the books once and under the right heading, and the panel's end leaves no
\* child running or kills none but a spared one (Slot, reap, start, detach,
\* finish_stops, stop_all_within).
THEOREM ChildrenAreAccountedForHolds == Spec => []ChildrenAreAccountedFor
BY Invariance, IInvImpliesChildrenAreAccountedFor, PTL

-----------------------------------------------------------------------------
(* The window.                                                             *)

WindowStages == {"born", "known", "making", "opened", "running", "closing", "ended"}
Powers == {"visible", "hidden_awake", "suspending", "suspended"}
Pages == [phase : {"idle", "creating", "hosted", "fallback"}, has_page : BOOLEAN, can_suspend : BOOLEAN,
          page_shown : BOOLEAN, nav_retries : Int, power : Powers, text : BOOLEAN, opened : Int]
Runtimes == [env : BOOLEAN, controller : BOOLEAN, navigating : BOOLEAN, asks : Int,
             answers : Seq(BOOLEAN), visible : BOOLEAN, frozen : BOOLEAN]
Frames == [visible : BOOLEAN, exiting : BOOLEAN, swallow : BOOLEAN, session_ending : BOOLEAN]
Trays == [added : BOOLEAN, icon : BOOLEAN]
WindowTypes ==
    /\ ui \in WindowStages
    /\ win \in Frames /\ tray \in Trays /\ web \in Pages /\ rt \in Runtimes
    /\ overlapped \in BOOLEAN /\ stranded \in BOOLEAN

\* Nothing has begun before the loop runs, and the window starts visible.
StartsIdle ==
    /\ ui \in {"born", "known", "making", "opened"} => web.phase = "idle" /\ win.visible
    /\ ui \in {"born", "known", "making"} => ~tray.icon

\* The icon stands where the thread believes it does.
IconIsKnown ==
    /\ ui # "ended" => tray.icon = tray.added
    /\ ui = "ended" => ~tray.icon

\* A page is hosted, and a page that has gone was not frozen.
PageIsHosted ==
    /\ web.has_page => web.phase = "hosted"
    /\ (web.phase = "hosted") = ~web.text
    /\ web.phase = "hosted" /\ ui = "running" => web.has_page
    /\ web.phase # "hosted" => ~rt.frozen
    /\ web.phase = "fallback" => timers = {}
    /\ web.opened <= 1

\* Only a page that has loaded and can be suspended is asked to, and a window
\* that is visible is awake.
SuspensionIsAsked ==
    /\ Len(rt.answers) <= rt.asks
    /\ web.phase \in {"idle", "creating"} => rt.asks = 0
    /\ web.phase = "hosted" /\ win.visible => web.power = "visible"
    /\ web.phase = "hosted" /\ rt.asks > 0 => web.can_suspend /\ web.page_shown
    /\ web.phase = "hosted" /\ rt.asks > 0 /\ ~overlapped =>
          rt.asks = 1 /\ web.power \in {"visible", "suspending"}

\* A frozen page is known to be, or the answer that tells is on its way.
FrozenIsTold ==
    web.phase = "hosted" /\ ~overlapped /\ rt.frozen =>
       \/ web.power = "suspended" /\ rt.asks = 0
       \/ rt.answers # <<>> /\ Head(rt.answers)

DeskInv == StartsIdle /\ IconIsKnown /\ Window!HiddenIsReachable
PageInv == PageIsHosted /\ SuspensionIsAsked /\ FrozenIsTold
WindowInv == WindowTypes /\ DeskInv /\ PageInv

\* Answers wait in a queue of flags.
LEMMA TailOfAnswers ==
  ASSUME NEW s \in Seq(BOOLEAN), s # <<>>
  PROVE  Tail(s) \in Seq(BOOLEAN) /\ Len(Tail(s)) = Len(s) - 1 /\ Len(s) > 0
<1>1. Tail(s) \in Seq(BOOLEAN) /\ Len(Tail(s)) = Len(s) - 1
  BY HeadTailProperties, Zenon
<1>2. Len(s) \in Nat \ {0}
  BY EmptySeq, Zenon
<1> QED
  BY <1>1, <1>2

LEMMA AppendedAnswer ==
  ASSUME NEW s \in Seq(BOOLEAN), NEW ok \in BOOLEAN
  PROVE  /\ Append(s, ok) \in Seq(BOOLEAN) /\ Append(s, ok) # <<>>
         /\ Len(Append(s, ok)) = Len(s) + 1
BY AppendProperties

LEMMA WindowInit == Window!Init => WindowInv
<1> SUFFICES ASSUME Window!Init PROVE WindowInv
  OBVIOUS
<1> USE DEF Window!Init, Window!NewHost, Window!NoRuntime
<1>1. web \in Pages /\ rt \in Runtimes
  BY DEF Pages, Powers, Runtimes
<1>2. win \in Frames /\ tray \in Trays
  BY DEF Frames, Trays
<1>3. overlapped \in BOOLEAN /\ stranded \in BOOLEAN /\ ui \in WindowStages
  BY DEF WindowStages
<1>4. WindowTypes
  BY <1>1, <1>2, <1>3, Zenon DEF WindowTypes
<1>5. ui = "born" /\ win.visible /\ ~tray.icon /\ ~tray.added
  OBVIOUS
<1>6. DeskInv
  BY <1>5 DEF DeskInv, StartsIdle, IconIsKnown, Window!HiddenIsReachable, Window!Loop
<1>7. /\ web.phase = "idle" /\ ~web.has_page /\ web.text = TRUE /\ web.opened = 0
      /\ rt.asks = 0 /\ rt.answers = <<>> /\ ~rt.frozen
  OBVIOUS
<1> HIDE DEF Window!Init, Window!NewHost, Window!NoRuntime
<1>8. PageIsHosted
  BY <1>7 DEF PageIsHosted
<1>9. Len(rt.answers) = 0
  BY <1>7
<1>10. SuspensionIsAsked
  BY <1>7, <1>9 DEF SuspensionIsAsked
<1>11. FrozenIsTold
  BY <1>7, Zenon DEF FrozenIsTold
<1> QED
  BY <1>4, <1>6, <1>8, <1>10, <1>11 DEF WindowInv, PageInv

-----------------------------------------------------------------------------
(* The page's half: giving it up, deciding about its power.               *)

LEMMA GivesUp ==
  ASSUME WindowTypes, PageInv, NEW r \in Runtimes, NEW b \in BOOLEAN, Window!GiveUp(r, b),
         r.asks = rt.asks, r.answers = rt.answers
  PROVE  /\ web' \in Pages /\ rt' \in Runtimes /\ overlapped' \in BOOLEAN
         /\ web'.phase = "fallback"
         /\ PageInv'
<1>1. PICK opens \in BOOLEAN :
         web' = [web EXCEPT !.phase = "fallback", !.has_page = FALSE, !.can_suspend = FALSE,
                            !.power = "visible", !.text = TRUE,
                            !.opened = IF b /\ @ = 0 /\ opens THEN @ + 1 ELSE @]
  BY DEF Window!GiveUp
<1>2. web \in Pages /\ rt \in Runtimes /\ web.opened <= 1
  BY DEF WindowTypes, PageInv, PageIsHosted
<1>a. PICK n \in Int :
         /\ n <= 1
         /\ web' = [web EXCEPT !.phase = "fallback", !.has_page = FALSE, !.can_suspend = FALSE,
                               !.power = "visible", !.text = TRUE, !.opened = n]
  <2>1. web.opened \in Int
    BY <1>2 DEF Pages
  <2>2. CASE b /\ web.opened = 0 /\ opens
    <3> WITNESS 1 \in Int
    <3> QED
      BY <1>1, <2>2, <2>1
  <2>3. CASE ~(b /\ web.opened = 0 /\ opens)
    <3> WITNESS web.opened \in Int
    <3> QED
      BY <1>1, <1>2, <2>1, <2>3
  <2> QED
    BY <2>2, <2>3
<1>3. /\ web' \in Pages /\ web'.phase = "fallback" /\ ~web'.has_page /\ web'.text = TRUE
      /\ web'.opened <= 1
  BY <1>a, <1>2 DEF Pages, Powers
<1>4. /\ rt' \in Runtimes /\ ~rt'.frozen /\ rt'.asks = rt.asks /\ rt'.answers = rt.answers
      /\ timers' = {} /\ overlapped' = overlapped
  BY DEF Window!GiveUp, Runtimes
<1>5. PageIsHosted'
  BY <1>3, <1>4 DEF PageIsHosted
<1>6. SuspensionIsAsked' /\ FrozenIsTold'
  BY <1>3, <1>4 DEF PageInv, SuspensionIsAsked, FrozenIsTold
<1> QED
  BY <1>3, <1>4, <1>5, <1>6 DEF PageInv, WindowTypes

\* What is decided when the window is shown or hidden.
Decided(w, shown) ==
    IF shown THEN Window!PowerShow(w.power) ELSE Window!PowerHide(w.power, Window!CanSuspend(w))

LEMMA PowerKeeps ==
  ASSUME WindowTypes, PageInv, ui = "running", ui' = ui, timers' = timers,
         NEW w \in Pages, NEW r \in Runtimes, NEW shown \in BOOLEAN,
         w.phase = web.phase, w.has_page = web.has_page, w.can_suspend = web.can_suspend,
         w.text = web.text, w.opened = web.opened, w.power = web.power,
         web.page_shown => w.page_shown,
         r.asks = rt.asks, r.answers = rt.answers, r.frozen = rt.frozen,
         win'.visible => shown, shown \/ ~win'.visible,
         Window!Power(w, r, Decided(w, shown))
  PROVE  /\ web' \in Pages /\ rt' \in Runtimes /\ overlapped' \in BOOLEAN
         /\ web'.phase = web.phase
         /\ PageInv'
<1> DEFINE d == Decided(w, shown)
<1>1. web \in Pages /\ rt \in Runtimes
  BY DEF WindowTypes
<1>2. CASE shown
  <2>1. /\ d.state = "visible" /\ d.act \in {"show", "resume_and_show"}
        /\ w.power \in {"suspending", "suspended"} => d.act = "resume_and_show"
    BY <1>2 DEF Decided, Window!PowerShow, Window!Decide
  <2> HIDE DEF d
  <2>2. /\ web' = [w EXCEPT !.power = "visible"]
        /\ rt' = IF w.has_page THEN Window!Carried(r, d.act) ELSE r
        /\ overlapped' = overlapped
    BY <2>1 DEF Window!Power, d, WindowTypes
  <2>3. /\ web' \in Pages /\ web'.power = "visible"
        /\ web'.phase = web.phase /\ web'.has_page = web.has_page /\ web'.can_suspend = web.can_suspend
        /\ web'.text = web.text /\ web'.opened = web.opened /\ (web.page_shown => web'.page_shown)
    BY <2>2 DEF Pages, Powers
  <2>4. /\ rt' \in Runtimes /\ rt'.asks = rt.asks /\ rt'.answers = rt.answers
        /\ rt'.frozen => rt.frozen
        /\ web.has_page /\ w.power \in {"suspending", "suspended"} => ~rt'.frozen
    BY <2>1, <2>2 DEF Runtimes, Window!Carried
  <2> QED
    BY <1>1, <2>2, <2>3, <2>4 DEF PageInv, PageIsHosted, SuspensionIsAsked, FrozenIsTold, WindowTypes, Pages, Powers
<1>3. CASE ~shown
  <2>1. CASE d.act = "hide_and_suspend"
    <3>1. /\ d.state = "suspending" /\ w.power \in {"visible", "hidden_awake"}
          /\ w.can_suspend /\ w.page_shown
      BY <1>3, <2>1 DEF Decided, Window!PowerHide, Window!Decide, Window!CanSuspend
    <3> HIDE DEF d
    <3>2. PICK power \in {"suspending", "hidden_awake"} :
            /\ web' = [w EXCEPT !.power = power]
            /\ power = "suspending" =>
                 rt' = IF w.has_page THEN Window!Carried(r, d.act) ELSE r
            /\ power = "hidden_awake" => rt' = Window!Carried(r, "hide")
      BY <2>1, <3>1 DEF Window!Power, d, Window!PowerSuspended, Window!Decide
    <3>3. overlapped' = (overlapped \/ (w.has_page /\ rt.asks > 0))
      BY <2>1 DEF Window!Power, d
    <3>4. /\ web' \in Pages /\ web'.power = power
          /\ web'.phase = web.phase /\ web'.has_page = web.has_page /\ web'.can_suspend
          /\ web'.text = web.text /\ web'.opened = web.opened /\ web'.page_shown
      BY <3>1, <3>2 DEF Pages, Powers
    <3>5. /\ rt' \in Runtimes /\ rt'.answers = rt.answers /\ rt'.frozen = rt.frozen
          /\ w.has_page /\ power = "suspending" => rt'.asks = rt.asks + 1
          /\ w.has_page /\ power = "hidden_awake" => rt'.asks = rt.asks
          /\ ~w.has_page => rt'.asks = rt.asks
      <4>1. CASE w.has_page /\ power = "suspending"
        <5>1. PICK more \in Int : more = r.asks + 1
          BY DEF Runtimes
        <5>2. rt' = [r EXCEPT !.visible = FALSE, !.frozen = r.frozen, !.asks = more]
          BY <2>1, <3>2, <4>1, <5>1 DEF Window!Carried
        <5> HIDE <5>1
        <5>3. /\ rt' \in Runtimes /\ rt'.answers = rt.answers /\ rt'.frozen = rt.frozen
              /\ rt'.asks = more
          BY <5>2 DEF Runtimes
        <5> QED
          BY <5>1, <5>3, <4>1
      <4>2. CASE power = "hidden_awake"
        BY <2>1, <3>2, <4>2 DEF Runtimes, Window!Carried
      <4>3. CASE ~w.has_page /\ power = "suspending"
        BY <2>1, <3>2, <4>3 DEF Runtimes, Window!Carried
      <4> QED
        BY <3>2, <4>1, <4>2, <4>3
    <3>6. overlapped' \in BOOLEAN /\ (overlapped => overlapped')
          /\ (web.has_page /\ ~overlapped' => rt.asks = 0)
      <4>1. rt.asks \in Int /\ rt.asks >= 0
        <5>1. rt.answers \in Seq(BOOLEAN) /\ rt.asks \in Int
          BY <1>1 DEF Runtimes
        <5>2. Len(rt.answers) \in Nat /\ Len(rt.answers) <= rt.asks
          BY <5>1 DEF PageInv, SuspensionIsAsked
        <5> QED
          BY <5>1, <5>2
      <4>2. overlapped \in BOOLEAN
        BY DEF WindowTypes
      <4>3. (rt.asks > 0) \in BOOLEAN /\ w.has_page \in BOOLEAN
        BY DEF Pages
      <4>4. overlapped' \in BOOLEAN
        BY <3>3, <4>2, <4>3, Zenon
      <4>5. overlapped => overlapped'
        BY <3>3, Zenon
      <4>6. web.has_page /\ ~overlapped' => ~(rt.asks > 0)
        BY <3>3, Zenon
      <4> QED
        BY <4>1, <4>4, <4>5, <4>6
    <3>7. PageIsHosted'
      BY <3>4, <3>5 DEF PageInv, PageIsHosted
    <3>8. web.phase = "hosted" <=> web.has_page
      BY DEF PageInv, PageIsHosted
    <3>9. Len(rt'.answers) = Len(rt.answers) /\ rt.asks \in Int /\ Len(rt.answers) \in Int
      BY <1>1, <3>5 DEF Runtimes
    <3>10. SuspensionIsAsked'
      BY <1>3, <3>2, <3>4, <3>5, <3>6, <3>8, <3>9 DEF PageInv, SuspensionIsAsked
    <3>11. FrozenIsTold'
      <4>1. web.has_page /\ ~overlapped' => rt.answers = <<>>
        BY <1>1, <3>6 DEF PageInv, SuspensionIsAsked, Runtimes
      <4> QED
        BY <3>1, <3>4, <3>5, <3>6, <3>8, <4>1 DEF PageInv, FrozenIsTold
    <3> QED
      BY <3>4, <3>5, <3>6, <3>7, <3>10, <3>11 DEF PageInv
  <2>2. CASE d.act # "hide_and_suspend"
    <3>1. /\ d.act \in {"hide", "nothing"}
          /\ d.state = IF w.power = "visible" THEN "hidden_awake" ELSE w.power
          /\ w.power = "visible" => ~(w.can_suspend /\ w.page_shown)
      BY <1>3, <2>2 DEF Decided, Window!PowerHide, Window!Decide, Window!CanSuspend
    <3> HIDE DEF d
    <3>2. /\ web' = [w EXCEPT !.power = d.state]
          /\ rt' = IF w.has_page THEN Window!Carried(r, d.act) ELSE r
          /\ overlapped' = overlapped
      BY <2>2 DEF Window!Power, d, WindowTypes
    <3>3. /\ web' \in Pages /\ web'.power = d.state
          /\ web'.phase = web.phase /\ web'.has_page = web.has_page /\ web'.can_suspend = web.can_suspend
          /\ web'.text = web.text /\ web'.opened = web.opened /\ (web.page_shown => web'.page_shown)
      BY <3>1, <3>2 DEF Pages, Powers
    <3>4. /\ rt' \in Runtimes /\ rt'.asks = rt.asks /\ rt'.answers = rt.answers
          /\ rt'.frozen = rt.frozen
      BY <3>1, <3>2 DEF Runtimes, Window!Carried
    <3> QED
      BY <1>1, <1>3, <3>1, <3>2, <3>3, <3>4
         DEF PageInv, PageIsHosted, SuspensionIsAsked, FrozenIsTold, WindowTypes, Pages, Powers
  <2> QED
    BY <2>1, <2>2
<1> QED
  BY <1>2, <1>3
LEMMA PageStays ==
  ASSUME PageInv, UNCHANGED <<web, timers, rt, overlapped>>,
         win'.visible => win.visible, ui' = "running" => ui = "running"
  PROVE  PageInv'
BY DEF PageInv, PageIsHosted, SuspensionIsAsked, FrozenIsTold

\* What the runtime answers and what the timers do.
LEMMA AnswersKeep ==
  ASSUME WindowInv, ui = "running",
         Window!Answers \/ Window!Watchdog \/ Window!NavTimer
  PROVE  WindowInv'
<1> USE DEF Window!desk, Window!thread, Window!Loop
<1>1. WindowTypes /\ DeskInv /\ PageInv
  BY DEF WindowInv
<1>2. web \in Pages /\ rt \in Runtimes /\ win \in Frames /\ overlapped \in BOOLEAN
  BY <1>1 DEF WindowTypes
\* Only the page's half changes.
<1>a. ASSUME UNCHANGED <<ui, win, tray, stranded>>,
             web' \in Pages, rt' \in Runtimes, overlapped' \in BOOLEAN, PageInv'
      PROVE  WindowInv'
  <2>1. WindowTypes'
    BY <1>1, <1>a DEF WindowTypes
  <2>2. DeskInv'
    BY <1>1, <1>a DEF DeskInv, StartsIdle, IconIsKnown, Window!HiddenIsReachable
  <2> QED
    BY <1>a, <2>1, <2>2 DEF WindowInv
\* An answer nobody waits for any more.
<1>b. ASSUME NEW r \in Runtimes, r.asks = rt.asks, r.answers = rt.answers, r.frozen = rt.frozen,
             NEW w \in Pages, w.phase = web.phase, w.has_page = web.has_page, w.text = web.text,
             w.can_suspend = web.can_suspend, w.opened = web.opened, w.power = web.power,
             web.page_shown => w.page_shown,
             UNCHANGED <<ui, win, tray, stranded, overlapped>>,
             web' = w, rt' = r, web.phase = "fallback" => timers' = {}
      PROVE  WindowInv'
  <2>1. PageInv'
    BY <1>1, <1>b DEF PageInv, PageIsHosted, SuspensionIsAsked, FrozenIsTold
  <2> QED
    BY <1>1, <1>2, <1>a, <1>b, <2>1
<1>c. ASSUME NEW r \in Runtimes, NEW b \in BOOLEAN, Window!GiveUp(r, b),
             r.asks = rt.asks, r.answers = rt.answers,
             UNCHANGED <<ui, win, tray, stranded>>
      PROVE  WindowInv'
  BY <1>1, <1>a, <1>c, GivesUp
<1>3. CASE Window!OnEnvironment
  <2>1. [rt EXCEPT !.env = FALSE] \in Runtimes /\ [rt EXCEPT !.env = FALSE, !.controller = TRUE] \in Runtimes
    BY <1>2 DEF Runtimes
  <2>2. web.phase = "fallback" => timers = {}
    BY <1>1 DEF PageInv, PageIsHosted
  <2>3. /\ UNCHANGED <<ui, win, tray, stranded>>
        /\ \/ /\ rt' \in {[rt EXCEPT !.env = FALSE], [rt EXCEPT !.env = FALSE, !.controller = TRUE]}
              /\ UNCHANGED <<web, timers, overlapped>>
           \/ Window!GiveUp([rt EXCEPT !.env = FALSE], TRUE)
    BY <1>3 DEF Window!OnEnvironment
  <2>4. CASE UNCHANGED <<web, timers, overlapped>>
             /\ rt' \in {[rt EXCEPT !.env = FALSE], [rt EXCEPT !.env = FALSE, !.controller = TRUE]}
    <3>1. /\ rt' \in Runtimes /\ rt'.asks = rt.asks /\ rt'.answers = rt.answers
          /\ rt'.frozen = rt.frozen
      BY <1>2, <2>1, <2>4 DEF Runtimes
    <3> QED
      BY <1>b, <1>2, <2>2, <2>3, <2>4, <3>1
  <2>5. CASE Window!GiveUp([rt EXCEPT !.env = FALSE], TRUE)
    BY <1>2, <1>c, <2>1, <2>3, <2>5 DEF Runtimes
  <2> QED
    BY <2>3, <2>4, <2>5
<1>4. CASE Window!OnController
  <2>1. [rt EXCEPT !.controller = FALSE] \in Runtimes
    BY <1>2 DEF Runtimes
  <2>2. UNCHANGED <<ui, win, tray, stranded>>
    BY <1>4 DEF Window!OnController
  <2>3. CASE web.phase # "creating"
    <3>1. rt' = [rt EXCEPT !.controller = FALSE] /\ UNCHANGED <<web, timers, overlapped>>
      BY <1>4, <2>3 DEF Window!OnController
    <3>2. /\ rt' \in Runtimes /\ rt'.asks = rt.asks /\ rt'.answers = rt.answers
          /\ rt'.frozen = rt.frozen
      BY <1>2, <3>1 DEF Runtimes
    <3>3. web.phase = "fallback" => timers = {}
      BY <1>1 DEF PageInv, PageIsHosted
    <3> QED
      BY <1>b, <1>2, <2>2, <3>1, <3>2, <3>3
  <2>4. CASE Window!GiveUp([rt EXCEPT !.controller = FALSE], TRUE)
    BY <1>2, <1>c, <2>1, <2>2, <2>4 DEF Runtimes
  <2>5. ASSUME NEW can \in BOOLEAN, Window!Attached(can), web.phase = "creating"
        PROVE  WindowInv'
    <3>1. PICK power \in Powers :
            /\ power = "visible" <=> win.visible
            /\ web' = [web EXCEPT !.phase = "hosted", !.has_page = TRUE, !.can_suspend = can,
                                  !.text = FALSE, !.power = power]
      BY <2>5 DEF Window!Attached, Powers
    <3>2. /\ web' \in Pages /\ web'.phase = "hosted" /\ web'.has_page /\ web'.text = FALSE
          /\ web'.power = power /\ web'.opened = web.opened
      BY <1>2, <3>1 DEF Pages
    <3>3. rt' = [rt EXCEPT !.controller = FALSE, !.visible = win.visible, !.navigating = TRUE]
      BY <2>5 DEF Window!Attached
    <3>4. /\ rt' \in Runtimes /\ rt'.asks = rt.asks /\ rt'.answers = rt.answers
          /\ rt'.frozen = rt.frozen
      BY <1>2, <3>3 DEF Runtimes, Frames
    <3>5. rt.asks = 0 /\ ~rt.frozen
      BY <1>1, <2>5 DEF PageInv, PageIsHosted, SuspensionIsAsked
    <3>6. PageIsHosted' /\ FrozenIsTold'
      BY <1>1, <3>2, <3>4, <3>5 DEF PageInv, PageIsHosted, FrozenIsTold
    <3>7. SuspensionIsAsked'
      BY <1>1, <2>2, <3>1, <3>2, <3>4, <3>5 DEF PageInv, SuspensionIsAsked
    <3>8. overlapped' \in BOOLEAN
      BY <1>2, <2>5 DEF Window!Attached
    <3> QED
      BY <1>a, <2>2, <3>2, <3>4, <3>6, <3>7, <3>8 DEF PageInv
  <2> QED
    BY <1>4, <2>3, <2>4, <2>5 DEF Window!OnController
<1>5. CASE Window!Watchdog
  <2>1. CASE web.phase = "creating"
    BY <1>2, <1>5, <1>c, <2>1 DEF Window!Watchdog
  <2>2. CASE web.phase # "creating"
    <3>1. web.phase = "fallback" => timers' = {}
      BY <1>1, <1>5, <2>2 DEF Window!Watchdog, PageInv, PageIsHosted
    <3> QED
      BY <1>2, <1>5, <1>b, <2>2, <3>1 DEF Window!Watchdog
  <2> QED
    BY <2>1, <2>2
<1>6. CASE Window!NavTimer
  <2>1. CASE Window!GiveUp(rt, TRUE)
    BY <1>2, <1>6, <1>c, <2>1 DEF Window!NavTimer
  <2>2. CASE /\ timers' = timers \ {"nav"}
             /\ rt' = [rt EXCEPT !.navigating = web.has_page] /\ UNCHANGED <<web, overlapped>>
    <3>1. web.phase # "fallback"
      BY <1>1, <1>6 DEF Window!NavTimer, PageInv, PageIsHosted
    <3>2. /\ rt' \in Runtimes /\ rt'.asks = rt.asks /\ rt'.answers = rt.answers
          /\ rt'.frozen = rt.frozen
      BY <1>2, <2>2 DEF Runtimes, Pages
    <3>3. UNCHANGED <<ui, win, tray, stranded>>
      BY <1>6 DEF Window!NavTimer
    <3> QED
      BY <1>2, <1>b, <2>2, <3>1, <3>2, <3>3
  <2> QED
    BY <1>6, <2>1, <2>2 DEF Window!NavTimer
<1>7. CASE Window!OnNavigated
  <2> DEFINE loaded == [web EXCEPT !.nav_retries = 0, !.page_shown = TRUE]
             landed == [rt EXCEPT !.navigating = FALSE]
  <2>1. UNCHANGED <<ui, win, tray, stranded>> /\ web.phase = "hosted"
    BY <1>7 DEF Window!OnNavigated
  <2>2. /\ loaded \in Pages /\ loaded.phase = web.phase /\ loaded.has_page = web.has_page
        /\ loaded.text = web.text /\ loaded.can_suspend = web.can_suspend
        /\ loaded.opened = web.opened /\ loaded.power = web.power /\ loaded.page_shown = TRUE
    <3>1. PICK none \in Int : none = 0
      OBVIOUS
    <3>2. loaded = [web EXCEPT !.nav_retries = none, !.page_shown = TRUE]
      BY <3>1
    <3> HIDE <3>1 DEF loaded
    <3> QED
      BY <1>2, <3>2 DEF Pages
  <2>3. /\ landed \in Runtimes /\ landed.asks = rt.asks /\ landed.answers = rt.answers
        /\ landed.frozen = rt.frozen
    BY <1>2 DEF Runtimes
  <2>4. \/ win.visible /\ web' = loaded /\ rt' = landed /\ UNCHANGED overlapped
        \/ /\ ~win.visible /\ UNCHANGED timers
           /\ Window!Power(loaded, landed, Window!PowerHide(web.power, Window!CanSuspend(loaded)))
        \/ /\ web' = [web EXCEPT !.nav_retries = @ + 1]
           /\ rt' = landed /\ UNCHANGED overlapped
        \/ Window!GiveUp(rt, TRUE)
    BY <1>7 DEF Window!OnNavigated
  <2> HIDE DEF loaded, landed
  <2>5. CASE win.visible /\ web' = loaded /\ rt' = landed /\ UNCHANGED overlapped
    BY <1>b, <2>1, <2>2, <2>3, <2>5
  <2>6. CASE /\ ~win.visible /\ UNCHANGED timers
             /\ Window!Power(loaded, landed, Window!PowerHide(web.power, Window!CanSuspend(loaded)))
    <3>1. Window!Power(loaded, landed, Decided(loaded, FALSE))
      BY <2>2, <2>6 DEF Decided
    <3> QED
      BY <1>1, <1>a, <2>1, <2>2, <2>3, <2>6, <3>1, PowerKeeps
  <2>7. CASE /\ web' = [web EXCEPT !.nav_retries = @ + 1]
             /\ rt' = landed /\ UNCHANGED overlapped
    <3>1. /\ web' \in Pages /\ web'.phase = web.phase /\ web'.has_page = web.has_page
          /\ web'.text = web.text /\ web'.can_suspend = web.can_suspend
          /\ web'.opened = web.opened /\ web'.power = web.power
          /\ web'.page_shown = web.page_shown
      BY <1>2, <2>7 DEF Pages
    <3> QED
      BY <1>b, <2>1, <2>3, <2>7, <3>1
  <2>8. CASE Window!GiveUp(rt, TRUE)
    BY <1>2, <1>c, <2>1, <2>8
  <2> QED
    BY <2>4, <2>5, <2>6, <2>7, <2>8
<1>8. CASE Window!OnSuspended
  <2> DEFINE ok == Head(rt.answers)
             d == Window!PowerSuspended(web.power, ok)
  <2>1. PICK less \in Int, rest \in Seq(BOOLEAN) :
          /\ less = rt.asks - 1 /\ rest = Tail(rt.answers)
          /\ Len(rest) = Len(rt.answers) - 1 /\ Len(rt.answers) > 0
    <3>1. rt.answers \in Seq(BOOLEAN) /\ rt.answers # <<>> /\ rt.asks \in Int
      BY <1>2, <1>8 DEF Window!OnSuspended, Runtimes
    <3>2. /\ Tail(rt.answers) \in Seq(BOOLEAN) /\ Len(Tail(rt.answers)) = Len(rt.answers) - 1
          /\ Len(rt.answers) > 0
      BY <3>1, TailOfAnswers, Zenon
    <3>3. rt.asks - 1 \in Int
      BY <3>1
    <3> QED
      BY <3>2, <3>3
  <2> DEFINE heard == [rt EXCEPT !.answers = rest, !.asks = less]
  <2>2. /\ web' = [web EXCEPT !.power = d.state]
        /\ rt' = IF web.has_page THEN Window!Carried(heard, d.act) ELSE heard
        /\ UNCHANGED <<ui, win, tray, stranded, timers, overlapped>>
    BY <1>8, <2>1 DEF Window!OnSuspended
  <2>3. /\ d.act \in {"nothing", "resume"} /\ d.state \in Powers
        /\ web.power = "visible" => d.state = "visible"
        /\ web.power = "visible" /\ ok => d.act = "resume"
        /\ web.power = "suspending" /\ ok => d.state = "suspended"
    BY <1>2 DEF Window!PowerSuspended, Window!Decide, Powers, Pages
  <2>4. web.power = "suspended" => d.state = "suspended"
    BY DEF Window!PowerSuspended, Window!Decide
  <2> HIDE DEF d, ok
  <2>5. /\ heard \in Runtimes /\ heard.asks = less /\ heard.answers = rest
        /\ heard.frozen = rt.frozen
    BY <1>2 DEF Runtimes
  <2> HIDE DEF heard
  <2>6. /\ rt' \in Runtimes /\ rt'.asks = less /\ rt'.answers = rest
        /\ rt'.frozen => rt.frozen
        /\ web.has_page /\ d.act = "resume" => ~rt'.frozen
    BY <2>2, <2>3, <2>5 DEF Runtimes, Window!Carried
  <2>7. /\ web' \in Pages /\ web'.phase = web.phase /\ web'.has_page = web.has_page
        /\ web'.text = web.text /\ web'.can_suspend = web.can_suspend
        /\ web'.opened = web.opened /\ web'.power = d.state
        /\ web'.page_shown = web.page_shown
    BY <1>2, <2>2, <2>3 DEF Pages
  <2>8. PageIsHosted'
    BY <1>1, <2>2, <2>6, <2>7 DEF PageInv, PageIsHosted
  <2>9. rt.asks \in Int /\ Len(rt.answers) <= rt.asks /\ web.phase \notin {"idle", "creating"}
    BY <1>1, <1>2, <2>1 DEF PageInv, SuspensionIsAsked, Runtimes
  <2>10. web.phase = "hosted" /\ ~overlapped =>
           rt.asks = 1 /\ less = 0 /\ web.power \in {"visible", "suspending"} /\ web.has_page
    BY <1>1, <2>1, <2>9 DEF PageInv, SuspensionIsAsked, PageIsHosted
  <2>11. SuspensionIsAsked'
    <3>1. Len(rt'.answers) <= rt'.asks
      BY <2>1, <2>6, <2>9
    <3>2. rt'.asks > 0 => rt.asks > 0
      BY <2>1, <2>6, <2>9
    <3>3. web.phase = "hosted" => web.has_page
      BY <1>1, <1>8 DEF Window!OnSuspended, PageInv, PageIsHosted
    <3> QED
      BY <1>1, <2>2, <2>3, <2>6, <2>7, <2>9, <2>10, <3>1, <3>2, <3>3 DEF PageInv, SuspensionIsAsked
  <2>12. FrozenIsTold'
    BY <1>1, <2>2, <2>3, <2>6, <2>7, <2>10 DEF PageInv, FrozenIsTold, ok
  <2> QED
    BY <1>a, <1>2, <2>2, <2>6, <2>7, <2>8, <2>11, <2>12 DEF PageInv
<1> QED
  BY <1>3, <1>4, <1>5, <1>6, <1>7, <1>8 DEF Window!Answers
\* The runtime freezes the page, or not, and answers.
LEMMA SuspensionKeeps ==
  ASSUME WindowInv, NEW ok \in BOOLEAN, Window!Suspends(ok)
  PROVE  WindowInv'
<1>1. WindowTypes /\ DeskInv /\ PageInv
  BY DEF WindowInv
<1>2. web \in Pages /\ rt \in Runtimes /\ rt.answers \in Seq(BOOLEAN) /\ rt.asks \in Int
  BY <1>1 DEF WindowTypes, Runtimes
<1>3. UNCHANGED <<ui, win, tray, stranded, web, timers, overlapped>> /\ rt.asks > Len(rt.answers)
  BY DEF Window!Suspends, Window!thread, Window!desk
<1>4. PICK told \in Seq(BOOLEAN) :
        /\ told = Append(rt.answers, ok)
        /\ Len(told) = Len(rt.answers) + 1 /\ told # <<>>
        /\ rt.answers # <<>> => Head(told) = Head(rt.answers)
        /\ rt.answers = <<>> => Head(told) = ok
  <2>1. /\ Append(rt.answers, ok) \in Seq(BOOLEAN) /\ Append(rt.answers, ok) # <<>>
        /\ Len(Append(rt.answers, ok)) = Len(rt.answers) + 1
    BY <1>2, AppendedAnswer, Zenon
  <2>2. rt.answers # <<>> => Head(Append(rt.answers, ok)) = Head(rt.answers)
    BY <1>2
  <2>3. rt.answers = <<>> => Head(Append(rt.answers, ok)) = ok
    BY <1>2
  <2> QED
    BY <2>1, <2>2, <2>3
<1>5. PICK frozen \in BOOLEAN : frozen = (rt.frozen \/ (ok /\ web.has_page))
  <2>1. (rt.frozen \/ (ok /\ web.has_page)) \in BOOLEAN
    BY <1>2, Zenon
  <2> QED
    BY <2>1
<1>6. rt' = [rt EXCEPT !.answers = told, !.frozen = frozen]
  BY <1>4, <1>5 DEF Window!Suspends
<1>7. rt' \in Runtimes /\ rt'.asks = rt.asks /\ rt'.answers = told /\ rt'.frozen = frozen
  BY <1>2, <1>6 DEF Runtimes
<1>8. Len(rt.answers) \in Nat /\ (Len(rt.answers) = 0 <=> rt.answers = <<>>)
  BY <1>2
<1>9. PageIsHosted'
  BY <1>1, <1>3, <1>5, <1>7 DEF PageInv, PageIsHosted
<1>10. SuspensionIsAsked'
  BY <1>1, <1>2, <1>3, <1>4, <1>7, <1>8 DEF PageInv, SuspensionIsAsked
<1>11. FrozenIsTold'
  <2>1. SUFFICES ASSUME web.phase = "hosted", ~overlapped, frozen
                 PROVE  told # <<>> /\ Head(told)
    BY <1>3, <1>7 DEF FrozenIsTold
  <2>2. CASE rt.frozen
    <3>1. rt.asks # 0
      BY <1>2, <1>3, <1>8
    <3>2. rt.answers # <<>> /\ Head(rt.answers)
      BY <1>1, <2>1, <2>2, <3>1, Zenon DEF PageInv, FrozenIsTold
    <3>3. Head(told) = Head(rt.answers)
      BY <1>4, <3>2
    <3> QED
      BY <1>4, <3>2, <3>3, Zenon
  <2>3. CASE ~rt.frozen
    <3>1. ok
      BY <1>5, <2>1, <2>3
    <3>2. rt.asks = 1
      BY <1>1, <1>2, <1>3, <1>8, <2>1 DEF PageInv, SuspensionIsAsked
    <3>3. rt.answers = <<>>
      BY <1>3, <1>8, <3>2
    <3>4. Head(told) = ok
      BY <1>4, <3>3
    <3> QED
      BY <1>4, <3>1, <3>4, Zenon
  <2> QED
    BY <2>2, <2>3
<1>12. WindowTypes' /\ DeskInv'
  BY <1>1, <1>3, <1>7 DEF WindowTypes, DeskInv, StartsIdle, IconIsKnown, Window!HiddenIsReachable, Window!Loop
<1> QED
  BY <1>9, <1>10, <1>11, <1>12 DEF WindowInv, PageInv

-----------------------------------------------------------------------------
(* The desk's half: the user, Explorer and the thread itself.             *)

LEMMA SetsVisible ==
  ASSUME WindowInv, ui = "running", NEW w \in Frames, NEW shown \in BOOLEAN,
         Window!SetVisible(w, shown), Window!Still, shown \/ tray.added
  PROVE  WindowInv'
<1>1. WindowTypes /\ DeskInv /\ PageInv
  BY DEF WindowInv
<1>2. web \in Pages /\ rt \in Runtimes
  BY <1>1 DEF WindowTypes
<1>3. UNCHANGED <<ui, tray, stranded, timers>>
  BY DEF Window!Still
<1>4. win' = [w EXCEPT !.visible = shown] /\ Window!Power(web, rt, Decided(web, shown))
  BY DEF Window!SetVisible, Decided
<1>5. win' \in Frames /\ win'.visible = shown
  BY <1>4 DEF Frames
<1>6. /\ web' \in Pages /\ rt' \in Runtimes /\ overlapped' \in BOOLEAN
      /\ web'.phase = web.phase /\ PageInv'
  BY <1>1, <1>2, <1>3, <1>4, <1>5, PowerKeeps
<1>7. WindowTypes'
  BY <1>1, <1>3, <1>5, <1>6 DEF WindowTypes
<1>8. DeskInv'
  BY <1>1, <1>3, <1>5 DEF DeskInv, StartsIdle, IconIsKnown, Window!HiddenIsReachable, Window!Loop
<1> QED
  BY <1>6, <1>7, <1>8 DEF WindowInv

LEMMA UserKeeps ==
  ASSUME WindowInv,
         \/ Window!Click \/ Window!DoubleClick \/ Window!Minimise \/ Window!Close
         \/ Window!MenuExit \/ Window!EndSession \/ Window!TaskbarCreated
  PROVE  WindowInv'
<1> USE DEF Window!Loop
<1>1. WindowTypes /\ DeskInv /\ PageInv
  BY DEF WindowInv
<1>2. win \in Frames /\ tray \in Trays /\ stranded \in BOOLEAN
  BY <1>1 DEF WindowTypes
\* Only the window's own flags change, or its icon.
<1>a. ASSUME UNCHANGED <<ui, web, rt, timers, overlapped>>, ui = "running",
             win' \in Frames, win'.visible => win.visible,
             tray' \in Trays, tray'.icon = tray'.added, stranded' \in BOOLEAN,
             ~win'.visible => tray'.added \/ win'.exiting \/ stranded'
      PROVE  WindowInv'
  <2>1. WindowTypes'
    BY <1>1, <1>a DEF WindowTypes
  <2>2. PageInv'
    BY <1>1, <1>a, PageStays
  <2>3. DeskInv'
    BY <1>a DEF DeskInv, StartsIdle, IconIsKnown, Window!HiddenIsReachable
  <2> QED
    BY <2>1, <2>2, <2>3 DEF WindowInv
<1>b. ui = "running" => /\ tray.icon = tray.added
                        /\ ~win.visible => tray.added \/ win.exiting \/ stranded
  BY <1>1 DEF DeskInv, IconIsKnown, Window!HiddenIsReachable
<1>c. ASSUME UNCHANGED <<web, rt, overlapped>>, ui = "running", Window!RequestExit, Window!Still
      PROVE  WindowInv'
  <2>1. UNCHANGED <<ui, tray, stranded, timers>>
    BY <1>c DEF Window!Still
  <2>2. CASE win.exiting
    <3>1. win' = win
      BY <1>c, <2>2 DEF Window!RequestExit
    <3> QED
      BY <1>2, <1>a, <1>b, <1>c, <2>1, <3>1
  <2>3. CASE ~win.exiting
    <3>1. win' = [win EXCEPT !.exiting = TRUE, !.visible = FALSE]
      BY <1>c, <2>3 DEF Window!RequestExit
    <3>2. win' \in Frames /\ win'.exiting /\ ~win'.visible
      BY <1>2, <3>1 DEF Frames
    <3> QED
      BY <1>2, <1>a, <1>b, <1>c, <2>1, <3>2
  <2> QED
    BY <2>2, <2>3
<1>3. CASE Window!Click
  <2>1. ui = "running" /\ tray.added /\ Window!Still
    BY <1>3, <1>b DEF Window!Click
  <2>2. CASE win.swallow
    <3>1. win' = [win EXCEPT !.swallow = FALSE] /\ UNCHANGED <<web, rt, overlapped>>
      BY <1>3, <2>2 DEF Window!Click
    <3>2. win' \in Frames /\ win'.visible = win.visible
      BY <1>2, <3>1 DEF Frames
    <3> QED
      BY <1>2, <1>a, <1>b, <2>1, <3>1, <3>2 DEF Window!Still
  <2>3. CASE ~win.swallow
    BY <1>2, <1>3, <2>1, <2>3, SetsVisible DEF Window!Click, Frames
  <2> QED
    BY <2>2, <2>3
<1>4. CASE Window!DoubleClick
  <2>1. [win EXCEPT !.swallow = TRUE] \in Frames
    BY <1>2 DEF Frames
  <2> QED
    BY <1>4, <2>1, SetsVisible DEF Window!DoubleClick
<1>5. CASE Window!Minimise
  BY <1>2, <1>5, SetsVisible DEF Window!Minimise
<1>6. CASE Window!Close
  <2>1. ui = "running" /\ Window!Still
    BY <1>6 DEF Window!Close
  <2>2. \/ tray.added /\ Window!SetVisible(win, FALSE)
        \/ Window!RequestExit /\ UNCHANGED <<web, rt, overlapped>>
    BY <1>6 DEF Window!Close, Window!ClosesToTray
  <2> QED
    BY <1>2, <1>c, <2>1, <2>2, SetsVisible
<1>7. CASE Window!MenuExit
  BY <1>7, <1>c DEF Window!MenuExit
<1>8. CASE Window!EndSession
  <2>1. win' = [win EXCEPT !.session_ending = TRUE, !.exiting = TRUE]
    BY <1>8 DEF Window!EndSession
  <2>2. win' \in Frames /\ win'.exiting /\ win'.visible = win.visible
    BY <1>2, <2>1 DEF Frames
  <2> QED
    BY <1>2, <1>8, <1>a, <1>b, <2>2 DEF Window!EndSession, Window!Still
<1>9. CASE Window!TaskbarCreated
  <2>1. PICK ok \in BOOLEAN : /\ tray' = [added |-> ok, icon |-> ok]
                              /\ stranded' = (~ok /\ (stranded \/ ~win.visible))
    BY <1>9 DEF Window!TaskbarCreated
  <2>2. tray' \in Trays /\ tray'.icon = ok /\ tray'.added = ok
    BY <2>1 DEF Trays
  <2>3. stranded' \in BOOLEAN /\ (~win.visible => ok \/ stranded')
    BY <2>1, Zenon
  <2> QED
    BY <1>2, <1>9, <1>a, <2>2, <2>3 DEF Window!TaskbarCreated, Window!thread, Window!page
<1> QED
  BY <1>3, <1>4, <1>5, <1>6, <1>7, <1>8, <1>9
LEMMA ThreadKeeps ==
  ASSUME WindowInv, Window!Ui \/ Window!StopAsked \/ Window!Shutdown \/ Window!Join
  PROVE  WindowInv'
<1> USE DEF Window!page, Window!desk, Window!Loop
<1>1. WindowTypes /\ DeskInv /\ PageInv
  BY DEF WindowInv
<1>2. /\ web \in Pages /\ rt \in Runtimes /\ win \in Frames /\ tray \in Trays
      /\ overlapped \in BOOLEAN /\ stranded \in BOOLEAN
  BY <1>1 DEF WindowTypes
<1>3. CASE \/ UNCHANGED ui /\ (Window!StopAsked \/ Window!Shutdown \/ Window!Join)
           \/ Window!StoreId \/ Window!MakeQueue
  <2>1. UNCHANGED <<web, timers, rt, overlapped, win, tray, stranded>>
    BY <1>3 DEF Window!StopAsked, Window!Shutdown, Window!Join, Window!StoreId, Window!MakeQueue
  <2>2. \/ ui' = ui
        \/ ui = "born" /\ ui' = "known"
        \/ ui = "known" /\ ui' = "making"
    BY <1>3 DEF Window!StoreId, Window!MakeQueue
  <2>3. WindowTypes'
    BY <1>1, <2>1, <2>2 DEF WindowTypes, WindowStages
  <2>4. PageInv'
    BY <1>1, <2>1, <2>2, PageStays
  <2>5. DeskInv'
    BY <1>1, <2>1, <2>2 DEF DeskInv, StartsIdle, IconIsKnown, Window!HiddenIsReachable
  <2> QED
    BY <2>3, <2>4, <2>5 DEF WindowInv
<1>4. CASE Window!CreateWindow
  <2>1. UNCHANGED <<web, timers, rt, overlapped, win, stranded>> /\ ui = "making"
    BY <1>4 DEF Window!CreateWindow
  <2>2. \/ ui' = "ended" /\ UNCHANGED tray
        \/ ui' = "opened" /\ \E ok \in BOOLEAN : tray' = [added |-> ok, icon |-> ok]
    BY <1>4 DEF Window!CreateWindow
  <2>3. tray' \in Trays /\ (ui' = "opened" => tray'.icon = tray'.added)
    BY <1>2, <2>2 DEF Trays
  <2>4. WindowTypes'
    BY <1>1, <2>1, <2>2, <2>3 DEF WindowTypes, WindowStages
  <2>5. PageInv'
    BY <1>1, <2>1, <2>2, PageStays
  <2>6. DeskInv'
    BY <1>1, <2>1, <2>2, <2>3 DEF DeskInv, StartsIdle, IconIsKnown, Window!HiddenIsReachable
  <2> QED
    BY <2>4, <2>5, <2>6 DEF WindowInv
<1>5. CASE Window!Begin
  <2>1. UNCHANGED <<win, tray, stranded>> /\ ui = "opened" /\ ui' = "running"
    BY <1>5 DEF Window!Begin
  <2>2. web.phase = "idle" /\ win.visible /\ tray.icon = tray.added
    BY <1>1, <2>1 DEF DeskInv, StartsIdle, IconIsKnown
  <2>3. DeskInv'
    BY <2>1, <2>2 DEF DeskInv, StartsIdle, IconIsKnown, Window!HiddenIsReachable
  <2>4. /\ web' \in Pages /\ rt' \in Runtimes /\ overlapped' \in BOOLEAN /\ PageInv'
    <3>1. CASE Window!GiveUp(rt, FALSE) \/ Window!GiveUp(rt, TRUE)
      BY <1>1, <1>2, <3>1, GivesUp
    <3>2. CASE /\ web' = [web EXCEPT !.phase = "creating"] /\ timers' = {"watchdog"}
               /\ rt' = [rt EXCEPT !.env = TRUE] /\ UNCHANGED overlapped
      <4>1. /\ web' \in Pages /\ web'.phase = "creating" /\ web'.has_page = web.has_page
            /\ web'.text = web.text /\ web'.opened = web.opened
        BY <1>2, <3>2 DEF Pages
      <4>2. /\ rt' \in Runtimes /\ rt'.asks = rt.asks /\ rt'.answers = rt.answers
            /\ rt'.frozen = rt.frozen
        BY <1>2, <3>2 DEF Runtimes
      <4>3. PageInv'
        BY <1>1, <2>2, <4>1, <4>2 DEF PageInv, PageIsHosted, SuspensionIsAsked, FrozenIsTold
      <4> QED
        BY <1>2, <3>2, <4>1, <4>2, <4>3
    <3> QED
      BY <1>5, <3>1, <3>2 DEF Window!Begin
  <2>5. WindowTypes'
    BY <1>1, <2>1, <2>4 DEF WindowTypes, WindowStages
  <2> QED
    BY <2>3, <2>4, <2>5 DEF WindowInv
<1>6. CASE Window!LeaveLoop
  <2>1. UNCHANGED <<web, timers, rt, overlapped, win, stranded>> /\ ui = "running" /\ ui' = "closing"
    BY <1>6 DEF Window!LeaveLoop
  <2>2. tray' \in Trays /\ tray'.icon = tray'.added
    <3>1. tray.icon = tray.added
      BY <1>1, <2>1 DEF DeskInv, IconIsKnown
    <3>2. \/ tray' = [added |-> FALSE, icon |-> FALSE]
          \/ tray' = tray
      BY <1>6 DEF Window!LeaveLoop
    <3>3. CASE tray' = tray
      BY <1>2, <3>1, <3>3
    <3>4. CASE tray' = [added |-> FALSE, icon |-> FALSE]
      BY <3>4 DEF Trays
    <3> QED
      BY <3>2, <3>3, <3>4
  <2>3. WindowTypes'
    BY <1>1, <2>1, <2>2 DEF WindowTypes, WindowStages
  <2>4. PageInv'
    BY <1>1, <2>1, PageStays
  <2>5. DeskInv'
    BY <2>1, <2>2 DEF DeskInv, StartsIdle, IconIsKnown, Window!HiddenIsReachable
  <2> QED
    BY <2>3, <2>4, <2>5 DEF WindowInv
<1>7. CASE Window!Teardown
  <2>1. UNCHANGED <<overlapped, win, stranded>> /\ ui = "closing" /\ ui' = "ended" /\ timers' = {}
    BY <1>7 DEF Window!Teardown
  <2>2. tray' \in Trays /\ ~tray'.icon
    <3>1. tray.icon = tray.added
      BY <1>1, <2>1 DEF DeskInv, IconIsKnown
    <3>2. tray' = [added |-> FALSE, icon |-> FALSE]
      BY <1>7, <3>1 DEF Window!Teardown
    <3> QED
      BY <3>2 DEF Trays
  <2>3. web' = [web EXCEPT !.has_page = FALSE, !.can_suspend = FALSE, !.power = "visible"]
    BY <1>7 DEF Window!Teardown
  <2>4. /\ web' \in Pages /\ web'.phase = web.phase /\ ~web'.has_page /\ web'.text = web.text
        /\ web'.opened = web.opened /\ web'.power = "visible"
    BY <1>2, <2>3 DEF Pages, Powers
  <2>5. rt' \in Runtimes /\ rt'.asks = 0 /\ rt'.answers = <<>> /\ ~rt'.frozen
    BY <1>7 DEF Window!Teardown, Window!NoRuntime, Runtimes
  <2>6. PageIsHosted' /\ FrozenIsTold'
    BY <1>1, <2>1, <2>4, <2>5 DEF PageInv, PageIsHosted, FrozenIsTold
  <2>7. SuspensionIsAsked'
    <3>1. Len(rt'.answers) = 0
      BY <2>5
    <3> QED
      BY <1>1, <2>4, <2>5, <3>1 DEF PageInv, SuspensionIsAsked
  <2>8. WindowTypes'
    BY <1>1, <2>1, <2>2, <2>4, <2>5 DEF WindowTypes, WindowStages
  <2>9. DeskInv'
    BY <2>1, <2>2 DEF DeskInv, StartsIdle, IconIsKnown, Window!HiddenIsReachable
  <2> QED
    BY <2>6, <2>7, <2>8, <2>9 DEF WindowInv, PageInv
<1> QED
  BY <1>3, <1>4, <1>5, <1>6, <1>7 DEF Window!Ui, Window!StopAsked, Window!Shutdown, Window!Join

LEMMA WindowKeeps == WindowInv /\ [Window!Next]_windowVars => WindowInv'
<1> SUFFICES ASSUME WindowInv, [Window!Next]_windowVars PROVE WindowInv'
  OBVIOUS
<1>1. CASE UNCHANGED windowVars
  BY <1>1 DEF windowVars, WindowInv, WindowTypes, DeskInv, PageInv, StartsIdle, IconIsKnown, PageIsHosted,
              SuspensionIsAsked, FrozenIsTold, Window!HiddenIsReachable, Window!Loop
<1>2. ASSUME Window!Answers \/ Window!Watchdog \/ Window!NavTimer
      PROVE  ui = "running"
  BY <1>2 DEF Window!Answers, Window!Watchdog, Window!NavTimer, Window!OnEnvironment, Window!OnController,
              Window!OnNavigated, Window!OnSuspended, Window!Loop
<1> QED
  BY <1>1, <1>2, AnswersKeep, SuspensionKeeps, UserKeeps, ThreadKeeps DEF Window!Next

-----------------------------------------------------------------------------
(* The feed.                                                               *)

Stages == {"rest", "start", "stop", "restart", "stopping", "restopping", "restopped", "notify", "tell"}
FeedWords == [running : BOOLEAN, saving : BOOLEAN]
Rounds == [at : {"head", "select", "idle", "ask", "idle_wait", "load", "snapshot", "send"},
           idle : BOOLEAN, tick : Int, poked : BOOLEAN, vis : BOOLEAN, words : FeedWords]
FeedTypes ==
    /\ agent \in [running : BOOLEAN, saving : BOOLEAN, in_stop : BOOLEAN]
    /\ task \in [Feed!Actors -> [at : Stages, save : BOOLEAN]]
    /\ pub \in Rounds
    /\ poke \in BOOLEAN /\ posted \in BOOLEAN /\ visible \in BOOLEAN /\ showing \in BOOLEAN
    /\ work \in [registered : BOOLEAN, notified : BOOLEAN]
    /\ chan \in [words : FeedWords, full : BOOLEAN]

\* From the registration on a notification is kept.
WaitIsRegistered == pub.at \in {"ask", "idle_wait"} => work.registered

\* A window that is shown is seen by the snapshot under way, or pokes.
ShownIsSeen ==
    visible /\ ~showing /\ ~poke =>
       /\ Feed!Waiting => chan.full
       /\ pub.at \in {"snapshot", "send"} => pub.vis

FeedInv == FeedTypes /\ WaitIsRegistered /\ Feed!IdleMissesNothing /\ ShownIsSeen /\ Feed!PaintIsTrue

LEMMA FeedInit == Feed!Init => FeedInv
<1> SUFFICES ASSUME Feed!Init PROVE FeedInv
  OBVIOUS
<1> USE DEF Feed!Init, Feed!Stopped, Feed!Words, Feed!Rest
<1>1. FeedTypes
  <2>1. agent \in [running : BOOLEAN, saving : BOOLEAN, in_stop : BOOLEAN]
    <3>1. CASE agent = Feed!Stopped
      BY <3>1
    <3>2. CASE agent = [Feed!Stopped EXCEPT !.running = TRUE]
      <4>1. agent = [running |-> TRUE, saving |-> FALSE, in_stop |-> FALSE]
        BY <3>2
      <4> QED
        BY <4>1
    <3> QED
      BY <3>1, <3>2
  <2>2. task \in [Feed!Actors -> [at : Stages, save : BOOLEAN]]
    BY DEF Stages
  <2>3. chan \in [words : FeedWords, full : BOOLEAN]
    BY DEF FeedWords
  <2>4. pub \in Rounds
    BY DEF Rounds, FeedWords
  <2>5. work \in [registered : BOOLEAN, notified : BOOLEAN]
    OBVIOUS
  <2>6. poke \in BOOLEAN /\ posted \in BOOLEAN /\ visible \in BOOLEAN /\ showing \in BOOLEAN
    OBVIOUS
  <2> QED
    BY <2>1, <2>2, <2>3, <2>4, <2>5, <2>6, Zenon DEF FeedTypes
<1>2. poke /\ ~posted /\ pub.at = "head" /\ icon = chan.words
  OBVIOUS
<1> QED
  BY <1>1, <1>2 DEF FeedInv, WaitIsRegistered, Feed!IdleMissesNothing, ShownIsSeen, Feed!PaintIsTrue

\* What only tasks do leaves all but the wait for work as it was.
LEMMA TasksKeep ==
  ASSUME FeedInv, FeedTypes', UNCHANGED <<pub, chan, posted, visible, showing, view, text, icon>>,
         poke => poke', work'.registered = work.registered,
         Feed!IdleMissesNothing'
  PROVE  FeedInv'
<1>1. Feed!Waiting' = Feed!Waiting
  BY DEF Feed!Waiting
<1>2. poke \in BOOLEAN /\ poke' \in BOOLEAN
  BY DEF FeedInv, FeedTypes
<1>3. ShownIsSeen' /\ Feed!PaintIsTrue'
  BY <1>1, <1>2 DEF FeedInv, ShownIsSeen, Feed!PaintIsTrue
<1>4. WaitIsRegistered'
  BY DEF FeedInv, WaitIsRegistered
<1> QED
  BY <1>3, <1>4 DEF FeedInv

LEMMA FeedTasks ==
  ASSUME FeedInv, NEW a \in Feed!Actors, Feed!Steps(a)
  PROVE  FeedInv'
<1> USE DEF Feed!children, Feed!window, Feed!publishing
<1>0. FeedTypes /\ Feed!IdleMissesNothing /\ WaitIsRegistered
  BY DEF FeedInv
<1>1. CASE Feed!Detach(a)
  <2> USE <1>0, <1>1 DEF Feed!Detach
  <2>1. PICK stage \in Stages \ {"notify"} : task' = [task EXCEPT ![a].at = stage]
    BY DEF Stages
  <2>2. task[a].at # "notify" /\ agent'.running = agent.running
    BY DEF FeedTypes
  <2>3. FeedTypes'
    <3>1. agent' \in [running : BOOLEAN, saving : BOOLEAN, in_stop : BOOLEAN]
      BY DEF FeedTypes
    <3>2. [task[a] EXCEPT !.at = stage] \in [at : Stages, save : BOOLEAN]
      BY DEF FeedTypes
    <3>3. task' = [task EXCEPT ![a] = [task[a] EXCEPT !.at = stage]]
      BY <2>1
    <3>4. task' \in [Feed!Actors -> [at : Stages, save : BOOLEAN]]
      <4>1. task \in [Feed!Actors -> [at : Stages, save : BOOLEAN]]
        BY DEF FeedTypes
      <4> QED
        BY <3>2, <3>3, <4>1, Zenon
    <3> QED
      BY <3>1, <3>4 DEF FeedTypes
  <2>4. \A b \in Feed!Actors : task[b].at = "notify" => task'[b].at = "notify"
    BY <2>1, <2>2 DEF FeedTypes
  <2>5. Feed!IdleMissesNothing'
    BY <2>2, <2>4 DEF Feed!IdleMissesNothing
  <2> QED
    BY <2>3, <2>5, TasksKeep
<1>2. CASE Feed!StopEnds(a)
  <2> USE <1>0, <1>2 DEF Feed!StopEnds, Feed!Stopped
  <2>1. PICK stage \in Stages : task' = [task EXCEPT ![a].at = stage]
    BY DEF Stages
  <2>2. ~agent'.running /\ agent' \in [running : BOOLEAN, saving : BOOLEAN, in_stop : BOOLEAN]
    OBVIOUS
  <2>3. task' \in [Feed!Actors -> [at : Stages, save : BOOLEAN]]
    <3>1. [task[a] EXCEPT !.at = stage] \in [at : Stages, save : BOOLEAN]
      BY DEF FeedTypes
    <3>2. task' = [task EXCEPT ![a] = [task[a] EXCEPT !.at = stage]]
      BY <2>1
    <3>3. task \in [Feed!Actors -> [at : Stages, save : BOOLEAN]]
      BY DEF FeedTypes
    <3> QED
      BY <3>1, <3>2, <3>3, Zenon
  <2>4. FeedTypes'
    BY <2>2, <2>3 DEF FeedTypes
  <2>5. Feed!IdleMissesNothing'
    BY <2>2 DEF Feed!IdleMissesNothing
  <2> QED
    BY <2>4, <2>5, TasksKeep
<1>3. CASE Feed!StartRuns(a)
  <2> USE <1>0, <1>3 DEF Feed!StartRuns
  <2>1. PICK stage \in {"tell", "notify"} :
           /\ task' = [task EXCEPT ![a].at = stage]
           /\ stage = "tell" => agent' = agent
           /\ stage = "notify" => agent' = [running |-> TRUE, saving |-> task[a].save, in_stop |-> FALSE]
    OBVIOUS
  <2>2. task[a].at # "notify" /\ task[a].save \in BOOLEAN
    BY DEF FeedTypes
  <2>3. FeedTypes'
    <3>1. agent' \in [running : BOOLEAN, saving : BOOLEAN, in_stop : BOOLEAN]
      <4>1. CASE stage = "tell"
        BY <2>1, <4>1 DEF FeedTypes
      <4>2. CASE stage = "notify"
        <5>1. agent' = [running |-> TRUE, saving |-> task[a].save, in_stop |-> FALSE]
          BY <2>1, <4>2
        <5> QED
          BY <5>1, <2>2, Zenon
      <4> QED
        BY <4>1, <4>2
    <3>2. task' \in [Feed!Actors -> [at : Stages, save : BOOLEAN]]
      BY <2>1 DEF FeedTypes, Stages
    <3> QED
      BY <3>1, <3>2 DEF FeedTypes
  <2>4. \A b \in Feed!Actors : task[b].at = "notify" => task'[b].at = "notify"
    BY <2>1, <2>2 DEF FeedTypes
  <2>5. stage = "notify" => task'[a].at = "notify"
    BY <2>1 DEF FeedTypes
  <2>6. Feed!IdleMissesNothing'
    BY <2>1, <2>4, <2>5 DEF Feed!IdleMissesNothing
  <2> QED
    BY <2>3, <2>6, TasksKeep
<1>4. CASE Feed!NotifyWork(a)
  <2> USE <1>0, <1>4 DEF Feed!NotifyWork, Feed!Notify
  <2>1. PICK now \in [at : Stages, save : BOOLEAN] : task' = [task EXCEPT ![a] = now]
    <3>1. [task[a] EXCEPT !.at = "start"] \in [at : Stages, save : BOOLEAN]
          /\ [task[a] EXCEPT !.at = "tell"] \in [at : Stages, save : BOOLEAN]
          /\ Feed!Rest \in [at : Stages, save : BOOLEAN]
      BY DEF FeedTypes, Stages, Feed!Rest
    <3>2. \/ task' = [task EXCEPT ![a] = [task[a] EXCEPT !.at = "start"]]
          \/ task' = [task EXCEPT ![a] = [task[a] EXCEPT !.at = "tell"]]
          \/ task' = [task EXCEPT ![a] = Feed!Rest]
      OBVIOUS
    <3> QED
      BY <3>1, <3>2
  <2>2. /\ work' \in [registered : BOOLEAN, notified : BOOLEAN]
        /\ work'.registered = work.registered
        /\ work.registered => work'.notified
    BY DEF FeedTypes
  <2>3. FeedTypes'
    BY <2>1, <2>2 DEF FeedTypes
  <2>4. Feed!IdleMissesNothing'
    BY <2>2 DEF Feed!IdleMissesNothing, WaitIsRegistered
  <2> QED
    BY <2>2, <2>3, <2>4, TasksKeep
<1>5. CASE Feed!Tell(a)
  <2> USE <1>0, <1>5 DEF Feed!Tell
  <2>1. Feed!Rest \in [at : Stages, save : BOOLEAN] /\ task' = [task EXCEPT ![a] = Feed!Rest]
    BY DEF Stages, Feed!Rest
  <2>2. task[a].at = "tell" /\ (poke => poke') /\ poke' \in BOOLEAN
    OBVIOUS
  <2>3. FeedTypes'
    BY <2>1, <2>2 DEF FeedTypes
  <2>4. \A b \in Feed!Actors : task[b].at = "notify" => task'[b].at = "notify"
    BY <2>1, <2>2 DEF FeedTypes
  <2>5. Feed!IdleMissesNothing'
    BY <2>2, <2>4 DEF Feed!IdleMissesNothing
  <2> QED
    BY <2>2, <2>3, <2>5, TasksKeep
<1> QED
  BY <1>1, <1>2, <1>3, <1>4, <1>5 DEF Feed!Steps

LEMMA FeedAsks ==
  ASSUME FeedInv, NEW a \in Feed!Actors, NEW stage \in Stages \ {"notify"}, NEW save \in BOOLEAN,
         Feed!Ask(a, stage, save)
  PROVE  FeedInv'
<1> USE DEF Feed!Ask, Feed!publishing, Feed!window
<1>0. FeedTypes /\ Feed!IdleMissesNothing
  BY DEF FeedInv
<1>1. FeedTypes'
  BY <1>0 DEF FeedTypes
<1>2. \A b \in Feed!Actors : task[b].at = "notify" => task'[b].at = "notify"
  BY <1>0 DEF FeedTypes
<1>3. Feed!IdleMissesNothing'
  BY <1>0, <1>2 DEF Feed!IdleMissesNothing
<1> QED
  BY <1>1, <1>3, TasksKeep

\* A round of the publisher that leaves the children and the window alone.
LEMMA RoundsKeep ==
  ASSUME FeedInv, pub' \in Rounds, poke' \in BOOLEAN, work' \in [registered : BOOLEAN, notified : BOOLEAN],
         UNCHANGED <<agent, task, chan, posted, visible, showing, view, text, icon>>,
         WaitIsRegistered', Feed!IdleMissesNothing', ShownIsSeen',
         Feed!Waiting' => ~visible \/ (poke' = poke /\ Feed!Waiting)
  PROVE  FeedInv'
<1>1. FeedTypes'
  BY DEF FeedInv, FeedTypes
<1>2. Feed!PaintIsTrue'
  BY DEF FeedInv, Feed!PaintIsTrue
<1> QED
  BY <1>1, <1>2 DEF FeedInv

LEMMA FeedPublishes ==
  ASSUME FeedInv, Feed!Publish \/ Feed!IdleWakes
  PROVE  FeedInv'
<1> USE EveryIsPositive DEF Feed!children, Feed!window
<1>0. FeedTypes /\ Feed!IdleMissesNothing /\ WaitIsRegistered /\ ShownIsSeen /\ Feed!PaintIsTrue
  BY DEF FeedInv
<1>t. pub \in Rounds /\ poke \in BOOLEAN /\ work \in [registered : BOOLEAN, notified : BOOLEAN]
      /\ visible \in BOOLEAN
  BY <1>0 DEF FeedTypes
<1>a. ASSUME NEW p \in BOOLEAN, Feed!Woken(p)
      PROVE  pub' \in Rounds /\ pub'.at = "load"
  <2>1. pub.tick \in Int /\ (pub.tick + 1) % HiddenEvery \in Int
    BY <1>t DEF Rounds
  <2> QED
    BY <1>t, <1>a, <2>1 DEF Feed!Woken, Rounds
<1>b. ASSUME pub'.at = "load"
      PROVE  WaitIsRegistered' /\ Feed!IdleMissesNothing' /\ ShownIsSeen' /\ ~Feed!Waiting'
  BY <1>b DEF WaitIsRegistered, Feed!IdleMissesNothing, ShownIsSeen, Feed!Waiting
<1>1. CASE Feed!Select
  <2>1. PICK p \in BOOLEAN : Feed!Woken(p) /\ poke' \in {poke, FALSE}
    BY <1>1 DEF Feed!Select
  <2>2. UNCHANGED <<agent, task, chan, posted, visible, showing, view, text, icon, work>>
    BY <1>1 DEF Feed!Select
  <2>3. pub' \in Rounds /\ pub'.at = "load"
    BY <2>1, <1>a
  <2>4. poke' \in BOOLEAN
    BY <1>t, <2>1
  <2> QED
    BY <1>b, <1>t, <2>2, <2>3, <2>4, RoundsKeep
<1>2. CASE Feed!Register
  <2> USE <1>2 DEF Feed!Register
  <2>1. pub' \in Rounds /\ pub'.at = "ask" /\ pub.at = "idle"
    BY <1>t DEF Rounds
  <2>2. work' \in [registered : BOOLEAN, notified : BOOLEAN] /\ work'.registered
    OBVIOUS
  <2>3. Feed!Waiting /\ Feed!Waiting'
    BY <2>1 DEF Feed!Waiting
  <2>4. WaitIsRegistered' /\ Feed!IdleMissesNothing'
    BY <2>1, <2>2 DEF WaitIsRegistered, Feed!IdleMissesNothing
  <2>5. ShownIsSeen'
    BY <1>0, <2>1, <2>3 DEF ShownIsSeen
  <2> QED
    BY <1>t, <2>1, <2>2, <2>3, <2>4, <2>5, RoundsKeep
<1>3. CASE Feed!AskRunning
  <2>1. CASE agent.running
    <3>1. Feed!Woken(TRUE) /\ work' = [registered |-> FALSE, notified |-> FALSE]
      BY <1>3, <2>1 DEF Feed!AskRunning
    <3>2. pub' \in Rounds /\ pub'.at = "load"
      BY <1>a, <3>1
    <3>3. UNCHANGED <<agent, task, chan, posted, visible, showing, view, text, icon, poke>>
      BY <1>3 DEF Feed!AskRunning
    <3> QED
      BY <1>b, <1>t, <3>1, <3>2, <3>3, RoundsKeep
  <2>2. CASE ~agent.running
    <3> USE <1>3, <2>2 DEF Feed!AskRunning
    <3>1. pub' \in Rounds /\ pub'.at = "idle_wait" /\ pub.at = "ask"
      BY <1>t DEF Rounds
    <3>2. Feed!Waiting /\ Feed!Waiting'
      BY <3>1 DEF Feed!Waiting
    <3>3. WaitIsRegistered' /\ Feed!IdleMissesNothing'
      BY <1>0, <3>1 DEF WaitIsRegistered, Feed!IdleMissesNothing
    <3>4. ShownIsSeen'
      BY <1>0, <3>1, <3>2 DEF ShownIsSeen
    <3>5. UNCHANGED <<agent, task, chan, posted, visible, showing, view, text, icon, poke, work>>
      OBVIOUS
    <3> QED
      BY <1>t, <3>1, <3>2, <3>3, <3>4, <3>5, RoundsKeep
  <2> QED
    BY <2>1, <2>2
<1>4. CASE Feed!LoadVisible
  <2> USE <1>4 DEF Feed!LoadVisible
  <2>1. pub' \in Rounds
    BY <1>t DEF Rounds
  <2>2. \/ pub'.at = "head" /\ ~visible
        \/ pub'.at = "snapshot" /\ pub'.vis = visible
    BY <1>t DEF Rounds
  <2>3. UNCHANGED <<agent, task, chan, posted, visible, showing, view, text, icon, poke, work>>
    OBVIOUS
  <2>4. WaitIsRegistered' /\ Feed!IdleMissesNothing' /\ ShownIsSeen'
    BY <2>2, <2>3 DEF WaitIsRegistered, Feed!IdleMissesNothing, ShownIsSeen, Feed!Waiting
  <2>5. Feed!Waiting' => ~visible
    BY <2>2 DEF Feed!Waiting
  <2> QED
    BY <1>t, <2>1, <2>3, <2>4, <2>5, RoundsKeep
<1>5. CASE Feed!Snapshot
  <2> USE <1>5 DEF Feed!Snapshot
  <2>1. Feed!Words(agent) \in FeedWords /\ (~agent.running) \in BOOLEAN
    BY <1>0 DEF FeedTypes, Feed!Words, FeedWords
  <2>2. pub' \in Rounds /\ pub'.at = "send" /\ pub'.vis = pub.vis /\ pub.at = "snapshot"
    BY <1>t, <2>1 DEF Rounds
  <2>3. UNCHANGED <<agent, task, chan, posted, visible, showing, view, text, icon, poke, work>>
    OBVIOUS
  <2>4. WaitIsRegistered' /\ Feed!IdleMissesNothing' /\ ShownIsSeen' /\ ~Feed!Waiting'
    BY <1>0, <2>2, <2>3 DEF WaitIsRegistered, Feed!IdleMissesNothing, ShownIsSeen, Feed!Waiting
  <2> QED
    BY <1>t, <2>2, <2>3, <2>4, RoundsKeep
<1>6. CASE Feed!Head
  <2> USE <1>6 DEF Feed!Head
  <2>1. pub' \in Rounds /\ pub'.at \in {"idle", "select"} /\ pub.at = "head"
    BY <1>t DEF Rounds
  <2>2. UNCHANGED <<agent, task, chan, posted, visible, showing, view, text, icon, poke, work>>
    OBVIOUS
  <2>3. Feed!Waiting /\ Feed!Waiting'
    BY <2>1 DEF Feed!Waiting
  <2>4. WaitIsRegistered' /\ Feed!IdleMissesNothing'
    BY <2>1 DEF WaitIsRegistered, Feed!IdleMissesNothing
  <2>5. ShownIsSeen'
    BY <1>0, <2>1, <2>2, <2>3 DEF ShownIsSeen
  <2> QED
    BY <1>t, <2>1, <2>2, <2>3, <2>4, <2>5, RoundsKeep
<1>7. CASE Feed!Send
  <2> USE <1>7 DEF Feed!Send
  <2>1. pub' \in Rounds /\ pub'.at = "head" /\ pub.at = "send"
    BY <1>t DEF Rounds, Feed!Words, Feed!Stopped, FeedWords
  <2>2. chan' \in [words : FeedWords, full : BOOLEAN] /\ chan'.full = pub.vis /\ posted'
    BY <1>t DEF Rounds
  <2>3. UNCHANGED <<agent, task, visible, showing, view, text, icon, poke, work>>
    OBVIOUS
  <2>4. FeedTypes'
    BY <1>0, <2>1, <2>2, <2>3 DEF FeedTypes
  <2>5. WaitIsRegistered' /\ Feed!IdleMissesNothing' /\ ShownIsSeen'
    BY <1>0, <2>1, <2>2, <2>3 DEF WaitIsRegistered, Feed!IdleMissesNothing, ShownIsSeen
  <2> QED
    BY <2>2, <2>4, <2>5 DEF FeedInv, Feed!PaintIsTrue
<1>8. CASE Feed!IdleWakes
  <2>1. Feed!Woken(TRUE) /\ poke' \in {poke, FALSE} /\ work' = [registered |-> FALSE, notified |-> FALSE]
    BY <1>8 DEF Feed!IdleWakes
  <2>2. pub' \in Rounds /\ pub'.at = "load"
    BY <1>a, <2>1
  <2>3. work' \in [registered : BOOLEAN, notified : BOOLEAN] /\ poke' \in BOOLEAN
    BY <1>t, <2>1
  <2>4. UNCHANGED <<agent, task, chan, posted, visible, showing, view, text, icon>>
    BY <1>8 DEF Feed!IdleWakes
  <2> QED
    BY <1>b, <2>2, <2>3, <2>4, RoundsKeep
<1> QED
  BY <1>1, <1>2, <1>3, <1>4, <1>5, <1>6, <1>7, <1>8 DEF Feed!Publish

LEMMA FeedPaints ==
  ASSUME FeedInv, \/ Feed!Refresh \/ Feed!Hosts \/ Feed!FallsBack
                  \/ Feed!Show \/ Feed!ShowPokes \/ Feed!Hide \/ Feed!AgentEnds
  PROVE  FeedInv'
<1> USE DEF Feed!children, Feed!window, Feed!publishing
<1>0. FeedTypes /\ Feed!IdleMissesNothing /\ WaitIsRegistered /\ ShownIsSeen /\ Feed!PaintIsTrue
  BY DEF FeedInv
<1>a. ASSUME UNCHANGED <<agent, task, pub, work, chan>>,
             posted' \in BOOLEAN /\ visible' \in BOOLEAN /\ showing' \in BOOLEAN /\ poke' \in BOOLEAN,
             poke => poke',
             visible' /\ ~showing' /\ ~poke' => visible /\ ~showing,
             Feed!PaintIsTrue'
      PROVE  FeedInv'
  <2>1. FeedTypes'
    BY <1>0, <1>a DEF FeedTypes
  <2>2. WaitIsRegistered' /\ Feed!IdleMissesNothing'
    BY <1>0, <1>a DEF WaitIsRegistered, Feed!IdleMissesNothing
  <2>3. ShownIsSeen'
    BY <1>0, <1>a DEF ShownIsSeen, Feed!Waiting
  <2> QED
    BY <1>a, <2>1, <2>2, <2>3 DEF FeedInv
<1>t. posted \in BOOLEAN /\ visible \in BOOLEAN /\ showing \in BOOLEAN /\ poke \in BOOLEAN
  BY <1>0 DEF FeedTypes
<1>1. CASE Feed!Refresh
  <2>1. UNCHANGED <<agent, task, pub, work, chan, poke, visible, showing, view>> /\ posted' = FALSE
    BY <1>1 DEF Feed!Refresh
  <2>2. Feed!PaintIsTrue'
    BY <1>1 DEF Feed!Refresh, Feed!Paint, Feed!PaintIsTrue, Feed!Waiting
  <2> QED
    BY <1>a, <1>t, <2>1, <2>2
<1>2. CASE Feed!Hosts
  <2>1. UNCHANGED <<agent, task, pub, work, chan, posted, poke, visible, showing>>
    BY <1>2 DEF Feed!Hosts
  <2>2. Feed!PaintIsTrue'
    BY <1>0, <1>2 DEF Feed!Hosts, Feed!PaintIsTrue, Feed!Waiting
  <2> QED
    BY <1>a, <1>t, <2>1, <2>2
<1>3. CASE Feed!FallsBack
  <2>1. UNCHANGED <<agent, task, pub, work, chan, posted, poke, visible, showing>>
    BY <1>3 DEF Feed!FallsBack
  <2>2. Feed!PaintIsTrue'
    BY <1>3 DEF Feed!FallsBack, Feed!Paint, Feed!PaintIsTrue, Feed!Waiting
  <2> QED
    BY <1>a, <1>t, <2>1, <2>2
<1>4. CASE Feed!Show
  <2>1. UNCHANGED <<agent, task, pub, work, chan, posted, poke>> /\ visible' = TRUE /\ showing' = TRUE
    BY <1>4 DEF Feed!Show
  <2>2. Feed!PaintIsTrue'
    BY <1>0, <1>4 DEF Feed!Show, Feed!PaintIsTrue
  <2> QED
    BY <1>a, <1>t, <2>1, <2>2
<1>5. CASE Feed!ShowPokes
  <2>1. UNCHANGED <<agent, task, pub, work, chan, posted, visible>> /\ showing' = FALSE /\ poke' = TRUE
    BY <1>5 DEF Feed!ShowPokes
  <2>2. Feed!PaintIsTrue'
    BY <1>0, <1>5 DEF Feed!ShowPokes, Feed!PaintIsTrue
  <2> QED
    BY <1>a, <1>t, <2>1, <2>2
<1>6. CASE Feed!Hide
  <2>1. UNCHANGED <<agent, task, pub, work, chan, posted, poke, showing>> /\ visible' = FALSE
    BY <1>6 DEF Feed!Hide
  <2>2. Feed!PaintIsTrue'
    BY <1>0, <1>6 DEF Feed!Hide, Feed!PaintIsTrue
  <2> QED
    BY <1>a, <1>t, <2>1, <2>2
<1>7. CASE Feed!AgentEnds
  <2>1. FeedTypes' /\ ~agent'.running
    BY <1>0, <1>7 DEF Feed!AgentEnds, Feed!Stopped, FeedTypes
  <2>2. UNCHANGED <<pub, work, chan, posted, poke, visible, showing, view, text, icon>>
    BY <1>7 DEF Feed!AgentEnds
  <2>3. Feed!IdleMissesNothing' /\ WaitIsRegistered'
    BY <1>0, <2>1, <2>2 DEF Feed!IdleMissesNothing, WaitIsRegistered
  <2>4. ShownIsSeen' /\ Feed!PaintIsTrue'
    BY <1>0, <2>2 DEF ShownIsSeen, Feed!PaintIsTrue, Feed!Waiting
  <2> QED
    BY <2>1, <2>3, <2>4 DEF FeedInv
<1> QED
  BY <1>1, <1>2, <1>3, <1>4, <1>5, <1>6, <1>7

LEMMA FeedKeeps == FeedInv /\ [Feed!Next]_feedVars => FeedInv'
<1> SUFFICES ASSUME FeedInv, [Feed!Next]_feedVars PROVE FeedInv'
  OBVIOUS
<1>1. CASE UNCHANGED feedVars
  BY <1>1 DEF feedVars, FeedInv, FeedTypes, WaitIsRegistered, Feed!IdleMissesNothing, ShownIsSeen, Feed!PaintIsTrue,
              Feed!Waiting
<1>2. ASSUME NEW a \in Clickers, Feed!AskStart(a) \/ Feed!AskStop(a)
      PROVE  FeedInv'
  BY <1>2, FeedAsks DEF Feed!AskStart, Feed!AskStop, Stages, Feed!Actors
<1>3. CASE Feed!Press
  BY <1>3, FeedAsks DEF Feed!Press, Stages, Feed!Actors
<1> QED
  BY <1>1, <1>2, <1>3, FeedTasks, FeedPublishes, FeedPaints DEF Feed!Next

-----------------------------------------------------------------------------
(* The panel.                                                              *)

LEMMA WindowInvIsSound == WindowInv => Window!WindowIsSound
<1> SUFFICES ASSUME WindowInv PROVE Window!WindowIsSound
  OBVIOUS
<1> USE DEF WindowInv, DeskInv, PageInv
<1>1. Window!PageIsNotFrozen
  BY DEF Window!PageIsNotFrozen, SuspensionIsAsked, FrozenIsTold
<1>2. Window!OneViewStands
  BY DEF Window!OneViewStands, Window!Loop, PageIsHosted
<1>3. Window!HiddenIsReachable /\ Window!IconIsTakenAway
  BY DEF Window!IconIsTakenAway, IconIsKnown
<1> QED
  BY <1>1, <1>2, <1>3 DEF Window!WindowIsSound

LEMMA FeedInvIsTrue == FeedInv => Feed!FeedIsTrue
BY DEF FeedInv, Feed!FeedIsTrue, Feed!ShownIsFull, ShownIsSeen

\* The machines are apart: a step of one leaves the others as they are.
PanelInv == IInv /\ WindowInv /\ FeedInv

LEMMA PanelInvariance == MCSpec => []PanelInv
<1>1. MCInit => PanelInv
  BY InitIInv, WindowInit, FeedInit DEF MCInit, PanelInv
<1>2. PanelInv /\ [MCNext]_mcVars => PanelInv'
  <2> SUFFICES ASSUME PanelInv, [MCNext]_mcVars PROVE PanelInv'
    OBVIOUS
  <2>1. [Next]_vars /\ [Window!Next]_windowVars /\ [Feed!Next]_feedVars
    BY DEF MCNext, ManagerSteps, WindowSteps, FeedSteps, mcVars
  <2> QED
    BY <2>1, NextIInv, WindowKeeps, FeedKeeps DEF PanelInv
<1> QED
  BY <1>1, <1>2, PTL DEF MCSpec

\* Whatever the order in which the user shows, hides and closes the window,
\* the runtime answers, the watchdog and the retries run out, Explorer restarts
\* and the panel stops, and whatever the menu, the page and the hotkey start
\* and stop meanwhile: one view stands and is awake, a hidden window can be
\* brought back, no icon stays behind, an idle publisher has missed no start
\* and what is painted is what was last sent (run, HostState, model.rs's power
\* states, run_publisher, refresh).
THEOREM WindowIsTrueHolds == MCSpec => []WindowIsTrue
<1>1. PanelInv => WindowIsTrue
  BY WindowInvIsSound, FeedInvIsTrue DEF PanelInv, WindowIsTrue
<1> QED
  BY <1>1, PanelInvariance, PTL

\* The manager's children beside the window and the feed: as above.
THEOREM PanelAccountsForChildren == MCSpec => []ChildrenAreAccountedFor
<1>1. PanelInv => ChildrenAreAccountedFor
  BY IInvImpliesChildrenAreAccountedFor DEF PanelInv
<1> QED
  BY <1>1, PanelInvariance, PTL
=============================================================================
