---------------------------- MODULE DoctorTool ----------------------------
(***************************************************************************)
(* The MCP server's `doctor` call: it has the control panel run the doctor  *)
(* component and reads the report back out of the panel's output ring.      *)
(*                                                                          *)
(* Four parties meet there.  The tool reads the ring's cursor, starts the   *)
(* component (or joins the run somebody else started) and polls until it is *)
(* over or the budget is; the child prints and exits; the panel's pump      *)
(* copies what it printed line by line, not necessarily before the exit is  *)
(* noticed; and other clients of the panel start and stop doctor as well.   *)
(* Any request may fail, and an old panel refuses --json.                   *)
(*                                                                          *)
(* A structured report is four lines: the object opens, an inner object     *)
(* opens and closes, the object closes.                                     *)
(***************************************************************************)
EXTENDS Naturals, Sequences, FiniteSets

LOCAL INSTANCE FiniteSetsExt
LOCAL INSTANCE SequencesExt

CONSTANTS
  Capacity,      \* lines the panel's ring keeps
  Shown,         \* lines /api/state hands out per component
  Budget,        \* polls the whole call may make
  MaxOthers      \* runs other clients start, at most

\* What the constants of the code satisfy.
DoctorAssumption ==
  /\ {Capacity, Shown, Budget} \subseteq Nat \ {0}

VARIABLES
  takes_json,    \* whether this panel's catalogue accepts doctor --json
  ring, seq,     \* LogRing: the lines held and the lines ever pushed
  slot,          \* the panel's doctor slot: the run in it, or None
  runs,          \* every run: what it will print, has been pumped, and its end
  pc, mode, cursor, joined, polls,   \* the call
  waited,        \* the run the call started or joined
  answer

panel == <<ring, seq, slot, runs>>
call == <<pc, mode, cursor, joined, polls, waited, answer>>
vars == <<takes_json, panel, call>>

None == 0
Silence == [kind |-> "none", lines |-> <<>>, exit |-> None]

Init ==
  /\ takes_json \in BOOLEAN
  /\ ring = <<>> /\ seq = 0 /\ slot = None /\ runs = <<>>
  /\ pc = "idle" /\ mode = "json" /\ cursor = 0 /\ joined = FALSE /\ polls = 0
  /\ waited = None /\ answer = Silence

-----------------------------------------------------------------------------
(* The panel's ring: LogRing. *)

Pushed(lines, new) ==
  LET all == lines \o new
  IN SubSeq(all, Max({1, Len(all) - Capacity + 1}), Len(all))
TailOf(lines, n) == SubSeq(lines, Max({1, Len(lines) - n + 1}), Len(lines))
\* What a client that has seen `since` lines has not, at most n of it.
SinceOf(lines, total, since, n) ==
  LET first == total - Len(lines)
      skip == IF since > first THEN since - first ELSE 0
  IN SubSeq(lines, Max({skip, IF Len(lines) > n THEN Len(lines) - n ELSE 0}) + 1, Len(lines))

Banner(r, text) == [run |-> r, text |-> text]

\* Slot::reap on a child that has ended: the exit line, and the slot is free.
Ended(r) == r # None /\ runs[r].exited
Reaped == IF Ended(slot) THEN <<Banner(slot, "exited")>> ELSE <<>>
Occupied == slot # None /\ ~Ended(slot)

-----------------------------------------------------------------------------
(* The children and the panel's other clients. *)

Output(kind) ==
  IF kind = "json" THEN <<"open", "inner", "inner end", "close">> ELSE <<"text">>

\* start: reap what is over, spawn, push the line that says so.
Started(kind, reaped, other) ==
  LET r == Len(runs) + 1
  IN /\ runs' = Append(runs, [prints |-> Output(kind), pumped |-> 0, exited |-> FALSE,
                              other |-> other])
     /\ slot' = r
     /\ ring' = Pushed(ring, reaped \o <<Banner(r, "started")>>)
     /\ seq' = seq + Len(reaped) + 1

OtherStarts(kind) ==
  /\ ~Occupied /\ Cardinality({r \in 1 .. Len(runs) : runs[r].other}) < MaxOthers
  /\ kind = "json" => takes_json
  /\ Started(kind, Reaped, TRUE)
  /\ UNCHANGED call

\* A run ends having printed everything, or is stopped having printed less.
Exit ==
  /\ Occupied
  /\ \E n \in {runs[slot].pumped, Len(runs[slot].prints)} :
       runs' = [runs EXCEPT ![slot].exited = TRUE, ![slot].prints = SubSeq(@, 1, n)]
  /\ UNCHANGED <<ring, seq, slot, call>>

\* pump: the next line, at any time after it was printed.  A run's pump is
\* taken to have drained its pipe before a later child prints its first line.
Drained(r) == runs[r].pumped = Len(runs[r].prints)
Pump(r) ==
  /\ ~Drained(r) /\ \A q \in 1 .. r - 1 : Drained(q)
  /\ ring' = Pushed(ring, <<[run |-> r, text |-> runs[r].prints[runs[r].pumped + 1]]>>)
  /\ seq' = seq + 1
  /\ runs' = [runs EXCEPT ![r].pumped = @ + 1]
  /\ UNCHANGED <<slot, call>>

Reap ==
  /\ Ended(slot)
  /\ ring' = Pushed(ring, Reaped) /\ seq' = seq + 1 /\ slot' = None
  /\ UNCHANGED <<runs, call>>

-----------------------------------------------------------------------------
(* The call: doctor_impl and doctor_run. *)

Answer(kind, lines) ==
  /\ pc' = "answered"
  /\ answer' = [kind |-> kind, lines |-> lines, exit |-> waited]

Call ==
  /\ pc = "idle" /\ pc' = "read"
  /\ UNCHANGED <<panel, mode, cursor, joined, polls, waited, answer>>

\* The snapshot reaps before it reads, and the cursor is taken after both.
ReadCursor ==
  /\ pc = "read" /\ pc' = "start"
  /\ ring' = Pushed(ring, Reaped) /\ seq' = seq + Len(Reaped)
  /\ slot' = IF Ended(slot) THEN None ELSE slot
  /\ cursor' = seq'
  /\ UNCHANGED <<runs, mode, joined, polls, waited, answer>>

\* interpret: what the status of a start means to the tool.
Status == IF mode = "json" /\ ~takes_json THEN 400 ELSE IF Occupied THEN 409 ELSE 200

Start ==
  /\ pc = "start"
  /\ CASE Status = 400 ->
            /\ pc' = "read" /\ mode' = "text"
            /\ UNCHANGED <<panel, joined, waited>>
       [] Status = 409 ->
            /\ pc' = "poll" /\ joined' = TRUE /\ waited' = slot
            /\ UNCHANGED <<panel, mode>>
       [] OTHER ->
            /\ pc' = "poll" /\ joined' = FALSE /\ waited' = Len(runs) + 1
            /\ Started(mode, Reaped, FALSE)
            /\ UNCHANGED mode
  /\ UNCHANGED <<cursor, polls, answer>>

Opens(l) == l.text \in {"open", "inner"}
Closes(l) == l.text \in {"inner end", "close"}

\* Faulty variant: whatever parses is the report.
AnyObject(lines) ==
  LET opening == {i \in 1 .. Len(lines) : Opens(lines[i])}
      closing == {i \in 1 .. Len(lines) : Closes(lines[i])}
      slice == SubSeq(lines, Min(opening), Max(closing))
      texts == [i \in 1 .. Len(slice) |-> slice[i].text]
  IN IF opening # {} /\ closing # {}
        /\ texts \in {Output("json"), <<"inner", "inner end">>} THEN slice ELSE <<>>

\* From the first line that opens an object to the last that closes one; what
\* is between them parses when the braces match, and is the report only when
\* it carries the schema, which the outer object does and an inner one does not.
Document(lines) ==
  LET opening == {i \in 1 .. Len(lines) : Opens(lines[i])}
      closing == {i \in 1 .. Len(lines) : Closes(lines[i])}
      slice == SubSeq(lines, Min(opening), Max(closing))
      texts == [i \in 1 .. Len(slice) |-> slice[i].text]
  IN IF opening # {} /\ closing # {} /\ texts = Output("json") THEN slice ELSE <<>>

\* A run that was joined began before the cursor, so the whole ring is read.
Polled(lines, total) ==
  IF joined THEN TailOf(lines, Shown) ELSE SinceOf(lines, total, cursor, Shown)

Expired(n) == n >= Budget

Finish(lines) ==
  CASE mode = "text" -> Answer("text", lines) /\ UNCHANGED mode
    [] Document(lines) # <<>> -> Answer("report", Document(lines)) /\ UNCHANGED mode
    [] joined -> Answer("text", lines) /\ UNCHANGED mode
    [] OTHER -> pc' = "read" /\ mode' = "text" /\ UNCHANGED answer

\* One poll: a snapshot, then the loop's test.
Poll ==
  /\ pc = "poll"
  /\ polls' = Min({polls + 1, Budget + 2})   \* nothing tells more polls apart
  /\ ring' = Pushed(ring, Reaped) /\ seq' = seq + Len(Reaped)
  /\ slot' = IF Ended(slot) THEN None ELSE slot
  /\ LET running == Occupied
         lines == Polled(ring', seq')
     IN CASE ~running -> Finish(lines)
          [] running /\ Expired(polls') -> Answer("unfinished", lines) /\ UNCHANGED mode
          [] OTHER -> UNCHANGED <<pc, mode, answer>>
  /\ UNCHANGED <<runs, cursor, joined, waited>>

\* Any of the three requests can fail: the panel is gone, or answers nonsense.
RequestFails ==
  /\ pc \in {"read", "start", "poll"}
  /\ Answer("error", <<>>)
  /\ UNCHANGED <<panel, mode, cursor, joined, polls, waited>>

Others == \* what the panel does after the answer is another call's
  /\ pc # "answered"
  /\ \/ \E kind \in {"json", "text"} : OtherStarts(kind)
     \/ Exit
     \/ Reap
     \/ \E r \in 1 .. Len(runs) : Pump(r)

Tool == ReadCursor \/ Start \/ Poll

Next ==
  /\ Others \/ Call \/ Tool \/ RequestFails
  /\ UNCHANGED takes_json

\* The tool's task is polled by the runtime; no child need ever exit.
Fairness == WF_vars(Tool /\ UNCHANGED takes_json)

Spec == Init /\ [][Next]_vars /\ Fairness

-----------------------------------------------------------------------------
\* doctor_document: "a fragment is never passed off as the report" - what is
\* returned as the report is one run's whole output, whoever else printed, and
\* whatever the ring or the pump had cut off.
ReportIsWhole ==
  answer.kind = "report" =>
    /\ [i \in 1 .. Len(answer.lines) |-> answer.lines[i].text] = Output("json")
    /\ \A i \in 1 .. Len(answer.lines) : answer.lines[i].run = answer.lines[1].run

\* doctor_run: an answer that says the check is finished comes after the run
\* the call started or joined has ended, also when others run doctor meanwhile.
FinishedIsOver ==
  answer.kind \in {"report", "text"} => waited # None /\ runs[waited].exited

\* doctor_impl: the text run shares the first run's deadline; it is asked once
\* more at most.
StaysInBudget == polls <= Budget + 1

DoctorIsHonest == ReportIsWhole /\ FinishedIsOver /\ StaysInBudget

\* "Waits up to 30 seconds": every call is answered, though doctor may hang and
\* other clients may keep the component busy.
DoctorWaits == pc \in {"read", "start", "poll"}
DoctorAnswers == DoctorWaits ~> ~DoctorWaits

\* doctor_run: the cursor is read "so earlier runs' lines are not mistaken for
\* this one's".  Fails: a joined call reads the whole ring, and when the run in
\* flight prints text, the document an earlier run left there is returned as
\* this run's report.
EarlierRunsAreNotMistaken ==
  answer.kind = "report" /\ joined => answer.lines[1].run >= waited
=============================================================================
