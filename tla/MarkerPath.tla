------------------------------ MODULE MarkerPath ------------------------------
(***************************************************************************)
(* A marker from a page to the recording: a request to the panel, a line   *)
(* in the capture agent's standard input, its reader thread, the channel,  *)
(* the shipping thread.  A request that waits too long is answered as not  *)
(* delivered; the agent may be stopped, and started again, at any moment,  *)
(* and it may simply not read.                                             *)
(*                                                                         *)
(* A line the system took from the panel stays in the pipe even when the   *)
(* request that wrote it has given up.  Labels are told apart by their     *)
(* request, and by what their line is to the agent: plain text, a JSON     *)
(* object with a label in it, or a brace that begins neither.  The panel   *)
(* does not look for braces; what else may be wrong with a label is a      *)
(* choice.                                                                 *)
(***************************************************************************)
EXTENDS Naturals, Sequences, SequencesExt

CONSTANTS Requests,
          Text,                       \* of each request: "plain", "object" or "brace"
          PipeLines,                  \* lines a pipe holds before a write waits
          MaxRuns                     \* bound of the model

TextAssumption == Text \in [Requests -> {"plain", "object", "brace"}]

VARIABLES
    run, life,        \* which run of the agent, and whether it runs, stops or is gone
    stage,            \* of each request: "new", "queued", "ok", "refused", "undelivered"
    handle,           \* the run whose input it holds
    writer,           \* who holds the lock of the run's input, and whose line is half in
    pipe, chan, recorded,
    taken             \* ghost: the lines in the order they went in

vars == <<run, life, stage, handle, writer, pipe, chan, recorded, taken>>
Nobody == "nobody"

Init ==
    /\ run = 1 /\ life = "running" /\ stage = [r \in Requests |-> "new"] /\ handle = [r \in Requests |-> 0]
    /\ writer = Nobody /\ pipe = <<>> /\ chan = <<>> /\ recorded = <<>> /\ taken = <<>>

-----------------------------------------------------------------------------
(* Manager::marker.                                                        *)

\* Under the slots lock: only the handle is taken.
MayMark == life = "running"
Request(r, valid) ==
    /\ stage[r] = "new"
    /\ IF valid /\ MayMark
       THEN stage' = [stage EXCEPT ![r] = "queued"] /\ handle' = [handle EXCEPT ![r] = run]
       ELSE stage' = [stage EXCEPT ![r] = "refused"] /\ UNCHANGED handle
    /\ UNCHANGED <<run, life, writer, pipe, chan, recorded, taken>>

\* The input's own lock; then the line goes in if the pipe has room for it.
TakeInput(r) ==
    /\ stage[r] = "queued" /\ handle[r] = run /\ life # "gone" /\ writer = Nobody /\ writer' = r
    /\ UNCHANGED <<run, life, stage, handle, pipe, chan, recorded, taken>>
Write(r) ==
    /\ writer = r /\ life # "gone" /\ Len(pipe) < PipeLines
    /\ pipe' = Append(pipe, r) /\ taken' = Append(taken, r) /\ writer' = Nobody
    /\ stage' = [stage EXCEPT ![r] = IF @ = "queued" THEN "ok" ELSE @]
    /\ UNCHANGED <<run, life, handle, chan, recorded>>

\* MARKER_WRITE_TIMEOUT, over the wait for the lock too.  What the system has
\* of the line stays with it.
\* Faulty variant: only a request that is writing can give up.
OnlyTheWriter(r) == writer = r
MayGiveUp(r) == TRUE
GiveUp(r) ==
    /\ stage[r] = "queued" /\ MayGiveUp(r) /\ stage' = [stage EXCEPT ![r] = "undelivered"]
    /\ UNCHANGED <<run, life, handle, writer, pipe, chan, recorded, taken>>
\* The child is gone: the pipe is broken.
WriteFails(r) ==
    /\ stage[r] = "queued" /\ (handle[r] # run \/ life = "gone")
    /\ stage' = [stage EXCEPT ![r] = "undelivered"]
    /\ UNCHANGED <<run, life, handle, writer, pipe, chan, recorded, taken>>

-----------------------------------------------------------------------------
(* The agent: stdin_markers and T2.                                        *)

\* parse_line: the line itself is the label, or the label inside it, or it is
\* no marker.
\* Faulty variant: every line is one.
EveryLine(r) == "line"
NoMarker == "none"
ParseLine(r) ==
    CASE Text[r] = "plain" -> "line" [] Text[r] = "object" -> "member" [] OTHER -> NoMarker

\* The reader: a line that is no marker is passed over.
ReadLine ==
    /\ life # "gone" /\ pipe # <<>> /\ pipe' = Tail(pipe)
    /\ LET r == Head(pipe)
       IN  chan' = IF ParseLine(r) = NoMarker THEN chan ELSE Append(chan, [of |-> r, label |-> ParseLine(r)])
    /\ UNCHANGED <<run, life, stage, handle, writer, recorded, taken>>

\* try_recv, build_marker, deliver: numbered as they come.
\* Faulty variant: the newest first.
NewestFirst(c) == [head |-> Last(c), tail |-> Front(c)]
Receive(c) == [head |-> Head(c), tail |-> Tail(c)]
Record ==
    /\ life # "gone" /\ chan # <<>> /\ chan' = Receive(chan).tail
    /\ LET m == Receive(chan).head
       IN  recorded' = Append(recorded, [of |-> m.of, label |-> m.label, run |-> run])
    /\ UNCHANGED <<run, life, stage, handle, writer, pipe, taken>>

\* detach, and later the end of the process: what it had not read is lost
\* with the pipe.
Stop ==
    /\ life = "running" /\ life' = "stopping"
    /\ UNCHANGED <<run, stage, handle, writer, pipe, chan, recorded, taken>>
Exit ==
    /\ life # "gone" /\ life' = "gone" /\ writer' = Nobody /\ pipe' = <<>> /\ chan' = <<>>
    /\ UNCHANGED <<run, stage, handle, recorded, taken>>
StartAgain ==
    /\ life = "gone" /\ run < MaxRuns /\ life' = "running" /\ run' = run + 1
    /\ UNCHANGED <<stage, handle, writer, pipe, chan, recorded, taken>>

Next ==
    \/ \E r \in Requests : (\E valid \in BOOLEAN : Request(r, valid)) \/ TakeInput(r) \/ Write(r) \/ GiveUp(r) \/ WriteFails(r)
    \/ ReadLine \/ Record \/ Stop \/ Exit \/ StartAgain

\* The panel's timers and the agent's threads run; nobody promises that the
\* agent reads before a request gives up.
Fairness ==
    /\ \A r \in Requests : WF_vars(GiveUp(r)) /\ WF_vars(WriteFails(r))
    /\ WF_vars(ReadLine) /\ WF_vars(Record)
Spec == Init /\ [][Next]_vars /\ Fairness

-----------------------------------------------------------------------------

IsMarker(r) == Text[r] # "brace"
Senders(ms) == [i \in DOMAIN ms |-> ms[i].of]
RecordedIn(n) == Senders(SelectSeq(recorded, LAMBDA m : m.run = n))
TakenIn(n) == SelectSeq(taken, LAMBDA r : handle[r] = n /\ IsMarker(r))

\* Nothing is lost or doubled between the pipe and the recording: the markers
\* that went in during a run are recorded, in the channel or in the pipe, in
\* that order, and after its end some first ones of them are recorded; none is
\* of a request that was refused, and what was answered with yes did go in.
MarkersAreExact ==
    /\ life # "gone" =>
          RecordedIn(run) \o Senders(chan) \o SelectSeq(pipe, IsMarker) = TakenIn(run)
    /\ \A n \in 1..run : IsPrefix(RecordedIn(n), TakenIn(n))
    /\ \A r \in Requests :
          /\ stage[r] = "ok" => Contains(taken, r)
          /\ stage[r] = "refused" => ~Contains(taken, r)

\* Every request is answered, also when the agent never reads; and what was
\* answered with yes, and is a marker to the agent, is recorded unless the
\* agent stops.
Pending(r) ==
    \/ stage[r] = "queued"
    \/ /\ stage[r] = "ok" /\ IsMarker(r) /\ ~Contains(Senders(recorded), r)
       /\ life = "running" /\ run = handle[r]
MarkerWaits == \E r \in Requests : Pending(r)
MarkersSettle == MarkerWaits ~> ~MarkerWaits
=============================================================================
