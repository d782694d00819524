------------------------------ MODULE McpTools ------------------------------
(***************************************************************************)
(* One call of an MCP tool, all of them but `doctor`: what the client sent *)
(* is checked, the panel, the viz, a log file or the analyzer is asked,    *)
(* and what came back is the answer or a sentence.                         *)
(*                                                                         *)
(* The two servers come and go while a call waits for them, the viz starts *)
(* counting from nothing again, a log grows.  A response travels as a head *)
(* and a body with a length, in chunks or up to the end of the stream, and *)
(* may be cut off anywhere; the contents of a body matter only as whole or *)
(* not.  A recording's contents and the report of them are one number, and *)
(* a report of a run that was not over yet is another.                     *)
(***************************************************************************)
EXTENDS Integers, Sequences, FiniteSets

LOCAL INSTANCE FiniteSetsExt
LOCAL INSTANCE SequencesExt

CONSTANTS
  MaxBody, Slack,   \* MAX_BODY, and how much more than that is read
  HeadUnits,        \* what the head of a response takes of it
  Window, LineLen,  \* TAIL_WINDOW and a line of the log, in bytes
  LogLens,          \* sizes the log may have at first
  MaxLabel, MaxPid, \* MAX_MARKER_LABEL_CHARS and u32::MAX
  Started, Loads,   \* each recording: when it began, whether it loads
  MaxChanges        \* bound: what happens around a call

VARIABLES
  read_only,        \* --read-only
  ctl_peer,         \* the panel: [up, lines of output it holds]
  viz_peer,         \* the viz: [up, bound, built with statistics, its counters]
  log_len,          \* bytes in <component>.log
  kept,             \* the report cache: what each recording's report is of
  folder,           \* whether the cache's folder can be made
  call, at, got, tried, result,
  sent,             \* requests the panel received that change something
  arrived,          \* every datagram the viz received, across its restarts
  changes

around == <<read_only, folder, call>>
vars == <<around, ctl_peer, viz_peer, log_len, kept, at, got, tried, result, sent, arrived,
          changes>>

None == -1
\* A sentence: the reasons in it.
Sentence(reasons) == [ok |-> FALSE, why |-> reasons]
Failure(why) == Sentence(<<why>>)
Value(v) == [ok |-> TRUE, value |-> v]

-----------------------------------------------------------------------------
(* http.rs: `send` reads up to a bound, `parse` frames what it read.         *)

SizeLine == 2   \* a chunk's size and its line end
LineEnd == 1

RECURSIVE Dechunk(_, _, _)
Dechunk(sizes, rest, out) ==
  IF rest < SizeLine THEN None
  ELSE IF sizes[1] = 0 THEN out
  ELSE IF rest - SizeLine < sizes[1] + LineEnd \/ out + sizes[1] > MaxBody THEN None
  ELSE Dechunk(Tail(sizes), rest - SizeLine - sizes[1] - LineEnd, out + sizes[1])

Chunks(n) == [i \in 1 .. (n + 1) \div 2 |-> Min({2, n - 2 * (i - 1)})] \o <<0>>
Framings == {"length", "chunked", "close"}
Total(framing, n) ==
  HeadUnits + n
    + IF framing = "chunked" THEN Len(Chunks(n)) * (SizeLine + LineEnd) ELSE 0

\* Faulty variant: nothing is read beyond the longest body.
TakenToTheBound(units) == Min({units, MaxBody})
Taken(units) == Min({units, MaxBody + Slack})

\* How much body `parse` finds in the first `units` of a response, or None.
Parse(framing, n, units) ==
  LET rest == Taken(units) - HeadUnits
      body == CASE framing = "chunked" -> Dechunk(Chunks(n), rest, 0)
                [] framing = "length" -> IF rest < n THEN None ELSE n
                [] OTHER -> rest
  IN IF rest < 0 \/ body > MaxBody THEN None ELSE body

-----------------------------------------------------------------------------
(* local.rs: what a status and a body mean.  An exchange fails, or brings    *)
(* the whole body or a part of it; which part comes of which is Receive.     *)

Unreachable == Failure("unreachable")

\* A body in part is no JSON.  A refusal keeps its status, and says ctl's own
\* words when it sent them.
Interpret(res, whole, accept) ==
  IF res.status \in 200 .. 299 \cup accept
  THEN IF res.json /\ whole THEN Value(res.value) ELSE Failure("unreadable")
  ELSE [ok |-> FALSE, status |-> res.status,
        why |-> <<IF res.json /\ whole THEN "refused: its words" ELSE "refused">>]

\* local_message with NO_STATS: why the counters may not be there.
StatsMessage(x) ==
  IF "status" \in DOMAIN x /\ x.status = 404 THEN Sentence(Append(x.why, "no statistics"))
                                            ELSE Sentence(x.why)

\* call: a request to `peer`, which would answer `res`.
Exchanges(peer, res, accept) ==
  {Unreachable}
    \cup (IF peer.up THEN {Interpret(res, whole, accept) : whole \in BOOLEAN} ELSE {})

Json(status, v) == [status |-> status, json |-> TRUE, value |-> v]
Text(status) == [status |-> status, json |-> FALSE, value |-> None]

\* What the routes answer just now.
StateAnswer == Json(200, ctl_peer.lines)
\* Faulty variant: 503 is a refusal.
AcceptsNothing == {}
HealthAccepts == {503}
HealthAnswer == Json(IF viz_peer.bound THEN 200 ELSE 503, viz_peer.bound)
StatsAnswer == IF viz_peer.built THEN Json(200, viz_peer.stats) ELSE Text(404)

-----------------------------------------------------------------------------
(* args.rs: what a tool accepts.                                             *)

Clamp(n, default, least, most) ==
  IF n = None THEN default ELSE Max({least, Min({n, most})})
ListLimit(n) == Clamp(n, 50, 1, 500)
TailLines(n) == Clamp(n, 50, 1, 500)
SampleSeconds(n) == Clamp(n, 5, 0, 60)
\* Every row without a count.
LastRows(n, rows) == IF n = None THEN rows ELSE Min({rows, Clamp(n, 1, 1, 500)})

CaptureFlags == {"--print", "--no-kafka", "--no-udp", "--record", "--no-record"}
\* In the order given, each once.
Flags(given) ==
  LET first == {i \in 1 .. Len(given) : \A j \in 1 .. i - 1 : given[j] # given[i]}
      out == [i \in 1 .. Cardinality(first) |-> given[SetToSortSeq(first, <)[i]]]
  IN IF ~(ToSet(given) \subseteq CaptureFlags) \/ {"--record", "--no-record"} \subseteq ToSet(out)
     THEN Failure("flags") ELSE Value(out)

MarkerLabel(label) ==
  IF label.chars = 0 \/ label.breaks \/ label.chars > MaxLabel
  THEN Failure("label") ELSE Value(label)

Pid(pid) == IF pid > 0 /\ pid <= MaxPid THEN Value(pid) ELSE Failure("pid")

\* Components with a ring at the panel, with a log file, with both.
RingComponents == {"viz", "doctor"}
LogFiles == {"viz", "mcp"}
LogComponents == RingComponents \cup LogFiles

\* The id as it is listed, or followed by .jsonl.
RecordingId(arg) == IF arg.safe THEN Value(arg.stem) ELSE Failure("id")

-----------------------------------------------------------------------------
(* The tools, and which of them are offered.                                 *)

ReadTools == {"sessions_list", "session_summary", "trend", "health", "logs_tail", "live_stats"}
ControlTools == {"capture_start", "capture_stop", "marker", "kill"}

\* All of them; faulty variant: what the handler offers.
FreshRouter == ReadTools \cup ControlTools
Offered == ReadTools \cup IF read_only THEN {} ELSE ControlTools

Counts == {None, 0, 1, 2, 501}
FlagLists == BoundedSeq({"--print", "--record", "--no-record", "--config"}, 2)
Calls ==
  [tool : {"sessions_list", "trend"}, n : Counts]
    \cup [tool : {"session_summary"}, id : [stem : DOMAIN Started \cup {0}, safe : BOOLEAN]]
    \cup [tool : {"logs_tail"}, n : Counts, component : LogComponents \cup {"other"}]
    \cup [tool : {"live_stats"}, n : {0, 1}]
    \cup [tool : {"health"}] \cup [tool : {"capture_stop"}, force : BOOLEAN]
    \cup [tool : {"capture_start"}, flags : FlagLists, save : {None, 0, 1}]
    \cup [tool : {"marker"}, label : [chars : {0, 1, MaxLabel, MaxLabel + 1}, breaks : BOOLEAN]]
    \cup {c \in [tool : {"response"}, framing : Framings,
                  n : {1, MaxBody, MaxBody + 1, MaxBody + Slack},
                  units : 0 .. Total("chunked", MaxBody + Slack)] :
              c.units <= Total(c.framing, c.n)}
    \cup [tool : {"kill"}, pid : {-1, 0, 1, MaxPid, MaxPid + 1}]

Analyzes(c) == c.tool \in {"sessions_list", "session_summary", "trend"}
Samples(c) == c.tool \in {"health", "live_stats"}

\* What a report is of: what the recording held before, what every recording
\* holds, the same while its run went on.
Old == 0
Fresh == 1
Unfinished == 2

Zeros(keys) == [k \in keys |-> 0]
Vizs == [up : BOOLEAN, bound : BOOLEAN, built : BOOLEAN,
         stats : [{"datagrams", "forwarded"} -> {2}] \cup [{"datagrams"} -> {0, 2}]]
Quiet == [up |-> TRUE, bound |-> TRUE, built |-> TRUE, stats |-> Zeros({"datagrams"})]

Begins ==
  /\ at = "asked" /\ tried = <<>> /\ result = Failure("") /\ sent = {}
  /\ got = [ctl |-> <<>>, viz |-> FALSE, stats |-> Zeros({}), arrived |-> 0, from |-> 0]
  /\ arrived = 0 /\ changes = 0

\* What a call does not look at has one state.
Init ==
  /\ call \in Calls /\ read_only \in BOOLEAN
  /\ folder \in (IF Analyzes(call) THEN BOOLEAN ELSE {TRUE})
  /\ kept \in (IF Analyzes(call) THEN [DOMAIN Started -> {None, Old, Fresh, Unfinished}]
               ELSE {[r \in DOMAIN Started |-> None]})
  /\ \A r \in DOMAIN Started : ~Loads[r] => kept[r] \in {None, Old}
  /\ ctl_peer \in [up : BOOLEAN, lines : IF call.tool = "logs_tail" THEN {0, 3} ELSE {0}]
  /\ viz_peer \in (IF Samples(call) THEN Vizs ELSE {Quiet})
  /\ log_len \in (IF call.tool = "logs_tail" THEN LogLens ELSE {0})
  /\ Begins

\* No call that matters.
Idle ==
  /\ call = [tool |-> "health"] /\ read_only = FALSE /\ folder = TRUE
  /\ kept = [r \in DOMAIN Started |-> None]
  /\ ctl_peer = [up |-> TRUE, lines |-> 0] /\ viz_peer = Quiet /\ log_len = 0
  /\ Begins

-----------------------------------------------------------------------------
(* Around a call that has begun and waits.                                   *)

Change ==
  /\ at \notin {"asked", "answered"} /\ changes < MaxChanges /\ changes' = changes + 1
  /\ UNCHANGED <<around, kept, at, got, tried, result, sent>>

\* A panel that starts has no output.
PanelComesOrGoes ==
  /\ Change /\ ctl_peer' = [up |-> ~ctl_peer.up, lines |-> 0]
  /\ UNCHANGED <<viz_peer, log_len, arrived>>

\* A viz that starts counts from nothing, and may not get its port.
VizComesOrGoes ==
  /\ Change
  /\ \E bound \in BOOLEAN :
       viz_peer' = [viz_peer EXCEPT !.up = ~@, !.bound = bound,
                                    !.stats = Zeros(DOMAIN viz_peer.stats)]
  /\ UNCHANGED <<ctl_peer, log_len, arrived>>

Arrives ==
  /\ Change /\ viz_peer.up /\ viz_peer.bound
  /\ viz_peer' = [viz_peer EXCEPT !.stats.datagrams = @ + 1]
  /\ arrived' = arrived + 1
  /\ UNCHANGED <<ctl_peer, log_len>>

LogGrows ==
  /\ Change /\ call.tool = "logs_tail" /\ log_len' = log_len + 1
  /\ UNCHANGED <<ctl_peer, viz_peer, arrived>>

-----------------------------------------------------------------------------
(* Call::finish: what a tool's body returns is the answer, failed or not.    *)

Answer(r) == at' = "answered" /\ result' = r
Still == UNCHANGED <<around, ctl_peer, viz_peer, log_len, arrived, changes>>

Unknown ==
  /\ at = "asked" /\ call.tool \in FreshRouter \ Offered
  /\ Answer(Failure("unknown tool"))
  /\ UNCHANGED <<kept, got, tried, sent>> /\ Still

\* A response of which the peer or the connection let `units` come.
Receive ==
  /\ at = "asked" /\ call.tool = "response"
  /\ LET body == Parse(call.framing, call.n, call.units)
     IN Answer(IF body = None THEN Unreachable ELSE Value(body))
  /\ UNCHANGED <<kept, got, tried, sent>> /\ Still

Asked(tool) == at = "asked" /\ call.tool = tool /\ call.tool \in Offered

-----------------------------------------------------------------------------
(* health_impl: three requests, each of which may fail by itself.            *)

HealthPanel ==
  /\ Asked("health") /\ at' = "healthz"
  /\ \E x \in Exchanges(ctl_peer, StateAnswer, {}) :
       got' = [got EXCEPT !.ctl = IF x.ok THEN <<>> ELSE x.why]
  /\ UNCHANGED <<kept, tried, result, sent>> /\ Still

\* Why the panel, the viz and its counters are not known, each empty when it is.
HealthAt(error, ok, stats, stats_error) ==
  Value([ctl |-> got.ctl, error |-> error, ok |-> ok, stats |-> stats,
         stats_error |-> stats_error])

HealthViz ==
  /\ at = "healthz"
  /\ \E x \in Exchanges(viz_peer, HealthAnswer, HealthAccepts) :
       /\ IF x.ok
          THEN at' = "stats" /\ got' = [got EXCEPT !.viz = x.value] /\ UNCHANGED result
          ELSE Answer(HealthAt(x.why, FALSE, {}, <<>>)) /\ UNCHANGED got
  /\ UNCHANGED <<kept, tried, sent>> /\ Still

\* stats_digest: the counters that are there; the sentence when none are.
HealthStats ==
  /\ at = "stats"
  /\ \E x \in Exchanges(viz_peer, StatsAnswer, {}) :
       /\ Answer(IF x.ok THEN HealthAt(<<>>, got.viz, DOMAIN x.value, <<>>)
                         ELSE HealthAt(<<>>, got.viz, {}, StatsMessage(x).why))
  /\ UNCHANGED <<kept, got, tried, sent>> /\ Still

-----------------------------------------------------------------------------
(* live_impl: two readings, some seconds apart.                              *)

\* Faulty variant: the difference, whatever its sign.
SignedDelta(first, second) ==
  [k \in DOMAIN first \cap DOMAIN second |-> second[k] - first[k]]
StatsDelta(first, second) ==
  [k \in DOMAIN first \cap DOMAIN second |-> Max({0, second[k] - first[k]})]

LiveFirst ==
  /\ Asked("live_stats")
  /\ \E x \in Exchanges(viz_peer, StatsAnswer, {}) :
       /\ IF ~x.ok THEN Answer(StatsMessage(x)) /\ UNCHANGED got
          ELSE IF SampleSeconds(call.n) = 0
          THEN Answer(Value([delta |-> Zeros({}), latest |-> x.value])) /\ UNCHANGED got
          ELSE /\ at' = "second" /\ UNCHANGED result
               /\ got' = [got EXCEPT !.stats = x.value, !.arrived = arrived]
  /\ UNCHANGED <<kept, tried, sent>> /\ Still

LiveSecond ==
  /\ at = "second"
  /\ \E x \in Exchanges(viz_peer, StatsAnswer, {}) :
       /\ Answer(IF x.ok THEN Value([delta |-> StatsDelta(got.stats, x.value),
                                        latest |-> x.value]) ELSE StatsMessage(x))
  /\ UNCHANGED <<kept, got, tried, sent>> /\ Still

-----------------------------------------------------------------------------
(* logs_impl: the panel's ring, then the component's own file.               *)

Newest(count, lines) == [i \in 1 .. Min({count, lines}) |-> lines - Min({count, lines}) + i]

LogsRing ==
  /\ Asked("logs_tail")
  /\ IF call.component \notin LogComponents
     THEN Answer(Failure("component")) /\ UNCHANGED tried
     ELSE IF call.component \notin RingComponents
     THEN at' = "file" /\ UNCHANGED <<tried, result>>
     ELSE \E x \in Exchanges(ctl_peer, StateAnswer, {}) :
            /\ IF x.ok /\ ctl_peer.lines > 0
               THEN /\ Answer(Value([source |-> "ring",
                                     lines |-> Newest(TailLines(call.n), ctl_peer.lines)]))
                    /\ UNCHANGED tried
               ELSE at' = "file" /\ tried' = <<"ring">> /\ UNCHANGED result
  /\ UNCHANGED <<kept, got, sent>> /\ Still

\* The lines of the last Window bytes of a file: line i is its bytes from
\* (i - 1) * LineLen + 1 on.  The first of them is dropped unless the file was
\* read from its start.
LineOf(byte) == (byte - 1) \div LineLen + 1
\* Faulty variant: what the seek landed in is a line.
DropsNone(from, all) == all
DropsFragment(from, all) == IF from > 0 /\ all # <<>> THEN Tail(all) ELSE all
TailFile(from, len, count) ==
  LET piece(i) == [line |-> i, whole |-> (i - 1) * LineLen >= from]
      found == SetToSortSeq({LineOf(b) : b \in from + 1 .. len}, <)
      all == DropsFragment(from, [i \in 1 .. Len(found) |-> piece(found[i])])
  IN SubSeq(all, Max({0, Len(all) - count}) + 1, Len(all))

\* A build without logging knows no directory: the same as a file that is not there.
NoFile == tried' = Append(tried, "file") /\ Answer(Sentence(tried')) /\ UNCHANGED got

\* The length is taken first, and the file is read to its end after that.
LogsFile ==
  /\ at = "file"
  /\ \/ NoFile
     \/ /\ call.component \in LogFiles /\ at' = "read"
        /\ got' = [got EXCEPT !.from = Max({0, log_len - Window})]
        /\ UNCHANGED <<tried, result>>
  /\ UNCHANGED <<kept, sent>> /\ Still

LogsRead ==
  /\ at = "read"
  /\ \/ NoFile
     \/ /\ Answer(Value([source |-> "file",
                         lines |-> TailFile(got.from, log_len, TailLines(call.n))]))
        /\ UNCHANGED <<got, tried>>
  /\ UNCHANGED <<kept, sent>> /\ Still

-----------------------------------------------------------------------------
(* The control tools: one request each, with the panel's guard header.       *)

Body(c) ==
  CASE c.tool = "capture_start" ->
         IF Flags(c.flags).ok THEN Value([flags |-> Flags(c.flags).value, save |-> c.save])
                              ELSE Flags(c.flags)
    [] c.tool = "capture_stop" -> Value(c.force)
    [] c.tool = "marker" -> MarkerLabel(c.label)
    [] c.tool = "kill" -> Pid(c.pid)
    [] OTHER -> Value(None)

\* post: the header goes to the panel alone, which refuses what lacks it.
Guarded(peer) == peer = "ctl"
PostAnswers == IF Guarded("ctl") THEN {Json(200, None), Json(400, None), Json(409, None)}
                                 ELSE {Json(403, None)}

Proxy ==
  /\ at = "asked" /\ call.tool \in Offered \cap ControlTools
  /\ IF ~Body(call).ok
     THEN Answer(Body(call)) /\ UNCHANGED sent
     ELSE \E res \in PostAnswers : \E x \in Exchanges(ctl_peer, res, {}) :
            /\ Answer(x)
            /\ sent' \in {sent, sent \cup {[tool |-> call.tool, body |-> Body(call),
                                            taken |-> res.status = 200]}}
            /\ x # Unreachable => sent' # sent
            /\ ~ctl_peer.up => sent' = sent
  /\ UNCHANGED <<kept, got, tried>> /\ Still

-----------------------------------------------------------------------------
(* analysis.rs: the analyzer as a library, on a blocking thread.             *)

Recordings == DOMAIN Started

WritableCache == ~read_only /\ folder
\* Faulty variant: any report kept is served.
ServesAny(r) == kept[r] # None
Current(r) == kept[r] \in {Fresh, Unfinished}

\* What a report of r says, and what the cache keeps after it.  A report from
\* the cache says how the run ended, but read-only it says what it said then.
\* `outcome`: a report that is to be stored is stored, or cannot be and is
\* lost, or is of a recording that changed meanwhile and only told.
Outcomes == {"stored", "lost", "told"}
ReportOf(r, outcome) ==
  IF read_only /\ Current(r) THEN <<Value(kept[r]), kept[r]>>
  ELSE IF WritableCache /\ Current(r) THEN <<Value(Fresh), kept[r]>>
  ELSE IF ~Loads[r] THEN <<Failure("analyzing"), kept[r]>>
  ELSE IF ~WritableCache \/ outcome = "told" THEN <<Value(Fresh), kept[r]>>
  ELSE IF outcome = "stored" THEN <<Value(Fresh), Fresh>>
  ELSE <<Failure("analyzing"), kept[r]>>

\* Newest first, and how many there are.
Sessions(limit) ==
  LET all == SetToSortSeq(Recordings, LAMBDA a, b : Started[a] > Started[b])
  IN [total |-> Len(all), sessions |-> SubSeq(all, 1, Min({limit, Len(all)}))]

\* One row for each recording that has a report, oldest first, the last n.
Rows(outcome) ==
  LET found == {r \in Recordings : ReportOf(r, outcome[r])[1].ok}
      all == SetToSortSeq(found, LAMBDA a, b : Started[a] < Started[b])
      rows == [i \in 1 .. Len(all) |->
                [index |-> all[i], report |-> ReportOf(all[i], outcome[all[i]])[1].value]]
  IN SubSeq(rows, Len(rows) - LastRows(call.n, Len(rows)) + 1, Len(rows))

ListSessions ==
  /\ Asked("sessions_list") /\ Answer(Value(Sessions(ListLimit(call.n))))
  /\ UNCHANGED <<kept, got, tried, sent>> /\ Still

Summary ==
  /\ Asked("session_summary")
  /\ LET id == RecordingId(call.id)
     IN IF ~id.ok \/ id.value \notin Recordings
        THEN Answer(Failure("no recording")) /\ UNCHANGED kept
        ELSE \E outcome \in Outcomes :
               /\ Answer(ReportOf(id.value, outcome)[1])
               /\ kept' = [kept EXCEPT ![id.value] = ReportOf(id.value, outcome)[2]]
  /\ UNCHANGED <<got, tried, sent>> /\ Still

Trend ==
  /\ Asked("trend")
  /\ \E outcome \in [Recordings -> Outcomes] :
       /\ Answer(Value(Rows(outcome)))
       /\ kept' = [r \in Recordings |-> ReportOf(r, outcome[r])[2]]
  /\ UNCHANGED <<got, tried, sent>> /\ Still

\* The recordings cannot be listed, or the thread did not finish: what it has
\* stored by then stays.
AnalysisFails ==
  /\ at = "asked" /\ Analyzes(call) /\ Answer(Failure("analyzing"))
  /\ \E stored \in SUBSET (IF call.tool = "trend" THEN Recordings ELSE {}) :
       kept' = [r \in Recordings |-> IF r \in stored THEN ReportOf(r, "stored")[2] ELSE kept[r]]
  /\ UNCHANGED <<got, tried, sent>> /\ Still

ToolStep ==
  \/ Unknown \/ Receive \/ HealthPanel \/ HealthViz \/ HealthStats \/ LiveFirst \/ LiveSecond
  \/ LogsRing \/ LogsFile \/ LogsRead \/ Proxy \/ ListSessions \/ Summary \/ Trend
  \/ AnalysisFails

Next == PanelComesOrGoes \/ VizComesOrGoes \/ Arrives \/ LogGrows \/ ToolStep

\* Every request ends by its TIMEOUT, and the sample by its sleep.
Spec == Init /\ [][Next]_vars /\ WF_vars(ToolStep)

-----------------------------------------------------------------------------
Answered == at = "answered"

\* parse: whatever the framing, the sizes and the bound, a part of a body is
\* never handed on as the body, but where the end of the stream is its only
\* mark and somebody else ended it.
BodiesAreWhole ==
  call.tool = "response" /\ Answered /\ result.ok =>
    result.value = call.n
      \/ (call.framing = "close" /\ call.units < Total(call.framing, call.n))

\* --read-only, "it cannot start, mark or stop anything" and "never creates it
\* or writes into it": no call, by any way through the tools, has the panel
\* change something or the cache grow.
ReadOnlyChangesNothing ==
  [][read_only => sent' = sent /\ kept' = kept]_vars

\* The control tools: the panel is asked once at most, never with arguments
\* that were refused, and the model hears of success only when it took place.
ProxyIsHonest ==
  call.tool \in ControlTools /\ Answered =>
    /\ Cardinality(sent) <= 1
    /\ result.ok => \E s \in sent : s.taken
    /\ \A s \in sent : s.body.ok /\ s.tool = call.tool
    /\ call.tool = "capture_start" => \A s \in sent :
         LET flags == s.body.value.flags
         IN /\ ToSet(flags) = ToSet(call.flags) /\ IsInjective(flags)
            /\ ~({"--record", "--no-record"} \subseteq ToSet(flags))

\* live_stats: a rate is never negative and never of more datagrams than came
\* in between the two readings, though the viz was restarted in between.
RatesAreHonest ==
  call.tool = "live_stats" /\ Answered /\ result.ok =>
    \A k \in DOMAIN result.value.delta :
      /\ result.value.delta[k] >= 0
      /\ k = "datagrams" => result.value.delta[k] <= arrived - got.arrived

\* health, "Either server being down is reported, not an error": it has an
\* answer, and a viz that cannot hear is told from one that is not there.  Its
\* counters are told or the reason is, and a build without them is not blamed
\* for anything else.
HealthIsTold ==
  call.tool = "health" /\ Answered =>
    LET v == result.value
    IN /\ result.ok
       /\ v.error \in {<<>>, <<"unreachable">>, <<"unreadable">>}
       /\ v.error = <<>> /\ changes = 0 => viz_peer.up /\ v.ok = viz_peer.bound
       /\ v.error = <<>> => (v.stats # {}) = (v.stats_error = <<>>)
       /\ "no statistics" \in ToSet(v.stats_error) => ~viz_peer.built

\* logs_tail: lines from their beginning on, the last ones and no more than asked for; when
\* there is nothing to read, every place that was looked in is named.
LogsAreLines ==
  call.tool = "logs_tail" /\ Answered =>
    IF result.ok
    THEN LET lines == result.value.lines
         IN /\ Len(lines) <= TailLines(call.n)
            /\ result.value.source = "ring" =>
                 lines # <<>> /\ lines[Len(lines)] = ctl_peer.lines
            /\ result.value.source = "file" =>
                 /\ \A i \in 1 .. Len(lines) : lines[i].whole
                 /\ \A i \in 1 .. Len(lines) - 1 : lines[i + 1].line = lines[i].line + 1
                 /\ lines # <<>> => lines[Len(lines)].line = LineOf(log_len)
    ELSE result.why = <<"component">>
           \/ result.why = (IF call.component \in RingComponents THEN <<"ring", "file">>
                            ELSE <<"file">>)

\* sessions_list and trend: the newest, in order, and of what the recordings
\* hold, from the cache or not; only read-only is a report told as it was before
\* the run ended.  trend_read_only and compute agree when the cache can be
\* written.
SessionsAreCurrent ==
  /\ call.tool = "sessions_list" /\ Answered /\ result.ok =>
       LET v == result.value
       IN /\ v.total = Cardinality(Recordings)
          /\ \A r \in Recordings \ ToSet(v.sessions), s \in ToSet(v.sessions) :
               Started[s] > Started[r]
  /\ call.tool = "session_summary" /\ Answered /\ result.ok =>
       result.value = Fresh \/ (read_only /\ result.value = Unfinished)
  /\ call.tool = "trend" /\ Answered /\ result.ok =>
       LET rows == result.value
       IN /\ \A i \in 1 .. Len(rows) :
                rows[i].report = Fresh \/ (read_only /\ rows[i].report = Unfinished)
          /\ \A i \in 1 .. Len(rows) - 1 : Started[rows[i].index] < Started[rows[i + 1].index]
          /\ read_only /\ call.n = None =>
               {r \in Recordings : Loads[r]} = {rows[i].index : i \in 1 .. Len(rows)}

ToolsAnswerTruly ==
  /\ BodiesAreWhole /\ ProxyIsHonest /\ RatesAreHonest /\ HealthIsTold /\ LogsAreLines
  /\ SessionsAreCurrent
=============================================================================
