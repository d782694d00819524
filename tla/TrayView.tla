------------------------------ MODULE TrayView ------------------------------
(***************************************************************************)
(* What the window and the tray say (crates/ctl/src/gui/model.rs, painted  *)
(* by win.rs) of what the children print (stats.rs, LogSink in manager.rs).*)
(* Every surface is a function of the same snapshot: the icon, the         *)
(* tooltip, the text view, the popup menu.                                 *)
(*                                                                         *)
(* A text is a sequence of pieces, each a word or a number; the layout is  *)
(* left out, and with it what is cut at the end of a cell or a tooltip and *)
(* what no state changes: labels, kinds, summaries, the version.  A field  *)
(* that is absent or does not parse is None.  A program is its name in     *)
(* lower case and how it was spelled.                                      *)
(***************************************************************************)
EXTENDS Integers, SequencesExt

CONSTANTS Observability,   \* the cargo feature
          SlowRepaint,     \* SLOW_REPAINT_S
          IdleDegraded,    \* IDLE_DEGRADED_S
          MaxSeen,         \* MAX_SEEN
          Capacity,        \* LOG_CAPACITY
          HintLines        \* the last lines of an exit that are searched for its cause

None == -1

-----------------------------------------------------------------------------
(* What the agent prints.  A line is [is, fields, says]: a report, a change *)
(* of the foreground, text, a blank, or a note of the panel's own.          *)

Counters == <<"drops", "jsonl_dropped", "kafka_dropped", "udp_unreachable">>
Numbers == Range(Counters) \cup {"idle_for_s", "events_per_s", "poll_hz"}
NobodyIs == [lower |-> "-", as |-> "-"]
NoReport == [k \in Numbers \cup {"game", "session"} |-> IF k = "game" THEN NobodyIs ELSE None]

\* Every report replaces the one before it, with the fields it has.
ParseStats(line) == [k \in DOMAIN NoReport |-> IF k \in DOMAIN line.fields THEN line.fields[k] ELSE NoReport[k]]
IsReport(line) == line.is = "stats" /\ DOMAIN line.fields # {}
Names(line) == line.is \in {"stats", "foreground"} /\ "game" \in DOMAIN line.fields

\* "telemouse" stands for every name that begins so.
Pickable(exe) == exe.lower \notin {"", "-", "telemouse"}
Recent(seen) == SubSeq(seen, 1, IF Len(seen) < MaxSeen THEN Len(seen) ELSE MaxSeen)
\* Faulty variant: a program keeps the place it had.
NoteFirst(seen, exe) ==
    IF Pickable(exe) /\ (\A s \in Range(seen) : s.lower # exe.lower) THEN Recent(<<exe>> \o seen) ELSE seen
NoteSeen(seen, exe) ==
    IF Pickable(exe) THEN Recent(<<exe>> \o SelectSeq(seen, LAMBDA s : s.lower # exe.lower)) ELSE seen

NewSink == [ring |-> <<>>, seq |-> 0, stats |-> NoReport, seen |-> <<>>]
PushLine(ring, line) == IF Len(ring) = Capacity THEN Append(Tail(ring), line) ELSE Append(ring, line)
Push(sink, line) ==
    [ring |-> PushLine(sink.ring, line), seq |-> sink.seq + 1,
     stats |-> IF Observability /\ IsReport(line) THEN ParseStats(line) ELSE sink.stats,
     seen |-> IF Observability /\ Names(line) THEN NoteSeen(sink.seen, line.fields["game"]) ELSE sink.seen]
\* A start forgets the programs seen, not the last report.
Started(sink) == Push([sink EXCEPT !.seen = <<>>], [is |-> "note", fields |-> [x \in {} |-> 0], says |-> ""])

\* What the last lines say of an exit: the most specific first.
Causes == <<"invalid config", "unknown field", "port in use", "access denied">>
LastLines(ring) == SubSeq(ring, Max({1, Len(ring) - HintLines + 1}), Len(ring))
\* Faulty variant: whatever the ring still holds.
AnyLines(ring) == ring
ExitHint(ring) ==
    LET told == {i \in 1..Len(Causes) : \E l \in Range(LastLines(ring)) : l.says = Causes[i]}
    IN IF told = {} THEN "" ELSE Causes[Min(told)]
LastNonEmpty(ring) ==
    LET said == {i \in 1..Len(ring) : ring[i].is \notin {"blank", "note"}}
    IN IF said = {} THEN None ELSE Max(said)
ExitFailed(e) == e.code \notin {"none", "ok", "ctrl_break"}

-----------------------------------------------------------------------------
(* Texts.                                                                  *)

Word(w) == <<[word |-> w, number |-> None]>>
Number(n) == <<[word |-> "#", number |-> n]>>
When(holds, text) == IF holds THEN text ELSE <<>>
\* A text with its numbers taken out.
Worded(text) == [i \in 1..Len(text) |-> text[i].word]
Says(text, w) == w \in Range(Worded(text))

Component(s, id) == SelectSeq(s.components, LAMBDA c : c.id = id)
Running(s, id) == \E c \in Range(Component(s, id)) : c.running

Degraded(st) == (\E k \in Range(Counters) : st[k] > 0) \/ st.idle_for_s > IdleDegraded
DegradedReason(st) ==
    LET told == {i \in 1..Len(Counters) : st[Counters[i]] > 0}
    IN IF told # {} THEN Word(Counters[Min(told)])
       ELSE When(st.idle_for_s > IdleDegraded, Word("no events") \o Number(st.idle_for_s))
Summary(st) ==
    When(st.events_per_s # None, Number(st.events_per_s) \o Word("ev/s"))
    \o When(st.poll_hz # None, Number(st.poll_hz) \o Word("Hz"))
    \o When(st.game.lower \notin {"", "-"}, Word(st.game.as))
    \o When(st.idle_for_s # None, Word("idle") \o Number(st.idle_for_s)) \o DegradedReason(st)
TooltipNote(st) ==
    IF DegradedReason(st) # <<>> THEN DegradedReason(st)
    ELSE When(st.events_per_s # None, Number(st.events_per_s) \o Word("ev/s"))

IconState(s) ==
    IF ~Running(s, "capture") THEN "idle"
    ELSE IF Observability /\ Degraded(Component(s, "capture")[1].stats) THEN "degraded" ELSE "capture_running"

Uptime(now, since) == Number(IF now < since THEN 0 ELSE now - since)
ServiceStatus(cs, now) ==
    IF cs = <<>> THEN Word("?")
    ELSE IF cs[1].running THEN Word("running") \o When(cs[1].since # None, Uptime(now, cs[1].since))
    ELSE Word(IF cs[1].bin_found THEN "stopped" ELSE "not built")
SavingNote(cs) ==
    IF cs = <<>> \/ ~cs[1].running THEN <<>> ELSE Word(IF cs[1].saving THEN "saving" ELSE "not saving")
CaptureNote(cs) == When(Observability /\ cs # <<>> /\ cs[1].running, TooltipNote(cs[1].stats))
\* The most recent failure of what does not run.
FailureNote(s) ==
    LET bad == {i \in 1..Len(s.components) : ~s.components[i].running /\ ExitFailed(s.components[i].exit)}
        newest == {i \in bad : \A j \in bad : s.components[j].exit.at <= s.components[i].exit.at}
        c == s.components[Max(newest)]
    IN When(bad # {}, Word(c.id) \o Word(IF c.exit.hint = "" THEN "failed" ELSE c.exit.hint))
Tooltip(s) ==
    LET cap == Component(s, "capture")
    IN Word("capture:") \o ServiceStatus(cap, s.now) \o SavingNote(cap)
       \o Word("viz:") \o ServiceStatus(Component(s, "viz"), s.now)
       \o (IF CaptureNote(cap) # <<>> THEN CaptureNote(cap) ELSE FailureNote(s))

\* Whose log the window shows: 0 is nobody's.
FocusComponent(cs) ==
    LET ran(c) == IF c.since # None THEN c.since ELSE IF c.exit.code # "none" THEN c.exit.at ELSE None
        up == {i \in 1..Len(cs) : cs[i].running /\ cs[i].id \in {"capture", "viz"}}
        first == {i \in up : cs[i].id = "capture" \/ \A j \in up : cs[j].id # "capture"}
        past == {i \in 1..Len(cs) : ran(cs[i]) # None}
        last == {i \in past : \A j \in past : ran(cs[j]) <= ran(cs[i])}
    IN IF first # {} THEN Min(first) ELSE IF last # {} THEN Max(last) ELSE 0

\* Where the panel is, or a dash; logs may be off.
Header(p) ==
    Word("PANEL") \o Word(IF p.panel = "" THEN "-" ELSE p.panel)
    \o Word("CONFIG") \o Word(IF p.config = "" THEN "-" ELSE p.config)
    \o Word("LOGS") \o Word(IF p.logs = "" THEN "logging off" ELSE p.logs)
\* Why there is text where the page should be.
WebBanner(web, url) ==
    CASE web.is = "hosted" -> <<>>
      [] web.is = "loading" -> Word("Loading the panel")
      [] web.is = "fallback" ->
           Word(web.reason) \o Word(IF web.opened THEN "open in your browser" ELSE "open it") \o Word(url)
           \o When(web.reason # "--no-webview", Word("Install the WebView2 Runtime"))
Row(c, now) ==
    Word(c.id) \o Word(IF c.running THEN "running" ELSE IF c.bin_found THEN "stopped" ELSE "not built")
    \o (IF c.pid # None THEN Word("pid") \o Number(c.pid) ELSE Word("-"))
    \o (IF c.running /\ c.since # None THEN Word("up") \o Uptime(now, c.since) ELSE Word("-"))
    \o Word("last:") \o Word(c.exit.code)
ExitNotes(c) ==
    When(ExitFailed(c.exit), When(c.exit.hint # "", Word(c.id) \o Word(c.exit.hint))
                             \o When(c.exit.last # "", Word("last line:") \o Word(c.exit.last)))
CaptureLines(cs) ==
    When(Observability /\ cs # <<>> /\ cs[1].running,
         Summary(cs[1].stats) \o When(cs[1].recording # None, Word("recording") \o Number(cs[1].recording)))
SaveLine(s) ==
    LET cap == Component(s, "capture")
    IN (IF s.recording_enabled THEN Word("on") \o Word(s.recording_dir) ELSE Word("off"))
       \o When(cap # <<>> /\ cap[1].running,
               IF cap[1].saving THEN Word("capture is SAVING") \o Word(s.recording_dir)
               ELSE Word("capture is NOT saving"))
HotkeyLine(s) ==
    IF s.hotkey = "" THEN Word("none")
    ELSE Word(s.hotkey) \o (IF s.registered = "no" THEN Word("NOT REGISTERED")
                            ELSE Word("new session") \o Word(s.recording_dir))
ProcessRow(p) == Number(p.pid) \o Word(p.name) \o Number(p.cpu_pct) \o When(p.is_self, Word("(this panel)"))
Processes(s) ==
    IF s.processes = <<>> THEN Word("(none)")
    ELSE FlattenSeq([i \in 1..Len(s.processes) |-> ProcessRow(s.processes[i])])
LogLines(c) == Word(c.id) \o Number(Len(c.log)) \o FlattenSeq([i \in 1..Len(c.log) |-> Word(c.log[i])])
RenderText(s) ==
    LET focus == FocusComponent(s.components)
    IN Header(s.places) \o Word("refreshed") \o Number(s.now)
       \o FlattenSeq([i \in 1..Len(s.components) |-> Row(s.components[i], s.now)])
       \o FlattenSeq([i \in 1..Len(s.components) |-> ExitNotes(s.components[i])])
       \o Word("SAVE DATA") \o SaveLine(s) \o Word("CAPTURE") \o CaptureLines(Component(s, "capture"))
       \o Word("HOTKEY") \o HotkeyLine(s) \o Word("RELATED PROCESSES") \o Processes(s) \o Word("LOG")
       \o (IF focus = 0 THEN Word("nothing has run yet") ELSE LogLines(s.components[focus]))
WindowText(s, web) == WebBanner(web, s.places.panel) \o RenderText(s)

-----------------------------------------------------------------------------
(* The popup menu, and what its items ask for.                             *)

Item(id, enabled) == <<[id |-> id, enabled |-> enabled, accelerator |-> FALSE, label |-> ""]>>
Labelled(it, label) == <<[it[1] EXCEPT !.label = label]>>
\* The chord stands at the item it is equivalent to, while it works.
WithChord(s, it) == <<[it[1] EXCEPT !.accelerator = s.hotkey # "" /\ s.registered # "no"]>>
CaptureItems(s) ==
    LET found == \E c \in Range(Component(s, "capture")) : c.bin_found
    IN IF Running(s, "capture")
       THEN Labelled(Item("stop_capture", TRUE), IF Component(s, "capture")[1].saving THEN "saving data" ELSE "not saving")
            \o WithChord(s, Item("new_session", TRUE))
       ELSE WithChord(s, Item("start_capture", found)) \o Item("start_capture_nosave", found)
ServiceItems(s) ==
    IF Running(s, "viz") THEN Item("stop_viz", TRUE)
    ELSE Item("start_viz", \E c \in Range(Component(s, "viz")) : c.bin_found)
Menu(s, visible) ==
    Labelled(Item("toggle_window", TRUE), IF visible THEN "hide" ELSE "show")
    \o CaptureItems(s) \o ServiceItems(s) \o Item("open_panel", TRUE)
    \o Item("open_logs", s.places.logs # "") \o Item("open_recordings", s.recording_dir # "")
    \o Item("edit_config", s.places.config # "") \o Item("open_docs", s.places.docs # "") \o Item("exit", TRUE)
Targets(s) ==
    [open_panel |-> s.places.panel, open_logs |-> s.places.logs, open_recordings |-> s.recording_dir,
     edit_config |-> s.places.config, open_docs |-> s.places.docs]
MenuTarget(s, id) == IF id \in DOMAIN Targets(s) THEN Targets(s)[id] ELSE ""
Asks(does, of, save) == [does |-> does, of |-> of, save |-> save]
Command(id) ==
    CASE id = "start_capture" -> Asks("start", "capture", "on")
      [] id = "start_capture_nosave" -> Asks("start", "capture", "off")
      [] id = "new_session" -> Asks("restart", "capture", "on")
      [] id = "stop_capture" -> Asks("stop", "capture", "none")
      [] id = "start_viz" -> Asks("start", "viz", "none")
      [] id = "stop_viz" -> Asks("stop", "viz", "none")
      [] id \in {"toggle_window", "exit"} -> Asks(id, "panel", "none")
      [] OTHER -> Asks("open", id, "none")
\* hotkey_pressed: what the balloon says, from the snapshot before the restart.
Balloon(s) == Word(IF Running(s, "capture") THEN "Capture restarted" ELSE "Capture started") \o Word(s.recording_dir)

-----------------------------------------------------------------------------
(* Painting.                                                               *)

Painted(text, at) == [text |-> text, at |-> at]
\* Faulty variant: text whose words moved waits as long as its numbers.
WorthInTime(shown, next, now) == shown.text # next /\ now - shown.at >= SlowRepaint
WorthPainting(shown, next, now) ==
    /\ shown.text # next
    /\ Worded(shown.text) # Worded(next) \/ now - shown.at >= SlowRepaint
\* The tooltip is that of the snapshot the window starts with, long ago.
NewWindow(s) == [text |-> Painted(<<>>, 0), tip |-> Painted(Tooltip(s), 0), icon |-> "idle"]
Refresh(w, s, web, visible, exiting) ==
    LET text == WindowText(s, web)
        tip == IF exiting THEN Word("stopping") ELSE Tooltip(s)
        changed == IconState(s) # w.icon
    IN [text |-> IF visible /\ web.is # "hosted" /\ WorthPainting(w.text, text, s.now)
                 THEN Painted(text, s.now) ELSE w.text,
        tip |-> IF changed \/ WorthPainting(w.tip, tip, s.now) THEN Painted(tip, s.now) ELSE w.tip,
        icon |-> IconState(s)]

-----------------------------------------------------------------------------
(* Properties.                                                             *)

Reasons == Range(Counters) \cup {"no events"}
TellsReason(text) == \E r \in Reasons : Says(text, r)

\* Icon, tooltip, text and menu tell of one state: an amber icon gives its
\* reason in both texts, and what the tooltip says of saving is what the text
\* says and what stopping would end.
SurfacesAgree(s, web) ==
    LET text == WindowText(s, web)
        saves == Says(Tooltip(s), "saving")
    IN /\ IconState(s) = "degraded" <=> TellsReason(Tooltip(s))
       /\ IconState(s) = "degraded" <=> TellsReason(text)
       /\ saves = Says(text, "capture is SAVING")
       /\ saves <=> \E i \in Range(Menu(s, TRUE)) : i.id = "stop_capture" /\ i.label = "saving data"
       /\ IconState(s) = "idle" => ~Says(text, "capture is NOT saving") /\ ~saves

\* A failure of what does not run is told with its cause below the table, and
\* in the tooltip, the newest first, where the agent's own numbers leave room.
FailuresAreTold(s, web) ==
    \A i \in 1..Len(s.components) :
      LET c == s.components[i]
      IN ExitFailed(c.exit) /\ c.exit.hint # "" =>
           /\ Says(WindowText(s, web), c.exit.hint)
           /\ c.running
              \/ Says(Tooltip(s), c.exit.hint)
              \/ CaptureNote(Component(s, "capture")) # <<>>
              \/ \E d \in Range(s.components) : d # c /\ ~d.running /\ ExitFailed(d.exit) /\ d.exit.at >= c.exit.at

\* An enabled item asks for something the snapshot's state allows, a service
\* has one of start and stop, and the chord stands at an item that ends in a
\* running, saving agent.
Allowed(s, a) ==
    CASE a.does = "start" -> \E c \in Range(Component(s, a.of)) : ~c.running /\ c.bin_found
      [] a.does \in {"stop", "restart"} -> Running(s, a.of)
      [] a.does \in {"toggle_window", "exit"} -> TRUE
      [] OTHER -> (a.of \in DOMAIN Targets(s) \ {"open_panel"} => MenuTarget(s, a.of) # "")
MenuIsRight(s) ==
    LET items == Range(Menu(s, TRUE))
        asks(of) == {Command(i.id).does : i \in {j \in items : Command(j.id).of = of}} \ {"restart"}
        marked == {i \in items : i.accelerator}
    IN /\ \A i \in items : i.enabled => Allowed(s, Command(i.id))
       /\ \A of \in {"capture", "viz"} : asks(of) \in {{"start"}, {"stop"}}
       /\ (marked # {}) = (HotkeyLine(s) = Word(s.hotkey) \o Word("new session") \o Word(s.recording_dir))
       /\ \A i \in marked : Command(i.id).of = "capture" /\ Command(i.id).save = "on"

\* The log shown is that of a service that runs, if one does.
FocusIsRight(s) ==
    LET f == FocusComponent(s.components)
    IN /\ Running(s, "capture") \/ Running(s, "viz") => f # 0 /\ s.components[f].running
       /\ f = 0 => \A c \in Range(s.components) : c.exit.code = "none"

\* However snapshots follow each other, what is painted has the words of the
\* last one, and its numbers are not older than SlowRepaint.
RECURSIVE PaintAll(_, _, _)
PaintAll(w, snaps, web) ==
    IF snaps = <<>> THEN w ELSE PaintAll(Refresh(w, Head(snaps), web, TRUE, FALSE), Tail(snaps), web)
Current(shown, text, now) ==
    Worded(shown.text) = Worded(text) /\ (shown.text # text => now - shown.at < SlowRepaint)
PaintIsCurrent(snaps, web) ==
    LET w == PaintAll(NewWindow(Head(snaps)), snaps, web)
        s == snaps[Len(snaps)]
    IN /\ Current(w.tip, Tooltip(s), s.now) /\ w.icon = IconState(s)
       /\ web.is # "hosted" => Current(w.text, WindowText(s, web), s.now)

\* After any lines of a run the numbers shown are those of its last report,
\* without a field that report did not have, and the programs offered are the
\* last ones seen in this run, each once.
RECURSIVE PushAll(_, _)
PushAll(sink, lines) == IF lines = <<>> THEN sink ELSE PushAll(Push(sink, Head(lines)), Tail(lines))
LinesAreRead(before, lines) ==
    LET sink == PushAll(Started(PushAll(NewSink, before)), lines)
        reports == {i \in 1..Len(lines) : IsReport(lines[i])}
        last(name) == Max({i \in 1..Len(lines) : Names(lines[i]) /\ lines[i].fields["game"].lower = name} \cup {0})
        seen == {l.fields["game"].lower : l \in {k \in Range(lines) : Names(k) /\ Pickable(k.fields["game"])}}
    IN Observability =>
       /\ reports # {} => sink.stats = ParseStats(lines[Max(reports)])
       /\ {e.lower : e \in Range(sink.seen)} \subseteq seen
       /\ Len(sink.seen) = Min({Cardinality(seen), MaxSeen})
       /\ \A i, j \in 1..Len(sink.seen) : i < j => last(sink.seen[i].lower) > last(sink.seen[j].lower)
       /\ \A n \in seen : (\A e \in Range(sink.seen) : e.lower # n) => \A e \in Range(sink.seen) : last(e.lower) > last(n)

\* Violated, see the README: "empty ... before the agent has printed its first
\* report".  A start keeps the last run's report.
NoteIsThisRuns(before) == TooltipNote(Started(PushAll(NewSink, before)).stats) = <<>>

\* The cause told of an exit stands in its last lines, and one that stands
\* there is told.
HintIsFound(lines) ==
    LET ring == PushAll(NewSink, lines).ring
        told(l) == l.says = ExitHint(ring)
        last == {lines[i] : i \in {j \in 1..Len(lines) : j > Len(lines) - HintLines}}
    IN /\ ExitHint(ring) # "" <=> \E l \in last : l.says \in Range(Causes)
       /\ ExitHint(ring) # "" => \E l \in last : told(l)
       /\ LastNonEmpty(ring) # None => \A i \in 1..Len(ring) : i > LastNonEmpty(ring) => ring[i].is \in {"blank", "note"}
=============================================================================
