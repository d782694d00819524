------------------------------ MODULE MCReaders ------------------------------
(***************************************************************************)
(* What is read back and shown.  A behaviour is either of one `machine`    *)
(* (the index of the recordings, the viz's lists and recordings, the       *)
(* replay engine, the settings editor, its form, the panel's page or its   *)
(* list of processes), or of none and then `subject` is an input to one of *)
(* the pure parts: a recording to load, a settings patch, a run's flags, a *)
(* motion to measure, a snapshot to show.                                  *)
(***************************************************************************)
EXTENDS Integers, Sequences, FiniteSets

VARIABLES machine, subject,
    \* IndexCache
    disk, cache, listing, writes,
    \* ReplayEngine
    mode, script, next, ev, metas, metaBase, cursor, markers, markerCursor,
    tStart, tEnd, haveTimeline, playT, clockStarted, loading, st, deskTrail, ptrTrail,
    checkpoints, cpBuilt, cpNextT, dropped, skipped, origin, jumps, disturbed,
    \* SettingsEditor
    edit_file, page, lock, live, reader, now, edit_edits, saves, raced,
    touched, crowded,
    \* SettingsForm
    form_file, view, cfgMtime, loads, form, dirty, save, form_edits, inputs,
    edited, moved,
    \* PanelPage
    panel, state, log, pollRun, pollAgain, timer, awake, act, clicks, fails,
    mixed,
    \* ProcessTable
    table, born, procs_now, procs_faults, known, last, scan, procs_shown,
    clearing, kill, kills, announced, killed,
    \* VizServer
    part, server_now, server_disk, gone, server_cache, ask, asks,
    server_shown, body, bridge, starts, overlapped, seen, told, quiet

idxVars == <<disk, cache, listing, writes>>
engVars == <<mode, script, next, ev, metas, metaBase, cursor, markers,
             markerCursor, tStart, tEnd, haveTimeline, playT, clockStarted,
             loading, st, deskTrail, ptrTrail, checkpoints, cpBuilt, cpNextT, dropped,
             skipped, origin, jumps, disturbed>>
editVars == <<edit_file, page, lock, live, reader, now, edit_edits, saves,
              raced, touched, crowded>>
formVars == <<form_file, view, cfgMtime, loads, form, dirty, save,
              form_edits, inputs, edited, moved>>
pageVars == <<panel, state, log, pollRun, pollAgain, timer, awake, act,
              clicks, fails, mixed>>
procsVars == <<table, born, procs_now, procs_faults, known, last, scan,
               procs_shown, clearing, kill, kills, announced, killed>>
serverVars == <<part, server_now, server_disk, gone, server_cache, ask, asks,
                server_shown, body, bridge, starts, overlapped, seen, told,
                quiet>>

-----------------------------------------------------------------------------
(* Inputs.                                                                 *)

MCPrm == [min_reversal |-> 1, hold |-> 2, flick_speed |-> 50, click_window |-> 8, pre_lo |-> 6,
          pre_hi |-> 2, double_click_max |-> 4, min_segment |-> 1, lift_drift_min |-> 1,
          lift_drift_max_speed |-> 60, lift_drift_min_counts |-> 1, lift_max_gap |-> 2,
          lift_return_min_speed |-> 30, per_sec |-> 2, per_min |-> 3]

Load == INSTANCE RecordingLoad
Patch == INSTANCE SettingsPatch
Run == INSTANCE RunRequest
Grid == INSTANCE MotionGrid WITH Dt <- 2, Half <- 1, Baseline <- 4, Still <- 15, Cap <- 6, SpanCap <- 8
Motion == INSTANCE MotionMetrics WITH
            Dt <- 2, Half <- 1, Baseline <- 4, Still <- 15, Cap <- 15, SpanCap <- 15, Prm <- MCPrm

Line(tag, is, bytes) ==
    [tag |-> tag, is |-> is, bytes |-> bytes, events |-> <<>>, drops |-> 0,
     game |-> <<>>, mark |-> 0, error |-> "none", seq_no |-> 0, locked |-> TRUE, device |-> 0]
Game(n) == <<[lower |-> n, upper |-> FALSE]>>
Lines == {Line("blank", "nothing", 1), Line("session", "nothing", 2), Line("binary", "nothing", 1),
          [Line("batch", "batch", 2) EXCEPT !.events = <<1>>, !.drops = 1, !.game = Game(2)],
          [Line("none", "batch", 3) EXCEPT !.events = <<2, 3>>, !.game = Game(1)],
          [Line("batch", "batch", 1) EXCEPT !.game = Game(1)],
          [Line("marker", "marker", 1) EXCEPT !.mark = 7],
          [Line("batch", "nothing", 2) EXCEPT !.error = "e1"],
          [Line("none", "nothing", 1) EXCEPT !.error = "e2"]}
Recordings ==
    [of : {"recording"}, workers : 1..3,
     file : {[header |-> [lines |-> h, bytes |-> 2 * h], lines |-> s] :
               h \in 1..2, s \in UNION {[1..n -> Lines] : n \in 0..3}}]

\* Batches as an agent sends them, of three kinds, and series of stamps.
SentBatch(n, kind) ==
    [Line("batch", "batch", 2) EXCEPT
       !.events = IF kind = "plain" THEN <<20 * n, 20 * n + 15>> ELSE <<20 * n>>,
       !.seq_no = n, !.drops = IF kind = "dropped" THEN 2 ELSE 0,
       !.game = IF kind = "desktop" THEN <<>> ELSE Game(1),
       !.locked = kind # "desktop", !.device = IF kind = "desktop" THEN 1 ELSE 0]
Torn == [Line("batch", "nothing", 1) EXCEPT !.error = "e1"]
SentRuns == {[n \in 1..4 |-> SentBatch(n, k[n])] : k \in [1..4 -> {"plain", "dropped", "desktop"}]}
Judged == [of : {"judged"}, sent : SentRuns, kept : SUBSET (1..4), torn : {<<>>, <<Torn>>}]
Stamps(ds) == LET at[n \in 1..(Len(ds) + 1)] == IF n = 1 THEN 5 ELSE at[n - 1] + ds[n - 1] IN at
Series == [of : {"series"}, ds : UNION {[1..n -> {-2, 0, 1, 20, 21, 24, 33}] : n \in 0..4}]

NoKeys == [x \in {} |-> 0]
Written(v) == [v |-> v, spelled |-> "file"]
Txt(t, chord, padded) == [text |-> t, chord |-> chord, padded |-> padded]
Nm(base, exe, upper) == [base |-> base, exe |-> exe, upper |-> upper]
Doc(keys, games, blocked) == [is |-> "toml", keys |-> keys, games |-> games, blocked |-> blocked]
Gm(s, y, p) == [sens |-> Written(s), yaw |-> Written(y), pitch |-> Written(p)]
ExeG == Nm("g", TRUE, FALSE)
BareG == Nm("g", FALSE, FALSE)
BareH == Nm("h", FALSE, FALSE)
Docs ==
    {Patch!Broken, Doc(NoKeys, NoKeys, {}),
     Doc([mouse_cpi |-> Written(8000), marker_hotkey |-> Written(Txt("f10", <<"f10">>, FALSE)),
          record |-> Written(FALSE)], [x \in {ExeG} |-> Gm(1, 2, 3)], {}),
     Doc([mouse_cpi |-> Written(8000)], [x \in {BareG} |-> Gm(1, 2, 3)], {}),
     Doc([scale |-> Written(10)], [x \in {ExeG} |-> Patch!NotATable], {}),
     Doc([dir |-> Written(Txt("r", <<>>, FALSE))], NoKeys, {"viz.obs"}),
     Doc([hotkey |-> Written(Txt("a", <<"ctrl", "f9">>, FALSE))],
         [x \in {ExeG, Nm("h", TRUE, FALSE)} |-> Gm(1, 2, 2)], {"games"})}
Vals ==
    [mouse_cpi |-> {8000, 0, -9999}, record |-> BOOLEAN, scale |-> {10, 41, -9999},
     layout |-> {"aim"}, background |-> {Txt("hex", <<>>, TRUE)},
     dir |-> {Txt("", <<>>, TRUE), Txt("r", <<>>, TRUE)},
     hotkey |-> {Txt("k", <<"enter">>, FALSE), Txt("k2", <<"ctrl", "enter">>, FALSE)},
     marker_hotkey |-> {Txt("f10", <<"f10">>, TRUE), Txt("lines", <<"x">>, FALSE),
                        Txt("k", <<"control", "return">>, FALSE)}]
Single == UNION {{[f \in {g} |-> v] : v \in Vals[g]} : g \in DOMAIN Vals}
Double == UNION {{[f \in {g, h} |-> IF f = g THEN v ELSE w] : v \in Vals[g], w \in Vals[h]} :
                   g \in {"mouse_cpi", "marker_hotkey", "dir"}, h \in {"hotkey", "record", "scale", "layout"}}
Change(s, y, p) == <<[sens |-> s, yaw |-> y, pitch |-> p]>>
Changes == {<<>>, Change(<<1>>, <<>>, <<>>), Change(<<2>>, <<5>>, <<>>),
            Change(<<>>, <<-9999>>, <<>>), Change(<<>>, <<>>, <<3>>)}
Named(n, c) == [name |-> n, change |-> c]
OneGame == {<<Named(n, c)>> : n \in {ExeG, BareG, BareH, Nm("g", FALSE, TRUE), Nm("path", TRUE, FALSE)},
                              c \in Changes}
TwoGames == {<<Named(ExeG, c), Named(n, d)>> : n \in {BareG, BareH}, c \in {Change(<<1>>, <<>>, <<>>), <<>>}, d \in Changes}
Patches ==
    [of : {"patch"}, doc : Docs,
     patch : [set : {NoKeys} \cup Double, games : {<<>>}]
             \cup [set : {NoKeys} \cup Single, games : {<<>>} \cup OneGame]
             \cup [set : {NoKeys}, games : TwoGames]]

Flags == {"--print", "--no-record", "--record", "--no-udp", "--json", "--bogus", "--timing"}
Runs ==
    [of : {"run"},
     req : [flags : UNION {[1..n -> Flags] : n \in 0..2}, session : {"none", "a", "b"},
            save : {"none", "on", "off"}],
     cfg : [udp : BOOLEAN, jsonl : BOOLEAN, kafka : {TRUE}],
     can : {{"udp", "jsonl"}, {"udp"}}]

Moved(us, d, down) == [us |-> us, d |-> d, down |-> down]
GridEvents == [us : {0, 4, 5, 13}, d : {-2, 1}, down : {1}]
Locks == {<<>>} \cup {<<[count |-> 1, locked |-> l], [count |-> 2, locked |-> ~l]>> : l \in BOOLEAN}
Motions ==
    [of : {"grid"}, events : UNION {[1..k -> GridEvents] : k \in 0..2}, batches : {<<>>}]
    \cup [of : {"grid"}, events : {<<Moved(0, 1, 0), b, Moved(15, -1, 1)>> : b \in GridEvents},
          batches : Locks]

Pressed(us, d, b) == [us |-> us, d |-> d, down |-> b \div 2, up |-> b % 2]
PressedEvents == {Pressed(us, d, b) : us \in {4, 9, 12, 20}, d \in {-3, 0, 2}, b \in {1, 2}}
Marked(us, label) == [us |-> us, label |-> label]
Marks == {<<>>, <<Marked(-1, "a"), Marked(5, "b"), Marked(5, "c")>>, <<Marked(12, "a"), Marked(99, "b")>>}
Long == {<<Pressed(0, 1, 2), Pressed(8, -2, 2), Pressed(18, 3, 1), Pressed(26, -3, 2)>>,
         <<Pressed(0, 0, 0), Pressed(4, 3, 2), Pressed(12, -3, 1), Pressed(20, 3, 2), Pressed(40, 3, 1)>>}
Sessions ==
    [of : {"session"}, marks : {<<>>},
     events : {<<a, b>> : a \in {Pressed(0, 1, 2), Pressed(0, 3, 3)}, b \in PressedEvents}]
    \cup [of : {"session"}, marks : Marks, events : {<<>>} \cup Long]
\* What the analysis of a session computes once and hands on.
Measured(s) ==
    LET g == Motion!Prepare(s.events)
        ivs == Motion!Intervals(g, s.marks)
        fs == Motion!Flicks(g, s.events)
    IN [events |-> s.events, grid |-> g, ivs |-> ivs, flicks |-> fs,
        rows |-> Motion!Seconds(g, s.events, fs, ivs)]

View == INSTANCE TrayView WITH
          Observability <- TRUE, SlowRepaint <- 5, IdleDegraded <- 60, MaxSeen <- 2,
          Capacity <- 3, HintLines <- 2
Prog(n) == [lower |-> n, as |-> n]
Report(f) == [k \in DOMAIN View!NoReport |-> IF k \in DOMAIN f THEN f[k] ELSE View!NoReport[k]]
Reports == {View!NoReport, Report([events_per_s |-> 5, drops |-> 0, game |-> Prog("g")]),
            Report([jsonl_dropped |-> 2, udp_unreachable |-> 1]), Report([idle_for_s |-> 61, poll_hz |-> 3])}
NoExit == [code |-> "none", at |-> 0, hint |-> "", last |-> ""]
Failed(at, hint) == [code |-> "failed", at |-> at, hint |-> hint, last |-> "l"]
Asleep(id, built, exit, rep) ==
    [id |-> id, running |-> FALSE, saving |-> FALSE, bin_found |-> built, since |-> -1, exit |-> exit,
     stats |-> rep, recording |-> -1, pid |-> -1, log |-> IF exit = NoExit THEN <<>> ELSE <<"b">>]
Awake(id, keeps, exit, rep) ==
    [id |-> id, running |-> TRUE, saving |-> keeps, bin_found |-> TRUE, since |-> 90, exit |-> exit,
     stats |-> rep, recording |-> IF keeps /\ rep # View!NoReport THEN 4 ELSE -1, pid |-> 7, log |-> <<"a">>]
Agents == {Asleep("capture", b, e, rep) : b \in BOOLEAN, rep \in {View!NoReport, Report([drops |-> 1])},
             e \in {NoExit, Failed(80, "unknown field"), [NoExit EXCEPT !.code = "ctrl_break", !.at = 85]}}
          \cup {Awake("capture", s, e, rep) : s \in BOOLEAN, e \in {NoExit, Failed(80, "")}, rep \in Reports}
Servers == {Asleep("viz", b, e, View!NoReport) : b \in BOOLEAN, e \in {NoExit, Failed(80, "port in use"), Failed(82, "port in use")}}
           \cup {Awake("viz", FALSE, NoExit, View!NoReport)}
Tasks == {Asleep("analyze", TRUE, e, View!NoReport) : e \in {NoExit, Failed(81, "access denied")}}
Places(l) == [panel |-> "p", config |-> "c", logs |-> l, docs |-> "d"]
Shot(s, cs, key, logs) ==
    [now |-> s, components |-> cs, recording_enabled |-> TRUE, recording_dir |-> "r",
     hotkey |-> key[1], registered |-> key[2], places |-> Places(logs),
     processes |-> <<[pid |-> 9, name |-> "ctl", cpu_pct |-> s % 3, is_self |-> TRUE]>>]
\* What the channel holds before the first snapshot.
EmptySnap == [Shot(0, <<>>, <<"", "unknown">>, "") EXCEPT
                !.recording_dir = "", !.processes = <<>>, !.places = [panel |-> "", config |-> "", logs |-> "", docs |-> ""]]
Desks ==
    [of : {"desk"}, web : {[is |-> "loading"], [is |-> "fallback", reason |-> "--no-webview", opened |-> TRUE]},
     snap : {EmptySnap} \cup {Shot(100, <<c, v, t>>, k, l) : c \in Agents, v \in Servers, t \in Tasks, l \in {"", "l"},
                              k \in {<<"", "unknown">>, <<"k", "unknown">>, <<"k", "yes">>, <<"k", "no">>}}]
Seconds(nows) ==
    {Shot(n, <<c>>, <<"k", "yes">>, "l") : n \in nows,
       c \in {Awake("capture", TRUE, NoExit, rep) : rep \in Reports} \cup {Asleep("capture", TRUE, NoExit, View!NoReport)}}
Paints == [of : {"paint"}, snaps : {<<a, b, c>> : a \in Seconds({100}), b \in Seconds({99, 101, 104}), c \in Seconds({99, 105, 109})}]
Printed(is, f, says) == [is |-> is, fields |-> f, says |-> says]
PrintedLines ==
    {Printed("foreground", [game |-> Prog(n)], "") : n \in {"a", "b", "c", "telemouse"}}
    \cup {Printed("stats", [drops |-> 1], ""), Printed("stats", [events_per_s |-> 3, game |-> Prog("a")], ""),
          Printed("stats", NoKeys, ""), Printed("text", NoKeys, "unknown field"), Printed("blank", NoKeys, "")}
Outputs ==
    [of : {"output"}, before : {<<>>, <<Printed("foreground", [game |-> Prog("b")], "")>>},
     lines : UNION {[1..n -> PrintedLines] : n \in 0..3}]

Subjects == Judged \cup Series \cup Desks \cup Paints \cup Outputs \cup Recordings \cup Patches \cup Runs \cup Motions \cup Sessions

-----------------------------------------------------------------------------
(* The machines.                                                           *)

Ev(t, d, b) == [t |-> t, d |-> d, b |-> b]
Batch(sens, events) == [sens |-> sens, events |-> events]
Mark(t) == [mark |-> t]
MCScripts ==
    {<<Batch(1, <<Ev(0, 1, {}), Ev(1, 1, {"down"})>>), Mark(2), Mark(3), Batch(2, <<Ev(2, 1, {"up"}), Ev(3, -1, {})>>),
       Batch(1, <<>>), Batch(1, <<Ev(6, 0, {"down", "up"}), Ev(6, -1, {})>>), Batch(2, <<Ev(8, 1, {"down"})>>)>>,
     <<Batch(2, <<Ev(1, 1, {})>>), Batch(1, <<Ev(2, -1, {"down"}), Ev(2, 1, {})>>), Mark(4),
       Batch(1, <<Ev(4, 1, {}), Ev(5, 1, {"up"}), Ev(5, 1, {})>>)>>}

Key(k, v) == [x \in {k} |-> Written(v)]
MCPatches == {[set |-> [record |-> FALSE], games |-> <<>>],
              [set |-> [dir |-> Txt("d2", <<>>, FALSE)], games |-> <<>>]}
MCTexts == {Patch!Broken, Doc(Key("dir", Txt("d3", <<>>, FALSE)), NoKeys, {})}
MCSample == Doc(Key("record", TRUE), NoKeys, {})

Idx == INSTANCE IndexCache WITH
          Names <- {1, 2}, Listings <- {1}, MaxBlocks <- 2, MaxWrites <- 3

Eng == INSTANCE ReplayEngine WITH
          Scripts <- MCScripts, Decay <- 2, CheckpointGap <- 2,
          LiveEvents <- 2, TrimTrigger <- 3, HardCap <- 4, Budget <- 2,
          TrailCap <- 2, MarkersKept <- 0, Buffers <- {1}, Steps <- {0, 1, 2}, MaxJumps <- 2, Snap <- 2,
          PitchLimit <- 2

Edit == INSTANCE SettingsEditor WITH
          Pages <- {"a", "b"}, Patches <- MCPatches, Texts <- MCTexts,
          Sample <- MCSample, MaxSeconds <- 2, MaxEdits <- 1, MaxSaves <- 2,
          file <- edit_file, edits <- edit_edits

Form == INSTANCE SettingsForm WITH
          Fields <- {"cpi", "dir"}, Values <- {0, 1}, MaxEdits <- 2,
          MaxInputs <- 3, MaxLoads <- 1, file <- form_file,
          edits <- form_edits

Page == INSTANCE PanelPage WITH
          LogCapacity <- 3, LogLines <- 2, MaxLines <- 4, MaxClicks <- 2,
          MaxFails <- 1, MaxRestarts <- 1

Procs == INSTANCE ProcessTable WITH
          Pids <- {1}, Self <- 9, Every <- 2, Ttl <- [page |-> 1],
          MaxProcs <- 2, MaxTicks <- 1, MaxKills <- 1, MaxFaults <- 1,
          now <- procs_now, faults <- procs_faults, shown <- procs_shown

Server == INSTANCE VizServer WITH
          Names <- {1}, Pages <- {"p", "q"},
          Lines <- [session |-> 1, batch |-> 4, marker |-> 1], Probe <- 4,
          Chunk <- 3, Ttl <- 2, Peers <- {1, 2}, Local <- {1},
          WarnEvery <- 2, MaxPeers <- 2, MaxTicks <- 2, MaxScan <- 1, MaxLines <- 2,
          MaxAsks <- 3, MaxStarts <- 3, now <- server_now,
          disk <- server_disk, cache <- server_cache, shown <- server_shown

Machines == {"idx", "eng", "edit", "form", "page", "procs", "server"}
Nothing == [of |-> "nothing"]

\* A machine that does not run has one initial state.
MCInit ==
    /\ machine \in Machines \cup {"none"}
    /\ subject = Nothing
    /\ Idx!Init /\ Eng!Init /\ Edit!Init /\ Form!Init /\ Page!Init /\ Procs!Init /\ Server!Init
    /\ machine # "idx" => cache = Idx!Absent
    /\ machine # "eng" => mode = "live" /\ script = CHOOSE s \in MCScripts : TRUE
    /\ machine # "server" => part = "gates"
    /\ machine # "edit" => edit_file = <<>>
    /\ machine # "form" => form_file.settings = [f \in {"cpi", "dir"} |-> 0]

IdxSteps ==
    machine = "idx" /\ Idx!Next
    /\ UNCHANGED <<engVars, editVars, formVars, pageVars, procsVars, serverVars>>
EngSteps ==
    machine = "eng" /\ Eng!Next
    /\ UNCHANGED <<idxVars, editVars, formVars, pageVars, procsVars, serverVars>>
EditSteps ==
    machine = "edit" /\ Edit!Next
    /\ UNCHANGED <<idxVars, engVars, formVars, pageVars, procsVars, serverVars>>
FormSteps ==
    machine = "form" /\ Form!Next
    /\ UNCHANGED <<idxVars, engVars, editVars, pageVars, procsVars, serverVars>>
PageSteps ==
    machine = "page" /\ Page!Next
    /\ UNCHANGED <<idxVars, engVars, editVars, formVars, procsVars, serverVars>>
ProcsSteps ==
    machine = "procs" /\ Procs!Next
    /\ UNCHANGED <<idxVars, engVars, editVars, formVars, pageVars, serverVars>>
ServerSteps ==
    machine = "server" /\ Server!Next
    /\ UNCHANGED <<idxVars, engVars, editVars, formVars, pageVars, procsVars>>

\* One of the inputs.
Choose ==
    /\ machine = "none" /\ subject = Nothing /\ subject' \in Subjects
    /\ UNCHANGED <<machine, idxVars, engVars, editVars, formVars, pageVars, procsVars, serverVars>>

MachineSteps ==
    /\ IdxSteps \/ EngSteps \/ EditSteps \/ FormSteps \/ PageSteps \/ ProcsSteps
       \/ ServerSteps
    /\ UNCHANGED <<machine, subject>>

MCNext == Choose \/ MachineSteps

mcVars == <<machine, subject, idxVars, engVars, editVars, formVars, pageVars, procsVars,
            serverVars>>
MCSpec == MCInit /\ [][MCNext]_mcVars

-----------------------------------------------------------------------------
\* However a recording is torn, blank or foreign in places, both loaders and
\* the listing read the same of it, and say what they left out; and its report
\* tells what of the run is not in it, as of today's sidecar.  The cached index
\* and the viz list the same, and the viz sends and refuses what it says it does.
Misread ==
    {r \in Recordings :
       ~ /\ Load!LoadersAgree(r.file, r.workers)
         /\ Load!LoadSequential(r.file).ok => Load!DamageIsTold(r.file)
         /\ Load!ListingAgrees(r.file)}
Misjudged ==
    {j \in Judged : ~ /\ Load!LossIsTold(j.sent, j.kept, j.torn, {1})
                      /\ Load!RefreshIsFresh(j.sent, j.kept, j.torn, {1})}
    \cup {d \in Series : ~Load!IntervalsAdd(Stamps(d.ds))}
ListsAreSound ==
    /\ machine = "idx" => Idx!IndexIsSound
    /\ machine = "server" => Server!ServerIsSound
RecordingsAreReadWhole ==
    []ListsAreSound /\ [][subject' \notin Misread \cup Misjudged]_mcVars

\* A settings patch changes what it names and nothing else, and says what takes
\* effect when; panel and agent agree on the run the settings and flags make.
Mispatched ==
    {p \in Patches : ~(Patch!PatchIsExact(p.doc, p.patch) /\ Patch!EffectsAreTold(p.doc, p.patch))}
Misrun ==
    {r \in Runs : ~ /\ Run!PanelAndAgentAgree(r.req, r.cfg, r.can, {"a"})
                   /\ Run!SidecarIsAboutTheRun(r.req, r.cfg, r.can, {"a"})}
RequestsAreExact == [][subject' \notin Mispatched \cup Misrun]_mcVars

\* The grid holds every count once, and what is measured on it is whole,
\* disjoint and adds up in every table.
Misgridded ==
    {m \in Motions : ~ /\ Grid!GridIsDense(m.events) /\ Grid!QuestionsAgree(m.events)
                      /\ Grid!CountsAgree(m.events, m.batches)}
InOrder(events) == \A i \in 1..Len(events) - 1 : events[i].us <= events[i + 1].us
Mismeasured ==
    {s \in Sessions :
       \E m \in {Measured(s)} :
         ~ /\ Motion!FlicksAreWhole(m.grid, m.events)
           /\ Motion!PairsAreRight(m.grid, m.events)
           /\ Motion!LiftsAreApart(m.grid)
           /\ Motion!ResidualIsDense(m.grid)
           /\ InOrder(m.events) => Motion!TablesAdd(m.grid, m.events, m.ivs, m.flicks, m.rows)}
MeasuresAreSound == [][subject' \notin Misgridded \cup Mismeasured]_mcVars

\* The replay shows at each moment what was recorded until then, wherever it
\* was sought to and whatever has been dropped from the front.
PlaybackIsExact == machine = "eng" => Eng!TimelineIsSound /\ Eng!PlaybackIsExact

\* The settings the panel works with are those of the file, the form shows the
\* ones it was given, and a save writes what its page shows on top of the file
\* it has seen, or nothing.
SettingsAreCurrent ==
    /\ machine = "edit" => Edit!LiveIsCurrent
    /\ machine = "form" => Form!FormShowsTheView
SettingsAreExact ==
    [](SettingsAreCurrent) /\ Edit!SaveIsExact /\ Form!SavesWhatIsShown

\* The panel's page polls in one chain, holds its log's lines without a gap or
\* a repetition, and shows an action's end by a state as new as the action; its
\* list of processes shows what the panel itself has started, and terminates
\* nothing but this program; its window and tray say the same of one snapshot,
\* offer what it allows, and are never behind it in words, nor long in numbers.
PageIsWhole ==
    /\ machine = "page" => Page!PageIsSound
    /\ machine = "procs" => Procs!KillIsSafe /\ Procs!OwnChangesShow
Misviewed ==
    {d \in Desks : ~ /\ View!SurfacesAgree(d.snap, d.web) /\ View!FailuresAreTold(d.snap, d.web)
                     /\ View!MenuIsRight(d.snap) /\ View!FocusIsRight(d.snap)}
    \cup {p \in Paints : ~View!PaintIsCurrent(p.snaps, [is |-> "loading"])}
    \cup {o \in Outputs : ~(View!LinesAreRead(o.before, o.lines) /\ View!HintIsFound(o.lines))}
PanelIsShown == []PageIsWhole /\ Page!ActionIsSeen /\ [][subject' \notin Misviewed]_mcVars
=============================================================================
