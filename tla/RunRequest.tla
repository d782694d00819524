------------------------------ MODULE RunRequest ------------------------------
(***************************************************************************)
(* From a start request on the page to the sinks of a run: the panel turns *)
(* the request into arguments, the agent reads them over the same          *)
(* telemouse.toml, starts what it can and writes a sidecar.  Both programs *)
(* decide on their own whether the run is recorded.                        *)
(*                                                                         *)
(* A flag, a session and a path are names.  The two programs read the same *)
(* file; that it may be edited in between is SettingsEditor's subject.     *)
(***************************************************************************)
LOCAL INSTANCE Sequences
LOCAL INSTANCE SequencesExt
LOCAL INSTANCE Naturals

NoRecord == "--no-record"
Record == "--record"
NoKafka == "--no-kafka"
NoUdp == "--no-udp"
CaptureFlags == <<"--print", NoKafka, NoUdp, NoRecord, Record>>

Service(id, flags, markers) ==
    [id |-> id, bin |-> id, flags |-> flags, takes_session |-> FALSE, passes_config |-> TRUE,
     markers |-> markers, report_cache |-> FALSE]
Analysis(id, flags, takes_session) ==
    [id |-> id, bin |-> "analyze", flags |-> flags, takes_session |-> takes_session,
     passes_config |-> FALSE, markers |-> FALSE, report_cache |-> TRUE]
Components ==
    << Service("capture", ToSet(CaptureFlags), TRUE), Service("viz", {}, FALSE),
       [Service("doctor", {"--json"}, FALSE) EXCEPT !.bin = "capture"],
       Analysis("trend", {}, FALSE), Analysis("report", {"--timing"}, TRUE) >>

-----------------------------------------------------------------------------
(* The panel.  A request is [flags: a sequence, session: a name or "none", *)
(* save: "none" or a BOOLEAN]; recordings are the names of the files.      *)

\* recording_saves: what the panel says a run with these arguments does.
RecordingSaves(enabled, args) ==
    IF Contains(args, NoRecord) THEN FALSE ELSE Contains(args, Record) \/ enabled

\* recording_flags: nothing when the config already agrees.
\* Faulty variant: only ever the one that turns it off.
OnlyOff(enabled, save) == IF enabled /\ save = "off" THEN <<NoRecord>> ELSE <<>>
RecordingFlags(enabled, save) ==
    CASE enabled /\ save = "off" -> <<NoRecord>>
      [] ~enabled /\ save = "on" -> <<Record>>
      [] OTHER -> <<>>

Refused(why) == [error |-> why, args |-> <<>>]
Accepted(args) == [error |-> "none", args |-> args]

\* A flag goes in once.
AddFlag(args, f) == IF Contains(args, f) THEN args ELSE Append(args, f)

\* Manager::arguments
Arguments(c, req, enabled, recordings) ==
    LET flags == req.flags \o RecordingFlags(enabled, req.save)
        config == IF c.passes_config THEN <<"--config">> ELSE <<>>
        cache == IF c.report_cache THEN <<"--json-dir">> ELSE <<>>
        session == IF c.takes_session THEN <<req.session>> ELSE <<>>
    IN  CASE c.takes_session /\ req.session = "none" -> Refused("session required")
          [] c.takes_session /\ req.session \notin recordings -> Refused("bad session")
          [] \E i \in DOMAIN flags : flags[i] \notin c.flags -> Refused("flag not allowed")
          [] OTHER -> Accepted(FoldLeft(AddFlag, session \o config \o cache, flags))

\* Manager::start, up to the child: the running are not started twice.
Start(c, req, enabled, recordings, running) ==
    LET a == Arguments(c, req, enabled, recordings) IN
    IF a.error = "none" /\ running THEN Refused("already running") ELSE a

-----------------------------------------------------------------------------
(* The agent.  cfg says which sinks telemouse.toml enables, can which of   *)
(* them are able to start.                                                 *)

\* The argument parser: the two recording switches exclude each other.
Parses(args) == ~(Contains(args, Record) /\ Contains(args, NoRecord))

\* apply_cli
\* Faulty variant: --record is only a default.
DiskUnlessOff(enabled, args) == enabled
DiskEnabled(enabled, args) == (enabled /\ ~Contains(args, NoRecord)) \/ Contains(args, Record)
ApplyCli(cfg, args) ==
    [udp |-> cfg.udp /\ ~Contains(args, NoUdp), jsonl |-> DiskEnabled(cfg.jsonl, args),
     kafka |-> cfg.kafka /\ ~Contains(args, NoKafka)]

\* build_sinks: those that are enabled and start, in this order; the others
\* are a warning, and the run goes on.
BuildSinks(cfg, can) ==
    SelectSeq(<<"udp", "jsonl", "kafka">>, LAMBDA k : cfg[k] /\ k \in can)

\* The sidecar: one only beside a recording that was opened, with a row for
\* each sink that runs.
\* Faulty variant: one wherever a recording was asked for.
WhereAsked(cfg, sinks) == cfg.jsonl
HasSidecar(cfg, sinks) == Contains(sinks, "jsonl")
SidecarRows(sinks) == ToSet(sinks)

-----------------------------------------------------------------------------

\* The page's switch decides whether the run is recorded, whatever the config
\* says; what the panel says of a run is what the agent does; a request for
\* another program never reaches the agent's switches.  A raw recording flag
\* beside the switch may make the panel build a command that the agent's
\* parser refuses: the run then never starts, and nothing is promised.
PanelAndAgentAgree(req, cfg, can, recordings) ==
    \A i \in DOMAIN Components :
        LET c == Components[i]
            started == Start(c, req, cfg.jsonl, recordings, FALSE)
            args == started.args
            run == ApplyCli(cfg, args)
            raw == Contains(req.flags, Record) \/ Contains(req.flags, NoRecord)
        IN  started.error = "none" =>
            /\ \A j, k \in DOMAIN args : args[j] = args[k] => j = k
            /\ c.id # "capture" => ~Contains(args, Record) /\ ~Contains(args, NoRecord)
            /\ c.id = "capture" =>
               /\ Parses(args) \/ raw
               /\ Parses(args) => RecordingSaves(cfg.jsonl, args) = run.jsonl
               /\ ~raw /\ req.save # "none" => run.jsonl = (req.save = "on")
               /\ ~raw /\ req.save = "none" => run.jsonl = cfg.jsonl

\* A sink that cannot start takes no other with it, and the sidecar exists
\* exactly where there is a recording, with a row for each sink that ran.
SidecarIsAboutTheRun(req, cfg, can, recordings) ==
    LET started == Start(Components[1], req, cfg.jsonl, recordings, FALSE)
        run == ApplyCli(cfg, started.args)
        sinks == BuildSinks(run, can)
    IN  started.error = "none" /\ Parses(started.args) =>
        /\ SidecarRows(sinks) = {k \in can : run[k]}
        /\ HasSidecar(run, sinks) <=> (run.jsonl /\ "jsonl" \in can)
=============================================================================
