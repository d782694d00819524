----------------------------- MODULE VizServer -----------------------------
(***************************************************************************)
(* The viz beside its live stream (crates/viz/src/main.rs, server.rs and   *)
(* recordings.rs).  Four parts that share little; a behaviour is of one:   *)
(*   "listing"     pages ask for the list of recordings, through a cache,  *)
(*                 while the agent writes;                                 *)
(*   "replay"      a page is sent a recording, while the agent writes;     *)
(*   "bridges"     two of these servers come and go on the same two ports; *)
(*   "gates"       refused requests are logged, not too often.             *)
(*                                                                         *)
(* A recording is a sequence of lines, the last of which may not be whole  *)
(* on the disk yet (`cut` bytes of it are), and the time of its last       *)
(* write.  A line is its kind, its time and its length.  A deleted         *)
(* recording is gone from the directory only: who has it open reads and    *)
(* writes on.  External: the HTTP layer sends no more of a body than was   *)
(* announced.  Nobody else uses the two ports, and reads do not fail.      *)
(***************************************************************************)
EXTENDS Integers, Sequences, FiniteSets, FiniteSetsExt, SequencesExt, Functions

CONSTANTS Names, Pages,  \* the names are numbers: they have an order
          Lines,         \* kind |-> length of a line
          Probe,         \* PROBE_BYTES
          Chunk,         \* SESSION_STREAM_CAPACITY
          Ttl,           \* SESSIONS_CACHE_TTL
          Peers, Local,  \* addresses, and those of this machine
          WarnEvery, MaxPeers,   \* of the refusal log
          MaxTicks,      \* bound: time
          MaxScan,       \* bound: how long one listing takes
          MaxLines,      \* bound: lines of a recording
          MaxAsks,       \* bound: lists asked for
          MaxStarts      \* bound: servers started

VARIABLES part, now,
          disk,          \* name |-> recording
          gone,          \* names that the directory has no more
          cache,         \* << >> or the last list and when it was put there
          ask, asks,     \* page |-> its request in flight; how many there were
          shown,         \* page |-> what it was last given, and when
          body,          \* the recording on its way to a page
          bridge,        \* server |-> life, udp, http
          starts, overlapped,  \* servers started; history: those that met another
          seen, told, quiet    \* refusals remembered; history: logged, not logged

vars == <<part, now, disk, gone, cache, ask, asks, shown, body, bridge, starts, overlapped, seen, told, quiet>>
recordings == <<disk, gone, cache, ask, asks, shown, body>>
bridges == <<bridge, starts, overlapped>>
gates == <<seen, told, quiet>>

Bridges == {1, 2}
Off == [life |-> "off", udp |-> "none", http |-> FALSE]
NoAsk == [at |-> "idle", since |-> 0, todo |-> {}, rows |-> {}, bytes |-> 0, modified |-> 0,
          len |-> 0, started |-> -1]
NoList == [since |-> 0, ready |-> 0, rows |-> <<>>]
NoShow == [list |-> NoList, at |-> 0]
NoBody == [at |-> "idle", name |-> 0, total |-> 0, polled |-> 0, sent |-> 0]

Init ==
    /\ part \in {"listing", "replay", "bridges", "gates"}
    /\ now = 0 /\ disk = <<>> /\ gone = {} /\ cache = <<>>
    /\ ask = [p \in Pages |-> NoAsk] /\ asks = 0
    /\ shown = [p \in Pages |-> NoShow]
    /\ body = NoBody
    /\ bridge = [b \in Bridges |-> Off] /\ starts = 0 /\ overlapped = {}
    /\ seen = <<>> /\ told = <<>> /\ quiet = {}

Tick ==
    /\ now < MaxTicks /\ part \in {"listing", "gates"}
    /\ \A p \in Pages : ask[p].at # "idle" => now - ask[p].since < MaxScan
    /\ now' = now + 1 /\ UNCHANGED <<part, recordings, bridges, gates>>

\* The recording a scan is at.
AtFile(p) == CHOOSE n \in ask[p].todo : TRUE

-----------------------------------------------------------------------------
(* The disk.                                                               *)

Size(f) == FoldSeq(LAMBDA l, n : n + l.len, 0, f.lines) - (IF f.lines = <<>> THEN 0 ELSE Last(f.lines).len - f.cut)
Start(f, i) == FoldSeq(LAMBDA l, n : n + l.len, 0, SubSeq(f.lines, 1, i - 1))
End(f, i) == Start(f, i) + f.lines[i].len
Put(name, f) == disk' = (name :> f) @@ disk

Listed == DOMAIN disk \ gone

\* The agent: a line is the time it is written at, and may reach the disk in
\* two pieces.
Line(kind) == [kind |-> kind, ts |-> now, len |-> Lines[kind]]
NoFile == [lines |-> <<>>, cut |-> 0, modified |-> 0]
Torn(f) == f # NoFile /\ f.cut < Last(f.lines).len
Write(name) ==
    /\ part \in {"listing", "replay"}
    /\ LET f == IF name \in DOMAIN disk THEN disk[name] ELSE NoFile
       IN  IF Torn(f) THEN Put(name, [f EXCEPT !.cut = Last(f.lines).len, !.modified = now])
           ELSE /\ Len(f.lines) < MaxLines
                /\ \E kind \in IF f = NoFile THEN {"session"} ELSE DOMAIN Lines \ {"session"} :
                     \E cut \in {1, Lines[kind]} :
                        Put(name, [lines |-> Append(f.lines, Line(kind)), cut |-> cut, modified |-> now])
    /\ UNCHANGED <<part, now, gone, cache, ask, asks, shown, body, bridges, gates>>
Delete(name) ==
    /\ part \in {"listing", "replay"} /\ name \in Listed /\ gone' = gone \cup {name}
    /\ UNCHANGED <<part, now, disk, cache, ask, asks, shown, body, bridges, gates>>

-----------------------------------------------------------------------------
(* probe_time_range: the first line, and the last line with a time, in     *)
(* what `len` and the reads that follow it find.                           *)

None == -1
\* Lines that stand whole between two offsets, where `upto` is on the disk.
Whole(f, from, upto) ==
    {i \in DOMAIN f.lines : Start(f, i) >= from /\ End(f, i) <= IF upto < Size(f) THEN upto ELSE Size(f)}
LineUtc(f, i) == IF f.lines[i].kind \in {"batch", "marker"} THEN f.lines[i].ts ELSE None
LatestIn(f, is) ==
    LET timed == {i \in is : LineUtc(f, i) # None}
    IN  IF timed = {} THEN None ELSE LineUtc(f, Max(timed))
Started(f) == IF 1 \in Whole(f, 0, Probe) THEN f.lines[1].ts ELSE None
\* Of a file no longer than the probe the head is the tail as well.
EndedInHead(f) == LatestIn(f, Whole(f, 0, Probe))
\* Faulty variant: the end is looked for in the head of a long file too.
Short(len) == TRUE
Fits(len) == len <= Probe
\* What follows len - PROBE_BYTES by now.
EndedInTail(f, len) == LatestIn(f, Whole(f, len - Probe, Size(f)))

-----------------------------------------------------------------------------
(* api_sessions and list_recordings.                                       *)

\* Faulty variant: a list that is handed out counts as new again.
Renewed == cache' = <<[cache[1] EXCEPT !.at = now]>>
Kept == UNCHANGED cache
Ask(p) ==
    /\ part = "listing" /\ ask[p].at = "idle" /\ asks < MaxAsks /\ asks' = asks + 1
    /\ IF cache # <<>> /\ now - cache[1].at < Ttl
       THEN shown' = [shown EXCEPT ![p] = [list |-> cache[1].list, at |-> now]] /\ Kept /\ UNCHANGED ask
       ELSE /\ ask' = [ask EXCEPT ![p] = [NoAsk EXCEPT !.at = "stat", !.since = now, !.todo = Listed]]
            /\ shown' = [shown EXCEPT ![p] = NoShow] /\ UNCHANGED cache
    /\ UNCHANGED <<part, now, disk, gone, body, bridges, gates>>

Scans(p) == UNCHANGED <<part, now, disk, gone, cache, asks, shown, body, bridges, gates>>
\* The entry is done: on to the next recording.  `probed` is for the properties.
RowsOf(p, started, ended, probed) ==
    ask' = [ask EXCEPT ![p] =
              [@ EXCEPT !.at = "stat", !.todo = @ \ {AtFile(p)},
                        !.rows = @ \cup {[id |-> AtFile(p), bytes |-> ask[p].bytes,
                                          modified |-> ask[p].modified, probed |-> probed,
                                          started |-> started, ended |-> ended]}]]
Stat(p) ==
    /\ ask[p].at = "stat" /\ ask[p].todo # {}
    /\ ask' = IF AtFile(p) \in Listed
              THEN [ask EXCEPT ![p].at = "probe", ![p].bytes = Size(disk[AtFile(p)]),
                               ![p].modified = disk[AtFile(p)].modified]
              ELSE [ask EXCEPT ![p].todo = @ \ {AtFile(p)}]
    /\ Scans(p)
\* The probe opens the file, which may be gone by now, and takes its length.
Probes(p) ==
    /\ ask[p].at = "probe"
    /\ IF AtFile(p) \in Listed
       THEN ask' = [ask EXCEPT ![p].at = "head", ![p].len = Size(disk[AtFile(p)])]
       ELSE RowsOf(p, None, None, 0)
    /\ Scans(p)
ReadsHead(p) ==
    /\ ask[p].at = "head"
    /\ LET f == disk[AtFile(p)]
       IN  IF Fits(ask[p].len)
           THEN RowsOf(p, Started(f), EndedInHead(f), ask[p].len)
           ELSE ask' = [ask EXCEPT ![p].at = "tail", ![p].started = Started(f)]
    /\ Scans(p)
ReadsTail(p) ==
    /\ ask[p].at = "tail"
    /\ RowsOf(p, ask[p].started, EndedInTail(disk[AtFile(p)], ask[p].len), ask[p].len)
    /\ Scans(p)
\* The newest first.
Before(a, b) == a.modified > b.modified \/ (a.modified = b.modified /\ a.id < b.id)
\* The list is dated when it is put, not when it was begun; of a scan that
\* was lost it is empty.
Answer(p) ==
    /\ ask[p].at = "stat" /\ ask[p].todo = {}
    /\ \E rows \in {<<>>, SetToSortSeq(ask[p].rows, Before)} :
         LET list == [since |-> ask[p].since, ready |-> now, rows |-> rows]
         IN  /\ cache' = <<[at |-> now, list |-> list]>>
             /\ shown' = [shown EXCEPT ![p] = [list |-> list, at |-> now]]
    /\ ask' = [ask EXCEPT ![p] = NoAsk]
    /\ UNCHANGED <<part, now, disk, gone, asks, body, bridges, gates>>

-----------------------------------------------------------------------------
(* api_session: the length is announced from the open file; the body is    *)
(* what the file holds as it is read, chunk by chunk.                      *)

Open(name) ==
    /\ part = "replay" /\ body.at = "idle" /\ name \in Listed
    /\ body' = [NoBody EXCEPT !.at = "open", !.name = name, !.total = Size(disk[name])]
    /\ UNCHANGED <<part, now, disk, gone, cache, ask, asks, shown, bridges, gates>>
Read ==
    /\ body.at = "open"
    /\ LET chunk == Min({Chunk, Size(disk[body.name]) - body.polled})
           sent == Min({body.sent + chunk, body.total})
       IN  body' = [body EXCEPT !.polled = @ + chunk, !.sent = sent,
                                !.at = IF sent = body.total \/ chunk = 0 THEN "done" ELSE "open"]
    /\ UNCHANGED <<part, now, disk, gone, cache, ask, asks, shown, bridges, gates>>
\* The page goes away, or the server's deadline drops it.
Cut ==
    /\ body.at = "open" /\ body' = [body EXCEPT !.at = "cut"]
    /\ UNCHANGED <<part, now, disk, gone, cache, ask, asks, shown, bridges, gates>>
\* ReplayLog::drop.
Complete(b) == b.total = b.polled

-----------------------------------------------------------------------------
(* serve, listen, serve_until_stopped.                                     *)

Other(b) == 3 - b
Meet == overlapped' = overlapped \cup (IF \A b \in Bridges : bridge'[b].life # "off" THEN Bridges ELSE {})
BridgeStep == Meet /\ UNCHANGED <<part, now, recordings, gates>>
Launch(b) ==
    /\ part = "bridges" /\ bridge[b].life = "off" /\ starts < MaxStarts /\ starts' = starts + 1
    /\ bridge' = [bridge EXCEPT ![b] = [Off EXCEPT !.life = "starting", !.udp = "pending"]]
    /\ overlapped' = (overlapped \ {b}) \cup (IF bridge[Other(b)].life # "off" THEN Bridges ELSE {})
    /\ UNCHANGED <<part, now, recordings, gates>>
\* A port that cannot be bound leaves the live mode idle for good.
BindUdp(b) ==
    /\ bridge[b].udp = "pending"
    /\ bridge' = [bridge EXCEPT ![b].udp = IF bridge[Other(b)].udp = "bound" THEN "failed" ELSE "bound"]
    /\ BridgeStep /\ UNCHANGED starts
BindHttp(b) ==
    /\ bridge[b].life = "starting"
    /\ bridge' = IF bridge[Other(b)].http THEN [bridge EXCEPT ![b] = Off]
                 ELSE [bridge EXCEPT ![b].life = "serving", ![b].http = TRUE]
    /\ BridgeStep /\ UNCHANGED starts
\* The listener closes at once, the other socket with the process.
StopServing(b) ==
    /\ bridge[b].life = "serving"
    /\ bridge' = [bridge EXCEPT ![b].life = "stopping", ![b].http = FALSE]
    /\ BridgeStep /\ UNCHANGED starts
Leave(b) ==
    /\ bridge[b].life = "stopping" /\ bridge' = [bridge EXCEPT ![b] = Off]
    /\ BridgeStep /\ UNCHANGED starts
\* Faulty variant: as long as the listener has not failed.
NotFailed(b) == bridge[b].udp # "failed"
Health(b) == bridge[b].udp = "bound"

-----------------------------------------------------------------------------
(* lan_gate, require_local_host and RefusalLog::should_warn.               *)

Fresh == {k \in DOMAIN seen : now - seen[k] < WarnEvery}
Loud(k) == k \notin Fresh /\ Cardinality(Fresh) < MaxPeers
\* Faulty variant: a refusal that stays quiet is remembered as well.
RememberEach(k) == [j \in Fresh \cup {k} |-> IF j = k THEN now ELSE seen[j]]
Remember(k) == [j \in (IF Loud(k) THEN Fresh \cup {k} ELSE Fresh) |-> IF j \in Fresh THEN seen[j] ELSE now]
Refuse(k) ==
    /\ part = "gates" /\ seen' = Remember(k)
    /\ IF Loud(k) THEN told' = Append(told, [key |-> k, at |-> now]) /\ quiet' = {}
       ELSE quiet' = {[key |-> k, at |-> now]} /\ UNCHANGED told
    /\ UNCHANGED <<part, now, recordings, bridges>>
\* A peer that is not this machine, and a route that is not for the network.
LanGate(ip) == ip \notin Local /\ Refuse(<<"lan", ip>>)
\* A name that is not trusted: of this machine's own browser, or of a peer
\* whose route the gate before let through.
RequireLocalHost(ip) == Refuse(<<"host", ip>>)

-----------------------------------------------------------------------------
Next ==
    \/ Tick
    \/ \E n \in Names : Write(n) \/ Delete(n) \/ Open(n)
    \/ \E p \in Pages : Ask(p) \/ Stat(p) \/ Probes(p) \/ ReadsHead(p) \/ ReadsTail(p) \/ Answer(p)
    \/ Read \/ Cut
    \/ \E b \in Bridges : Launch(b) \/ BindUdp(b) \/ BindHttp(b) \/ StopServing(b) \/ Leave(b)
    \/ \E ip \in Peers : LanGate(ip) \/ RequireLocalHost(ip)

Spec == Init /\ [][Next]_vars

-----------------------------------------------------------------------------
(* Properties.                                                             *)

\* What an entry says of a recording was true when it was listed, although
\* the agent writes on: it starts with its session, and its end is the time of
\* a line, none before the last whole line within the probe of the length it
\* found (probe_time_range).
EntryIsTrue(e) ==
    LET f == disk[e.id]
        timed == {i \in DOMAIN f.lines : f.lines[i].kind \in {"batch", "marker"}}
        due == {i \in timed : End(f, i) <= e.probed /\ Start(f, i) >= e.probed - Probe}
    IN  /\ e.bytes <= Size(f) /\ e.probed <= Size(f) /\ e.modified <= f.modified
        /\ e.started \in {None, f.lines[1].ts}
        /\ (Lines["session"] <= e.probed /\ Lines["session"] <= Probe) => e.started = f.lines[1].ts
        /\ \/ e.ended = None /\ due = {}
           \/ \E i \in timed : /\ f.lines[i].ts = e.ended /\ End(f, i) <= Size(f)
                               /\ \A j \in due : j <= i
\* A list is handed out for less than its time to live after it was ready, and
\* that never goes back to before its scan (SessionsCache).
ListingIsFresh ==
    \A p \in Pages :
      LET l == shown[p]
      IN  l.at - l.list.ready < Ttl /\ l.list.since <= l.list.ready
ListingsAreTrue ==
    ListingIsFresh /\ \A p \in Pages : \A e \in Range(shown[p].list.rows) : EntryIsTrue(e)

\* A page is sent exactly what was announced, a beginning of the recording,
\* although the recording grows or is deleted; a transfer that was cut is
\* never logged as complete (api_session, ReplayLog).
BodyIsWhole ==
    /\ body.at = "done" => body.sent = body.total
    /\ (body.at \in {"done", "cut"} /\ Complete(body)) => body.sent = body.total

\* A server answers that it is healthy exactly when the feed is its own; one
\* that is deaf to it met another on its way (serve, listen, health).
BridgesAreHonest ==
    \A b \in Bridges :
      bridge[b].life = "serving" =>
        /\ Health(b) => \A c \in Bridges \ {b} : bridge[c].udp # "bound"
        /\ Health(b) => bridge[b].udp = "bound"
        /\ bridge[b].udp = "failed" => b \in overlapped
        /\ \A c \in Bridges \ {b} : ~bridge[c].http

\* A refused peer is logged once in the interval and not less, as long as the
\* log has room (RefusalLog::should_warn).
Since(at) == {i \in DOMAIN told : at - told[i].at < WarnEvery}
RefusalsAreTold ==
    /\ \A i, j \in DOMAIN told : i < j /\ told[i].key = told[j].key => told[j].at - told[i].at >= WarnEvery
    /\ \A i \in DOMAIN told : Cardinality({j \in Since(told[i].at) : j <= i}) <= MaxPeers
    /\ \A q \in quiet : \/ \E i \in Since(q.at) : told[i].key = q.key
                        \/ Cardinality(Since(q.at)) >= MaxPeers

ServerIsSound == ListingsAreTrue /\ BodyIsWhole /\ BridgesAreHonest /\ RefusalsAreTold
=============================================================================
