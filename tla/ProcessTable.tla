---------------------------- MODULE ProcessTable ----------------------------
(***************************************************************************)
(* The panel's list of telemouse processes (crates/ctl/src/procs.rs).  Two *)
(* caches stand before the process table: the candidates by name, good for *)
(* ENUMERATE_EVERY, and the last list, good for the reader's ttl.  Scans   *)
(* of the page and of the window run on threads of their own beside the    *)
(* panel's own starts, which clear both caches, and beside a kill, which   *)
(* clears them and then asks the system about one PID.  Processes come and *)
(* go meanwhile and PIDs are used again.                                   *)
(*                                                                         *)
(* A process is its `id`, its name, whether its command line mentions      *)
(* telemouse, whether it refuses to be opened, and whether it has exited   *)
(* while somebody still holds a handle on it.                              *)
(***************************************************************************)
EXTENDS Integers, Sequences, FiniteSets, FiniteSetsExt, Functions

CONSTANTS Pids,        \* the PIDs the system gives out
          Self,          \* the panel's own
          Every,         \* ENUMERATE_EVERY
          Ttl,           \* each reader's SCAN_TTL
          MaxProcs,      \* bound: processes ever started
          MaxTicks,      \* bound: time
          MaxKills,      \* bound: kills
          MaxFaults      \* bound: snapshots of the table that fail

Readers == DOMAIN Ttl

VARIABLES table,       \* PID |-> process
          born, now, faults,
          known,         \* << >> or the candidates and when they were read
          last,          \* << >> or the last list
          scan,          \* reader |-> its scan in flight
          shown,         \* reader |-> the list it was last given
          clearing,      \* what invalidate has still to clear, after which change
          kill, kills,   \* the kill in flight, how many there were
          announced,     \* history: processes the panel started and told the scanner of
          killed         \* history: processes terminated, and how they were meant

vars == <<table, born, now, faults, known, last, scan, shown, clearing, kill, kills, announced, killed>>
world == <<table, born, now, faults>>
lists == <<known, last, scan, shown>>

-----------------------------------------------------------------------------
(* classify and name_is_candidate.                                         *)

NameIsCandidate(name) == name \in {"telemouse", "cargo"}
Classify(name, mentions) ==
    CASE name = "telemouse" -> "capture"
      [] name = "cargo" /\ mentions -> "cargo"
      [] OTHER -> "none"

Kind(name, mentions, elevated) == [name |-> name, mentions |-> mentions, elevated |-> elevated]
Kinds == {Kind("telemouse", TRUE, FALSE), Kind("telemouse", TRUE, TRUE),
          Kind("cargo", FALSE, FALSE), Kind("game", FALSE, FALSE)}
Process(kind, id) == [kind |-> kind, id |-> id, exited |-> FALSE]
Agent == Kind("telemouse", TRUE, FALSE)

NoScan == [at |-> "idle", todo |-> {}, rows |-> {}, whole |-> TRUE, knew |-> {}]
NoKill == [at |-> "idle", pid |-> 0, entry |-> <<>>, handle |-> <<>>]

Init ==
    /\ table = [p \in {Self} |-> Process(Agent, 0)]
    /\ born = 0 /\ now = 0 /\ faults = 0
    /\ known = <<>> /\ last = <<>>
    /\ scan = [r \in Readers |-> NoScan]
    /\ shown = [r \in Readers |-> [rows |-> {}, knew |-> {}, whole |-> TRUE]]
    /\ clearing = <<>> /\ kill = NoKill /\ kills = 0 /\ announced = {} /\ killed = {}

-----------------------------------------------------------------------------
(* The system.                                                             *)

Free == Pids \ DOMAIN table
Birth(pid, process) == table' = [p \in DOMAIN table \cup {pid} |-> IF p = pid THEN process ELSE table[p]]
Death(pid, held) ==
    table' = IF held THEN [table EXCEPT ![pid].exited = TRUE]
             ELSE Restrict(table, DOMAIN table \ {pid})

Spawn(pid, kind) ==
    /\ born < MaxProcs /\ pid \in Free
    /\ Birth(pid, Process(kind, born + 1)) /\ born' = born + 1
    /\ UNCHANGED <<now, faults, lists, clearing, kill, kills, announced, killed>>
Exit(pid) ==
    /\ pid # Self
    /\ \/ ~table[pid].exited /\ \E held \in BOOLEAN : Death(pid, held)
       \/ table[pid].exited /\ Death(pid, FALSE)
    /\ UNCHANGED <<born, now, faults, lists, clearing, kill, kills, announced, killed>>
Tick == /\ now < MaxTicks /\ now' = now + 1
        /\ UNCHANGED <<table, born, faults, lists, clearing, kill, kills, announced, killed>>

\* sys::enumerate: one snapshot, or nothing when it cannot be taken.
Snapshot == {[pid |-> p, name |-> table[p].kind.name] : p \in DOMAIN table}
Enumerate(list) ==
    \/ list = Snapshot /\ UNCHANGED faults
    \/ faults < MaxFaults /\ list = {} /\ faults' = faults + 1

-----------------------------------------------------------------------------
(* scan_cached and scan.                                                   *)

\* A list young enough is handed out again.
Ask(r) ==
    /\ scan[r].at = "idle"
    /\ IF last # <<>> /\ now - last[1].at < Ttl[r]
       THEN shown' = [shown EXCEPT ![r] = last[1].list] /\ UNCHANGED scan
       ELSE scan' = [scan EXCEPT ![r].at = "waiting"] /\ UNCHANGED shown
    /\ UNCHANGED <<world, known, last, clearing, kill, kills, announced, killed>>

\* The samples stay locked from here to the end of the scan.
Begun(r, list, whole) ==
    scan' = [scan EXCEPT ![r] = [at |-> "details", todo |-> list, rows |-> {}, whole |-> whole,
                                 knew |-> announced]]
Unlocked == \A q \in Readers : scan[q].at # "details"
Candidates(r) ==
    /\ scan[r].at = "waiting" /\ Unlocked
    /\ IF known # <<>> /\ now - known[1].at < Every
       THEN Begun(r, known[1].list, known[1].whole) /\ UNCHANGED <<known, faults>>
       ELSE \E list \in {Snapshot, {}} :
              /\ Enumerate(list)
              /\ LET kept == {e \in list : NameIsCandidate(e.name)}
                 IN  /\ known' = <<[at |-> now, list |-> kept, whole |-> list # {}]>>
                     /\ Begun(r, kept, list # {})
    /\ UNCHANGED <<table, born, now, last, shown, clearing, kill, kills, announced, killed>>

\* The queries of one candidate: gone or exited is dropped, a process that
\* refuses the handle is classified by the name it was enumerated under.
Row(e) ==
    IF e.pid \notin DOMAIN table \/ (~table[e.pid].kind.elevated /\ table[e.pid].exited) THEN {}
    ELSE LET there == table[e.pid].kind
             kind == Classify(e.name, ~there.elevated /\ there.mentions)
         IN  IF kind = "none" THEN {} ELSE {[pid |-> e.pid, kind |-> kind]}
Detail(r) ==
    /\ scan[r].at = "details" /\ scan[r].todo # {}
    /\ LET e == CHOOSE x \in scan[r].todo : \A y \in scan[r].todo : x.pid <= y.pid
       IN  scan' = [scan EXCEPT ![r].todo = @ \ {e}, ![r].rows = @ \cup Row(e)]
    /\ UNCHANGED <<world, known, last, shown, clearing, kill, kills, announced, killed>>

Listed(r) == [rows |-> scan[r].rows, whole |-> scan[r].whole, knew |-> scan[r].knew]
Store(r) ==
    /\ scan[r].at = "details" /\ scan[r].todo = {}
    /\ last' = <<[at |-> now, list |-> Listed(r)]>>
    /\ shown' = [shown EXCEPT ![r] = Listed(r)]
    /\ scan' = [scan EXCEPT ![r] = NoScan]
    /\ UNCHANGED <<world, known, clearing, kill, kills, announced, killed>>

-----------------------------------------------------------------------------
(* invalidate, after a start or a stop of the panel's own.                 *)

PanelStarts(pid) ==
    /\ clearing = <<>> /\ born < MaxProcs /\ pid \in Free
    /\ Birth(pid, Process(Agent, born + 1))
    /\ born' = born + 1 /\ clearing' = <<[id |-> born + 1, next |-> "last"]>>
    /\ UNCHANGED <<now, faults, lists, kill, kills, announced, killed>>
ClearLast ==
    /\ clearing # <<>> /\ clearing[1].next = "last"
    /\ last' = <<>> /\ clearing' = <<[clearing[1] EXCEPT !.next = "known"]>>
    /\ UNCHANGED <<world, known, scan, shown, kill, kills, announced, killed>>
Told == clearing' = <<>> /\ announced' = announced \cup {clearing[1].id}
\* Faulty variant: only the list is forgotten, the candidates are kept.
KeepKnown ==
    /\ clearing # <<>> /\ clearing[1].next = "known" /\ Told
    /\ UNCHANGED <<world, lists, kill, kills, killed>>
ClearKnown ==
    /\ clearing # <<>> /\ clearing[1].next = "known" /\ Told
    /\ known' = <<>>
    /\ UNCHANGED <<world, last, scan, shown, kill, kills, killed>>

-----------------------------------------------------------------------------
(* kill and kill_entry.                                                    *)

\* Scanner::kill: never itself; the list, then the candidates, are forgotten.
Kill(pid) ==
    /\ kill.at = "idle" /\ kills < MaxKills /\ pid # Self
    /\ last' = <<>> /\ kill' = [NoKill EXCEPT !.at = "clearing", !.pid = pid] /\ kills' = kills + 1
    /\ UNCHANGED <<world, known, scan, shown, clearing, announced, killed>>
KillClears ==
    /\ kill.at = "clearing"
    /\ known' = <<>> /\ kill' = [kill EXCEPT !.at = "enumerate"]
    /\ UNCHANGED <<world, last, scan, shown, clearing, kills, announced, killed>>
KillEnumerates ==
    /\ kill.at = "enumerate"
    /\ \E list \in {Snapshot, {}} :
         /\ Enumerate(list)
         /\ LET found == {e \in list : e.pid = kill.pid /\ NameIsCandidate(e.name)}
            IN  kill' = IF found = {} THEN NoKill
                        ELSE [kill EXCEPT !.at = "open", !.entry = <<CHOOSE e \in found : TRUE>>]
    /\ UNCHANGED <<table, born, now, lists, clearing, kills, announced, killed>>
\* One handle to read and to terminate with: it stays on the process that
\* has the PID now.
Open ==
    /\ kill.at = "open"
    /\ kill' = IF kill.pid \notin DOMAIN table \/ table[kill.pid].kind.elevated THEN NoKill
               ELSE [kill EXCEPT !.at = "judge", !.handle = <<table[kill.pid]>>]
    /\ UNCHANGED <<world, lists, clearing, kills, announced, killed>>
\* Faulty variant: the name of the snapshot is believed.
BelieveSnapshot(h) == Classify(kill.entry[1].name, h.kind.mentions) # "none"
\* The handle's own image name and command line decide.
StillRelated(h) == NameIsCandidate(h.kind.name) /\ Classify(h.kind.name, h.kind.mentions) # "none"
HandleLives == kill.pid \in DOMAIN table /\ table[kill.pid].id = kill.handle[1].id /\ ~table[kill.pid].exited
Judge ==
    /\ kill.at = "judge"
    /\ kill' = IF HandleLives /\ StillRelated(kill.handle[1]) THEN [kill EXCEPT !.at = "terminate"] ELSE NoKill
    /\ UNCHANGED <<world, lists, clearing, kills, announced, killed>>
\* A process that is gone by now cannot be terminated.
Terminate ==
    /\ kill.at = "terminate"
    /\ IF HandleLives
       THEN Death(kill.pid, FALSE) /\ killed' = killed \cup {table[kill.pid]}
       ELSE UNCHANGED <<table, killed>>
    /\ kill' = NoKill
    /\ UNCHANGED <<born, now, faults, lists, clearing, kills, announced>>

-----------------------------------------------------------------------------
Next ==
    \/ \E pid \in Pids, kind \in Kinds : Spawn(pid, kind)
    \/ \E pid \in DOMAIN table : Exit(pid)
    \/ \E pid \in Pids : PanelStarts(pid)
    \/ \E pid \in Pids \cup {Self} : Kill(pid)
    \/ Tick \/ ClearLast \/ ClearKnown
    \/ KillClears \/ KillEnumerates \/ Open \/ Judge \/ Terminate
    \/ \E r \in Readers : Ask(r) \/ Candidates(r) \/ Detail(r) \/ Store(r)

Spec == Init /\ [][Next]_vars

-----------------------------------------------------------------------------
(* Properties.                                                             *)

\* Only processes of this program are ever terminated, and never the panel,
\* whatever the lists show and however often a PID has changed hands since
\* the table was read (Scanner::kill, kill_entry).
KillIsSafe ==
    \A p \in killed : p.id # 0 /\ Classify(p.kind.name, p.kind.mentions) # "none"

\* A process the panel started and told the scanner of is in every list that
\* was put together from then on, as long as it ran when the scan came to it,
\* although scans that had begun before may still have stored theirs
\* (invalidate, scan_cached, candidates, scan).
OwnChangesShow ==
    \A r \in Readers :
      shown[r].whole =>
        \A pid \in DOMAIN table :
          table[pid].id \in shown[r].knew /\ ~table[pid].exited =>
             \E row \in shown[r].rows : row.pid = pid
=============================================================================
