----------------------------- MODULE TrendTable -----------------------------
(***************************************************************************)
(* `telemouse-analyze trend` (trend.rs): a few workers analyze every       *)
(* recording of a directory, admitted by the bytes they have in flight,    *)
(* and reuse the report cached beside a recording while it is still about  *)
(* the file.                                                               *)
(*                                                                         *)
(* Recordings are numbered in path order.  A recording is [content, stamp, *)
(* exit, readable]; contents are never written twice, the file time may    *)
(* stay as it was.  A report keeps the contents it was computed from for   *)
(* the numbers in it.                                                      *)
(***************************************************************************)
EXTENDS Integers, Sequences, FiniteSets, FiniteSetsExt, SequencesExt

CONSTANTS Recordings,    \* 1 .. how many
          Size,          \* bytes of each
          Started,       \* when each started
          Unreadable,    \* recordings that do not load
          Budget,        \* TREND_BYTES_IN_FLIGHT
          Workers,
          MaxWrites      \* bound: changes while the table is computed

VARIABLES disk, reports, schedule, worker, writes, disturbed

vars == <<disk, reports, schedule, worker, writes, disturbed>>

None == <<>>
FileSignature(r) == [modified |-> disk[r].stamp, sample |-> disk[r].content]

\* file_signature gives nothing for a file that changes under it.
Signatures(r) == {<<FileSignature(r)>>} \cup (IF r \in disturbed THEN {None} ELSE {})

Free == [at |-> "free", index |-> 0, before |-> None, report |-> None, row |-> None]

\* A report kept from an earlier run: of the file as it is, of what it was
\* before it grew, or one another version computed.
Kept(r) ==
    LET report(c, usable) ==
            <<[content |-> c, usable |-> usable, written |-> 0, exit |-> "running",
               signature |-> [modified |-> 0, sample |-> c]]>>
    IN  IF r \in Unreadable THEN {None}
        ELSE {None, report(0, TRUE), report(-1, TRUE), report(-1, FALSE)}

Init ==
    /\ disk = [r \in Recordings |-> [content |-> 0, stamp |-> 0, exit |-> "running",
                                     readable |-> r \notin Unreadable]]
    /\ reports \in {f \in [Recordings -> UNION {Kept(r) : r \in Recordings}] :
                       \A r \in Recordings : f[r] \in Kept(r)}
    /\ schedule = [next |-> 1, in_flight |-> 0, active |-> 0,
                   out |-> [r \in Recordings |-> None]]
    /\ worker = [w \in Workers |-> Free]
    /\ writes = 0 /\ disturbed = {}

-----------------------------------------------------------------------------
(* The agent appends and ends its run, the file time moving or not.        *)

Write(r) ==
    /\ writes < MaxWrites /\ writes' = writes + 1
    /\ disturbed' = disturbed \cup {r}
    /\ disk' \in {[disk EXCEPT ![r].content = writes', ![r].stamp = t] :
                     t \in {disk[r].stamp, writes'}}
                 \cup {[disk EXCEPT ![r].exit = "interrupt"]}
    /\ UNCHANGED <<reports, schedule, worker>>

-----------------------------------------------------------------------------
(* The schedule: one lock, one condition variable.                         *)

At(w, place) == worker[w].at = place
Set(w, value) == worker' = [worker EXCEPT ![w] = value]

\* A worker with nothing else running is admitted whatever the size.
Admits(r) == schedule.active = 0 \/ schedule.in_flight + Size[r] <= Budget
\* Faulty variant: the budget alone.
AdmitsByBudget(r) == schedule.in_flight + Size[r] <= Budget

Take(w) ==
    /\ At(w, "free")
    /\ LET r == schedule.next
       IN  IF r \notin Recordings
           THEN Set(w, [Free EXCEPT !.at = "gone"]) /\ UNCHANGED schedule
           ELSE IF Admits(r)
           THEN /\ schedule' = [schedule EXCEPT !.next = @ + 1, !.in_flight = @ + Size[r],
                                                !.active = @ + 1]
                /\ Set(w, [Free EXCEPT !.at = "cache", !.index = r])
           ELSE Set(w, [Free EXCEPT !.at = "waiting"]) /\ UNCHANGED schedule
    /\ UNCHANGED <<disk, reports, writes, disturbed>>

Notified(w) == IF worker[w].at = "waiting" THEN Free ELSE worker[w]

Deliver(w) ==
    /\ At(w, "deliver")
    /\ LET r == worker[w].index
       IN  schedule' = [schedule EXCEPT !.out[r] = worker[w].row,
                                        !.in_flight = @ - Size[r], !.active = @ - 1]
    /\ worker' = [v \in Workers |-> IF v = w THEN Free ELSE Notified(v)]
    /\ UNCHANGED <<disk, reports, writes, disturbed>>

-----------------------------------------------------------------------------
(* report_for.                                                             *)

Row(r, report, from_cache) ==
    <<[index |-> r, started |-> Started[r], content |-> report.content, exit |-> report.exit,
       from_cache |-> from_cache]>>

\* A report whose sidecar part is read afresh.
RefreshSidecar(report, r) == [report EXCEPT !.exit = disk[r].exit]

\* read_cache, given what file_signature returned: a file it cannot sign is
\* left to the time test.
Usable(r, report, now) ==
    /\ disk[r].stamp <= report.written
    /\ report.usable
    /\ now = None \/ now[1] = report.signature
\* Faulty variant: the file time alone.
UsableByTime(r, report, now) == disk[r].stamp <= report.written /\ report.usable

ReadCache(w) ==
    /\ At(w, "cache")
    /\ LET r == worker[w].index
           s == worker[w]
       IN  \E now \in Signatures(r) :
             IF reports[r] # None /\ Usable(r, reports[r][1], now)
             THEN Set(w, [s EXCEPT !.at = "deliver",
                                   !.row = Row(r, RefreshSidecar(reports[r][1], r), TRUE)])
             ELSE \E before \in Signatures(r) :
                    Set(w, [s EXCEPT !.at = "load", !.before = before])
    /\ UNCHANGED <<disk, reports, schedule, writes, disturbed>>

\* load_session and report::build; an unreadable recording is skipped.
Load(w) ==
    /\ At(w, "load")
    /\ LET r == worker[w].index
       IN  Set(w, IF disk[r].readable
                  THEN [worker[w] EXCEPT !.at = "publish",
                          !.report = <<[content |-> disk[r].content, usable |-> TRUE,
                                        exit |-> disk[r].exit]>>]
                  ELSE [worker[w] EXCEPT !.at = "deliver"])
    /\ UNCHANGED <<disk, reports, schedule, writes, disturbed>>

\* A report is cached when the file was the same on both sides of the load;
\* a cache that cannot be written loses the row.
Publish(w) ==
    /\ At(w, "publish")
    /\ LET r == worker[w].index
           s == [worker[w] EXCEPT !.at = "deliver", !.report = None, !.before = None]
           report == worker[w].report[1]
           before == worker[w].before
       IN  \E after \in Signatures(r) :
             IF before # None /\ before = after
             THEN \/ /\ reports' = [reports EXCEPT ![r] =
                          <<[content |-> report.content, usable |-> TRUE, written |-> writes,
                             exit |-> report.exit, signature |-> after[1]]>>]
                     /\ Set(w, [s EXCEPT !.row = Row(r, report, FALSE)])
                  \/ Set(w, s) /\ UNCHANGED reports
             ELSE Set(w, [s EXCEPT !.row = Row(r, report, FALSE)]) /\ UNCHANGED reports
    /\ UNCHANGED <<disk, schedule, writes, disturbed>>

Step(w) == Take(w) \/ Deliver(w) \/ ReadCache(w) \/ Load(w) \/ Publish(w)

Over == \A w \in Workers : At(w, "gone")
Done == Over /\ UNCHANGED vars

Next == (\E r \in Recordings : Write(r)) \/ (\E w \in Workers : Step(w)) \/ Done

\* A thread that can run does; nobody else is needed to wake a waiting one.
Fairness == \A w \in Workers : WF_vars(Step(w))
Spec == Init /\ [][Next]_vars /\ Fairness

\* The table: the answered slots in path order, then by start.
Table ==
    LET rows == FlattenSeq([r \in Recordings |-> schedule.out[r]])
    IN  SortSeq(rows, LAMBDA a, b : a.started < b.started)

-----------------------------------------------------------------------------
(* Bytes in flight are the bytes of what is being worked on, and more than *)
(* the budget only for a recording that runs alone.                        *)
Working == {w \in Workers : worker[w].at \in {"cache", "load", "publish", "deliver"}}
BudgetIsKept ==
    /\ schedule.active = Cardinality(Working)
    /\ schedule.in_flight = MapThenSumSet(LAMBDA w : Size[worker[w].index], Working)
    /\ schedule.active > 1 => schedule.in_flight <= Budget
    /\ \A v, w \in Working : v # w => worker[v].index # worker[w].index

(* However the workers were scheduled, the table is in order and a row     *)
(* whose recording nobody touched tells what the recording and its sidecar *)
(* hold, from the cache or not.                                            *)
TableIsTrue ==
    Over =>
        /\ \A i, j \in 1..Len(Table) : i < j => Table[i].started < Table[j].started
        /\ \A i \in 1..Len(Table) :
             LET row == Table[i]
             IN  row.index \notin disturbed =>
                    row.content = disk[row.index].content /\ row.exit = disk[row.index].exit

TrendIsSound == BudgetIsKept /\ TableIsTrue

(* No worker waits for a wakeup nobody sends: the table is always finished. *)
TrendFinishes == <>Over
=============================================================================
