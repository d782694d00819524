--------------------------- MODULE SettingsEditor ---------------------------
(***************************************************************************)
(* Saving telemouse.toml from the panel's page (settings.rs, api_config,   *)
(* api_config_save) and the panel noticing that the file has changed       *)
(* (Manager::refresh_config, reload_config), while an editor outside       *)
(* writes the same file.  A save reads the file and compares the token,    *)
(* patches and checks, creates the file if there was none, replaces it,    *)
(* reloads and answers; saves are one at a time.  A reload reads the       *)
(* file's time, then the file, then takes what it says; the panel's polls  *)
(* do so too.  File times are whole seconds.                               *)
(***************************************************************************)
EXTENDS Naturals, Sequences, SettingsPatch

CONSTANTS Pages,        \* pages that have the form open
          Patches,      \* what they send
          Texts,        \* what the editor outside writes
          Sample,       \* SAMPLE_CONFIG
          MaxSeconds,   \* bound: the clock
          MaxEdits,     \* bound: changes from outside
          MaxSaves      \* bound: saves sent

VARIABLES file,     \* << >> or the document and the second it was written
          page,     \* each page: the token it holds, what it sent, what its save is about to write
          lock,     \* settings_lock: the page whose save runs
          live,     \* LiveConfig: the recording settings and the time of their file
          reader,   \* each reload under way, by page or "poll"
          now, edits, saves,
          raced,    \* history: changed from outside since the running save read it
          touched,  \* history: the second of the last change
          crowded   \* history: two changes within one second

vars == <<file, page, lock, live, reader, now, edits, saves, raced, touched, crowded>>
history == <<raced, touched, crowded>>
bounds == <<now, edits, saves>>

Readers == Pages \cup {"poll"}
Gone == <<>>
MtimeUnix == IF file = Gone THEN 0 ELSE file[1].second
Seen == IF file = Gone THEN Sample ELSE file[1].doc
\* token of the bytes; a file of the sample's text and no file differ.
Token == IF file = Gone THEN <<>> ELSE <<file[1].doc>>

Recording(c) == [record |-> c.record, dir |-> Rebase(c.dir)]
\* load_or_default and resolve_paths of the file; << >> when it does not load.
Loaded == IF file = Gone THEN <<Recording(Default)>>
          ELSE LET c == Checked(file[1].doc) IN IF c.ok THEN <<Recording(c.config)>> ELSE <<>>

Closed == [at |-> "closed", token |-> <<>>, patch |-> <<>>, next |-> <<>>]
NotReading == [at |-> "idle", second |-> 0, loaded |-> <<>>]

Init ==
    /\ file \in {Gone, <<[doc |-> Sample, second |-> 1]>>}
    /\ page = [p \in Pages |-> Closed]
    /\ lock = <<>>
    /\ live = [second |-> MtimeUnix, recording |-> Loaded[1]]
    /\ reader = [r \in Readers |-> NotReading]
    /\ now = 1 /\ edits = 0 /\ saves = 0
    /\ raced = FALSE /\ touched = MtimeUnix /\ crowded = FALSE

Change(content) ==
    /\ file' = content
    /\ touched' = now
    /\ crowded' = (crowded \/ touched = now)
WriteFile(doc) == Change(<<[doc |-> doc, second |-> now]>>)

Tick == /\ now < MaxSeconds /\ now' = now + 1
        /\ UNCHANGED <<file, page, lock, live, reader, edits, saves, history>>

EditOutside ==
    /\ edits < MaxEdits /\ edits' = edits + 1
    /\ \/ \E doc \in Texts : WriteFile(doc)
       \/ file # Gone /\ Change(Gone)
    /\ raced' = TRUE
    /\ UNCHANGED <<page, lock, live, reader, now, saves>>

-----------------------------------------------------------------------------
(* reload_config: by a save when it has written, by a poll that finds      *)
(* another time than that of its settings.                                 *)

\* refresh_config.
Poll ==
    /\ reader["poll"].at = "idle" /\ live.second # MtimeUnix
    /\ reader' = [reader EXCEPT !["poll"] = [@ EXCEPT !.at = "stat"]]
    /\ UNCHANGED <<file, page, lock, live, bounds, history>>
ReadTime(r) ==
    /\ reader[r].at = "stat"
    /\ reader' = [reader EXCEPT ![r].at = "load", ![r].second = MtimeUnix]
    /\ UNCHANGED <<file, page, lock, live, bounds, history>>
Load(r) ==
    /\ reader[r].at = "load"
    /\ reader' = [reader EXCEPT ![r].at = "take", ![r].loaded = Loaded]
    /\ UNCHANGED <<file, page, lock, live, bounds, history>>
\* Faulty variant: the time is read after the settings.
TimeNow(r) == MtimeUnix
TimeOf(r) == reader[r].second

\* What does not load leaves the settings as they are; a save answers now.
Take(r) ==
    /\ reader[r].at = "take"
    /\ live' = [second |-> TimeOf(r),
                recording |-> IF reader[r].loaded = <<>> THEN live.recording
                              ELSE reader[r].loaded[1]]
    /\ reader' = [reader EXCEPT ![r] = NotReading]
    /\ IF r \in Pages THEN page' = [page EXCEPT ![r] = Closed] /\ lock' = <<>>
       ELSE UNCHANGED <<page, lock>>
    /\ UNCHANGED <<file, bounds, history>>

-----------------------------------------------------------------------------
(* The form.                                                               *)

At(p, place) == page[p].at = place
GoTo(p, value) == page' = [page EXCEPT ![p] = value] /\ UNCHANGED lock
\* An error answer, and the next save's turn.
Refuse(p) == page' = [page EXCEPT ![p] = Closed] /\ lock' = <<>>

\* api_config: view.
View(p) ==
    /\ At(p, "closed")
    /\ GoTo(p, [Closed EXCEPT !.at = "form", !.token = Token])
    /\ UNCHANGED <<file, live, reader, bounds, history>>
Send(p) ==
    /\ At(p, "form") /\ saves < MaxSaves /\ saves' = saves + 1
    /\ \E patch \in Patches : GoTo(p, [page[p] EXCEPT !.at = "sent", !.patch = <<patch>>])
    /\ UNCHANGED <<file, live, reader, now, edits, history>>

\* Faulty variant: saves do not wait for each other.
AlwaysFree == TRUE
\* settings_lock.
Free == lock = <<>>
Enter(p) ==
    /\ At(p, "sent") /\ Free
    /\ lock' = <<p>>
    /\ page' = [page EXCEPT ![p].at = "read"]
    /\ UNCHANGED <<file, live, reader, bounds, history>>

SaveRead(p) ==
    /\ At(p, "read")
    /\ LET patched == ApplyPatch(Seen, page[p].patch[1])
       IN  IF Token = page[p].token /\ patched.ok /\ Checked(patched.doc).ok
           THEN GoTo(p, [page[p] EXCEPT !.at = IF file = Gone THEN "seed" ELSE "write",
                                        !.next = <<patched.doc>>])
           ELSE Refuse(p)
    /\ raced' = FALSE
    /\ UNCHANGED <<file, live, reader, bounds, touched, crowded>>

\* seed_config: create_new.
SaveSeed(p) ==
    /\ At(p, "seed")
    /\ IF file = Gone THEN WriteFile(Sample) /\ GoTo(p, [page[p] EXCEPT !.at = "write"])
       ELSE Refuse(p) /\ UNCHANGED <<file, touched, crowded>>
    /\ UNCHANGED <<live, reader, bounds, raced>>

\* write_atomic: renamed over the file, or not at all.
SaveWrite(p) ==
    /\ At(p, "write")
    /\ \/ /\ WriteFile(page[p].next[1])
          /\ GoTo(p, [page[p] EXCEPT !.at = "reload"])
          /\ reader' = [reader EXCEPT ![p] = [@ EXCEPT !.at = "stat"]]
       \/ Refuse(p) /\ UNCHANGED <<file, reader, touched, crowded>>
    /\ UNCHANGED <<live, bounds, raced>>

Next ==
    \/ Tick \/ EditOutside \/ Poll
    \/ \E r \in Readers : ReadTime(r) \/ Load(r) \/ Take(r)
    \/ \E p \in Pages : View(p) \/ Send(p) \/ Enter(p) \/ SaveRead(p) \/ SaveSeed(p) \/ SaveWrite(p)

Spec == Init /\ [][Next]_vars

-----------------------------------------------------------------------------
(* Unless the editor outside wrote after a save read the file, the save    *)
(* replaces exactly the text its page saw, by that text with its patch     *)
(* applied; a file that does not load is never written; and when the page  *)
(* is told "saved" the panel runs with what was saved, within the same     *)
(* second too.                                                             *)
SaveIsExact ==
    [][\A p \in Pages :
        /\ At(p, "write") /\ page'[p].at = "reload" =>
              /\ Checked(file'[1].doc).ok
              /\ ~raced => LET base == IF page[p].token = <<>> THEN Sample
                                       ELSE page[p].token[1]
                           IN  file[1].doc = base
                               /\ file'[1].doc = ApplyPatch(base, page[p].patch[1]).doc
        /\ At(p, "reload") /\ page'[p].at = "closed" /\ ~raced =>
              live'.recording = Recording(Checked(page[p].next[1]).config)]_vars

(* As long as no two changes fall in one second, settings that carry the   *)
(* time of the file on disk are the settings that file holds: nothing else *)
(* would make the panel read it again.                                     *)
LiveIsCurrent ==
    ~crowded /\ file # Gone /\ live.second = MtimeUnix /\ Loaded # <<>> =>
        live.recording = Loaded[1]
=============================================================================
