--------------------------- MODULE SettingsPatch ---------------------------
(***************************************************************************)
(* telemouse.toml once it is parsed (crates/core/src/config.rs, hotkey.rs, *)
(* paths.rs): the defaults, the validation every program applies on load,  *)
(* the fields a run reports as set, the paths relative to the file, and    *)
(* the chords of the two hotkeys.  Then the panel's edits of it            *)
(* (crates/ctl/src/settings.rs): a patch applied to the text of the file   *)
(* so that everything it does not name stays as it was written, what       *)
(* changed, and who has to start again to notice.                          *)
(*                                                                         *)
(* A configuration is a function from field names to values.  Quantities   *)
(* that are real in the code are in tenths; NotANumber is a NaN or an      *)
(* infinity.  A chord is the sequence of its parts, in lower case.         *)
(* A document is what the editor sees of the text: the fields it holds,    *)
(* each with its value and how it is spelled, the sections that are not    *)
(* tables, and the games.  A text value may be padded with blanks.  A game *)
(* name is [base, exe, upper]: its stem, whether it ends in ".exe", and    *)
(* whether it has capitals.                                                *)
(***************************************************************************)
LOCAL INSTANCE Integers
LOCAL INSTANCE Sequences
LOCAL INSTANCE FiniteSets
LOCAL INSTANCE SequencesExt

NotANumber == -9999
MAX_WINDOW_MS == 1000
MAX_EVENTS_PER_BATCH == 448
MAX_RING_CAPACITY == 4194304
MAX_COALESCE_MS == 10
MAX_STOP_GRACE_SECS == 60
MAX_OBS_STALE == 600

IsPositive(v) == v # NotANumber /\ v > 0
IsWithin(v, low, high) == v # NotANumber /\ low <= v /\ v <= high

-----------------------------------------------------------------------------
(* hotkey.rs.                                                              *)

NoHotkey == <<>>
BadChord == <<[mods |-> {}, key |-> "none"]>>
ModifierOf(part) ==
    CASE part \in {"ctrl", "control"} -> "ctrl"
      [] part = "alt" -> "alt"
      [] part = "shift" -> "shift"
      [] part \in {"win", "super", "meta"} -> "win"
      [] OTHER -> "none"

\* key_code: two spellings of one key have one code; what the table lacks has
\* none.
KeyCode(key) ==
    CASE key \in {"enter", "return"} -> "enter"
      [] key \in {"esc", "escape"} -> "esc"
      [] key \in {"", "f25", "bogus"} -> "none"
      [] OTHER -> key
Standalone(code) == code \in {"pause", "scrolllock", "printscreen", "numlock", "f9", "f10", "f24"}

ParseHotkey(chord) ==
    LET mods == ToSet(Front(chord))
        code == KeyCode(Last(chord))
    IN  IF chord \in {<<>>, <<"">>, <<"none">>, <<"off">>} THEN NoHotkey
        ELSE IF \E m \in mods : ModifierOf(m) = "none" THEN BadChord
        ELSE IF code = "none" THEN BadChord
        ELSE IF mods = {} /\ ~Standalone(code) THEN BadChord
        ELSE <<[mods |-> {ModifierOf(m) : m \in mods}, key |-> code]>>

-----------------------------------------------------------------------------
(* AppConfig::default.                                                     *)

Default ==
    [mouse_cpi |-> 16000, marker_hotkey |-> <<"f9">>,
     window_ms |-> 25, max_events |-> MAX_EVENTS_PER_BATCH, ring_capacity |-> 65536,
     coalesce_ms |-> 8, udp_enabled |-> TRUE, udp_addr |-> "7878", kafka_enabled |-> FALSE,
     brokers |-> <<"host:9092">>, record |-> TRUE,
     dir |-> [of |-> "recordings", at |-> "relative"], viz_addr |-> "7879",
     layout |-> "split", background |-> "transparent", hud |-> <<"speed", "aim", "cpm">>,
     hud_position |-> "bottom-left", scale |-> 10, trail |-> 30, buffer_ms |-> 35,
     grid |-> TRUE, legend |-> FALSE, labels |-> FALSE, stale |-> 30, ctl_addr |-> "7880",
     bin_dir |-> [of |-> "", at |-> "empty"], stop_grace_secs |-> 8,
     log_dir |-> [of |-> "logs", at |-> "relative"],
     hotkey |-> <<"ctrl", "alt", "r">>, games |-> <<>>]

Fields == DOMAIN Default

\* ObsConfig::validate_at, in its order.
ObsChecks(c) == <<
    <<"viz.obs.layout", c.layout \in {"split", "stack", "desk", "aim", "pointer", "compare"}>>,
    <<"viz.obs.background", c.background \in {"transparent", "none", "hex"}>>,
    <<"viz.obs.hud", \A i \in DOMAIN c.hud : c.hud[i] # "unknown">>,
    <<"viz.obs.hud_position", c.hud_position \in
         {"top-left", "top-right", "bottom-left", "bottom-right"}>>,
    <<"viz.obs.scale", IsWithin(c.scale, 5, 40)>>,
    <<"viz.obs.trail_secs", IsWithin(c.trail, 3, 120)>>,
    <<"viz.obs.buffer_ms", IsWithin(c.buffer_ms, 10, 200)>>,
    <<"viz.obs.stale_secs", IsWithin(c.stale, 0, MAX_OBS_STALE)>> >>

\* game_key_problem: a bare name in lower case that ends in ".exe".
IsGoodGame(g) == /\ g.key.exe /\ ~g.key.upper
                 /\ IsPositive(g.sens) /\ IsPositive(g.yaw) /\ IsPositive(g.pitch)

\* AppConfig::validate_at: the first field that is not as it should be.
BadField(c) ==
    LET chord == ParseHotkey(c.hotkey)
        marker == ParseHotkey(c.marker_hotkey)
        checks == <<
            <<"mouse_cpi", IsPositive(c.mouse_cpi)>>,
            <<"batch.window_ms", IsWithin(c.window_ms, 1, MAX_WINDOW_MS)>>,
            <<"batch.max_events", IsWithin(c.max_events, 1, MAX_EVENTS_PER_BATCH)>>,
            <<"batch.ring_capacity", IsWithin(c.ring_capacity, c.max_events, MAX_RING_CAPACITY)>>,
            <<"batch.coalesce_ms", c.coalesce_ms <= MAX_COALESCE_MS>>,
            <<"kafka.brokers", c.kafka_enabled => c.brokers # <<>> >>,
            <<"kafka.brokers", \A i \in DOMAIN c.brokers : c.brokers[i] # "no port">> >>
          \o ObsChecks(c) \o <<
            <<"ctl.stop_grace_secs", c.stop_grace_secs <= MAX_STOP_GRACE_SECS>>,
            <<"ctl.hotkey", chord # BadChord>>,
            <<"marker_hotkey", marker # BadChord>>,
            <<"ctl.hotkey", chord = NoHotkey \/ marker = NoHotkey \/ chord # marker>>,
            <<"games", \A i \in DOMAIN c.games : IsGoodGame(c.games[i])>> >>
        bad == SelectSeq(checks, LAMBDA check : ~check[2])
    IN  IF bad = <<>> THEN "" ELSE bad[1][1]

IsValid(c) == BadField(c) = ""

\* resolve_paths: a relative path means a place beside the file.
Rebase(path) == IF path.at = "relative" THEN [path EXCEPT !.at = "base"] ELSE path
ResolvePaths(c) == [c EXCEPT !.dir = Rebase(@), !.log_dir = Rebase(@), !.bin_dir = Rebase(@)]

NonDefaultFields(c) == {f \in Fields : c[f] # Default[f]}

-----------------------------------------------------------------------------
(* The editor: documents and patches.                                      *)

Broken == [is |-> "broken"]
Put(f, k, v) == [x \in DOMAIN f \cup {k} |-> IF x = k THEN v ELSE f[x]]
Without(f, k) == [x \in DOMAIN f \ {k} |-> f[x]]

\* What the editor offers, and the section each field is in.
SectionOf ==
    [mouse_cpi |-> "", marker_hotkey |-> "", record |-> "recording", dir |-> "recording",
     hotkey |-> "ctl", layout |-> "viz.obs", background |-> "viz.obs", hud |-> "viz.obs",
     hud_position |-> "viz.obs", scale |-> "viz.obs"]
Editable == DOMAIN SectionOf
Trimmed == {"marker_hotkey", "dir", "hotkey", "background"}

Trim(field, v) == IF field \in Trimmed /\ v.padded THEN [v EXCEPT !.padded = FALSE] ELSE v

\* game_key; the stems "" and "path" are not names.
GameKey(name) == [name EXCEPT !.exe = TRUE, !.upper = FALSE]
IsGameKey(name) == name.base \notin {"", "path"}

\* set: a value that is the same keeps its spelling.
SetValue(table, key, v) ==
    IF key \in DOMAIN table /\ table[key].v = v THEN table
    ELSE Put(table, key, [v |-> v, spelled |-> "new"])
\* Faulty variant: every value sent is written anew.
Overwrite(table, key, v) == Put(table, key, [v |-> v, spelled |-> "new"])

-----------------------------------------------------------------------------
(* apply_games, one name at a time.  A document's games are by name; an    *)
(* entry is a table of coefficients or NotATable.                          *)

NotATable == [is |-> "value"]
Refused(field) == [ok |-> FALSE, field |-> field]
DEFAULT_COEFF == 22
OrElse(option, v) == IF option = <<>> THEN v ELSE option[1]

NewGame(change) ==
    LET yaw == OrElse(change.yaw, DEFAULT_COEFF)
        new(v) == [v |-> v, spelled |-> "new"]
    IN  [sens |-> new(change.sens[1]), yaw |-> new(yaw),
         pitch |-> new(OrElse(change.pitch, yaw))]

IsFinite(change) == \A f \in {"sens", "yaw", "pitch"} : change[f] # <<NotANumber>>

EditGame(entry, change) ==
    FoldLeft(LAMBDA e, f : IF change[f] = <<>> THEN e ELSE SetValue(e, f, change[f][1]),
             entry, <<"sens", "yaw", "pitch">>)

ApplyGame(acc, name, change) ==
    LET key == GameKey(name)
        games == acc.games
        existing == key \in DOMAIN games /\ games[key] # NotATable
    IN  IF ~acc.ok THEN acc
        ELSE IF change = <<>> THEN
            [acc EXCEPT !.games = IF name \in DOMAIN games THEN Without(games, name)
                                  ELSE IF IsGameKey(name) THEN Without(games, key) ELSE games]
        ELSE IF ~IsGameKey(name) THEN [acc EXCEPT !.ok = FALSE, !.field = "games"]
        ELSE IF ~IsFinite(change[1]) \/ (~existing /\ change[1].sens = <<>>)
             THEN [acc EXCEPT !.ok = FALSE, !.field = "games.entry"]
        ELSE IF existing THEN [acc EXCEPT !.games = Put(games, key, EditGame(games[key], change[1]))]
        ELSE [acc EXCEPT !.games = Put(games, key, NewGame(change[1]))]

ApplyGames(doc, changes) ==
    IF changes = <<>> THEN [ok |-> TRUE, field |-> "", games |-> doc.games]
    ELSE IF "games" \in doc.blocked THEN [ok |-> FALSE, field |-> "games", games |-> doc.games]
    ELSE FoldLeft(LAMBDA acc, c : ApplyGame(acc, c.name, c.change),
                  [ok |-> TRUE, field |-> "", games |-> doc.games], changes)

-----------------------------------------------------------------------------
(* apply_patch.  A patch is [set, games]: the fields it names and, in the  *)
(* order of their names, the games.                                        *)

\* The first complaint about one field's value or its section.
Complaint(doc, field, v) ==
    CASE field \in {"mouse_cpi", "scale"} /\ v = NotANumber -> field
      [] field \in {"marker_hotkey", "dir", "hotkey"} /\ v.text \in {"lines", "long"} -> field
      [] field = "dir" /\ v.text = "" -> field
      [] SectionOf[field] \in doc.blocked -> SectionOf[field]
      [] OTHER -> ""

PatchOrder == <<"mouse_cpi", "marker_hotkey", "dir", "record", "hotkey">>
ObsOrder == <<"scale", "layout", "background", "hud", "hud_position">>

ApplyField(acc, field, patch) ==
    IF ~acc.ok \/ field \notin DOMAIN patch.set THEN acc
    ELSE LET v == patch.set[field]
             why == Complaint(acc.doc, field, v)
         IN  IF why # "" THEN [ok |-> FALSE, field |-> why, doc |-> acc.doc]
             ELSE [acc EXCEPT !.doc.keys = SetValue(@, field, Trim(field, v))]

ApplyPatch(doc, patch) ==
    LET fields(acc, order) == FoldLeft(LAMBDA a, f : ApplyField(a, f, patch), acc, order)
        first == fields([ok |-> TRUE, field |-> "", doc |-> doc], PatchOrder)
        games == ApplyGames(first.doc, patch.games)
        second == IF ~first.ok THEN first
                  ELSE [ok |-> games.ok, field |-> games.field,
                        doc |-> [first.doc EXCEPT !.games = games.games]]
        third == fields(second, ObsOrder)
    IN  IF doc = Broken THEN Refused("")
        ELSE IF third.ok THEN third ELSE Refused(third.field)

-----------------------------------------------------------------------------
(* AppConfig::from_toml of a document; Settings::from; changed; effects.   *)

ValueOf(field, v) == IF field \in {"marker_hotkey", "hotkey"} THEN v.chord
                     ELSE IF field = "dir" THEN [of |-> v.text, at |-> "relative"]
                     ELSE IF field = "background" THEN v.text ELSE v

ConfigOf(doc) ==
    [f \in Fields |->
        IF f = "games" THEN
             [i \in 1..Cardinality(DOMAIN doc.games) |->
                LET key == SetToSeq(DOMAIN doc.games)[i]
                    g == doc.games[key]
                IN  [key |-> key, sens |-> g.sens.v, yaw |-> g.yaw.v, pitch |-> g.pitch.v]]
        ELSE IF f \in DOMAIN doc.keys THEN ValueOf(f, doc.keys[f].v)
        ELSE Default[f]]

Checked(doc) ==
    IF \/ doc = Broken \/ doc.blocked # {}
       \/ \E g \in DOMAIN doc.games : doc.games[g] = NotATable
    THEN Refused("")
    ELSE IF IsValid(ConfigOf(doc)) THEN [ok |-> TRUE, config |-> ConfigOf(doc)]
    ELSE Refused(BadField(ConfigOf(doc)))

Settings(config) == [f \in Editable \cup {"games"} |-> config[f]]

GroupFields ==
    [mouse_cpi |-> {"mouse_cpi"}, marker_hotkey |-> {"marker_hotkey"},
     recording |-> {"record", "dir"}, ctl_hotkey |-> {"hotkey"}, games |-> {"games"},
     viz_obs |-> {"layout", "background", "hud", "hud_position", "scale", "trail", "buffer_ms",
                  "grid", "legend", "labels", "stale"}]
Changed(old, new) ==
    {g \in DOMAIN GroupFields : \E f \in GroupFields[g] : old[f] # new[f]}
ReadByCapture == {"mouse_cpi", "marker_hotkey", "games", "recording"}
ReadByViz == {"viz_obs", "recording"}
Effects(changed, capture_running, viz_running) ==
    [restart_required |-> changed \cap {"ctl_hotkey"},
     next_start |-> {c \in {"capture", "viz"} :
        \/ c = "capture" /\ capture_running /\ changed \cap ReadByCapture # {}
        \/ c = "viz" /\ viz_running /\ changed \cap ReadByViz # {}}]

-----------------------------------------------------------------------------
(* What a patch does not name stays as it was written, spelling included;  *)
(* what it names is what it says; applying a patch that names each game    *)
(* once a second time changes nothing; and sending back what the file      *)
(* holds leaves the text as it is.                                         *)
PatchIsExact(doc, patch) ==
    LET done == ApplyPatch(doc, patch)
        again == ApplyPatch(done.doc, patch)
        named == {GameKey(patch.games[i].name) : i \in DOMAIN patch.games}
                 \cup {patch.games[i].name : i \in DOMAIN patch.games}
        once == \A i, j \in DOMAIN patch.games :
                    GameKey(patch.games[i].name) = GameKey(patch.games[j].name) => i = j
        echo == [set |-> [f \in DOMAIN done.doc.keys |-> done.doc.keys[f].v], games |-> <<>>]
    IN  done.ok =>
          /\ \A f \in DOMAIN doc.keys \ DOMAIN patch.set : done.doc.keys[f] = doc.keys[f]
          /\ DOMAIN done.doc.keys = DOMAIN doc.keys \cup DOMAIN patch.set
          /\ \A f \in DOMAIN patch.set : done.doc.keys[f].v = Trim(f, patch.set[f])
          /\ \A g \in DOMAIN doc.games \ named : g \in DOMAIN done.doc.games
                                                 /\ done.doc.games[g] = doc.games[g]
          /\ DOMAIN done.doc.games \subseteq DOMAIN doc.games \cup named
          /\ once => again.ok /\ again.doc = done.doc
          /\ ApplyPatch(done.doc, echo).doc = done.doc

(* An edit that changes what a running program reads is reported for it,   *)
(* and only then.                                                          *)
EffectsAreTold(doc, patch) ==
    LET old == Checked(doc)
        done == ApplyPatch(doc, patch)
        new == Checked(done.doc)
        told == Effects(Changed(old.config, new.config), TRUE, TRUE)
        moved == {f \in Fields : old.config[f] # new.config[f]}
    IN  old.ok /\ done.ok /\ new.ok =>
          /\ moved = {} <=> told.next_start = {} /\ told.restart_required = {}
          /\ "capture" \in told.next_start <=>
                moved \cap {"mouse_cpi", "marker_hotkey", "games", "record", "dir"} # {}
          /\ moved \subseteq Editable \cup {"games"}
=============================================================================
