---------------------------- MODULE SettingsForm ----------------------------
(***************************************************************************)
(* The settings form of the panel's page (crates/ctl/src/panel.js): it     *)
(* re-reads the file's settings whenever a poll says that the file's time  *)
(* has changed, keeps what is being inputs, and sends the difference        *)
(* between the form and the settings it last read, with their token.  The  *)
(* server's side of a save, which SettingsEditor takes apart, is one step  *)
(* here; requests are answered in any order, or not at all.                *)
(*                                                                         *)
(* Settings are a function from Fields to Values; the token of a file is   *)
(* its contents.                                                           *)
(***************************************************************************)
EXTENDS Naturals, FiniteSets, Sequences

CONSTANTS Fields, Values,
          MaxEdits,     \* bound: changes of the file from outside
          MaxInputs,    \* bound: inputs into the form and submits
          MaxLoads      \* bound: reads of the settings in flight

VARIABLES file,       \* its settings and its time
          view,       \* cfgView: the settings read last; << >> before
          cfgMtime,   \* the time of the file when they were asked for; 0 is null
          loads,      \* loadConfig(false) calls under way: << >> or what the server sent
          form, dirty,
          save,       \* the submit handler and the one postConfig it makes
          edits, inputs,
          edited,     \* history: the fields typed into since the form was filled
          moved       \* history: the view changed under a form with edits

vars == <<file, view, cfgMtime, loads, form, dirty, save, edits, inputs, edited, moved>>
shown == <<view, form, dirty, edited, moved>>

AllSettings == [Fields -> Values]
Idle == [at |-> "idle", token |-> <<>>, patch |-> {}, form |-> <<>>, edited |-> {}, moved |-> FALSE]

Init ==
    /\ file \in [settings : AllSettings, time : {1}]
    /\ view = <<>> /\ cfgMtime = 0 /\ loads = <<>>
    /\ form = [f \in Fields |-> CHOOSE v \in Values : TRUE]
    /\ dirty = FALSE /\ save = Idle
    /\ edits = 0 /\ inputs = 0 /\ edited = {} /\ moved = FALSE

EditOutside ==
    /\ edits < MaxEdits /\ edits' = edits + 1
    /\ \E s \in AllSettings \ {file.settings} : file' = [settings |-> s, time |-> file.time + 1]
    /\ UNCHANGED <<cfgMtime, loads, save, inputs, shown>>

\* fillSettings: the form shows the view, and nothing in it is an edit.
FillSettings(settings) ==
    /\ form' = settings /\ dirty' = FALSE /\ edited' = {} /\ moved' = FALSE

-----------------------------------------------------------------------------
(* pollOnce and loadConfig.                                                *)

PollOnce ==
    /\ cfgMtime # file.time /\ Len(loads) < MaxLoads
    /\ cfgMtime' = file.time
    /\ loads' = Append(loads, <<>>)
    /\ UNCHANGED <<file, save, edits, inputs, shown>>

ServeLoad(i) ==
    /\ loads[i] = <<>>
    /\ loads' = [loads EXCEPT ![i] = <<file.settings>>]
    /\ UNCHANGED <<file, cfgMtime, save, edits, inputs, shown>>

Answered(i) == loads' = SubSeq(loads, 1, i - 1) \o SubSeq(loads, i + 1, Len(loads))

LoadConfig(i) ==
    /\ loads[i] # <<>>
    /\ Answered(i)
    /\ view' = loads[i]
    /\ IF ~dirty THEN FillSettings(loads[i][1])
       ELSE moved' = (moved \/ view # loads[i]) /\ UNCHANGED <<form, dirty, edited>>
    /\ UNCHANGED <<file, cfgMtime, save, edits, inputs>>
\* The next poll tries again.
LoadFails(i) ==
    /\ Answered(i) /\ cfgMtime' = 0
    /\ UNCHANGED <<file, save, edits, inputs, shown>>

-----------------------------------------------------------------------------
(* The form.                                                               *)

Type ==
    /\ view # <<>> /\ inputs < MaxInputs /\ inputs' = inputs + 1
    /\ \E f \in Fields, v \in Values :
          form' = [form EXCEPT ![f] = v] /\ edited' = edited \cup {f}
    /\ dirty' = TRUE
    /\ UNCHANGED <<file, view, cfgMtime, loads, save, edits, moved>>
Revert ==
    /\ dirty /\ view # <<>>
    /\ FillSettings(view[1])
    /\ UNCHANGED <<file, view, cfgMtime, loads, save, edits, inputs>>

\* collectPatch: the fields in which the form differs from the view.
CollectPatch == {f \in Fields : form[f] # view[1][f]}

Submit ==
    /\ dirty /\ save.at = "idle" /\ view # <<>>
    /\ inputs < MaxInputs /\ inputs' = inputs + 1
    /\ IF CollectPatch = {} THEN dirty' = FALSE /\ edited' = {} /\ moved' = FALSE /\ UNCHANGED save
       ELSE /\ save' = [at |-> "sent", token |-> view, patch |-> CollectPatch, form |-> form,
                        edited |-> edited, moved |-> moved]
            /\ UNCHANGED <<dirty, edited, moved>>
    /\ UNCHANGED <<file, view, cfgMtime, loads, form, edits>>

\* Faulty variant: the token is not looked at.
AnyToken == TRUE
Current == save.token = <<file.settings>>

\* api_config_save.
ServeSave ==
    /\ save.at = "sent"
    /\ IF Current
       THEN LET new == [f \in Fields |-> IF f \in save.patch THEN save.form[f]
                                         ELSE file.settings[f]]
            IN  /\ file' = [settings |-> new, time |-> file.time + 1]
                /\ save' = [save EXCEPT !.at = "saved", !.token = <<new>>]
       ELSE save' = [save EXCEPT !.at = "stale"] /\ UNCHANGED file
    /\ UNCHANGED <<cfgMtime, loads, edits, inputs, shown>>

\* What was typed since the submit is filled over.
SaveAnswer ==
    /\ save.at = "saved"
    /\ view' = save.token
    /\ FillSettings(save.token[1])
    /\ cfgMtime' = 0 /\ save' = Idle
    /\ UNCHANGED <<file, loads, edits, inputs>>
\* An error other than stale, from either side of the server's work: the
\* form stays as it is, to be saved again.
SaveFails ==
    /\ save.at \in {"sent", "saved"}
    /\ save' = Idle /\ dirty' = TRUE
    /\ UNCHANGED <<file, view, cfgMtime, loads, form, edits, inputs, edited, moved>>

\* 409: loadConfig(true), whose answer fills the form before it is marked.
ServeReload ==
    /\ save.at = "stale"
    /\ save' = [save EXCEPT !.at = "reread", !.token = <<file.settings>>]
    /\ UNCHANGED <<file, cfgMtime, loads, edits, inputs, shown>>
Reload ==
    /\ save.at = "reread"
    /\ view' = save.token /\ form' = save.token[1]
    /\ dirty' = TRUE /\ edited' = {} /\ moved' = FALSE
    /\ save' = Idle
    /\ UNCHANGED <<file, cfgMtime, loads, edits, inputs>>
ReloadFails ==
    /\ save.at \in {"stale", "reread"}
    /\ cfgMtime' = 0 /\ dirty' = TRUE /\ save' = Idle
    /\ UNCHANGED <<file, view, loads, form, edits, inputs, edited, moved>>

Next ==
    \/ EditOutside \/ PollOnce \/ Type \/ Revert \/ Submit
    \/ \E i \in DOMAIN loads : ServeLoad(i) \/ LoadConfig(i) \/ LoadFails(i)
    \/ ServeSave \/ SaveAnswer \/ SaveFails \/ ServeReload \/ Reload \/ ReloadFails

Spec == Init /\ [][Next]_vars

-----------------------------------------------------------------------------
(* A save that goes through makes the file what the form showed when it    *)
(* was submitted; and unless the settings were re-read under a form with   *)
(* edits, it changes no field that was not typed into.                     *)
SavesWhatIsShown ==
    [][save.at = "sent" /\ save'.at = "saved" =>
          /\ file'.settings = save.form
          /\ ~save.moved => \A f \in Fields \ save.edited :
                               file'.settings[f] = file.settings[f]]_vars

(* A form without edits shows the settings that were read last.            *)
FormShowsTheView == ~dirty /\ view # <<>> => form = view[1]

(* panel.js: "A stale token means the file changed under us: re-read it    *)
(* and say so, never write over it."                                       *)
NeverWritesOver ==
    [][save.at = "sent" /\ save'.at = "saved" =>
          \A f \in Fields \ save.edited : file'.settings[f] = file.settings[f]]_vars
=============================================================================
