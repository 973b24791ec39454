------------------------------ MODULE Settings ------------------------------
(***************************************************************************)
(* settings.json (config/settings.go): a command loads the preferences,    *)
(* changes one of them, and writes the whole file back through a temporary *)
(* file of its own name, without a lock.                                   *)
(***************************************************************************)
CONSTANTS
  Cmd,     \* commands that change a preference
  Pref,    \* the preferences
  Choice,  \* what can be chosen for one
  Unset,   \* not chosen
  Absent,  \* no such file
  Torn     \* a file that is not, or not wholly, written

ASSUME SettingsAssumption ==
  /\ Unset \notin Choice
  /\ Absent # Torn
  /\ {Absent, Torn} \cap [Pref -> Choice \cup {Unset}] = {}

VARIABLES
  saved,   \* settings.json
  temp,    \* the temporary files, by name
  step,    \* each command: "load", "change", "create", "write", "rename", "done"
  mine,    \* the settings it has loaded
  sets,    \* the preference it changes
  latest,  \* auxiliary: each preference as it was last changed and saved
  older,   \* auxiliary: the commands that loaded before the last save
  undone   \* auxiliary: one of them has saved

auxVars == <<latest, older, undone>>
settingsVars == <<saved, temp, step, mine, sets, auxVars>>

SettingsOf == [Pref -> Choice \cup {Unset}]
Empty == [q \in Pref |-> Unset]
TempFile == Cmd \cup {"settings.json.tmp"}

SettingsTypeOK ==
  /\ saved \in SettingsOf \cup {Absent, Torn}
  /\ temp \in [TempFile -> SettingsOf \cup {Absent, Torn}]
  /\ step \in [Cmd -> {"load", "change", "create", "write", "rename", "done"}]
  /\ mine \in [Cmd -> SettingsOf]
  /\ sets \in [Cmd -> Pref]
  /\ latest \in SettingsOf /\ older \subseteq Cmd /\ undone \in BOOLEAN

Then(c, next) == step' = [step EXCEPT ![c] = next]

-----------------------------------------------------------------------------
\* A file that is not there has no preferences.
LoadSettings(c) ==
  /\ step[c] = "load" /\ saved # Torn
  /\ mine' = [mine EXCEPT ![c] = IF saved = Absent THEN Empty ELSE saved]
  /\ Then(c, "change")
  /\ UNCHANGED <<saved, temp, sets, auxVars>>

\* Any other error ends the command.
LoadSettingsFails(c) ==
  /\ step[c] = "load"
  /\ Then(c, "done")
  /\ UNCHANGED <<saved, temp, mine, sets, auxVars>>

\* SetToolModel and its like; an empty choice clears the entry.
SetPreference(c, q, choice) ==
  /\ step[c] = "change"
  /\ mine' = [mine EXCEPT ![c][q] = choice]
  /\ sets' = [sets EXCEPT ![c] = q]
  /\ Then(c, "create")
  /\ UNCHANGED <<saved, temp, auxVars>>

\* One name for every command.
FaultyTempName(c) == "settings.json.tmp"

TempName(c) == c

CreateTemp(c) ==
  /\ step[c] = "create"
  /\ temp' = [temp EXCEPT ![TempName(c)] = Torn]
  /\ Then(c, "write")
  /\ UNCHANGED <<saved, mine, sets, auxVars>>

WriteTemp(c) ==
  /\ step[c] = "write"
  /\ temp' = [temp EXCEPT ![TempName(c)] = mine[c]]
  /\ Then(c, "rename")
  /\ UNCHANGED <<saved, mine, sets, auxVars>>

\* The temporary file is settings.json; what others have loaded is older than it.
RenameTemp(c) ==
  /\ step[c] = "rename" /\ temp[TempName(c)] # Absent
  /\ saved' = temp[TempName(c)]
  /\ temp' = [temp EXCEPT ![TempName(c)] = Absent]
  /\ Then(c, "done")
  /\ latest' = [latest EXCEPT ![sets[c]] = mine[c][sets[c]]]
  /\ older' = {d \in Cmd \ {c} : step[d] \in {"change", "create", "write", "rename"}}
  /\ undone' = (undone \/ c \in older)
  /\ UNCHANGED <<mine, sets>>

\* A command that fails removes its temporary file, one that is killed leaves it.
SaveSettingsFails(c) ==
  /\ step[c] \in {"create", "write", "rename"}
  /\ temp' \in {temp, [temp EXCEPT ![TempName(c)] = Absent]}
  /\ Then(c, "done")
  /\ UNCHANGED <<saved, mine, sets, auxVars>>

-----------------------------------------------------------------------------
SettingsInit ==
  /\ saved \in SettingsOf \cup {Absent}
  /\ temp = [name \in TempFile |-> Absent]
  /\ step = [c \in Cmd |-> "load"]
  /\ mine = [c \in Cmd |-> Empty]
  /\ sets \in [Cmd -> Pref]
  /\ latest = IF saved = Absent THEN Empty ELSE saved
  /\ older = {}
  /\ undone = FALSE

SettingsNext ==
  \E c \in Cmd :
    \/ LoadSettings(c) \/ LoadSettingsFails(c)
    \/ \E q \in Pref, choice \in Choice \cup {Unset} : SetPreference(c, q, choice)
    \/ CreateTemp(c) \/ WriteTemp(c) \/ RenameTemp(c) \/ SaveSettingsFails(c)

\* settings.go:195 and 212: settings.json is whole at every moment, however the
\* commands that write it overlap, fail or are killed; and it holds each preference
\* as it was last changed, unless a command has saved what it loaded before another
\* one's save, which is the one way to lose a change.
SettingsKept ==
  /\ saved # Torn
  /\ ~undone => latest = IF saved = Absent THEN Empty ELSE saved
=============================================================================
