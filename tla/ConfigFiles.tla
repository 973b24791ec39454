----------------------------- MODULE ConfigFiles -----------------------------
(***************************************************************************)
(* The files of the configuration directory that processes share without a *)
(* lock: credentials.json with its relay key, settings.json, and the       *)
(* sanitizer's key.  No step touches two of them, so a behavior is about   *)
(* one and leaves the others as they were.                                 *)
(***************************************************************************)
EXTENDS RelayCache, Settings, InstallKey

VARIABLE file  \* the file the behavior is about

filesVars == <<file, cacheVars, settingsVars, installVars>>

FilesTypeOK ==
  /\ file \in {"credentials.json", "settings.json", "sanitizer-key"}
  /\ CacheTypeOK /\ SettingsTypeOK /\ InstallKeyTypeOK

\* The files the behavior is not about are not there yet.
FilesInit ==
  /\ file \in {"credentials.json", "settings.json", "sanitizer-key"}
  /\ CacheInit /\ SettingsInit /\ InstallInit
  /\ file # "credentials.json" => disk = Blank
  /\ file # "settings.json" => saved = Absent /\ sets = [c \in Cmd |-> CHOOSE q \in Pref : TRUE]
  /\ file # "sanitizer-key" => keyFile = [there |-> FALSE, private |-> TRUE, key |-> NoKey]

FilesNext ==
  /\ UNCHANGED file
  /\ \/ file = "credentials.json" /\ CacheNext /\ UNCHANGED <<settingsVars, installVars>>
     \/ file = "settings.json" /\ SettingsNext /\ UNCHANGED <<cacheVars, installVars>>
     \/ file = "sanitizer-key" /\ InstallNext /\ UNCHANGED <<cacheVars, settingsVars>>

FilesSpec == FilesInit /\ [][FilesNext]_filesVars
=============================================================================
