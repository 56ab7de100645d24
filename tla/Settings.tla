------------------------------ MODULE Settings ------------------------------
(***************************************************************************)
(* The settings (Settings.cpp), kept in memory and in settings.ini, over   *)
(* runs of the program that may end at any moment.                         *)
(*                                                                         *)
(* The file is written as a whole and in place: it is opened, which        *)
(* empties it, then its lines are written.  Nobody looks at the result of  *)
(* SaveFile, so after one that failed, or that the program did not live to *)
(* finish, the file has its old content or some of the lines.  All of the  *)
(* settings are used on the UI thread.                                     *)
(***************************************************************************)
EXTENDS Naturals

CONSTANTS
  Value,          \* the values that settings can have
  Default,        \* DefaultValue, by key
  Malformed,      \* a value that cannot be read as its key's type
  Missing,        \* the value of a key that is not there
  NoFile,         \* the content of a file that does not exist
  InitialFile     \* what the file may be at first

PortKey == {"server_port", "client_port"}
Key == PortKey \cup {"check_updates", "capture_device"}
Keys == [Key -> Value \cup {Malformed, Missing}]

\* The keys of the sections network and general, and those without a section,
\* where versions up to 0.5.2 had the ports.
Ini == [settings : Keys, unsectioned : Keys]

ASSUME DefaultAssumption == Default \in [Key -> Value]
ASSUME BoolAssumption == {"true", "false"} \subseteq Value
ASSUME NoValueAssumption == {Malformed, Missing} \cap Value = {} /\ Malformed # Missing
ASSUME FileAssumption == InitialFile \subseteq Ini \cup {NoFile} /\ NoFile \notin Ini

VARIABLES
  file,           \* settings.ini
  running,        \* the program runs and has its settings
  memory,         \* ini_: the keys in their sections
  menu,           \* the check mark of IDM_CHECK_UPDATES_ON_START
  intact,         \* history: no save has failed since one succeeded
  meant           \* history: what the user has the settings at

vars == <<file, running, memory, menu, intact, meant>>

NoKeys == [k \in Key |-> Missing]

\* GetBoolValue, whose default is false.
IsTrue(v) == v = "true"

-----------------------------------------------------------------------------
\* (A slip: the keys without a section are gone before they are looked at.)
ForgetLegacy(k, ini) == Default[k]

\* The migration of a port: GetLongValue with the key's default.
Migrated(k, ini) ==
  IF ini.unsectioned[k] \in {Missing, Malformed} THEN Default[k] ELSE ini.unsectioned[k]

\* (A slip: one of the keys is not looked at.)
AllButDevice(ini) ==
  [k \in Key |->
     IF ini.settings[k] # Missing \/ k = "capture_device" THEN ini.settings[k]
     ELSE IF k \in PortKey THEN Migrated(k, ini)
     ELSE Default[k]]

\* checkMissingSettings: what becomes of the keys, and whether to save them.
\* A value that is there is kept, malformed or not.
CheckMissingSettings(ini) ==
  [k \in Key |->
     IF ini.settings[k] # Missing THEN ini.settings[k]
     ELSE IF k \in PortKey THEN Migrated(k, ini)
     ELSE Default[k]]

SaveNeeded(ini) ==
  \/ \E k \in Key : ini.settings[k] = Missing
  \/ ini.unsectioned # NoKeys

\* SaveFile: the file is written, is not opened, or is not written to the end.
SaveFile(m) ==
  \/ /\ file' = [settings |-> m, unsectioned |-> NoKeys]
     /\ intact' = TRUE
  \/ /\ UNCHANGED file
     /\ intact' = FALSE
  \/ /\ \E written \in SUBSET Key :
          file' = [settings |-> [k \in Key |-> IF k \in written THEN m[k] ELSE Missing],
                   unsectioned |-> NoKeys]
     /\ intact' = FALSE

\* What a user has the settings at who has this file: the key in its section
\* counts, then the port of an earlier version, then the default.
HasSet(ini) ==
  [k \in Key |->
     IF ini.settings[k] # Missing THEN ini.settings[k]
     ELSE IF k \in PortKey /\ ini.unsectioned[k] \in Value THEN ini.unsectioned[k]
     ELSE Default[k]]

SettingsInit ==
  /\ file \in InitialFile
  /\ running = FALSE
  /\ memory = NoKeys
  /\ menu = FALSE
  /\ intact = TRUE
  /\ meant = IF file = NoFile THEN Default ELSE HasSet(file)

-----------------------------------------------------------------------------
\* The constructor, from a file that LoadFile can load.
Load ==
  /\ file # NoFile
  /\ memory' = CheckMissingSettings(file)
  /\ IF SaveNeeded(file) THEN SaveFile(memory')
     ELSE UNCHANGED file /\ intact' = TRUE
  /\ meant' = IF intact THEN meant ELSE memory'

\* From none, or one that cannot be opened or read: the defaults are saved.
SetDefaultValues ==
  /\ memory' = Default
  /\ SaveFile(Default)
  /\ meant' = Default

\* (A slip: the menu item is left as the resource has it.)
InitMenuUnchecked == menu' = FALSE

\* initMenu.
InitMenu == menu' = IsTrue(memory'["check_updates"])

\* initSettings and initMenu, in SoundRemoteApp::run.
Start ==
  /\ ~running
  /\ running' = TRUE
  /\ Load \/ SetDefaultValues
  /\ InitMenu

\* (A slip: setCheckUpdates that does not save.)
SetAndForget ==
  /\ running
  /\ menu' = ~menu
  /\ LET value == IF menu' THEN "true" ELSE "false"
     IN  /\ memory' = [memory EXCEPT !["check_updates"] = value]
         /\ meant' = [meant EXCEPT !["check_updates"] = value]
  /\ UNCHANGED <<running, file, intact>>

\* The menu command: toggleMenuItem and setCheckUpdates.
SetCheckUpdates ==
  /\ running
  /\ menu' = ~menu
  /\ LET value == IF menu' THEN "true" ELSE "false"
     IN  IF IsTrue(memory["check_updates"]) = menu'
         THEN UNCHANGED <<memory, file, intact, meant>>
         ELSE /\ memory' = [memory EXCEPT !["check_updates"] = value]
              /\ SaveFile(memory')
              /\ meant' = [meant EXCEPT !["check_updates"] = value]
  /\ UNCHANGED running

\* setCaptureDevice, called by Devices.
SetCaptureDevice(id) ==
  /\ running
  /\ IF memory["capture_device"] = id
     THEN UNCHANGED <<memory, file, intact, meant>>
     ELSE /\ memory' = [memory EXCEPT !["capture_device"] = id]
          /\ SaveFile(memory')
          /\ meant' = [meant EXCEPT !["capture_device"] = id]
  /\ UNCHANGED <<running, menu>>

\* The program ends, in whatever way.
Stop ==
  /\ running
  /\ running' = FALSE
  /\ memory' = NoKeys
  /\ UNCHANGED <<file, menu, intact, meant>>

\* The user deletes the file between two runs.
Delete ==
  /\ ~running /\ file # NoFile
  /\ file' = NoFile
  /\ intact' = TRUE
  /\ meant' = Default
  /\ UNCHANGED <<running, memory, menu>>

SettingsNext ==
  \/ Start
  \/ SetCheckUpdates
  \/ \E id \in Value : SetCaptureDevice(id)
  \/ Stop
  \/ Delete

SettingsSpec == SettingsInit /\ [][SettingsNext]_vars

-----------------------------------------------------------------------------
\* The types of the settings' state.
SettingsTypeOK ==
  /\ file \in Ini \cup {NoFile}
  /\ running \in BOOLEAN
  /\ memory \in Keys
  /\ menu \in BOOLEAN
  /\ intact \in BOOLEAN
  /\ meant \in Keys

\* Whatever file the program is started from, of any version, damaged by a
\* save that was cut short or edited, no key is missing afterwards: the
\* getters, one of which follows the pointer to the value, find them all.
AllThere == running => \A k \in Key : memory[k] # Missing

\* Over any number of runs, migrations and repairs, what the user last chose,
\* or had before, is what the program uses; only a save that failed, or a
\* file that could not be read, ever makes it something else.
UsedAsMeant == running => memory = meant

\* While the program runs, the file has exactly what it uses, unless the last
\* save failed; ports without a section are then gone, and cannot come back.
FileFollows ==
  running /\ intact => file = [settings |-> memory, unsectioned |-> NoKeys]

\* The menu shows the setting, also when its value cannot be read.
MenuShowsSetting == running => menu = IsTrue(memory["check_updates"])
=============================================================================
