-------------------------- MODULE Settings_proofs --------------------------
(***************************************************************************)
(* The invariants of Settings, for any values, defaults and initial files. *)
(*                                                                         *)
(* They are not inductive: what a start makes of the file depends on what  *)
(* the last run, or the saves that failed in it, left there.  IInv adds    *)
(* that between runs an intact file has what the user has chosen.          *)
(***************************************************************************)
EXTENDS Settings, TLAPS

Kept ==
  ~running /\ intact => meant = IF file = NoFile THEN Default ELSE HasSet(file)

IInv ==
  /\ SettingsTypeOK
  /\ AllThere
  /\ UsedAsMeant
  /\ FileFollows
  /\ MenuShowsSetting
  /\ Kept

-----------------------------------------------------------------------------
\* checkMissingSettings leaves each key as the user has it, and none missing.
LEMMA RepairFindsAll ==
  ASSUME NEW ini \in Ini
  PROVE  /\ CheckMissingSettings(ini) = HasSet(ini)
         /\ CheckMissingSettings(ini) \in Keys
         /\ \A k \in Key : CheckMissingSettings(ini)[k] # Missing
<1> DEFINE C == CheckMissingSettings(ini)
           H == HasSet(ini)
<1>1. ASSUME NEW k \in Key
      PROVE  /\ C[k] = H[k]
             /\ C[k] \in Value \cup {Malformed}
  <2>1. /\ ini.settings[k] \in Value \cup {Malformed, Missing}
        /\ ini.unsectioned[k] \in Value \cup {Malformed, Missing}
        /\ Default[k] \in Value
    BY <1>1, DefaultAssumption DEF Ini, Keys
  <2>2. C[k] = IF ini.settings[k] # Missing THEN ini.settings[k]
               ELSE IF k \in PortKey THEN Migrated(k, ini) ELSE Default[k]
    BY <1>1 DEF CheckMissingSettings
  <2>3. H[k] = IF ini.settings[k] # Missing THEN ini.settings[k]
               ELSE IF k \in PortKey /\ ini.unsectioned[k] \in Value
                    THEN ini.unsectioned[k]
               ELSE Default[k]
    BY <1>1 DEF HasSet
  <2> QED BY <2>1, <2>2, <2>3, NoValueAssumption DEF Migrated
<1>2. C = [k \in Key |-> C[k]] /\ H = [k \in Key |-> H[k]]
  BY DEF CheckMissingSettings, HasSet
<1>3. C = H
  BY <1>1, <1>2
<1>4. C \in Keys
  BY <1>1, <1>2 DEF Keys
<1>5. \A k \in Key : C[k] # Missing
  BY <1>1, NoValueAssumption
<1> QED BY <1>3, <1>4, <1>5

\* A file in the form that SaveFile gives it means what was saved.
LEMMA SavedMeansItself ==
  ASSUME NEW m \in Keys, \A k \in Key : m[k] # Missing
  PROVE  LET ini == [settings |-> m, unsectioned |-> NoKeys]
         IN  ini \in Ini /\ ini # NoFile /\ HasSet(ini) = m
<1> DEFINE ini == [settings |-> m, unsectioned |-> NoKeys]
<1>1. ini \in Ini
  BY DEF Ini, Keys, NoKeys
<1>2. ini # NoFile
  BY <1>1, FileAssumption
<1>3. ini.settings = m
  OBVIOUS
<1>4. \A k \in Key : HasSet(ini)[k] = m[k]
  BY <1>3 DEF HasSet
<1>5. m = [k \in Key |-> m[k]] /\ HasSet(ini) = [k \in Key |-> HasSet(ini)[k]]
  BY DEF Keys, HasSet
<1>6. HasSet(ini) = m
  BY <1>4, <1>5
<1> QED BY <1>1, <1>2, <1>6

\* Whatever becomes of a save, the file is one the program can be started
\* from, and it is what was saved if the save succeeded.
LEMMA SaveLeavesFile ==
  ASSUME NEW m \in Keys, SaveFile(m), file \in Ini \cup {NoFile}
  PROVE  /\ file' \in Ini \cup {NoFile}
         /\ intact' \in BOOLEAN
         /\ intact' => file' = [settings |-> m, unsectioned |-> NoKeys]
<1>1. ASSUME NEW written \in SUBSET Key
      PROVE  [settings |-> [k \in Key |-> IF k \in written THEN m[k] ELSE Missing],
              unsectioned |-> NoKeys] \in Ini
  BY DEF Ini, Keys, NoKeys
<1>2. [settings |-> m, unsectioned |-> NoKeys] \in Ini
  BY DEF Ini, Keys, NoKeys
<1> QED BY <1>1, <1>2 DEF SaveFile

\* A file that nobody had to repair is in the form that SaveFile gives it.
LEMMA NothingToSave ==
  ASSUME NEW ini \in Ini, ~SaveNeeded(ini)
  PROVE  ini = [settings |-> CheckMissingSettings(ini), unsectioned |-> NoKeys]
<1>1. ini.settings = [k \in Key |-> ini.settings[k]]
  BY DEF Ini, Keys
<1>2. \A k \in Key : CheckMissingSettings(ini)[k] = ini.settings[k]
  BY DEF SaveNeeded, CheckMissingSettings
<1>3. CheckMissingSettings(ini) = [k \in Key |-> CheckMissingSettings(ini)[k]]
  BY DEF CheckMissingSettings
<1>4. CheckMissingSettings(ini) = ini.settings
  BY <1>1, <1>2, <1>3
<1> QED BY <1>4 DEF Ini, SaveNeeded

-----------------------------------------------------------------------------
LEMMA InitIInv == SettingsInit => IInv
<1> SUFFICES ASSUME SettingsInit PROVE IInv
  OBVIOUS
<1>1. Default \in Keys
  BY DefaultAssumption DEF Keys
<1>2. file = NoFile \/ file \in Ini
  BY FileAssumption DEF SettingsInit
<1>3. meant \in Keys
  BY <1>1, <1>2, RepairFindsAll DEF SettingsInit
<1>4. SettingsTypeOK
  BY <1>2, <1>3 DEF SettingsInit, SettingsTypeOK, Keys, NoKeys
<1> QED BY <1>4 DEF SettingsInit, IInv, AllThere, UsedAsMeant, FileFollows,
                    MenuShowsSetting, Kept

\* The constructor, from whatever file the last run left.
LEMMA LoadIInv ==
  ASSUME IInv, ~running, Load \/ SetDefaultValues
  PROVE  /\ file' \in Ini \cup {NoFile}
         /\ intact' \in BOOLEAN
         /\ memory' \in Keys
         /\ meant' = memory'
         /\ \A k \in Key : memory'[k] # Missing
         /\ intact' => file' = [settings |-> memory', unsectioned |-> NoKeys]
<1>1. CASE Load
  <2>1. file \in Ini
    BY <1>1 DEF Load, IInv, SettingsTypeOK
  <2>2. /\ memory' = HasSet(file)
        /\ memory' \in Keys
        /\ \A k \in Key : memory'[k] # Missing
    BY <1>1, <2>1, RepairFindsAll DEF Load
  <2>3. meant' = memory'
    BY <1>1, <2>2 DEF Load, IInv, Kept
  <2>4. CASE SaveNeeded(file)
    BY <1>1, <2>1, <2>2, <2>3, <2>4, SaveLeavesFile DEF Load
  <2>5. CASE ~SaveNeeded(file)
    BY <1>1, <2>1, <2>2, <2>3, <2>5, NothingToSave DEF Load
  <2> QED BY <2>4, <2>5
<1>2. CASE SetDefaultValues
  <2>1. Default \in Keys /\ \A k \in Key : Default[k] # Missing
    BY DefaultAssumption, NoValueAssumption DEF Keys
  <2>2. file \in Ini \cup {NoFile}
    BY DEF IInv, SettingsTypeOK
  <2> QED BY <1>2, <2>1, <2>2, SaveLeavesFile DEF SetDefaultValues
<1> QED BY <1>1, <1>2

\* A setter: one key gets a new value, in memory, in the file and in the
\* user's mind.
LEMMA SetterIInv ==
  ASSUME IInv, running, NEW k \in Key, NEW value \in Value,
         memory' = [memory EXCEPT ![k] = value],
         meant' = [meant EXCEPT ![k] = value],
         SaveFile(memory')
  PROVE  /\ file' \in Ini \cup {NoFile}
         /\ intact' \in BOOLEAN
         /\ memory' \in Keys
         /\ meant' = memory'
         /\ \A key \in Key : memory'[key] # Missing
         /\ intact' => file' = [settings |-> memory', unsectioned |-> NoKeys]
<1>1. memory \in Keys /\ meant = memory /\ file \in Ini \cup {NoFile}
      /\ \A key \in Key : memory[key] # Missing
  BY DEF IInv, SettingsTypeOK, UsedAsMeant, AllThere
<1>2. memory' \in Keys
  BY <1>1 DEF Keys
<1>3. \A key \in Key : memory'[key] # Missing
  BY <1>1, NoValueAssumption DEF Keys
<1> QED BY <1>1, <1>2, <1>3, SaveLeavesFile

LEMMA NextIInv == IInv /\ [SettingsNext]_vars => IInv'
<1> SUFFICES ASSUME IInv, [SettingsNext]_vars PROVE IInv'
  OBVIOUS
<1>1. CASE Start
  <2>1. ~running /\ running' = TRUE /\ (Load \/ SetDefaultValues)
        /\ menu' = IsTrue(memory'["check_updates"])
    BY <1>1 DEF Start, InitMenu
  <2> QED BY <2>1, LoadIInv DEF IInv, SettingsTypeOK, AllThere, UsedAsMeant,
            FileFollows, MenuShowsSetting, Kept, IsTrue
<1>2. CASE SetCheckUpdates
  <2> DEFINE value == IF menu' THEN "true" ELSE "false"
  <2>1. running /\ running' = TRUE /\ menu' = ~menu /\ menu' \in BOOLEAN
        /\ memory \in Keys
    BY <1>2 DEF SetCheckUpdates, IInv, SettingsTypeOK
  <2>2. CASE IsTrue(memory["check_updates"]) = menu'
    BY <1>2, <2>1, <2>2 DEF SetCheckUpdates, IInv, MenuShowsSetting, SettingsTypeOK
  <2>3. CASE IsTrue(memory["check_updates"]) # menu'
    <3>1. /\ memory' = [memory EXCEPT !["check_updates"] = value]
          /\ meant' = [meant EXCEPT !["check_updates"] = value]
          /\ SaveFile(memory')
      BY <1>2, <2>3 DEF SetCheckUpdates
    <3>2. value \in Value /\ "check_updates" \in Key
      BY BoolAssumption DEF Key
    <3>3. memory'["check_updates"] = value
      BY <2>1, <3>1, <3>2 DEF Keys
    <3>4. menu' = IsTrue(memory'["check_updates"])
      BY <2>1, <3>3 DEF IsTrue
    <3>5. /\ file' \in Ini \cup {NoFile}
          /\ intact' \in BOOLEAN
          /\ memory' \in Keys
          /\ meant' = memory'
          /\ \A key \in Key : memory'[key] # Missing
          /\ intact' => file' = [settings |-> memory', unsectioned |-> NoKeys]
      BY <2>1, <3>1, <3>2, SetterIInv
    <3> QED BY <2>1, <3>4, <3>5 DEF IInv, SettingsTypeOK, AllThere, UsedAsMeant,
              FileFollows, MenuShowsSetting, Kept
  <2> QED BY <2>2, <2>3
<1>3. ASSUME NEW id \in Value, SetCaptureDevice(id) PROVE IInv'
  <2>1. running /\ running' = TRUE /\ menu' = menu
    BY <1>3 DEF SetCaptureDevice, IInv, SettingsTypeOK
  <2>2. CASE memory["capture_device"] = id
    BY <1>3, <2>1, <2>2 DEF SetCaptureDevice, IInv, SettingsTypeOK, AllThere,
       UsedAsMeant, FileFollows, MenuShowsSetting, Kept
  <2>3. CASE memory["capture_device"] # id
    <3>1. /\ memory' = [memory EXCEPT !["capture_device"] = id]
          /\ meant' = [meant EXCEPT !["capture_device"] = id]
          /\ SaveFile(memory')
      BY <1>3, <2>3 DEF SetCaptureDevice
    <3>2. "capture_device" \in Key /\ "check_updates" \in Key
      BY DEF Key
    <3>3. memory'["check_updates"] = memory["check_updates"]
      BY <3>1, <3>2 DEF Keys, IInv, SettingsTypeOK
    <3>4. menu' = IsTrue(memory'["check_updates"])
      BY <2>1, <3>3 DEF IInv, MenuShowsSetting
    <3>5. /\ file' \in Ini \cup {NoFile}
          /\ intact' \in BOOLEAN
          /\ memory' \in Keys
          /\ meant' = memory'
          /\ \A key \in Key : memory'[key] # Missing
          /\ intact' => file' = [settings |-> memory', unsectioned |-> NoKeys]
      BY <2>1, <3>1, <3>2, <1>3, SetterIInv
    <3> QED BY <2>1, <3>4, <3>5 DEF IInv, SettingsTypeOK, AllThere, UsedAsMeant,
              FileFollows, MenuShowsSetting, Kept
  <2> QED BY <2>2, <2>3
<1>4. CASE Stop
  <2>1. memory' \in Keys
    BY <1>4 DEF Stop, Keys, NoKeys
  <2>2. ASSUME intact PROVE file # NoFile /\ meant = HasSet(file)
    BY <1>4, <2>2, SavedMeansItself DEF Stop, IInv, SettingsTypeOK, AllThere,
       UsedAsMeant, FileFollows
  <2> QED BY <1>4, <2>1, <2>2 DEF Stop, IInv, SettingsTypeOK, AllThere,
            UsedAsMeant, FileFollows, MenuShowsSetting, Kept
<1>5. CASE Delete
  <2>1. Default \in Keys
    BY DefaultAssumption DEF Keys
  <2> QED BY <1>5, <2>1 DEF Delete, IInv, SettingsTypeOK, AllThere, UsedAsMeant,
            FileFollows, MenuShowsSetting, Kept
<1>6. CASE UNCHANGED vars
  BY <1>6 DEF vars, IInv, SettingsTypeOK, AllThere, UsedAsMeant, FileFollows,
     MenuShowsSetting, Kept
<1> QED BY <1>1, <1>2, <1>3, <1>4, <1>5, <1>6 DEF SettingsNext

-----------------------------------------------------------------------------
\* Whatever file the program is started from, however often it ends or a save
\* fails, the getters find every key.
THEOREM EverySettingThere == SettingsSpec => []AllThere
<1>1. IInv => AllThere
  BY DEF IInv
<1> QED BY InitIInv, NextIInv, <1>1, PTL DEF SettingsSpec

\* What the user has chosen is what the program uses, through migrations,
\* repairs and restarts.
THEOREM ChoicesSurvive == SettingsSpec => []UsedAsMeant
<1>1. IInv => UsedAsMeant
  BY DEF IInv
<1> QED BY InitIInv, NextIInv, <1>1, PTL DEF SettingsSpec

\* After a save that succeeded the file has exactly what the program uses.
THEOREM FileIsCurrent == SettingsSpec => []FileFollows
<1>1. IInv => FileFollows
  BY DEF IInv
<1> QED BY InitIInv, NextIInv, <1>1, PTL DEF SettingsSpec

\* The check mark of the menu is the value of the setting.
THEOREM MenuIsCurrent == SettingsSpec => []MenuShowsSetting
<1>1. IInv => MenuShowsSetting
  BY DEF IInv
<1> QED BY InitIInv, NextIInv, <1>1, PTL DEF SettingsSpec
=============================================================================
