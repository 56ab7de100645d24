SPECIFICATION SettingsSpec
CONSTANTS
  d0 = d0
  d1 = d1
  Value <- MCValue
  Default <- MCDefault
  Malformed = Malformed
  Missing = Missing
  NoFile = NoFile
  InitialFile <- MCInitialFile
INVARIANTS
  AllThere
  UsedAsMeant
  FileFollows
  MenuShowsSetting
