SPECIFICATION FairSpec
CONSTANTS
  f1 = f1
  f2 = f2
  Files = {f1, f2}
  Stored = stored
  None = none
  Cleaners = {c1}
  Fields <- MCFields
  Lasting = {f1}
CHECK_DEADLOCK FALSE
INVARIANTS
  TypeOK
  ShownIsReadable
  SavedIsShown
PROPERTIES
  
  InvalidKeepsFiles
  StalledFilesGo
