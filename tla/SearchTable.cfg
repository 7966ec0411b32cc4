SPECIFICATION Spec
CONSTANTS
  None = none
  Names <- MCNames
  Forms <- MCForms
  Results <- MCResults
  Length = 1
  MaxDraws = 5
  MaxReloads = 1
CHECK_DEADLOCK FALSE
INVARIANTS
  TypeOK
  IndicatorIsHonest
  ExportIsShown
PROPERTIES
  ReloadAsksTheSame
