SPECIFICATION Spec
CONSTANTS
  Instance = {"php1", "php2", "mysql1", "pgsql1"}
  kind <- MCKind
  UserPath <- MCPath
  Bin = Bin
  Null = Null
INVARIANTS
  SettingsTypeOK
  JunctionIsDefault
  PhpDefaultExists
  PathKept
