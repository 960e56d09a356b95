SPECIFICATION Spec
CONSTANTS
  App = {"wordpress", "adminer"}
  DatabaseApp = {"wordpress"}
  DocumentRoot <- MCRoots
  UserFiles <- MCFiles
  Path <- MCPaths
  DbName = {"d", "e"}
  Tab = {1, 2}
  MaxRun = 2
  Null = Null
INVARIANTS
  WebAppsTypeOK
  NothingOverwritten
  DatabaseAsVerified
