SPECIFICATION Spec
CONSTANTS
  Name = {"localhost", "localhost.dev"}
  Under <- MCUnder
  Localhost = "localhost"
  Alias = {"www"}
  Page = {1}
  Server = {"s1"}
  address <- MCAddress
  UserLines <- MCUserLines
  MaxSite = 1
  MaxFaults = 1
  Null = Null
INVARIANTS
  NoOrphanHosts
PROPERTY TakesOnlySiteNames
