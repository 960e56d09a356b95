SPECIFICATION Spec
CONSTANTS
  Name = {"localhost", "localhost.dev"}
  Under <- MCUnder
  Localhost = "localhost"
  Alias = {"www"}
  Page = {}
  Server = {"s1", "s2"}
  address <- MCAddress
  UserLines <- MCUserLines
  MaxSite = 1
  MaxFaults = 1
  Null = Null
INVARIANTS
  SitesTypeOK
  OneAddressPerName
  AnnouncedIsServed
  AnnouncedIsGone
  FatalSaveHeals
