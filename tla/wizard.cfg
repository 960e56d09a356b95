SPECIFICATION WSpec
CONSTANTS
  Package = {"apache", "php"}
  Interface = {"0.0.0.0", "127.0.0.1"}
  Port = {80, 443}
  Site = {s1}
  Command = {"stop"}
  Timeout = 1
  MaxId = 2
  Null = Null
  Tab = {t1}
INVARIANTS
  WTypeOK
  EndpointsExclusive
  InstallReadsItsOwnForm
  EndpointsOwned
  InstallsIntoFreshPlace
PROPERTIES
  DeletionLeavesNoReference
  ImplementsRegistry
