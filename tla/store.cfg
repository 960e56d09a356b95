SPECIFICATION FairSpec
CONSTANTS
  Catalogue <- MCCatalogue
  Uploads = {"u"}
  MaxPackage = 3
  MaxInstance = 2
  Garbage = Garbage
  Null = Null
INVARIANTS
  StoreTypeOK
  OnlyGenuineUnpacked
  InstancesKeepTheirClass
  HashMeansComplete
PROPERTIES
  SyncHeals
  ImplementsReplica
