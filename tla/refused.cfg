SPECIFICATION Spec
CONSTANTS
  Package = {"apache", "php"}
  Interface = {"0.0.0.0"}
  Port = {80}
  Site = {s1}
  Command = {"start"}
  Timeout = 2
  MaxId = 2
  Null = Null
INVARIANT
  RefusedOnlyInUse
